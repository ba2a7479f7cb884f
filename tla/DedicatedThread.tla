--------------------------- MODULE DedicatedThread ---------------------------
(***************************************************************************)
(* The Dedicated Threads of a started topology (DedicatedThreadRuntime and *)
(* DedicatedThreadControl). Each has one persistent trampoline that sleeps *)
(* on the wake signal of its managed context, runs the bound callable once *)
(* per activation, and publishes the end of the activation to those that   *)
(* joined it. Callables and other application threads start, stop, wake    *)
(* and join the threads; shutdown stops them, polls them and joins their   *)
(* trampolines.                                                            *)
(*                                                                         *)
(* Every thread has a mutex. A critical section is one action, guarded by  *)
(* lock[t] = None, except that of StartActivation: it reads the lifecycle, *)
(* which another mutex protects, and goes on holding its own.              *)
(***************************************************************************)
EXTENDS Naturals

CONSTANTS
    Threads,         \* the Dedicated Threads, each a managed context
    Workers,         \* contexts of Task Workers, whose callables may join threads
    Unmanaged,       \* other callers, which the router resolves to no context
    Starters,        \* the callers whose code starts threads
    Joiners,         \* the callers whose code joins threads
    Budgets,         \* the wait budgets that callables use
    Faulty,          \* the contexts whose signal provider may fail
    MaxActivations,  \* bound of this model: activations of each thread
    None             \* no caller

Contexts == Threads \cup Workers
Callers  == Contexts \cup Unmanaged

ASSUME ThreadAssumption ==
    /\ Threads \cap Workers = {} /\ Contexts \cap Unmanaged = {}
    /\ None \notin Callers
    /\ Starters \subseteq Callers /\ Joiners \subseteq Callers
    /\ Budgets \subseteq {"Forever", "Finite"}
    /\ Faulty \subseteq Contexts
    /\ MaxActivations \in Nat

VARIABLES
    lifecycle,    \* InfrastructureLifecycle and the progress of shutdown
    visited,      \* the threads that the current pass of shutdown is done with
    lock,         \* the holder of each thread's mutex, or None
    control,      \* DedicatedThreadControl: the state and the phase bit
    joinWaiters,  \* _joinWaiters of each thread
    signalled,    \* the contexts whose latched wake signal is set
    pc,           \* where each caller is
    call,         \* the operation each caller has in progress
    phase,        \* activationPhase of each trampoline
    activations,  \* history: how often each thread was activated
    executing     \* history: the activation each trampoline took up last

shutdownVars == <<lifecycle, visited>>
historyVars  == <<activations, executing>>
vars == <<shutdownVars, lock, control, joinWaiters, signalled, pc, call, phase, historyVars>>

-----------------------------------------------------------------------------
Active == {"Running", "RunningStopRequested"}

Control == [state : {"NeverStarted", "Stopped"} \cup Active, phase : BOOLEAN]

JoinRegistration == [context : Contexts, phase : BOOLEAN]

\* activation is history: the activation that is current when a Join captures a phase.
Call   == [target : Threads \cup {None}, budget : {"Forever", "Finite", "none"},
           phase : BOOLEAN, activation : Nat]
NoCall == [target |-> None, budget |-> "none", phase |-> FALSE, activation |-> 0]

RegisteredSteps == {"join-asleep", "join-woken", "join-settle", "join-leave"}
JoinSteps       == {"join"} \cup RegisteredSteps
CallableSteps   == {"user", "start", "activate", "wait-asleep", "returned"} \cup JoinSteps
Steps           == {"loop", "inspect", "idle", "exited"} \cup CallableSteps

Lifecycles == {"Started", "ShuttingDown", "Polling", "Finalizing", "ShutdownComplete"}

CanActivate     == lifecycle = "Started"
ShouldTerminate == lifecycle # "Started"

\* Variant: a caller without managed context is not turned away.
IsManagedOrNot(c) == TRUE

\* The router finds a context for the caller; only a managed context can wait.
IsManaged(c) == c \in Contexts

\* IsContextInterrupted: a thread answers for its own context, with its own mutex; what
\* the facility of a Worker answers is not known here.
AnswersInterrupted(c, interrupted) ==
    c \in Threads =>
        /\ lock[c] = None
        /\ interrupted = (control[c].state = "RunningStopRequested" \/ ShouldTerminate)

\* Variant: a stop request already counts as the end of the activation.
StoppedOnceRequested(t, captured) ==
    control[t].phase # captured \/ control[t].state # "Running"

\* Variant: a thread that was started again is not recognised.
StoppedOnlyNow(t, captured) == control[t].state = "Stopped"

IsActivationStopped(t, captured) ==
    control[t].phase # captured \/ control[t].state = "Stopped"

\* Variant: the lifecycle is not read again under the mutex.
MayStartUngated(t) == control[t].state \notin Active

\* Variant: a thread that was asked to stop can be started.
MayStartWhileStopping(t) == CanActivate /\ control[t].state # "Running"

MayStart(t) == CanActivate /\ control[t].state \notin Active

\* Variant: a thread that was asked to stop counts as quiescent.
QuiescentOnceRequested(t) == control[t].state # "Running"

IsExecutionQuiescent(t) == control[t].state \notin Active

-----------------------------------------------------------------------------
(* Helpers.                                                                *)

\* Latches the signals of the targets, except some whose provider fails.
Notify(targets) ==
    \E lost \in SUBSET (targets \cap Faulty) : signalled' = signalled \cup (targets \ lost)

\* Variant: the waiters of the phase that comes next are woken.
JoinersOfNext(t, p) == {w.context : w \in {v \in joinWaiters[t] : v.phase # p}}

\* Variant: the first registration found ends the visit.
FirstJoinerOf(t, p) ==
    LET all == {w.context : w \in {v \in joinWaiters[t] : v.phase = p}}
    IN  IF all = {} THEN {} ELSE {CHOOSE c \in all : TRUE}

JoinersOf(t, p) == {w.context : w \in {v \in joinWaiters[t] : v.phase = p}}

Registered(c) == [context |-> c, phase |-> call[c].phase]

\* Variant: the registration is left behind.
Forgotten(t, c) == joinWaiters

Unregistered(t, c) == [joinWaiters EXCEPT ![t] = @ \ {Registered(c)}]

Goto(c, step) == pc' = [pc EXCEPT ![c] = step]

Return(c) == Goto(c, "user") /\ call' = [call EXCEPT ![c] = NoCall]

TakeSignal(c) == c \in signalled /\ signalled' = signalled \ {c}

WaitGivesUp(c) == call[c].budget = "Finite" \/ c \in Faulty

-----------------------------------------------------------------------------
Init ==
    /\ lifecycle = "Started"
    /\ visited = {}
    /\ lock = [t \in Threads |-> None]
    /\ control = [t \in Threads |-> [state |-> "NeverStarted", phase |-> FALSE]]
    /\ joinWaiters = [t \in Threads |-> {}]
    /\ signalled = {}
    /\ pc = [c \in Callers |-> IF c \in Threads THEN "loop" ELSE "user"]
    /\ call = [c \in Callers |-> NoCall]
    /\ phase = [t \in Threads |-> FALSE]
    /\ activations = [t \in Threads |-> 0]
    /\ executing = [t \in Threads |-> 0]

-----------------------------------------------------------------------------
(* The trampoline (Entry).                                                 *)

\* The lifecycle comes first: an activation that was not taken up yet is left alone.
TrampolineReadsLifecycle(t) ==
    /\ pc[t] = "loop"
    /\ Goto(t, IF ShouldTerminate THEN "exited" ELSE "inspect")
    /\ UNCHANGED <<shutdownVars, lock, control, joinWaiters, signalled, call, phase, historyVars>>

TrampolineInspects(t) ==
    /\ pc[t] = "inspect" /\ lock[t] = None
    /\ IF control[t].state \in Active
       THEN /\ phase' = [phase EXCEPT ![t] = control[t].phase]
            /\ executing' = [executing EXCEPT ![t] = activations[t]]
            /\ Goto(t, "user")
       ELSE Goto(t, "idle") /\ UNCHANGED <<phase, executing>>
    /\ UNCHANGED <<shutdownVars, lock, control, joinWaiters, signalled, call, activations>>

TrampolineWakes(t) ==
    /\ pc[t] = "idle"
    /\ TakeSignal(t) \/ (t \in Faulty /\ UNCHANGED signalled)
    /\ Goto(t, "loop")
    /\ UNCHANGED <<shutdownVars, lock, control, joinWaiters, call, phase, historyVars>>

CallableReturns(t) ==
    /\ t \in Threads /\ pc[t] = "user"
    /\ Goto(t, "returned")
    /\ UNCHANGED <<shutdownVars, lock, control, joinWaiters, signalled, call, phase, historyVars>>

\* The end of the activation is published for the phase that was run, with its wakes.
PublishStopped(t) ==
    /\ pc[t] = "returned" /\ lock[t] = None
    /\ IF control[t].phase = phase[t] /\ control[t].state \in Active
       THEN /\ control' = [control EXCEPT ![t].state = "Stopped"]
            /\ Notify(JoinersOf(t, phase[t]))
       ELSE UNCHANGED <<control, signalled>>
    /\ Goto(t, "loop")
    /\ UNCHANGED <<shutdownVars, lock, joinWaiters, call, phase, historyVars>>

-----------------------------------------------------------------------------
(* StartActivation.                                                        *)

\* The first reading of the lifecycle, without the mutex.
BeginStart(c, t) ==
    /\ pc[c] = "user" /\ activations[t] < MaxActivations
    /\ CanActivate
    /\ Goto(c, "start")
    /\ call' = [call EXCEPT ![c].target = t]
    /\ UNCHANGED <<shutdownVars, lock, control, joinWaiters, signalled, phase, historyVars>>

\* Under the mutex the lifecycle is read again and an active thread is refused.
StartChecks(c) ==
    LET t == call[c].target IN
    /\ pc[c] = "start" /\ lock[t] = None
    /\ IF MayStart(t) /\ activations[t] < MaxActivations
       THEN Goto(c, "activate") /\ lock' = [lock EXCEPT ![t] = c] /\ UNCHANGED call
       ELSE Return(c) /\ UNCHANGED lock
    /\ UNCHANGED <<shutdownVars, control, joinWaiters, signalled, phase, historyVars>>

\* Variant: the thread is not woken.
NobodyWoken(t) == {}

WokenByStart(t) == {t}

\* The trampoline is woken before TryStart toggles the phase; it finds the mutex held.
StartActivates(c) ==
    LET t == call[c].target IN
    /\ pc[c] = "activate"
    /\ control' = [control EXCEPT ![t] = [state |-> "Running", phase |-> ~@.phase]]
    /\ activations' = [activations EXCEPT ![t] = @ + 1]
    /\ signalled' = signalled \cup WokenByStart(t)
    /\ lock' = [lock EXCEPT ![t] = None]
    /\ Return(c)
    /\ UNCHANGED <<shutdownVars, joinWaiters, phase, executing>>

\* The wake fails: ActivationFailed, and nothing has changed.
StartFails(c) ==
    LET t == call[c].target IN
    /\ pc[c] = "activate" /\ t \in Faulty
    /\ lock' = [lock EXCEPT ![t] = None]
    /\ Return(c)
    /\ UNCHANGED <<shutdownVars, control, joinWaiters, signalled, phase, historyVars>>

-----------------------------------------------------------------------------
(* RequestStop, Wake and ThreadContext::Wait.                              *)

StopAccepted(t) ==
    /\ lock[t] = None /\ control[t].state = "Running"
    /\ control' = [control EXCEPT ![t].state = "RunningStopRequested"]
    /\ Notify({t})

RequestStop(t) ==
    /\ StopAccepted(t)
    /\ UNCHANGED <<shutdownVars, lock, joinWaiters, pc, call, phase, historyVars>>

\* An advisory wake, or one that was meant for another wait of the same context.
Wake(c) ==
    /\ c \notin signalled
    /\ signalled' = signalled \cup {c}
    /\ UNCHANGED <<shutdownVars, lock, control, joinWaiters, pc, call, phase, historyVars>>

BeginContextWait(t, budget) ==
    /\ pc[t] = "user"
    /\ Goto(t, "wait-asleep")
    /\ call' = [call EXCEPT ![t].budget = budget]
    /\ UNCHANGED <<shutdownVars, lock, control, joinWaiters, signalled, phase, historyVars>>

ContextWaitEnds(t) ==
    /\ pc[t] = "wait-asleep"
    /\ TakeSignal(t) \/ (WaitGivesUp(t) /\ UNCHANGED signalled)
    /\ Return(t)
    /\ UNCHANGED <<shutdownVars, lock, control, joinWaiters, phase, historyVars>>

-----------------------------------------------------------------------------
(* Join (JoinWithBudget).                                                  *)

BeginJoin(c, t, budget) ==
    /\ pc[c] = "user" /\ IsManaged(c)
    /\ Goto(c, "join")
    /\ call' = [call EXCEPT ![c].target = t, ![c].budget = budget]
    /\ UNCHANGED <<shutdownVars, lock, control, joinWaiters, signalled, phase, historyVars>>

\* Nothing to join: the thread was never started, or it has stopped.
JoinFindsStopped(c) ==
    LET t == call[c].target IN
    /\ pc[c] = "join" /\ lock[t] = None
    /\ control[t].state \notin Active
    /\ Return(c)
    /\ UNCHANGED <<shutdownVars, lock, control, joinWaiters, signalled, phase, historyVars>>

\* The phase is captured and registered; the first sleep begins without another check.
JoinRegisters(c) ==
    LET t == call[c].target
        captured == control[t].phase
    IN  /\ pc[c] = "join" /\ lock[t] = None
        /\ control[t].state \in Active
        /\ joinWaiters' = [joinWaiters EXCEPT ![t] = @ \cup {[context |-> c, phase |-> captured]}]
        /\ call' = [call EXCEPT ![c].phase = captured, ![c].activation = activations[t]]
        /\ Goto(c, "join-asleep")
        /\ UNCHANGED <<shutdownVars, lock, control, signalled, phase, historyVars>>

JoinWakes(c) ==
    /\ pc[c] = "join-asleep"
    /\ TakeSignal(c) \/ (WaitGivesUp(c) /\ UNCHANGED signalled)
    /\ Goto(c, "join-woken")
    /\ UNCHANGED <<shutdownVars, lock, control, joinWaiters, call, phase, historyVars>>

\* The budget is used up before the (next) sleep.
JoinExpires(c) ==
    /\ pc[c] = "join-asleep" /\ call[c].budget = "Finite"
    /\ Goto(c, "join-leave")
    /\ UNCHANGED <<shutdownVars, lock, control, joinWaiters, signalled, call, phase, historyVars>>

\* The captured activation has ended: Joined.
JoinSucceeds(c) ==
    LET t == call[c].target IN
    /\ pc[c] = "join-woken" /\ lock[t] = None
    /\ IsActivationStopped(t, call[c].phase)
    /\ joinWaiters' = Unregistered(t, c)
    /\ Return(c)
    /\ UNCHANGED <<shutdownVars, lock, control, signalled, phase, historyVars>>

JoinContinues(c) ==
    LET t == call[c].target IN
    /\ pc[c] = "join-woken" /\ lock[t] = None
    /\ ~IsActivationStopped(t, call[c].phase)
    /\ Goto(c, "join-settle")
    /\ UNCHANGED <<shutdownVars, lock, control, joinWaiters, signalled, call, phase, historyVars>>

\* The joiner's own interruption, a failed wait or an exhausted budget ends the Join.
JoinSettles(c) ==
    /\ pc[c] = "join-settle"
    /\ \E interrupted \in BOOLEAN :
          /\ AnswersInterrupted(c, interrupted)
          /\ \/ (interrupted \/ WaitGivesUp(c)) /\ Goto(c, "join-leave")
             \/ ~interrupted /\ Goto(c, "join-asleep")
    /\ UNCHANGED <<shutdownVars, lock, control, joinWaiters, signalled, call, phase, historyVars>>

JoinLeaves(c) ==
    LET t == call[c].target IN
    /\ pc[c] = "join-leave" /\ lock[t] = None
    /\ joinWaiters' = Unregistered(t, c)
    /\ Return(c)
    /\ UNCHANGED <<shutdownVars, lock, control, signalled, phase, historyVars>>

-----------------------------------------------------------------------------
(* Shutdown, as the threads see it.                                        *)

BeginShutdown ==
    /\ lifecycle = "Started"
    /\ lifecycle' = "ShuttingDown"
    /\ UNCHANGED <<visited, lock, control, joinWaiters, signalled, pc, call, phase, historyVars>>

\* RequestStop is applied to one resource after the other.
ShutdownStops(t) ==
    /\ lifecycle = "ShuttingDown" /\ t \notin visited /\ lock[t] = None
    /\ visited' = visited \cup {t}
    /\ \/ StopAccepted(t)
       \/ control[t].state # "Running" /\ UNCHANGED <<control, signalled>>
    /\ UNCHANGED <<lifecycle, lock, joinWaiters, pc, call, phase, historyVars>>

ShutdownApplied ==
    /\ lifecycle = "ShuttingDown" /\ visited = Threads
    /\ lifecycle' = "Polling" /\ visited' = {}
    /\ UNCHANGED <<lock, control, joinWaiters, signalled, pc, call, phase, historyVars>>

\* One resource after the other is asked, up to the first active one; FinalizeShutdown
\* is then called again.
PollQuiescence(t) ==
    /\ lifecycle = "Polling" /\ t \notin visited /\ lock[t] = None
    /\ visited' = IF IsExecutionQuiescent(t) THEN visited \cup {t} ELSE {}
    /\ UNCHANGED <<lifecycle, lock, control, joinWaiters, signalled, pc, call, phase, historyVars>>

BeginFinalize ==
    /\ lifecycle = "Polling" /\ visited = Threads
    /\ lifecycle' = "Finalizing" /\ visited' = {}
    /\ UNCHANGED <<lock, control, joinWaiters, signalled, pc, call, phase, historyVars>>

\* Each trampoline is woken and joined before the next one is.
FinalizeWakes(t) ==
    /\ lifecycle = "Finalizing" /\ t \notin visited
    /\ \A v \in visited : pc[v] = "exited"
    /\ visited' = visited \cup {t}
    /\ Notify({t})
    /\ UNCHANGED <<lifecycle, lock, control, joinWaiters, pc, call, phase, historyVars>>

FinalizeShutdown ==
    /\ lifecycle = "Finalizing" /\ visited = Threads
    /\ \A t \in Threads : pc[t] = "exited"
    /\ lifecycle' = "ShutdownComplete"
    /\ UNCHANGED <<visited, lock, control, joinWaiters, signalled, pc, call, phase, historyVars>>

-----------------------------------------------------------------------------
Trampoline(t) ==
    \/ TrampolineReadsLifecycle(t) \/ TrampolineInspects(t) \/ TrampolineWakes(t)
    \/ PublishStopped(t)

\* What a thread does by itself once it has begun an operation.
Proceed(c) ==
    \/ StartChecks(c) \/ StartActivates(c) \/ StartFails(c)
    \/ ContextWaitEnds(c)
    \/ JoinFindsStopped(c) \/ JoinRegisters(c) \/ JoinWakes(c) \/ JoinExpires(c)
    \/ JoinSucceeds(c) \/ JoinContinues(c) \/ JoinSettles(c) \/ JoinLeaves(c)

\* What the application decides to do.
Request ==
    \/ \E c \in Starters, t \in Threads : BeginStart(c, t)
    \/ \E c \in Joiners, t \in Threads, budget \in Budgets : BeginJoin(c, t, budget)
    \/ \E t \in Threads : RequestStop(t) \/ \E budget \in Budgets : BeginContextWait(t, budget)
    \/ \E c \in Contexts : Wake(c)
    \/ BeginShutdown

ShutdownStep ==
    \/ \E t \in Threads : ShutdownStops(t) \/ PollQuiescence(t) \/ FinalizeWakes(t)
    \/ ShutdownApplied \/ BeginFinalize \/ FinalizeShutdown

Next ==
    \/ \E t \in Threads : Trampoline(t) \/ CallableReturns(t)
    \/ \E c \in Callers : Proceed(c)
    \/ Request \/ ShutdownStep

Spec == Init /\ [][Next]_vars

\* The threads keep running and get the mutexes they ask for; that a callable returns,
\* or that the application asks for anything, is not assumed.
Fairness ==
    /\ \A t \in Threads : SF_vars(Trampoline(t))
    /\ \A c \in Callers : SF_vars(Proceed(c))

FairSpec == Spec /\ Fairness

-----------------------------------------------------------------------------
\* Every variable has its type.
TypeOK ==
    /\ lifecycle \in Lifecycles
    /\ visited \in SUBSET Threads
    /\ lock \in [Threads -> Callers \cup {None}]
    /\ control \in [Threads -> Control]
    /\ joinWaiters \in [Threads -> SUBSET JoinRegistration]
    /\ signalled \in SUBSET Contexts
    /\ pc \in [Callers -> Steps]
    /\ call \in [Callers -> Call]
    /\ phase \in [Threads -> BOOLEAN]
    /\ activations \in [Threads -> Nat]
    /\ executing \in [Threads -> Nat]

InCallable(t) == pc[t] \in CallableSteps

\* Activation n of thread t is over: its callable is not running and will not run.
Ended(t, n) ==
    /\ n < activations[t] \/ control[t].state = "Stopped"
    /\ InCallable(t) => executing[t] # n

\* A callable runs for the activation that is current, once: no restart, stop request
\* or shutdown overtakes it, so what PublishStopped stops is what has returned.
ActivationIsCurrent ==
    \A t \in Threads : InCallable(t) =>
        /\ control[t].state \in Active
        /\ phase[t] = control[t].phase
        /\ executing[t] = activations[t]

\* A trampoline that sleeps although its thread was activated has its wake latched.
NoLostActivation ==
    \A t \in Threads : pc[t] = "idle" /\ control[t].state \in Active => t \in signalled

\* A joiner that sleeps although the phase it captured has ended has its wake latched.
NoLostJoinWakeup ==
    \A c \in Contexts \ Faulty :
        pc[c] = "join-asleep" /\ IsActivationStopped(call[c].target, call[c].phase)
            => c \in signalled

\* The registrations on a thread are those of the Joins in progress on it.
JoinRegistrationsLive ==
    \A t \in Threads :
        joinWaiters[t] = {Registered(c) : c \in {d \in Contexts :
                              pc[d] \in RegisteredSteps /\ call[d].target = t}}

\* Once every thread was asked to stop none is plainly running, although a start may
\* have passed its first check before; once shutdown has found the threads quiescent
\* they stay so, and no trampoline is joined inside a callable.
ShutdownStopsActivations ==
    /\ lifecycle \notin {"Started", "ShuttingDown"} =>
          \A t \in Threads : control[t].state # "Running"
    /\ lifecycle \in {"Finalizing", "ShutdownComplete"} =>
          \A t \in Threads : control[t].state \notin Active /\ ~InCallable(t)

\* The operation in progress names a thread.
HasTarget(c) == pc[c] \in {"start", "activate"} \cup JoinSteps

\* Only contexts join; who is about to activate a thread holds its mutex and has found
\* it inactive.
OperationsOK ==
    /\ \A c \in Callers : HasTarget(c) => call[c].target \in Threads
    /\ \A c \in Callers : pc[c] \in JoinSteps => c \in Contexts
    /\ \A c \in Callers : pc[c] = "activate" =>
          lock[call[c].target] = c /\ control[call[c].target].state \notin Active

\* The stop request of shutdown has reached thread t.
StopApplied(t) ==
    \/ lifecycle \notin {"Started", "ShuttingDown"}
    \/ lifecycle = "ShuttingDown" /\ t \in visited

\* Shutdown visits the threads one by one: what it has passed stays as it left it.
ShutdownProgress ==
    /\ lifecycle = "Started" => visited = {}
    /\ \A t \in Threads : StopApplied(t) =>
          /\ control[t].state # "Running"
          /\ \A c \in Callers : ~(pc[c] = "activate" /\ call[c].target = t)
    /\ \A t \in Threads :
          \/ lifecycle = "Polling" /\ t \in visited
          \/ lifecycle \in {"Finalizing", "ShutdownComplete"}
          => control[t].state \notin Active

\* The inductive invariant: together these are preserved by every step.
IInv ==
    /\ TypeOK /\ OperationsOK
    /\ ActivationIsCurrent /\ NoLostActivation
    /\ ShutdownProgress

\* Joined is returned only after the activation that was current at registration ended.
JoinedMeansEnded ==
    [][\A c \in Callers :
          pc[c] = "join-woken" /\ pc'[c] = "user"
              => Ended(call[c].target, call[c].activation)]_vars

-----------------------------------------------------------------------------
(* What the threads promise (ThreadActivations).                           *)

WaitingSteps == {"join-asleep", "join-woken", "join-settle"}

Inside  == {t \in Threads : InCallable(t) /\ pc[t] # "returned"}
Asked   == {t \in Threads : control[t].state = "RunningStopRequested"}
Retired == {t \in Threads : StopApplied(t)}
Joining == {[caller |-> c, thread |-> call[c].target, activation |-> call[c].activation] :
               c \in {d \in Callers : pc[d] \in WaitingSteps}}
Leaving == {c \in Callers : pc[c] = "join-leave"}

EndedActivations ==
    [t \in Threads |->
        IF control[t].state \in Active THEN activations[t] - 1 ELSE activations[t]]

Promise == INSTANCE ThreadActivations WITH
    begun <- activations, ended <- EndedActivations, taken <- executing, inside <- Inside,
    asked <- Asked, retired <- Retired, joins <- Joining, leaving <- Leaving

\* Restarts, stop requests, shutdown and the Joins of any number of callers never break
\* the order of the activations of a thread, and one bit for the phase, the registrations
\* and the second reading of the lifecycle are enough for it.
ImplementsActivations == Promise!Spec

-----------------------------------------------------------------------------
(* Liveness, under FairSpec.                                               *)

\* Whoever joins an activation returns once it has ended, unless the thread is started
\* twice more in the meantime (see JoinNeverRetargeted).
JoinReturns ==
    \A c \in Contexts \ Faulty :
        LET t == call[c].target
            n == call[c].activation
        IN  (pc[c] \in RegisteredSteps /\ Ended(t, n))
                ~> (pc[c] \notin RegisteredSteps \/ activations[t] > n + 1)

-----------------------------------------------------------------------------
(* What the documentation says and the code does not do.                   *)

\* docs/LIFECYCLE.MD:19: a later restart does not retarget a Join. A joiner that sleeps
\* although the activation it joined has ended would have to be woken.
JoinNeverRetargeted ==
    \A c \in Contexts :
        pc[c] = "join-asleep" /\ Ended(call[c].target, call[c].activation) => c \in signalled
=============================================================================
