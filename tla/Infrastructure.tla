--------------------------- MODULE Infrastructure ---------------------------
(***************************************************************************)
(* The life of one StaticTopologyOwner: InfrastructureLifecycle, the       *)
(* Platform executions of its managed contexts, and what the trampolines   *)
(* on them see of it. One application thread initializes, starts and       *)
(* finalizes; any thread may begin shutdown or dispatch. A trampoline is   *)
(* the loop shared by Task Workers, Dedicated Workers and Dedicated        *)
(* Threads: read the lifecycle, look for work, run it or sleep.            *)
(*                                                                         *)
(* What a facility queues, and how a thread's activations follow each      *)
(* other, is left to TaskFacility and DedicatedThread: here a context has  *)
(* work or has none. Every read and every publication of the lifecycle is  *)
(* a step of its own; a sweep over one resource is one step.               *)
(***************************************************************************)
EXTENDS Topology

CONSTANTS
    Topologies,    \* candidate compositions; those that do not compile are dropped
    Requirements,  \* the requirements consumers may state
    Closers,       \* the threads that call BeginShutdown
    Dispatchers,   \* the threads that call Dispatch and StartThread
    Faults,        \* the provider operations that may fail
    None           \* no resource

ASSUME InfrastructureAssumption ==
    /\ Faults \subseteq {"initialize", "start", "join"}
    /\ \A t \in Topologies : IsDeclaration(t) /\ None \notin ResourceIndices(t)
    /\ \A requirement \in Requirements :
          \A constraint \in requirement.constraints : constraint.value \in Int

VARIABLES
    topology,   \* the topology of this owner
    state,      \* InfrastructureLifecycle::_state
    context,    \* where the Platform execution of each managed context is
    assigned,   \* the contexts given a Task or an activation that has not ended
    requested,  \* those whose Task is cancelled or activation asked to stop
    signals,    \* _wakeSet: the contexts whose wake signal is latched
    waiters,    \* ShutdownWaitRuntime::_waiters
    at,         \* where the application thread is
    pending,    \* the resources its current phase has not dealt with
    joining,    \* the contexts it has still to join
    failed,     \* an operation of the current phase has failed
    refused,    \* history: the contexts left unjoined by a Join that failed
    closer,     \* where each closer is
    sweep,      \* the resources each closer has not stopped
    dispatch    \* where each dispatcher is, and the resource it dispatches to

appVars      == <<at, pending, joining, failed, refused>>
closerVars   == <<closer, sweep>>
workVars     == <<assigned, requested>>
waitVars     == <<signals, waiters>>
vars == <<topology, state, context, workVars, waitVars, appVars, closerVars, dispatch>>

-----------------------------------------------------------------------------
States == {"Uninitialized", "Initialized", "Started", "StartRollback",
           "ShuttingDown", "ShutdownComplete"}

\* loop: about to read the lifecycle; look: about to look for work; waiting and
\* settling: in WaitForShutdown, asleep and awake.
Running == {"loop", "look", "sleeping", "callable", "waiting", "settling"}
Phases  == {"absent", "created", "exited"} \cup Running

Locations == {"idle", "initializing", "starting", "joiningPrefix", "rollingBack", "waking",
              "joiningStarted", "polling", "finalizing", "joiningResource", "completing"}

Resources == ResourceIndices(topology)
Managed == Contexts(topology)
Of(r) == ContextsOf(topology, r)
Kind(r) == topology.resources[r].kind

TypeOK ==
    /\ topology \in Topologies
    /\ state \in States
    /\ context \in [Managed -> Phases]
    /\ assigned \subseteq Managed /\ requested \subseteq assigned
    /\ signals \subseteq Managed /\ waiters \subseteq Managed
    /\ at \in Locations
    /\ pending \subseteq Resources
    /\ joining \subseteq Managed /\ refused \subseteq Managed
    /\ failed \in BOOLEAN
    /\ closer \in [Closers -> {"idle", "publishing", "sweeping"}]
    /\ sweep \in [Closers -> SUBSET Resources]
    /\ dispatch \in [Dispatchers -> [at : {"gated", "holding"}, to : Resources]
                                      \cup {[at |-> "idle", to |-> None]}]

\* Variant: the gate opens with the initialization barrier.
CanActivateEarly == state \in {"Initialized", "Started"}

CanActivate == state = "Started"

ShouldTerminate == state \in {"StartRollback", "ShuttingDown", "ShutdownComplete"}

\* IsContextInterrupted: a facility asks only its own Task; a lease's Worker and a
\* Dedicated Thread ask the lifecycle as well.
IsContextInterrupted(c) ==
    \/ c \in requested
    \/ /\ ShouldTerminate
       /\ \E r \in Resources : AnswersFor(topology, r, c) /\ Kind(r) # "facility"

\* StartActivation holds the mutex of its thread between the lifecycle and the control.
MutexFree(r) == \A d \in Dispatchers : dispatch[d] # [at |-> "holding", to |-> r]
ControlFree(c) == \A r \in Resources : c \in Of(r) => MutexFree(r)

Init ==
    /\ topology \in {t \in Topologies : ValidTopology(t)}
    /\ state = "Uninitialized"
    /\ context = [c \in Managed |-> "absent"]
    /\ assigned = {} /\ requested = {} /\ signals = {} /\ waiters = {}
    /\ at = "idle" /\ pending = {} /\ joining = {} /\ failed = FALSE /\ refused = {}
    /\ closer = [x \in Closers |-> "idle"]
    /\ sweep = [x \in Closers |-> {}]
    /\ dispatch = [d \in Dispatchers |-> [at |-> "idle", to |-> None]]

-----------------------------------------------------------------------------
(* Initialize, InitializeInOrder *)

\* Validation consumes what the signals have latched. When it fails nothing has changed.
BeginInitialize ==
    /\ at = "idle" /\ state = "Uninitialized"
    /\ signals' = {}
    /\ at' = "initializing" /\ pending' = Resources
    /\ UNCHANGED <<topology, state, context, workVars, waiters, joining, failed, refused,
                   closerVars, dispatch>>

\* Any resource that is left: InitializeInOrder takes every permutation.
InitializeResource(r) ==
    /\ at = "initializing" /\ r \in pending
    /\ context' = [c \in Managed |-> IF c \in Of(r) THEN "created" ELSE context[c]]
    /\ pending' = pending \ {r}
    /\ UNCHANGED <<topology, state, workVars, waitVars, at, joining, failed, refused,
                   closerVars, dispatch>>

\* The initialized prefix, of the resource and of the topology, is destroyed.
FailInitialization(r) ==
    /\ at = "initializing" /\ r \in pending /\ "initialize" \in Faults
    /\ context' = [c \in Managed |-> "absent"]
    /\ at' = "idle" /\ pending' = {}
    /\ UNCHANGED <<topology, state, workVars, waitVars, joining, failed, refused,
                   closerVars, dispatch>>

CommitInitialization ==
    /\ at = "initializing" /\ pending = {}
    /\ state' = "Initialized"
    /\ at' = "idle"
    /\ UNCHANGED <<topology, context, workVars, waitVars, pending, joining, failed, refused,
                   closerVars, dispatch>>

-----------------------------------------------------------------------------
(* Start, StartInOrder *)

\* Variant: a Start that failed may be tried again.
MayStartAgain == state \in {"Initialized", "StartRollback"}

MayStart == state = "Initialized"

BeginStart ==
    /\ at = "idle" /\ MayStart
    /\ at' = "starting" /\ pending' = Resources
    /\ UNCHANGED <<topology, state, context, workVars, waitVars, joining, failed, refused,
                   closerVars, dispatch>>

Created(r) == {c \in Of(r) : context[c] = "created"}

\* The contexts of one resource start in order, before any other resource is begun.
NextToStart(r, c) ==
    /\ r \in pending /\ c \in Created(r)
    /\ \A d \in Created(r) : c <= d
    /\ \A s \in pending \ {r} : Created(s) = Of(s)

StartContext(r, c) ==
    /\ at = "starting" /\ NextToStart(r, c)
    /\ context' = [context EXCEPT ![c] = "loop"]
    /\ UNCHANGED <<topology, state, workVars, waitVars, appVars, closerVars, dispatch>>

StartResource(r) ==
    /\ at = "starting" /\ r \in pending /\ Created(r) = {}
    /\ pending' = pending \ {r}
    /\ UNCHANGED <<topology, state, context, workVars, waitVars, at, joining, failed, refused,
                   closerVars, dispatch>>

\* TaskFacilityOwnedRuntime::StartNext: the Workers started before are woken and joined
\* while the lifecycle still says Initialized.
FailStart(r, c) ==
    /\ at = "starting" /\ NextToStart(r, c) /\ "start" \in Faults
    /\ LET started == Of(r) \ Created(r)
       IN  /\ signals' = signals \cup started
           /\ joining' = started
    /\ at' = "joiningPrefix"
    /\ UNCHANGED <<topology, state, context, workVars, waiters, pending, failed, refused,
                   closerVars, dispatch>>

PublishStarted ==
    /\ at = "starting" /\ pending = {}
    /\ state' = "Started"
    /\ at' = "idle"
    /\ UNCHANGED <<topology, context, workVars, waitVars, pending, joining, failed, refused,
                   closerVars, dispatch>>

BeginRollback ==
    /\ at = "joiningPrefix" /\ joining = {}
    /\ at' = "rollingBack"
    /\ UNCHANGED <<topology, state, context, workVars, waitVars, pending, joining, failed,
                   refused, closerVars, dispatch>>

PublishRollback ==
    /\ at = "rollingBack"
    /\ state' = "StartRollback"
    /\ at' = "waking"
    /\ UNCHANGED <<topology, context, workVars, waitVars, pending, joining, failed, refused,
                   closerVars, dispatch>>

StartedContexts == UNION {Of(r) : r \in Resources \ pending}

\* WakeStarted, before JoinStarted.
WakeStarted ==
    /\ at = "waking"
    /\ signals' = signals \cup StartedContexts
    /\ joining' = StartedContexts
    /\ at' = "joiningStarted"
    /\ UNCHANGED <<topology, state, context, workVars, waiters, pending, failed, refused,
                   closerVars, dispatch>>

\* External: a provider destroys an execution that does not run, and DestroyNext stops
\* at the first context of a resource that it refuses.
Destroyed(S) ==
    [c \in Managed |->
        IF /\ c \in S /\ context[c] \notin Running
           /\ \E r \in Resources :
                 c \in Of(r) /\ \A d \in Of(r) : d < c => context[d] \notin Running
        THEN "absent" ELSE context[c]]

\* Variant: only what was started is destroyed.
DestroysStarted == StartedContexts

DestroyedByRollback == Managed

DestroyAll ==
    /\ at = "joiningStarted" /\ joining = {}
    /\ context' = Destroyed(DestroyedByRollback)
    /\ at' = "idle" /\ pending' = {}
    /\ UNCHANGED <<topology, state, workVars, waitVars, joining, failed, refused,
                   closerVars, dispatch>>

-----------------------------------------------------------------------------
(* Join, Forever: of the started prefix, of the started resources, of a resource that *)
(* is finalized. External: an execution that was destroyed before may be refused too.  *)

IsNext(r, c) == c \in Of(r) \cap joining /\ \A d \in Of(r) \cap joining : c <= d

Joined(r, c) ==
    /\ IsNext(r, c) /\ context[c] \in {"exited", "absent"}
    /\ joining' = joining \ {c}
    /\ UNCHANGED <<topology, state, context, workVars, waitVars, at, pending, failed, refused,
                   closerVars, dispatch>>

\* JoinNext gives up the rest of the resource; JoinPrefix goes on.
JoinFails(r, c) ==
    /\ IsNext(r, c) /\ ("join" \in Faults \/ context[c] = "absent")
    /\ LET left == IF at = "joiningPrefix" THEN {c} ELSE Of(r) \cap joining
       IN  joining' = joining \ left /\ refused' = refused \cup left
    /\ failed' = TRUE
    /\ UNCHANGED <<topology, state, context, workVars, waitVars, at, pending,
                   closerVars, dispatch>>

-----------------------------------------------------------------------------
(* BeginShutdown *)

\* ShutdownComplete, ShuttingDown and an owner that is not started are refused.
BeginShutdown(x) ==
    /\ closer[x] = "idle" /\ state = "Started"
    /\ closer' = [closer EXCEPT ![x] = "publishing"]
    /\ UNCHANGED <<topology, state, context, workVars, waitVars, appVars, sweep, dispatch>>

\* The state read may have changed meanwhile.
PublishShuttingDown(x) ==
    /\ closer[x] = "publishing"
    /\ state' = "ShuttingDown"
    /\ closer' = [closer EXCEPT ![x] = "sweeping"]
    /\ sweep' = [sweep EXCEPT ![x] = Resources]
    /\ UNCHANGED <<topology, context, workVars, waitVars, appVars, dispatch>>

\* BeginShutdownCancellation of a task resource, RequestStop of a thread.
StopResource(x, r) ==
    /\ closer[x] = "sweeping" /\ r \in sweep[x]
    /\ \A s \in sweep[x] : r <= s
    /\ MutexFree(r)
    /\ requested' = requested \cup (assigned \cap Of(r))
    /\ signals' = signals \cup (assigned \cap Of(r))
    /\ sweep' = [sweep EXCEPT ![x] = @ \ {r}]
    /\ UNCHANGED <<topology, state, context, assigned, waiters, appVars, closer, dispatch>>

EndShutdownSweep(x) ==
    /\ closer[x] = "sweeping" /\ sweep[x] = {}
    /\ closer' = [closer EXCEPT ![x] = "idle"]
    /\ UNCHANGED <<topology, state, context, workVars, waitVars, appVars, sweep, dispatch>>

-----------------------------------------------------------------------------
(* FinalizeShutdown *)

BeginFinalize ==
    /\ at = "idle" /\ state = "ShuttingDown"
    /\ at' = "polling" /\ pending' = Resources /\ failed' = FALSE
    /\ UNCHANGED <<topology, state, context, workVars, waitVars, joining, refused,
                   closerVars, dispatch>>

First(r) == r \in pending /\ \A s \in pending : r <= s

IsExecutionQuiescent(r) == assigned \cap Of(r) = {}

FindQuiescent(r) ==
    /\ at = "polling" /\ First(r) /\ MutexFree(r) /\ IsExecutionQuiescent(r)
    /\ pending' = pending \ {r}
    /\ UNCHANGED <<topology, state, context, workVars, waitVars, at, joining, failed, refused,
                   closerVars, dispatch>>

FindBusy(r) ==
    /\ at = "polling" /\ First(r) /\ MutexFree(r) /\ ~IsExecutionQuiescent(r)
    /\ at' = "idle" /\ pending' = {}
    /\ UNCHANGED <<topology, state, context, workVars, waitVars, joining, failed, refused,
                   closerVars, dispatch>>

BeginTeardown ==
    /\ at = "polling" /\ pending = {}
    /\ at' = "finalizing" /\ pending' = Resources
    /\ UNCHANGED <<topology, state, context, workVars, waitVars, joining, failed, refused,
                   closerVars, dispatch>>

\* Variant: the executions that run work are taken to look at the lifecycle anyway.
WakesSleepers(r) == {c \in Of(r) : context[c] = "sleeping"}

Terminated(r) == Of(r)

\* Variant: the range of the joined contexts is one too long.
JoinsOneMore(r) == FirstContextIndex(topology, r) .. EndContextIndex(topology, r)

ToJoin(r) == Of(r)

\* RequestInfrastructureTermination, then JoinInfrastructure.
TerminateResource(r) ==
    /\ at = "finalizing" /\ First(r)
    /\ signals' = signals \cup Terminated(r)
    /\ joining' = ToJoin(r) /\ refused' = refused \ Of(r)
    /\ at' = "joiningResource"
    /\ UNCHANGED <<topology, state, context, workVars, waiters, pending, failed,
                   closerVars, dispatch>>

\* Destroyed only when every Join succeeded; the tail is finalized in any case.
DestroyResource(r) ==
    /\ at = "joiningResource" /\ First(r) /\ joining = {}
    /\ context' = IF refused \cap Of(r) = {} THEN Destroyed(Of(r)) ELSE context
    /\ at' = "finalizing" /\ pending' = pending \ {r}
    /\ UNCHANGED <<topology, state, workVars, waitVars, joining, failed, refused,
                   closerVars, dispatch>>

EndTeardownFailed ==
    /\ at = "finalizing" /\ pending = {} /\ failed
    /\ at' = "idle"
    /\ UNCHANGED <<topology, state, context, workVars, waitVars, pending, joining, failed,
                   refused, closerVars, dispatch>>

\* Variant: the result of the resources is not looked at.
CompletesAnyway == TRUE

MayComplete == ~failed

PublishShutdownComplete ==
    /\ at = "finalizing" /\ pending = {} /\ MayComplete
    /\ state' = "ShutdownComplete"
    /\ at' = "completing"
    /\ UNCHANGED <<topology, context, workVars, waitVars, pending, joining, failed, refused,
                   closerVars, dispatch>>

WakeCompleted ==
    /\ at = "completing"
    /\ signals' = signals \cup waiters
    /\ at' = "idle"
    /\ UNCHANGED <<topology, state, context, workVars, waiters, pending, joining, failed,
                   refused, closerVars, dispatch>>

-----------------------------------------------------------------------------
(* Dispatch, DispatchDedicated, StartThread *)

\* The gate reads the lifecycle once, outside every mutex of the resource.
PassGate(d, r) ==
    /\ dispatch[d].at = "idle" /\ CanActivate
    /\ dispatch' = [dispatch EXCEPT ![d] = [at |-> "gated", to |-> r]]
    /\ UNCHANGED <<topology, state, context, workVars, waitVars, appVars, closerVars>>

\* A facility does not ask again; it gives the Task to a Worker without one.
Admit(d, c) ==
    /\ dispatch[d].at = "gated" /\ Kind(dispatch[d].to) # "thread"
    /\ c \in Of(dispatch[d].to) \ assigned
    /\ assigned' = assigned \cup {c} /\ signals' = signals \cup {c}
    /\ dispatch' = [dispatch EXCEPT ![d] = [at |-> "idle", to |-> None]]
    /\ UNCHANGED <<topology, state, context, requested, waiters, appVars, closerVars>>

\* StartActivation asks again once it holds the mutex of the thread.
RecheckGate(d) ==
    /\ dispatch[d].at = "gated" /\ Kind(dispatch[d].to) = "thread"
    /\ MutexFree(dispatch[d].to) /\ CanActivate
    /\ dispatch' = [dispatch EXCEPT ![d] = [at |-> "holding", to |-> dispatch[d].to]]
    /\ UNCHANGED <<topology, state, context, workVars, waitVars, appVars, closerVars>>

\* AlreadyRunning leaves everything as it is.
Activate(d) ==
    /\ dispatch[d].at = "holding"
    /\ LET started == Of(dispatch[d].to) \ assigned
       IN  assigned' = assigned \cup started /\ signals' = signals \cup started
    /\ dispatch' = [dispatch EXCEPT ![d] = [at |-> "idle", to |-> None]]
    /\ UNCHANGED <<topology, state, context, requested, waiters, appVars, closerVars>>

\* The gate is closed, the pool exhausted or its budget over.
GiveUp(d) ==
    /\ dispatch[d].at = "gated"
    /\ \/ Kind(dispatch[d].to) # "thread"
       \/ MutexFree(dispatch[d].to) /\ ~CanActivate
    /\ dispatch' = [dispatch EXCEPT ![d] = [at |-> "idle", to |-> None]]
    /\ UNCHANGED <<topology, state, context, workVars, waitVars, appVars, closerVars>>

-----------------------------------------------------------------------------
(* The trampolines: TaskWorkerExecutionContext::Entry, DedicatedThreadRuntime::Entry *)

Goes(c, phase) == context' = [context EXCEPT ![c] = phase]

ReadLifecycle(c) ==
    /\ context[c] = "loop"
    /\ Goes(c, IF ShouldTerminate THEN "exited" ELSE "look")
    /\ UNCHANGED <<topology, state, workVars, waitVars, appVars, closerVars, dispatch>>

LookForWork(c) ==
    /\ context[c] = "look" /\ ControlFree(c)
    /\ Goes(c, IF c \in assigned THEN "callable" ELSE "sleeping")
    /\ UNCHANGED <<topology, state, workVars, waitVars, appVars, closerVars, dispatch>>

WakeUp(c) ==
    /\ context[c] = "sleeping" /\ c \in signals
    /\ signals' = signals \ {c}
    /\ Goes(c, "loop")
    /\ UNCHANGED <<topology, state, workVars, waiters, appVars, closerVars, dispatch>>

\* The waits a callable makes for itself sleep on the same signal.
CallableConsumesSignal(c) ==
    /\ context[c] = "callable" /\ c \in signals
    /\ signals' = signals \ {c}
    /\ UNCHANGED <<topology, state, context, workVars, waiters, appVars, closerVars, dispatch>>

CallableReturns(c) ==
    /\ context[c] = "callable" /\ ControlFree(c)
    /\ assigned' = assigned \ {c} /\ requested' = requested \ {c}
    /\ Goes(c, "loop")
    /\ UNCHANGED <<topology, state, waitVars, appVars, closerVars, dispatch>>

-----------------------------------------------------------------------------
(* WaitForShutdown by a callable; a caller without a context never sleeps *)

IsComplete == state = "ShutdownComplete"

BeginWait(c) ==
    /\ context[c] = "callable" /\ ~IsComplete
    /\ waiters' = waiters \cup {c}
    /\ Goes(c, "waiting")
    /\ UNCHANGED <<topology, state, workVars, signals, appVars, closerVars, dispatch>>

WaitIsWoken(c) ==
    /\ context[c] = "waiting" /\ c \in signals
    /\ signals' = signals \ {c}
    /\ Goes(c, "settling")
    /\ UNCHANGED <<topology, state, workVars, waiters, appVars, closerVars, dispatch>>

\* Variant: an interrupted wait leaves its registration behind.
UnregisteredOnCompletion(c) == IF IsComplete THEN waiters \ {c} ELSE waiters

Unregistered(c) == waiters \ {c}

\* Completed or Interrupted.
WaitEnds(c) ==
    /\ context[c] = "settling" /\ (IsComplete \/ IsContextInterrupted(c))
    /\ waiters' = Unregistered(c)
    /\ Goes(c, "callable")
    /\ UNCHANGED <<topology, state, workVars, signals, appVars, closerVars, dispatch>>

WaitGoesOn(c) ==
    /\ context[c] = "settling" /\ ~IsComplete /\ ~IsContextInterrupted(c)
    /\ Goes(c, "waiting")
    /\ UNCHANGED <<topology, state, workVars, waitVars, appVars, closerVars, dispatch>>

\* The budget is over.
WaitTimesOut(c) ==
    /\ context[c] = "waiting"
    /\ waiters' = Unregistered(c)
    /\ Goes(c, "callable")
    /\ UNCHANGED <<topology, state, workVars, signals, appVars, closerVars, dispatch>>

-----------------------------------------------------------------------------
AppStep ==
    \/ BeginInitialize \/ CommitInitialization
    \/ BeginStart \/ PublishStarted \/ BeginRollback \/ PublishRollback \/ WakeStarted
    \/ DestroyAll
    \/ BeginFinalize \/ BeginTeardown \/ EndTeardownFailed \/ PublishShutdownComplete
    \/ WakeCompleted
    \/ \E r \in Resources :
          \/ InitializeResource(r) \/ FailInitialization(r) \/ StartResource(r)
          \/ FindQuiescent(r) \/ FindBusy(r) \/ TerminateResource(r) \/ DestroyResource(r)
          \/ \E c \in Of(r) : StartContext(r, c) \/ FailStart(r, c) \/ Joined(r, c)
                              \/ JoinFails(r, c)

CloserStep(x) ==
    \/ BeginShutdown(x) \/ PublishShuttingDown(x) \/ EndShutdownSweep(x)
    \/ \E r \in Resources : StopResource(x, r)

DispatchStep(d) ==
    \/ \E r \in Resources : PassGate(d, r)
    \/ \E c \in Managed : Admit(d, c)
    \/ RecheckGate(d) \/ Activate(d) \/ GiveUp(d)

Trampoline(c) ==
    \/ ReadLifecycle(c) \/ LookForWork(c) \/ WakeUp(c)
    \/ CallableConsumesSignal(c) \/ CallableReturns(c)
    \/ BeginWait(c) \/ WaitIsWoken(c) \/ WaitEnds(c) \/ WaitGoesOn(c) \/ WaitTimesOut(c)

Next ==
    \/ AppStep
    \/ \E x \in Closers : CloserStep(x)
    \/ \E d \in Dispatchers : DispatchStep(d)
    \/ \E c \in Managed : Trampoline(c)

Spec == Init /\ [][Next]_vars

\* The Platform schedules every execution. Managed depends on the topology, so the
\* trampolines are fair as a whole: without dispatchers each of them soon sleeps or exits.
FairSpec ==
    /\ Spec
    /\ WF_vars(AppStep)
    /\ WF_vars(\E c \in Managed : Trampoline(c))

-----------------------------------------------------------------------------
(* Properties of the composition. It never changes: they are stated where the owner *)
(* has not been initialized.                                                         *)

Composing == state = "Uninitialized"

(* The dense context indices that the static plan hands to the resources  *)
(* are exactly 0 .. capacity - 1, each is used by one Worker of one        *)
(* resource, and the resource that uses it is the only one that answers    *)
(* when the router asks whether that context is interrupted. An overlap    *)
(* would give one wake signal to two executions (StaticTopologyPlan,       *)
(* StructuralContextResolver).                                             *)
ContextsPartitioned ==
    Composing =>
    /\ Managed = 0 .. ManagedExecutionContextCount(topology) - 1
    /\ \A r \in Resources, s \in Resources :
          \A i \in DOMAIN OwnedResourceType(topology, r).contexts,
             j \in DOMAIN OwnedResourceType(topology, s).contexts :
             WorkerContextIndex(topology, r, i) = WorkerContextIndex(topology, s, j)
                 => r = s /\ i = j
    /\ \A r \in Resources : \A c \in Managed : c \in Of(r) <=> AnswersFor(topology, r, c)

Meets(resolved, constraint) ==
    CASE constraint.kind = "stack"    -> resolved.stack >= constraint.value
      [] constraint.kind = "priority" -> resolved.priority >= constraint.value
      [] constraint.kind = "affinity" -> resolved.affinity = constraint.value
      [] OTHER -> TRUE

(* A requirement the compiler accepts is met by what runs: the resource    *)
(* that lookup by identity finds is the one that satisfies it, the         *)
(* topology offers that kind of execution, and every context is created    *)
(* with a configuration that meets each constraint. Requirements read the  *)
(* declared properties, the runtimes the resolved ones                     *)
(* (ThreadingComposition, TopologyResourceLookup).                         *)
RequirementsAreMet ==
    Composing => \A requirement \in Requirements :
        SatisfiesThreadingRequirement(topology, requirement) =>
            LET r == TopologyResourceIndex(topology, requirement)
                owned == OwnedResourceType(topology, r)
            IN  /\ ResourceSatisfiesRequirement(topology.resources[r], requirement)
                /\ requirement.kind = "facility" => "TaskExecution" \in Offers(topology)
                /\ requirement.kind = "thread" => "DedicatedThreadExecution" \in Offers(topology)
                /\ \A constraint \in requirement.constraints :
                      /\ \A i \in DOMAIN owned.contexts : Meets(owned.contexts[i], constraint)
                      /\ constraint.kind = "concurrency" =>
                            Cardinality(DOMAIN owned.contexts) >= constraint.value

(* Every callable the application binds is taken by exactly one Dedicated  *)
(* Thread: none is dropped, and none is moved from twice                   *)
(* (ValidDedicatedThreadBindings, ConstructOwnedResource).                 *)
BindingsTakenOnce ==
    Composing =>
    LET threads == {r \in Resources : Kind(r) = "thread"}
    IN  /\ {BindingTaken(topology, r) : r \in threads} = DOMAIN topology.bindings
        /\ \A r, s \in threads : BindingTaken(topology, r) = BindingTaken(topology, s) => r = s

-----------------------------------------------------------------------------
(* Properties of the lifecycle *)

(* When Start has returned its failure, nothing it created is left: every  *)
(* context is destroyed, whichever resource failed, but for those of a     *)
(* resource whose Join the provider refused (InfrastructureLifecycle,      *)
(* Start and its rollback).                                                *)
FailedStartLeavesNothing ==
    at = "idle" /\ state = "StartRollback" =>
        \A r \in Resources : Of(r) \cap refused = {} => \A c \in Of(r) : context[c] = "absent"

(* A context that rollback or FinalizeShutdown joins, and that sleeps in   *)
(* its trampoline, has its signal latched: it wakes, reads the lifecycle   *)
(* and exits. The lifecycle is published before the wake, and a context    *)
(* that was between its look and its sleep then still finds the signal     *)
(* (WakeStarted, FinalizeShutdown of the resource storage).                *)
TerminatingContextIsWoken ==
    ShouldTerminate =>
        \A c \in joining : context[c] = "sleeping" => c \in signals

(* ShutdownComplete says that no managed execution exists: it is published *)
(* only after every context was joined and destroyed, over any number of   *)
(* FinalizeShutdown calls of which some fail, and whatever late            *)
(* BeginShutdown calls publish (docs/LIFECYCLE.MD).                        *)
CompletionAfterTeardown ==
    state = "ShutdownComplete" => \A c \in Managed : context[c] = "absent"

(* The registrations of WaitForShutdown do not outlive the contexts that   *)
(* made them: at completion there is none, so that WakeCompleted wakes     *)
(* nobody and no managed wait ends with Completed (ShutdownWaitRuntime).   *)
NoWaiterOutlivesTeardown ==
    state = "ShutdownComplete" => waiters = {}

(* A callable runs only in an owner whose Start has succeeded, although    *)
(* trampolines run before, and dispatches arrive at any time               *)
(* (ThreadingBootstrap, Dispatch and StartThread).                         *)
WorkOnlyOnceStarted ==
    state \in {"Uninitialized", "Initialized", "StartRollback"} =>
        assigned = {} /\ \A c \in Managed : context[c] \notin {"callable", "waiting", "settling"}

(* Once the trampolines are told to terminate they are never told to go on *)
(* again: neither a second Start nor a BeginShutdown that read the state   *)
(* long before revives the owner (InfrastructureLifecycle).                *)
TerminationIsFinal == [][ShouldTerminate => ShouldTerminate']_vars

(* Start returns, with success or after its rollback: "the first failure   *)
(* prevents later starts, requests termination of already-started          *)
(* trampolines, joins them and destroys initialized resources"             *)
(* (docs/LIFECYCLE.MD). Threads and executions are scheduled.              *)
StartReturns == at = "starting" ~> at = "idle"

-----------------------------------------------------------------------------
(* The inductive invariant: the properties above and what they rest on *)

\* Where the application thread, a closer or a dispatcher is, says what was published.
PublishedPhases ==
    /\ at = "initializing" => state = "Uninitialized"
    /\ at \in {"starting", "joiningPrefix", "rollingBack"} => state = "Initialized"
    /\ at \in {"waking", "joiningStarted"} => state = "StartRollback"
    /\ at \in {"polling", "finalizing", "joiningResource"} => state = "ShuttingDown"
    /\ at = "completing" => state \in {"ShuttingDown", "ShutdownComplete"}
    /\ \A x \in Closers :
          closer[x] # "idle" => state \in {"Started", "ShuttingDown", "ShutdownComplete"}
    /\ \A d \in Dispatchers :
          dispatch[d].at # "idle" => state \in {"Started", "ShuttingDown", "ShutdownComplete"}
    /\ at \notin {"joiningPrefix", "joiningStarted", "joiningResource"} => joining = {}

\* Whoever is registered for shutdown is in its wait.
WaitersWait == \A c \in waiters : context[c] \in {"waiting", "settling"}

\* A context that is joined has not looked at the lifecycle since it was told to terminate,
\* or still has its signal.
TerminatingContextsLook ==
    ShouldTerminate =>
        \A c \in joining : context[c] \in {"look", "sleeping"} => c \in signals

\* Rollback leaves behind what is destroyed, what never ran and what no Join got hold of.
RollbackProgress ==
    /\ at \in {"joiningPrefix", "rollingBack", "waking"} =>
          \A r \in pending : \A c \in Of(r) :
              c \in joining \cup refused \/ context[c] \notin Running
    /\ at = "joiningStarted" =>
          \A c \in Managed : c \in joining \cup refused \/ context[c] \notin Running

\* As long as nothing has failed, what FinalizeShutdown has passed is destroyed.
TeardownProgress ==
    at \in {"finalizing", "joiningResource"} /\ ~failed =>
        /\ \A r \in Resources \ pending : \A c \in Of(r) : context[c] = "absent"
        /\ at = "joiningResource" => \A r \in Resources : First(r) =>
              /\ Of(r) \cap refused = {}
              /\ \A c \in Of(r) \ joining : context[c] \notin Running \cup {"created"}

IInv ==
    /\ TypeOK
    /\ PublishedPhases
    /\ WorkOnlyOnceStarted
    /\ WaitersWait
    /\ TerminatingContextsLook
    /\ RollbackProgress
    /\ TeardownProgress
    /\ FailedStartLeavesNothing
    /\ CompletionAfterTeardown
=============================================================================
