---------------------------- MODULE TaskFacility ----------------------------
(***************************************************************************)
(* One Task facility of a started Threading topology: the bounded Task     *)
(* records, the FIFO of queued ones, the lease scheduler of the Workers,   *)
(* the two waiter-registration sets and the facility mutex that serialises *)
(* them (TaskFacilityCore, TaskFacilityRuntime), driven concurrently by    *)
(*   - the Workers' trampolines (TaskWorkerExecutionContext::Entry),       *)
(*   - callers of Dispatch and of the operations of a Task handle, and     *)
(*   - the thread that runs BeginShutdown and FinalizeShutdown.            *)
(*                                                                         *)
(* A critical section of the facility mutex is one action, guarded by      *)
(* lock = None, except the scheduling pass: it publishes one grant per     *)
(* iteration, so each iteration is a step taken with the mutex held.       *)
(* What a caller does between two critical sections is a step of its own.  *)
(***************************************************************************)
EXTENDS Naturals, Sequences, FiniteSets

CONSTANTS
    Records,      \* the Task records of the facility
    Workers,      \* its Worker contexts
    Clients,      \* the managed contexts outside the facility (Dedicated Threads)
    Unmanaged,    \* callers the router resolves to no managed context
    Dispatchers,  \* the callers whose code dispatches Tasks
    TaskWaiters,  \* the contexts whose code waits on Tasks
    Policies,     \* the dispatch policies they use
    Faulty,       \* the contexts whose signal provider may fail
    None          \* no record, no context

Contexts == Workers \cup Clients
Callers  == Contexts \cup Unmanaged

DispatchPolicies == {"Queue", "QueueWithTimeout", "AbandonImmediately"}

ASSUME FacilityAssumption ==
    /\ Records # {} /\ Workers # {}
    /\ IsFiniteSet(Contexts)
    /\ Workers \cap Clients = {} /\ Contexts \cap Unmanaged = {}
    /\ None \notin Records \cup Callers
    /\ Dispatchers \subseteq Callers
    /\ TaskWaiters \subseteq Contexts
    /\ Faulty \subseteq Contexts
    /\ Policies \subseteq DispatchPolicies

VARIABLES
    lifecycle,         \* InfrastructureLifecycle and the progress of shutdown
    lock,              \* the holder of the facility mutex, or None
    available,         \* the free records (TaskRecordAvailabilitySet)
    record,            \* the Task records
    queue,             \* the FIFO of queued records (TaskRecordQueue)
    idle,              \* the Workers published as available (WorkerLeaseScheduler)
    waiters,           \* _waiters: registrations for a Task incarnation
    admissionWaiters,  \* _admissionWaiters: contexts registered for capacity
    signalled,         \* the contexts whose latched wake signal is set
    stopped,           \* the clients that were requested to stop
    pc,                \* where each caller is
    call,              \* the operation each caller has in progress
    running,           \* the Task incarnation each Worker is invoking
    handles            \* the live Task handles

facilityVars == <<available, record, queue, idle, waiters, admissionWaiters>>
vars == <<lifecycle, lock, facilityVars, signalled, stopped, pc, call, running,
          handles>>

-----------------------------------------------------------------------------
(* Data.                                                                   *)

TaskStates == {"Queued", "Running", "RunningCancelRequested", "Completed",
               "Cancelled"}
Executing == {"Running", "RunningCancelRequested"}
Terminal  == {"Completed", "Cancelled"}

\* What the payload bytes hold; "corrupt" after destroying what is not there.
Payloads == {"empty", "callable", "result", "corrupt"}

\* A Task record: the packed control byte (state, owner, phase), the payload and
\* the scratch field read as an execution context. Read as a queue link the
\* scratch field is part of queue, and worker is None.
TaskRecord == [state : TaskStates, owner : BOOLEAN, phase : BOOLEAN,
               payload : Payloads, worker : Workers \cup {None}]

InitialRecord == [state |-> "Queued", owner |-> FALSE, phase |-> FALSE,
                  payload |-> "empty", worker |-> None]

\* A Task incarnation: a record and the phase bit it was admitted with.
Binding   == [rec : Records, phase : BOOLEAN]
NoBinding == [rec |-> None, phase |-> FALSE]

Registration == [context : Contexts, task : Binding]

Call   == [task : Binding \cup {NoBinding},
           policy : DispatchPolicies \cup {"Wait", "WaitFor", "none"},
           wakeFailed : BOOLEAN]
NoCall == [task |-> NoBinding, policy |-> "none", wakeFailed |-> FALSE]

WorkerSteps   == {"boot", "rescheduling", "loop", "claim", "asleep", "user",
                  "completed", "cancelled", "exited"}
ClientSteps   == {"ready", "finished"}
DispatchSteps == {"dispatch", "scheduling",
                  "admission", "admission-asleep", "admission-woken", "admission-expired",
                  "grant", "grant-asleep", "grant-woken", "grant-expired", "reentrant"}
WaitSteps     == {"wait", "wait-asleep", "wait-woken", "wait-settle", "wait-leave"}
Steps == WorkerSteps \cup ClientSteps \cup DispatchSteps \cup WaitSteps

Lifecycles == {"Started", "Cancelling", "Stopping", "Scanned", "Joining",
               "ShutdownComplete"}

-----------------------------------------------------------------------------
(* Queries (TaskFacilityCore; the facility mutex is held).                 *)

IsCurrentIncarnation(b) == record[b.rec].phase = b.phase

Incarnation(r) == [rec |-> r, phase |-> record[r].phase]

IsTerminal(b) == IsCurrentIncarnation(b) => record[b.rec].state \in Terminal

\* Variant: a Task that was granted and then cancelled counts as never granted.
GrantForgottenOnceCancelled(b) ==
    IsCurrentIncarnation(b) /\ record[b.rec].state \in Executing \cup {"Completed"}

HasWorkerGrant(b) ==
    /\ IsCurrentIncarnation(b)
    /\ record[b.rec].state # "Queued"
    /\ record[b.rec].state = "Cancelled" => record[b.rec].worker # None

\* The record granted to Worker w that AssignedTaskForContext finds.
AssignedTo(w, r) == record[r].state \in Executing /\ record[r].worker = w

IsCancellationRequestedForContext(w) ==
    \E r \in Records : record[r].state = "RunningCancelRequested" /\ record[r].worker = w

HasExecutionWork ==
    \E r \in Records \ available : record[r].state \in {"Queued"} \cup Executing

\* The lifecycle predicates the gates read.
CanActivate     == lifecycle = "Started"
ShouldTerminate == lifecycle # "Started"

\* IsContextInterrupted, resolved structurally: the facility answers for its own
\* Workers, a Dedicated Thread for its own context.
IsInterrupted(c) ==
    IF c \in Workers THEN IsCancellationRequestedForContext(c)
    ELSE c \in stopped \/ ShouldTerminate

-----------------------------------------------------------------------------
(* Transitions of one record (TaskControl, TaskFacilityCore).              *)

Destroyed(payload, content) == IF payload = content THEN "empty" ELSE "corrupt"

Initialized(x) == [state |-> "Queued", owner |-> TRUE, phase |-> ~x.phase,
                   payload |-> "callable", worker |-> None]

Claimed(x, w) == [x EXCEPT !.state = "Running", !.worker = w]

\* A queued Task is cancelled: the callable is destroyed, the scratch field invalid.
Abandoned(x) == [x EXCEPT !.state = "Cancelled", !.worker = None,
                          !.payload = Destroyed(@, "callable")]

\* Variant: the request is recorded in a Task that has already finished.
CancelledUnchecked(x) ==
    IF x.state = "Queued" THEN Abandoned(x) ELSE [x EXCEPT !.state = "RunningCancelRequested"]

Cancelled(x) ==
    CASE x.state = "Queued"  -> Abandoned(x)
      [] x.state = "Running" -> [x EXCEPT !.state = "RunningCancelRequested"]
      [] OTHER -> x

Released(x) ==
    CASE x.state = "Queued"    -> [Abandoned(x) EXCEPT !.owner = FALSE]
      [] x.state = "Completed" -> [x EXCEPT !.owner = FALSE,
                                            !.payload = Destroyed(@, "result")]
      [] OTHER -> [x EXCEPT !.owner = FALSE]

\* Variant: the handle is consumed, the ownership bit stays.
TakenButOwned(x) == [x EXCEPT !.payload = Destroyed(@, "result")]

Taken(x) == [x EXCEPT !.owner = FALSE, !.payload = Destroyed(@, "result")]

\* The callable is destroyed after it returned; a completed one leaves a result.
Invoked(x, outcome) ==
    [x EXCEPT !.payload = IF Destroyed(@, "callable") = "corrupt" THEN "corrupt"
                          ELSE IF outcome = "completed" THEN "result" ELSE "empty"]

\* Variant: the result of a Task whose handle is gone is not destroyed.
PublishedWithResult(x, outcome) ==
    [x EXCEPT !.state = IF outcome = "completed" THEN "Completed" ELSE "Cancelled"]

Published(x, outcome) ==
    IF outcome = "completed"
    THEN [x EXCEPT !.state = "Completed",
                   !.payload = IF x.owner THEN @ ELSE Destroyed(@, "result")]
    ELSE [x EXCEPT !.state = "Cancelled"]

-----------------------------------------------------------------------------
(* Helpers that change state.                                              *)

\* Latches the signals of the targets, except some whose provider fails.
Notify(targets) ==
    \E lost \in SUBSET (targets \cap Faulty) : signalled' = signalled \cup (targets \ lost)

\* Variant: the first registration found ends the visit.
FirstWaiterOn(b) ==
    LET all == {w.context : w \in {v \in waiters : v.task = b}}
    IN  IF all = {} THEN {} ELSE {CHOOSE c \in all : TRUE}

WaitersOn(b) == {w.context : w \in {v \in waiters : v.task = b}}

\* RegistrationSet: one slot per managed context of the topology.
SlotFree(set) == Cardinality(set) < Cardinality(Contexts)

\* Variant: a cancelled Task stays linked.
StillLinked(s, r) == s

\* The intrusive FIFO without record r (Remove unlinks it; absent, nothing changes).
Without(s, r) ==
    IF \A i \in DOMAIN s : s[i] # r THEN s
    ELSE LET k == CHOOSE i \in DOMAIN s : s[i] = r
         IN  [i \in 1 .. Len(s) - 1 |-> IF i < k THEN s[i] ELSE s[i + 1]]

\* Variant: the registrations of the Task are not looked at.
ReclaimableWhileAwaited(b, x, ws) ==
    x.phase = b.phase /\ ~x.owner /\ x.state \in Terminal /\ b.rec \notin available

\* Variant: the record is reclaimed first and the waiter unregistered second.
ReclaimableBeforeUnregister(b, x, ws) ==
    /\ x.phase = b.phase /\ ~x.owner /\ x.state \in Terminal
    /\ b.rec \notin available
    /\ \A w \in waiters : w.task # b

Reclaimable(b, x, ws) ==
    /\ x.phase = b.phase /\ ~x.owner /\ x.state \in Terminal
    /\ b.rec \notin available
    /\ \A w \in ws : w.task # b

\* Variant: the callers waiting for capacity are not told.
CapacityUnannounced(free) == {}

\* A freed record wakes the callers that wait for capacity.
WokenByReclaim(free) == {c \in admissionWaiters : free}

\* The common tail of a critical section: the record of b becomes x and the
\* registrations become ws; ReclaimIfQuiescent then frees the record when nothing
\* retains the incarnation any more, which wakes the admission waiters.
UpdateAndReclaim(b, x, ws, targets) ==
    LET free == Reclaimable(b, x, ws) IN
    /\ record' = [record EXCEPT ![b.rec] = IF free THEN [x EXCEPT !.worker = None] ELSE x]
    /\ available' = available \cup {r \in {b.rec} : free}
    /\ waiters' = ws
    /\ Notify(targets \cup WokenByReclaim(free))

\* TaskFacilityCore::ReleaseOwner, the wake of the given contexts when it published
\* Cancelled, and ReclaimIfQuiescent. A stale binding releases nothing.
Relinquish(b, ws, contexts) ==
    LET x == record[b.rec]
        wasQueued == IsCurrentIncarnation(b) /\ x.state = "Queued"
    IN  /\ UpdateAndReclaim(b, IF IsCurrentIncarnation(b) THEN Released(x) ELSE x, ws,
                            {c \in contexts : wasQueued})
        /\ queue' = IF wasQueued THEN Without(queue, b.rec) ELSE queue

Goto(c, step) == pc' = [pc EXCEPT ![c] = step]

\* The code of a caller goes on after a blocking operation.
Return(c) ==
    /\ Goto(c, IF c \in Workers THEN "user" ELSE "ready")
    /\ call' = [call EXCEPT ![c] = NoCall]

InUserCode(c) == pc[c] = IF c \in Workers THEN "user" ELSE "ready"

HasFiniteBudget(c) == call[c].policy \in {"QueueWithTimeout", "WaitFor"}

\* The latched signal of c ends its native wait.
TakeSignal(c) == c \in signalled /\ signalled' = signalled \ {c}

\* The native wait ends without a signal: the budget ran out or the provider failed.
WaitGivesUp(c) == HasFiniteBudget(c) \/ c \in Faulty

-----------------------------------------------------------------------------
Init ==
    /\ lifecycle = "Started"
    /\ lock = None
    /\ available = Records
    /\ record = [r \in Records |-> InitialRecord]
    /\ queue = <<>>
    /\ idle = {}
    /\ waiters = {}
    /\ admissionWaiters = {}
    /\ signalled = {}
    /\ stopped = {}
    /\ pc = [c \in Callers |-> IF c \in Workers THEN "boot" ELSE "ready"]
    /\ call = [c \in Callers |-> NoCall]
    /\ running = [w \in Workers |-> NoBinding]
    /\ handles = {}

-----------------------------------------------------------------------------
(* ScheduleAvailableWorkers, run by c with the mutex held.                 *)

\* The calling Worker claims itself first, otherwise any available Worker.
NextWorkers(c) == IF c \in idle THEN {c} ELSE idle

\* Variant: the claimed Worker stays among the available ones.
ClaimWithoutLease(w) == w \in idle /\ UNCHANGED idle

\* TryClaimSpecific and TryClaimAvailable take the Worker out of the available ones.
TryClaim(w) == w \in idle /\ idle' = idle \ {w}

\* Variant: the grant is published without a wake.
NobodyToWake(c, w) == {}

\* The caller is not woken to take its own grant.
WorkerToWake(c, w) == {w} \ {c}

\* One iteration: a Worker is claimed and, unless it is the caller, woken; then the
\* head of the FIFO is granted to it and the waiters of that Task are woken.
Grant(c) ==
    /\ lock = c /\ pc[c] \in {"scheduling", "rescheduling"}
    /\ queue # <<>>
    /\ LET r == Head(queue)
           granted == WaitersOn(Incarnation(r))
       IN  \E w \in NextWorkers(c) : \E lost \in SUBSET (granted \cap Faulty) :
             /\ TryClaim(w)
             /\ record' = [record EXCEPT ![r] = Claimed(@, w)]
             /\ signalled' = signalled \cup WorkerToWake(c, w) \cup (granted \ lost)
             /\ call' = [call EXCEPT ![c].wakeFailed = @ \/ lost # {}]
    /\ queue' = Tail(queue)
    /\ UNCHANGED <<lifecycle, lock, available, waiters, admissionWaiters, stopped, pc,
                   running, handles>>

\* Variant: the pass serves one Task and ends.
PassMayEndEarly(c, failed) == lock = c /\ failed = call[c].wakeFailed

\* The pass ends when no Worker or no Task is left, or at the first Worker whose wake
\* fails, which stays available; failed is the result the pass returns.
PassEnds(c, failed) ==
    /\ lock = c
    /\ \/ (idle = {} \/ queue = <<>>) /\ failed = call[c].wakeFailed
       \/ queue # <<>> /\ failed /\ \E w \in NextWorkers(c) : w # c /\ w \in Faulty

-----------------------------------------------------------------------------
(* Dispatch.                                                               *)

\* ThreadingBootstrap::Dispatch reads the lifecycle once, before the facility.
BeginDispatch(c, policy) ==
    /\ c \in Dispatchers /\ InUserCode(c)
    /\ CanActivate
    /\ Goto(c, "dispatch")
    /\ call' = [call EXCEPT ![c].policy = policy]
    /\ UNCHANGED <<lifecycle, lock, facilityVars, signalled, stopped, running, handles>>

\* Variant: a caller that is no managed context waits for capacity too.
WaitsWithoutContext(c) ==
    /\ pc[c] = "dispatch" /\ lock = None
    /\ available = {}
    /\ IF call[c].policy = "AbandonImmediately"
       THEN Return(c)
       ELSE Goto(c, "admission") /\ UNCHANGED call
    /\ UNCHANGED <<lifecycle, lock, facilityVars, signalled, stopped, running, handles>>

\* No record is free: an immediate or an unmanaged dispatch returns, another waits.
DispatchWithoutCapacity(c) ==
    /\ pc[c] = "dispatch" /\ lock = None
    /\ available = {}
    /\ IF call[c].policy = "AbandonImmediately" \/ c \notin Contexts
       THEN Return(c)
       ELSE Goto(c, "admission") /\ UNCHANGED call
    /\ UNCHANGED <<lifecycle, lock, facilityVars, signalled, stopped, running, handles>>

\* AbandonImmediately does not admit a Task no Worker can take at once.
DispatchUnavailable(c) ==
    /\ pc[c] = "dispatch" /\ lock = None
    /\ available # {}
    /\ call[c].policy = "AbandonImmediately" /\ (idle = {} \/ queue # <<>>)
    /\ Return(c)
    /\ UNCHANGED <<lifecycle, lock, facilityVars, signalled, stopped, running, handles>>

\* A free record becomes a queued Task and the scheduling pass begins.
Admit(c) ==
    /\ pc[c] = "dispatch" /\ lock = None
    /\ call[c].policy = "AbandonImmediately" => idle # {} /\ queue = <<>>
    /\ \E r \in available :
         /\ available' = available \ {r}
         /\ record' = [record EXCEPT ![r] = Initialized(@)]
         /\ queue' = Append(queue, r)
         /\ call' = [call EXCEPT ![c].task = [rec |-> r, phase |-> ~record[r].phase]]
    /\ lock' = c
    /\ Goto(c, "scheduling")
    /\ UNCHANGED <<lifecycle, idle, waiters, admissionWaiters, signalled, stopped, running,
                   handles>>

\* The caller receives the handle of its Task.
ReturnHandle(c) == Return(c) /\ handles' = handles \cup {call[c].task}

\* The dispatch must give up a Task that no Worker has been granted.
MustWithdraw(c, failed) ==
    \/ failed
    \/ call[c].policy = "AbandonImmediately"
    \/ call[c].policy = "QueueWithTimeout" /\ c \notin Contexts

DispatchWithdraws(c) ==
    /\ pc[c] = "scheduling"
    /\ \E failed \in BOOLEAN : PassEnds(c, failed) /\ MustWithdraw(c, failed)
    /\ ~HasWorkerGrant(call[c].task)
    /\ Relinquish(call[c].task, waiters, {})
    /\ Return(c)
    /\ lock' = None
    /\ UNCHANGED <<lifecycle, idle, admissionWaiters, stopped, running, handles>>

DispatchReturnsTask(c) ==
    /\ pc[c] = "scheduling"
    /\ \E failed \in BOOLEAN :
         /\ PassEnds(c, failed)
         /\ \/ HasWorkerGrant(call[c].task)
            \/ ~MustWithdraw(c, failed) /\ call[c].policy = "Queue"
    /\ ReturnHandle(c)
    /\ lock' = None
    /\ UNCHANGED <<lifecycle, facilityVars, signalled, stopped, running>>

\* QueueWithTimeout goes on to WaitForWorkerGrant, outside the mutex.
DispatchAwaitsGrant(c) ==
    /\ pc[c] = "scheduling"
    /\ \E failed \in BOOLEAN : PassEnds(c, failed) /\ ~MustWithdraw(c, failed)
    /\ call[c].policy = "QueueWithTimeout"
    /\ ~HasWorkerGrant(call[c].task)
    /\ Goto(c, "grant")
    /\ lock' = None
    /\ UNCHANGED <<lifecycle, facilityVars, signalled, stopped, call, running, handles>>

-----------------------------------------------------------------------------
(* WaitForAdmissionCapacity.                                               *)

AdmissionRegisters(c) ==
    /\ pc[c] = "admission" /\ lock = None
    /\ CASE available # {} -> Goto(c, "dispatch") /\ UNCHANGED <<admissionWaiters, call>>
         [] available = {} /\ SlotFree(admissionWaiters) ->
              /\ admissionWaiters' = admissionWaiters \cup {c}
              /\ Goto(c, "admission-asleep")
              /\ UNCHANGED call
         [] OTHER -> Return(c) /\ UNCHANGED admissionWaiters
    /\ UNCHANGED <<lifecycle, lock, available, record, queue, idle, waiters, signalled,
                   stopped, running, handles>>

\* The native wait ends with the signal, or without it.
AdmissionWakes(c) ==
    /\ pc[c] = "admission-asleep"
    /\ \/ TakeSignal(c) /\ Goto(c, "admission-woken")
       \/ WaitGivesUp(c) /\ Goto(c, "admission-expired") /\ UNCHANGED signalled
    /\ UNCHANGED <<lifecycle, lock, facilityVars, stopped, call, running, handles>>

\* The budget is already spent when the loop is entered again: no wait, no check of
\* the interruption.
AdmissionExpires(c) ==
    /\ pc[c] = "admission-asleep" /\ lock = None
    /\ HasFiniteBudget(c)
    /\ admissionWaiters' = admissionWaiters \ {c}
    /\ IF available # {} THEN Goto(c, "dispatch") /\ UNCHANGED call ELSE Return(c)
    /\ UNCHANGED <<lifecycle, lock, available, record, queue, idle, waiters, signalled,
                   stopped, running, handles>>

\* After a wait, capacity comes first, then interruption, expiry and provider failure.
AdmissionRechecks(c) ==
    /\ pc[c] \in {"admission-woken", "admission-expired"} /\ lock = None
    /\ available # {} \/ c \notin Workers
    /\ CASE available # {} ->
              /\ admissionWaiters' = admissionWaiters \ {c}
              /\ Goto(c, "dispatch") /\ UNCHANGED call
         [] available = {} /\ (IsInterrupted(c) \/ pc[c] = "admission-expired") ->
              /\ admissionWaiters' = admissionWaiters \ {c}
              /\ Return(c)
         [] OTHER -> Goto(c, "admission-asleep") /\ UNCHANGED <<admissionWaiters, call>>
    /\ UNCHANGED <<lifecycle, lock, available, record, queue, idle, waiters, signalled,
                   stopped, running, handles>>

-----------------------------------------------------------------------------
(* WaitForWorkerGrant.                                                     *)

Own(c) == [context |-> c, task |-> call[c].task]

GrantRegisters(c) ==
    /\ pc[c] = "grant" /\ lock = None
    /\ CASE HasWorkerGrant(call[c].task) ->
              /\ ReturnHandle(c)
              /\ UNCHANGED <<available, record, queue, waiters, signalled>>
         [] ~HasWorkerGrant(call[c].task) /\ SlotFree(waiters) ->
              /\ waiters' = waiters \cup {Own(c)}
              /\ Goto(c, "grant-asleep")
              /\ UNCHANGED <<available, record, queue, signalled, call, handles>>
         [] OTHER ->
              /\ Relinquish(call[c].task, waiters, {})
              /\ Return(c) /\ UNCHANGED handles
    /\ UNCHANGED <<lifecycle, lock, idle, admissionWaiters, stopped, running>>

GrantWakes(c) ==
    /\ pc[c] = "grant-asleep"
    /\ \/ TakeSignal(c) /\ Goto(c, "grant-woken")
       \/ WaitGivesUp(c) /\ Goto(c, "grant-expired") /\ UNCHANGED signalled
    /\ UNCHANGED <<lifecycle, lock, facilityVars, stopped, call, running, handles>>

\* UnregisterWaiter, then the handle of a Task that has its Worker.
GrantSucceeds(c) ==
    /\ pc[c] \in {"grant-asleep", "grant-woken", "grant-expired"} /\ lock = None
    /\ pc[c] # "grant-asleep" \/ HasFiniteBudget(c)
    /\ HasWorkerGrant(call[c].task)
    /\ UpdateAndReclaim(call[c].task, record[call[c].task.rec], waiters \ {Own(c)}, {})
    /\ ReturnHandle(c)
    /\ UNCHANGED <<lifecycle, lock, queue, idle, admissionWaiters, stopped, running>>

\* Unregister and WithdrawUnreturnedDispatch: after a wait because of interruption,
\* expiry or provider failure, or because the budget was spent on entering the loop.
GrantGivesUp(c) ==
    /\ lock = None
    /\ \/ pc[c] = "grant-asleep" /\ HasFiniteBudget(c)
       \/ pc[c] = "grant-woken" /\ c \notin Workers /\ IsInterrupted(c)
       \/ pc[c] = "grant-expired" /\ c \notin Workers
    /\ ~HasWorkerGrant(call[c].task)
    /\ Relinquish(call[c].task, waiters \ {Own(c)}, {})
    /\ Return(c)
    /\ UNCHANGED <<lifecycle, lock, idle, admissionWaiters, stopped, running, handles>>

GrantSleepsAgain(c) ==
    /\ pc[c] = "grant-woken" /\ lock = None
    /\ ~HasWorkerGrant(call[c].task)
    /\ c \notin Workers /\ ~IsInterrupted(c)
    /\ Goto(c, "grant-asleep")
    /\ UNCHANGED <<lifecycle, lock, facilityVars, signalled, stopped, call, running, handles>>

\* A Worker of this facility asks the router whether it is interrupted while it holds
\* the facility mutex, and the answer takes the facility mutex again.
Reenters(c) ==
    /\ c \in Workers /\ lock = None
    /\ \/ pc[c] \in {"admission-woken", "admission-expired"} /\ available = {}
       \/ pc[c] \in {"grant-woken", "grant-expired"} /\ ~HasWorkerGrant(call[c].task)
    /\ lock' = c
    /\ Goto(c, "reentrant")
    /\ UNCHANGED <<lifecycle, facilityVars, signalled, stopped, call, running, handles>>

-----------------------------------------------------------------------------
(* Waiting on a Task (WaitWithBudget, from Wait, WaitFor and WaitUntil).   *)

\* The interruption is read first; a Worker reads it under the facility mutex.
BeginWait(c, h, policy) ==
    /\ c \in TaskWaiters /\ InUserCode(c)
    /\ ~IsInterrupted(c)
    /\ c \in Workers => lock = None
    /\ Goto(c, "wait")
    /\ call' = [call EXCEPT ![c].task = h, ![c].policy = policy]
    /\ UNCHANGED <<lifecycle, lock, facilityVars, signalled, stopped, running, handles>>

\* Terminal publication and registration are serialised by the mutex.
WaitRegisters(c) ==
    /\ pc[c] = "wait" /\ lock = None
    /\ IF IsTerminal(call[c].task) \/ ~SlotFree(waiters)
       THEN Return(c) /\ UNCHANGED waiters
       ELSE /\ waiters' = waiters \cup {Own(c)}
            /\ Goto(c, "wait-asleep")
            /\ UNCHANGED call
    /\ UNCHANGED <<lifecycle, lock, available, record, queue, idle, admissionWaiters,
                   signalled, stopped, running, handles>>

\* The native wait ends with the signal, or the wait is over: after a spent budget
\* or a provider failure the code only reads before it leaves.
WaitWakes(c) ==
    /\ pc[c] = "wait-asleep"
    /\ \/ TakeSignal(c) /\ Goto(c, "wait-woken")
       \/ WaitGivesUp(c) /\ Goto(c, "wait-leave") /\ UNCHANGED signalled
    /\ UNCHANGED <<lifecycle, lock, facilityVars, stopped, call, running, handles>>

\* The predicate does not hold yet: the mutex is released to read the interruption.
WaitRechecks(c) ==
    /\ pc[c] = "wait-woken" /\ lock = None
    /\ ~IsTerminal(call[c].task)
    /\ Goto(c, "wait-settle")
    /\ UNCHANGED <<lifecycle, lock, facilityVars, signalled, stopped, call, running, handles>>

\* Variant: the waiter goes back to sleep on a signal that was not for its Task.
WaitSettlesUnchecked(c) ==
    /\ pc[c] = "wait-settle"
    /\ Goto(c, "wait-asleep")
    /\ UNCHANGED <<lifecycle, lock, facilityVars, signalled, stopped, call, running, handles>>

WaitSettles(c) ==
    /\ pc[c] = "wait-settle"
    /\ c \in Workers => lock = None
    /\ Goto(c, IF IsInterrupted(c) THEN "wait-leave" ELSE "wait-asleep")
    /\ UNCHANGED <<lifecycle, lock, facilityVars, signalled, stopped, call, running, handles>>

\* UnregisterWaiter, which may free the record, and the return.
WaitLeaves(c) ==
    /\ lock = None
    /\ pc[c] = "wait-leave" \/ (pc[c] = "wait-woken" /\ IsTerminal(call[c].task))
    /\ UpdateAndReclaim(call[c].task, record[call[c].task.rec], waiters \ {Own(c)}, {})
    /\ Return(c)
    /\ UNCHANGED <<lifecycle, lock, queue, idle, admissionWaiters, stopped, running, handles>>

-----------------------------------------------------------------------------
(* The operations of a Task handle that do not block. Any thread may call  *)
(* them: each is one critical section.                                     *)

Cancel(h) ==
    LET x == record[h.rec]
        wasQueued == IsCurrentIncarnation(h) /\ x.state = "Queued"
        executing == IsCurrentIncarnation(h) /\ x.state \in Executing
    IN  /\ lock = None
        /\ UpdateAndReclaim(h, IF IsCurrentIncarnation(h) THEN Cancelled(x) ELSE x, waiters,
                            IF wasQueued THEN WaitersOn(h)
                            ELSE {w \in {x.worker} : executing})
        /\ queue' = IF wasQueued THEN Without(queue, h.rec) ELSE queue
        /\ UNCHANGED <<lifecycle, lock, idle, admissionWaiters, stopped, pc, call, running,
                       handles>>

\* A handle is not destroyed while a call on it has yet to reach the facility.
Unused(h) == \A c \in Callers : pc[c] = "wait" => call[c].task # h

\* ~Task and move assignment.
ReleaseOwner(h) ==
    /\ lock = None
    /\ Unused(h)
    /\ Relinquish(h, waiters, WaitersOn(h))
    /\ handles' = handles \ {h}
    /\ UNCHANGED <<lifecycle, lock, idle, admissionWaiters, stopped, pc, call, running>>

\* Consumes the handle when the Task has completed, and does nothing otherwise.
TakeResult(h) ==
    /\ lock = None
    /\ Unused(h)
    /\ IsCurrentIncarnation(h) /\ record[h.rec].state = "Completed"
    /\ UpdateAndReclaim(h, Taken(record[h.rec]), waiters, {})
    /\ handles' = handles \ {h}
    /\ UNCHANGED <<lifecycle, lock, queue, idle, admissionWaiters, stopped, pc, call, running>>

-----------------------------------------------------------------------------
(* The Worker trampoline.                                                  *)

\* WorkerBecameAvailable: the Worker is published and the scheduling pass begins.
WorkerBecameAvailable(w) ==
    /\ pc[w] = "boot" /\ lock = None
    /\ idle' = idle \cup {w}
    /\ lock' = w
    /\ Goto(w, "rescheduling")
    /\ UNCHANGED <<lifecycle, available, record, queue, waiters, admissionWaiters, signalled,
                   stopped, call, running, handles>>

\* The Worker ignores the result of the pass.
RescheduleEnds(w) ==
    /\ pc[w] = "rescheduling"
    /\ \E failed \in BOOLEAN : PassEnds(w, failed)
    /\ lock' = None
    /\ Goto(w, "loop")
    /\ call' = [call EXCEPT ![w] = NoCall]
    /\ UNCHANGED <<lifecycle, facilityVars, signalled, stopped, running, handles>>

WorkerReadsLifecycle(w) ==
    /\ pc[w] = "loop"
    /\ Goto(w, IF ShouldTerminate THEN "exited" ELSE "claim")
    /\ UNCHANGED <<lifecycle, lock, facilityVars, signalled, stopped, call, running, handles>>

\* AssignedTaskForContext, then Invoke or the native wait.
WorkerClaims(w) ==
    /\ pc[w] = "claim" /\ lock = None
    /\ \/ \E r \in Records :
            /\ AssignedTo(w, r)
            /\ running' = [running EXCEPT ![w] = Incarnation(r)]
            /\ Goto(w, "user")
       \/ /\ \A r \in Records : ~AssignedTo(w, r)
          /\ Goto(w, "asleep")
          /\ UNCHANGED running
    /\ UNCHANGED <<lifecycle, lock, facilityVars, signalled, stopped, call, handles>>

WorkerWakes(w) ==
    /\ pc[w] = "asleep"
    /\ \/ TakeSignal(w)
       \/ w \in Faulty /\ UNCHANGED signalled
    /\ Goto(w, "loop")
    /\ UNCHANGED <<lifecycle, lock, facilityVars, stopped, call, running, handles>>

\* The callable returns, outside the mutex.
TaskReturns(w) ==
    /\ pc[w] = "user"
    /\ \E outcome \in {"completed", "cancelled"} :
         /\ record' = [record EXCEPT ![running[w].rec] = Invoked(@, outcome)]
         /\ Goto(w, outcome)
    /\ UNCHANGED <<lifecycle, lock, available, queue, idle, waiters, admissionWaiters,
                   signalled, stopped, call, running, handles>>

\* CompleteWorkerTask: the outcome is published, the waiters are woken, the record is
\* freed if nothing retains it, and the Worker is published again.
CompleteWorkerTask(w) ==
    /\ pc[w] \in {"completed", "cancelled"} /\ lock = None
    /\ LET b == running[w]
           x == record[b.rec]
       IN  UpdateAndReclaim(b, IF IsCurrentIncarnation(b) THEN Published(x, pc[w]) ELSE x,
                            waiters, WaitersOn(b))
    /\ running' = [running EXCEPT ![w] = NoBinding]
    /\ idle' = idle \cup {w}
    /\ lock' = w
    /\ Goto(w, "rescheduling")
    /\ UNCHANGED <<lifecycle, queue, admissionWaiters, stopped, call, handles>>

-----------------------------------------------------------------------------
(* Shutdown of the topology, as far as this facility sees it.              *)

\* InfrastructureLifecycle::BeginShutdown publishes ShuttingDown first.
BeginShutdown ==
    /\ lifecycle = "Started"
    /\ lifecycle' = "Cancelling"
    /\ UNCHANGED <<lock, facilityVars, signalled, stopped, pc, call, running, handles>>

\* BeginShutdownCancellation cancels every allocated record. Each queued one is
\* unlinked, and the FIFO holds nothing else. Nothing is reclaimed here.
BeginShutdownCancellation ==
    /\ lifecycle = "Cancelling" /\ lock = None
    /\ LET queued    == {r \in Records \ available : record[r].state = "Queued"}
           executing == {r \in Records \ available : record[r].state \in Executing}
       IN  Notify((UNION {WaitersOn(Incarnation(r)) : r \in queued})
                  \cup {record[r].worker : r \in executing}
                  \cup admissionWaiters)
    /\ record' = [r \in Records |-> IF r \in available THEN record[r] ELSE Cancelled(record[r])]
    /\ queue' = <<>>
    /\ lifecycle' = "Stopping"
    /\ UNCHANGED <<lock, available, idle, waiters, admissionWaiters, stopped, pc, call, running,
                   handles>>

\* RequestStop on a Dedicated Thread, by BeginShutdown or by the application.
RequestStop(c) ==
    /\ c \in Clients \ stopped
    /\ stopped' = stopped \cup {c}
    /\ Notify({c})
    /\ UNCHANGED <<lifecycle, lock, facilityVars, pc, call, running, handles>>

\* A cooperating Dedicated Thread returns once it was requested to stop.
ClientFinishes(c) ==
    /\ pc[c] = "ready" /\ c \in stopped
    /\ Goto(c, "finished")
    /\ UNCHANGED <<lifecycle, lock, facilityVars, signalled, stopped, call, running, handles>>

\* FinalizeShutdown polls the resources one after the other: first this facility...
FacilityIsQuiescent ==
    /\ lifecycle = "Stopping" /\ Clients \subseteq stopped /\ lock = None
    /\ ~HasExecutionWork
    /\ lifecycle' = "Scanned"
    /\ UNCHANGED <<lock, facilityVars, signalled, stopped, pc, call, running, handles>>

\* ... then the Dedicated Threads. Quiescent, it wakes the Workers to join them.
TopologyIsQuiescent ==
    /\ lifecycle = "Scanned"
    /\ IF \A c \in Clients : pc[c] = "finished"
       THEN lifecycle' = "Joining" /\ Notify(Workers)
       ELSE lifecycle' = "Stopping" /\ UNCHANGED signalled
    /\ UNCHANGED <<lock, facilityVars, stopped, pc, call, running, handles>>

\* Every Worker was joined and destroyed: ShutdownComplete is published.
FinalizeShutdown ==
    /\ lifecycle = "Joining"
    /\ \A w \in Workers : pc[w] = "exited"
    /\ lifecycle' = "ShutdownComplete"
    /\ UNCHANGED <<lock, facilityVars, signalled, stopped, pc, call, running, handles>>

-----------------------------------------------------------------------------
\* What a thread does by itself once it has begun an operation.
Proceed(c) ==
    \/ Grant(c)
    \/ DispatchWithoutCapacity(c) \/ DispatchUnavailable(c) \/ Admit(c)
    \/ DispatchWithdraws(c) \/ DispatchReturnsTask(c) \/ DispatchAwaitsGrant(c)
    \/ AdmissionRegisters(c) \/ AdmissionWakes(c) \/ AdmissionExpires(c)
    \/ AdmissionRechecks(c)
    \/ GrantRegisters(c) \/ GrantWakes(c) \/ GrantSucceeds(c) \/ GrantGivesUp(c)
    \/ GrantSleepsAgain(c) \/ Reenters(c)
    \/ WaitRegisters(c) \/ WaitWakes(c) \/ WaitRechecks(c) \/ WaitSettles(c)
    \/ WaitLeaves(c)

Work(w) ==
    \/ WorkerBecameAvailable(w) \/ RescheduleEnds(w) \/ WorkerReadsLifecycle(w)
    \/ WorkerClaims(w) \/ WorkerWakes(w) \/ TaskReturns(w) \/ CompleteWorkerTask(w)

\* What the application decides to do.
Request ==
    \/ \E c \in Callers, policy \in Policies : BeginDispatch(c, policy)
    \/ \E c \in Contexts, h \in handles, policy \in {"Wait", "WaitFor"} :
         BeginWait(c, h, policy)
    \/ \E h \in handles : Cancel(h) \/ ReleaseOwner(h) \/ TakeResult(h)

ShutdownStep ==
    \/ BeginShutdownCancellation \/ FacilityIsQuiescent \/ TopologyIsQuiescent
    \/ FinalizeShutdown

Next ==
    \/ \E c \in Callers : Proceed(c)
    \/ \E w \in Workers : Work(w)
    \/ \E c \in Clients : RequestStop(c) \/ ClientFinishes(c)
    \/ Request
    \/ BeginShutdown \/ ShutdownStep

Spec == Init /\ [][Next]_vars

-----------------------------------------------------------------------------
(* Fairness. Every thread keeps running, and a thread that keeps asking    *)
(* for a mutex which is free again and again gets it: the priority-based   *)
(* native mutexes the Platform wraps queue their waiters. Callables return *)
(* and the shutdown thread goes on with the shutdown it began. What the    *)
(* application decides to do is not fair.                                  *)

Fairness ==
    /\ \A c \in Callers : SF_vars(Proceed(c))
    /\ \A w \in Workers : SF_vars(Work(w))
    /\ \A c \in Clients : WF_vars(ClientFinishes(c))
    /\ \A c \in Clients : WF_vars(ShouldTerminate /\ RequestStop(c))
    /\ SF_vars(ShutdownStep)

FairSpec == Spec /\ Fairness

-----------------------------------------------------------------------------
\* Every variable has its type.
TypeOK ==
    /\ lifecycle \in Lifecycles
    /\ lock \in Callers \cup {None}
    /\ available \in SUBSET Records
    /\ record \in [Records -> TaskRecord]
    /\ queue \in Seq(Records)
    /\ idle \in SUBSET Workers
    /\ waiters \in SUBSET Registration
    /\ admissionWaiters \in SUBSET Contexts
    /\ signalled \in SUBSET Contexts
    /\ stopped \in SUBSET Clients
    /\ pc \in [Callers -> Steps]
    /\ call \in [Callers -> Call]
    /\ running \in [Workers -> Binding \cup {NoBinding}]
    /\ handles \in SUBSET Binding

\* The caller has a Task admitted whose handle it has not been given yet.
InFlight(c) == pc[c] \in DispatchSteps /\ call[c].task # NoBinding

Allocated(r) == r \notin available

\* The binding names the incarnation that its record holds.
Pinned(b) == IsCurrentIncarnation(b) /\ Allocated(b.rec)

Queued(r) == Allocated(r) /\ record[r].state = "Queued"

\* The intrusive FIFO shares the scratch field of a record with the execution context
\* and is unlinked from the middle by Cancel and by the last handle: it must hold every
\* queued Task exactly once and no other.
QueueHoldsQueuedTasks ==
    /\ \A i, j \in DOMAIN queue : queue[i] = queue[j] => i = j
    /\ \A r \in Records : Queued(r) <=> \E i \in DOMAIN queue : queue[i] = r

\* A Worker holds at most one grant, is not available for another while it holds one,
\* and what it invokes is the current incarnation of the Task it was granted, however
\* cancellation, release of the handle and reclamation interleave with the callable.
GrantsAreExclusive ==
    /\ \A r \in Records : record[r].state \in Executing =>
          Allocated(r) /\ record[r].worker \in Workers \ idle
    /\ \A w \in Workers, r, s \in Records : AssignedTo(w, r) /\ AssignedTo(w, s) => r = s
    /\ \A w \in Workers : running[w] # NoBinding =>
          IsCurrentIncarnation(running[w]) /\ AssignedTo(w, running[w].rec)

\* Outside a critical section no Task is queued while a Worker is available, even when
\* wakes fail: the pass stops at a failed wake only in a dispatch that then withdraws.
WorkConserved == lock = None => idle = {} \/ queue = <<>>

\* A Worker that sleeps after having missed its grant has its wake latched: no grant
\* is left with a Worker nobody wakes.
NoStrandedGrant ==
    \A w \in Workers :
        pc[w] = "asleep" /\ (\E r \in Records : AssignedTo(w, r)) => w \in signalled

\* What the payload storage of a record must hold.
ExpectedPayload(r) ==
    LET x == record[r] IN
    CASE r \in available \/ x.state = "Cancelled" -> "empty"
      [] Queued(r) -> "callable"
      [] Allocated(r) /\ x.state \in Executing ->
           CASE pc[x.worker] = "completed" -> "result"
             [] pc[x.worker] = "cancelled" -> "empty"
             [] OTHER -> "callable"
      [] Allocated(r) /\ x.state = "Completed" -> IF x.owner THEN "result" ELSE "empty"

\* The callable and the result share one storage: each is constructed once, destroyed
\* exactly once, by whichever of the Worker, the canceller and the handle comes last.
PayloadLifetime == \A r \in Records : record[r].payload = ExpectedPayload(r)

\* No record is reused under somebody's feet: whoever holds a binding (a handle, a
\* dispatch in flight, a registration, a Worker) finds the incarnation it names. With
\* one phase bit a second reuse would even go unnoticed.
InterestsPinRecord ==
    /\ \A h \in handles : Pinned(h)
    /\ \A v \in waiters : Pinned(v.task)
    /\ \A c \in Callers : InFlight(c) => Pinned(call[c].task)
    /\ \A w \in Workers : running[w] # NoBinding => Pinned(running[w])

\* The ownership bit of a record is set exactly when one handle, or the dispatch that
\* will return it, stands for its current incarnation.
OwnershipIsUnique ==
    /\ \A r \in Records : record[r].owner <=>
          \/ Incarnation(r) \in handles
          \/ \E c \in Callers : InFlight(c) /\ call[c].task = Incarnation(r)
    /\ \A c \in Callers : InFlight(c) =>
          /\ call[c].task \notin handles
          /\ \A d \in Callers : InFlight(d) /\ call[d].task = call[c].task => d = c

\* A finished Task without a handle keeps its record only while somebody is still
\* registered on it: whoever leaves last frees it.
NoRecordLeak ==
    \A r \in Records :
        Allocated(r) /\ record[r].state \in Terminal /\ ~record[r].owner
            => WaitersOn(Incarnation(r)) # {}

\* A context that sleeps although what it waits for has happened (its Task finished, or
\* was granted) has its signal latched, unless its signal provider fails.
NoLostTaskWakeup ==
    \A c \in Contexts \ Faulty :
        /\ pc[c] = "wait-asleep" /\ IsTerminal(call[c].task) => c \in signalled
        /\ pc[c] = "grant-asleep" /\ HasWorkerGrant(call[c].task) => c \in signalled

\* A dispatcher that sleeps although a record is free has its signal latched.
NoLostCapacityWakeup ==
    \A c \in Contexts \ Faulty :
        pc[c] = "admission-asleep" /\ available # {} => c \in signalled

\* A context that sleeps on a Task although it was itself requested to cancel or to
\* stop has its signal latched, also when an earlier signal was consumed by this wait.
InterruptedTaskWaitIsWoken ==
    \A c \in Contexts \ Faulty :
        pc[c] = "wait-asleep" /\ (c \in stopped \/ IsCancellationRequestedForContext(c))
            => c \in signalled

GrantSteps == {"grant", "grant-asleep", "grant-woken", "grant-expired"}
AdmissionSteps == {"admission", "admission-asleep", "admission-woken", "admission-expired"}

\* The part of a Worker's life in which it holds no Task.
BetweenTasks == {"boot", "rescheduling", "loop", "claim", "asleep", "exited"}

\* Caller c can be at this step, with this Task in its call.
PlaceOK(c, step, task) ==
    /\ step \in WorkerSteps => c \in Workers
    /\ step \in AdmissionSteps \cup GrantSteps \cup WaitSteps => c \in Contexts
    /\ step \in {"scheduling"} \cup GrantSteps \cup WaitSteps => task \in Binding
    /\ step \in WorkerSteps \cup ClientSteps \cup {"dispatch"} \cup AdmissionSteps
          => task = NoBinding

\* Every caller is where it can be, and a Worker in its Task has one.
ControlOK ==
    /\ \A c \in Callers : PlaceOK(c, pc[c], call[c].task)
    /\ \A w \in Workers : pc[w] \notin BetweenTasks => running[w] \in Binding

ExecutingHaveWorker ==
    \A r \in Records : record[r].state \in Executing => record[r].worker \in Workers

\* A Worker that was not published yet holds no grant.
BootsWithoutGrant ==
    \A w \in Workers : pc[w] = "boot" => w \notin idle /\ \A r \in Records : ~AssignedTo(w, r)

\* A call on a handle keeps the handle until the call has reached the facility.
WaitsOnHandle == \A c \in Callers : pc[c] = "wait" => call[c].task \in handles

\* The inductive invariant: together the invariants above are preserved by every step.
IInv ==
    /\ TypeOK /\ ControlOK /\ ExecutingHaveWorker
    /\ QueueHoldsQueuedTasks
    /\ GrantsAreExclusive /\ BootsWithoutGrant
    /\ InterestsPinRecord /\ OwnershipIsUnique /\ WaitsOnHandle

Advances ==
    {<<"Queued", "Running">>, <<"Queued", "Cancelled">>,
     <<"Running", "RunningCancelRequested">>, <<"Running", "Completed">>,
     <<"Running", "Cancelled">>,
     <<"RunningCancelRequested", "Completed">>, <<"RunningCancelRequested", "Cancelled">>}

\* Within one incarnation a Task only advances and a final state is final; a new
\* incarnation begins only in a record that was free.
TasksOnlyAdvance ==
    [][\A r \in Records :
          IF record'[r].phase = record[r].phase
          THEN \/ record'[r].state = record[r].state
               \/ <<record[r].state, record'[r].state>> \in Advances
          ELSE r \in available /\ record'[r].state = "Queued"]_vars

\* A dispatch that returns without a handle leaves a Task no Worker was ever granted,
\* although the grant, the expiry, the cancellation and the shutdown race.
RefusedDispatchNeverRan ==
    [][\A c \in Callers :
          InFlight(c) /\ call'[c] = NoCall /\ call[c].task \notin handles'
              => record[call[c].task.rec].worker = None]_vars

-----------------------------------------------------------------------------
(* The facility as its users see it.                                       *)

StatusOf(r) == IF r \in available THEN "Free" ELSE record[r].state

\* The queued Tasks that the FIFO holds before record r.
AheadOf(r) ==
    {s \in Records : \E i, j \in DOMAIN queue : i < j /\ queue[i] = s /\ queue[j] = r}

Pool == INSTANCE TaskPool
        WITH Slots  <- Records,
             status <- [r \in Records |-> StatusOf(r)],
             owned  <- {r \in Records : record[r].owner},
             worker <- [r \in Records |->
                          IF record[r].state \in Executing THEN record[r].worker ELSE None],
             ahead  <- [r \in Records |-> AheadOf(r)]

\* The facility is a pool: whatever races, Tasks are granted in the order of admission,
\* each to a Worker without one, end once, and leave their record only when nobody
\* holds their handle (TaskFacilityCore, TaskFacilityRuntime).
ImplementsPool == Pool!Spec

-----------------------------------------------------------------------------
(* Liveness, under FairSpec and with signals that do not fail.             *)

\* A queued Task is granted, cancelled or withdrawn, unless shutdown begins.
QueuedTaskIsServed ==
    \A r \in Records : Queued(r) ~> (~Queued(r) \/ ShouldTerminate)

\* Whoever waits on a Task returns once the Task has finished or the waiter has itself
\* been requested to stop.
TaskWaitReturns ==
    \A c \in Contexts :
        (pc[c] \in WaitSteps /\ (IsTerminal(call[c].task) \/ c \in stopped))
            ~> pc[c] \notin WaitSteps

-----------------------------------------------------------------------------
(* What the documentation says and the code does not do.                   *)

\* docs/LIFECYCLE.MD:46 names noncooperating user code as what can hold up terminal
\* shutdown: with cooperating callables and threads, and no dispatch in progress when
\* shutdown begins, it should complete.
ShutdownCompletes ==
    (ShouldTerminate /\ \A c \in Callers : pc[c] \notin DispatchSteps)
        ~> lifecycle = "ShutdownComplete"

\* README.MD:25: the facility mutex is the Platform's non-recursive one, so no thread
\* takes it while it holds it.
NeverReacquiresFacilityMutex == \A c \in Callers : pc[c] # "reentrant"
=============================================================================
