------------------------- MODULE TaskFacilityProofs -------------------------
(***************************************************************************)
(* Theorems about TaskFacility, for every number of records, Workers and   *)
(* callers, every choice of policies and every set of failing signals.     *)
(***************************************************************************)
EXTENDS TaskFacility, TLAPS

-----------------------------------------------------------------------------
(* The operators on one record and on the FIFO.                            *)

\* Removing a record from the FIFO leaves a sequence of records.
LEMMA WithoutType ==
  ASSUME NEW s \in Seq(Records), NEW r \in Records
  PROVE  Without(s, r) \in Seq(Records)
<1>1. CASE \A i \in DOMAIN s : s[i] # r
  BY <1>1 DEF Without
<1>2. CASE ~ \A i \in DOMAIN s : s[i] # r
  <2> DEFINE k == CHOOSE i \in DOMAIN s : s[i] = r
             t == [i \in 1 .. Len(s) - 1 |-> IF i < k THEN s[i] ELSE s[i + 1]]
  <2>1. Len(s) - 1 \in Nat
    BY <1>2
  <2>2. \A i \in 1 .. Len(s) - 1 : t[i] \in Records
    BY <2>1
  <2>3. t \in [1 .. Len(s) - 1 -> Records]
    BY <2>2
  <2>4. t \in Seq(Records)
    BY <2>1, <2>3
  <2> QED BY <1>2, <2>4 DEF Without
<1> QED BY <1>1, <1>2

\* Every transition of a record yields a record, and leaves an executing Task with its
\* Worker.
LEMMA TransitionTypes ==
  ASSUME NEW x \in TaskRecord, NEW w \in Workers, NEW outcome \in {"completed", "cancelled"},
         x.state \in Executing => x.worker \in Workers
  PROVE  \A y \in {Initialized(x), Claimed(x, w), Cancelled(x), Released(x), Taken(x),
                   Invoked(x, outcome), Published(x, outcome)} :
            y \in TaskRecord /\ (y.state \in Executing => y.worker \in Workers)
<1> USE DEF TaskRecord, TaskStates, Executing, Payloads, Destroyed
<1>1. Initialized(x) \in TaskRecord /\ Initialized(x).state = "Queued"
  BY DEF Initialized
<1>2. Claimed(x, w) \in TaskRecord /\ Claimed(x, w).worker = w
  BY DEF Claimed
<1>3. Abandoned(x) \in TaskRecord /\ Abandoned(x).state = "Cancelled"
  BY DEF Abandoned
<1>4. Cancelled(x) \in TaskRecord /\ (Cancelled(x).state \in Executing => Cancelled(x).worker \in Workers)
  BY <1>3 DEF Cancelled
<1>5. Released(x) \in TaskRecord /\ (Released(x).state \in Executing => Released(x).worker \in Workers)
  BY <1>3 DEF Released
<1>6. Taken(x) \in TaskRecord /\ Taken(x).state = x.state /\ Taken(x).worker = x.worker
  BY DEF Taken
<1>7. Invoked(x, outcome) \in TaskRecord /\ Invoked(x, outcome).state = x.state
      /\ Invoked(x, outcome).worker = x.worker
  BY DEF Invoked
<1>8. Published(x, outcome) \in TaskRecord /\ Published(x, outcome).state \notin Executing
  BY DEF Published
<1> QED BY <1>1, <1>2, <1>4, <1>5, <1>6, <1>7, <1>8

-----------------------------------------------------------------------------
(* Types and control: who can be where, with what at hand.                 *)

TypesAndControl == TypeOK /\ ControlOK /\ ExecutingHaveWorker

\* The contexts a step wakes are contexts.
LEMMA NotifyType ==
  ASSUME TypeOK, NEW targets \in SUBSET Contexts, Notify(targets)
  PROVE  signalled' \in SUBSET Contexts
BY DEF TypeOK, Notify

LEMMA WaitersOnType ==
  ASSUME TypeOK, NEW b \in Binding
  PROVE  WaitersOn(b) \in SUBSET Contexts
BY DEF TypeOK, WaitersOn, Registration

\* The common tail of a critical section keeps the types.
LEMMA UpdateTypes ==
  ASSUME TypesAndControl, NEW b \in Binding, NEW x \in TaskRecord,
         x.state \in Executing => x.worker \in Workers,
         NEW ws \in SUBSET Registration, NEW targets \in SUBSET Contexts,
         UpdateAndReclaim(b, x, ws, targets)
  PROVE  /\ record' \in [Records -> TaskRecord]
         /\ ExecutingHaveWorker'
         /\ available' \in SUBSET Records
         /\ waiters' \in SUBSET Registration
         /\ signalled' \in SUBSET Contexts
<1> USE DEF TypesAndControl, TypeOK, UpdateAndReclaim
<1>1. b.rec \in Records
  BY DEF Binding
<1> DEFINE free == Reclaimable(b, x, ws)
           y == IF free THEN [x EXCEPT !.worker = None] ELSE x
<1>2. y \in TaskRecord /\ (y.state \in Executing => y.worker \in Workers)
  BY DEF TaskRecord, Reclaimable, Executing, Terminal
<1>3. record' = [record EXCEPT ![b.rec] = y]
  OBVIOUS
<1>4. record' \in [Records -> TaskRecord]
  BY <1>1, <1>2, <1>3
<1>5. ExecutingHaveWorker'
  BY <1>1, <1>2, <1>3 DEF ExecutingHaveWorker
<1>6. available' \in SUBSET Records
  BY <1>1
<1>7. signalled' \in SUBSET Contexts
  <2>1. targets \cup WokenByReclaim(free) \in SUBSET Contexts
    BY DEF WokenByReclaim
  <2> QED BY <2>1, NotifyType
<1> QED BY <1>4, <1>5, <1>6, <1>7

\* Releasing the ownership of a Task keeps the types.
LEMMA RelinquishTypes ==
  ASSUME TypesAndControl, NEW b \in Binding, NEW ws \in SUBSET Registration,
         NEW contexts \in SUBSET Contexts, Relinquish(b, ws, contexts)
  PROVE  /\ record' \in [Records -> TaskRecord]
         /\ ExecutingHaveWorker'
         /\ available' \in SUBSET Records
         /\ waiters' \in SUBSET Registration
         /\ signalled' \in SUBSET Contexts
         /\ queue' \in Seq(Records)
<1> DEFINE x == record[b.rec]
           wasQueued == IsCurrentIncarnation(b) /\ x.state = "Queued"
           y == IF IsCurrentIncarnation(b) THEN Released(x) ELSE x
           targets == {c \in contexts : wasQueued}
<1>1. b.rec \in Records /\ x \in TaskRecord /\ (x.state \in Executing => x.worker \in Workers)
  BY DEF Binding, TypesAndControl, TypeOK, ExecutingHaveWorker
<1>2. y \in TaskRecord /\ (y.state \in Executing => y.worker \in Workers)
  <2>1. PICK w \in Workers : TRUE
    BY FacilityAssumption
  <2> QED BY <1>1, <2>1, TransitionTypes
<1>3. targets \in SUBSET Contexts
  OBVIOUS
<1>4. UpdateAndReclaim(b, y, ws, targets)
  BY DEF Relinquish
<1>5. queue' \in Seq(Records)
  <2>1. queue' = IF wasQueued THEN Without(queue, b.rec) ELSE queue
    BY DEF Relinquish
  <2> QED BY <1>1, <2>1, WithoutType DEF TypesAndControl, TypeOK
<1> HIDE DEF y, targets
<1>6. QED BY <1>2, <1>3, <1>4, <1>5, UpdateTypes

\* A caller that moves to a step where it can be keeps the control invariant.
LEMMA GotoTypes ==
  ASSUME TypesAndControl, NEW c \in Callers, NEW step \in Steps, Goto(c, step),
         running' = running, call' = call,
         PlaceOK(c, step, call[c].task),
         c \in Workers /\ step \notin BetweenTasks => running[c] \in Binding
  PROVE  pc' \in [Callers -> Steps] /\ call' \in [Callers -> Call] /\ ControlOK'
BY DEF TypesAndControl, TypeOK, ControlOK, Goto

\* A caller that goes on inside a blocking operation keeps the control invariant.
LEMMA BlockedTypes ==
  ASSUME TypesAndControl, NEW c \in Callers, NEW step \in DispatchSteps \cup WaitSteps,
         Goto(c, step), running' = running, call' = call,
         \/ pc[c] \in AdmissionSteps /\ step \in AdmissionSteps \cup {"dispatch", "reentrant"}
         \/ pc[c] \in GrantSteps /\ step \in GrantSteps \cup {"reentrant"}
         \/ pc[c] \in WaitSteps /\ step \in WaitSteps
  PROVE  pc' \in [Callers -> Steps] /\ call' \in [Callers -> Call] /\ ControlOK'
<1> USE DEF Steps, WorkerSteps, DispatchSteps, WaitSteps, AdmissionSteps, GrantSteps
<1>1. step \in Steps /\ PlaceOK(c, step, call[c].task)
  BY DEF TypesAndControl, ControlOK, PlaceOK, ClientSteps
<1>2. c \in Workers => running[c] \in Binding
  BY DEF TypesAndControl, ControlOK, BetweenTasks
<1> QED BY <1>1, <1>2, GotoTypes

\* A blocking operation that ends puts its caller back into its code.
LEMMA ReturnTypes ==
  ASSUME TypesAndControl, NEW c \in Callers, Return(c), running' = running,
         pc[c] \notin BetweenTasks
  PROVE  pc' \in [Callers -> Steps] /\ call' \in [Callers -> Call] /\ ControlOK'
BY DEF TypesAndControl, TypeOK, ControlOK, PlaceOK, Return, Goto, Steps, WorkerSteps,
       ClientSteps, DispatchSteps, WaitSteps, AdmissionSteps, GrantSteps, BetweenTasks,
       Callers, Contexts, NoCall, Call

\* A step that moves no caller keeps the control invariant.
LEMMA StayTypes ==
  ASSUME TypesAndControl, UNCHANGED <<pc, call, running>>
  PROVE  pc' \in [Callers -> Steps] /\ call' \in [Callers -> Call]
         /\ running' \in [Workers -> Binding \cup {NoBinding}] /\ ControlOK'
BY DEF TypesAndControl, TypeOK, ControlOK

\* Every step keeps the types and the control invariant.
LEMMA NextTypes == TypesAndControl /\ [Next]_vars => TypesAndControl'
<1> SUFFICES ASSUME TypesAndControl, [Next]_vars PROVE TypesAndControl'
  OBVIOUS
<1> USE FacilityAssumption DEF TypesAndControl, TypeOK, facilityVars, Callers, Contexts
<1>0. CASE UNCHANGED vars
  BY <1>0, StayTypes DEF vars, ExecutingHaveWorker
<1>1. ASSUME NEW c \in Callers, Grant(c) PROVE TypesAndControl'
  <2> DEFINE r == Head(queue)
             granted == WaitersOn(Incarnation(r))
  <2>1. /\ r \in Records /\ Tail(queue) \in Seq(Records) /\ queue' = Tail(queue)
        /\ UNCHANGED <<lifecycle, lock, available, waiters, admissionWaiters, stopped, pc,
                       running, handles>>
    BY <1>1 DEF Grant
  <2>2. PICK v \in idle, lost \in SUBSET (granted \cap Faulty) :
          /\ idle' = idle \ {v}
          /\ record' = [record EXCEPT ![r] = Claimed(@, v)]
          /\ signalled' = signalled \cup WorkerToWake(c, v) \cup (granted \ lost)
          /\ call' = [call EXCEPT ![c].wakeFailed = @ \/ lost # {}]
    BY <1>1 DEF Grant, NextWorkers, TryClaim
  <2>3. v \in Workers /\ granted \in SUBSET Contexts
    BY <2>1, WaitersOnType DEF Incarnation, Binding, TaskRecord
  <2>4. Claimed(record[r], v) \in TaskRecord /\ Claimed(record[r], v).worker \in Workers
    <3>1. record[r] \in TaskRecord
      BY <2>1
    <3> QED BY <2>3, <3>1 DEF Claimed, TaskRecord, TaskStates
  <2>5. record' \in [Records -> TaskRecord]
        /\ ExecutingHaveWorker'
    BY <2>1, <2>2, <2>4 DEF ExecutingHaveWorker
  <2>6. signalled' \in SUBSET Contexts
    BY <2>2, <2>3 DEF WorkerToWake
  <2>7. call' \in [Callers -> Call] /\ \A d \in Callers : call'[d].task = call[d].task
    <3> DEFINE failed == call[c].wakeFailed \/ lost # {}
    <3>1. failed \in BOOLEAN
      OBVIOUS
    <3>2. call' = [call EXCEPT ![c].wakeFailed = failed]
      BY <2>2
    <3> HIDE DEF failed
    <3> QED BY <3>1, <3>2 DEF Call
  <2>8. ControlOK'
    BY <2>1, <2>7 DEF ControlOK, PlaceOK
  <2> QED BY <2>1, <2>2, <2>3, <2>5, <2>6, <2>7, <2>8
<1>2. ASSUME NEW c \in Callers, NEW policy \in Policies,
             BeginDispatch(c, policy) PROVE TypesAndControl'
  <2>1. policy \in DispatchPolicies /\ c \in Callers
    BY <1>2 DEF DispatchPolicies
  <2>2. call' \in [Callers -> Call] /\ \A d \in Callers : call'[d].task = call[d].task
    BY <1>2, <2>1 DEF BeginDispatch, Call
  <2>3. pc' \in [Callers -> Steps] /\ ControlOK'
    BY <1>2, <2>2 DEF BeginDispatch, InUserCode, Goto, ControlOK, PlaceOK, Steps, WorkerSteps,
       DispatchSteps, AdmissionSteps, GrantSteps, WaitSteps, BetweenTasks
  <2> QED BY <1>2, <2>2, <2>3 DEF BeginDispatch, ExecutingHaveWorker
<1>3. ASSUME NEW c \in Callers, DispatchWithoutCapacity(c) PROVE TypesAndControl'
  <2>1. pc[c] = "dispatch" /\ pc[c] \notin BetweenTasks /\ running' = running
    BY <1>3 DEF DispatchWithoutCapacity, BetweenTasks
  <2>2. CASE Return(c)
    BY <1>3, <2>1, <2>2, ReturnTypes DEF DispatchWithoutCapacity, ExecutingHaveWorker
  <2>3. CASE c \in Contexts /\ Goto(c, "admission") /\ UNCHANGED call
    <3>1. PlaceOK(c, "admission", call[c].task) /\ (c \in Workers => running[c] \in Binding)
      BY <2>1, <2>3 DEF ControlOK, PlaceOK, WorkerSteps, AdmissionSteps, GrantSteps, WaitSteps
    <3>2. pc' \in [Callers -> Steps] /\ call' \in [Callers -> Call] /\ ControlOK'
      BY <2>1, <2>3, <3>1, GotoTypes DEF Steps, DispatchSteps
    <3> QED BY <1>3, <2>3, <3>2 DEF DispatchWithoutCapacity, ExecutingHaveWorker
  <2> QED BY <1>3, <2>2, <2>3 DEF DispatchWithoutCapacity
<1>4. ASSUME NEW c \in Callers, DispatchUnavailable(c) PROVE TypesAndControl'
  <2>1. pc[c] = "dispatch" /\ pc[c] \notin BetweenTasks /\ running' = running
    BY <1>4 DEF DispatchUnavailable, BetweenTasks
  <2> QED BY <1>4, <2>1, ReturnTypes DEF DispatchUnavailable, ExecutingHaveWorker
<1>5. ASSUME NEW c \in Callers, Admit(c) PROVE TypesAndControl'
  <2>1. PICK r \in available :
          /\ available' = available \ {r}
          /\ record' = [record EXCEPT ![r] = Initialized(@)]
          /\ queue' = Append(queue, r)
          /\ call' = [call EXCEPT ![c].task = [rec |-> r, phase |-> ~record[r].phase]]
    BY <1>5 DEF Admit
  <2>2. Initialized(record[r]) \in TaskRecord /\ Initialized(record[r]).state \notin Executing
    BY DEF Initialized, TaskRecord, TaskStates, Payloads, Executing
  <2>3. record' \in [Records -> TaskRecord]
        /\ ExecutingHaveWorker'
    BY <2>1, <2>2 DEF ExecutingHaveWorker
  <2>4. queue' \in Seq(Records)
    BY <2>1
  <2>5. [rec |-> r, phase |-> ~record[r].phase] \in Binding
    BY DEF Binding, TaskRecord
  <2>6. /\ call' \in [Callers -> Call] /\ call'[c].task \in Binding
        /\ \A d \in Callers \ {c} : call'[d] = call[d]
    <3> DEFINE b == [rec |-> r, phase |-> ~record[r].phase]
    <3>1. call[c] \in Call /\ [call[c] EXCEPT !.task = b] \in Call
      BY <2>5 DEF Call
    <3> QED BY <2>1, <2>5, <3>1 DEF Call
  <2>7. pc[c] = "dispatch" /\ Goto(c, "scheduling") /\ running' = running
    BY <1>5 DEF Admit
  <2>8. pc' \in [Callers -> Steps] /\ ControlOK'
    BY <2>6, <2>7 DEF Goto, ControlOK, PlaceOK, Steps, WorkerSteps, DispatchSteps,
       AdmissionSteps, GrantSteps, WaitSteps, BetweenTasks, ClientSteps
  <2> QED BY <1>5, <2>1, <2>3, <2>4, <2>6, <2>8 DEF Admit
<1>6. ASSUME NEW c \in Callers, DispatchWithdraws(c) PROVE TypesAndControl'
  <2>1. /\ pc[c] = "scheduling" /\ Relinquish(call[c].task, waiters, {}) /\ Return(c)
        /\ lock' = None
        /\ UNCHANGED <<lifecycle, idle, admissionWaiters, stopped, running, handles>>
    BY <1>6 DEF DispatchWithdraws
  <2>2. call[c].task \in Binding /\ pc[c] \notin BetweenTasks
    BY <2>1 DEF ControlOK, PlaceOK, BetweenTasks
  <2> QED BY <2>1, <2>2, ReturnTypes, RelinquishTypes
<1>7. ASSUME NEW c \in Callers, DispatchReturnsTask(c) PROVE TypesAndControl'
  <2>1. pc[c] = "scheduling" /\ Return(c) /\ running' = running
        /\ handles' = handles \cup {call[c].task}
    BY <1>7 DEF DispatchReturnsTask, ReturnHandle
  <2>2. call[c].task \in Binding /\ pc[c] \notin BetweenTasks
    BY <2>1 DEF ControlOK, PlaceOK, BetweenTasks
  <2>3. pc' \in [Callers -> Steps] /\ call' \in [Callers -> Call] /\ ControlOK'
    BY <2>1, <2>2, ReturnTypes
  <2> QED BY <1>7, <2>1, <2>2, <2>3 DEF DispatchReturnsTask, ExecutingHaveWorker
<1>8. ASSUME NEW c \in Callers, DispatchAwaitsGrant(c) PROVE TypesAndControl'
  <2>1. c \in Contexts
    BY <1>8 DEF DispatchAwaitsGrant, MustWithdraw
  <2>2. pc[c] = "scheduling" /\ Goto(c, "grant") /\ UNCHANGED <<call, running>>
    BY <1>8 DEF DispatchAwaitsGrant
  <2>3. PlaceOK(c, "grant", call[c].task) /\ (c \in Workers => running[c] \in Binding)
    BY <2>1, <2>2 DEF ControlOK, PlaceOK, BetweenTasks, WorkerSteps, ClientSteps,
       GrantSteps, AdmissionSteps, WaitSteps
  <2>4. pc' \in [Callers -> Steps] /\ call' \in [Callers -> Call] /\ ControlOK'
    BY <2>2, <2>3, GotoTypes DEF Steps, DispatchSteps
  <2> QED BY <1>8, <2>4 DEF DispatchAwaitsGrant, ExecutingHaveWorker
<1>9. ASSUME NEW c \in Callers, AdmissionRegisters(c) PROVE TypesAndControl'
  <2>1. pc[c] = "admission" /\ c \in Contexts /\ pc[c] \notin BetweenTasks
    BY <1>9 DEF AdmissionRegisters, ControlOK, PlaceOK, AdmissionSteps, BetweenTasks
  <2>2. /\ \/ Return(c)
           \/ \E step \in {"dispatch", "admission-asleep"} : Goto(c, step) /\ call' = call
        /\ admissionWaiters' \in SUBSET Contexts
        /\ UNCHANGED <<lifecycle, lock, available, record, queue, idle, waiters, signalled,
                       stopped, running, handles>>
    BY <1>9, <2>1 DEF AdmissionRegisters
  <2>3. pc' \in [Callers -> Steps] /\ call' \in [Callers -> Call] /\ ControlOK'
    BY <2>1, <2>2, ReturnTypes, BlockedTypes DEF AdmissionSteps, DispatchSteps
  <2> QED BY <2>2, <2>3 DEF ExecutingHaveWorker
<1>10. ASSUME NEW c \in Callers, AdmissionWakes(c) PROVE TypesAndControl'
  <2>1. /\ pc[c] = "admission-asleep" /\ signalled' \in SUBSET Contexts
        /\ \E step \in {"admission-woken", "admission-expired"} : Goto(c, step)
        /\ UNCHANGED <<lifecycle, lock, facilityVars, stopped, call, running, handles>>
    BY <1>10 DEF AdmissionWakes, TakeSignal
  <2>2. pc' \in [Callers -> Steps] /\ call' \in [Callers -> Call] /\ ControlOK'
    BY <2>1, BlockedTypes DEF AdmissionSteps, DispatchSteps
  <2> QED BY <2>1, <2>2 DEF ExecutingHaveWorker
<1>11. ASSUME NEW c \in Callers, AdmissionExpires(c) PROVE TypesAndControl'
  <2>1. pc[c] = "admission-asleep" /\ pc[c] \notin BetweenTasks
        /\ (Return(c) \/ (Goto(c, "dispatch") /\ call' = call))
        /\ admissionWaiters' \in SUBSET Contexts
        /\ UNCHANGED <<lifecycle, lock, available, record, queue, idle, waiters, signalled,
                       stopped, running, handles>>
    <3>1. CASE available # {}
      BY <1>11, <3>1 DEF AdmissionExpires, BetweenTasks
    <3>2. CASE available = {}
      BY <1>11, <3>2 DEF AdmissionExpires, BetweenTasks, Return, Goto
    <3> QED BY <3>1, <3>2
  <2>2. pc' \in [Callers -> Steps] /\ call' \in [Callers -> Call] /\ ControlOK'
    BY <2>1, ReturnTypes, BlockedTypes DEF AdmissionSteps, DispatchSteps
  <2> QED BY <2>1, <2>2 DEF ExecutingHaveWorker
<1>12. ASSUME NEW c \in Callers, AdmissionRechecks(c) PROVE TypesAndControl'
  <2>1. pc[c] \in {"admission-woken", "admission-expired"} /\ pc[c] \notin BetweenTasks
        /\ \/ Return(c)
           \/ \E step \in {"dispatch", "admission-asleep"} : Goto(c, step) /\ call' = call
        /\ admissionWaiters' \in SUBSET Contexts
        /\ UNCHANGED <<lifecycle, lock, available, record, queue, idle, waiters, signalled,
                       stopped, running, handles>>
    BY <1>12 DEF AdmissionRechecks, BetweenTasks
  <2>2. pc' \in [Callers -> Steps] /\ call' \in [Callers -> Call] /\ ControlOK'
    BY <2>1, ReturnTypes, BlockedTypes DEF AdmissionSteps, DispatchSteps
  <2> QED BY <2>1, <2>2 DEF ExecutingHaveWorker
<1>13. ASSUME NEW c \in Callers, GrantRegisters(c) PROVE TypesAndControl'
  <2>1. /\ pc[c] = "grant" /\ running' = running
        /\ call[c].task \in Binding /\ c \in Contexts /\ pc[c] \notin BetweenTasks
    BY <1>13 DEF GrantRegisters, ControlOK, PlaceOK, GrantSteps, BetweenTasks
  <2>2. CASE HasWorkerGrant(call[c].task)
    <3>1. pc' \in [Callers -> Steps] /\ call' \in [Callers -> Call] /\ ControlOK'
      BY <1>13, <2>1, <2>2, ReturnTypes DEF GrantRegisters, ReturnHandle
    <3> QED BY <1>13, <2>1, <2>2, <3>1 DEF GrantRegisters, ReturnHandle, ExecutingHaveWorker
  <2>3. CASE ~HasWorkerGrant(call[c].task) /\ SlotFree(waiters)
    <3>1. Own(c) \in Registration
      BY <2>1 DEF Own, Registration
    <3>2. pc' \in [Callers -> Steps] /\ call' \in [Callers -> Call] /\ ControlOK'
      BY <1>13, <2>1, <2>3, BlockedTypes DEF GrantRegisters, GrantSteps, DispatchSteps
    <3> QED BY <1>13, <2>3, <3>1, <3>2 DEF GrantRegisters, ExecutingHaveWorker
  <2>4. CASE ~HasWorkerGrant(call[c].task) /\ ~SlotFree(waiters)
    <3>1. Relinquish(call[c].task, waiters, {}) /\ Return(c) /\ UNCHANGED handles
          /\ UNCHANGED <<lifecycle, lock, idle, admissionWaiters, stopped, running>>
      BY <1>13, <2>4 DEF GrantRegisters
    <3> QED BY <2>1, <3>1, ReturnTypes, RelinquishTypes
  <2> QED BY <2>2, <2>3, <2>4
<1>14. ASSUME NEW c \in Callers, GrantWakes(c) PROVE TypesAndControl'
  <2>1. /\ pc[c] = "grant-asleep" /\ signalled' \in SUBSET Contexts
        /\ \E step \in {"grant-woken", "grant-expired"} : Goto(c, step)
        /\ UNCHANGED <<lifecycle, lock, facilityVars, stopped, call, running, handles>>
    BY <1>14 DEF GrantWakes, TakeSignal
  <2>2. pc' \in [Callers -> Steps] /\ call' \in [Callers -> Call] /\ ControlOK'
    BY <2>1, BlockedTypes DEF GrantSteps, DispatchSteps
  <2> QED BY <2>1, <2>2 DEF ExecutingHaveWorker
<1>15. ASSUME NEW c \in Callers, GrantSucceeds(c) PROVE TypesAndControl'
  <2> DEFINE b == call[c].task
  <2>1. /\ pc[c] \in GrantSteps
        /\ UpdateAndReclaim(b, record[b.rec], waiters \ {Own(c)}, {})
        /\ Return(c) /\ handles' = handles \cup {b}
        /\ UNCHANGED <<lifecycle, lock, queue, idle, admissionWaiters, stopped, running>>
    BY <1>15 DEF GrantSucceeds, ReturnHandle, GrantSteps
  <2>2. b \in Binding /\ b.rec \in Records /\ pc[c] \notin BetweenTasks
    BY <2>1 DEF Binding, ControlOK, PlaceOK, GrantSteps, BetweenTasks
  <2>3. record[b.rec] \in TaskRecord
        /\ (record[b.rec].state \in Executing => record[b.rec].worker \in Workers)
    BY <2>2 DEF ExecutingHaveWorker
  <2> HIDE DEF b
  <2> QED BY <2>1, <2>2, <2>3, ReturnTypes, UpdateTypes
<1>16. ASSUME NEW c \in Callers, GrantGivesUp(c) PROVE TypesAndControl'
  <2>1. /\ pc[c] \in GrantSteps /\ Relinquish(call[c].task, waiters \ {Own(c)}, {})
        /\ Return(c)
        /\ UNCHANGED <<lifecycle, lock, idle, admissionWaiters, stopped, running, handles>>
    BY <1>16 DEF GrantGivesUp, GrantSteps
  <2>2. call[c].task \in Binding /\ pc[c] \notin BetweenTasks
    BY <2>1 DEF ControlOK, PlaceOK, BetweenTasks, GrantSteps
  <2> QED BY <2>1, <2>2, ReturnTypes, RelinquishTypes
<1>17. ASSUME NEW c \in Callers, GrantSleepsAgain(c) PROVE TypesAndControl'
  <2>1. pc' \in [Callers -> Steps] /\ call' \in [Callers -> Call] /\ ControlOK'
    BY <1>17, BlockedTypes DEF GrantSleepsAgain, GrantSteps, DispatchSteps
  <2> QED BY <1>17, <2>1 DEF GrantSleepsAgain, ExecutingHaveWorker
<1>18. ASSUME NEW c \in Callers, Reenters(c) PROVE TypesAndControl'
  <2>1. pc[c] \in AdmissionSteps \cup GrantSteps
    BY <1>18 DEF Reenters, AdmissionSteps, GrantSteps
  <2>2. pc' \in [Callers -> Steps] /\ call' \in [Callers -> Call] /\ ControlOK'
    BY <1>18, <2>1, BlockedTypes DEF Reenters, DispatchSteps
  <2> QED BY <1>18, <2>2 DEF Reenters, ExecutingHaveWorker
<1>19. ASSUME NEW c \in Contexts, NEW h \in handles, NEW policy \in {"Wait", "WaitFor"},
             BeginWait(c, h, policy) PROVE TypesAndControl'
  <2>1. call' \in [Callers -> Call] /\ call'[c].task = h
        /\ \A d \in Callers \ {c} : call'[d] = call[d]
    <3>1. call[c] \in Call
      BY <1>19
    <3>2. [call[c] EXCEPT !.task = h, !.policy = policy] \in Call
      BY <1>19, <3>1 DEF Call
    <3>3. call' = [call EXCEPT ![c] = [call[c] EXCEPT !.task = h, !.policy = policy]]
      BY <1>19 DEF BeginWait
    <3> QED BY <1>19, <3>1, <3>2, <3>3 DEF Call
  <2>2. pc' \in [Callers -> Steps] /\ ControlOK'
    BY <1>19, <2>1 DEF BeginWait, InUserCode, Goto, ControlOK, PlaceOK, Steps, WorkerSteps,
       DispatchSteps, AdmissionSteps, GrantSteps, WaitSteps, BetweenTasks, ClientSteps
  <2> QED BY <1>19, <2>1, <2>2 DEF BeginWait, ExecutingHaveWorker
<1>20. ASSUME NEW c \in Callers, WaitRegisters(c) PROVE TypesAndControl'
  <2>1. /\ pc[c] = "wait" /\ running' = running
        /\ Own(c) \in Registration /\ pc[c] \notin BetweenTasks
    BY <1>20 DEF WaitRegisters, ControlOK, PlaceOK, WaitSteps, BetweenTasks, Own, Registration
  <2>2. Return(c) \/ (Goto(c, "wait-asleep") /\ call' = call)
    <3>1. CASE IsTerminal(call[c].task) \/ ~SlotFree(waiters)
      BY <1>20, <3>1 DEF WaitRegisters, Return, Goto
    <3>2. CASE ~(IsTerminal(call[c].task) \/ ~SlotFree(waiters))
      BY <1>20, <3>2 DEF WaitRegisters
    <3> QED BY <3>1, <3>2
  <2>3. pc' \in [Callers -> Steps] /\ call' \in [Callers -> Call] /\ ControlOK'
    BY <2>1, <2>2, ReturnTypes, BlockedTypes DEF WaitSteps
  <2> QED BY <1>20, <2>1, <2>3 DEF WaitRegisters, ExecutingHaveWorker
<1>21. ASSUME NEW c \in Callers, WaitWakes(c) PROVE TypesAndControl'
  <2>1. /\ pc[c] = "wait-asleep" /\ signalled' \in SUBSET Contexts
        /\ \E step \in {"wait-woken", "wait-leave"} : Goto(c, step)
        /\ UNCHANGED <<lifecycle, lock, facilityVars, stopped, call, running, handles>>
    BY <1>21 DEF WaitWakes, TakeSignal
  <2>2. pc' \in [Callers -> Steps] /\ call' \in [Callers -> Call] /\ ControlOK'
    BY <2>1, BlockedTypes DEF WaitSteps
  <2> QED BY <2>1, <2>2 DEF ExecutingHaveWorker
<1>22. ASSUME NEW c \in Callers, WaitRechecks(c) PROVE TypesAndControl'
  <2>1. pc' \in [Callers -> Steps] /\ call' \in [Callers -> Call] /\ ControlOK'
    BY <1>22, BlockedTypes DEF WaitRechecks, WaitSteps
  <2> QED BY <1>22, <2>1 DEF WaitRechecks, ExecutingHaveWorker
<1>23. ASSUME NEW c \in Callers, WaitSettles(c) PROVE TypesAndControl'
  <2>1. pc[c] = "wait-settle" /\ \E step \in {"wait-leave", "wait-asleep"} : Goto(c, step)
    BY <1>23 DEF WaitSettles
  <2>2. pc' \in [Callers -> Steps] /\ call' \in [Callers -> Call] /\ ControlOK'
    BY <1>23, <2>1, BlockedTypes DEF WaitSettles, WaitSteps
  <2> QED BY <1>23, <2>2 DEF WaitSettles, ExecutingHaveWorker
<1>24. ASSUME NEW c \in Callers, WaitLeaves(c) PROVE TypesAndControl'
  <2> DEFINE b == call[c].task
  <2>1. /\ pc[c] \in WaitSteps
        /\ UpdateAndReclaim(b, record[b.rec], waiters \ {Own(c)}, {})
        /\ Return(c)
        /\ UNCHANGED <<lifecycle, lock, queue, idle, admissionWaiters, stopped, running, handles>>
    BY <1>24 DEF WaitLeaves, WaitSteps
  <2>2. b \in Binding /\ b.rec \in Records /\ pc[c] \notin BetweenTasks
    BY <2>1 DEF Binding, ControlOK, PlaceOK, WaitSteps, BetweenTasks
  <2>3. record[b.rec] \in TaskRecord
        /\ (record[b.rec].state \in Executing => record[b.rec].worker \in Workers)
    BY <2>2 DEF ExecutingHaveWorker
  <2> HIDE DEF b
  <2> QED BY <2>1, <2>2, <2>3, ReturnTypes, UpdateTypes
<1>25. ASSUME NEW h \in handles, Cancel(h) PROVE TypesAndControl'
  <2> DEFINE x == record[h.rec]
             wasQueued == IsCurrentIncarnation(h) /\ x.state = "Queued"
             executing == IsCurrentIncarnation(h) /\ x.state \in Executing
             y == IF IsCurrentIncarnation(h) THEN Cancelled(x) ELSE x
             targets == IF wasQueued THEN WaitersOn(h) ELSE {w \in {x.worker} : executing}
  <2>1. /\ UpdateAndReclaim(h, y, waiters, targets)
        /\ queue' = IF wasQueued THEN Without(queue, h.rec) ELSE queue
        /\ UNCHANGED <<lifecycle, lock, idle, admissionWaiters, stopped, pc, call, running,
                       handles>>
    BY <1>25 DEF Cancel
  <2>2. h \in Binding /\ h.rec \in Records /\ x \in TaskRecord
    BY <1>25 DEF Binding
  <2>3. y \in TaskRecord /\ (y.state \in Executing => y.worker \in Workers)
    <3>1. PICK w \in Workers : TRUE
      BY FacilityAssumption
    <3> QED BY <2>2, <3>1, TransitionTypes DEF ExecutingHaveWorker
  <2>4. targets \in SUBSET Contexts
    BY <2>2, WaitersOnType DEF ExecutingHaveWorker
  <2>5. queue' \in Seq(Records)
    BY <2>1, <2>2, WithoutType
  <2> HIDE DEF y, targets
  <2> QED BY <2>1, <2>2, <2>3, <2>4, <2>5, UpdateTypes, StayTypes
<1>26. ASSUME NEW h \in handles, ReleaseOwner(h) PROVE TypesAndControl'
  <2>1. /\ Relinquish(h, waiters, WaitersOn(h)) /\ handles' = handles \ {h}
        /\ UNCHANGED <<lifecycle, lock, idle, admissionWaiters, stopped, pc, call, running>>
    BY <1>26 DEF ReleaseOwner
  <2>2. h \in Binding /\ WaitersOn(h) \in SUBSET Contexts
    BY <1>26, WaitersOnType
  <2> QED BY <2>1, <2>2, RelinquishTypes, StayTypes
<1>27. ASSUME NEW h \in handles, TakeResult(h) PROVE TypesAndControl'
  <2> DEFINE y == Taken(record[h.rec])
  <2>1. /\ UpdateAndReclaim(h, y, waiters, {})
        /\ handles' = handles \ {h}
        /\ UNCHANGED <<lifecycle, lock, queue, idle, admissionWaiters, stopped, pc, call, running>>
    BY <1>27 DEF TakeResult
  <2>2. h \in Binding /\ h.rec \in Records
    BY <1>27 DEF Binding
  <2>3. y \in TaskRecord /\ (y.state \in Executing => y.worker \in Workers)
    <3>1. PICK w \in Workers : TRUE
      BY FacilityAssumption
    <3> QED BY <2>2, <3>1, TransitionTypes DEF ExecutingHaveWorker
  <2> HIDE DEF y
  <2> QED BY <2>1, <2>2, <2>3, UpdateTypes, StayTypes
<1>28. ASSUME NEW w \in Workers, WorkerBecameAvailable(w) PROVE TypesAndControl'
  BY <1>28 DEF WorkerBecameAvailable, Goto, ControlOK, PlaceOK, Steps, WorkerSteps,
     AdmissionSteps, GrantSteps, WaitSteps, BetweenTasks, ExecutingHaveWorker
<1>29. ASSUME NEW w \in Workers, RescheduleEnds(w) PROVE TypesAndControl'
  <2>1. /\ pc[w] = "rescheduling" /\ lock' = None /\ Goto(w, "loop")
        /\ call' = [call EXCEPT ![w] = NoCall]
        /\ UNCHANGED <<lifecycle, facilityVars, signalled, stopped, running, handles>>
    BY <1>29 DEF RescheduleEnds
  <2>2. call' \in [Callers -> Call] /\ call'[w].task = NoBinding
        /\ \A d \in Callers \ {w} : call'[d] = call[d]
    BY <2>1 DEF Call, NoCall
  <2>3. pc' \in [Callers -> Steps] /\ ControlOK'
    BY <2>1, <2>2 DEF Goto, ControlOK, PlaceOK, Steps, WorkerSteps, AdmissionSteps,
       GrantSteps, WaitSteps, BetweenTasks, ClientSteps
  <2> QED BY <2>1, <2>2, <2>3 DEF ExecutingHaveWorker
<1>30. ASSUME NEW w \in Workers, WorkerReadsLifecycle(w) PROVE TypesAndControl'
  BY <1>30 DEF WorkerReadsLifecycle, Goto, ControlOK, PlaceOK, Steps, WorkerSteps,
     AdmissionSteps, GrantSteps, WaitSteps, BetweenTasks, ExecutingHaveWorker
<1>31. ASSUME NEW w \in Workers, WorkerClaims(w) PROVE TypesAndControl'
  <2>1. pc[w] = "claim" /\ UNCHANGED <<lifecycle, lock, facilityVars, signalled, stopped, call,
                                      handles>>
    BY <1>31 DEF WorkerClaims
  <2>2. CASE \E r \in Records : running' = [running EXCEPT ![w] = Incarnation(r)] /\ Goto(w, "user")
    <3>1. PICK r \in Records : running' = [running EXCEPT ![w] = Incarnation(r)] /\ Goto(w, "user")
      BY <2>2
    <3>2. Incarnation(r) \in Binding
      BY DEF Incarnation, Binding, TaskRecord
    <3>3. /\ running' \in [Workers -> Binding \cup {NoBinding}] /\ running'[w] \in Binding
          /\ \A v \in Workers \ {w} : running'[v] = running[v]
      BY <3>1, <3>2
    <3>4. pc' \in [Callers -> Steps] /\ ControlOK'
      BY <2>1, <3>1, <3>3 DEF Goto, ControlOK, PlaceOK, Steps, WorkerSteps, AdmissionSteps,
         GrantSteps, WaitSteps
    <3> QED BY <2>1, <3>3, <3>4 DEF ExecutingHaveWorker
  <2>3. CASE Goto(w, "asleep") /\ UNCHANGED running
    <3>1. pc' \in [Callers -> Steps] /\ ControlOK'
      BY <2>1, <2>3 DEF Goto, ControlOK, PlaceOK, Steps, WorkerSteps, AdmissionSteps,
         GrantSteps, WaitSteps, BetweenTasks
    <3> QED BY <2>1, <2>3, <3>1 DEF ExecutingHaveWorker
  <2> QED BY <1>31, <2>2, <2>3 DEF WorkerClaims
<1>32. ASSUME NEW w \in Workers, WorkerWakes(w) PROVE TypesAndControl'
  BY <1>32 DEF WorkerWakes, TakeSignal, Goto, ControlOK, PlaceOK, Steps, WorkerSteps,
     AdmissionSteps, GrantSteps, WaitSteps, BetweenTasks, ExecutingHaveWorker
<1>33. ASSUME NEW w \in Workers, TaskReturns(w) PROVE TypesAndControl'
  <2>1. PICK outcome \in {"completed", "cancelled"} :
          /\ record' = [record EXCEPT ![running[w].rec] = Invoked(@, outcome)]
          /\ Goto(w, outcome)
    BY <1>33 DEF TaskReturns
  <2>2. pc[w] = "user" /\ UNCHANGED <<call, running>>
    BY <1>33 DEF TaskReturns
  <2>3. running[w] \in Binding /\ running[w].rec \in Records
    BY <2>2 DEF ControlOK, BetweenTasks, Binding
  <2>4. record' \in [Records -> TaskRecord] /\ ExecutingHaveWorker'
    <3> DEFINE y == Invoked(record[running[w].rec], outcome)
    <3>1. y \in TaskRecord /\ (y.state \in Executing => y.worker \in Workers)
      BY <2>3, TransitionTypes DEF ExecutingHaveWorker
    <3> QED BY <2>1, <2>3, <3>1 DEF ExecutingHaveWorker
  <2>5. pc' \in [Callers -> Steps] /\ call' \in [Callers -> Call] /\ ControlOK'
    BY <2>1, <2>2, <2>3, GotoTypes DEF ControlOK, PlaceOK, Steps, WorkerSteps, ClientSteps,
       AdmissionSteps, GrantSteps, WaitSteps, DispatchSteps
  <2> QED BY <1>33, <2>4, <2>5 DEF TaskReturns
<1>34. ASSUME NEW w \in Workers, CompleteWorkerTask(w) PROVE TypesAndControl'
  <2> DEFINE b == running[w]
             x == record[b.rec]
             y == IF IsCurrentIncarnation(b) THEN Published(x, pc[w]) ELSE x
  <2>1. /\ UpdateAndReclaim(b, y, waiters, WaitersOn(b))
        /\ running' = [running EXCEPT ![w] = NoBinding]
        /\ idle' = idle \cup {w} /\ lock' = w /\ Goto(w, "rescheduling")
        /\ UNCHANGED <<lifecycle, queue, admissionWaiters, stopped, call, handles>>
        /\ pc[w] \in {"completed", "cancelled"}
    BY <1>34 DEF CompleteWorkerTask
  <2>2. b \in Binding /\ b.rec \in Records /\ x \in TaskRecord
    BY <2>1 DEF Binding, ControlOK, BetweenTasks
  <2>3. y \in TaskRecord /\ (y.state \in Executing => y.worker \in Workers)
    BY <2>1, <2>2, TransitionTypes DEF ExecutingHaveWorker
  <2>4. WaitersOn(b) \in SUBSET Contexts
    BY <2>2, WaitersOnType
  <2>5. running' \in [Workers -> Binding \cup {NoBinding}]
        /\ \A v \in Workers \ {w} : running'[v] = running[v]
    BY <2>1
  <2>6. pc' \in [Callers -> Steps] /\ ControlOK'
    BY <2>1, <2>5 DEF Goto, ControlOK, PlaceOK, Steps, WorkerSteps, AdmissionSteps,
       GrantSteps, WaitSteps, BetweenTasks
  <2> HIDE DEF b, y
  <2> QED BY <2>1, <2>2, <2>3, <2>4, <2>5, <2>6, UpdateTypes
<1>35. CASE BeginShutdown
  BY <1>35, StayTypes DEF BeginShutdown, ExecutingHaveWorker, Lifecycles
<1>36. CASE BeginShutdownCancellation
  <2> DEFINE queued    == {r \in Records \ available : record[r].state = "Queued"}
             executing == {r \in Records \ available : record[r].state \in Executing}
             targets   == (UNION {WaitersOn(Incarnation(r)) : r \in queued})
                          \cup {record[r].worker : r \in executing} \cup admissionWaiters
  <2>1. \A r \in Records : WaitersOn(Incarnation(r)) \in SUBSET Contexts
    <3>1. \A r \in Records : Incarnation(r) \in Binding
      BY DEF Incarnation, Binding, TaskRecord
    <3> QED BY <3>1, WaitersOnType
  <2>2. \A r \in executing : record[r].worker \in Contexts
    BY DEF ExecutingHaveWorker
  <2>3. targets \in SUBSET Contexts
    BY <2>1, <2>2
  <2>4. signalled' \in SUBSET Contexts
    <3>1. Notify(targets)
      BY <1>36 DEF BeginShutdownCancellation
    <3> QED BY <2>3, <3>1, NotifyType
  <2>5. \A r \in Records :
          Cancelled(record[r]) \in TaskRecord
          /\ (Cancelled(record[r]).state \in Executing => Cancelled(record[r]).worker \in Workers)
    <3>1. PICK w \in Workers : TRUE
      BY FacilityAssumption
    <3> QED BY <3>1, TransitionTypes DEF ExecutingHaveWorker
  <2>6. record' = [r \in Records |-> IF r \in available THEN record[r] ELSE Cancelled(record[r])]
    BY <1>36 DEF BeginShutdownCancellation
  <2>7. /\ record' \in [Records -> TaskRecord]
        /\ ExecutingHaveWorker'
    BY <2>5, <2>6 DEF ExecutingHaveWorker
  <2>8. queue' \in Seq(Records)
    BY <1>36 DEF BeginShutdownCancellation
  <2> QED BY <1>36, <2>4, <2>7, <2>8, StayTypes DEF BeginShutdownCancellation, Lifecycles
<1>37. ASSUME NEW c \in Clients, RequestStop(c) PROVE TypesAndControl'
  BY <1>37, StayTypes, NotifyType DEF RequestStop, ExecutingHaveWorker
<1>38. ASSUME NEW c \in Clients, ClientFinishes(c) PROVE TypesAndControl'
  BY <1>38 DEF ClientFinishes, Goto, ControlOK, PlaceOK, Steps, WorkerSteps, ClientSteps,
     AdmissionSteps, GrantSteps, WaitSteps, BetweenTasks, ExecutingHaveWorker
<1>39. CASE FacilityIsQuiescent
  BY <1>39, StayTypes DEF FacilityIsQuiescent, ExecutingHaveWorker, Lifecycles
<1>40. CASE TopologyIsQuiescent
  BY <1>40, StayTypes, NotifyType DEF TopologyIsQuiescent, ExecutingHaveWorker, Lifecycles
<1>41. CASE FinalizeShutdown
  BY <1>41, StayTypes DEF FinalizeShutdown, ExecutingHaveWorker, Lifecycles
<1> QED
  BY <1>0, <1>1, <1>2, <1>3, <1>4, <1>5, <1>6, <1>7, <1>8, <1>9, <1>10, <1>11,
     <1>12, <1>13, <1>14, <1>15, <1>16, <1>17, <1>18, <1>19, <1>20, <1>21, <1>22,
     <1>23, <1>24, <1>25, <1>26, <1>27, <1>28, <1>29, <1>30, <1>31, <1>32, <1>33,
     <1>34, <1>35, <1>36, <1>37, <1>38, <1>39, <1>40, <1>41
     DEF Next, Proceed, Work, Request, ShutdownStep

\* What the program counters imply is an invariant, with the types: a caller that waits is
\* a managed context with a Task, and a Worker in its callable has one.
THEOREM ControlCorrect == Spec => []TypesAndControl
<1>1. Init => TypesAndControl
  BY FacilityAssumption
     DEF Init, TypesAndControl, TypeOK, ControlOK, PlaceOK, ExecutingHaveWorker, InitialRecord,
         TaskRecord, TaskStates, Executing, Payloads, Lifecycles, Callers, Contexts, Steps,
         WorkerSteps, ClientSteps, DispatchSteps, WaitSteps, AdmissionSteps, GrantSteps,
         BetweenTasks, Call, NoCall, NoBinding
<1> QED BY <1>1, NextTypes, PTL DEF Spec

\* The facility never leaves its types, whatever the number of records, Workers, clients
\* and callers outside the topology.
THEOREM TypeCorrect == Spec => []TypeOK
<1>1. TypesAndControl => TypeOK
  BY DEF TypesAndControl
<1> QED BY <1>1, ControlCorrect, PTL
=============================================================================
