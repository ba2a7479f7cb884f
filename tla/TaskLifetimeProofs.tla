------------------------- MODULE TaskLifetimeProofs -------------------------
(***************************************************************************)
(* What the inductive invariant IInv is the ground for:                    *)
(*   - the lifetime of a Task: its states only advance, its callable and   *)
(*     its result are destroyed exactly once, its record is freed by       *)
(*     whoever leaves last, and a dispatch that returns no handle leaves a *)
(*     Task no Worker ever saw (Kept);                                     *)
(*   - the wakes: who sleeps is registered, and what he sleeps for reaches *)
(*     his latched signal before he could miss it (Awake);                 *)
(*   - the scheduling passes: none ends with an available Worker beside a  *)
(*     queued Task (Served).                                               *)
(* Each of the three is an invariant relative to IInv.                     *)
(***************************************************************************)
EXTENDS TaskFacilitySafetyProofs

-----------------------------------------------------------------------------
(* The invariants, and what a step does to the states of the Tasks.        *)

\* What the storage of an allocated record that holds x must hold.
Held(x) ==
    CASE x.state = "Queued"     -> "callable"
      [] x.state \in Executing  -> CASE pc[x.worker] = "completed" -> "result"
                                     [] pc[x.worker] = "cancelled" -> "empty"
                                     [] OTHER -> "callable"
      [] x.state = "Completed"  -> IF x.owner THEN "result" ELSE "empty"
      [] OTHER                  -> "empty"

PayloadsHeld ==
    \A r \in Records : record[r].payload = IF r \in available THEN "empty" ELSE Held(record[r])

\* A queued Task is owned and has no Worker: whoever takes the last ownership or grants
\* it also changes its state.
QueuedOwned == \A r \in Records : Queued(r) => record[r].owner /\ record[r].worker = None

FinishedRetained ==
    \A r \in Records :
        Allocated(r) /\ record[r].state \in Terminal /\ ~record[r].owner
            => \E v \in waiters : v.task = Incarnation(r)

Kept == PayloadsHeld /\ QueuedOwned /\ FinishedRetained

\* The step leaves the state of this Task or advances it, or begins a new one in a free
\* record.
AdvancesOnly(r) ==
    IF record'[r].phase = record[r].phase
    THEN \/ record'[r].state = record[r].state
         \/ <<record[r].state, record'[r].state>> \in Advances
    ELSE r \in available /\ record'[r].state = "Queued"

OnlyAdvances == \A r \in Records : AdvancesOnly(r)

Outcomes == {"completed", "cancelled"}

\* The Worker's callable has returned after the step exactly if it had before.
SameOutcome(w) == pc'[w] = pc[w] \/ {pc[w], pc'[w]} \cap Outcomes = {}

LEMMA HeldIsExpected == TypeOK => (PayloadsHeld <=> PayloadLifetime)
<1> SUFFICES ASSUME TypeOK, NEW r \in Records
             PROVE  ExpectedPayload(r) = IF r \in available THEN "empty" ELSE Held(record[r])
  BY DEF PayloadsHeld, PayloadLifetime
<1>1. record[r].state \in TaskStates
  BY DEF TypeOK, TaskRecord
<1> QED BY <1>1
        DEF ExpectedPayload, Held, Queued, Allocated, TaskStates, Executing

LEMMA RetainedIsNoLeak == FinishedRetained <=> NoRecordLeak
<1>1. ASSUME NEW b PROVE (\E v \in waiters : v.task = b) <=> WaitersOn(b) # {}
  BY DEF WaitersOn
<1> QED BY <1>1 DEF FinishedRetained, NoRecordLeak

-----------------------------------------------------------------------------
(* Three kinds of steps.                                                   *)

\* A step that touches no record and gives up no registration.
LEMMA QuietKept ==
  ASSUME TypesAndControl, Kept, UNCHANGED <<record, available>>, waiters \subseteq waiters',
         \A w \in Workers : SameOutcome(w)
  PROVE  Kept' /\ OnlyAdvances
<1>1. \A r \in Records : /\ record'[r] = record[r] /\ Incarnation(r)' = Incarnation(r)
                         /\ Allocated(r)' <=> Allocated(r)
                         /\ Queued(r)' <=> Queued(r)
  BY DEF Incarnation, Allocated, Queued
<1>2. ASSUME NEW r \in Records PROVE Held(record[r])' = Held(record[r])
  <2>1. record[r].state \in Executing => SameOutcome(record[r].worker)
    BY DEF TypesAndControl, ExecutingHaveWorker
  <2> QED BY <1>1, <2>1 DEF Held, SameOutcome, Outcomes
<1>3. PayloadsHeld'
  BY <1>1, <1>2 DEF Kept, PayloadsHeld
<1>4. QueuedOwned' /\ FinishedRetained'
  BY <1>1 DEF Kept, QueuedOwned, FinishedRetained
<1> QED BY <1>1, <1>3, <1>4 DEF Kept, OnlyAdvances, AdvancesOnly

\* Publishing the next state of a pinned Task, giving up registrations on it, and freeing
\* the record if nothing else retains it.
LEMMA UpdateKept ==
  ASSUME TypesAndControl, Kept, NEW b \in Binding, Pinned(b),
         NEW x \in TaskRecord, x.phase = b.phase,
         NEW ws, NEW targets, UpdateAndReclaim(b, x, ws, targets),
         ws \subseteq waiters, \A v \in waiters \ ws : v.task = b,
         x.state = record[b.rec].state \/ <<record[b.rec].state, x.state>> \in Advances,
         x.state = "Queued" => x.owner /\ x.worker = None,
         x.payload = Held(x)',
         \A r \in Records \ {b.rec} :
            record[r].state \in Executing => SameOutcome(record[r].worker)
  PROVE  Kept' /\ OnlyAdvances
<1>0. PICK r0, free : r0 = b.rec /\ free = Reclaimable(b, x, ws)
  OBVIOUS
<1>1. r0 \in Records /\ Allocated(r0) /\ record[r0].phase = b.phase /\ Incarnation(r0) = b
  BY <1>0 DEF Binding, Pinned, IsCurrentIncarnation, Incarnation
<1>2. /\ record'[r0] = IF free THEN [x EXCEPT !.worker = None] ELSE x
      /\ \A r \in Records \ {r0} : record'[r] = record[r]
      /\ available' = IF free THEN available \cup {r0} ELSE available
      /\ waiters' = ws
  BY <1>0, <1>1 DEF UpdateAndReclaim, TypesAndControl, TypeOK
<1>3. /\ record'[r0].state = x.state /\ record'[r0].phase = x.phase
      /\ record'[r0].owner = x.owner /\ record'[r0].payload = x.payload
  BY <1>2 DEF TaskRecord
<1>4. free <=> x.state \in Terminal /\ ~x.owner /\ \A v \in ws : v.task # b
  BY <1>0, <1>1 DEF Reclaimable, Allocated
<1>5. \A r \in Records \ {r0} :
         /\ record'[r] = record[r] /\ Incarnation(r)' = Incarnation(r) /\ Incarnation(r) # b
         /\ Allocated(r)' <=> Allocated(r)
         /\ Queued(r)' <=> Queued(r)
  BY <1>1, <1>2 DEF Incarnation, Allocated, Queued
<1>6. ASSUME NEW r \in Records
      PROVE  record'[r].payload = IF r \in available' THEN "empty" ELSE Held(record[r])'
  <2>1. CASE r = r0 /\ free
    <3>1. x.payload = "empty"
      BY <1>4, <2>1 DEF Held, Terminal, Executing
    <3> QED BY <1>2, <1>3, <2>1, <3>1
  <2>2. CASE r = r0 /\ ~free
    <3>1. Held(record[r])' = Held(x)'
      BY <1>2, <2>2
    <3> QED BY <1>1, <1>2, <1>3, <2>2, <3>1 DEF Allocated
  <2>3. CASE r # r0
    <3>1. record[r].state \in Executing => SameOutcome(record[r].worker)
      BY <1>0, <2>3
    <3>2. Held(record[r])' = Held(record[r])
      BY <1>5, <2>3, <3>1 DEF Held, SameOutcome, Outcomes
    <3> QED BY <1>5, <2>3, <3>2 DEF Kept, PayloadsHeld, Allocated
  <2> QED BY <2>1, <2>2, <2>3
<1>7. ASSUME NEW r \in Records, Queued(r)' PROVE record'[r].owner /\ record'[r].worker = None
  <2>1. CASE r = r0
    <3>1. x.state = "Queued" /\ ~free
      BY <1>3, <1>4, <1>7, <2>1 DEF Queued, Terminal
    <3> QED BY <1>2, <2>1, <3>1
  <2>2. CASE r # r0
    BY <1>5, <1>7, <2>2 DEF Kept, QueuedOwned
  <2> QED BY <2>1, <2>2
<1>8. ASSUME NEW r \in Records, Allocated(r)', record'[r].state \in Terminal, ~record'[r].owner
      PROVE  \E v \in waiters' : v.task = Incarnation(r)'
  <2>1. CASE r = r0
    <3>1. ~free
      BY <1>2, <1>8, <2>1 DEF Allocated
    <3>2. PICK v \in ws : v.task = b
      BY <1>3, <1>4, <1>8, <2>1, <3>1
    <3>3. Incarnation(r)' = b
      BY <1>1, <1>3, <2>1 DEF Incarnation, Binding
    <3> QED BY <1>2, <3>2, <3>3
  <2>2. CASE r # r0
    <3>1. PICK v \in waiters : v.task = Incarnation(r)
      BY <1>5, <1>8, <2>2 DEF Kept, FinishedRetained
    <3>2. v \in ws
      BY <1>5, <2>2, <3>1
    <3> QED BY <1>2, <1>5, <2>2, <3>1, <3>2
  <2> QED BY <2>1, <2>2
<1>9. OnlyAdvances
  BY <1>0, <1>1, <1>3, <1>5 DEF OnlyAdvances, AdvancesOnly
<1> QED BY <1>6, <1>7, <1>8, <1>9 DEF Kept, PayloadsHeld, QueuedOwned, FinishedRetained

\* Where the callers are after a step.
LEMMA GotoOutcome ==
  ASSUME TypesAndControl, NEW c \in Callers, NEW step, Goto(c, step),
         pc[c] \notin Outcomes, step \notin Outcomes
  PROVE  \A w \in Workers : SameOutcome(w)
BY DEF TypesAndControl, TypeOK, Goto, SameOutcome, Callers, Contexts

LEMMA ReturnOutcome ==
  ASSUME TypesAndControl, NEW c \in Callers, Return(c), pc[c] \notin Outcomes
  PROVE  \A w \in Workers : SameOutcome(w)
<1>1. PICK step \in {"user", "ready"} : Goto(c, step)
  BY DEF Return
<1> QED BY <1>1, GotoOutcome DEF Outcomes

LEMMA StayOutcome ==
  ASSUME UNCHANGED pc
  PROVE  \A w \in Workers : SameOutcome(w)
BY DEF SameOutcome

-----------------------------------------------------------------------------
(* The ends of a handle.                                                   *)

\* A Task that is cancelled before it was granted leaves nothing in its storage.
LEMMA AbandonedEmpty ==
  ASSUME NEW x \in TaskRecord, x.payload = "callable"
  PROVE  /\ Abandoned(x).state = "Cancelled" /\ Abandoned(x).payload = "empty"
         /\ DOMAIN Abandoned(x) = DOMAIN x
BY DEF Abandoned, Destroyed, TaskRecord

\* Releasing the ownership of a Task that has it.
LEMMA RelinquishKept ==
  ASSUME TypesAndControl, Kept, NEW b \in Binding, Pinned(b), record[b.rec].owner = TRUE,
         NEW ws, NEW contexts, Relinquish(b, ws, contexts),
         ws \subseteq waiters, \A v \in waiters \ ws : v.task = b,
         \A w \in Workers : SameOutcome(w)
  PROVE  Kept' /\ OnlyAdvances
<1>0. PICK x, y : x = record[b.rec] /\ y = Released(x)
  OBVIOUS
<1>1. /\ b.rec \in Records /\ Allocated(b.rec) /\ IsCurrentIncarnation(b)
      /\ x \in TaskRecord /\ x.owner = TRUE /\ x.phase = b.phase
      /\ (x.state \in Executing => x.worker \in Workers)
  BY <1>0 DEF Pinned, Binding, TypesAndControl, TypeOK, ExecutingHaveWorker, IsCurrentIncarnation
<1>2. y \in TaskRecord
  <2>1. PICK w \in Workers : TRUE
    BY FacilityAssumption
  <2> QED BY <1>0, <1>1, <2>1, TransitionTypes
<1>3. /\ y.phase = x.phase /\ y.owner = FALSE /\ y.state # "Queued"
      /\ y.state = x.state \/ <<x.state, y.state>> \in Advances
  BY <1>0, <1>1 DEF Released, Abandoned, TaskRecord, Advances
<1>4. y.payload = Held(y)'
  <2>1. x.payload = Held(x)
    BY <1>0, <1>1 DEF Kept, PayloadsHeld, Allocated
  <2>2. CASE x.state = "Queued"
    <3>1. x.payload = "callable"
      BY <2>1, <2>2 DEF Held, Executing
    <3>2. y = [Abandoned(x) EXCEPT !.owner = FALSE]
      BY <1>0, <2>2 DEF Released
    <3>3. y.state = "Cancelled" /\ y.payload = "empty"
      BY <1>1, <3>1, <3>2, AbandonedEmpty DEF TaskRecord
    <3> QED BY <3>3 DEF Held, Executing
  <2>3. CASE x.state \in Executing
    <3>1. /\ y.state = x.state /\ y.payload = x.payload /\ y.worker = x.worker
          /\ SameOutcome(x.worker)
      BY <1>0, <1>1, <2>3 DEF Released, TaskRecord, Executing
    <3> QED BY <2>1, <2>3, <3>1 DEF Held, SameOutcome, Outcomes, Executing
  <2>4. CASE x.state = "Completed"
    <3>1. y.state = "Completed" /\ y.payload = "empty"
      BY <1>0, <1>1, <2>1, <2>4 DEF Released, Destroyed, Held, TaskRecord, Executing
    <3> QED BY <1>3, <3>1 DEF Held, Executing
  <2>5. CASE x.state = "Cancelled"
    <3>1. y.state = "Cancelled" /\ y.payload = "empty"
      BY <1>0, <1>1, <2>1, <2>5 DEF Released, Held, TaskRecord, Executing
    <3> QED BY <3>1 DEF Held, Executing
  <2> QED BY <1>1, <2>2, <2>3, <2>4, <2>5 DEF TaskRecord, TaskStates, Executing
<1>5. PICK targets : UpdateAndReclaim(b, y, ws, targets)
  BY <1>0, <1>1 DEF Relinquish
<1>6. \A r \in Records \ {b.rec} :
         record[r].state \in Executing => SameOutcome(record[r].worker)
  BY DEF TypesAndControl, ExecutingHaveWorker
<1> QED BY <1>0, <1>1, <1>2, <1>3, <1>4, <1>5, <1>6, UpdateKept

LEMMA InFlightOwns ==
  ASSUME TypesAndControl, Safe, NEW c \in Callers, pc[c] \in {"scheduling"} \cup GrantSteps
  PROVE  /\ InFlight(c) /\ call[c].task \in Binding /\ Pinned(call[c].task)
         /\ record[call[c].task.rec] \in TaskRecord
         /\ record[call[c].task.rec].owner = TRUE
<1>1. InFlight(c)
  BY FacilityAssumption
     DEF TypesAndControl, ControlOK, PlaceOK, GrantSteps, InFlight, DispatchSteps, Binding,
         NoBinding
<1>2. call[c].task \in Binding /\ Pinned(call[c].task)
  BY <1>1, InFlightAlone DEF TypesAndControl
<1>3. call[c].task.rec \in Records /\ Incarnation(call[c].task.rec) = call[c].task
  BY <1>2 DEF Incarnation, Pinned, IsCurrentIncarnation, Binding
<1>4. record[call[c].task.rec] \in TaskRecord
  BY <1>3 DEF TypesAndControl, TypeOK
<1> QED BY <1>1, <1>2, <1>3, <1>4 DEF Safe, OwnershipIsUnique, TaskRecord

\* A dispatch that withdraws its Task.
LEMMA WithdrawKept ==
  ASSUME TypesAndControl, Safe, Kept, NEW c \in Callers, pc[c] \in {"scheduling"} \cup GrantSteps,
         NEW ws, ws \in {waiters, waiters \ {Own(c)}},
         Relinquish(call[c].task, ws, {}), Return(c)
  PROVE  Kept' /\ OnlyAdvances
<1>1. PICK b : b = call[c].task
  OBVIOUS
<1>2. b \in Binding /\ Pinned(b) /\ record[b.rec].owner = TRUE
  BY <1>1, InFlightOwns
<1>3. ws \subseteq waiters /\ \A v \in waiters \ ws : v.task = b
  BY <1>1 DEF Own
<1>4. \A w \in Workers : SameOutcome(w)
  BY ReturnOutcome DEF Outcomes, GrantSteps
<1>5. Relinquish(b, ws, {})
  BY <1>1
<1> QED BY <1>2, <1>3, <1>4, <1>5, RelinquishKept

LEMMA ReleaseKept ==
  ASSUME TypesAndControl, Safe, Kept, NEW h \in handles, ReleaseOwner(h)
  PROVE  Kept' /\ OnlyAdvances
<1>1. h \in Binding /\ Pinned(h) /\ record[h.rec].owner = TRUE
  BY HandleOwns
<1>2. Relinquish(h, waiters, WaitersOn(h)) /\ pc' = pc
  BY DEF ReleaseOwner
<1>3. PICK b, contexts : b = h /\ contexts = WaitersOn(h)
  OBVIOUS
<1>4. \A w \in Workers : SameOutcome(w)
  BY <1>2, StayOutcome
<1> QED BY <1>1, <1>2, <1>3, <1>4, RelinquishKept

LEMMA TakeKept ==
  ASSUME TypesAndControl, Safe, Kept, NEW h \in handles, TakeResult(h)
  PROVE  Kept' /\ OnlyAdvances
<1>0. PICK b, x, y : b = h /\ x = record[b.rec] /\ y = Taken(x)
  OBVIOUS
<1>1. /\ b \in Binding /\ b.rec \in Records /\ Pinned(b) /\ Allocated(b.rec)
      /\ x \in TaskRecord /\ x.owner = TRUE /\ x.phase = b.phase
      /\ (x.state \in Executing => x.worker \in Workers)
  BY <1>0, HandleOwns DEF Pinned
<1>2. y \in TaskRecord
  <2>1. PICK w \in Workers : TRUE
    BY FacilityAssumption
  <2> QED BY <1>0, <1>1, <2>1, TransitionTypes
<1>3. x.state = "Completed" /\ x.payload = "result"
  <2>1. x.state = "Completed"
    BY <1>0 DEF TakeResult
  <2>2. x.payload = Held(x)
    BY <1>0, <1>1 DEF Kept, PayloadsHeld, Allocated
  <2> QED BY <1>1, <2>1, <2>2 DEF Held, Executing
<1>4. /\ y.phase = x.phase /\ y.owner = FALSE /\ y.state = "Completed" /\ y.payload = "empty"
  BY <1>0, <1>1, <1>3 DEF Taken, Destroyed, TaskRecord
<1>5. y.payload = Held(y)'
  BY <1>4 DEF Held, Executing
<1>6. UpdateAndReclaim(b, y, waiters, {}) /\ pc' = pc
  BY <1>0 DEF TakeResult
<1>7. \A r \in Records \ {b.rec} :
         record[r].state \in Executing => SameOutcome(record[r].worker)
  BY <1>6, StayOutcome DEF TypesAndControl, ExecutingHaveWorker
<1>8. waiters \subseteq waiters /\ \A v \in waiters \ waiters : v.task = b
  OBVIOUS
<1> HIDE DEF Kept
<1> QED BY <1>0, <1>1, <1>2, <1>3, <1>4, <1>5, <1>6, <1>7, <1>8, UpdateKept

LEMMA CancelKept ==
  ASSUME TypesAndControl, Safe, Kept, NEW h \in handles, Cancel(h)
  PROVE  Kept' /\ OnlyAdvances
<1>0. PICK b, x, y : b = h /\ x = record[b.rec] /\ y = Cancelled(x)
  OBVIOUS
<1>1. /\ b \in Binding /\ b.rec \in Records /\ Pinned(b) /\ IsCurrentIncarnation(b)
      /\ Allocated(b.rec) /\ x \in TaskRecord /\ x.owner = TRUE /\ x.phase = b.phase
      /\ (x.state \in Executing => x.worker \in Workers)
  BY <1>0, HandleOwns DEF Pinned
<1>2. y \in TaskRecord
  <2>1. PICK w \in Workers : TRUE
    BY FacilityAssumption
  <2> QED BY <1>0, <1>1, <2>1, TransitionTypes
<1>3. /\ y.phase = x.phase /\ y.state # "Queued"
      /\ y.state = x.state \/ <<x.state, y.state>> \in Advances
  BY <1>0, <1>1 DEF Cancelled, Abandoned, TaskRecord, TaskStates, Advances
<1>4. y.payload = Held(y)
  <2>1. x.payload = Held(x)
    BY <1>0, <1>1 DEF Kept, PayloadsHeld, Allocated
  <2>2. CASE x.state = "Queued"
    <3>1. x.payload = "callable" /\ y = Abandoned(x)
      BY <1>0, <2>1, <2>2 DEF Held, Executing, Cancelled
    <3>2. y.state = "Cancelled" /\ y.payload = "empty"
      BY <1>1, <3>1, AbandonedEmpty
    <3> QED BY <3>2 DEF Held, Executing
  <2>3. CASE x.state = "Running"
    <3>1. /\ y.state = "RunningCancelRequested" /\ y.payload = x.payload
          /\ y.worker = x.worker
      BY <1>0, <1>1, <2>3 DEF Cancelled, TaskRecord
    <3> QED BY <2>1, <2>3, <3>1 DEF Held, Executing
  <2>4. CASE x.state \notin {"Queued", "Running"}
    BY <1>0, <2>1, <2>4 DEF Cancelled
  <2> QED BY <2>2, <2>3, <2>4
<1>5. pc' = pc
  BY DEF Cancel
<1>6. y.payload = Held(y)'
  BY <1>4, <1>5 DEF Held
<1>7. PICK targets : UpdateAndReclaim(b, y, waiters, targets)
  BY <1>0, <1>1 DEF Cancel
<1>8. \A r \in Records \ {b.rec} :
         record[r].state \in Executing => SameOutcome(record[r].worker)
  BY <1>5, StayOutcome DEF TypesAndControl, ExecutingHaveWorker
<1>9. waiters \subseteq waiters /\ \A v \in waiters \ waiters : v.task = b
  OBVIOUS
<1> QED BY <1>0, <1>1, <1>2, <1>3, <1>6, <1>7, <1>8, <1>9, UpdateKept

-----------------------------------------------------------------------------
(* The steps that create, grant and finish Tasks.                          *)

\* A step that changes the record of one Task and frees none.
LEMMA ChangeKept ==
  ASSUME TypesAndControl, Kept, NEW r0 \in Records, NEW y, y.state \notin Terminal,
         record'[r0] = y, \A r \in Records \ {r0} : record'[r] = record[r],
         available' = available \ {r0}, waiters \subseteq waiters',
         AdvancesOnly(r0),
         y.state = "Queued" => y.owner /\ y.worker = None,
         y.payload = Held(y)',
         \A r \in Records \ {r0} :
            record[r].state \in Executing => SameOutcome(record[r].worker)
  PROVE  Kept' /\ OnlyAdvances
<1>1. \A r \in Records \ {r0} :
         /\ record'[r] = record[r] /\ Incarnation(r)' = Incarnation(r)
         /\ Allocated(r)' <=> Allocated(r)
         /\ Queued(r)' <=> Queued(r)
  BY DEF Incarnation, Allocated, Queued
<1>2. ASSUME NEW r \in Records
      PROVE  record'[r].payload = IF r \in available' THEN "empty" ELSE Held(record[r])'
  <2>1. CASE r = r0
    <3>1. Held(record[r])' = Held(y)'
      BY <2>1
    <3> QED BY <2>1, <3>1
  <2>2. CASE r # r0
    <3>1. record[r].state \in Executing => SameOutcome(record[r].worker)
      BY <2>2
    <3>2. Held(record[r])' = Held(record[r])
      BY <1>1, <2>2, <3>1 DEF Held, SameOutcome, Outcomes
    <3> QED BY <1>1, <2>2, <3>2 DEF Kept, PayloadsHeld, Allocated
  <2> QED BY <2>1, <2>2
<1>3. ASSUME NEW r \in Records, Queued(r)' PROVE record'[r].owner /\ record'[r].worker = None
  <2>1. CASE r = r0
    BY <1>3, <2>1 DEF Queued
  <2>2. CASE r # r0
    BY <1>1, <1>3, <2>2 DEF Kept, QueuedOwned
  <2> QED BY <2>1, <2>2
<1>4. ASSUME NEW r \in Records, Allocated(r)', record'[r].state \in Terminal, ~record'[r].owner
      PROVE  \E v \in waiters' : v.task = Incarnation(r)'
  <2>1. r # r0
    BY <1>4
  <2> QED BY <1>1, <1>4, <2>1 DEF Kept, FinishedRetained
<1>5. OnlyAdvances
  BY <1>1 DEF OnlyAdvances, AdvancesOnly
<1> QED BY <1>2, <1>3, <1>4, <1>5 DEF Kept, PayloadsHeld, QueuedOwned, FinishedRetained

LEMMA AdmitKept ==
  ASSUME TypesAndControl, Kept, NEW c \in Callers, Admit(c)
  PROVE  Kept' /\ OnlyAdvances
<1>1. PICK r0 \in available :
        /\ available' = available \ {r0}
        /\ record' = [record EXCEPT ![r0] = Initialized(@)]
  BY DEF Admit
<1>2. PICK y : y = Initialized(record[r0])
  OBVIOUS
<1>3. /\ r0 \in Records /\ record[r0].phase \in BOOLEAN
      /\ record'[r0] = y /\ \A r \in Records \ {r0} : record'[r] = record[r]
  BY <1>1, <1>2 DEF TypesAndControl, TypeOK, TaskRecord
<1>4. /\ y.state = "Queued" /\ y.owner = TRUE /\ y.worker = None /\ y.payload = "callable"
      /\ y.phase = ~record[r0].phase
  BY <1>2 DEF Initialized
<1>5. AdvancesOnly(r0)
  BY <1>1, <1>3, <1>4 DEF AdvancesOnly
<1>6. y.payload = Held(y)'
  BY <1>4 DEF Held, Executing
<1>7. waiters' = waiters /\ Goto(c, "scheduling") /\ pc[c] = "dispatch"
  BY DEF Admit
<1>8. \A r \in Records \ {r0} :
         record[r].state \in Executing => SameOutcome(record[r].worker)
  BY <1>7, GotoOutcome DEF Outcomes, TypesAndControl, ExecutingHaveWorker
<1>9. y.state \notin Terminal
  BY <1>4 DEF Terminal
<1> QED BY <1>1, <1>3, <1>4, <1>5, <1>6, <1>7, <1>8, <1>9, ChangeKept

\* The Worker that was available is not about to publish an outcome.
LEMMA GrantKept ==
  ASSUME TypesAndControl, Safe, Kept, NEW c \in Callers, Grant(c)
  PROVE  Kept' /\ OnlyAdvances
<1>0. PICK r0 : r0 = Head(queue)
  OBVIOUS
<1>1. r0 \in Records /\ Queued(r0)
  <2>1. queue \in Seq(Records) /\ queue # <<>> /\ Injective(queue)
    BY DEF Safe, QueueHoldsQueuedTasks, Injective, TypesAndControl, TypeOK, Grant
  <2>2. r0 \in Records /\ In(r0, queue)
    BY <1>0, <2>1, TailElements
  <2> QED BY <2>2 DEF Safe, QueueHoldsQueuedTasks, In
<1>2. PICK w \in idle : record' = [record EXCEPT ![r0] = Claimed(@, w)]
  BY <1>0 DEF Grant, NextWorkers, TryClaim
<1>3. PICK x, y : x = record[r0] /\ y = Claimed(x, w)
  OBVIOUS
<1>4. /\ w \in Workers /\ x \in TaskRecord /\ x.state = "Queued" /\ Allocated(r0)
      /\ record'[r0] = y /\ \A r \in Records \ {r0} : record'[r] = record[r]
  BY <1>1, <1>2, <1>3 DEF TypesAndControl, TypeOK, Queued
<1>5. y.state = "Running" /\ y.worker = w /\ y.phase = x.phase /\ y.payload = x.payload
  BY <1>3, <1>4 DEF Claimed, TaskRecord
<1>6. AdvancesOnly(r0)
  BY <1>3, <1>4, <1>5 DEF AdvancesOnly, Advances
<1>7. pc[w] \notin Outcomes
  <2>1. SUFFICES ASSUME pc[w] \in Outcomes PROVE FALSE
    OBVIOUS
  <2>2. running[w] \in Binding
    BY <1>4, <2>1 DEF Outcomes, BetweenTasks, TypesAndControl, ControlOK
  <2>3. running[w].rec \in Records /\ running[w] # NoBinding
    BY <2>2, FacilityAssumption DEF Binding, NoBinding
  <2>4. AssignedTo(w, running[w].rec)
    BY <1>4, <2>3 DEF Safe, GrantsAreExclusive
  <2> QED BY <1>2, <2>3, <2>4 DEF Safe, GrantsAreExclusive, AssignedTo
<1>8. pc' = pc /\ available' = available /\ waiters' = waiters
  BY DEF Grant
<1>9. y.payload = Held(y)'
  <2>1. x.payload = "callable"
    BY <1>1, <1>3, <1>4 DEF Kept, PayloadsHeld, Allocated, Held, Executing
  <2> QED BY <1>5, <1>7, <1>8, <2>1 DEF Held, Outcomes, Executing
<1>10. \A r \in Records \ {r0} :
          record[r].state \in Executing => SameOutcome(record[r].worker)
  BY <1>8, StayOutcome DEF TypesAndControl, ExecutingHaveWorker
<1>11. y.state \notin Terminal /\ y.state # "Queued" /\ available' = available \ {r0}
  BY <1>4, <1>5, <1>8 DEF Terminal, Allocated
<1> QED BY <1>1, <1>4, <1>6, <1>8, <1>9, <1>10, <1>11, ChangeKept

\* The Task that a Worker is about to leave is the one it was granted, and no other Task
\* has this Worker.
LEMMA RunningTask ==
  ASSUME TypesAndControl, Safe, NEW w \in Workers, pc[w] \notin BetweenTasks
  PROVE  /\ running[w] \in Binding /\ running[w].rec \in Records /\ Pinned(running[w])
         /\ record[running[w].rec] \in TaskRecord
         /\ record[running[w].rec].state \in Executing /\ record[running[w].rec].worker = w
         /\ Allocated(running[w].rec) /\ IsCurrentIncarnation(running[w])
         /\ \A r \in Records \ {running[w].rec} :
               record[r].state \in Executing => record[r].worker \in Workers \ {w}
<1>1. running[w] \in Binding /\ running[w].rec \in Records /\ running[w] # NoBinding
  BY FacilityAssumption DEF TypesAndControl, ControlOK, Binding, NoBinding
<1>2. Pinned(running[w]) /\ AssignedTo(w, running[w].rec)
  BY <1>1 DEF Safe, InterestsPinRecord, GrantsAreExclusive
<1>3. \A r \in Records \ {running[w].rec} :
         record[r].state \in Executing => record[r].worker \in Workers \ {w}
  BY <1>1, <1>2 DEF Safe, GrantsAreExclusive, AssignedTo
<1> QED BY <1>1, <1>2, <1>3 DEF Pinned, AssignedTo, TypesAndControl, TypeOK

LEMMA TaskReturnsKept ==
  ASSUME TypesAndControl, Safe, Kept, NEW w \in Workers, TaskReturns(w)
  PROVE  Kept' /\ OnlyAdvances
<1>0. PICK r0, x : r0 = running[w].rec /\ x = record[r0]
  OBVIOUS
<1>1. PICK outcome \in {"completed", "cancelled"} :
        /\ record' = [record EXCEPT ![r0] = Invoked(@, outcome)]
        /\ Goto(w, outcome)
  BY <1>0 DEF TaskReturns
<1>2. PICK y : y = Invoked(x, outcome)
  OBVIOUS
<1>3. pc[w] = "user" /\ available' = available /\ waiters' = waiters
  BY DEF TaskReturns
<1>4. /\ r0 \in Records /\ x \in TaskRecord /\ x.state \in Executing /\ x.worker = w
      /\ Allocated(r0)
      /\ \A r \in Records \ {r0} :
            record[r].state \in Executing => record[r].worker \in Workers \ {w}
  BY <1>0, <1>3, RunningTask DEF BetweenTasks
<1>5. record'[r0] = y /\ \A r \in Records \ {r0} : record'[r] = record[r]
  BY <1>0, <1>1, <1>2, <1>4 DEF TypesAndControl, TypeOK
<1>6. x.payload = "callable"
  BY <1>0, <1>3, <1>4 DEF Kept, PayloadsHeld, Allocated, Held, Executing
<1>7. /\ y.state = x.state /\ y.phase = x.phase /\ y.worker = w
      /\ y.payload = IF outcome = "completed" THEN "result" ELSE "empty"
  BY <1>2, <1>4, <1>6 DEF Invoked, Destroyed, TaskRecord
<1>8. pc'[w] = outcome /\ \A v \in Workers \ {w} : pc'[v] = pc[v]
  BY <1>1 DEF Goto, TypesAndControl, TypeOK, Callers, Contexts
<1>9. y.payload = Held(y)'
  BY <1>4, <1>7, <1>8 DEF Held, Executing
<1>10. AdvancesOnly(r0)
  BY <1>0, <1>5, <1>7 DEF AdvancesOnly
<1>11. \A r \in Records \ {r0} :
          record[r].state \in Executing => SameOutcome(record[r].worker)
  BY <1>4, <1>8 DEF SameOutcome
<1>12. y.state \notin Terminal /\ y.state # "Queued" /\ available' = available \ {r0}
  BY <1>3, <1>4, <1>7 DEF Terminal, Executing, Allocated
<1> QED BY <1>3, <1>4, <1>5, <1>9, <1>10, <1>11, <1>12, ChangeKept

LEMMA CompleteKept ==
  ASSUME TypesAndControl, Safe, Kept, NEW w \in Workers, CompleteWorkerTask(w)
  PROVE  Kept' /\ OnlyAdvances
<1>0. PICK b, x, y : b = running[w] /\ x = record[b.rec] /\ y = Published(x, pc[w])
  OBVIOUS
<1>1. pc[w] \in Outcomes /\ Goto(w, "rescheduling")
  BY DEF CompleteWorkerTask, Outcomes
<1>2. /\ b \in Binding /\ b.rec \in Records /\ Pinned(b) /\ IsCurrentIncarnation(b)
      /\ x \in TaskRecord /\ x.state \in Executing /\ x.worker = w /\ Allocated(b.rec)
      /\ \A r \in Records \ {b.rec} :
            record[r].state \in Executing => record[r].worker \in Workers \ {w}
  BY <1>0, <1>1, RunningTask DEF BetweenTasks, Outcomes
<1>3. y \in TaskRecord
  BY <1>0, <1>1, <1>2, TransitionTypes DEF Outcomes
<1>4. x.payload = IF pc[w] = "completed" THEN "result" ELSE "empty"
  BY <1>0, <1>1, <1>2 DEF Kept, PayloadsHeld, Allocated, Held, Executing, Outcomes
<1>5. /\ y.state = IF pc[w] = "completed" THEN "Completed" ELSE "Cancelled"
      /\ y.phase = x.phase /\ y.owner = x.owner
      /\ y.payload = IF pc[w] = "completed" /\ x.owner THEN "result" ELSE "empty"
  BY <1>0, <1>1, <1>2, <1>4 DEF Published, Destroyed, TaskRecord, Outcomes
<1>6. y.payload = Held(y)'
  BY <1>5 DEF Held, Executing
<1>7. x.phase = b.phase /\ <<x.state, y.state>> \in Advances /\ y.state # "Queued"
  BY <1>0, <1>2, <1>5 DEF IsCurrentIncarnation, Advances, Executing
<1>8. UpdateAndReclaim(b, y, waiters, WaitersOn(b))
  BY <1>0, <1>2 DEF CompleteWorkerTask
<1>9. \A v \in Workers \ {w} : pc'[v] = pc[v]
  BY <1>1 DEF Goto, TypesAndControl, TypeOK, Callers, Contexts
<1>10. \A r \in Records \ {b.rec} :
          record[r].state \in Executing => SameOutcome(record[r].worker)
  BY <1>2, <1>9 DEF SameOutcome
<1>11. waiters \subseteq waiters /\ \A v \in waiters \ waiters : v.task = b
  OBVIOUS
<1>12. PICK targets : targets = WaitersOn(b)
  OBVIOUS
<1> QED BY <1>0, <1>2, <1>3, <1>5, <1>6, <1>7, <1>8, <1>10, <1>11, <1>12, UpdateKept

\* Shutdown cancels every Task and frees none: a queued one has an owner.
LEMMA CancelAllKept ==
  ASSUME TypesAndControl, Kept, BeginShutdownCancellation
  PROVE  Kept' /\ OnlyAdvances
<1>1. /\ record' = [r \in Records |-> IF r \in available THEN record[r] ELSE Cancelled(record[r])]
      /\ UNCHANGED <<available, waiters, pc>>
  BY DEF BeginShutdownCancellation
<1>2. ASSUME NEW r \in Records
      PROVE  /\ record'[r].phase = record[r].phase /\ record'[r].owner = record[r].owner
             /\ r \in available => record'[r] = record[r]
             /\ record'[r].state = record[r].state
                \/ <<record[r].state, record'[r].state>> \in Advances
             /\ Allocated(r) => record'[r].state # "Queued"
             /\ Allocated(r) /\ record[r].state # "Queued" =>
                   /\ record'[r].payload = record[r].payload
                   /\ record'[r].worker = record[r].worker
                   /\ record'[r].state \in Executing <=> record[r].state \in Executing
                   /\ record[r].state \notin Executing => record'[r].state = record[r].state
             /\ Allocated(r) /\ record[r].state = "Queued" => record'[r] = Abandoned(record[r])
  <2>1. record[r] \in TaskRecord
    BY DEF TypesAndControl, TypeOK
  <2> QED BY <1>1, <2>1
          DEF Cancelled, Abandoned, Allocated, Advances, TaskRecord, TaskStates, Executing
<1>3. ASSUME NEW r \in Records
      PROVE  record'[r].payload = IF r \in available' THEN "empty" ELSE Held(record[r])'
  <2>1. record[r] \in TaskRecord
    BY DEF TypesAndControl, TypeOK
  <2>2. record[r].payload = IF r \in available THEN "empty" ELSE Held(record[r])
    BY DEF Kept, PayloadsHeld
  <2>3. CASE r \in available
    BY <1>1, <1>2, <2>2, <2>3
  <2>4. CASE Allocated(r) /\ record[r].state = "Queued"
    <3>1. record[r].payload = "callable"
      BY <2>2, <2>4 DEF Allocated, Held, Executing
    <3>2. record'[r].state = "Cancelled" /\ record'[r].payload = "empty"
      BY <1>2, <2>1, <2>4, <3>1, AbandonedEmpty
    <3> QED BY <3>2 DEF Held, Executing
  <2>5. CASE Allocated(r) /\ record[r].state # "Queued"
    <3>1. Held(record[r])' = Held(record[r])
      BY <1>1, <1>2, <2>5 DEF Held, Executing
    <3> QED BY <1>1, <1>2, <2>2, <2>5, <3>1 DEF Allocated
  <2> QED BY <2>3, <2>4, <2>5 DEF Allocated
<1>4. QueuedOwned'
  BY <1>1, <1>2 DEF QueuedOwned, Queued, Allocated
<1>5. ASSUME NEW r \in Records, Allocated(r)', record'[r].state \in Terminal, ~record'[r].owner
      PROVE  \E v \in waiters' : v.task = Incarnation(r)'
  <2>1. Allocated(r) /\ ~record[r].owner
    BY <1>1, <1>2, <1>5 DEF Allocated
  <2>2. record[r].state # "Queued"
    BY <2>1 DEF Kept, QueuedOwned, Queued
  <2>3. record[r].state \in Terminal
    BY <1>2, <1>5, <2>1, <2>2 DEF Executing, Terminal
  <2>4. Incarnation(r)' = Incarnation(r)
    BY <1>2 DEF Incarnation
  <2> QED BY <1>1, <2>1, <2>3, <2>4 DEF Kept, FinishedRetained
<1>6. OnlyAdvances
  BY <1>2 DEF OnlyAdvances, AdvancesOnly
<1> QED BY <1>3, <1>4, <1>5, <1>6 DEF Kept, PayloadsHeld, FinishedRetained

-----------------------------------------------------------------------------
(* The ends of a wait and of a dispatch.                                   *)

LEMMA WaitLeavesKept ==
  ASSUME TypesAndControl, Safe, Kept, NEW c \in Callers, WaitLeaves(c)
  PROVE  Kept' /\ OnlyAdvances
<1>0. PICK b, x, ws : b = call[c].task /\ x = record[b.rec] /\ ws = waiters \ {Own(c)}
  OBVIOUS
<1>1. UpdateAndReclaim(b, x, ws, {}) /\ Return(c) /\ pc[c] \notin Outcomes
  BY <1>0 DEF WaitLeaves, Outcomes
<1>2. b \in Binding /\ b.rec \in Records /\ x \in TaskRecord
  BY <1>0 DEF WaitLeaves, TypesAndControl, TypeOK, ControlOK, PlaceOK, WaitSteps, Binding
<1>3. ws \subseteq waiters /\ \A v \in waiters \ ws : v.task = b
  BY <1>0 DEF Own
<1>4. \A w \in Workers : SameOutcome(w)
  BY <1>1, ReturnOutcome
<1>5. CASE ~Pinned(b)
  <2>1. UNCHANGED <<record, available>> /\ waiters' = ws
    BY <1>0, <1>1, <1>2, <1>5, UpdateNothing DEF TypesAndControl
  <2>2. ws = waiters
    BY <1>3, <1>5 DEF Safe, InterestsPinRecord
  <2> QED BY <1>4, <2>1, <2>2, QuietKept
<1>6. CASE Pinned(b)
  <2>1. x.phase = b.phase /\ Allocated(b.rec)
    BY <1>0, <1>6 DEF Pinned, IsCurrentIncarnation
  <2>2. x.state = "Queued" => x.owner /\ x.worker = None
    BY <1>0, <1>2, <2>1 DEF Kept, QueuedOwned, Queued
  <2>3. x.payload = Held(x)
    BY <1>0, <1>2, <2>1 DEF Kept, PayloadsHeld, Allocated
  <2>4. x.state \in Executing => SameOutcome(x.worker)
    BY <1>0, <1>2, <1>4 DEF TypesAndControl, ExecutingHaveWorker
  <2>5. x.payload = Held(x)'
    BY <2>3, <2>4 DEF Held, SameOutcome, Outcomes
  <2>6. \A r \in Records \ {b.rec} :
           record[r].state \in Executing => SameOutcome(record[r].worker)
    BY <1>4 DEF TypesAndControl, ExecutingHaveWorker
  <2> QED BY <1>0, <1>1, <1>2, <1>3, <1>6, <2>1, <2>2, <2>5, <2>6, UpdateKept
<1> QED BY <1>5, <1>6

\* A dispatch that got its grant unregisters; it owns the Task, so nothing is freed.
LEMMA GrantSucceedsKept ==
  ASSUME TypesAndControl, Safe, Kept, NEW c \in Callers, GrantSucceeds(c)
  PROVE  Kept' /\ OnlyAdvances
<1>0. PICK b, x, ws : b = call[c].task /\ x = record[b.rec] /\ ws = waiters \ {Own(c)}
  OBVIOUS
<1>1. UpdateAndReclaim(b, x, ws, {}) /\ Return(c) /\ pc[c] \in GrantSteps
  BY <1>0 DEF GrantSucceeds, ReturnHandle, GrantSteps
<1>2. b \in Binding /\ b.rec \in Records /\ x \in TaskRecord /\ Pinned(b) /\ x.owner = TRUE
  BY <1>0, <1>1, InFlightOwns DEF Binding
<1>3. ws \subseteq waiters /\ \A v \in waiters \ ws : v.task = b
  BY <1>0 DEF Own
<1>4. \A w \in Workers : SameOutcome(w)
  BY <1>1, ReturnOutcome DEF GrantSteps, Outcomes
<1>5. x.phase = b.phase /\ Allocated(b.rec)
  BY <1>0, <1>2 DEF Pinned, IsCurrentIncarnation
<1>6. x.state = "Queued" => x.owner /\ x.worker = None
  BY <1>0, <1>2, <1>5 DEF Kept, QueuedOwned, Queued
<1>7. x.payload = Held(x)
  BY <1>0, <1>2, <1>5 DEF Kept, PayloadsHeld, Allocated
<1>8. x.state \in Executing => SameOutcome(x.worker)
  BY <1>0, <1>2, <1>4 DEF TypesAndControl, ExecutingHaveWorker
<1>9. x.payload = Held(x)'
  BY <1>7, <1>8 DEF Held, SameOutcome, Outcomes
<1>10. \A r \in Records \ {b.rec} :
          record[r].state \in Executing => SameOutcome(record[r].worker)
  BY <1>4 DEF TypesAndControl, ExecutingHaveWorker
<1> QED BY <1>0, <1>1, <1>2, <1>3, <1>5, <1>6, <1>9, <1>10, UpdateKept

LEMMA GrantRegistersKept ==
  ASSUME TypesAndControl, Safe, Kept, NEW c \in Callers, GrantRegisters(c)
  PROVE  Kept' /\ OnlyAdvances
<1>1. pc[c] = "grant"
  BY DEF GrantRegisters
<1>2. CASE Relinquish(call[c].task, waiters, {}) /\ Return(c)
  BY <1>1, <1>2, WithdrawKept DEF GrantSteps
<1>3. CASE \/ ReturnHandle(c) /\ UNCHANGED <<available, record, waiters>>
           \/ /\ Goto(c, "grant-asleep") /\ UNCHANGED <<available, record>>
              /\ waiters \subseteq waiters'
  <2>1. \A w \in Workers : SameOutcome(w)
    BY <1>1, <1>3, ReturnOutcome, GotoOutcome DEF ReturnHandle, Outcomes
  <2> QED BY <1>3, <2>1, QuietKept
<1> QED BY <1>2, <1>3 DEF GrantRegisters

-----------------------------------------------------------------------------
(* Every step.                                                             *)

\* A caller that goes on or returns and touches no Task.
LEMMA MovesKept ==
  ASSUME TypesAndControl, Kept, UNCHANGED <<record, available>>, waiters \subseteq waiters',
         NEW c \in Callers, pc[c] \notin Outcomes,
         Return(c) \/ \E step \in Steps \ Outcomes : Goto(c, step)
  PROVE  Kept' /\ OnlyAdvances
<1>1. \A w \in Workers : SameOutcome(w)
  BY ReturnOutcome, GotoOutcome
<1> QED BY <1>1, QuietKept

LEMMA ProceedKept ==
  ASSUME TypesAndControl, Safe, Kept, NEW c \in Callers, Proceed(c)
  PROVE  Kept' /\ OnlyAdvances
<1> USE DEF facilityVars, Outcomes, Steps, WorkerSteps, DispatchSteps, WaitSteps
<1>1. CASE Grant(c) \/ Admit(c)
  BY <1>1, GrantKept, AdmitKept
<1>2. CASE DispatchWithdraws(c)
  BY <1>2, WithdrawKept DEF DispatchWithdraws
<1>3. CASE GrantGivesUp(c)
  BY <1>3, WithdrawKept DEF GrantGivesUp, GrantSteps
<1>4. CASE GrantRegisters(c) \/ GrantSucceeds(c) \/ WaitLeaves(c)
  BY <1>4, GrantRegistersKept, GrantSucceedsKept, WaitLeavesKept
<1>5. CASE DispatchWithoutCapacity(c) \/ DispatchUnavailable(c)
  BY <1>5, MovesKept DEF DispatchWithoutCapacity, DispatchUnavailable
<1>6. CASE DispatchReturnsTask(c) \/ DispatchAwaitsGrant(c)
  BY <1>6, MovesKept DEF DispatchReturnsTask, ReturnHandle, DispatchAwaitsGrant
<1>7. CASE AdmissionRegisters(c)
  BY <1>7, MovesKept DEF AdmissionRegisters
<1>8. CASE AdmissionWakes(c) \/ AdmissionExpires(c)
  BY <1>8, MovesKept DEF AdmissionWakes, AdmissionExpires
<1>9. CASE AdmissionRechecks(c)
  BY <1>9, MovesKept DEF AdmissionRechecks
<1>10. CASE GrantWakes(c) \/ GrantSleepsAgain(c) \/ Reenters(c)
  BY <1>10, MovesKept DEF GrantWakes, GrantSleepsAgain, Reenters
<1>11. CASE WaitRegisters(c)
  BY <1>11, MovesKept DEF WaitRegisters
<1>12. CASE WaitWakes(c) \/ WaitRechecks(c) \/ WaitSettles(c)
  BY <1>12, MovesKept DEF WaitWakes, WaitRechecks, WaitSettles
<1> QED BY <1>1, <1>2, <1>3, <1>4, <1>5, <1>6, <1>7, <1>8, <1>9, <1>10, <1>11, <1>12
        DEF Proceed

LEMMA WorkKept ==
  ASSUME TypesAndControl, Safe, Kept, NEW w \in Workers, Work(w)
  PROVE  Kept' /\ OnlyAdvances
<1> USE DEF facilityVars, Outcomes, Steps, WorkerSteps
<1>0. w \in Callers
  BY DEF Callers, Contexts
<1>1. CASE TaskReturns(w) \/ CompleteWorkerTask(w)
  BY <1>1, TaskReturnsKept, CompleteKept
<1>2. CASE WorkerBecameAvailable(w) \/ RescheduleEnds(w)
  BY <1>0, <1>2, MovesKept DEF WorkerBecameAvailable, RescheduleEnds
<1>3. CASE WorkerReadsLifecycle(w) \/ WorkerClaims(w) \/ WorkerWakes(w)
  BY <1>0, <1>3, MovesKept DEF WorkerReadsLifecycle, WorkerClaims, WorkerWakes
<1> QED BY <1>1, <1>2, <1>3 DEF Work

LEMMA NextKept ==
  ASSUME TypesAndControl, Safe, Kept, [Next]_vars
  PROVE  Kept' /\ OnlyAdvances
<1> USE DEF facilityVars
<1>1. ASSUME NEW h \in handles, Cancel(h) \/ ReleaseOwner(h) \/ TakeResult(h)
      PROVE  Kept' /\ OnlyAdvances
  BY <1>1, CancelKept, ReleaseKept, TakeKept
<1>2. ASSUME NEW c \in Callers, NEW policy, BeginDispatch(c, policy) PROVE Kept' /\ OnlyAdvances
  BY <1>2, MovesKept DEF BeginDispatch, InUserCode, Outcomes, Steps, DispatchSteps
<1>3. ASSUME NEW c \in Contexts, NEW h, NEW policy, BeginWait(c, h, policy)
      PROVE  Kept' /\ OnlyAdvances
  <2>1. c \in Callers
    BY DEF Callers
  <2> QED BY <1>3, <2>1, MovesKept DEF BeginWait, InUserCode, Outcomes, Steps, WaitSteps
<1>4. ASSUME NEW c \in Clients, RequestStop(c) PROVE Kept' /\ OnlyAdvances
  BY <1>4, QuietKept, StayOutcome DEF RequestStop
<1>5. ASSUME NEW c \in Clients, ClientFinishes(c) PROVE Kept' /\ OnlyAdvances
  <2>1. c \in Callers
    BY DEF Callers, Contexts
  <2> QED BY <1>5, <2>1, MovesKept DEF ClientFinishes, Outcomes, Steps, ClientSteps
<1>6. CASE BeginShutdownCancellation
  BY <1>6, CancelAllKept
<1>7. CASE BeginShutdown \/ FacilityIsQuiescent \/ TopologyIsQuiescent \/ FinalizeShutdown
  BY <1>7, QuietKept, StayOutcome
     DEF BeginShutdown, FacilityIsQuiescent, TopologyIsQuiescent, FinalizeShutdown
<1>8. CASE UNCHANGED vars
  BY <1>8, QuietKept, StayOutcome DEF vars
<1> QED BY <1>1, <1>2, <1>3, <1>4, <1>5, <1>6, <1>7, <1>8, ProceedKept, WorkKept
        DEF Next, Request, ShutdownStep

-----------------------------------------------------------------------------
(* A dispatch that returns without a handle.                               *)

\* The step ends the call of c, which held a Task, and c gets no handle of it.
Refuses(c) == InFlight(c) /\ call'[c] = NoCall /\ call[c].task \notin handles'

\* A dispatch whose call goes on or that has no Task yet refuses nothing.
LEMMA GoesOnRefusesNothing ==
  ASSUME NEW c \in Callers, call'[c].task = call[c].task
  PROVE  ~Refuses(c)
BY DEF Refuses, InFlight, NoCall

LEMMA ReturnRefusesOnlyItself ==
  ASSUME TypesAndControl, NEW c \in Callers, Return(c), NEW d \in Callers, Refuses(d)
  PROVE  d = c
<1>1. d # c => call'[d] = call[d]
  BY DEF Return, TypesAndControl, TypeOK
<1> QED BY <1>1, GoesOnRefusesNothing

\* What a dispatch withdraws under the mutex was never granted: HasWorkerGrant would have
\* found the Worker, also in a Task that was cancelled in the meantime.
LEMMA UngrantedNeverRan ==
  ASSUME TypesAndControl, Safe, Kept, NEW c \in Callers, pc[c] \in {"scheduling"} \cup GrantSteps,
         ~HasWorkerGrant(call[c].task)
  PROVE  record[call[c].task.rec].worker = None
<1>1. PICK r : r = call[c].task.rec
  OBVIOUS
<1>2. /\ r \in Records /\ IsCurrentIncarnation(call[c].task) /\ Allocated(r)
      /\ record[r] \in TaskRecord
  BY <1>1, InFlightOwns DEF Pinned, Binding
<1>3. CASE record[r].state = "Queued"
  BY <1>1, <1>2, <1>3 DEF Kept, QueuedOwned, Queued
<1>4. CASE record[r].state # "Queued"
  BY <1>1, <1>2, <1>4 DEF HasWorkerGrant
<1> QED BY <1>3, <1>4

LEMMA RefusedStep ==
  ASSUME TypesAndControl, Safe, Kept, [Next]_vars, NEW d \in Callers, Refuses(d)
  PROVE  record[call[d].task.rec].worker = None
<1> USE DEF facilityVars
<1>1. call' # call
  BY GoesOnRefusesNothing
<1>2. ASSUME NEW c \in Callers, Proceed(c) PROVE record[call[d].task.rec].worker = None
  <2>1. CASE DispatchWithdraws(c) \/ GrantGivesUp(c)
    <3>1. /\ Return(c) /\ pc[c] \in {"scheduling"} \cup GrantSteps
          /\ ~HasWorkerGrant(call[c].task)
      BY <2>1 DEF DispatchWithdraws, GrantGivesUp, GrantSteps
    <3> QED BY <3>1, ReturnRefusesOnlyItself, UngrantedNeverRan
  <2>2. CASE GrantRegisters(c)
    <3>1. call' # call /\ pc[c] \in GrantSteps
      BY <1>1, <2>2 DEF GrantRegisters, GrantSteps
    <3>2. CASE ReturnHandle(c)
      BY <3>2, ReturnRefusesOnlyItself DEF ReturnHandle, Refuses
    <3>3. CASE Return(c) /\ ~HasWorkerGrant(call[c].task)
      BY <3>1, <3>3, ReturnRefusesOnlyItself, UngrantedNeverRan
    <3> QED BY <2>2, <3>1, <3>2, <3>3 DEF GrantRegisters
  <2>3. CASE DispatchReturnsTask(c) \/ GrantSucceeds(c)
    BY <2>3, ReturnRefusesOnlyItself
       DEF DispatchReturnsTask, GrantSucceeds, ReturnHandle, Refuses
  <2>4. CASE /\ Return(c)
             /\ pc[c] \in {"dispatch"} \cup AdmissionSteps \cup WaitSteps
    <3>1. ~InFlight(c)
      BY <2>4 DEF InFlight, TypesAndControl, ControlOK, PlaceOK, WaitSteps, DispatchSteps
    <3> QED BY <2>4, <3>1, ReturnRefusesOnlyItself DEF Refuses
  <2>5. CASE Grant(c)
    <3>1. \E lost : call' = [call EXCEPT ![c].wakeFailed = @ \/ lost # {}]
      BY <2>5 DEF Grant
    <3>2. call'[d].task = call[d].task
      BY <3>1 DEF TypesAndControl, TypeOK, Call
    <3> QED BY <3>2, GoesOnRefusesNothing
  <2>6. CASE Admit(c)
    <3>1. \E b : call' = [call EXCEPT ![c].task = b] /\ pc[c] = "dispatch"
      BY <2>6 DEF Admit
    <3>2. CASE d = c
      BY <3>1, <3>2 DEF Refuses, InFlight, TypesAndControl, ControlOK, PlaceOK
    <3>3. CASE d # c
      BY <3>1, <3>3, GoesOnRefusesNothing DEF TypesAndControl, TypeOK
    <3> QED BY <3>2, <3>3
  <2>7. CASE \/ DispatchWithoutCapacity(c) \/ DispatchUnavailable(c)
             \/ AdmissionRegisters(c) \/ AdmissionExpires(c) \/ AdmissionRechecks(c)
             \/ WaitRegisters(c) \/ WaitLeaves(c)
    <3>1. Return(c) /\ pc[c] \in {"dispatch"} \cup AdmissionSteps \cup WaitSteps
      BY <1>1, <2>7
         DEF DispatchWithoutCapacity, DispatchUnavailable, AdmissionRegisters,
             AdmissionExpires, AdmissionRechecks, WaitRegisters, WaitLeaves,
             AdmissionSteps, WaitSteps
    <3> QED BY <2>4, <3>1
  <2>8. CASE \/ DispatchAwaitsGrant(c) \/ AdmissionWakes(c)
             \/ GrantWakes(c) \/ GrantSleepsAgain(c) \/ Reenters(c)
             \/ WaitWakes(c) \/ WaitRechecks(c) \/ WaitSettles(c)
    BY <1>1, <2>8
       DEF DispatchAwaitsGrant, AdmissionWakes, GrantWakes, GrantSleepsAgain, Reenters,
           WaitWakes, WaitRechecks, WaitSettles
  <2> QED BY <1>2, <2>1, <2>2, <2>3, <2>5, <2>6, <2>7, <2>8 DEF Proceed
<1>3. ASSUME NEW w \in Workers, Work(w) PROVE record[call[d].task.rec].worker = None
  <2>1. CASE RescheduleEnds(w)
    <3>1. /\ call' = [call EXCEPT ![w] = NoCall] /\ pc[w] = "rescheduling" /\ w \in Callers
      BY <2>1 DEF RescheduleEnds, Callers, Contexts
    <3>2. d # w
      BY <3>1 DEF Refuses, InFlight, DispatchSteps
    <3> QED BY <3>1, <3>2, GoesOnRefusesNothing DEF TypesAndControl, TypeOK
  <2>2. CASE \/ WorkerBecameAvailable(w) \/ WorkerReadsLifecycle(w) \/ WorkerClaims(w)
             \/ WorkerWakes(w) \/ TaskReturns(w) \/ CompleteWorkerTask(w)
    BY <1>1, <2>2
       DEF WorkerBecameAvailable, WorkerReadsLifecycle, WorkerClaims, WorkerWakes,
           TaskReturns, CompleteWorkerTask
  <2> QED BY <1>3, <2>1, <2>2 DEF Work
<1>4. ASSUME NEW c \in Callers, NEW policy, BeginDispatch(c, policy)
      PROVE  record[call[d].task.rec].worker = None
  <2>1. call'[d].task = call[d].task
    BY <1>4 DEF BeginDispatch, TypesAndControl, TypeOK, Call
  <2> QED BY <2>1, GoesOnRefusesNothing
<1>5. ASSUME NEW c \in Callers, NEW h, NEW policy, BeginWait(c, h, policy)
      PROVE  record[call[d].task.rec].worker = None
  <2>1. ~InFlight(c)
    BY <1>5 DEF BeginWait, InUserCode, InFlight, DispatchSteps
  <2>2. d # c => call'[d] = call[d]
    BY <1>5 DEF BeginWait, TypesAndControl, TypeOK
  <2> QED BY <2>1, <2>2, GoesOnRefusesNothing DEF Refuses
<1>6. ASSUME NEW h \in handles, Cancel(h) \/ ReleaseOwner(h) \/ TakeResult(h)
      PROVE  record[call[d].task.rec].worker = None
  BY <1>1, <1>6 DEF Cancel, ReleaseOwner, TakeResult
<1>7. ASSUME NEW c, RequestStop(c) \/ ClientFinishes(c)
      PROVE  record[call[d].task.rec].worker = None
  BY <1>1, <1>7 DEF RequestStop, ClientFinishes
<1>8. CASE BeginShutdown \/ ShutdownStep \/ UNCHANGED vars
  BY <1>1, <1>8
     DEF BeginShutdown, ShutdownStep, BeginShutdownCancellation, FacilityIsQuiescent,
         TopologyIsQuiescent, FinalizeShutdown, vars
<1>9. Contexts \subseteq Callers
  BY DEF Callers
<1> QED BY <1>2, <1>3, <1>4, <1>5, <1>6, <1>7, <1>8, <1>9 DEF Next, Request

-----------------------------------------------------------------------------
(* The theorems.                                                           *)

\* Storage, ownership of queued Tasks and retention are kept from the initial state on.
LEMMA LifetimeInvariant == Spec => [](TypesAndControl /\ Safe /\ Kept)
<1>1. Init => Kept
  BY DEF Init, Kept, PayloadsHeld, QueuedOwned, FinishedRetained, Queued, Allocated,
         InitialRecord
<1>2. IInv => TypesAndControl /\ Safe
  BY DEF IInv, TypesAndControl, Safe
<1>3. IInv /\ Kept /\ [Next]_vars => Kept'
  BY <1>2, NextKept
<1> QED BY <1>1, <1>2, <1>3, InvariantHolds, PTL DEF Spec

\* The callable and the result of every Task are constructed once and destroyed exactly
\* once, whoever comes last: the Worker, a canceller or the handle.
THEOREM PayloadCorrect == Spec => []PayloadLifetime
<1>1. TypesAndControl /\ Kept => PayloadLifetime
  BY HeldIsExpected DEF Kept, TypesAndControl
<1> QED BY <1>1, LifetimeInvariant, PTL

\* No record is lost: a finished Task without a handle keeps its record only as long as
\* somebody is registered on it.
THEOREM NoLeakCorrect == Spec => []NoRecordLeak
<1>1. Kept => NoRecordLeak
  BY RetainedIsNoLeak DEF Kept
<1> QED BY <1>1, LifetimeInvariant, PTL

\* A Task only advances, a final state is final, and a new incarnation begins only in a
\* record that was free.
THEOREM AdvanceCorrect == Spec => TasksOnlyAdvance
<1> DEFINE A == \A r \in Records :
                   IF record'[r].phase = record[r].phase
                   THEN \/ record'[r].state = record[r].state
                        \/ <<record[r].state, record'[r].state>> \in Advances
                   ELSE r \in available /\ record'[r].state = "Queued"
<1>1. TypesAndControl /\ Safe /\ Kept /\ [Next]_vars => [A]_vars
  BY NextKept DEF OnlyAdvances, AdvancesOnly
<1> QED BY <1>1, LifetimeInvariant, PTL DEF Spec, TasksOnlyAdvance

\* A dispatch that returns no handle leaves a Task that was never granted to a Worker,
\* however the grant, the expiry, a cancellation and shutdown race.
THEOREM RefusalCorrect == Spec => RefusedDispatchNeverRan
<1> DEFINE A == \A c \in Callers :
                   InFlight(c) /\ call'[c] = NoCall /\ call[c].task \notin handles'
                      => record[call[c].task.rec].worker = None
<1>1. TypesAndControl /\ Safe /\ Kept /\ [Next]_vars => [A]_vars
  BY RefusedStep DEF Refuses
<1> QED BY <1>1, LifetimeInvariant, PTL DEF Spec, RefusedDispatchNeverRan

-----------------------------------------------------------------------------
(* The wakes. Who sleeps is registered, and whatever a registered sleeper  *)
(* waits for has reached its signal.                                       *)

\* The caller is registered where it waits.
Registered(c) ==
    /\ pc[c] \in AdmissionSteps \ {"admission"} => c \in admissionWaiters
    /\ pc[c] \in (GrantSteps \ {"grant"}) \cup (WaitSteps \ {"wait"}) => Own(c) \in waiters

\* What the caller sleeps for, or may sleep for without looking again, is in its signal.
TaskWoken(c) ==
    /\ pc[c] \in {"wait-asleep", "wait-settle"} /\ IsTerminal(call[c].task) => c \in signalled
    /\ pc[c] = "grant-asleep" /\ HasWorkerGrant(call[c].task) => c \in signalled

CapacityWoken(c) == pc[c] = "admission-asleep" /\ available # {} => c \in signalled

InterruptionWoken(c) ==
    pc[c] \in {"wait", "wait-asleep"} /\ (c \in stopped \/ IsCancellationRequestedForContext(c))
        => c \in signalled

GrantWoken(c) == pc[c] = "asleep" /\ (\E r \in Records : AssignedTo(c, r)) => c \in signalled

Waits(c) ==
    /\ Registered(c)
    /\ c \in Contexts \ Faulty => TaskWoken(c) /\ CapacityWoken(c) /\ InterruptionWoken(c)
    /\ GrantWoken(c)

\* Nobody waits on a Task that has not been returned to its dispatcher.
FlightUnawaited ==
    \A c, d \in Callers : InFlight(c) /\ pc[d] \in WaitSteps => call[d].task # call[c].task

Awake == FlightUnawaited /\ \A c \in Callers : Waits(c)

\* The step leaves the caller where it is, with its registrations and its signal.
Still(d) ==
    /\ pc'[d] = pc[d] /\ call'[d].task = call[d].task
    /\ d \in signalled => d \in signalled'
    /\ d \in admissionWaiters => d \in admissionWaiters'
    /\ Own(d) \in waiters => Own(d) \in waiters'

LEMMA OwnStill ==
  ASSUME NEW d \in Callers, call'[d].task = call[d].task
  PROVE  Own(d)' = Own(d)
BY DEF Own

\* No Task changed its state, no record became free and nobody was stopped.
LEMMA StillWaits ==
  ASSUME TypesAndControl, available' \subseteq available, stopped' = stopped,
         \A r \in Records : /\ record'[r].state = record[r].state
                            /\ record'[r].phase = record[r].phase
                            /\ record'[r].worker = record[r].worker,
         NEW d \in Callers, Waits(d), Still(d)
  PROVE  Waits(d)'
<1>1. Own(d)' = Own(d)
  BY OwnStill DEF Still
<1>2. Registered(d)'
  BY <1>1 DEF Still, Waits, Registered
<1>3. TaskWoken(d) => TaskWoken(d)'
  <2>1. PICK a : a = call[d].task /\ a = call'[d].task
    BY DEF Still
  <2>2. pc[d] \in {"wait-asleep", "wait-settle", "grant-asleep"} => a.rec \in Records
    BY <2>1 DEF TypesAndControl, ControlOK, PlaceOK, WaitSteps, GrantSteps, Binding
  <2> QED BY <2>1, <2>2 DEF Still, TaskWoken, IsTerminal, HasWorkerGrant, IsCurrentIncarnation
<1>4. \A r \in Records : AssignedTo(d, r)' => AssignedTo(d, r)
  BY DEF AssignedTo
<1>5. IsCancellationRequestedForContext(d)' => IsCancellationRequestedForContext(d)
  BY DEF IsCancellationRequestedForContext
<1> QED BY <1>2, <1>3, <1>4, <1>5
        DEF Still, Waits, CapacityWoken, InterruptionWoken, GrantWoken

\* The states of a Task which a context waits for.
Ended(x)   == x.state \in Terminal
Granted(x) == x.state # "Queued" /\ (x.state = "Cancelled" => x.worker # None)

\* One Task changed through UpdateAndReclaim: whoever waits for what became true is among
\* the contexts that the critical section wakes.
LEMMA UpdateWaits ==
  ASSUME TypesAndControl, Safe, NEW b \in Binding, Pinned(b), NEW x \in TaskRecord,
         x.phase = b.phase, NEW ws, NEW targets, UpdateAndReclaim(b, x, ws, targets),
         stopped' = stopped,
         NEW d \in Callers, Waits(d), Still(d),
         Ended(x) => \/ Ended(record[b.rec]) \/ d \in targets
                     \/ pc[d] \in WaitSteps \ {"wait"} => call[d].task # b,
         Granted(x) => Granted(record[b.rec]),
         x.state = "RunningCancelRequested" /\ x.worker = d =>
            d \in targets \/ (record[b.rec].state = x.state /\ record[b.rec].worker = d),
         x.state \in Executing => /\ record[b.rec].state \in Executing
                                  /\ record[b.rec].worker = x.worker
  PROVE  Waits(d)'
<1>0. PICK r0, free : r0 = b.rec /\ free = Reclaimable(b, x, ws)
  OBVIOUS
<1>1. r0 \in Records /\ Allocated(r0) /\ record[r0].phase = b.phase /\ Incarnation(r0) = b
  BY <1>0 DEF Binding, Pinned, IsCurrentIncarnation, Incarnation
<1>2. /\ record'[r0] = IF free THEN [x EXCEPT !.worker = None] ELSE x
      /\ \A r \in Records \ {r0} : record'[r] = record[r]
      /\ available' = IF free THEN available \cup {r0} ELSE available
      /\ waiters' = ws
      /\ Notify(targets \cup WokenByReclaim(free))
  BY <1>0, <1>1 DEF UpdateAndReclaim, TypesAndControl, TypeOK
<1>3. /\ record'[r0].state = x.state /\ record'[r0].phase = b.phase
      /\ free => x.state \in Terminal /\ \A v \in ws : v.task # b
      /\ ~free => record'[r0].worker = x.worker
  BY <1>0, <1>2 DEF TaskRecord, Reclaimable
<1>4. /\ d \in targets \ Faulty => d \in signalled'
      /\ free /\ d \in admissionWaiters \ Faulty => d \in signalled'
  BY <1>2 DEF Notify, WokenByReclaim
<1>5. Own(d)' = Own(d)
  BY OwnStill DEF Still
<1>6. Registered(d)'
  BY <1>5 DEF Still, Waits, Registered
<1>7. ASSUME d \in Contexts \ Faulty PROVE TaskWoken(d)'
  <2>1. PICK a : a = call[d].task /\ a = call'[d].task
    BY DEF Still
  <2>2. CASE pc[d] \in {"wait-asleep", "wait-settle", "grant-asleep"}
    <3>1. a \in Binding /\ Pinned(a) /\ a.rec \in Records
      <4>1. Own(d) \in waiters
        BY <2>2 DEF Waits, Registered, GrantSteps, WaitSteps
      <4>2. Own(d).task = a
        BY <2>1 DEF Own
      <4> QED BY <4>1, <4>2
              DEF Safe, InterestsPinRecord, TypesAndControl, TypeOK, Registration, Binding
    <3>2. CASE a.rec # r0
      <4>1. record'[a.rec] = record[a.rec]
        BY <1>2, <3>1, <3>2
      <4> QED BY <1>7, <2>1, <4>1
              DEF Still, Waits, TaskWoken, IsTerminal, HasWorkerGrant, IsCurrentIncarnation
    <3>3. CASE a.rec = r0
      <4>1. a = b
        BY <1>0, <1>1, <3>1, <3>3 DEF Pinned, IsCurrentIncarnation, Incarnation, Binding
      <4>2. ~free
        BY <1>2, <1>3, <2>1, <2>2, <4>1
           DEF Still, Waits, Registered, Own, GrantSteps, WaitSteps
      <4>3. IsTerminal(a)' => Ended(x)
        BY <1>0, <1>3, <4>1 DEF IsTerminal, IsCurrentIncarnation, Ended
      <4>4. HasWorkerGrant(a)' => Granted(x)
        BY <1>0, <1>3, <4>1, <4>2 DEF HasWorkerGrant, IsCurrentIncarnation, Granted
      <4>5. Ended(record[r0]) => IsTerminal(a)
        BY <1>0, <4>1 DEF IsTerminal, Ended
      <4>6. Granted(record[r0]) => HasWorkerGrant(a)
        BY <1>0, <1>1, <4>1 DEF HasWorkerGrant, IsCurrentIncarnation, Granted
      <4>7. pc'[d] \in {"wait-asleep", "wait-settle"} /\ IsTerminal(a)' => d \in signalled'
        BY <1>0, <1>4, <1>7, <2>1, <4>1, <4>3, <4>5 DEF Still, Waits, TaskWoken, WaitSteps
      <4>8. pc'[d] = "grant-asleep" /\ HasWorkerGrant(a)' => d \in signalled'
        BY <1>0, <1>7, <2>1, <4>4, <4>6 DEF Still, Waits, TaskWoken
      <4> QED BY <2>1, <4>7, <4>8 DEF TaskWoken
    <3> QED BY <3>2, <3>3
  <2>3. CASE pc[d] \notin {"wait-asleep", "wait-settle", "grant-asleep"}
    BY <2>3 DEF Still, TaskWoken
  <2> QED BY <2>2, <2>3
<1>8. ASSUME d \in Contexts \ Faulty PROVE CapacityWoken(d)'
  <2>1. pc[d] = "admission-asleep" => d \in admissionWaiters
    BY DEF Waits, Registered, AdmissionSteps
  <2> QED BY <1>2, <1>4, <1>8, <2>1 DEF Still, Waits, CapacityWoken
<1>9. ASSUME d \in Contexts \ Faulty PROVE InterruptionWoken(d)'
  <2>1. ASSUME NEW r \in Records,
               record'[r].state = "RunningCancelRequested", record'[r].worker = d
        PROVE  \/ record[r].state = "RunningCancelRequested" /\ record[r].worker = d
               \/ d \in targets
    <3>1. CASE r = r0
      BY <1>0, <1>3, <2>1, <3>1 DEF Terminal
    <3>2. CASE r # r0
      BY <1>2, <2>1, <3>2
    <3> QED BY <3>1, <3>2
  <2>2. IsCancellationRequestedForContext(d)' =>
           IsCancellationRequestedForContext(d) \/ d \in targets
    BY <2>1 DEF IsCancellationRequestedForContext
  <2> QED BY <1>4, <1>9, <2>2 DEF Still, Waits, InterruptionWoken
<1>10. GrantWoken(d)'
  <2>1. \A r \in Records : AssignedTo(d, r)' => AssignedTo(d, r)
    BY <1>0, <1>2, <1>3 DEF AssignedTo, Executing, Terminal
  <2> QED BY <2>1 DEF Still, Waits, GrantWoken
<1> QED BY <1>6, <1>7, <1>8, <1>9, <1>10 DEF Waits

-----------------------------------------------------------------------------
(* What a step does to those who do not take it, and to the one who does.  *)

\* The steps at which something is promised to the caller.
Promised == (AdmissionSteps \ {"admission"}) \cup (GrantSteps \ {"grant"}) \cup WaitSteps
            \cup {"asleep"}

LEMMA AtRestWaits ==
  ASSUME NEW c \in Callers, pc'[c] \notin Promised
  PROVE  Waits(c)'
BY DEF Promised, AdmissionSteps, GrantSteps, WaitSteps, Waits, Registered, TaskWoken,
       CapacityWoken, InterruptionWoken, GrantWoken

\* The caller moves or returns, and takes along at most its own signal and registrations.
Moves(c) ==
    /\ Return(c) \/ \E step \in Steps : Goto(c, step) /\ call' = call
    /\ signalled \ {c} \subseteq signalled'
    /\ admissionWaiters \ {c} \subseteq admissionWaiters'
    /\ waiters \ {Own(c)} \subseteq waiters'

LEMMA OthersStill ==
  ASSUME TypesAndControl, NEW c \in Callers, Moves(c), NEW d \in Callers \ {c}
  PROVE  Still(d)
<1>1. pc'[d] = pc[d] /\ call'[d] = call[d]
  BY DEF Moves, Return, Goto, TypesAndControl, TypeOK
<1>2. Own(d) # Own(c)
  BY DEF Own
<1> QED BY <1>1, <1>2 DEF Still, Moves

\* A caller that returns has nothing in flight and waits for nothing; one that moves on
\* neither begins to wait nor gets a Task in flight.
Stays(c) ==
    \/ Return(c)
    \/ \E step \in Steps :
          /\ Goto(c, step) /\ call' = call
          /\ step \in WaitSteps => pc[c] \in WaitSteps
          /\ step \in DispatchSteps => pc[c] \in DispatchSteps \/ call[c].task = NoBinding

LEMMA FlightStays ==
  ASSUME TypesAndControl, FlightUnawaited, NEW c \in Callers, Stays(c)
  PROVE  FlightUnawaited'
<1>1. \A d \in Callers \ {c} : pc'[d] = pc[d] /\ call'[d] = call[d]
  BY DEF Stays, Return, Goto, TypesAndControl, TypeOK
<1>2. CASE Return(c)
  <2>1. ~InFlight(c)' /\ pc'[c] \notin WaitSteps
    BY <1>2 DEF Return, Goto, TypesAndControl, TypeOK, InFlight, NoCall, WaitSteps
  <2> QED BY <1>1, <2>1 DEF FlightUnawaited, InFlight
<1>3. CASE /\ call' = call
           /\ pc'[c] \in WaitSteps => pc[c] \in WaitSteps
           /\ pc'[c] \in DispatchSteps => pc[c] \in DispatchSteps \/ call[c].task = NoBinding
  BY <1>1, <1>3 DEF FlightUnawaited, InFlight
<1> QED BY <1>2, <1>3 DEF Stays, Goto, TypesAndControl, TypeOK

LEMMA FlightSame ==
  ASSUME FlightUnawaited, pc' = pc, \A c \in Callers : call'[c].task = call[c].task
  PROVE  FlightUnawaited'
BY DEF FlightUnawaited, InFlight

\* A step of c that touches no Task.
LEMMA MoveWaits ==
  ASSUME TypesAndControl, Awake, UNCHANGED <<record, available, stopped>>,
         NEW c \in Callers, Moves(c), Waits(c)'
  PROVE  \A d \in Callers : Waits(d)'
<1>1. ASSUME NEW d \in Callers \ {c} PROVE Waits(d)'
  <2>1. Still(d)
    BY OthersStill
  <2> QED BY <2>1, StillWaits DEF Awake
<1> QED BY <1>1

\* A step of c after which nothing is promised to it.
LEMMA RestAwake ==
  ASSUME TypesAndControl, Awake, UNCHANGED <<record, available, stopped>>,
         NEW c \in Callers, Moves(c), Stays(c), pc'[c] \notin Promised
  PROVE  Awake'
BY AtRestWaits, MoveWaits, FlightStays DEF Awake

\* A step of c that touches no Task, after which it gets what it is promised.
LEMMA MoveAwake ==
  ASSUME TypesAndControl, Awake, UNCHANGED <<record, available, stopped>>,
         NEW c \in Callers, Moves(c), Stays(c), Waits(c)'
  PROVE  Awake'
BY MoveWaits, FlightStays DEF Awake

\* A step that moves nobody, after which everybody gets what he is promised.
LEMMA StillAwake ==
  ASSUME TypesAndControl, Awake, UNCHANGED <<pc, stopped, waiters, admissionWaiters>>,
         \A d \in Callers : call'[d].task = call[d].task,
         available' \subseteq available, signalled \subseteq signalled',
         \A r \in Records : /\ record'[r].state = record[r].state
                            /\ record'[r].phase = record[r].phase
                            /\ record'[r].worker = record[r].worker
  PROVE  Awake'
<1>1. \A d \in Callers : Still(d)
  BY DEF Still
<1> QED BY <1>1, StillWaits, FlightSame DEF Awake

-----------------------------------------------------------------------------
(* The steps that change one Task through UpdateAndReclaim.                *)

\* Releasing an ownership wakes those who wait on the Task, if there are any.
LEMMA RelinquishWaits ==
  ASSUME TypesAndControl, Safe, NEW b \in Binding, Pinned(b), NEW ws, NEW contexts,
         Relinquish(b, ws, contexts), stopped' = stopped,
         NEW d \in Callers, Waits(d), Still(d),
         pc[d] \in WaitSteps \ {"wait"} => call[d].task # b \/ d \in contexts
  PROVE  Waits(d)'
<1>0. PICK x, y, targets : /\ x = record[b.rec] /\ y = Released(x)
                           /\ targets = {c \in contexts : x.state = "Queued"}
  OBVIOUS
<1>1. /\ b.rec \in Records /\ IsCurrentIncarnation(b) /\ x \in TaskRecord /\ x.phase = b.phase
      /\ (x.state \in Executing => x.worker \in Workers)
  BY <1>0 DEF Pinned, Binding, TypesAndControl, TypeOK, ExecutingHaveWorker, IsCurrentIncarnation
<1>2. y \in TaskRecord
  <2>1. PICK w \in Workers : TRUE
    BY FacilityAssumption
  <2> QED BY <1>0, <1>1, <2>1, TransitionTypes
<1>3. /\ y.phase = x.phase
      /\ x.state # "Queued" => y.state = x.state /\ y.worker = x.worker
      /\ x.state = "Queued" => y.state = "Cancelled" /\ y.worker = None
  BY <1>0, <1>1 DEF Released, Abandoned, TaskRecord
<1>4. UpdateAndReclaim(b, y, ws, targets)
  BY <1>0, <1>1 DEF Relinquish
<1>5. Ended(y) => \/ Ended(x) \/ d \in targets
                  \/ pc[d] \in WaitSteps \ {"wait"} => call[d].task # b
  BY <1>0, <1>3 DEF Ended
<1>6. Granted(y) => Granted(x)
  BY <1>3 DEF Granted
<1>7. y.state \in Executing => x.state \in Executing /\ x.worker = y.worker
  BY <1>3 DEF Executing
<1>8. y.state = "RunningCancelRequested" /\ y.worker = d =>
         d \in targets \/ (x.state = y.state /\ x.worker = d)
  BY <1>3
<1> QED BY <1>0, <1>1, <1>2, <1>3, <1>4, <1>5, <1>6, <1>7, <1>8, UpdateWaits

LEMMA WithdrawAwake ==
  ASSUME TypesAndControl, Safe, Awake, NEW c \in Callers,
         pc[c] \in {"scheduling"} \cup GrantSteps,
         NEW ws, ws \in {waiters, waiters \ {Own(c)}},
         Relinquish(call[c].task, ws, {}), Return(c), UNCHANGED <<admissionWaiters, stopped>>
  PROVE  Awake'
<1>1. PICK b : b = call[c].task
  OBVIOUS
<1>2. InFlight(c) /\ b \in Binding /\ Pinned(b)
  BY <1>1, InFlightOwns
<1>3. Moves(c)
  <2>1. signalled \subseteq signalled' /\ waiters' = ws
    BY DEF Relinquish, UpdateAndReclaim, Notify
  <2> QED BY <2>1 DEF Moves
<1>4. ASSUME NEW d \in Callers \ {c} PROVE Waits(d)'
  <2>1. Still(d)
    BY <1>3, OthersStill
  <2>2. pc[d] \in WaitSteps \ {"wait"} => call[d].task # b
    BY <1>1, <1>2 DEF Awake, FlightUnawaited
  <2>3. Waits(d) /\ Relinquish(b, ws, {})
    BY <1>1 DEF Awake
  <2> QED BY <1>2, <2>1, <2>2, <2>3, RelinquishWaits
<1>5. Waits(c)'
  <2>1. pc'[c] \notin Promised
    BY DEF Return, Goto, TypesAndControl, TypeOK, Promised, AdmissionSteps, GrantSteps, WaitSteps
  <2> QED BY <2>1, AtRestWaits
<1>6. FlightUnawaited'
  BY FlightStays DEF Awake, Stays
<1> QED BY <1>4, <1>5, <1>6 DEF Awake

\* An operation on a handle moves nobody.
LEMMA HandleStill ==
  ASSUME UNCHANGED <<pc, call, admissionWaiters>>, waiters' = waiters,
         signalled \subseteq signalled', NEW d \in Callers
  PROVE  Still(d)
BY DEF Still

LEMMA ReleaseAwake ==
  ASSUME TypesAndControl, Safe, Awake, NEW h \in handles, ReleaseOwner(h)
  PROVE  Awake'
<1>1. PICK b, contexts : b = h /\ contexts = WaitersOn(h)
  OBVIOUS
<1>2. b \in Binding /\ Pinned(b)
  BY <1>1, HandleOwns
<1>3. /\ Relinquish(b, waiters, contexts)
      /\ UNCHANGED <<pc, call, admissionWaiters, stopped>>
  BY <1>1 DEF ReleaseOwner
<1>4. ASSUME NEW d \in Callers PROVE Waits(d)'
  <2>1. signalled \subseteq signalled' /\ waiters' = waiters
    BY <1>3 DEF Relinquish, UpdateAndReclaim, Notify
  <2>2. Still(d)
    BY <1>3, <2>1, HandleStill
  <2>3. pc[d] \in WaitSteps \ {"wait"} => call[d].task # b \/ d \in contexts
    <3>1. pc[d] \in WaitSteps \ {"wait"} => Own(d) \in waiters
      BY DEF Awake, Waits, Registered
    <3> QED BY <1>1, <3>1 DEF Own, WaitersOn
  <2> QED BY <1>2, <1>3, <2>2, <2>3, RelinquishWaits DEF Awake
<1>5. FlightUnawaited'
  BY <1>3, FlightSame DEF Awake
<1> QED BY <1>4, <1>5 DEF Awake

LEMMA TakeAwake ==
  ASSUME TypesAndControl, Safe, Awake, NEW h \in handles, TakeResult(h)
  PROVE  Awake'
<1>0. PICK b, x, y, targets : /\ b = h /\ x = record[b.rec] /\ y = Taken(x)
                              /\ targets = {}
  OBVIOUS
<1>1. /\ b \in Binding /\ Pinned(b) /\ x \in TaskRecord /\ x.phase = b.phase
      /\ (x.state \in Executing => x.worker \in Workers)
  BY <1>0, HandleOwns
<1>2. y \in TaskRecord
  <2>1. PICK w \in Workers : TRUE
    BY FacilityAssumption
  <2> QED BY <1>0, <1>1, <2>1, TransitionTypes
<1>3. /\ y.phase = x.phase /\ y.state = x.state /\ y.worker = x.worker
      /\ x.state = "Completed"
  BY <1>0, <1>1 DEF Taken, TaskRecord, TakeResult
<1>4. /\ UpdateAndReclaim(b, y, waiters, targets)
      /\ UNCHANGED <<pc, call, admissionWaiters, stopped>>
  BY <1>0 DEF TakeResult
<1>5. /\ Ended(x) /\ Granted(x)
      /\ y.state # "RunningCancelRequested" /\ y.state \notin Executing
  BY <1>3 DEF Ended, Granted, Terminal, Executing
<1>6. ASSUME NEW d \in Callers PROVE Waits(d)'
  <2>1. signalled \subseteq signalled' /\ waiters' = waiters
    BY <1>4 DEF UpdateAndReclaim, Notify
  <2>2. Still(d) /\ Waits(d)
    BY <1>4, <2>1, HandleStill DEF Awake
  <2> QED BY <1>0, <1>1, <1>2, <1>3, <1>4, <1>5, <2>2, UpdateWaits
<1>7. FlightUnawaited'
  BY <1>4, FlightSame DEF Awake
<1> QED BY <1>6, <1>7 DEF Awake

\* Cancelling wakes those who wait on a queued Task, and the Worker of an executing one.
LEMMA CancelAwake ==
  ASSUME TypesAndControl, Safe, Awake, NEW h \in handles, Cancel(h)
  PROVE  Awake'
<1>0. PICK b, x, y, targets :
        /\ b = h /\ x = record[b.rec] /\ y = Cancelled(x)
        /\ targets = IF x.state = "Queued" THEN WaitersOn(h)
                     ELSE {w \in {x.worker} : x.state \in Executing}
  OBVIOUS
<1>1. /\ b \in Binding /\ Pinned(b) /\ IsCurrentIncarnation(b)
      /\ x \in TaskRecord /\ x.phase = b.phase
      /\ (x.state \in Executing => x.worker \in Workers)
  BY <1>0, HandleOwns
<1>2. y \in TaskRecord
  <2>1. PICK w \in Workers : TRUE
    BY FacilityAssumption
  <2> QED BY <1>0, <1>1, <2>1, TransitionTypes
<1>3. /\ y.phase = x.phase
      /\ x.state = "Queued" => y.state = "Cancelled" /\ y.worker = None
      /\ x.state = "Running" => y.state = "RunningCancelRequested" /\ y.worker = x.worker
      /\ x.state \notin {"Queued", "Running"} => y = x
  BY <1>0, <1>1 DEF Cancelled, Abandoned, TaskRecord
<1>4. /\ UpdateAndReclaim(b, y, waiters, targets)
      /\ UNCHANGED <<pc, call, admissionWaiters, stopped>>
  BY <1>0, <1>1 DEF Cancel
<1>5. /\ Granted(y) => Granted(x)
      /\ y.state \in Executing => x.state \in Executing /\ x.worker = y.worker
  BY <1>3 DEF Granted, Executing
<1>6. ASSUME NEW d \in Callers PROVE Waits(d)'
  <2>1. signalled \subseteq signalled' /\ waiters' = waiters
    BY <1>4 DEF UpdateAndReclaim, Notify
  <2>2. Still(d) /\ Waits(d)
    BY <1>4, <2>1, HandleStill DEF Awake
  <2>3. y.state = "RunningCancelRequested" /\ y.worker = d =>
           d \in targets \/ (x.state = y.state /\ x.worker = d)
    BY <1>0, <1>3 DEF Executing
  <2>4. Ended(y) => \/ Ended(x) \/ d \in targets
                    \/ pc[d] \in WaitSteps \ {"wait"} => call[d].task # b
    <3>1. pc[d] \in WaitSteps \ {"wait"} => Own(d) \in waiters
      BY <2>2 DEF Waits, Registered
    <3> QED BY <1>0, <1>3, <3>1 DEF Own, WaitersOn, Ended, Terminal
  <2> QED BY <1>0, <1>1, <1>2, <1>3, <1>4, <1>5, <2>2, <2>3, <2>4, UpdateWaits
<1>7. FlightUnawaited'
  BY <1>4, FlightSame DEF Awake
<1> QED BY <1>6, <1>7 DEF Awake

\* Unregistering, with the record as it is, and returning.
LEMMA LeaveAwake ==
  ASSUME TypesAndControl, Safe, Awake, NEW c \in Callers,
         call[c].task \in Binding, Pinned(call[c].task),
         UpdateAndReclaim(call[c].task, record[call[c].task.rec], waiters \ {Own(c)}, {}),
         Return(c), UNCHANGED <<admissionWaiters, stopped>>
  PROVE  Awake'
<1>0. PICK b, x, ws, targets : /\ b = call[c].task /\ x = record[b.rec]
                               /\ ws = waiters \ {Own(c)} /\ targets = {}
  OBVIOUS
<1>1. /\ b \in Binding /\ Pinned(b) /\ x \in TaskRecord /\ x.phase = b.phase
      /\ UpdateAndReclaim(b, x, ws, targets)
  BY <1>0 DEF Binding, Pinned, IsCurrentIncarnation, TypesAndControl, TypeOK
<1>2. Moves(c)
  <2>1. signalled \subseteq signalled' /\ waiters' = ws
    BY <1>1 DEF UpdateAndReclaim, Notify
  <2> QED BY <1>0, <2>1 DEF Moves
<1>3. ASSUME NEW d \in Callers \ {c} PROVE Waits(d)'
  <2>1. Still(d) /\ Waits(d)
    BY <1>2, OthersStill DEF Awake
  <2> QED BY <1>0, <1>1, <2>1, UpdateWaits
<1>4. Waits(c)'
  <2>1. pc'[c] \notin Promised
    BY DEF Return, Goto, TypesAndControl, TypeOK, Promised, AdmissionSteps, GrantSteps, WaitSteps
  <2> QED BY <2>1, AtRestWaits
<1>5. FlightUnawaited'
  BY FlightStays DEF Awake, Stays
<1> QED BY <1>3, <1>4, <1>5 DEF Awake

LEMMA WaitLeavesAwake ==
  ASSUME TypesAndControl, Safe, Awake, NEW c \in Callers, WaitLeaves(c)
  PROVE  Awake'
<1>1. Own(c) \in waiters
  BY DEF WaitLeaves, Awake, Waits, Registered, WaitSteps
<1>2. call[c].task \in Binding /\ Pinned(call[c].task)
  BY <1>1 DEF Own, Safe, InterestsPinRecord, TypesAndControl, TypeOK, Registration
<1> QED BY <1>2, LeaveAwake DEF WaitLeaves

LEMMA GrantSucceedsAwake ==
  ASSUME TypesAndControl, Safe, Awake, NEW c \in Callers, GrantSucceeds(c)
  PROVE  Awake'
<1>1. call[c].task \in Binding /\ Pinned(call[c].task)
  BY InFlightOwns DEF GrantSucceeds, GrantSteps
<1> QED BY <1>1, LeaveAwake DEF GrantSucceeds, ReturnHandle

\* The end of a Task wakes everybody who is registered on it.
LEMMA CompleteAwake ==
  ASSUME TypesAndControl, Safe, Awake, NEW w \in Workers, CompleteWorkerTask(w)
  PROVE  Awake'
<1>0. PICK b, x, y, targets : /\ b = running[w] /\ x = record[b.rec] /\ y = Published(x, pc[w])
                              /\ targets = WaitersOn(b)
  OBVIOUS
<1>1. pc[w] \in Outcomes /\ Goto(w, "rescheduling") /\ call' = call /\ w \in Callers
  BY DEF CompleteWorkerTask, Outcomes, Callers, Contexts
<1>2. /\ b \in Binding /\ Pinned(b) /\ IsCurrentIncarnation(b)
      /\ x \in TaskRecord /\ x.state \in Executing /\ x.worker = w
  BY <1>0, <1>1, RunningTask DEF BetweenTasks, Outcomes
<1>3. y \in TaskRecord
  BY <1>0, <1>1, <1>2, TransitionTypes DEF Outcomes
<1>4. y.phase = b.phase /\ y.state \in Terminal
  BY <1>0, <1>2 DEF Published, Terminal, TaskRecord, IsCurrentIncarnation
<1>5. /\ UpdateAndReclaim(b, y, waiters, targets)
      /\ UNCHANGED <<admissionWaiters, stopped>>
  BY <1>0, <1>2 DEF CompleteWorkerTask
<1>6. Moves(w)
  <2>1. signalled \subseteq signalled' /\ waiters' = waiters
    BY <1>5 DEF UpdateAndReclaim, Notify
  <2> QED BY <1>1, <1>5, <2>1 DEF Moves, Steps, WorkerSteps
<1>7. Granted(x) /\ y.state # "RunningCancelRequested" /\ y.state \notin Executing
  BY <1>2, <1>4 DEF Granted, Executing, Terminal
<1>8. ASSUME NEW d \in Callers \ {w} PROVE Waits(d)'
  <2>1. Still(d) /\ Waits(d)
    BY <1>1, <1>6, OthersStill DEF Awake
  <2>2. d \in targets \/ (pc[d] \in WaitSteps \ {"wait"} => call[d].task # b)
    <3>1. pc[d] \in WaitSteps \ {"wait"} => Own(d) \in waiters
      BY <2>1 DEF Waits, Registered
    <3> QED BY <1>0, <3>1 DEF Own, WaitersOn
  <2> QED BY <1>0, <1>2, <1>3, <1>4, <1>5, <1>7, <2>1, <2>2, UpdateWaits
<1>9. Waits(w)'
  <2>1. pc'[w] \notin Promised
    BY <1>1 DEF Goto, TypesAndControl, TypeOK, Promised, AdmissionSteps, GrantSteps, WaitSteps
  <2> QED BY <1>1, <2>1, AtRestWaits
<1>10. FlightUnawaited'
  BY <1>1, FlightStays DEF Awake, Stays, Steps, WorkerSteps, WaitSteps, DispatchSteps
<1> QED BY <1>8, <1>9, <1>10 DEF Awake

-----------------------------------------------------------------------------
(* The other steps that change Tasks.                                      *)

\* Whoever sleeps on a Task sleeps on an incarnation that its record holds.
LEMMA SleepersPinned ==
  ASSUME TypesAndControl, Safe, NEW d \in Callers, Waits(d),
         pc[d] \in {"wait-asleep", "wait-settle", "grant-asleep"}
  PROVE  /\ call[d].task \in Binding /\ call[d].task.rec \in Records /\ Pinned(call[d].task)
         /\ Own(d) \in waiters
<1>1. Own(d) \in waiters
  BY DEF Waits, Registered, GrantSteps, WaitSteps
<1>2. call[d].task \in Binding /\ Pinned(call[d].task)
  BY <1>1 DEF Own, Safe, InterestsPinRecord, TypesAndControl, TypeOK, Registration
<1> QED BY <1>1, <1>2 DEF Binding

LEMMA AdmitAwake ==
  ASSUME TypesAndControl, Safe, Awake, NEW c \in Callers, Admit(c)
  PROVE  Awake'
<1>1. PICK r0 \in available :
        /\ available' = available \ {r0}
        /\ record' = [record EXCEPT ![r0] = Initialized(@)]
        /\ call' = [call EXCEPT ![c].task = [rec |-> r0, phase |-> ~record[r0].phase]]
  BY DEF Admit
<1>2. /\ r0 \in Records /\ record'[r0].state = "Queued"
      /\ \A r \in Records \ {r0} : record'[r] = record[r]
  BY <1>1 DEF TypesAndControl, TypeOK, Initialized
<1>3. /\ UNCHANGED <<waiters, admissionWaiters, signalled, stopped>>
      /\ pc[c] = "dispatch" /\ pc'[c] = "scheduling"
      /\ \A d \in Callers \ {c} : pc'[d] = pc[d] /\ call'[d] = call[d]
  BY <1>1 DEF Admit, Goto, TypesAndControl, TypeOK
<1>4. ASSUME NEW d \in Callers \ {c} PROVE Waits(d)'
  <2>1. Still(d) /\ Waits(d) /\ Own(d)' = Own(d)
    BY <1>3, OwnStill DEF Still, Awake
  <2>2. Registered(d)'
    BY <1>3, <2>1 DEF Waits, Registered
  <2>3. TaskWoken(d) => TaskWoken(d)'
    <3>1. PICK a : a = call[d].task /\ a = call'[d].task
      BY <1>3
    <3>2. CASE pc[d] \in {"wait-asleep", "wait-settle", "grant-asleep"}
      <4>1. a.rec \in Records /\ Pinned(a)
        BY <2>1, <3>1, <3>2, SleepersPinned
      <4>2. record'[a.rec] = record[a.rec]
        BY <1>1, <1>2, <4>1 DEF Pinned, Allocated
      <4> QED BY <1>3, <3>1, <4>2 DEF TaskWoken, IsTerminal, HasWorkerGrant, IsCurrentIncarnation
    <3>3. CASE pc[d] \notin {"wait-asleep", "wait-settle", "grant-asleep"}
      BY <1>3, <3>3 DEF TaskWoken
    <3> QED BY <3>2, <3>3
  <2>4. CapacityWoken(d) => CapacityWoken(d)'
    BY <1>1, <1>3 DEF CapacityWoken
  <2>5. IsCancellationRequestedForContext(d)' => IsCancellationRequestedForContext(d)
    BY <1>2 DEF IsCancellationRequestedForContext
  <2>6. \A r \in Records : AssignedTo(d, r)' => AssignedTo(d, r)
    BY <1>2 DEF AssignedTo, Executing
  <2> QED BY <1>3, <2>1, <2>2, <2>3, <2>4, <2>5, <2>6
          DEF Waits, InterruptionWoken, GrantWoken
<1>5. Waits(c)'
  <2>1. pc'[c] \notin Promised
    BY <1>3 DEF Promised, AdmissionSteps, GrantSteps, WaitSteps
  <2> QED BY <2>1, AtRestWaits
<1>6. FlightUnawaited'
  <2>1. ASSUME NEW d \in Callers, pc[d] \in WaitSteps PROVE call[d].task.rec # r0
    <3>1. Pinned(call[d].task)
      <4>1. CASE pc[d] = "wait"
        BY <4>1 DEF Safe, WaitsOnHandle, InterestsPinRecord
      <4>2. CASE pc[d] # "wait"
        <5>1. Own(d) \in waiters
          BY <2>1, <4>2 DEF Awake, Waits, Registered
        <5> QED BY <5>1 DEF Own, Safe, InterestsPinRecord
      <4> QED BY <4>1, <4>2
    <3> QED BY <1>1, <3>1 DEF Pinned, Allocated
  <2>2. ASSUME NEW d \in Callers, pc'[d] \in WaitSteps
        PROVE  pc[d] \in WaitSteps /\ d # c /\ call'[d] = call[d]
    BY <1>3, <2>2 DEF WaitSteps
  <2>3. call'[c].task.rec = r0
    BY <1>1 DEF TypesAndControl, TypeOK, Call
  <2>4. \A a \in Callers \ {c} : InFlight(a)' => InFlight(a) /\ call'[a] = call[a]
    BY <1>3 DEF InFlight
  <2> QED BY <2>1, <2>2, <2>3, <2>4 DEF Awake, FlightUnawaited
<1> QED BY <1>4, <1>5, <1>6 DEF Awake

\* A grant wakes its Worker, unless it is the caller, and those who wait for the grant.
LEMMA GrantAwake ==
  ASSUME TypesAndControl, Safe, Awake, NEW c \in Callers, Grant(c)
  PROVE  Awake'
<1>0. PICK r0 : r0 = Head(queue)
  OBVIOUS
<1>1. r0 \in Records /\ Queued(r0)
  <2>1. queue \in Seq(Records) /\ queue # <<>> /\ Injective(queue)
    BY DEF Safe, QueueHoldsQueuedTasks, Injective, TypesAndControl, TypeOK, Grant
  <2>2. r0 \in Records /\ In(r0, queue)
    BY <1>0, <2>1, TailElements
  <2> QED BY <2>2 DEF Safe, QueueHoldsQueuedTasks, In
<1>2. PICK w \in idle, lost \in SUBSET (WaitersOn(Incarnation(r0)) \cap Faulty) :
        /\ record' = [record EXCEPT ![r0] = Claimed(@, w)]
        /\ signalled' = signalled \cup WorkerToWake(c, w) \cup (WaitersOn(Incarnation(r0)) \ lost)
        /\ call' = [call EXCEPT ![c].wakeFailed = @ \/ lost # {}]
  BY <1>0 DEF Grant, NextWorkers, TryClaim
<1>3. /\ w \in Workers
      /\ record'[r0].state = "Running" /\ record'[r0].worker = w
      /\ record'[r0].phase = record[r0].phase
      /\ \A r \in Records \ {r0} : record'[r] = record[r]
  BY <1>1, <1>2 DEF TypesAndControl, TypeOK, TaskRecord, Claimed
<1>4. /\ UNCHANGED <<pc, available, waiters, admissionWaiters, stopped>>
      /\ signalled \subseteq signalled'
      /\ \A d \in Callers : call'[d].task = call[d].task
  BY <1>2 DEF Grant, TypesAndControl, TypeOK, Call
<1>5. ASSUME NEW d \in Callers PROVE Waits(d)'
  <2>1. Waits(d) /\ Still(d) /\ Own(d)' = Own(d)
    BY <1>4, OwnStill DEF Still, Awake
  <2>2. Registered(d)'
    BY <1>4, <2>1 DEF Waits, Registered
  <2>3. ASSUME d \in Contexts \ Faulty PROVE TaskWoken(d)'
    <3>1. PICK a : a = call[d].task /\ a = call'[d].task
      BY <1>4
    <3>2. CASE pc[d] \in {"wait-asleep", "wait-settle", "grant-asleep"}
      <4>1. a \in Binding /\ a.rec \in Records /\ Pinned(a) /\ Own(d) \in waiters
        BY <2>1, <3>1, <3>2, SleepersPinned
      <4>2. CASE a.rec # r0
        <5>1. record'[a.rec] = record[a.rec]
          BY <1>3, <4>1, <4>2
        <5> QED BY <1>4, <2>1, <2>3, <3>1, <5>1
                DEF Waits, TaskWoken, IsTerminal, HasWorkerGrant, IsCurrentIncarnation
      <4>3. CASE a.rec = r0
        <5>1. a = Incarnation(r0)
          BY <4>1, <4>3 DEF Pinned, IsCurrentIncarnation, Incarnation, Binding
        <5>2. d \in WaitersOn(Incarnation(r0)) \ lost
          BY <1>2, <2>3, <3>1, <4>1, <5>1 DEF Own, WaitersOn
        <5> QED BY <1>2, <5>2 DEF TaskWoken
      <4> QED BY <4>2, <4>3
    <3>3. CASE pc[d] \notin {"wait-asleep", "wait-settle", "grant-asleep"}
      BY <1>4, <3>3 DEF TaskWoken
    <3> QED BY <3>2, <3>3
  <2>4. CapacityWoken(d) => CapacityWoken(d)'
    BY <1>4 DEF CapacityWoken
  <2>5. IsCancellationRequestedForContext(d)' => IsCancellationRequestedForContext(d)
    BY <1>3 DEF IsCancellationRequestedForContext
  <2>6. GrantWoken(d)'
    <3>1. CASE d = w /\ w # c
      BY <1>2, <3>1 DEF WorkerToWake, GrantWoken
    <3>2. CASE d = w /\ w = c
      <4>1. pc'[d] # "asleep"
        BY <1>4, <3>2 DEF Grant
      <4> QED BY <4>1 DEF GrantWoken
    <3>3. CASE d # w
      <4>1. \A r \in Records : AssignedTo(d, r)' => AssignedTo(d, r)
        BY <1>3, <3>3 DEF AssignedTo
      <4> QED BY <1>4, <2>1, <4>1 DEF Waits, GrantWoken
    <3> QED BY <3>1, <3>2, <3>3
  <2> QED BY <1>4, <2>1, <2>2, <2>3, <2>4, <2>5, <2>6 DEF Waits, InterruptionWoken
<1>6. FlightUnawaited'
  BY <1>4, FlightSame DEF Awake
<1> QED BY <1>5, <1>6 DEF Awake

LEMMA TaskReturnsAwake ==
  ASSUME TypesAndControl, Safe, Awake, NEW w \in Workers, TaskReturns(w)
  PROVE  Awake'
<1>1. PICK outcome \in Outcomes :
        /\ record' = [record EXCEPT ![running[w].rec] = Invoked(@, outcome)]
        /\ Goto(w, outcome)
  BY DEF TaskReturns, Outcomes
<1>2. UNCHANGED <<available, waiters, admissionWaiters, signalled, stopped, call>>
  BY DEF TaskReturns
<1>3. ASSUME NEW r \in Records
      PROVE  /\ record'[r].state = record[r].state /\ record'[r].phase = record[r].phase
             /\ record'[r].worker = record[r].worker
  <2>1. record[r] \in TaskRecord
    BY DEF TypesAndControl, TypeOK
  <2> QED BY <1>1, <2>1 DEF Invoked, TaskRecord, TypesAndControl, TypeOK
<1>4. w \in Callers /\ outcome \in Steps
  BY DEF Callers, Contexts, Outcomes, Steps, WorkerSteps
<1>5. Moves(w)
  BY <1>1, <1>2, <1>4 DEF Moves
<1>6. ASSUME NEW d \in Callers \ {w} PROVE Waits(d)'
  BY <1>2, <1>3, <1>4, <1>5, OthersStill, StillWaits DEF Awake
<1>7. Waits(w)'
  <2>1. pc'[w] \notin Promised
    BY <1>1, <1>4
       DEF Goto, TypesAndControl, TypeOK, Promised, AdmissionSteps, GrantSteps, WaitSteps, Outcomes
  <2> QED BY <1>4, <2>1, AtRestWaits
<1>8. FlightUnawaited'
  BY <1>1, <1>2, <1>4, FlightStays DEF Awake, Stays, WaitSteps, DispatchSteps, Outcomes
<1> QED BY <1>6, <1>7, <1>8 DEF Awake

\* Shutdown wakes those who wait on a queued Task or for capacity, and the Workers.
LEMMA CancelAllAwake ==
  ASSUME TypesAndControl, Safe, Awake, BeginShutdownCancellation
  PROVE  Awake'
<1>0. PICK queued, executing :
        /\ queued = {r \in Records \ available : record[r].state = "Queued"}
        /\ executing = {r \in Records \ available : record[r].state \in Executing}
        /\ Notify((UNION {WaitersOn(Incarnation(r)) : r \in queued})
                  \cup {record[r].worker : r \in executing} \cup admissionWaiters)
  BY DEF BeginShutdownCancellation
<1>1. /\ record' = [r \in Records |-> IF r \in available THEN record[r] ELSE Cancelled(record[r])]
      /\ UNCHANGED <<available, waiters, admissionWaiters, stopped, pc, call>>
      /\ signalled \subseteq signalled'
  BY <1>0 DEF BeginShutdownCancellation, Notify
<1>2. ASSUME NEW r \in Records
      PROVE  /\ record'[r].phase = record[r].phase
             /\ record'[r].state \in Terminal =>
                   record[r].state \in Terminal \/ r \in queued
             /\ Granted(record'[r]) => Granted(record[r])
             /\ record'[r].state \in Executing =>
                   record[r].state \in Executing /\ record'[r].worker = record[r].worker
             /\ record'[r].state = "RunningCancelRequested" /\ r \in Records \ available =>
                   r \in executing
             /\ r \in available => record'[r] = record[r]
  <2>1. record[r] \in TaskRecord
    BY DEF TypesAndControl, TypeOK
  <2> QED BY <1>0, <1>1, <2>1
          DEF Cancelled, Abandoned, Granted, TaskRecord, TaskStates, Executing, Terminal
<1>3. ASSUME NEW d \in Callers PROVE Waits(d)'
  <2>1. Still(d) /\ Waits(d)
    BY <1>1, HandleStill DEF Awake
  <2>2. Registered(d)'
    BY <2>1, OwnStill DEF Still, Waits, Registered
  <2>3. ASSUME d \in Contexts \ Faulty PROVE TaskWoken(d)'
    <3>1. PICK a : a = call[d].task /\ a = call'[d].task
      BY <1>1
    <3>2. CASE pc[d] \in {"wait-asleep", "wait-settle", "grant-asleep"}
      <4>1. a \in Binding /\ a.rec \in Records /\ Pinned(a) /\ Own(d) \in waiters
        BY <2>1, <3>1, <3>2, SleepersPinned
      <4>2. IsTerminal(a)' => IsTerminal(a) \/ a.rec \in queued
        BY <1>2, <4>1 DEF IsTerminal, IsCurrentIncarnation
      <4>3. HasWorkerGrant(a)' => HasWorkerGrant(a)
        BY <1>2, <4>1 DEF HasWorkerGrant, IsCurrentIncarnation, Granted
      <4>4. a.rec \in queued => d \in signalled'
        <5>1. a = Incarnation(a.rec)
          BY <4>1 DEF Pinned, IsCurrentIncarnation, Incarnation, Binding
        <5>2. d \in WaitersOn(a)
          BY <3>1, <4>1 DEF Own, WaitersOn
        <5>3. ASSUME a.rec \in queued PROVE d \in UNION {WaitersOn(Incarnation(r)) : r \in queued}
          BY <5>1, <5>2, <5>3
        <5> QED BY <1>0, <2>3, <5>3 DEF Notify
      <4> QED BY <1>1, <2>1, <2>3, <3>1, <4>2, <4>3, <4>4 DEF Waits, TaskWoken
    <3>3. CASE pc[d] \notin {"wait-asleep", "wait-settle", "grant-asleep"}
      BY <1>1, <3>3 DEF TaskWoken
    <3> QED BY <3>2, <3>3
  <2>4. CapacityWoken(d) => CapacityWoken(d)'
    BY <1>1 DEF CapacityWoken
  <2>5. ASSUME d \in Contexts \ Faulty PROVE InterruptionWoken(d)'
    <3>1. ASSUME NEW r \in Records,
                 record'[r].state = "RunningCancelRequested", record'[r].worker = d
          PROVE  IsCancellationRequestedForContext(d) \/ d \in signalled'
      <4>1. CASE r \in available
        BY <1>2, <3>1, <4>1 DEF IsCancellationRequestedForContext
      <4>2. CASE r \notin available
        <5>1. r \in executing /\ record[r].worker = d
          BY <1>2, <3>1, <4>2 DEF Executing
        <5> QED BY <1>0, <2>5, <5>1 DEF Notify
      <4> QED BY <4>1, <4>2
    <3>2. IsCancellationRequestedForContext(d)' =>
             IsCancellationRequestedForContext(d) \/ d \in signalled'
      BY <3>1 DEF IsCancellationRequestedForContext
    <3> QED BY <1>1, <2>1, <2>5, <3>2 DEF Waits, InterruptionWoken
  <2>6. GrantWoken(d)'
    <3>1. \A r \in Records : AssignedTo(d, r)' => AssignedTo(d, r)
      BY <1>2 DEF AssignedTo
    <3> QED BY <1>1, <2>1, <3>1 DEF Waits, GrantWoken
  <2> QED BY <2>1, <2>2, <2>3, <2>4, <2>5, <2>6 DEF Waits
<1>4. FlightUnawaited'
  BY <1>1, FlightSame DEF Awake
<1> QED BY <1>3, <1>4 DEF Awake

LEMMA RequestStopAwake ==
  ASSUME TypesAndControl, Awake, NEW c \in Clients, RequestStop(c)
  PROVE  Awake'
<1>1. /\ UNCHANGED <<record, available, waiters, admissionWaiters, pc, call>>
      /\ stopped' = stopped \cup {c}
      /\ signalled \subseteq signalled'
      /\ c \notin Faulty => c \in signalled'
  BY DEF RequestStop, Notify, facilityVars
<1>2. ASSUME NEW d \in Callers PROVE Waits(d)'
  <2>1. Waits(d) /\ Own(d)' = Own(d)
    BY <1>1, OwnStill DEF Awake
  <2>2. Registered(d)' /\ (TaskWoken(d) => TaskWoken(d)')
    BY <1>1, <2>1
       DEF Waits, Registered, TaskWoken, IsTerminal, HasWorkerGrant, IsCurrentIncarnation
  <2>3. /\ CapacityWoken(d) => CapacityWoken(d)'
        /\ GrantWoken(d) => GrantWoken(d)'
    BY <1>1 DEF CapacityWoken, GrantWoken, AssignedTo
  <2>4. IsCancellationRequestedForContext(d)' => IsCancellationRequestedForContext(d)
    BY <1>1 DEF IsCancellationRequestedForContext
  <2>5. d \notin Faulty /\ InterruptionWoken(d) => InterruptionWoken(d)'
    BY <1>1, <2>4 DEF InterruptionWoken
  <2> QED BY <2>1, <2>2, <2>3, <2>5 DEF Waits
<1>3. FlightUnawaited'
  BY <1>1, FlightSame DEF Awake
<1> QED BY <1>2, <1>3 DEF Awake

-----------------------------------------------------------------------------
(* The steps of one caller that change no Task.                            *)

\* A caller that dispatches on, returns or runs is promised nothing.
LEMMA DispatchAwake ==
  ASSUME TypesAndControl, Awake, NEW c \in Callers,
         \/ DispatchWithoutCapacity(c) \/ DispatchUnavailable(c) \/ DispatchReturnsTask(c)
         \/ DispatchAwaitsGrant(c) \/ AdmissionExpires(c) \/ Reenters(c)
  PROVE  Awake'
<1> USE DEF facilityVars
<1>1. /\ UNCHANGED <<record, available, stopped, waiters, signalled>>
      /\ admissionWaiters \ {c} \subseteq admissionWaiters'
  BY DEF DispatchWithoutCapacity, DispatchUnavailable, DispatchReturnsTask,
         DispatchAwaitsGrant, AdmissionExpires, Reenters
<1>2. \/ Return(c)
      \/ /\ pc[c] \in DispatchSteps /\ call' = call
         /\ \E step \in {"dispatch", "admission", "grant", "reentrant"} : Goto(c, step)
  BY DEF DispatchWithoutCapacity, DispatchUnavailable, DispatchReturnsTask, ReturnHandle,
         DispatchAwaitsGrant, AdmissionExpires, Reenters, DispatchSteps
<1>3. Moves(c) /\ Stays(c)
  BY <1>1, <1>2 DEF Moves, Stays, Steps, DispatchSteps, WaitSteps
<1>4. pc'[c] \notin Promised
  BY <1>2 DEF Return, Goto, TypesAndControl, TypeOK, Promised, AdmissionSteps, GrantSteps, WaitSteps
<1> QED BY <1>1, <1>3, <1>4, RestAwake

\* A caller that goes to sleep for capacity is registered, and no record is free.
LEMMA AdmissionAwake ==
  ASSUME TypesAndControl, Awake, NEW c \in Callers,
         AdmissionRegisters(c) \/ AdmissionRechecks(c)
  PROVE  Awake'
<1>1. /\ UNCHANGED <<record, available, stopped, waiters, signalled>>
      /\ admissionWaiters \ {c} \subseteq admissionWaiters'
      /\ pc[c] \in AdmissionSteps
  BY DEF AdmissionRegisters, AdmissionRechecks, AdmissionSteps
<1>2. \/ Return(c)
      \/ Goto(c, "dispatch") /\ call' = call
      \/ /\ Goto(c, "admission-asleep") /\ call' = call
         /\ available = {} /\ c \in admissionWaiters'
  BY <1>1 DEF AdmissionRegisters, AdmissionRechecks, Awake, Waits, Registered, AdmissionSteps
<1>3. Moves(c) /\ Stays(c)
  BY <1>1, <1>2 DEF Moves, Stays, Steps, DispatchSteps, WaitSteps, AdmissionSteps
<1>4. CASE Return(c) \/ Goto(c, "dispatch")
  <2>1. pc'[c] \notin Promised
    BY <1>4
       DEF Return, Goto, TypesAndControl, TypeOK, Promised, AdmissionSteps, GrantSteps, WaitSteps
  <2> QED BY <1>1, <1>3, <2>1, RestAwake
<1>5. CASE Goto(c, "admission-asleep") /\ available = {} /\ c \in admissionWaiters'
  <2>1. pc'[c] = "admission-asleep"
    BY <1>5 DEF Goto, TypesAndControl, TypeOK
  <2>2. Waits(c)'
    BY <1>1, <1>5, <2>1 DEF Waits, Registered, TaskWoken, CapacityWoken, InterruptionWoken,
                            GrantWoken, GrantSteps, WaitSteps
  <2> QED BY <1>1, <1>3, <2>2, MoveAwake
<1> QED BY <1>2, <1>4, <1>5

\* A caller that wakes up takes its signal and keeps its registration.
LEMMA WakesAwake ==
  ASSUME TypesAndControl, Awake, NEW c \in Callers,
         AdmissionWakes(c) \/ GrantWakes(c) \/ WaitWakes(c) \/ WaitRechecks(c)
  PROVE  Awake'
<1> USE DEF facilityVars
<1>1. /\ UNCHANGED <<record, available, stopped, waiters, admissionWaiters, call>>
      /\ signalled \ {c} \subseteq signalled'
  BY DEF AdmissionWakes, GrantWakes, WaitWakes, WaitRechecks, TakeSignal
<1>2. \/ /\ pc[c] = "admission-asleep"
         /\ \E step \in {"admission-woken", "admission-expired"} : Goto(c, step)
      \/ /\ pc[c] = "grant-asleep"
         /\ \E step \in {"grant-woken", "grant-expired"} : Goto(c, step)
      \/ /\ pc[c] = "wait-asleep"
         /\ \E step \in {"wait-woken", "wait-leave"} : Goto(c, step)
      \/ /\ pc[c] = "wait-woken" /\ ~IsTerminal(call[c].task)
         /\ Goto(c, "wait-settle")
  BY DEF AdmissionWakes, GrantWakes, WaitWakes, WaitRechecks
<1>3. Moves(c) /\ Stays(c)
  BY <1>1, <1>2 DEF Moves, Stays, Steps, DispatchSteps, WaitSteps
<1>4. Waits(c)'
  <2>1. pc'[c] \in Steps /\ Own(c)' = Own(c)
    BY <1>1, <1>2 DEF Goto, TypesAndControl, TypeOK, Own, Steps, DispatchSteps, WaitSteps
  <2>2. Registered(c)'
    BY <1>1, <1>2, <2>1 DEF Goto, TypesAndControl, TypeOK, Awake, Waits, Registered,
                            AdmissionSteps, GrantSteps, WaitSteps
  <2>3. \/ pc'[c] \notin {"wait", "wait-asleep", "wait-settle", "grant-asleep",
                          "admission-asleep", "asleep"}
        \/ pc'[c] = "wait-settle" /\ ~IsTerminal(call[c].task)
    BY <1>2 DEF Goto, TypesAndControl, TypeOK
  <2>4. IsTerminal(call[c].task)' = IsTerminal(call[c].task)
    BY <1>1 DEF IsTerminal, IsCurrentIncarnation
  <2> QED BY <2>2, <2>3, <2>4
          DEF Waits, TaskWoken, CapacityWoken, InterruptionWoken, GrantWoken
<1> QED BY <1>1, <1>3, <1>4, MoveAwake

\* A dispatch that sleeps for its grant has registered and has no grant yet.
LEMMA GrantSleepsAwake ==
  ASSUME TypesAndControl, Safe, Awake, NEW c \in Callers,
         GrantRegisters(c) \/ GrantSleepsAgain(c)
  PROVE  Awake'
<1> USE DEF facilityVars
<1>1. pc[c] \in GrantSteps
  BY DEF GrantRegisters, GrantSleepsAgain, GrantSteps
<1>2. CASE Relinquish(call[c].task, waiters, {}) /\ Return(c)
           /\ UNCHANGED <<admissionWaiters, stopped>>
  BY <1>1, <1>2, WithdrawAwake
<1>3. CASE /\ Return(c)
           /\ UNCHANGED <<record, available, stopped, waiters, admissionWaiters, signalled>>
  <2>1. Moves(c) /\ Stays(c)
    BY <1>3 DEF Moves, Stays
  <2>2. pc'[c] \notin Promised
    BY <1>3
       DEF Return, Goto, TypesAndControl, TypeOK, Promised, AdmissionSteps, GrantSteps, WaitSteps
  <2> QED BY <1>3, <2>1, <2>2, RestAwake
<1>4. CASE /\ Goto(c, "grant-asleep") /\ ~HasWorkerGrant(call[c].task)
           /\ UNCHANGED <<record, available, stopped, admissionWaiters, signalled, call>>
           /\ waiters \subseteq waiters' /\ Own(c) \in waiters'
  <2>1. Moves(c) /\ Stays(c)
    BY <1>1, <1>4 DEF Moves, Stays, Steps, DispatchSteps, GrantSteps, WaitSteps
  <2>2. pc'[c] = "grant-asleep" /\ Own(c)' = Own(c)
    BY <1>4 DEF Goto, TypesAndControl, TypeOK, Own
  <2>3. HasWorkerGrant(call[c].task)' = HasWorkerGrant(call[c].task)
    BY <1>4 DEF HasWorkerGrant, IsCurrentIncarnation
  <2>4. Waits(c)'
    BY <1>4, <2>2, <2>3 DEF Waits, Registered, TaskWoken, CapacityWoken, InterruptionWoken,
                            GrantWoken, AdmissionSteps, WaitSteps
  <2> QED BY <1>4, <2>1, <2>4, MoveAwake
<1>5. CASE GrantRegisters(c)
  BY <1>2, <1>3, <1>4, <1>5 DEF GrantRegisters, ReturnHandle
<1>6. CASE GrantSleepsAgain(c)
  <2>1. Own(c) \in waiters
    BY <1>6 DEF GrantSleepsAgain, Awake, Waits, Registered, GrantSteps
  <2> QED BY <1>4, <1>6, <2>1 DEF GrantSleepsAgain
<1> QED BY <1>5, <1>6

\* Only a Worker is asked to cancel, and only a client to stop.
LEMMA NotInterrupted ==
  ASSUME TypesAndControl, NEW c \in Contexts, ~IsInterrupted(c)
  PROVE  c \notin stopped /\ ~IsCancellationRequestedForContext(c)
<1>1. \A r \in Records : record[r].state = "RunningCancelRequested" => record[r].worker \in Workers
  BY DEF TypesAndControl, ExecutingHaveWorker, Executing
<1>2. stopped \subseteq Clients /\ Workers \cap Clients = {}
  BY FacilityAssumption DEF TypesAndControl, TypeOK
<1>3. CASE c \in Workers
  BY <1>2, <1>3 DEF IsInterrupted
<1>4. CASE c \notin Workers
  BY <1>1, <1>4 DEF IsInterrupted, IsCancellationRequestedForContext
<1> QED BY <1>3, <1>4

\* A waiter that goes to sleep is registered; its Task has not finished, and the
\* interruption it has read before did not come meanwhile without its signal.
LEMMA WaitSleepsAwake ==
  ASSUME TypesAndControl, Safe, Awake, NEW c \in Callers, WaitRegisters(c) \/ WaitSettles(c)
  PROVE  Awake'
<1> USE DEF facilityVars
<1>1. /\ UNCHANGED <<record, available, stopped, admissionWaiters, signalled>>
      /\ waiters \subseteq waiters' /\ pc[c] \in {"wait", "wait-settle"}
  BY DEF WaitRegisters, WaitSettles
<1>2. c \in Contexts
  BY <1>1 DEF TypesAndControl, ControlOK, PlaceOK, WaitSteps
<1>3. \/ Return(c)
      \/ /\ Goto(c, "wait-asleep") /\ call' = call /\ pc[c] = "wait"
         /\ ~IsTerminal(call[c].task) /\ Own(c) \in waiters'
      \/ /\ Goto(c, "wait-leave") /\ call' = call
         /\ pc[c] = "wait-settle" /\ Own(c) \in waiters'
      \/ /\ Goto(c, "wait-asleep") /\ call' = call /\ ~IsInterrupted(c)
         /\ pc[c] = "wait-settle" /\ Own(c) \in waiters'
  BY DEF WaitRegisters, WaitSettles, Awake, Waits, Registered, WaitSteps
<1>4. Moves(c) /\ Stays(c)
  BY <1>1, <1>3 DEF Moves, Stays, Steps, DispatchSteps, WaitSteps
<1>5. CASE Return(c)
  <2>1. pc'[c] \notin Promised
    BY <1>5
       DEF Return, Goto, TypesAndControl, TypeOK, Promised, AdmissionSteps, GrantSteps, WaitSteps
  <2> QED BY <1>1, <1>4, <2>1, RestAwake
<1>6. ASSUME call' = call PROVE /\ Own(c)' = Own(c)
                                /\ IsTerminal(call[c].task)' = IsTerminal(call[c].task)
                                /\ IsCancellationRequestedForContext(c)' =
                                   IsCancellationRequestedForContext(c)
  BY <1>1, <1>6
     DEF Own, IsTerminal, IsCurrentIncarnation, IsCancellationRequestedForContext
<1>7. CASE Goto(c, "wait-leave") /\ call' = call /\ Own(c) \in waiters'
  <2>1. pc'[c] = "wait-leave"
    BY <1>7 DEF Goto, TypesAndControl, TypeOK
  <2>2. Waits(c)'
    BY <1>6, <1>7, <2>1 DEF Waits, Registered, TaskWoken, CapacityWoken, InterruptionWoken,
                            GrantWoken, AdmissionSteps, GrantSteps
  <2> QED BY <1>1, <1>4, <2>2, MoveAwake
<1>8. CASE /\ Goto(c, "wait-asleep") /\ call' = call /\ Own(c) \in waiters'
           /\ \/ pc[c] = "wait" /\ ~IsTerminal(call[c].task)
              \/ pc[c] = "wait-settle" /\ ~IsInterrupted(c)
  <2>1. pc'[c] = "wait-asleep"
    BY <1>8 DEF Goto, TypesAndControl, TypeOK
  <2>2. Registered(c)' /\ CapacityWoken(c)' /\ GrantWoken(c)'
    BY <1>6, <1>8, <2>1 DEF Registered, CapacityWoken, GrantWoken, AdmissionSteps, GrantSteps
  <2>3. c \notin Faulty => TaskWoken(c)'
    BY <1>1, <1>2, <1>6, <1>8, <2>1 DEF TaskWoken, Awake, Waits
  <2>4. c \notin Faulty => InterruptionWoken(c)'
    <3>1. CASE pc[c] = "wait"
      BY <1>1, <1>2, <1>6, <1>8, <2>1, <3>1 DEF InterruptionWoken, Awake, Waits
    <3>2. CASE ~IsInterrupted(c)
      BY <1>1, <1>2, <1>6, <1>8, <3>2, NotInterrupted DEF InterruptionWoken
    <3> QED BY <1>8, <3>1, <3>2
  <2>5. Waits(c)'
    BY <2>2, <2>3, <2>4 DEF Waits
  <2> QED BY <1>1, <1>4, <2>5, MoveAwake
<1> QED BY <1>3, <1>5, <1>7, <1>8

\* A step of c that changes only where it is and its call.
LEMMA BeginAwake ==
  ASSUME TypesAndControl, Awake, NEW c \in Callers, Waits(c)', FlightUnawaited',
         UNCHANGED <<record, available, stopped, waiters, admissionWaiters, signalled>>,
         \A d \in Callers \ {c} : pc'[d] = pc[d] /\ call'[d] = call[d]
  PROVE  Awake'
<1>1. ASSUME NEW d \in Callers \ {c} PROVE Waits(d)'
  <2>1. Still(d)
    BY DEF Still
  <2> QED BY <2>1, StillWaits DEF Awake
<1> QED BY <1>1 DEF Awake

\* The handle on which a wait begins is not that of a Task in flight.
LEMMA BeginWaitAwake ==
  ASSUME TypesAndControl, Safe, Awake, NEW c \in Contexts, NEW h \in handles, NEW policy,
         BeginWait(c, h, policy)
  PROVE  Awake'
<1> USE DEF facilityVars
<1>0. c \in Callers
  BY DEF Callers
<1>1. /\ UNCHANGED <<record, available, stopped, waiters, admissionWaiters, signalled>>
      /\ \A d \in Callers \ {c} : pc'[d] = pc[d] /\ call'[d] = call[d]
      /\ pc'[c] = "wait" /\ call'[c].task = h
  BY <1>0 DEF BeginWait, Goto, TypesAndControl, TypeOK, Call
<1>2. Waits(c)'
  <2>1. c \notin stopped' /\ ~IsCancellationRequestedForContext(c)'
    BY <1>1, NotInterrupted DEF BeginWait, IsCancellationRequestedForContext
  <2> QED BY <1>1, <2>1 DEF Waits, Registered, TaskWoken, CapacityWoken, InterruptionWoken,
                            GrantWoken, AdmissionSteps, GrantSteps
<1>3. FlightUnawaited'
  <2>1. \A d \in Callers : InFlight(d) => call[d].task # h
    BY DEF Safe, OwnershipIsUnique
  <2>2. \A d \in Callers : InFlight(d)' => d # c /\ InFlight(d)
    BY <1>1 DEF InFlight, DispatchSteps
  <2> QED BY <1>1, <2>1, <2>2 DEF FlightUnawaited, Awake
<1> QED BY <1>0, <1>1, <1>2, <1>3, BeginAwake

LEMMA BeginDispatchAwake ==
  ASSUME TypesAndControl, Awake, NEW c \in Callers, NEW policy, BeginDispatch(c, policy)
  PROVE  Awake'
<1> USE DEF facilityVars
<1>1. /\ UNCHANGED <<record, available, stopped, waiters, admissionWaiters, signalled>>
      /\ \A d \in Callers \ {c} : pc'[d] = pc[d] /\ call'[d] = call[d]
      /\ pc'[c] = "dispatch" /\ call'[c].task = call[c].task
  BY DEF BeginDispatch, Goto, TypesAndControl, TypeOK, Call
<1>2. call[c].task = NoBinding
  BY DEF BeginDispatch, InUserCode, TypesAndControl, ControlOK, PlaceOK, WorkerSteps, ClientSteps
<1>3. Waits(c)'
  BY <1>1, AtRestWaits DEF Promised, AdmissionSteps, GrantSteps, WaitSteps
<1>4. FlightUnawaited'
  BY <1>1, <1>2 DEF FlightUnawaited, Awake, InFlight, WaitSteps
<1> QED BY <1>1, <1>3, <1>4, BeginAwake

\* A Worker that goes to sleep has found no grant.
LEMMA WorkerAwake ==
  ASSUME TypesAndControl, Awake, NEW w \in Workers,
         \/ WorkerBecameAvailable(w) \/ WorkerReadsLifecycle(w) \/ WorkerClaims(w)
         \/ WorkerWakes(w)
  PROVE  Awake'
<1> USE DEF facilityVars
<1>0. w \in Callers /\ pc[w] \notin WaitSteps
  BY DEF Callers, Contexts, WorkerBecameAvailable, WorkerReadsLifecycle, WorkerClaims,
         WorkerWakes, WaitSteps
<1>1. /\ UNCHANGED <<record, available, stopped, waiters, admissionWaiters, call>>
      /\ signalled \ {w} \subseteq signalled'
  BY DEF WorkerBecameAvailable, WorkerReadsLifecycle, WorkerClaims, WorkerWakes, TakeSignal
<1>2. \/ \E step \in {"rescheduling", "exited", "claim", "user", "loop"} : Goto(w, step)
      \/ Goto(w, "asleep") /\ \A r \in Records : ~AssignedTo(w, r)
  BY DEF WorkerBecameAvailable, WorkerReadsLifecycle, WorkerClaims, WorkerWakes
<1>3. Moves(w) /\ Stays(w)
  BY <1>0, <1>1, <1>2 DEF Moves, Stays, Steps, WorkerSteps, DispatchSteps, WaitSteps
<1>4. CASE \E step \in {"rescheduling", "exited", "claim", "user", "loop"} : Goto(w, step)
  <2>1. pc'[w] \notin Promised
    BY <1>0, <1>4
       DEF Goto, TypesAndControl, TypeOK, Promised, AdmissionSteps, GrantSteps, WaitSteps
  <2> QED BY <1>0, <1>1, <1>3, <2>1, RestAwake
<1>5. CASE Goto(w, "asleep") /\ \A r \in Records : ~AssignedTo(w, r)
  <2>1. pc'[w] = "asleep" /\ \A r \in Records : ~AssignedTo(w, r)'
    BY <1>0, <1>1, <1>5 DEF Goto, TypesAndControl, TypeOK, AssignedTo
  <2>2. Waits(w)'
    BY <2>1 DEF Waits, Registered, TaskWoken, CapacityWoken, InterruptionWoken, GrantWoken,
                AdmissionSteps, GrantSteps, WaitSteps
  <2> QED BY <1>0, <1>1, <1>3, <2>2, MoveAwake
<1> QED BY <1>2, <1>4, <1>5

LEMMA RescheduleEndsAwake ==
  ASSUME TypesAndControl, Awake, NEW w \in Workers, RescheduleEnds(w)
  PROVE  Awake'
<1> USE DEF facilityVars
<1>0. w \in Callers
  BY DEF Callers, Contexts
<1>1. /\ UNCHANGED <<record, available, stopped, waiters, admissionWaiters, signalled>>
      /\ \A d \in Callers \ {w} : pc'[d] = pc[d] /\ call'[d] = call[d]
      /\ pc'[w] = "loop"
  BY <1>0 DEF RescheduleEnds, Goto, TypesAndControl, TypeOK
<1>2. Waits(w)'
  BY <1>0, <1>1, AtRestWaits DEF Promised, AdmissionSteps, GrantSteps, WaitSteps
<1>3. FlightUnawaited'
  BY <1>1 DEF FlightUnawaited, Awake, InFlight, WaitSteps, DispatchSteps
<1> QED BY <1>0, <1>1, <1>2, <1>3, BeginAwake

LEMMA ClientFinishesAwake ==
  ASSUME TypesAndControl, Awake, NEW c \in Clients, ClientFinishes(c)
  PROVE  Awake'
<1> USE DEF facilityVars
<1>0. c \in Callers
  BY DEF Callers, Contexts
<1>1. /\ UNCHANGED <<record, available, stopped, waiters, admissionWaiters, signalled, call>>
      /\ Goto(c, "finished")
  BY DEF ClientFinishes
<1>2. pc'[c] = "finished"
  BY <1>0, <1>1 DEF Goto, TypesAndControl, TypeOK
<1>3. Moves(c) /\ Stays(c)
  BY <1>1 DEF Moves, Stays, Steps, ClientSteps, WaitSteps, DispatchSteps
<1> QED BY <1>0, <1>1, <1>2, <1>3, RestAwake DEF Promised, AdmissionSteps, GrantSteps, WaitSteps

-----------------------------------------------------------------------------
(* Every step, and what holds initially.                                   *)

LEMMA ProceedAwake ==
  ASSUME TypesAndControl, Safe, Awake, NEW c \in Callers, Proceed(c)
  PROVE  Awake'
<1>1. CASE Grant(c) \/ Admit(c)
  BY <1>1, GrantAwake, AdmitAwake
<1>2. CASE DispatchWithdraws(c)
  BY <1>2, WithdrawAwake DEF DispatchWithdraws
<1>3. CASE GrantGivesUp(c)
  BY <1>3, WithdrawAwake DEF GrantGivesUp, GrantSteps
<1>4. CASE GrantRegisters(c) \/ GrantSleepsAgain(c)
  BY <1>4, GrantSleepsAwake
<1>5. CASE GrantSucceeds(c) \/ WaitLeaves(c)
  BY <1>5, GrantSucceedsAwake, WaitLeavesAwake
<1>6. CASE \/ DispatchWithoutCapacity(c) \/ DispatchUnavailable(c) \/ DispatchReturnsTask(c)
           \/ DispatchAwaitsGrant(c) \/ AdmissionExpires(c) \/ Reenters(c)
  BY <1>6, DispatchAwake
<1>7. CASE AdmissionRegisters(c) \/ AdmissionRechecks(c)
  BY <1>7, AdmissionAwake
<1>8. CASE AdmissionWakes(c) \/ GrantWakes(c) \/ WaitWakes(c) \/ WaitRechecks(c)
  BY <1>8, WakesAwake
<1>9. CASE WaitRegisters(c) \/ WaitSettles(c)
  BY <1>9, WaitSleepsAwake
<1> QED BY <1>1, <1>2, <1>3, <1>4, <1>5, <1>6, <1>7, <1>8, <1>9 DEF Proceed

LEMMA NextAwake ==
  ASSUME TypesAndControl, Safe, Awake, [Next]_vars
  PROVE  Awake'
<1> USE DEF facilityVars
<1>1. ASSUME NEW h \in handles, Cancel(h) \/ ReleaseOwner(h) \/ TakeResult(h)
      PROVE  Awake'
  BY <1>1, CancelAwake, ReleaseAwake, TakeAwake
<1>2. ASSUME NEW c \in Callers, NEW policy, BeginDispatch(c, policy) PROVE Awake'
  BY <1>2, BeginDispatchAwake
<1>3. ASSUME NEW c \in Contexts, NEW h \in handles, NEW policy, BeginWait(c, h, policy)
      PROVE  Awake'
  BY <1>3, BeginWaitAwake
<1>4. ASSUME NEW c \in Clients, RequestStop(c) \/ ClientFinishes(c) PROVE Awake'
  BY <1>4, RequestStopAwake, ClientFinishesAwake
<1>5. ASSUME NEW w \in Workers, Work(w) PROVE Awake'
  BY <1>5, WorkerAwake, RescheduleEndsAwake, TaskReturnsAwake, CompleteAwake DEF Work
<1>6. CASE BeginShutdownCancellation
  BY <1>6, CancelAllAwake
<1>7. CASE BeginShutdown \/ FacilityIsQuiescent \/ TopologyIsQuiescent \/ FinalizeShutdown
  <2>1. /\ UNCHANGED <<record, available, stopped, waiters, admissionWaiters, pc, call>>
        /\ signalled \subseteq signalled'
    BY <1>7 DEF BeginShutdown, FacilityIsQuiescent, TopologyIsQuiescent, FinalizeShutdown, Notify
  <2> QED BY <2>1, StillAwake
<1>8. CASE UNCHANGED vars
  BY <1>8, StillAwake DEF vars
<1> QED BY <1>1, <1>2, <1>3, <1>4, <1>5, <1>6, <1>7, <1>8, ProceedAwake
        DEF Next, Request, ShutdownStep

\* The wakes hold in every reachable state.
LEMMA AwakeInvariant == Spec => [](TypesAndControl /\ Safe /\ Awake)
<1>1. Init => Awake
  <2> SUFFICES ASSUME Init PROVE Awake
    OBVIOUS
  <2>1. \A c \in Callers : pc[c] \in {"boot", "ready"}
    BY DEF Init
  <2> QED BY <2>1 DEF Awake, FlightUnawaited, Waits, Registered, TaskWoken, CapacityWoken,
                      InterruptionWoken, GrantWoken, AdmissionSteps, GrantSteps, WaitSteps
<1>2. IInv => TypesAndControl /\ Safe
  BY DEF IInv, TypesAndControl, Safe
<1>3. IInv /\ Awake /\ [Next]_vars => Awake'
  BY <1>2, NextAwake
<1> QED BY <1>1, <1>2, <1>3, InvariantHolds, PTL DEF Spec

\* Nobody sleeps on a Task that has finished, or for a grant that was published, without
\* the signal in which the wake is latched, unless that signal's provider may fail.
THEOREM TaskWakeupCorrect == Spec => []NoLostTaskWakeup
<1>1. TypesAndControl /\ Safe /\ Awake => NoLostTaskWakeup
  BY DEF Awake, Waits, TaskWoken, NoLostTaskWakeup, Callers
<1> QED BY <1>1, AwakeInvariant, PTL

\* Nobody sleeps for capacity while a record is free without the latched signal.
THEOREM CapacityWakeupCorrect == Spec => []NoLostCapacityWakeup
<1>1. TypesAndControl /\ Safe /\ Awake => NoLostCapacityWakeup
  BY DEF Awake, Waits, CapacityWoken, NoLostCapacityWakeup, Callers
<1> QED BY <1>1, AwakeInvariant, PTL

\* Nobody who was asked to cancel or to stop sleeps on a Task without the latched signal,
\* although the wait consumes signals that were meant for something else.
THEOREM InterruptionCorrect == Spec => []InterruptedTaskWaitIsWoken
<1>1. TypesAndControl /\ Safe /\ Awake => InterruptedTaskWaitIsWoken
  BY DEF Awake, Waits, InterruptionWoken, InterruptedTaskWaitIsWoken, Callers
<1> QED BY <1>1, AwakeInvariant, PTL

\* No Worker sleeps on its grant without the latched signal, even when providers fail.
THEOREM StrandedGrantCorrect == Spec => []NoStrandedGrant
<1>1. TypesAndControl /\ Safe /\ Awake => NoStrandedGrant
  BY DEF Awake, Waits, GrantWoken, NoStrandedGrant, Callers, Contexts
<1> QED BY <1>1, AwakeInvariant, PTL

-----------------------------------------------------------------------------
(* The scheduling passes leave no Worker available beside a queued Task.   *)

\* The steps at which the caller holds the facility mutex.
Holding == {"scheduling", "rescheduling", "reentrant"}

LockHeld == \A c \in Callers : lock = c <=> pc[c] \in Holding

\* The pass of a dispatch can leave behind only the Task that the dispatch admitted.
DispatchServes(c) ==
    pc[c] = "scheduling" =>
        idle = {} \/ \A r \in Records : In(r, queue) => r = call[c].task.rec

\* The pass of a Worker has at most that Worker to give.
WorkerServes(w) == pc[w] = "rescheduling" => queue = <<>> \/ idle \subseteq {w}

Served ==
    /\ LockHeld /\ WorkConserved
    /\ \A c \in Callers : DispatchServes(c) /\ WorkerServes(c)

LEMMA EmptyQueue ==
  ASSUME NEW s \in Seq(Records)
  PROVE  s = <<>> <=> \A r \in Records : ~In(r, s)
<1>1. DOMAIN s = 1 .. Len(s) /\ Len(s) \in Nat
  OBVIOUS
<1>2. CASE Len(s) = 0
  BY <1>1, <1>2 DEF In
<1>3. CASE Len(s) # 0
  <2>1. 1 \in DOMAIN s /\ s[1] \in Records /\ s # <<>>
    BY <1>1, <1>3
  <2> QED BY <2>1 DEF In
<1> QED BY <1>2, <1>3

\* A step outside the passes: it shortens the FIFO at most, and only with the mutex free.
LEMMA OutsideServed ==
  ASSUME Served, lock' = lock, idle' = idle,
         queue' = queue \/ (lock = None /\ (queue = <<>> => queue' = <<>>)),
         \A d \in Callers : pc[d] \in Holding \/ pc'[d] \in Holding =>
            pc'[d] = pc[d] /\ call'[d].task = call[d].task
  PROVE  Served'
<1>1. LockHeld' /\ WorkConserved'
  BY DEF Served, LockHeld, WorkConserved
<1>2. ASSUME NEW d \in Callers, pc'[d] \in Holding PROVE queue' = queue
  <2>1. lock = d
    BY <1>2 DEF Served, LockHeld
  <2> QED BY <2>1, FacilityAssumption
<1>3. ASSUME NEW d \in Callers PROVE DispatchServes(d)' /\ WorkerServes(d)'
  BY <1>2 DEF Served, DispatchServes, WorkerServes, Holding
<1> QED BY <1>1, <1>3 DEF Served

\* A step of a caller that does not hold the mutex and does not take it.
LEMMA QuietServed ==
  ASSUME TypesAndControl, Served, UNCHANGED <<lock, idle>>,
         queue' = queue \/ (lock = None /\ (queue = <<>> => queue' = <<>>)),
         NEW c \in Callers, pc[c] \notin Holding,
         \/ Return(c)
         \/ /\ \E step \in Steps \ Holding : Goto(c, step)
            /\ \A d \in Callers \ {c} : call'[d] = call[d]
  PROVE  Served'
<1>1. /\ pc'[c] \notin Holding
      /\ \A d \in Callers \ {c} : pc'[d] = pc[d] /\ call'[d] = call[d]
  BY DEF Return, Goto, TypesAndControl, TypeOK, Holding
<1> QED BY <1>1, OutsideServed

\* The pass ends and the mutex is released.
LEMMA PassEndsServed ==
  ASSUME TypesAndControl, Served, NEW c \in Callers, lock = c, lock' = None, idle' = idle,
         Return(c) \/ \E step \in Steps \ Holding : Goto(c, step),
         idle = {} \/ queue' = <<>>
  PROVE  Served'
<1>1. pc'[c] \notin Holding /\ \A d \in Callers \ {c} : pc'[d] = pc[d]
  BY DEF Return, Goto, TypesAndControl, TypeOK, Holding
<1>2. \A d \in Callers : pc'[d] \notin Holding
  BY <1>1 DEF Served, LockHeld
<1>3. None \notin Callers
  BY FacilityAssumption
<1> QED BY <1>2, <1>3
        DEF Served, LockHeld, WorkConserved, DispatchServes, WorkerServes, Holding

\* What is left of the FIFO once a dispatch has withdrawn the Task it admitted.
LEMMA WithoutServed ==
  ASSUME TypesAndControl, TypesAndControl', Safe, NEW b \in Binding, Pinned(b), NEW ws,
         NEW contexts, Relinquish(b, ws, contexts)
  PROVE  /\ queue = <<>> => queue' = <<>>
         /\ (\A r \in Records : In(r, queue) => r = b.rec) => queue' = <<>>
<1>1. /\ b.rec \in Records /\ queue \in Seq(Records) /\ Injective(queue)
      /\ queue' \in Seq(Records)
  BY DEF Binding, Safe, QueueHoldsQueuedTasks, Injective, TypesAndControl, TypeOK
<1>2. CASE record[b.rec].state = "Queued"
  <2>1. queue' = Without(queue, b.rec)
    BY <1>2 DEF Relinquish, Pinned
  <2>2. \A q \in Records : In(q, queue') <=> In(q, queue) /\ q # b.rec
    BY <1>1, <2>1, WithoutElements
  <2>3. queue' = <<>> <=> \A r \in Records : ~In(r, queue')
    BY <1>1, EmptyQueue
  <2> QED BY <1>1, <2>2, <2>3, EmptyQueue
<1>3. CASE record[b.rec].state # "Queued"
  <2>1. queue' = queue
    BY <1>3 DEF Relinquish
  <2>2. ~In(b.rec, queue)
    BY <1>1, <1>3 DEF Safe, QueueHoldsQueuedTasks, Queued, In
  <2> QED BY <1>1, <2>1, <2>2, EmptyQueue
<1> QED BY <1>2, <1>3

\* A pass that ended early has failed, and left at most the Task of its dispatch.
LEMMA DispatchEndsServed ==
  ASSUME TypesAndControl, TypesAndControl', Safe, Served, NEW c \in Callers,
         DispatchWithdraws(c) \/ DispatchReturnsTask(c) \/ DispatchAwaitsGrant(c)
  PROVE  Served'
<1> USE DEF facilityVars
<1>1. lock = c /\ pc[c] = "scheduling" /\ lock' = None /\ idle' = idle
  BY DEF DispatchWithdraws, DispatchReturnsTask, DispatchAwaitsGrant, PassEnds
<1>2. Return(c) \/ \E step \in Steps \ Holding : Goto(c, step)
  BY DEF DispatchWithdraws, DispatchReturnsTask, ReturnHandle, DispatchAwaitsGrant, Steps,
         DispatchSteps, Holding
<1>3. call[c].task \in Binding /\ Pinned(call[c].task) /\ call[c].task.rec \in Records
  BY <1>1, InFlightOwns DEF Binding
<1>4. idle = {} \/ \A r \in Records : In(r, queue) => r = call[c].task.rec
  BY <1>1 DEF Served, DispatchServes
<1>5. CASE DispatchWithdraws(c)
  <2>1. idle = {} \/ queue' = <<>>
    BY <1>3, <1>4, <1>5, WithoutServed DEF DispatchWithdraws
  <2> QED BY <1>1, <1>2, <2>1, PassEndsServed
<1>6. CASE DispatchReturnsTask(c) \/ DispatchAwaitsGrant(c)
  <2>1. queue' = queue
    BY <1>6 DEF DispatchReturnsTask, DispatchAwaitsGrant
  <2>2. (idle = {} \/ queue = <<>>) \/ HasWorkerGrant(call[c].task)
    BY <1>6 DEF DispatchReturnsTask, DispatchAwaitsGrant, PassEnds, MustWithdraw
  <2>3. HasWorkerGrant(call[c].task) => ~In(call[c].task.rec, queue)
    BY <1>3 DEF HasWorkerGrant, Safe, QueueHoldsQueuedTasks, Queued, In
  <2>4. queue \in Seq(Records)
    BY DEF TypesAndControl, TypeOK
  <2>5. idle = {} \/ queue' = <<>>
    BY <1>4, <2>1, <2>2, <2>3, <2>4, EmptyQueue
  <2> QED BY <1>1, <1>2, <2>5, PassEndsServed
<1> QED BY <1>5, <1>6

LEMMA GrantServed ==
  ASSUME TypesAndControl, Safe, Served, NEW c \in Callers, Grant(c)
  PROVE  Served'
<1>1. /\ lock = c /\ queue # <<>> /\ queue' = Tail(queue) /\ UNCHANGED <<lock, pc>>
      /\ idle # {} /\ idle' \subseteq idle
      /\ \E lost : call' = [call EXCEPT ![c].wakeFailed = @ \/ lost # {}]
  BY DEF Grant, NextWorkers, TryClaim
<1>2. \A d \in Callers : call'[d].task = call[d].task
  BY <1>1 DEF TypesAndControl, TypeOK, Call
<1>3. \A r \in Records : In(r, queue') => In(r, queue)
  <2>1. queue \in Seq(Records) /\ Injective(queue)
    BY DEF Safe, QueueHoldsQueuedTasks, Injective, TypesAndControl, TypeOK
  <2> QED BY <1>1, <2>1, TailElements
<1>4. LockHeld' /\ WorkConserved'
  BY <1>1, FacilityAssumption DEF Served, LockHeld, WorkConserved
<1>5. ASSUME NEW d \in Callers PROVE DispatchServes(d)' /\ WorkerServes(d)'
  <2>1. DispatchServes(d)'
    BY <1>1, <1>2, <1>3 DEF Served, DispatchServes
  <2>2. WorkerServes(d)'
    BY <1>1 DEF Served, WorkerServes
  <2> QED BY <2>1, <2>2
<1> QED BY <1>4, <1>5 DEF Served

\* The mutex was free before the admission: nobody was queued or nobody was available.
LEMMA AdmitServed ==
  ASSUME TypesAndControl, Safe, Served, NEW c \in Callers, Admit(c)
  PROVE  Served'
<1>1. PICK r0 \in available :
        /\ queue' = Append(queue, r0)
        /\ call' = [call EXCEPT ![c].task = [rec |-> r0, phase |-> ~record[r0].phase]]
  BY DEF Admit
<1>2. lock = None /\ lock' = c /\ idle' = idle /\ Goto(c, "scheduling")
  BY DEF Admit
<1>3. /\ pc'[c] = "scheduling" /\ call'[c].task.rec = r0
      /\ \A d \in Callers \ {c} : pc'[d] = pc[d] /\ pc[d] \notin Holding
  BY <1>1, <1>2, FacilityAssumption
     DEF Goto, TypesAndControl, TypeOK, Call, Served, LockHeld
<1>4. queue = <<>> => \A r \in Records : In(r, queue') => r = r0
  <2>1. r0 \in Records /\ queue \in Seq(Records) /\ Injective(queue)
    BY DEF Safe, QueueHoldsQueuedTasks, Injective, TypesAndControl, TypeOK
  <2>2. ~In(r0, queue)
    BY <2>1 DEF Safe, QueueHoldsQueuedTasks, In, Queued, Allocated
  <2>3. \A r \in Records : In(r, queue') <=> In(r, queue) \/ r = r0
    BY <1>1, <2>1, <2>2, AppendElements
  <2> QED BY <2>1, <2>3, EmptyQueue
<1>5. LockHeld' /\ WorkConserved'
  BY <1>2, <1>3, FacilityAssumption DEF LockHeld, WorkConserved, Holding
<1>6. idle = {} \/ queue = <<>>
  BY <1>2 DEF Served, WorkConserved
<1>7. \A d \in Callers : DispatchServes(d)' /\ WorkerServes(d)'
  BY <1>2, <1>3, <1>4, <1>6 DEF DispatchServes, WorkerServes, Holding
<1> QED BY <1>5, <1>7 DEF Served

\* A Worker is published and begins its pass.
LEMMA PublishedServed ==
  ASSUME TypesAndControl, Served, NEW w \in Workers,
         WorkerBecameAvailable(w) \/ CompleteWorkerTask(w)
  PROVE  Served'
<1>1. /\ lock = None /\ lock' = w /\ idle' = idle \cup {w} /\ queue' = queue
      /\ Goto(w, "rescheduling") /\ w \in Callers
  BY DEF WorkerBecameAvailable, CompleteWorkerTask, Callers, Contexts
<1>2. /\ pc'[w] = "rescheduling"
      /\ \A d \in Callers \ {w} : pc'[d] = pc[d] /\ pc[d] \notin Holding
  BY <1>1, FacilityAssumption DEF Goto, TypesAndControl, TypeOK, Served, LockHeld
<1>3. LockHeld' /\ WorkConserved'
  BY <1>1, <1>2, FacilityAssumption DEF LockHeld, WorkConserved, Holding
<1>4. \A d \in Callers : DispatchServes(d)' /\ WorkerServes(d)'
  BY <1>1, <1>2 DEF DispatchServes, WorkerServes, Holding, Served, WorkConserved
<1> QED BY <1>3, <1>4 DEF Served

\* A Worker that is available itself does not stop at the wake of another one.
LEMMA RescheduleEndsServed ==
  ASSUME TypesAndControl, Served, NEW w \in Workers, RescheduleEnds(w)
  PROVE  Served'
<1>1. /\ lock = w /\ lock' = None /\ pc[w] = "rescheduling" /\ Goto(w, "loop")
      /\ UNCHANGED <<idle, queue>> /\ w \in Callers
  BY DEF RescheduleEnds, PassEnds, facilityVars, Callers, Contexts
<1>2. queue = <<>> \/ idle \subseteq {w}
  BY <1>1 DEF Served, WorkerServes
<1>3. idle = {} \/ queue' = <<>>
  BY <1>1, <1>2 DEF RescheduleEnds, PassEnds, NextWorkers
<1> QED BY <1>1, <1>3, PassEndsServed DEF Steps, WorkerSteps, Holding

LEMMA ReentersServed ==
  ASSUME TypesAndControl, Served, NEW c \in Callers, Reenters(c)
  PROVE  Served'
<1>1. lock = None /\ lock' = c /\ Goto(c, "reentrant")
  BY DEF Reenters
<1>2. /\ pc'[c] = "reentrant"
      /\ \A d \in Callers \ {c} : pc'[d] = pc[d] /\ pc[d] \notin Holding
  BY <1>1, FacilityAssumption DEF Goto, TypesAndControl, TypeOK, Served, LockHeld
<1> QED BY <1>1, <1>2, FacilityAssumption
        DEF Served, LockHeld, WorkConserved, DispatchServes, WorkerServes, Holding

\* The operations of a handle and the end of a dispatch unlink one Task at most.
LEMMA HandleServed ==
  ASSUME TypesAndControl, TypesAndControl', Safe, Served, NEW h \in handles,
         Cancel(h) \/ ReleaseOwner(h) \/ TakeResult(h)
  PROVE  Served'
<1>1. UNCHANGED <<lock, idle, pc, call>> /\ lock = None
  BY DEF Cancel, ReleaseOwner, TakeResult
<1>2. queue = <<>> => queue' = <<>>
  <2>1. \A r \in Records : queue = <<>> => Without(queue, r) = <<>>
    BY DEF Without
  <2>2. h.rec \in Records
    BY HandleOwns DEF Binding
  <2> QED BY <2>1, <2>2 DEF Cancel, ReleaseOwner, TakeResult, Relinquish
<1> QED BY <1>1, <1>2, OutsideServed

\* A dispatch that gives its Task up outside its pass.
LEMMA WithdrawServed ==
  ASSUME TypesAndControl, TypesAndControl', Safe, Served, NEW c \in Callers,
         GrantRegisters(c) \/ GrantGivesUp(c)
  PROVE  Served'
<1>1. /\ UNCHANGED <<lock, idle>> /\ lock = None
      /\ pc[c] \in GrantSteps /\ pc[c] \notin Holding
  BY DEF GrantRegisters, GrantGivesUp, GrantSteps, Holding
<1>2. call[c].task \in Binding /\ Pinned(call[c].task)
  BY <1>1, InFlightOwns
<1>3. \A ws : Relinquish(call[c].task, ws, {}) => (queue = <<>> => queue' = <<>>)
  BY <1>2, WithoutServed
<1>4. queue' = queue \/ (queue = <<>> => queue' = <<>>)
  BY <1>3 DEF GrantRegisters, GrantGivesUp
<1>5. \/ Return(c)
      \/ /\ \E step \in Steps \ Holding : Goto(c, step)
         /\ \A d \in Callers \ {c} : call'[d] = call[d]
  BY DEF GrantRegisters, GrantGivesUp, ReturnHandle, Steps, DispatchSteps, Holding
<1> QED BY <1>1, <1>4, <1>5, QuietServed

LEMMA ProceedServed ==
  ASSUME TypesAndControl, TypesAndControl', Safe, Served, NEW c \in Callers, Proceed(c)
  PROVE  Served'
<1> USE DEF facilityVars, Holding, Steps, DispatchSteps, WaitSteps
<1>1. CASE Grant(c) \/ Admit(c) \/ Reenters(c)
  BY <1>1, GrantServed, AdmitServed, ReentersServed
<1>2. CASE DispatchWithdraws(c) \/ DispatchReturnsTask(c) \/ DispatchAwaitsGrant(c)
  BY <1>2, DispatchEndsServed
<1>3. CASE GrantRegisters(c) \/ GrantGivesUp(c)
  BY <1>3, WithdrawServed
<1>4. CASE DispatchWithoutCapacity(c) \/ DispatchUnavailable(c)
  BY <1>4, QuietServed DEF DispatchWithoutCapacity, DispatchUnavailable
<1>5. CASE AdmissionRegisters(c)
  BY <1>5, QuietServed DEF AdmissionRegisters
<1>6. CASE AdmissionWakes(c) \/ AdmissionExpires(c)
  BY <1>6, QuietServed DEF AdmissionWakes, AdmissionExpires
<1>7. CASE AdmissionRechecks(c)
  BY <1>7, QuietServed DEF AdmissionRechecks
<1>8. CASE GrantWakes(c) \/ GrantSucceeds(c) \/ GrantSleepsAgain(c)
  BY <1>8, QuietServed DEF GrantWakes, GrantSucceeds, ReturnHandle, GrantSleepsAgain
<1>9. CASE WaitRegisters(c) \/ WaitLeaves(c)
  BY <1>9, QuietServed DEF WaitRegisters, WaitLeaves
<1>10. CASE WaitWakes(c) \/ WaitRechecks(c) \/ WaitSettles(c)
  BY <1>10, QuietServed DEF WaitWakes, WaitRechecks, WaitSettles
<1> QED BY <1>1, <1>2, <1>3, <1>4, <1>5, <1>6, <1>7, <1>8, <1>9, <1>10 DEF Proceed

LEMMA WorkServed ==
  ASSUME TypesAndControl, Served, NEW w \in Workers, Work(w)
  PROVE  Served'
<1> USE DEF facilityVars, Holding, Steps, WorkerSteps
<1>0. w \in Callers
  BY DEF Callers, Contexts
<1>1. CASE WorkerBecameAvailable(w) \/ CompleteWorkerTask(w) \/ RescheduleEnds(w)
  BY <1>1, PublishedServed, RescheduleEndsServed
<1>2. CASE WorkerReadsLifecycle(w) \/ WorkerClaims(w) \/ WorkerWakes(w) \/ TaskReturns(w)
  BY <1>0, <1>2, QuietServed
     DEF WorkerReadsLifecycle, WorkerClaims, WorkerWakes, TaskReturns
<1> QED BY <1>1, <1>2 DEF Work

LEMMA NextServed ==
  ASSUME TypesAndControl, TypesAndControl', Safe, Served, [Next]_vars
  PROVE  Served'
<1> USE DEF facilityVars
<1>1. ASSUME NEW h \in handles, Cancel(h) \/ ReleaseOwner(h) \/ TakeResult(h)
      PROVE  Served'
  BY <1>1, HandleServed
<1>2. ASSUME NEW c \in Callers, NEW policy, BeginDispatch(c, policy) PROVE Served'
  <2>1. \A d \in Callers \ {c} : call'[d] = call[d]
    BY <1>2 DEF BeginDispatch, TypesAndControl, TypeOK
  <2> QED BY <1>2, <2>1, QuietServed DEF BeginDispatch, InUserCode, Holding, Steps, DispatchSteps
<1>3. ASSUME NEW c \in Contexts, NEW h, NEW policy, BeginWait(c, h, policy) PROVE Served'
  <2>1. c \in Callers /\ \A d \in Callers \ {c} : call'[d] = call[d]
    BY <1>3 DEF BeginWait, TypesAndControl, TypeOK, Callers
  <2> QED BY <1>3, <2>1, QuietServed DEF BeginWait, InUserCode, Holding, Steps, WaitSteps
<1>4. ASSUME NEW c \in Clients, ClientFinishes(c) PROVE Served'
  <2>1. c \in Callers
    BY DEF Callers, Contexts
  <2> QED BY <1>4, <2>1, QuietServed DEF ClientFinishes, Holding, Steps, ClientSteps
<1>5. ASSUME NEW c \in Clients, RequestStop(c) PROVE Served'
  BY <1>5, OutsideServed DEF RequestStop
<1>6. CASE BeginShutdown \/ ShutdownStep
  BY <1>6, OutsideServed
     DEF BeginShutdown, ShutdownStep, BeginShutdownCancellation, FacilityIsQuiescent,
         TopologyIsQuiescent, FinalizeShutdown
<1>7. CASE UNCHANGED vars
  BY <1>7, OutsideServed DEF vars
<1> QED BY <1>1, <1>2, <1>3, <1>4, <1>5, <1>6, <1>7, ProceedServed, WorkServed
        DEF Next, Request

\* Outside a critical section no Task is queued beside an available Worker, whichever
\* wakes fail and whoever cancels, releases or withdraws Tasks meanwhile.
THEOREM ConservationCorrect == Spec => []WorkConserved
<1>1. Init => Served
  <2> SUFFICES ASSUME Init PROVE Served
    OBVIOUS
  <2>1. \A c \in Callers : pc[c] \in {"boot", "ready"} /\ lock # c
    BY FacilityAssumption DEF Init
  <2> QED BY <2>1 DEF Init, Served, LockHeld, WorkConserved, DispatchServes, WorkerServes, Holding
<1>2. IInv => TypesAndControl /\ Safe
  BY DEF IInv, TypesAndControl, Safe
<1>3. IInv /\ IInv' /\ Served /\ [Next]_vars => Served'
  BY <1>2, NextServed DEF IInv, TypesAndControl
<1>4. Served => WorkConserved
  BY DEF Served
<1> QED BY <1>1, <1>3, <1>4, InvariantHolds, PTL DEF Spec
=============================================================================
