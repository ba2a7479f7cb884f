--------------------------- MODULE TaskPoolProofs ---------------------------
(***************************************************************************)
(* The Task facility implements the Task pool that its users see, for      *)
(* every number of records, Workers and callers: whatever races, Tasks are *)
(* granted in the order of their admission, each to a Worker without one,  *)
(* end once, and leave their record when nobody holds their handle.        *)
(***************************************************************************)
EXTENDS TaskFacilitySafetyProofs

-----------------------------------------------------------------------------
(* The FIFO as an order.                                                   *)

\* p is linked in the FIFO s before q.
Before(p, q, s) == \E i, j \in DOMAIN s : i < j /\ s[i] = p /\ s[j] = q

\* A record that is linked last is behind all the others.
LEMMA AppendOrder ==
  ASSUME NEW s \in Seq(Records), NEW r \in Records
  PROVE  \A p, q \in Records :
            Before(p, q, Append(s, r)) <=> Before(p, q, s) \/ (q = r /\ In(p, s))
<1> DEFINE t == Append(s, r)
<1>1. /\ DOMAIN t = 1 .. Len(s) + 1 /\ DOMAIN s = 1 .. Len(s) /\ Len(s) \in Nat
      /\ t[Len(s) + 1] = r /\ \A i \in 1 .. Len(s) : t[i] = s[i]
  OBVIOUS
<1> HIDE DEF t
<1>2. ASSUME NEW p \in Records, NEW q \in Records, Before(p, q, t)
      PROVE  Before(p, q, s) \/ (q = r /\ In(p, s))
  <2>1. PICK i \in DOMAIN t, j \in DOMAIN t : i < j /\ t[i] = p /\ t[j] = q
    BY <1>2 DEF Before
  <2>2. i \in DOMAIN s /\ s[i] = p
    BY <1>1, <2>1
  <2>3. CASE j = Len(s) + 1
    BY <1>1, <2>1, <2>2, <2>3 DEF In
  <2>4. CASE j # Len(s) + 1
    <3>1. j \in DOMAIN s /\ s[j] = q
      BY <1>1, <2>1, <2>4
    <3> QED BY <2>1, <2>2, <3>1 DEF Before
  <2> QED BY <2>3, <2>4
<1>3. ASSUME NEW p \in Records, NEW q \in Records, Before(p, q, s) PROVE Before(p, q, t)
  BY <1>1, <1>3 DEF Before
<1>4. ASSUME NEW p \in Records, In(p, s) PROVE Before(p, r, t)
  <2>1. PICK i \in DOMAIN s : s[i] = p
    BY <1>4 DEF In
  <2>2. i \in DOMAIN t /\ Len(s) + 1 \in DOMAIN t /\ i < Len(s) + 1 /\ t[i] = p
    BY <1>1, <2>1
  <2> QED BY <1>1, <2>2 DEF Before
<1> QED BY <1>2, <1>3, <1>4 DEF t

\* Nothing is before the head, and unlinking it leaves the order of the others.
LEMMA TailOrder ==
  ASSUME NEW s \in Seq(Records), s # <<>>, Injective(s)
  PROVE  /\ \A p \in Records : ~Before(p, Head(s), s)
         /\ \A p, q \in Records :
               Before(p, q, Tail(s)) <=> Before(p, q, s) /\ p # Head(s)
<1> DEFINE t == Tail(s)
<1>1. /\ Len(s) \in Nat \ {0} /\ DOMAIN s = 1 .. Len(s) /\ DOMAIN t = 1 .. Len(s) - 1
      /\ Head(s) = s[1] /\ \A i \in 1 .. Len(s) - 1 : t[i] = s[i + 1]
  OBVIOUS
<1> HIDE DEF t
<1>2. \A i \in DOMAIN s : s[i] = Head(s) => i = 1
  <2>1. 1 \in DOMAIN s
    BY <1>1
  <2> QED BY <1>1, <2>1 DEF Injective
<1>3. ASSUME NEW p \in Records PROVE ~Before(p, Head(s), s)
  BY <1>1, <1>2 DEF Before
<1>4. ASSUME NEW p \in Records, NEW q \in Records, Before(p, q, t)
      PROVE  Before(p, q, s) /\ p # Head(s)
  <2>1. PICK i \in DOMAIN t, j \in DOMAIN t : i < j /\ t[i] = p /\ t[j] = q
    BY <1>4 DEF Before
  <2>2. /\ i + 1 \in DOMAIN s /\ j + 1 \in DOMAIN s /\ i + 1 < j + 1 /\ i + 1 # 1
        /\ s[i + 1] = p /\ s[j + 1] = q
    BY <1>1, <2>1
  <2> QED BY <1>2, <2>2 DEF Before
<1>5. ASSUME NEW p \in Records, NEW q \in Records, Before(p, q, s), p # Head(s)
      PROVE  Before(p, q, t)
  <2>1. PICK i \in DOMAIN s, j \in DOMAIN s : i < j /\ s[i] = p /\ s[j] = q
    BY <1>5 DEF Before
  <2>2. i # 1
    BY <1>1, <1>5, <2>1
  <2>3. /\ i - 1 \in DOMAIN t /\ j - 1 \in DOMAIN t /\ i - 1 < j - 1
        /\ t[i - 1] = p /\ t[j - 1] = q
    BY <1>1, <2>1, <2>2
  <2> QED BY <2>3 DEF Before
<1> QED BY <1>3, <1>4, <1>5 DEF t

\* Unlinking a record from the middle leaves the order of the others.
LEMMA WithoutOrder ==
  ASSUME NEW s \in Seq(Records), NEW r \in Records, Injective(s)
  PROVE  \A p, q \in Records :
            Before(p, q, Without(s, r)) <=> Before(p, q, s) /\ p # r /\ q # r
<1>1. CASE ~In(r, s)
  BY <1>1 DEF Without, In, Before
<1>2. CASE In(r, s)
  <2> DEFINE k == CHOOSE i \in DOMAIN s : s[i] = r
             t == [i \in 1 .. Len(s) - 1 |-> IF i < k THEN s[i] ELSE s[i + 1]]
  <2>1. Without(s, r) = t
    BY <1>2 DEF Without, In
  <2>2. k \in DOMAIN s /\ s[k] = r
    BY <1>2 DEF In
  <2>3. DOMAIN s = 1 .. Len(s) /\ Len(s) \in Nat
    OBVIOUS
  <2> HIDE DEF k
  <2>4. /\ DOMAIN t = 1 .. Len(s) - 1
        /\ \A i \in 1 .. Len(s) - 1 : t[i] = IF i < k THEN s[i] ELSE s[i + 1]
    OBVIOUS
  <2> HIDE DEF t
  <2>5. \A i \in DOMAIN s : s[i] = r => i = k
    BY <2>2 DEF Injective
  <2>6. ASSUME NEW p \in Records, NEW q \in Records, Before(p, q, t)
        PROVE  Before(p, q, s) /\ p # r /\ q # r
    <3>1. PICK i \in DOMAIN t, j \in DOMAIN t : i < j /\ t[i] = p /\ t[j] = q
      BY <2>6 DEF Before
    <3> DEFINE m == IF i < k THEN i ELSE i + 1
               n == IF j < k THEN j ELSE j + 1
    <3>2. /\ m \in DOMAIN s /\ n \in DOMAIN s /\ m < n /\ m # k /\ n # k
          /\ s[m] = p /\ s[n] = q
      BY <2>2, <2>3, <2>4, <3>1
    <3> QED BY <2>5, <3>2 DEF Before
  <2>7. ASSUME NEW p \in Records, NEW q \in Records, Before(p, q, s), p # r, q # r
        PROVE  Before(p, q, t)
    <3>1. PICK i \in DOMAIN s, j \in DOMAIN s : i < j /\ s[i] = p /\ s[j] = q
      BY <2>7 DEF Before
    <3> DEFINE m == IF i < k THEN i ELSE i - 1
               n == IF j < k THEN j ELSE j - 1
    <3>2. i # k /\ j # k /\ k \in 1 .. Len(s)
      BY <2>2, <2>3, <2>7, <3>1
    <3>3. m \in DOMAIN t /\ n \in DOMAIN t /\ m < n /\ t[m] = p /\ t[n] = q
      BY <2>3, <2>4, <3>1, <3>2
    <3> QED BY <3>3 DEF Before
  <2> QED BY <2>1, <2>6, <2>7
<1> QED BY <1>1, <1>2

-----------------------------------------------------------------------------
(* What the users see of a step.                                           *)

WorkerOf(r) == IF record[r].state \in Executing THEN record[r].worker ELSE None

OwnedRecords == {r \in Records : record[r].owner}

\* The users see no difference at record r.
SameTask(r) == /\ StatusOf(r)' = StatusOf(r) /\ WorkerOf(r)' = WorkerOf(r)
               /\ record'[r].owner = record[r].owner

LEMMA SameRecord ==
  ASSUME NEW r \in Records, record'[r].state = record[r].state,
         record'[r].worker = record[r].worker, record'[r].owner = record[r].owner,
         r \in available' <=> r \in available
  PROVE  SameTask(r)
BY DEF SameTask, StatusOf, WorkerOf

LEMMA StatusBecomes ==
  ASSUME NEW s \in Records, NEW x, StatusOf(s)' = x,
         \A r \in Records \ {s} : StatusOf(r)' = StatusOf(r)
  PROVE  Pool!Becomes(s, x)
BY DEF Pool!Becomes

LEMMA SameQueue ==
  ASSUME queue' = queue
  PROVE  \A r \in Records : AheadOf(r)' = AheadOf(r)
BY DEF AheadOf

\* A step that the users do not see.
LEMMA Unseen ==
  ASSUME \A r \in Records : SameTask(r), queue' = queue
  PROVE  UNCHANGED Pool!poolVars
<1>1. \A r \in Records : AheadOf(r)' = AheadOf(r)
  BY SameQueue
<1> QED BY <1>1 DEF Pool!poolVars, SameTask, WorkerOf

\* Who is before whom, once record s has left the FIFO.
LEMMA QueueLeft ==
  ASSUME NEW s \in Records,
         \A p, q \in Records : Before(p, q, queue') <=> Before(p, q, queue) /\ p # s /\ q # s
  PROVE  Pool!LeavesQueue(s)
<1>1. ASSUME NEW q \in Records
      PROVE  AheadOf(q)' = IF q = s THEN {} ELSE AheadOf(q) \ {s}
  <2>1. AheadOf(q) = {p \in Records : Before(p, q, queue)}
    BY DEF AheadOf, Before
  <2>2. AheadOf(q)' = {p \in Records : Before(p, q, queue')}
    BY DEF AheadOf, Before
  <2> QED BY <2>1, <2>2
<1> QED BY <1>1 DEF Pool!LeavesQueue

\* One step of a Task that is not queued.
LEMMA OneTaskSeen ==
  ASSUME NEW s \in Records, \A r \in Records \ {s} : SameTask(r), queue' = queue
  PROVE  /\ [r \in Records |-> AheadOf(r)]' = [r \in Records |-> AheadOf(r)]
         /\ record'[s].owner = record[s].owner => OwnedRecords' = OwnedRecords
         /\ WorkerOf(s)' = WorkerOf(s) =>
               [r \in Records |-> WorkerOf(r)]' = [r \in Records |-> WorkerOf(r)]
         /\ Pool!Becomes(s, StatusOf(s)')
<1>1. \A r \in Records : AheadOf(r)' = AheadOf(r)
  BY SameQueue
<1>2. Pool!Becomes(s, StatusOf(s)')
  BY StatusBecomes DEF SameTask
<1> QED BY <1>1, <1>2 DEF SameTask, OwnedRecords

\* The common tail of a critical section, as the users see it: the Task takes its next
\* state, or leaves its record when it has ended and nobody owns it.
LEMMA UpdateSeen ==
  ASSUME TypeOK, NEW b \in Binding, Pinned(b), NEW x \in TaskRecord, NEW ws, NEW targets,
         UpdateAndReclaim(b, x, ws, targets)
  PROVE  /\ b.rec \in Records /\ StatusOf(b.rec) = record[b.rec].state
         /\ \A r \in Records \ {b.rec} : SameTask(r)
         /\ record'[b.rec].owner = x.owner
         /\ \/ StatusOf(b.rec)' = x.state
            \/ x.state \in Terminal /\ ~x.owner /\ StatusOf(b.rec)' = "Free"
         /\ WorkerOf(b.rec)' = IF x.state \in Executing THEN x.worker ELSE None
<1> DEFINE r0 == b.rec
           free == Reclaimable(b, x, ws)
<1>1. r0 \in Records /\ r0 \notin available
  BY DEF Binding, Pinned, Allocated
<1>2. /\ record'[r0].state = x.state /\ record'[r0].owner = x.owner
      /\ x.state \in Executing => record'[r0].worker = x.worker
      /\ \A r \in Records \ {r0} : record'[r] = record[r]
      /\ available' = IF free THEN available \cup {r0} ELSE available
  BY <1>1 DEF UpdateAndReclaim, TypeOK, TaskRecord, Reclaimable, Executing, Terminal
<1>3. free => x.state \in Terminal /\ ~x.owner
  BY DEF Reclaimable
<1> HIDE DEF free
<1>4. \A r \in Records \ {r0} : SameTask(r)
  BY <1>1, <1>2, SameRecord
<1> QED BY <1>1, <1>2, <1>3, <1>4 DEF StatusOf, WorkerOf

\* Unlinking a Task that was queued, or leaving the FIFO alone, is what the pool does.
LEMMA UnlinkSeen ==
  ASSUME TypeOK, QueueHoldsQueuedTasks, NEW s \in Records,
         queue' = Without(queue, s)
  PROVE  Pool!LeavesQueue(s)
<1>1. queue \in Seq(Records) /\ Injective(queue)
  BY DEF TypeOK, QueueHoldsQueuedTasks, Injective
<1> QED BY <1>1, WithoutOrder, QueueLeft

\* Whoever gives up the last ownership of a Task disowns it in the pool.
LEMMA RelinquishSeen ==
  ASSUME TypesAndControl, Safe, NEW b \in Binding, Pinned(b), record[b.rec].owner,
         NEW ws, NEW contexts, Relinquish(b, ws, contexts)
  PROVE  Pool!Disown(b.rec)
<1> DEFINE r0 == b.rec
           x == record[r0]
           y == Released(x)
           targets == {c \in contexts : IsCurrentIncarnation(b) /\ x.state = "Queued"}
<1>1. /\ IsCurrentIncarnation(b) /\ r0 \in Records /\ x \in TaskRecord /\ TypeOK
      /\ x.state \in Executing => x.worker \in Workers
  BY DEF Pinned, Binding, TypesAndControl, TypeOK, ExecutingHaveWorker
<1>2. y \in TaskRecord
  <2>1. PICK w \in Workers : TRUE
    BY FacilityAssumption
  <2> QED BY <1>1, <2>1, TransitionTypes
<1>3. /\ y.owner = FALSE
      /\ x.state \in Executing => y.state = x.state /\ y.worker = x.worker
      /\ x.state = "Queued" => y.state = "Cancelled"
      /\ x.state \in Terminal => y.state = x.state
      /\ x.state \in {"Queued"} \cup Executing \cup Terminal
  BY <1>1 DEF Released, Abandoned, TaskRecord, TaskStates, Executing, Terminal
<1>4. UpdateAndReclaim(b, y, ws, targets)
  BY <1>1 DEF Relinquish
<1>5. queue' = IF x.state = "Queued" THEN Without(queue, r0) ELSE queue
  BY <1>1 DEF Relinquish
<1>y. y \in TaskRecord
  BY <1>2
<1> HIDE DEF y, targets
<1>6. /\ StatusOf(r0) = x.state
      /\ \A r \in Records \ {r0} : SameTask(r)
      /\ record'[r0].owner = y.owner
      /\ \/ StatusOf(r0)' = y.state
         \/ y.state \in Terminal /\ ~y.owner /\ StatusOf(r0)' = "Free"
      /\ WorkerOf(r0)' = IF y.state \in Executing THEN y.worker ELSE None
  BY <1>1, <1>2, <1>4, UpdateSeen
<1>7. WorkerOf(r0)' = WorkerOf(r0)
  BY <1>3, <1>6 DEF WorkerOf, Executing, Terminal
<1>8. [r \in Records |-> WorkerOf(r)]' = [r \in Records |-> WorkerOf(r)]
  BY <1>6, <1>7 DEF SameTask
<1>9. r0 \in OwnedRecords /\ OwnedRecords' = OwnedRecords \ {r0}
  BY <1>1, <1>3, <1>6 DEF OwnedRecords, SameTask
<1>10. Pool!Becomes(r0, StatusOf(r0)')
  BY <1>1, <1>6, StatusBecomes DEF SameTask
<1>11. CASE x.state = "Queued"
  <2>1. Pool!LeavesQueue(r0)
    BY <1>1, <1>5, <1>11, UnlinkSeen DEF Safe
  <2>2. Pool!Ends(r0, "Cancelled", OwnedRecords')
    BY <1>3, <1>6, <1>9, <1>10, <1>11 DEF Pool!Ends
  <2> QED BY <1>1, <1>6, <1>8, <1>9, <1>11, <2>1, <2>2
          DEF Pool!Disown, OwnedRecords, WorkerOf
<1>12. CASE x.state \in Executing
  <2>1. [r \in Records |-> AheadOf(r)]' = [r \in Records |-> AheadOf(r)]
    BY <1>1, <1>5, <1>6, <1>12, OneTaskSeen DEF Executing
  <2>2. \A r \in Records : StatusOf(r)' = StatusOf(r)
    BY <1>3, <1>6, <1>12 DEF SameTask, Executing, Terminal
  <2> QED BY <1>1, <1>6, <1>8, <1>9, <1>12, <2>1, <2>2
          DEF Pool!Disown, Pool!Executing, OwnedRecords, WorkerOf, Executing
<1>13. CASE x.state \in Terminal
  <2>1. [r \in Records |-> AheadOf(r)]' = [r \in Records |-> AheadOf(r)]
    BY <1>1, <1>5, <1>6, <1>13, OneTaskSeen DEF Terminal
  <2>2. Pool!Ends(r0, x.state, OwnedRecords')
    BY <1>3, <1>6, <1>9, <1>10, <1>13 DEF Pool!Ends
  <2> QED BY <1>1, <1>6, <1>8, <1>9, <1>13, <2>1, <2>2
          DEF Pool!Disown, Pool!Finished, OwnedRecords, WorkerOf, Terminal
<1> QED BY <1>3, <1>11, <1>12, <1>13

-----------------------------------------------------------------------------
(* The steps that create, grant and finish Tasks.                          *)

LEMMA AdmitSeen ==
  ASSUME TypesAndControl, Safe, NEW c \in Callers, Admit(c)
  PROVE  \E r \in Records : Pool!Admit(r)
<1>1. PICK r0 \in available :
        /\ available' = available \ {r0}
        /\ record' = [record EXCEPT ![r0] = Initialized(@)]
        /\ queue' = Append(queue, r0)
  BY DEF Admit
<1>2. /\ r0 \in Records /\ queue \in Seq(Records)
      /\ record'[r0].state = "Queued" /\ record'[r0].owner = TRUE
      /\ \A r \in Records \ {r0} : record'[r] = record[r]
  BY <1>1 DEF TypesAndControl, TypeOK, Initialized
<1>3. \A r \in Records \ {r0} : SameTask(r)
  BY <1>1, <1>2, SameRecord
<1>4. StatusOf(r0) = "Free" /\ StatusOf(r0)' = "Queued"
  BY <1>1, <1>2 DEF StatusOf
<1>5. WorkerOf(r0)' = WorkerOf(r0)
  <2>1. record[r0].state \notin Executing
    BY <1>1, <1>2 DEF Safe, GrantsAreExclusive, Allocated
  <2> QED BY <1>2, <2>1 DEF WorkerOf, Executing
<1>6. \A p \in Records : In(p, queue) <=> StatusOf(p) = "Queued"
  BY DEF Safe, QueueHoldsQueuedTasks, Queued, Allocated, StatusOf, In
<1>7. \A p, q \in Records :
         Before(p, q, queue') <=> Before(p, q, queue) \/ (q = r0 /\ In(p, queue))
  BY <1>1, <1>2, AppendOrder
<1>8. ASSUME NEW q \in Records
      PROVE  AheadOf(q)' = IF q = r0 THEN {p \in Records : StatusOf(p) = "Queued"}
                                     ELSE AheadOf(q)
  <2>1. AheadOf(q) = {p \in Records : Before(p, q, queue)}
    BY DEF AheadOf, Before
  <2>2. AheadOf(q)' = {p \in Records : Before(p, q, queue')}
    BY DEF AheadOf, Before
  <2>3. q = r0 => \A p \in Records : ~Before(p, q, queue)
    BY <1>4, <1>6 DEF Before, In
  <2> QED BY <1>6, <1>7, <2>1, <2>2, <2>3
<1>9. OwnedRecords' = OwnedRecords \cup {r0}
  BY <1>2, <1>3 DEF OwnedRecords, SameTask
<1>10. [r \in Records |-> WorkerOf(r)]' = [r \in Records |-> WorkerOf(r)]
  BY <1>3, <1>5 DEF SameTask
<1>11. Pool!Becomes(r0, "Queued")
  BY <1>2, <1>3, <1>4, StatusBecomes DEF SameTask
<1>12. [r \in Records |-> AheadOf(r)]' =
         [[r \in Records |-> AheadOf(r)] EXCEPT ![r0] =
            {p \in Records : [r \in Records |-> StatusOf(r)][p] = "Queued"}]
  BY <1>2, <1>8
<1> QED BY <1>2, <1>4, <1>9, <1>10, <1>11, <1>12 DEF Pool!Admit, OwnedRecords, WorkerOf

\* The head of the FIFO has no queued Task ahead of it, and the Worker that was available
\* has no other Task.
LEMMA GrantSeen ==
  ASSUME TypesAndControl, Safe, NEW c \in Callers, Grant(c)
  PROVE  \E r \in Records, w \in Workers : Pool!Start(r, w)
<1>0. PICK r0 : r0 = Head(queue)
  OBVIOUS
<1>1. /\ queue \in Seq(Records) /\ queue # <<>> /\ Injective(queue)
      /\ \A r \in Records : Queued(r) <=> In(r, queue)
  BY DEF Safe, TypesAndControl, TypeOK, Grant, QueueHoldsQueuedTasks, Injective, In
<1>2. /\ r0 \in Records /\ Queued(r0)
      /\ \A p \in Records : ~Before(p, r0, queue)
      /\ \A p, q \in Records : Before(p, q, Tail(queue)) <=> Before(p, q, queue) /\ p # r0
  BY <1>0, <1>1, TailElements, TailOrder
<1>3. PICK w \in idle : record' = [record EXCEPT ![r0] = Claimed(@, w)]
  BY <1>0 DEF Grant, NextWorkers, TryClaim
<1>4. /\ w \in Workers
      /\ record'[r0].state = "Running" /\ record'[r0].worker = w
      /\ record'[r0].owner = record[r0].owner
      /\ \A r \in Records \ {r0} : record'[r] = record[r]
  BY <1>2, <1>3 DEF TypesAndControl, TypeOK, TaskRecord, Claimed
<1>5. queue' = Tail(queue) /\ available' = available
  BY DEF Grant
<1>6. \A r \in Records \ {r0} : SameTask(r)
  BY <1>4, <1>5, SameRecord
<1>7. StatusOf(r0) = "Queued" /\ StatusOf(r0)' = "Running"
  BY <1>2, <1>4, <1>5 DEF StatusOf, Queued, Allocated
<1>8. WorkerOf(r0)' = w
  BY <1>4 DEF WorkerOf, Executing
<1>9. \A q \in Records : WorkerOf(q) # w
  <2>1. w # None
    BY <1>4, FacilityAssumption DEF Callers, Contexts
  <2> QED BY <1>3, <2>1 DEF WorkerOf, Safe, GrantsAreExclusive
<1>10. AheadOf(r0) = {}
  BY <1>2 DEF AheadOf, Before
<1>11. Pool!LeavesQueue(r0)
  <2>1. \A p, q \in Records :
           Before(p, q, queue') <=> Before(p, q, queue) /\ p # r0 /\ q # r0
    BY <1>2, <1>5
  <2> QED BY <1>2, <2>1, QueueLeft
<1>12. Pool!Becomes(r0, "Running")
  BY <1>2, <1>6, <1>7, StatusBecomes DEF SameTask
<1>13. [r \in Records |-> WorkerOf(r)]' = [[r \in Records |-> WorkerOf(r)] EXCEPT ![r0] = w]
  BY <1>2, <1>6, <1>8 DEF SameTask
<1>14. OwnedRecords' = OwnedRecords
  BY <1>4, <1>6 DEF OwnedRecords, SameTask
<1> QED BY <1>2, <1>4, <1>7, <1>9, <1>10, <1>11, <1>12, <1>13, <1>14
        DEF Pool!Start, OwnedRecords, WorkerOf

LEMMA CompleteSeen ==
  ASSUME TypesAndControl, Safe, NEW w \in Workers, CompleteWorkerTask(w)
  PROVE  \E r \in Records : Pool!Finish(r)
<1>0. PICK b, r0, x, y : /\ b = running[w] /\ r0 = b.rec /\ x = record[r0]
                         /\ y = Published(x, pc[w])
  OBVIOUS
<1>1. b \in Binding /\ b # NoBinding /\ r0 \in Records /\ TypeOK
  BY <1>0, FacilityAssumption
     DEF CompleteWorkerTask, TypesAndControl, ControlOK, BetweenTasks, Binding, NoBinding
<1>2. Pinned(b) /\ IsCurrentIncarnation(b) /\ AssignedTo(w, r0)
  BY <1>0, <1>1 DEF Safe, GrantsAreExclusive, InterestsPinRecord
<1>3. x \in TaskRecord /\ x.state \in Executing /\ (x.state \in Executing => x.worker \in Workers)
  BY <1>0, <1>1, <1>2 DEF TypeOK, AssignedTo, TypesAndControl, ExecutingHaveWorker
<1>4. y \in TaskRecord
  <2>1. pc[w] \in {"completed", "cancelled"}
    BY DEF CompleteWorkerTask
  <2> QED BY <1>0, <1>3, <2>1, TransitionTypes
<1>5. y.state \in Terminal /\ y.owner = x.owner
  BY <1>0, <1>3 DEF Published, Terminal, TaskRecord
<1>6. UpdateAndReclaim(b, y, waiters, WaitersOn(b)) /\ queue' = queue
  BY <1>0, <1>2 DEF CompleteWorkerTask
<1>7. /\ StatusOf(r0) = x.state
      /\ \A r \in Records \ {r0} : SameTask(r)
      /\ record'[r0].owner = y.owner
      /\ \/ StatusOf(r0)' = y.state
         \/ y.state \in Terminal /\ ~y.owner /\ StatusOf(r0)' = "Free"
      /\ WorkerOf(r0)' = IF y.state \in Executing THEN y.worker ELSE None
  BY <1>0, <1>1, <1>2, <1>4, <1>6, UpdateSeen
<1>8. /\ [r \in Records |-> AheadOf(r)]' = [r \in Records |-> AheadOf(r)]
      /\ OwnedRecords' = OwnedRecords
      /\ Pool!Becomes(r0, StatusOf(r0)')
  BY <1>0, <1>1, <1>5, <1>6, <1>7, OneTaskSeen
<1>9. \E z \in Pool!Finished : Pool!Ends(r0, z, OwnedRecords)
  BY <1>1, <1>5, <1>7, <1>8 DEF Pool!Ends, Pool!Finished, Terminal, OwnedRecords
<1>10. WorkerOf(r0)' = None
  BY <1>5, <1>7 DEF Executing, Terminal
<1>11. [r \in Records |-> WorkerOf(r)]' = [[r \in Records |-> WorkerOf(r)] EXCEPT ![r0] = None]
  BY <1>1, <1>7, <1>10 DEF SameTask
<1> QED BY <1>1, <1>3, <1>7, <1>8, <1>9, <1>11
        DEF Pool!Finish, Pool!Executing, OwnedRecords, WorkerOf, Executing

LEMMA CancelAllSeen ==
  ASSUME TypesAndControl, Safe, BeginShutdownCancellation
  PROVE  Pool!CancelAll
<1>1. /\ record' = [r \in Records |-> IF r \in available THEN record[r] ELSE Cancelled(record[r])]
      /\ queue' = <<>> /\ available' = available
  BY DEF BeginShutdownCancellation
<1>2. ASSUME NEW r \in Records
      PROVE  /\ StatusOf(r)' = CASE StatusOf(r) = "Queued"  -> "Cancelled"
                                 [] StatusOf(r) = "Running" -> "RunningCancelRequested"
                                 [] OTHER -> StatusOf(r)
             /\ WorkerOf(r)' = WorkerOf(r) /\ record'[r].owner = record[r].owner
  <2>1. record[r] \in TaskRecord
    BY DEF TypesAndControl, TypeOK
  <2>2. CASE r \in available
    BY <1>1, <2>1, <2>2 DEF StatusOf, WorkerOf
  <2>3. CASE r \notin available
    BY <1>1, <2>1, <2>3
       DEF StatusOf, WorkerOf, Cancelled, Abandoned, TaskRecord, TaskStates, Executing
  <2> QED BY <2>2, <2>3
<1>3. \A r \in Records : AheadOf(r)' = {}
  BY <1>1 DEF AheadOf
<1>4. OwnedRecords' = OwnedRecords
  BY <1>2 DEF OwnedRecords
<1>5. [r \in Records |-> WorkerOf(r)]' = [r \in Records |-> WorkerOf(r)]
  BY <1>2
<1> QED BY <1>2, <1>3, <1>4, <1>5 DEF Pool!CancelAll, OwnedRecords, WorkerOf

-----------------------------------------------------------------------------
(* The operations of a handle, and the end of a wait.                      *)

LEMMA CancelSeen ==
  ASSUME TypesAndControl, Safe, NEW h \in handles, Cancel(h)
  PROVE  \/ \E r \in Records : Pool!CancelQueued(r) \/ Pool!RequestCancel(r)
         \/ UNCHANGED Pool!poolVars
<1>0. PICK b, r0, x, y : b = h /\ r0 = b.rec /\ x = record[r0] /\ y = Cancelled(x)
  OBVIOUS
<1>1. /\ b \in Binding /\ r0 \in Records /\ Pinned(b) /\ IsCurrentIncarnation(b)
      /\ x \in TaskRecord /\ x.owner = TRUE /\ TypeOK
      /\ (x.state \in Executing => x.worker \in Workers)
  BY <1>0, HandleOwns DEF TypesAndControl
<1>2. y \in TaskRecord
  <2>1. PICK w \in Workers : TRUE
    BY FacilityAssumption
  <2> QED BY <1>0, <1>1, <2>1, TransitionTypes
<1>3. /\ y.owner = TRUE
      /\ x.state \in Executing => y.state = "RunningCancelRequested" /\ y.worker = x.worker
      /\ x.state = "Queued" => y.state = "Cancelled"
      /\ x.state \in Terminal => y = x
      /\ x.state \in {"Queued"} \cup Executing \cup Terminal
  BY <1>0, <1>1 DEF Cancelled, Abandoned, TaskRecord, TaskStates, Executing, Terminal
<1>4. PICK targets : UpdateAndReclaim(b, y, waiters, targets)
  BY <1>0, <1>1 DEF Cancel
<1>5. queue' = IF x.state = "Queued" THEN Without(queue, r0) ELSE queue
  BY <1>0, <1>1 DEF Cancel
<1>6. /\ StatusOf(r0) = x.state
      /\ \A r \in Records \ {r0} : SameTask(r)
      /\ record'[r0].owner = record[r0].owner
      /\ StatusOf(r0)' = y.state
      /\ WorkerOf(r0)' = IF y.state \in Executing THEN y.worker ELSE None
  BY <1>0, <1>1, <1>2, <1>3, <1>4, UpdateSeen
<1>7. WorkerOf(r0)' = WorkerOf(r0)
  BY <1>0, <1>3, <1>6 DEF WorkerOf, Executing, Terminal
<1>8. /\ [r \in Records |-> WorkerOf(r)]' = [r \in Records |-> WorkerOf(r)]
      /\ OwnedRecords' = OwnedRecords
  BY <1>6, <1>7 DEF SameTask, OwnedRecords
<1>9. Pool!Becomes(r0, y.state)
  BY <1>1, <1>6, StatusBecomes DEF SameTask
<1>10. CASE x.state = "Queued"
  <2>1. Pool!LeavesQueue(r0)
    BY <1>1, <1>5, <1>10, UnlinkSeen DEF Safe
  <2>2. Pool!CancelQueued(r0)
    BY <1>1, <1>3, <1>6, <1>8, <1>9, <1>10, <2>1 DEF Pool!CancelQueued, OwnedRecords, WorkerOf
  <2> QED BY <1>1, <2>2
<1>11. CASE x.state = "Running"
  <2>1. [r \in Records |-> AheadOf(r)]' = [r \in Records |-> AheadOf(r)]
    BY <1>1, <1>5, <1>6, <1>11, OneTaskSeen
  <2>2. Pool!RequestCancel(r0)
    BY <1>1, <1>3, <1>6, <1>8, <1>9, <1>11, <2>1
       DEF Pool!RequestCancel, OwnedRecords, WorkerOf, Executing
  <2> QED BY <1>1, <2>2
<1>12. CASE x.state \in {"RunningCancelRequested"} \cup Terminal
  <2>1. SameTask(r0)
    BY <1>3, <1>6, <1>7, <1>12 DEF SameTask, Executing
  <2>2. queue' = queue
    BY <1>5, <1>12 DEF Terminal
  <2>3. \A r \in Records : SameTask(r)
    BY <1>6, <2>1
  <2> QED BY <2>2, <2>3, Unseen
<1> QED BY <1>3, <1>10, <1>11, <1>12 DEF Executing

LEMMA ReleaseSeen ==
  ASSUME TypesAndControl, Safe, NEW h \in handles, ReleaseOwner(h)
  PROVE  \E r \in Records : Pool!Disown(r)
<1>1. /\ h \in Binding /\ h.rec \in Records /\ Pinned(h) /\ record[h.rec].owner
  BY HandleOwns
<1>2. PICK ws, contexts : Relinquish(h, ws, contexts)
  BY DEF ReleaseOwner
<1> QED BY <1>1, <1>2, RelinquishSeen

LEMMA TakeSeen ==
  ASSUME TypesAndControl, Safe, NEW h \in handles, TakeResult(h)
  PROVE  \E r \in Records : Pool!Disown(r)
<1>0. PICK b, r0, x, y : b = h /\ r0 = b.rec /\ x = record[r0] /\ y = Taken(x)
  OBVIOUS
<1>1. /\ b \in Binding /\ r0 \in Records /\ Pinned(b)
      /\ x \in TaskRecord /\ x.owner = TRUE /\ TypeOK
      /\ (x.state \in Executing => x.worker \in Workers)
  BY <1>0, HandleOwns DEF TypesAndControl
<1>2. y \in TaskRecord
  <2>1. PICK w \in Workers : TRUE
    BY FacilityAssumption
  <2> QED BY <1>0, <1>1, <2>1, TransitionTypes
<1>3. x.state = "Completed" /\ y.state = "Completed" /\ y.owner = FALSE
  BY <1>0, <1>1 DEF TakeResult, Taken, TaskRecord
<1>4. UpdateAndReclaim(b, y, waiters, {}) /\ queue' = queue
  BY <1>0 DEF TakeResult
<1>5. /\ StatusOf(r0) = x.state
      /\ \A r \in Records \ {r0} : SameTask(r)
      /\ record'[r0].owner = FALSE
      /\ StatusOf(r0)' \in {"Completed", "Free"}
      /\ WorkerOf(r0)' = IF y.state \in Executing THEN y.worker ELSE None
  BY <1>0, <1>1, <1>2, <1>3, <1>4, UpdateSeen
<1>6. WorkerOf(r0)' = WorkerOf(r0)
  BY <1>0, <1>3, <1>5 DEF WorkerOf, Executing
<1>7. /\ [r \in Records |-> AheadOf(r)]' = [r \in Records |-> AheadOf(r)]
      /\ [r \in Records |-> WorkerOf(r)]' = [r \in Records |-> WorkerOf(r)]
      /\ Pool!Becomes(r0, StatusOf(r0)')
  BY <1>1, <1>4, <1>5, <1>6, OneTaskSeen
<1>8. r0 \in OwnedRecords /\ OwnedRecords' = OwnedRecords \ {r0}
  BY <1>0, <1>1, <1>5 DEF OwnedRecords, SameTask
<1>9. Pool!Ends(r0, "Completed", OwnedRecords')
  BY <1>5, <1>7, <1>8 DEF Pool!Ends
<1>10. Pool!Disown(r0)
  BY <1>1, <1>3, <1>5, <1>7, <1>8, <1>9 DEF Pool!Disown, Pool!Finished, OwnedRecords, WorkerOf
<1> QED BY <1>1, <1>10

\* The last waiter frees the record of a Task that ended and has no owner.
LEMMA WaitLeavesSeen ==
  ASSUME TypesAndControl, Safe, NEW c \in Callers, WaitLeaves(c)
  PROVE  (\E r \in Records : Pool!Reclaim(r)) \/ UNCHANGED Pool!poolVars
<1>0. PICK b, r0, x, ws : /\ b = call[c].task /\ r0 = b.rec /\ x = record[r0]
                          /\ ws = waiters \ {Own(c)}
  OBVIOUS
<1>1. UpdateAndReclaim(b, x, ws, {}) /\ queue' = queue
  BY <1>0 DEF WaitLeaves
<1>2. b \in Binding /\ r0 \in Records /\ x \in TaskRecord /\ TypeOK
  BY <1>0 DEF WaitLeaves, TypesAndControl, TypeOK, ControlOK, PlaceOK, WaitSteps, Binding
<1>3. CASE ~Pinned(b)
  <2>1. record' = record /\ available' = available
    BY <1>0, <1>1, <1>2, <1>3, UpdateNothing
  <2>2. \A r \in Records : SameTask(r)
    BY <2>1, SameRecord
  <2> QED BY <1>1, <2>2, Unseen
<1>4. CASE Pinned(b)
  <2>1. /\ StatusOf(r0) = x.state
        /\ \A r \in Records \ {r0} : SameTask(r)
        /\ record'[r0].owner = record[r0].owner
        /\ \/ StatusOf(r0)' = x.state
           \/ x.state \in Terminal /\ ~x.owner /\ StatusOf(r0)' = "Free"
        /\ WorkerOf(r0)' = WorkerOf(r0)
    BY <1>0, <1>1, <1>2, <1>4, UpdateSeen DEF WorkerOf
  <2>2. CASE StatusOf(r0)' = x.state
    <3>1. \A r \in Records : SameTask(r)
      BY <2>1, <2>2 DEF SameTask
    <3> QED BY <1>1, <3>1, Unseen
  <2>3. CASE x.state \in Terminal /\ ~x.owner /\ StatusOf(r0)' = "Free"
    <3>1. /\ [r \in Records |-> AheadOf(r)]' = [r \in Records |-> AheadOf(r)]
          /\ [r \in Records |-> WorkerOf(r)]' = [r \in Records |-> WorkerOf(r)]
          /\ OwnedRecords' = OwnedRecords
          /\ Pool!Becomes(r0, "Free")
      BY <1>1, <1>2, <2>1, <2>3, OneTaskSeen
    <3>2. r0 \notin OwnedRecords
      BY <1>0, <2>3 DEF OwnedRecords
    <3>3. Pool!Reclaim(r0)
      BY <1>2, <2>1, <2>3, <3>1, <3>2
         DEF Pool!Reclaim, Pool!Finished, OwnedRecords, WorkerOf, Terminal
    <3> QED BY <1>2, <3>3
  <2> QED BY <2>1, <2>2, <2>3
<1> QED BY <1>3, <1>4

-----------------------------------------------------------------------------
(* The steps of a dispatch that holds the ownership of its Task.           *)

LEMMA InFlightOwns ==
  ASSUME TypesAndControl, Safe, NEW c \in Callers, pc[c] \in {"scheduling"} \cup GrantSteps
  PROVE  /\ call[c].task \in Binding /\ Pinned(call[c].task)
         /\ record[call[c].task.rec].owner
<1>1. InFlight(c)
  BY FacilityAssumption
     DEF TypesAndControl, ControlOK, PlaceOK, GrantSteps, InFlight, DispatchSteps, Binding,
         NoBinding
<1>2. call[c].task \in Binding /\ Pinned(call[c].task)
  BY <1>1, InFlightAlone DEF TypesAndControl
<1>3. call[c].task.rec \in Records /\ Incarnation(call[c].task.rec) = call[c].task
  BY <1>2 DEF Incarnation, Pinned, IsCurrentIncarnation, Binding
<1> QED BY <1>1, <1>2, <1>3 DEF Safe, OwnershipIsUnique

LEMMA WithdrawSeen ==
  ASSUME TypesAndControl, Safe, NEW c \in Callers, pc[c] \in {"scheduling"} \cup GrantSteps,
         NEW ws, Relinquish(call[c].task, ws, {})
  PROVE  \E r \in Records : Pool!Disown(r)
<1>1. /\ call[c].task \in Binding /\ Pinned(call[c].task)
      /\ record[call[c].task.rec].owner
  BY InFlightOwns
<1>2. PICK b : b = call[c].task
  OBVIOUS
<1>3. Pool!Disown(b.rec) /\ b.rec \in Records
  BY <1>1, <1>2, RelinquishSeen DEF Binding
<1> QED BY <1>3

LEMMA GrantSucceedsUnseen ==
  ASSUME TypesAndControl, Safe, NEW c \in Callers, GrantSucceeds(c)
  PROVE  UNCHANGED Pool!poolVars
<1>1. /\ call[c].task \in Binding /\ Pinned(call[c].task)
      /\ record[call[c].task.rec].owner
  BY InFlightOwns DEF GrantSucceeds, GrantSteps
<1>2. record' = record /\ available' = available /\ queue' = queue
  BY <1>1, UpdateNothing DEF GrantSucceeds, TypesAndControl
<1>3. \A r \in Records : SameTask(r)
  BY <1>2, SameRecord
<1> QED BY <1>2, <1>3, Unseen

\* What a callable leaves in the payload is not seen before it is published.
LEMMA TaskReturnsUnseen ==
  ASSUME TypesAndControl, NEW w \in Workers, TaskReturns(w)
  PROVE  UNCHANGED Pool!poolVars
<1>1. PICK outcome \in {"completed", "cancelled"} :
        record' = [record EXCEPT ![running[w].rec] = Invoked(@, outcome)]
  BY DEF TaskReturns
<1>2. queue' = queue /\ available' = available
  BY DEF TaskReturns
<1>3. ASSUME NEW r \in Records
      PROVE  /\ record'[r].state = record[r].state
             /\ record'[r].owner = record[r].owner /\ record'[r].worker = record[r].worker
  <2>1. record[r] \in TaskRecord
    BY DEF TypesAndControl, TypeOK
  <2> QED BY <1>1, <2>1 DEF Invoked, TaskRecord, TypesAndControl, TypeOK
<1>4. \A r \in Records : SameTask(r)
  BY <1>2, <1>3, SameRecord
<1> QED BY <1>2, <1>4, Unseen

LEMMA QuietUnseen ==
  ASSUME UNCHANGED <<record, available, queue>>
  PROVE  UNCHANGED Pool!poolVars
<1>1. \A r \in Records : SameTask(r)
  BY SameRecord
<1> QED BY <1>1, Unseen

-----------------------------------------------------------------------------
\* Every step of the facility is a step of the pool, or none.
LEMMA StepSeen ==
  ASSUME TypesAndControl, Safe, [Next]_vars
  PROVE  [Pool!Next]_(Pool!poolVars)
<1> USE DEF facilityVars
<1>1. ASSUME NEW c \in Callers, Proceed(c) PROVE [Pool!Next]_(Pool!poolVars)
  <2>1. CASE Grant(c)
    BY <2>1, GrantSeen DEF Pool!Next
  <2>2. CASE Admit(c)
    BY <2>2, AdmitSeen DEF Pool!Next
  <2>3. CASE DispatchWithdraws(c)
    BY <2>3, WithdrawSeen DEF DispatchWithdraws, Pool!Next
  <2>4. CASE GrantGivesUp(c)
    BY <2>4, WithdrawSeen DEF GrantGivesUp, GrantSteps, Pool!Next
  <2>5. CASE GrantRegisters(c)
    <3>1. CASE Relinquish(call[c].task, waiters, {})
      BY <2>5, <3>1, WithdrawSeen DEF GrantRegisters, GrantSteps, Pool!Next
    <3>2. CASE UNCHANGED <<record, available, queue>>
      BY <3>2, QuietUnseen
    <3> QED BY <2>5, <3>1, <3>2 DEF GrantRegisters
  <2>6. CASE GrantSucceeds(c)
    BY <2>6, GrantSucceedsUnseen
  <2>7. CASE WaitLeaves(c)
    BY <2>7, WaitLeavesSeen DEF Pool!Next
  <2>8. CASE DispatchWithoutCapacity(c) \/ DispatchUnavailable(c)
            \/ DispatchReturnsTask(c) \/ DispatchAwaitsGrant(c)
    BY <2>8, QuietUnseen
       DEF DispatchWithoutCapacity, DispatchUnavailable, DispatchReturnsTask,
           DispatchAwaitsGrant
  <2>9. CASE AdmissionRegisters(c) \/ AdmissionWakes(c)
            \/ AdmissionExpires(c) \/ AdmissionRechecks(c)
    BY <2>9, QuietUnseen
       DEF AdmissionRegisters, AdmissionWakes, AdmissionExpires,
           AdmissionRechecks
  <2>10. CASE GrantWakes(c) \/ GrantSleepsAgain(c) \/ Reenters(c)
    BY <2>10, QuietUnseen
       DEF GrantWakes, GrantSleepsAgain, Reenters
  <2>11. CASE WaitRegisters(c) \/ WaitWakes(c)
            \/ WaitRechecks(c) \/ WaitSettles(c)
    BY <2>11, QuietUnseen
       DEF WaitRegisters, WaitWakes, WaitRechecks,
           WaitSettles
  <2> QED BY <1>1, <2>1, <2>2, <2>3, <2>4, <2>5, <2>6, <2>7, <2>8, <2>9, <2>10, <2>11 DEF Proceed
<1>2. ASSUME NEW w \in Workers, Work(w) PROVE [Pool!Next]_(Pool!poolVars)
  <2>1. CASE TaskReturns(w)
    BY <2>1, TaskReturnsUnseen
  <2>2. CASE CompleteWorkerTask(w)
    BY <2>2, CompleteSeen DEF Pool!Next
  <2>3. CASE \/ WorkerBecameAvailable(w) \/ RescheduleEnds(w) \/ WorkerReadsLifecycle(w)
             \/ WorkerClaims(w) \/ WorkerWakes(w)
    BY <2>3, QuietUnseen
       DEF WorkerBecameAvailable, RescheduleEnds, WorkerReadsLifecycle, WorkerClaims,
           WorkerWakes
  <2> QED BY <1>2, <2>1, <2>2, <2>3 DEF Work
<1>3. ASSUME NEW h \in handles, Cancel(h) \/ ReleaseOwner(h) \/ TakeResult(h)
      PROVE  [Pool!Next]_(Pool!poolVars)
  BY <1>3, CancelSeen, ReleaseSeen, TakeSeen DEF Pool!Next
<1>4. ASSUME NEW c, NEW policy, BeginDispatch(c, policy)
      PROVE  [Pool!Next]_(Pool!poolVars)
  BY <1>4, QuietUnseen DEF BeginDispatch
<1>5. ASSUME NEW c, NEW h, NEW policy, BeginWait(c, h, policy)
      PROVE  [Pool!Next]_(Pool!poolVars)
  BY <1>5, QuietUnseen DEF BeginWait
<1>6. ASSUME NEW c, RequestStop(c) \/ ClientFinishes(c) PROVE [Pool!Next]_(Pool!poolVars)
  BY <1>6, QuietUnseen DEF RequestStop, ClientFinishes
<1>7. CASE BeginShutdownCancellation
  BY <1>7, CancelAllSeen DEF Pool!Next
<1>8. CASE \/ BeginShutdown \/ FacilityIsQuiescent \/ TopologyIsQuiescent \/ FinalizeShutdown
           \/ UNCHANGED vars
  BY <1>8, QuietUnseen
     DEF BeginShutdown, FacilityIsQuiescent, TopologyIsQuiescent, FinalizeShutdown, vars
<1> QED BY <1>1, <1>2, <1>3, <1>4, <1>5, <1>6, <1>7, <1>8 DEF Next, Request, ShutdownStep

LEMMA InitSeen == Init => Pool!Init
<1> SUFFICES ASSUME Init PROVE Pool!Init
  OBVIOUS
<1>1. \A r \in Records : /\ StatusOf(r) = "Free" /\ WorkerOf(r) = None /\ AheadOf(r) = {}
                         /\ ~record[r].owner
  BY DEF Init, StatusOf, WorkerOf, AheadOf, InitialRecord, Executing
<1> QED BY <1>1 DEF Pool!Init, WorkerOf

\* The facility is the pool its users rely on: FIFO grants, one Worker for a Task and one
\* Task for a Worker, one end for every Task, and no record reused under an owner.
THEOREM FacilityImplementsPool == Spec => ImplementsPool
<1>1. Init => Pool!Init
  BY InitSeen
<1>2. IInv => TypesAndControl /\ Safe
  BY DEF IInv, TypesAndControl, Safe
<1>3. IInv /\ [Next]_vars => [Pool!Next]_(Pool!poolVars)
  BY <1>2, StepSeen
<1> QED BY <1>1, <1>3, InvariantHolds, PTL DEF Spec, ImplementsPool, Pool!Spec
=============================================================================
