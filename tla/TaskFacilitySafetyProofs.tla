---------------------- MODULE TaskFacilitySafetyProofs ----------------------
(***************************************************************************)
(* The safety of the Task facility, from the inductive invariant IInv: the *)
(* FIFO holds exactly the queued Tasks, grants are exclusive, every        *)
(* binding names the incarnation it was given, ownership is unique.        *)
(***************************************************************************)
EXTENDS TaskFacilityProofs

-----------------------------------------------------------------------------
(* The FIFO as a set.                                                      *)

\* r is linked in the FIFO s.
In(r, s) == \E i \in DOMAIN s : s[i] = r

Injective(s) == \A i, j \in DOMAIN s : s[i] = s[j] => i = j

LEMMA AppendElements ==
  ASSUME NEW s \in Seq(Records), NEW r \in Records, Injective(s), ~In(r, s)
  PROVE  /\ Injective(Append(s, r))
         /\ \A q \in Records : In(q, Append(s, r)) <=> In(q, s) \/ q = r
<1> DEFINE t == Append(s, r)
<1>1. /\ DOMAIN t = 1 .. Len(s) + 1 /\ DOMAIN s = 1 .. Len(s) /\ Len(s) \in Nat
      /\ t[Len(s) + 1] = r /\ \A i \in 1 .. Len(s) : t[i] = s[i]
  OBVIOUS
<1> HIDE DEF t
<1>2. Injective(t)
  BY <1>1 DEF Injective, In
<1>3. \A q \in Records : In(q, t) <=> In(q, s) \/ q = r
  BY <1>1 DEF In
<1> QED BY <1>2, <1>3 DEF t

LEMMA TailElements ==
  ASSUME NEW s \in Seq(Records), s # <<>>, Injective(s)
  PROVE  /\ Head(s) \in Records /\ In(Head(s), s)
         /\ Tail(s) \in Seq(Records) /\ Injective(Tail(s))
         /\ \A q \in Records : In(q, Tail(s)) <=> In(q, s) /\ q # Head(s)
<1> DEFINE t == Tail(s)
<1>1. /\ Len(s) \in Nat \ {0} /\ DOMAIN s = 1 .. Len(s) /\ DOMAIN t = 1 .. Len(s) - 1
      /\ Head(s) = s[1] /\ \A i \in 1 .. Len(s) - 1 : t[i] = s[i + 1]
      /\ t \in Seq(Records) /\ Head(s) \in Records
  OBVIOUS
<1> HIDE DEF t
<1>2. ASSUME NEW i \in DOMAIN t, NEW j \in DOMAIN t, t[i] = t[j] PROVE i = j
  <2>1. i + 1 \in DOMAIN s /\ j + 1 \in DOMAIN s /\ s[i + 1] = s[j + 1]
    BY <1>1, <1>2
  <2>2. i + 1 = j + 1
    BY <2>1 DEF Injective
  <2> QED BY <1>1, <2>2
<1>3. In(Head(s), s)
  BY <1>1 DEF In
<1>4. ASSUME NEW q \in Records PROVE In(q, t) <=> In(q, s) /\ q # Head(s)
  <2>1. ASSUME In(q, t) PROVE In(q, s) /\ q # Head(s)
    <3>1. PICK i \in 1 .. Len(s) - 1 : t[i] = q
      BY <1>1, <2>1 DEF In
    <3>2. i + 1 \in DOMAIN s /\ s[i + 1] = q /\ i + 1 # 1 /\ 1 \in DOMAIN s
      BY <1>1, <3>1
    <3> QED BY <1>1, <3>2 DEF In, Injective
  <2>2. ASSUME In(q, s), q # Head(s) PROVE In(q, t)
    <3>1. PICK i \in 1 .. Len(s) : s[i] = q
      BY <1>1, <2>2 DEF In
    <3>2. i # 1
      BY <1>1, <2>2, <3>1
    <3>3. i - 1 \in DOMAIN t /\ t[i - 1] = q
      BY <1>1, <3>1, <3>2
    <3> QED BY <3>3 DEF In
  <2> QED BY <2>1, <2>2
<1> QED BY <1>1, <1>2, <1>3, <1>4 DEF t, Injective

\* Unlinking takes out the record and nothing else.
LEMMA WithoutElements ==
  ASSUME NEW s \in Seq(Records), NEW r \in Records, Injective(s)
  PROVE  /\ Injective(Without(s, r))
         /\ \A q \in Records : In(q, Without(s, r)) <=> In(q, s) /\ q # r
<1>1. CASE ~In(r, s)
  BY <1>1 DEF Without, In
<1>2. CASE In(r, s)
  <2> DEFINE k == CHOOSE i \in DOMAIN s : s[i] = r
             t == [i \in 1 .. Len(s) - 1 |-> IF i < k THEN s[i] ELSE s[i + 1]]
  <2>1. Without(s, r) = t
    BY <1>2 DEF Without, In
  <2>2. k \in DOMAIN s /\ s[k] = r
    BY <1>2 DEF In
  <2>3. DOMAIN s = 1 .. Len(s) /\ Len(s) \in Nat
    OBVIOUS
  <2> HIDE DEF k
  <2>4. /\ DOMAIN t = 1 .. Len(s) - 1
        /\ \A i \in 1 .. Len(s) - 1 : t[i] = IF i < k THEN s[i] ELSE s[i + 1]
    OBVIOUS
  <2> HIDE DEF t
  <2>5. ASSUME NEW i \in DOMAIN t, NEW j \in DOMAIN t, t[i] = t[j] PROVE i = j
    <3> DEFINE m == IF i < k THEN i ELSE i + 1
               n == IF j < k THEN j ELSE j + 1
    <3>1. m \in DOMAIN s /\ n \in DOMAIN s /\ s[m] = s[n]
      BY <2>2, <2>3, <2>4, <2>5
    <3>2. m = n
      BY <3>1 DEF Injective
    <3> QED BY <2>2, <2>3, <2>4, <3>2
  <2>6. ASSUME NEW q \in Records PROVE In(q, t) <=> In(q, s) /\ q # r
    <3>1. ASSUME In(q, t) PROVE In(q, s) /\ q # r
      <4>1. PICK i \in 1 .. Len(s) - 1 : t[i] = q
        BY <2>4, <3>1 DEF In
      <4> DEFINE j == IF i < k THEN i ELSE i + 1
      <4>2. j \in DOMAIN s /\ s[j] = q /\ j # k
        BY <2>2, <2>3, <2>4, <4>1
      <4> QED BY <2>2, <4>2 DEF In, Injective
    <3>2. ASSUME In(q, s), q # r PROVE In(q, t)
      <4>1. PICK i \in 1 .. Len(s) : s[i] = q
        BY <2>3, <3>2 DEF In
      <4> DEFINE j == IF i < k THEN i ELSE i - 1
      <4>2. i # k /\ k \in 1 .. Len(s)
        BY <2>2, <2>3, <3>2, <4>1
      <4>3. j \in DOMAIN t /\ t[j] = q
        BY <2>3, <2>4, <4>1, <4>2
      <4> QED BY <4>3 DEF In
    <3> QED BY <3>1, <3>2
  <2> QED BY <2>1, <2>5, <2>6 DEF Injective
<1> QED BY <1>1, <1>2

-----------------------------------------------------------------------------
(* Steps that leave the Tasks as they are.                                 *)

Safe == /\ QueueHoldsQueuedTasks
        /\ GrantsAreExclusive /\ BootsWithoutGrant
        /\ InterestsPinRecord /\ OwnershipIsUnique /\ WaitsOnHandle

\* A step that changes no state, phase, owner or Worker of a record, nor the holders of
\* the Tasks, is safe: new registrations name pinned incarnations, new available Workers
\* hold no grant, and a Worker begins what it was granted.
LEMMA FrameSafe ==
  ASSUME TypeOK, TypeOK', Safe,
         available' = available, queue' = queue, handles' = handles, idle' \subseteq Workers,
         \A r \in Records : /\ record'[r].state = record[r].state
                            /\ record'[r].phase = record[r].phase
                            /\ record'[r].owner = record[r].owner
                            /\ record'[r].worker = record[r].worker,
         \A c \in Callers : /\ InFlight(c)' <=> InFlight(c)
                            /\ InFlight(c) => call'[c].task = call[c].task
                            /\ pc'[c] = "wait" => call'[c].task \in handles,
         \A w \in Workers : /\ w \in idle' => w \in idle \/ \A r \in Records : ~AssignedTo(w, r)
                            /\ pc'[w] = "boot" => pc[w] = "boot" /\ w \notin idle'
                            /\ \/ running'[w] \in {running[w], NoBinding}
                               \/ \E r \in Records : running'[w] = Incarnation(r) /\ AssignedTo(w, r),
         \A v \in waiters' : v \in waiters \/ Pinned(v.task)
  PROVE  Safe'
<1> USE DEF Safe
<1>1. \A b : b.rec \in Records => (Pinned(b)' <=> Pinned(b))
  BY DEF Pinned, IsCurrentIncarnation, Allocated
<1>2. \A w \in Workers, r \in Records : AssignedTo(w, r)' <=> AssignedTo(w, r)
  BY DEF AssignedTo
<1>3. \A r \in Records : Incarnation(r)' = Incarnation(r) /\ (Queued(r)' <=> Queued(r))
  BY DEF Incarnation, Queued, Allocated
<1>4. QueueHoldsQueuedTasks'
  BY <1>3 DEF QueueHoldsQueuedTasks
<1>5. GrantsAreExclusive'
  <2>1. ASSUME NEW r \in Records, record'[r].state \in Executing
        PROVE  Allocated(r)' /\ record'[r].worker \in Workers \ idle'
    <3>1. AssignedTo(record[r].worker, r)
      BY <2>1 DEF AssignedTo
    <3> QED BY <2>1, <3>1 DEF GrantsAreExclusive, Allocated
  <2>2. \A w \in Workers, r, s \in Records : AssignedTo(w, r)' /\ AssignedTo(w, s)' => r = s
    BY <1>2 DEF GrantsAreExclusive
  <2>3. ASSUME NEW w \in Workers, running'[w] # NoBinding
        PROVE  IsCurrentIncarnation(running[w])' /\ AssignedTo(w, running[w].rec)'
    <3>1. CASE running'[w] = running[w]
      <4>1. running[w].rec \in Records
        BY <2>3, <3>1 DEF TypeOK, Binding
      <4> QED BY <1>2, <2>3, <3>1, <4>1 DEF GrantsAreExclusive, IsCurrentIncarnation
    <3>2. CASE \E r \in Records : running'[w] = Incarnation(r) /\ AssignedTo(w, r)
      BY <1>2, <3>2 DEF Incarnation, IsCurrentIncarnation
    <3> QED BY <2>3, <3>1, <3>2
  <2> QED BY <2>1, <2>2, <2>3 DEF GrantsAreExclusive
<1>6. BootsWithoutGrant'
  BY <1>2 DEF BootsWithoutGrant
<1>7. InterestsPinRecord'
  <2>1. \A h \in handles' : Pinned(h)'
    BY <1>1 DEF InterestsPinRecord, TypeOK, Binding
  <2>2. \A v \in waiters' : Pinned(v.task)'
    <3>1. \A v \in waiters' : v.task.rec \in Records
      BY DEF TypeOK, Registration, Binding
    <3> QED BY <1>1, <3>1 DEF InterestsPinRecord
  <2>3. \A c \in Callers : InFlight(c)' => Pinned(call[c].task)'
    BY <1>1 DEF InterestsPinRecord, InFlight, TypeOK, Binding, Call
  <2>4. ASSUME NEW w \in Workers, running'[w] # NoBinding PROVE Pinned(running[w])'
    <3>1. IsCurrentIncarnation(running[w])' /\ AssignedTo(w, running[w].rec)'
      BY <1>5, <2>4 DEF GrantsAreExclusive
    <3>2. running'[w].rec \in Records
      BY <2>4 DEF TypeOK, Binding, Incarnation
    <3> QED BY <1>5, <3>1, <3>2 DEF GrantsAreExclusive, AssignedTo, Pinned
  <2> QED BY <2>1, <2>2, <2>3, <2>4 DEF InterestsPinRecord
<1>8. OwnershipIsUnique'
  BY <1>3 DEF OwnershipIsUnique
<1>9. WaitsOnHandle'
  BY DEF WaitsOnHandle
<1> QED BY <1>4, <1>5, <1>6, <1>7, <1>8, <1>9

\* Giving the handle of a Task in flight to its caller is safe.
LEMMA HandOverSafe ==
  ASSUME TypeOK, TypeOK', Safe, NEW c \in Callers, InFlight(c), ~InFlight(c)',
         handles' = handles \cup {call[c].task}, waiters' \subseteq waiters,
         UNCHANGED <<record, available, queue, idle, running>>,
         \A d \in Callers \ {c} : /\ InFlight(d)' <=> InFlight(d)
                                  /\ InFlight(d) => call'[d].task = call[d].task,
         \A d \in Callers : pc'[d] = "wait" => pc[d] = "wait" /\ call'[d].task = call[d].task,
         \A w \in Workers : pc'[w] = "boot" => pc[w] = "boot"
  PROVE  Safe'
<1> USE DEF Safe
<1>1. \A b : Pinned(b)' <=> Pinned(b)
  BY DEF Pinned, IsCurrentIncarnation, Allocated
<1>2. \A w \in Workers, r \in Records : AssignedTo(w, r)' <=> AssignedTo(w, r)
  BY DEF AssignedTo
<1>3. QueueHoldsQueuedTasks'
  BY DEF QueueHoldsQueuedTasks, Queued, Allocated
<1>4. GrantsAreExclusive'
  <2>1. \A r \in Records : record'[r].state \in Executing =>
           Allocated(r)' /\ record'[r].worker \in Workers \ idle'
    BY DEF GrantsAreExclusive, Allocated
  <2>2. \A w \in Workers, r, s \in Records : AssignedTo(w, r)' /\ AssignedTo(w, s)' => r = s
    BY <1>2 DEF GrantsAreExclusive
  <2>3. ASSUME NEW w \in Workers, running'[w] # NoBinding
        PROVE  IsCurrentIncarnation(running[w])' /\ AssignedTo(w, running[w].rec)'
    BY <2>3 DEF GrantsAreExclusive, IsCurrentIncarnation, AssignedTo
  <2> QED BY <2>1, <2>2, <2>3 DEF GrantsAreExclusive
<1>8. BootsWithoutGrant'
  BY <1>2 DEF BootsWithoutGrant
<1>5. InterestsPinRecord'
  BY <1>1 DEF InterestsPinRecord
<1>6. OwnershipIsUnique'
  <2>1. \A r \in Records : Incarnation(r)' = Incarnation(r)
    BY DEF Incarnation
  <2>2. ASSUME NEW r \in Records
        PROVE  record'[r].owner <=>
                 \/ Incarnation(r)' \in handles'
                 \/ \E d \in Callers : InFlight(d)' /\ call'[d].task = Incarnation(r)'
    BY <2>1 DEF OwnershipIsUnique
  <2>3. ASSUME NEW d \in Callers, InFlight(d)'
        PROVE  /\ call'[d].task \notin handles'
               /\ \A e \in Callers : InFlight(e)' /\ call'[e].task = call'[d].task => e = d
    BY <2>3 DEF OwnershipIsUnique
  <2> QED BY <2>2, <2>3 DEF OwnershipIsUnique
<1>7. WaitsOnHandle'
  BY DEF WaitsOnHandle
<1> QED BY <1>3, <1>4, <1>5, <1>6, <1>7, <1>8

-----------------------------------------------------------------------------
(* Steps that change one Task through UpdateAndReclaim.                    *)

\* Publishing the next state of a pinned Task, giving up registrations and perhaps its
\* last holder, and freeing the record if nothing else retains it, is safe.
LEMMA UpdateSafe ==
  ASSUME TypeOK, TypeOK', Safe,
         NEW b \in Binding, Pinned(b), NEW x \in TaskRecord, x.phase = b.phase,
         NEW ws \in SUBSET waiters, NEW targets, UpdateAndReclaim(b, x, ws, targets),
         queue' = IF Queued(b.rec) /\ x.state # "Queued" THEN Without(queue, b.rec) ELSE queue,
         idle' = idle, running' = running,
         x.state = "Queued" => Queued(b.rec),
         x.state \in Executing <=> record[b.rec].state \in Executing,
         x.state \in Executing => x.worker = record[b.rec].worker,
         x.owner <=> b \in handles' \/ \E c \in Callers : InFlight(c)' /\ call'[c].task = b,
         handles' \subseteq handles, handles \ {b} \subseteq handles',
         \A c \in Callers :
            /\ InFlight(c)' => InFlight(c) /\ call'[c].task = call[c].task
            /\ InFlight(c) /\ call[c].task # b => InFlight(c)'
            /\ pc'[c] = "wait" => /\ pc[c] = "wait" /\ call'[c].task = call[c].task
                                  /\ call[c].task \in handles',
         \A w \in Workers : pc'[w] = "boot" => pc[w] = "boot"
  PROVE  Safe'
<1> USE DEF Safe
<1> DEFINE r0 == b.rec
           free == Reclaimable(b, x, ws)
<1>1. r0 \in Records /\ Allocated(r0) /\ record[r0].phase = b.phase /\ Incarnation(r0) = b
  BY DEF Binding, Pinned, IsCurrentIncarnation, Incarnation
<1>2. /\ record'[r0].state = x.state /\ record'[r0].owner = x.owner
      /\ record'[r0].phase = b.phase
      /\ x.state \in Executing => record'[r0].worker = record[r0].worker
      /\ \A r \in Records \ {r0} : record'[r] = record[r]
      /\ available' = IF free THEN available \cup {r0} ELSE available
      /\ waiters' = ws
  BY <1>1 DEF UpdateAndReclaim, TypeOK, TaskRecord, Reclaimable, Executing, Terminal
<1>3. free => /\ x.state \in Terminal /\ ~x.owner
              /\ \A v \in ws : v.task # b
  BY DEF Reclaimable
<1> HIDE DEF free
<1>4. \A w \in Workers, r \in Records : AssignedTo(w, r)' <=> AssignedTo(w, r)
  BY <1>1, <1>2 DEF AssignedTo
<1>5. \A r \in Records : Incarnation(r)' = Incarnation(r)
  BY <1>1, <1>2 DEF Incarnation
<1>6. QueueHoldsQueuedTasks'
  <2>1. Injective(queue) /\ \A r \in Records : Queued(r) <=> In(r, queue)
    BY DEF QueueHoldsQueuedTasks, Injective, In
  <2>2. \A r \in Records \ {r0} : Queued(r)' <=> Queued(r)
    BY <1>2 DEF Queued, Allocated
  <2>3. Queued(r0)' <=> x.state = "Queued"
    BY <1>1, <1>2, <1>3 DEF Queued, Allocated, Terminal
  <2>4. Injective(queue') /\ \A r \in Records : Queued(r)' <=> In(r, queue')
    <3>1. CASE Queued(r0) /\ x.state # "Queued"
      BY <1>1, <2>1, <2>2, <2>3, <3>1, WithoutElements DEF TypeOK
    <3>2. CASE ~(Queued(r0) /\ x.state # "Queued")
      BY <2>1, <2>2, <2>3, <3>2
    <3> QED BY <3>1, <3>2
  <2> QED BY <2>4 DEF QueueHoldsQueuedTasks, Injective, In
<1>7. GrantsAreExclusive'
  <2>1. ASSUME NEW r \in Records, record'[r].state \in Executing
        PROVE  Allocated(r)' /\ record'[r].worker \in Workers \ idle'
    BY <1>1, <1>2, <1>3, <2>1 DEF GrantsAreExclusive, Allocated, Terminal, Executing
  <2>2. \A w \in Workers, r, s \in Records : AssignedTo(w, r)' /\ AssignedTo(w, s)' => r = s
    BY <1>4 DEF GrantsAreExclusive
  <2>3. ASSUME NEW w \in Workers, running'[w] # NoBinding
        PROVE  IsCurrentIncarnation(running[w])' /\ AssignedTo(w, running[w].rec)'
    <3>1. running[w].rec \in Records
      BY <2>3 DEF TypeOK, Binding
    <3> QED BY <1>1, <1>2, <1>4, <2>3, <3>1 DEF GrantsAreExclusive, IsCurrentIncarnation
  <2> QED BY <2>1, <2>2, <2>3 DEF GrantsAreExclusive
<1>8. BootsWithoutGrant'
  BY <1>4 DEF BootsWithoutGrant
<1>9. OwnershipIsUnique'
  <2>1. ASSUME NEW r \in Records
        PROVE  record'[r].owner <=>
                 \/ Incarnation(r)' \in handles'
                 \/ \E c \in Callers : InFlight(c)' /\ call'[c].task = Incarnation(r)'
    <3>1. CASE r = r0
      BY <1>1, <1>2, <1>5, <3>1
    <3>2. CASE r # r0
      <4>1. Incarnation(r) # b /\ record'[r] = record[r]
        BY <1>1, <1>2, <3>2 DEF Incarnation
      <4> QED BY <1>5, <4>1 DEF OwnershipIsUnique
    <3> QED BY <3>1, <3>2
  <2>2. ASSUME NEW c \in Callers, InFlight(c)'
        PROVE  /\ call'[c].task \notin handles'
               /\ \A d \in Callers : InFlight(d)' /\ call'[d].task = call'[c].task => d = c
    BY <2>2 DEF OwnershipIsUnique
  <2> QED BY <2>1, <2>2 DEF OwnershipIsUnique
<1>10. InterestsPinRecord'
  <2>1. ASSUME NEW a \in Binding, Pinned(a), free => a # b
        PROVE  Pinned(a)'
    <3>1. a.rec \in Records /\ a = [rec |-> a.rec, phase |-> a.phase]
      BY DEF Binding
    <3>2. a.rec = r0 => a = b
      BY <1>1, <2>1, <3>1 DEF Pinned, IsCurrentIncarnation, Incarnation
    <3> QED BY <1>1, <1>2, <2>1, <3>1, <3>2 DEF Pinned, IsCurrentIncarnation, Allocated
  <2>2. \A h \in handles' : Pinned(h)'
    BY <1>3, <2>1 DEF InterestsPinRecord, TypeOK
  <2>3. \A v \in waiters' : Pinned(v.task)'
    BY <1>2, <1>3, <2>1 DEF InterestsPinRecord, TypeOK, Registration
  <2>4. \A c \in Callers : InFlight(c)' => Pinned(call[c].task)'
    BY <1>3, <2>1 DEF InterestsPinRecord, TypeOK, InFlight, Call
  <2>5. ASSUME NEW w \in Workers, running'[w] # NoBinding PROVE Pinned(running[w])'
    BY <1>7, <2>5 DEF GrantsAreExclusive, AssignedTo, Pinned, TypeOK, Binding
  <2> QED BY <2>2, <2>3, <2>4, <2>5 DEF InterestsPinRecord
<1>11. WaitsOnHandle'
  BY DEF WaitsOnHandle
<1> QED BY <1>6, <1>7, <1>8, <1>9, <1>10, <1>11

-----------------------------------------------------------------------------
(* What a step does to the callers.                                        *)

\* The step leaves caller d what it has in flight and lets it begin no call.
Undisturbed(d) ==
    /\ InFlight(d)' <=> InFlight(d)
    /\ InFlight(d) => call'[d].task = call[d].task
    /\ pc'[d] = "wait" => pc[d] = "wait" /\ call'[d].task = call[d].task
    /\ pc'[d] = "boot" => pc[d] = "boot"

LEMMA StayKeeps ==
  ASSUME UNCHANGED <<pc, call>>
  PROVE  \A d \in Callers : Undisturbed(d)
BY DEF Undisturbed, InFlight

\* Moving inside a dispatch, or outside of one, disturbs nobody.
LEMMA GotoKeeps ==
  ASSUME TypesAndControl, NEW c \in Callers, NEW step, Goto(c, step), call' = call,
         step \notin {"wait", "boot"},
         call[c].task = NoBinding \/ (pc[c] \in DispatchSteps <=> step \in DispatchSteps)
  PROVE  \A d \in Callers : Undisturbed(d)
BY DEF TypesAndControl, TypeOK, Goto, Undisturbed, InFlight

\* A call that ends leaves its caller nothing in flight and disturbs nobody else.
LEMMA ReturnKeeps ==
  ASSUME TypesAndControl, NEW c \in Callers, Return(c)
  PROVE  /\ ~InFlight(c)' /\ pc'[c] \notin {"wait", "boot"}
         /\ \A d \in Callers \ {c} : Undisturbed(d)
         /\ ~InFlight(c) => Undisturbed(c)
<1>1. /\ call'[c] = NoCall /\ pc'[c] \in {"user", "ready"}
      /\ \A d \in Callers \ {c} : pc'[d] = pc[d] /\ call'[d] = call[d]
  BY DEF TypesAndControl, TypeOK, Return, Goto
<1>2. ~InFlight(c)' /\ pc'[c] \notin {"wait", "boot"}
  BY <1>1 DEF InFlight, NoCall
<1>3. \A d \in Callers \ {c} : Undisturbed(d)
  BY <1>1 DEF Undisturbed, InFlight
<1> QED BY <1>2, <1>3 DEF Undisturbed

\* A step that touches no Task and disturbs no caller is safe.
LEMMA QuietSafe ==
  ASSUME TypeOK, TypeOK', Safe, UNCHANGED <<record, available, queue, idle, running, handles>>,
         \A v \in waiters' : v \in waiters \/ Pinned(v.task),
         \A d \in Callers : Undisturbed(d)
  PROVE  Safe'
<1>1. \A c \in Callers : pc'[c] = "wait" => call'[c].task \in handles
  BY DEF Undisturbed, Safe, WaitsOnHandle
<1>2. \A w \in Workers : /\ w \in idle' => w \in idle
                         /\ pc'[w] = "boot" => pc[w] = "boot" /\ w \notin idle'
                         /\ running'[w] = running[w]
  BY DEF Undisturbed, Safe, BootsWithoutGrant, Callers, Contexts
<1>3. \A c \in Callers : /\ InFlight(c)' <=> InFlight(c)
                         /\ InFlight(c) => call'[c].task = call[c].task
  BY DEF Undisturbed
<1>4. idle' \subseteq Workers
  BY DEF TypeOK
<1> QED BY <1>1, <1>2, <1>3, <1>4, FrameSafe

\* The binding of a Task in flight is a Task, held by nobody else.
LEMMA InFlightAlone ==
  ASSUME TypeOK, Safe, NEW c \in Callers, InFlight(c)
  PROVE  /\ call[c].task \in Binding /\ Pinned(call[c].task) /\ call[c].task \notin handles
         /\ \A d \in Callers \ {c} : InFlight(d) => call[d].task # call[c].task
BY DEF Safe, InterestsPinRecord, OwnershipIsUnique, TypeOK, InFlight, Call

-----------------------------------------------------------------------------
(* The ends of a handle.                                                   *)

\* Giving up the last ownership of a Task is safe.
LEMMA RelinquishSafe ==
  ASSUME TypesAndControl, TypeOK', Safe,
         NEW b \in Binding, Pinned(b), NEW ws \in SUBSET waiters, NEW contexts,
         Relinquish(b, ws, contexts), idle' = idle, running' = running,
         handles' \subseteq handles, handles \ {b} \subseteq handles', b \notin handles',
         \A c \in Callers :
            /\ InFlight(c)' => InFlight(c) /\ call'[c].task = call[c].task /\ call[c].task # b
            /\ InFlight(c) /\ call[c].task # b => InFlight(c)'
            /\ pc'[c] = "wait" => /\ pc[c] = "wait" /\ call'[c].task = call[c].task
                                  /\ call[c].task \in handles',
         \A w \in Workers : pc'[w] = "boot" => pc[w] = "boot"
  PROVE  Safe'
<1> DEFINE x == Released(record[b.rec])
           targets == {c \in contexts : IsCurrentIncarnation(b) /\ record[b.rec].state = "Queued"}
<1>1. IsCurrentIncarnation(b) /\ Allocated(b.rec) /\ b.rec \in Records
  BY DEF Pinned, Binding
<1>2. record[b.rec] \in TaskRecord /\ record[b.rec].phase = b.phase
      /\ (record[b.rec].state \in Executing => record[b.rec].worker \in Workers)
  BY <1>1 DEF TypesAndControl, TypeOK, IsCurrentIncarnation, ExecutingHaveWorker
<1>3. x \in TaskRecord
  <2>1. PICK w \in Workers : TRUE
    BY FacilityAssumption
  <2> QED BY <1>2, <2>1, TransitionTypes
<1>4. /\ x.phase = b.phase /\ x.owner = FALSE /\ x.state # "Queued"
      /\ x.state \in Executing <=> record[b.rec].state \in Executing
      /\ x.state \in Executing => x.worker = record[b.rec].worker
  BY <1>2 DEF Released, Abandoned, TaskRecord, TaskStates, Executing
<1>5. UpdateAndReclaim(b, x, ws, targets)
  BY <1>1 DEF Relinquish
<1>6. queue' = IF Queued(b.rec) /\ x.state # "Queued" THEN Without(queue, b.rec) ELSE queue
  BY <1>1, <1>4 DEF Relinquish, Queued
<1>7. x.owner <=> b \in handles' \/ \E c \in Callers : InFlight(c)' /\ call'[c].task = b
  BY <1>4
<1> HIDE DEF x, targets
<1> QED BY <1>3, <1>4, <1>5, <1>6, <1>7, UpdateSafe DEF TypesAndControl

\* A dispatch that withdraws its Task is safe.
LEMMA WithdrawSafe ==
  ASSUME TypesAndControl, TypeOK', Safe, NEW c \in Callers, InFlight(c),
         NEW ws \in SUBSET waiters, Relinquish(call[c].task, ws, {}), Return(c),
         UNCHANGED <<idle, running, handles>>
  PROVE  Safe'
<1> DEFINE b == call[c].task
<1>1. /\ b \in Binding /\ Pinned(b) /\ b \notin handles
      /\ \A d \in Callers \ {c} : InFlight(d) => call[d].task # b
  BY InFlightAlone DEF TypesAndControl
<1>2. /\ ~InFlight(c)' /\ pc'[c] \notin {"wait", "boot"}
      /\ \A d \in Callers \ {c} : Undisturbed(d)
  BY ReturnKeeps
<1>3. \A d \in Callers :
         /\ InFlight(d)' => InFlight(d) /\ call'[d].task = call[d].task /\ call[d].task # b
         /\ InFlight(d) /\ call[d].task # b => InFlight(d)'
         /\ pc'[d] = "wait" => /\ pc[d] = "wait" /\ call'[d].task = call[d].task
                               /\ call[d].task \in handles'
  BY <1>1, <1>2 DEF Undisturbed, Safe, WaitsOnHandle
<1>4. \A w \in Workers : pc'[w] = "boot" => pc[w] = "boot"
  BY <1>2 DEF Undisturbed, Callers, Contexts
<1> HIDE DEF b
<1> QED BY <1>1, <1>3, <1>4, RelinquishSafe DEF b

\* A dispatch that returns its handle is safe.
LEMMA ReturnHandleSafe ==
  ASSUME TypesAndControl, TypeOK', Safe, NEW c \in Callers, InFlight(c), ReturnHandle(c),
         waiters' \subseteq waiters, UNCHANGED <<record, available, queue, idle, running>>
  PROVE  Safe'
<1>1. /\ ~InFlight(c)' /\ pc'[c] \notin {"wait", "boot"}
      /\ \A d \in Callers \ {c} : Undisturbed(d)
  BY ReturnKeeps DEF ReturnHandle
<1>2. \A d \in Callers \ {c} : /\ InFlight(d)' <=> InFlight(d)
                               /\ InFlight(d) => call'[d].task = call[d].task
  BY <1>1 DEF Undisturbed
<1>3. \A d \in Callers : pc'[d] = "wait" => pc[d] = "wait" /\ call'[d].task = call[d].task
  BY <1>1 DEF Undisturbed
<1>4. \A w \in Workers : pc'[w] = "boot" => pc[w] = "boot"
  BY <1>1 DEF Undisturbed, Callers, Contexts
<1> QED BY <1>1, <1>2, <1>3, <1>4, HandOverSafe DEF ReturnHandle, TypesAndControl

-----------------------------------------------------------------------------
(* The steps that create, grant and finish Tasks.                          *)

LEMMA GrantSafe ==
  ASSUME TypesAndControl, TypeOK', Safe, NEW c \in Callers, Grant(c)
  PROVE  Safe'
<1> USE DEF Safe
<1> DEFINE r0 == Head(queue)
<1>1. /\ queue \in Seq(Records) /\ queue # <<>> /\ Injective(queue)
      /\ \A r \in Records : Queued(r) <=> In(r, queue)
  BY DEF TypesAndControl, TypeOK, Grant, QueueHoldsQueuedTasks, Injective, In
<1>2. /\ r0 \in Records /\ Queued(r0) /\ Injective(Tail(queue))
      /\ \A r \in Records : In(r, Tail(queue)) <=> In(r, queue) /\ r # r0
  BY <1>1, TailElements
<1>3. PICK w \in idle : /\ idle' = idle \ {w}
                        /\ record' = [record EXCEPT ![r0] = Claimed(@, w)]
  BY DEF Grant, NextWorkers, TryClaim
<1>4. /\ w \in Workers
      /\ record'[r0].state = "Running" /\ record'[r0].worker = w
      /\ record'[r0].owner = record[r0].owner /\ record'[r0].phase = record[r0].phase
      /\ \A r \in Records \ {r0} : record'[r] = record[r]
  BY <1>2, <1>3 DEF TypesAndControl, TypeOK, TaskRecord, Claimed
<1>5. /\ queue' = Tail(queue)
      /\ UNCHANGED <<available, waiters, pc, running, handles>>
      /\ \A d \in Callers : call'[d].task = call[d].task
  <2>1. \E lost : call' = [call EXCEPT ![c].wakeFailed = @ \/ lost # {}]
    BY DEF Grant
  <2>2. \A d \in Callers : call'[d].task = call[d].task
    BY <2>1 DEF TypesAndControl, TypeOK, Call
  <2> QED BY <2>2 DEF Grant
<1> HIDE DEF r0
<1>6. \A r \in Records : AssignedTo(w, r)' <=> r = r0
  <2>1. \A r \in Records : ~AssignedTo(w, r)
    BY <1>3, <1>4 DEF GrantsAreExclusive, AssignedTo
  <2> QED BY <1>2, <1>4, <2>1 DEF AssignedTo, Executing
<1>7. \A v \in Workers \ {w}, r \in Records : AssignedTo(v, r)' <=> AssignedTo(v, r)
  BY <1>2, <1>4 DEF AssignedTo, Queued, Executing
<1>8. \A r \in Records : Incarnation(r)' = Incarnation(r)
  BY <1>4 DEF Incarnation
<1>9. \A b : b.rec \in Records => (Pinned(b)' <=> Pinned(b))
  BY <1>4, <1>5 DEF Pinned, IsCurrentIncarnation, Allocated
<1>10. QueueHoldsQueuedTasks'
  <2>1. \A r \in Records : Queued(r)' <=> In(r, queue')
    BY <1>1, <1>2, <1>4, <1>5 DEF Queued, Allocated
  <2> QED BY <1>2, <1>5, <2>1 DEF QueueHoldsQueuedTasks, Injective, In
<1>11. GrantsAreExclusive'
  <2>1. ASSUME NEW r \in Records, record'[r].state \in Executing
        PROVE  Allocated(r)' /\ record'[r].worker \in Workers \ idle'
    BY <1>2, <1>3, <1>4, <1>5, <2>1 DEF GrantsAreExclusive, Queued, Allocated
  <2>2. \A v \in Workers, r, s \in Records : AssignedTo(v, r)' /\ AssignedTo(v, s)' => r = s
    BY <1>6, <1>7 DEF GrantsAreExclusive
  <2>3. ASSUME NEW v \in Workers, running'[v] # NoBinding
        PROVE  IsCurrentIncarnation(running[v])' /\ AssignedTo(v, running[v].rec)'
    <3>1. running[v].rec \in Records
      BY <1>5, <2>3 DEF TypesAndControl, TypeOK, Binding
    <3>2. IsCurrentIncarnation(running[v]) /\ AssignedTo(v, running[v].rec)
      BY <1>5, <2>3 DEF GrantsAreExclusive
    <3>3. v # w
      BY <1>3, <3>1, <3>2 DEF GrantsAreExclusive, AssignedTo
    <3> QED BY <1>4, <1>5, <1>7, <3>1, <3>2, <3>3 DEF IsCurrentIncarnation
  <2> QED BY <2>1, <2>2, <2>3 DEF GrantsAreExclusive
<1>12. BootsWithoutGrant'
  BY <1>3, <1>5, <1>7 DEF BootsWithoutGrant
<1>13. InterestsPinRecord'
  <2>1. \A h \in handles' : Pinned(h)'
    BY <1>5, <1>9 DEF InterestsPinRecord, TypesAndControl, TypeOK, Binding
  <2>2. \A v \in waiters' : Pinned(v.task)'
    BY <1>5, <1>9 DEF InterestsPinRecord, TypesAndControl, TypeOK, Registration, Binding
  <2>3. \A d \in Callers : InFlight(d)' => Pinned(call[d].task)'
    BY <1>5, <1>9 DEF InterestsPinRecord, TypesAndControl, TypeOK, InFlight, Call, Binding
  <2>4. \A v \in Workers : running'[v] # NoBinding => Pinned(running[v])'
    BY <1>5, <1>9 DEF InterestsPinRecord, TypesAndControl, TypeOK, Binding
  <2> QED BY <2>1, <2>2, <2>3, <2>4 DEF InterestsPinRecord
<1>14. OwnershipIsUnique'
  <2>1. \A d \in Callers : InFlight(d)' <=> InFlight(d)
    BY <1>5 DEF InFlight
  <2>2. \A r \in Records : record'[r].owner = record[r].owner
    BY <1>4
  <2> QED BY <1>5, <1>8, <2>1, <2>2 DEF OwnershipIsUnique
<1>15. WaitsOnHandle'
  BY <1>5 DEF WaitsOnHandle
<1> QED BY <1>10, <1>11, <1>12, <1>13, <1>14, <1>15

LEMMA AdmitSafe ==
  ASSUME TypesAndControl, TypeOK', Safe, NEW c \in Callers, Admit(c)
  PROVE  Safe'
<1> USE DEF Safe
<1>1. PICK r0 \in available :
        /\ available' = available \ {r0}
        /\ record' = [record EXCEPT ![r0] = Initialized(@)]
        /\ queue' = Append(queue, r0)
        /\ call' = [call EXCEPT ![c].task = [rec |-> r0, phase |-> ~record[r0].phase]]
  BY DEF Admit
<1>0. PICK b0 : b0 = [rec |-> r0, phase |-> ~record[r0].phase]
  OBVIOUS
<1>2. /\ r0 \in Records
      /\ record'[r0].state = "Queued" /\ record'[r0].owner = TRUE
      /\ record'[r0].phase = ~record[r0].phase
      /\ \A r \in Records \ {r0} : record'[r] = record[r]
  BY <1>1 DEF TypesAndControl, TypeOK, Initialized
<1>3. /\ UNCHANGED <<idle, waiters, running, handles>>
      /\ pc[c] = "dispatch" /\ pc'[c] = "scheduling"
      /\ \A d \in Callers \ {c} : pc'[d] = pc[d]
  BY DEF Admit, Goto, TypesAndControl, TypeOK
<1>4. call'[c].task = b0 /\ \A d \in Callers \ {c} : call'[d] = call[d]
  BY <1>0, <1>1 DEF TypesAndControl, TypeOK, Call
<1>5. Incarnation(r0)' = b0 /\ \A r \in Records \ {r0} : Incarnation(r)' = Incarnation(r)
  BY <1>0, <1>2 DEF Incarnation
<1>6. \A b : Pinned(b) => b.rec # r0
  BY <1>1 DEF Pinned, Allocated
<1>7. \A b : b.rec \in Records /\ Pinned(b) => Pinned(b)'
  BY <1>1, <1>2, <1>6 DEF Pinned, IsCurrentIncarnation, Allocated
<1>8. Pinned(b0)' /\ b0 # NoBinding
  BY <1>0, <1>1, <1>2, FacilityAssumption DEF Pinned, IsCurrentIncarnation, Allocated, NoBinding
<1>9. ~InFlight(c) /\ InFlight(c)'
  BY <1>3, <1>4, <1>8 DEF InFlight, DispatchSteps, TypesAndControl, ControlOK, PlaceOK
<1>10. \A d \in Callers \ {c} : /\ InFlight(d)' <=> InFlight(d)
                                /\ call'[d].task = call[d].task
  BY <1>3, <1>4 DEF InFlight
<1>11. \A w \in Workers, r \in Records : AssignedTo(w, r)' <=> AssignedTo(w, r)
  <2>1. record[r0].state \notin Executing
    BY <1>1, <1>2 DEF GrantsAreExclusive, Allocated
  <2> QED BY <1>2, <2>1 DEF AssignedTo, Executing
<1>12. QueueHoldsQueuedTasks'
  <2>1. /\ queue \in Seq(Records) /\ Injective(queue)
        /\ \A r \in Records : Queued(r) <=> In(r, queue)
    BY DEF QueueHoldsQueuedTasks, Injective, In, TypesAndControl, TypeOK
  <2>2. ~In(r0, queue)
    BY <1>1, <1>2, <2>1 DEF Queued, Allocated
  <2>3. /\ Injective(queue')
        /\ \A q \in Records : In(q, queue') <=> In(q, queue) \/ q = r0
    BY <1>1, <1>2, <2>1, <2>2, AppendElements
  <2>4. \A r \in Records : Queued(r)' <=> Queued(r) \/ r = r0
    BY <1>1, <1>2 DEF Queued, Allocated
  <2> QED BY <2>1, <2>3, <2>4 DEF QueueHoldsQueuedTasks, Injective, In
<1>13. GrantsAreExclusive'
  <2>1. ASSUME NEW r \in Records, record'[r].state \in Executing
        PROVE  Allocated(r)' /\ record'[r].worker \in Workers \ idle'
    <3>1. r # r0
      BY <1>2, <2>1 DEF Executing
    <3> QED BY <1>1, <1>2, <1>3, <2>1, <3>1 DEF GrantsAreExclusive, Allocated
  <2>2. \A w \in Workers, r, s \in Records : AssignedTo(w, r)' /\ AssignedTo(w, s)' => r = s
    BY <1>11 DEF GrantsAreExclusive
  <2>3. ASSUME NEW w \in Workers, running'[w] # NoBinding
        PROVE  IsCurrentIncarnation(running[w])' /\ AssignedTo(w, running[w].rec)'
    <3>1. running[w].rec \in Records /\ Pinned(running[w])
      BY <1>3, <2>3 DEF TypesAndControl, TypeOK, Binding, InterestsPinRecord
    <3>2. AssignedTo(w, running[w].rec)
      BY <1>3, <2>3 DEF GrantsAreExclusive
    <3>3. AssignedTo(w, running[w].rec)'
      BY <1>3, <1>11, <3>1, <3>2 DEF AssignedTo
    <3>4. Pinned(running[w])'
      BY <1>3, <1>7, <3>1 DEF Pinned, IsCurrentIncarnation
    <3> QED BY <3>3, <3>4 DEF Pinned
  <2> QED BY <2>1, <2>2, <2>3 DEF GrantsAreExclusive
<1>14. BootsWithoutGrant'
  BY <1>3, <1>11 DEF BootsWithoutGrant, Callers, Contexts
<1>15. InterestsPinRecord'
  <2>1. \A h \in handles' : Pinned(h)'
    BY <1>3, <1>7 DEF InterestsPinRecord, TypesAndControl, TypeOK, Binding
  <2>2. \A v \in waiters' : Pinned(v.task)'
    BY <1>3, <1>7 DEF InterestsPinRecord, TypesAndControl, TypeOK, Registration, Binding
  <2>3. ASSUME NEW d \in Callers, InFlight(d)' PROVE Pinned(call[d].task)'
    <3>1. CASE d = c
      BY <1>4, <1>8, <3>1
    <3>2. CASE d # c
      <4>1. InFlight(d) /\ call[d].task.rec \in Records /\ Pinned(call[d].task)
        BY <1>10, <2>3, <3>2 DEF InterestsPinRecord, TypesAndControl, TypeOK, InFlight, Call,
           Binding
      <4>2. call'[d].task = call[d].task
        BY <1>10, <3>2
      <4> HIDE DEF Safe
      <4> QED BY <1>7, <4>1, <4>2
    <3> QED BY <3>1, <3>2
  <2>4. \A w \in Workers : running'[w] # NoBinding => Pinned(running[w])'
    BY <1>3, <1>7 DEF InterestsPinRecord, TypesAndControl, TypeOK, Binding
  <2> QED BY <2>1, <2>2, <2>3, <2>4 DEF InterestsPinRecord
<1>16. OwnershipIsUnique'
  <2>1. \A h \in handles : h # b0
    BY <1>0, <1>6 DEF InterestsPinRecord
  <2>2. \A d \in Callers \ {c} : InFlight(d) => call[d].task # b0
    BY <1>0, <1>6 DEF InterestsPinRecord
  <2>3. ASSUME NEW r \in Records
        PROVE  record'[r].owner <=>
                 \/ Incarnation(r)' \in handles'
                 \/ \E d \in Callers : InFlight(d)' /\ call'[d].task = Incarnation(r)'
    <3>1. CASE r = r0
      BY <1>2, <1>4, <1>5, <1>9, <3>1
    <3>2. CASE r # r0
      <4>1. Incarnation(r) # b0
        BY <1>0, <3>2 DEF Incarnation
      <4> QED BY <1>2, <1>3, <1>4, <1>5, <1>9, <1>10, <3>2, <4>1 DEF OwnershipIsUnique
    <3> QED BY <3>1, <3>2
  <2>4. ASSUME NEW d \in Callers, InFlight(d)'
        PROVE  /\ call'[d].task \notin handles'
               /\ \A e \in Callers : InFlight(e)' /\ call'[e].task = call'[d].task => e = d
    BY <1>3, <1>4, <1>10, <2>1, <2>2, <2>4 DEF OwnershipIsUnique
  <2> QED BY <2>3, <2>4 DEF OwnershipIsUnique
<1>17. WaitsOnHandle'
  BY <1>3, <1>4 DEF WaitsOnHandle
<1> QED BY <1>12, <1>13, <1>14, <1>15, <1>16, <1>17

LEMMA CompleteSafe ==
  ASSUME TypesAndControl, TypeOK', Safe, NEW w \in Workers, CompleteWorkerTask(w)
  PROVE  Safe'
<1> USE DEF Safe
<1> DEFINE b == running[w]
           r0 == b.rec
           x == record[r0]
           y == Published(x, pc[w])
           free == Reclaimable(b, y, waiters)
<1>1. b \in Binding /\ b # NoBinding /\ r0 \in Records
  BY FacilityAssumption
     DEF CompleteWorkerTask, TypesAndControl, ControlOK, BetweenTasks, Binding, NoBinding
<1>2. IsCurrentIncarnation(b) /\ AssignedTo(w, r0) /\ Incarnation(r0) = b
  BY <1>1 DEF GrantsAreExclusive, Binding, IsCurrentIncarnation, Incarnation
<1>3. /\ x \in TaskRecord /\ y.state \in Terminal /\ y.owner = x.owner /\ y.phase = b.phase
  BY <1>1, <1>2 DEF TypesAndControl, TypeOK, TaskRecord, Published, Terminal, IsCurrentIncarnation
<1>4. UpdateAndReclaim(b, y, waiters, WaitersOn(b))
  BY <1>2 DEF CompleteWorkerTask
<1>5. /\ UNCHANGED <<queue, call, handles>>
      /\ running' = [running EXCEPT ![w] = NoBinding]
      /\ idle' = idle \cup {w}
      /\ pc' = [pc EXCEPT ![w] = "rescheduling"]
      /\ pc[w] \in {"completed", "cancelled"}
  BY DEF CompleteWorkerTask, Goto
<1>6. /\ record'[r0].state = y.state /\ record'[r0].owner = x.owner
      /\ record'[r0].phase = b.phase
      /\ \A r \in Records \ {r0} : record'[r] = record[r]
      /\ available' = IF free THEN available \cup {r0} ELSE available
      /\ waiters' = waiters
  BY <1>1, <1>3, <1>4 DEF UpdateAndReclaim, TypesAndControl, TypeOK, TaskRecord, Published
<1>7. free => ~x.owner /\ \A v \in waiters : v.task # b
  BY <1>3 DEF Reclaimable
<1> HIDE DEF free, y
<1>8. x.state \in Executing /\ Allocated(r0)
  BY <1>1, <1>2 DEF AssignedTo, GrantsAreExclusive
<1>9. /\ pc'[w] = "rescheduling"
      /\ \A d \in Callers \ {w} : pc'[d] = pc[d]
      /\ running'[w] = NoBinding
      /\ \A v \in Workers \ {w} : running'[v] = running[v]
  BY <1>5 DEF TypesAndControl, TypeOK, Callers, Contexts
<1>10. \A d \in Callers : InFlight(d)' <=> InFlight(d)
  BY <1>5, <1>9 DEF InFlight, DispatchSteps
<1>11. \A v \in Workers, r \in Records : AssignedTo(v, r)' <=> AssignedTo(v, r) /\ r # r0
  BY <1>1, <1>3, <1>6 DEF AssignedTo, Executing, Terminal
<1>12. \A r \in Records : Incarnation(r)' = Incarnation(r)
  BY <1>2, <1>6 DEF Incarnation
<1>13. QueueHoldsQueuedTasks'
  <2>1. \A r \in Records : Queued(r)' <=> Queued(r)
    BY <1>3, <1>6, <1>8 DEF Queued, Allocated, Executing, Terminal
  <2> QED BY <1>5, <2>1 DEF QueueHoldsQueuedTasks
<1>14. GrantsAreExclusive'
  <2>1. ASSUME NEW r \in Records, record'[r].state \in Executing
        PROVE  Allocated(r)' /\ record'[r].worker \in Workers \ idle'
    <3>1. r # r0
      BY <1>3, <1>6, <2>1 DEF Executing, Terminal
    <3>2. record'[r] = record[r] /\ Allocated(r) /\ record[r].worker \in Workers \ idle
      BY <1>6, <2>1, <3>1 DEF GrantsAreExclusive
    <3>3. record[r].worker # w
      BY <1>1, <1>2, <2>1, <3>1, <3>2 DEF GrantsAreExclusive, AssignedTo
    <3> QED BY <1>5, <1>6, <3>1, <3>2, <3>3 DEF Allocated
  <2>2. \A v \in Workers, r, s \in Records : AssignedTo(v, r)' /\ AssignedTo(v, s)' => r = s
    BY <1>11 DEF GrantsAreExclusive
  <2>3. ASSUME NEW v \in Workers, running'[v] # NoBinding
        PROVE  IsCurrentIncarnation(running[v])' /\ AssignedTo(v, running[v].rec)'
    <3>1. v # w /\ running'[v] = running[v]
      BY <1>9, <2>3
    <3>2. running[v].rec \in Records
      BY <2>3, <3>1 DEF TypesAndControl, TypeOK, Binding
    <3>3. IsCurrentIncarnation(running[v]) /\ AssignedTo(v, running[v].rec)
      BY <2>3, <3>1 DEF GrantsAreExclusive
    <3>4. running[v].rec # r0
      BY <1>2, <3>1, <3>3 DEF AssignedTo
    <3> QED BY <1>6, <3>1, <3>2, <3>3, <3>4 DEF IsCurrentIncarnation, AssignedTo
  <2> QED BY <2>1, <2>2, <2>3 DEF GrantsAreExclusive
<1>15. BootsWithoutGrant'
  BY <1>5, <1>9, <1>11 DEF BootsWithoutGrant, Callers, Contexts
<1>16. OwnershipIsUnique'
  <2>1. \A r \in Records : record'[r].owner = record[r].owner
    BY <1>6
  <2> QED BY <1>5, <1>10, <1>12, <2>1 DEF OwnershipIsUnique
<1>17. InterestsPinRecord'
  <2>1. ASSUME NEW a \in Binding, Pinned(a), free => a # b
        PROVE  Pinned(a)'
    <3>1. a = [rec |-> a.rec, phase |-> a.phase] /\ a.rec \in Records
      BY DEF Binding
    <3>2. a.rec = r0 => a = b
      BY <1>2, <2>1, <3>1 DEF Pinned, IsCurrentIncarnation, Incarnation
    <3> QED BY <1>2, <1>6, <2>1, <3>1, <3>2 DEF Pinned, IsCurrentIncarnation, Allocated
  <2>2. free => b \notin handles /\ \A d \in Callers : InFlight(d) => call[d].task # b
    BY <1>1, <1>2, <1>7 DEF OwnershipIsUnique
  <2>3. \A h \in handles' : Pinned(h)'
    BY <1>5, <2>1, <2>2 DEF InterestsPinRecord, TypesAndControl, TypeOK
  <2>4. \A v \in waiters' : Pinned(v.task)'
    BY <1>6, <1>7, <2>1 DEF InterestsPinRecord, TypesAndControl, TypeOK, Registration
  <2>5. \A d \in Callers : InFlight(d)' => Pinned(call[d].task)'
    BY <1>5, <1>10, <2>1, <2>2 DEF InterestsPinRecord, TypesAndControl, TypeOK, InFlight, Call
  <2>6. ASSUME NEW v \in Workers, running'[v] # NoBinding PROVE Pinned(running[v])'
    BY <1>14, <2>6 DEF GrantsAreExclusive, AssignedTo, Pinned, TypeOK, Binding
  <2> QED BY <2>3, <2>4, <2>5, <2>6 DEF InterestsPinRecord
<1>18. WaitsOnHandle'
  BY <1>5, <1>9 DEF WaitsOnHandle
<1> QED BY <1>13, <1>14, <1>15, <1>16, <1>17, <1>18

LEMMA CancelAllSafe ==
  ASSUME TypesAndControl, TypeOK', Safe, BeginShutdownCancellation
  PROVE  Safe'
<1> USE DEF Safe
<1>1. /\ record' = [r \in Records |-> IF r \in available THEN record[r] ELSE Cancelled(record[r])]
      /\ queue' = <<>>
      /\ UNCHANGED <<available, idle, waiters, pc, call, running, handles>>
  BY DEF BeginShutdownCancellation
<1>2. ASSUME NEW r \in Records
      PROVE  /\ record'[r].owner = record[r].owner /\ record'[r].phase = record[r].phase
             /\ record'[r].state \in Executing <=> record[r].state \in Executing
             /\ record'[r].state \in Executing => record'[r].worker = record[r].worker
             /\ Allocated(r) => record'[r].state # "Queued"
  <2>1. record[r] \in TaskRecord
    BY DEF TypesAndControl, TypeOK
  <2> QED BY <1>1, <2>1 DEF Cancelled, Abandoned, TaskRecord, TaskStates, Executing, Allocated
<1>3. \A w \in Workers, r \in Records : AssignedTo(w, r)' <=> AssignedTo(w, r)
  BY <1>2 DEF AssignedTo
<1>4. \A r \in Records : Incarnation(r)' = Incarnation(r)
  BY <1>2 DEF Incarnation
<1>5. QueueHoldsQueuedTasks'
  BY <1>1, <1>2 DEF QueueHoldsQueuedTasks, Queued, Allocated
<1>6. GrantsAreExclusive'
  <2>1. \A r \in Records : record'[r].state \in Executing =>
           Allocated(r)' /\ record'[r].worker \in Workers \ idle'
    BY <1>1, <1>2 DEF GrantsAreExclusive, Allocated
  <2>2. \A w \in Workers, r, s \in Records : AssignedTo(w, r)' /\ AssignedTo(w, s)' => r = s
    BY <1>3 DEF GrantsAreExclusive
  <2>3. ASSUME NEW w \in Workers, running'[w] # NoBinding
        PROVE  IsCurrentIncarnation(running[w])' /\ AssignedTo(w, running[w].rec)'
    <3>1. running'[w] = running[w] /\ running[w].rec \in Records
      BY <1>1, <2>3 DEF TypesAndControl, TypeOK, Binding
    <3>2. IsCurrentIncarnation(running[w]) /\ AssignedTo(w, running[w].rec)
      BY <2>3, <3>1 DEF GrantsAreExclusive
    <3> QED BY <1>2, <3>1, <3>2 DEF IsCurrentIncarnation, AssignedTo
  <2> QED BY <2>1, <2>2, <2>3 DEF GrantsAreExclusive
<1>7. BootsWithoutGrant'
  BY <1>1, <1>3 DEF BootsWithoutGrant
<1>8. OwnershipIsUnique'
  <2>1. \A d \in Callers : InFlight(d)' <=> InFlight(d)
    BY <1>1 DEF InFlight
  <2> QED BY <1>1, <1>2, <1>4, <2>1 DEF OwnershipIsUnique
<1>9. InterestsPinRecord'
  <2>1. \A b : b.rec \in Records => (Pinned(b)' <=> Pinned(b))
    BY <1>1, <1>2 DEF Pinned, IsCurrentIncarnation, Allocated
  <2>2. \A h \in handles' : Pinned(h)'
    BY <1>1, <2>1 DEF InterestsPinRecord, TypesAndControl, TypeOK, Binding
  <2>3. \A v \in waiters' : Pinned(v.task)'
    BY <1>1, <2>1 DEF InterestsPinRecord, TypesAndControl, TypeOK, Registration, Binding
  <2>4. \A d \in Callers : InFlight(d)' => Pinned(call[d].task)'
    BY <1>1, <2>1 DEF InterestsPinRecord, TypesAndControl, TypeOK, InFlight, Call, Binding
  <2>5. \A w \in Workers : running'[w] # NoBinding => Pinned(running[w])'
    BY <1>1, <2>1 DEF InterestsPinRecord, TypesAndControl, TypeOK, Binding
  <2> QED BY <2>2, <2>3, <2>4, <2>5 DEF InterestsPinRecord
<1>10. WaitsOnHandle'
  BY <1>1 DEF WaitsOnHandle
<1> QED BY <1>5, <1>6, <1>7, <1>8, <1>9, <1>10

-----------------------------------------------------------------------------
(* The operations of a handle.                                             *)

\* A live handle names a Task that owns its record.
LEMMA HandleOwns ==
  ASSUME TypesAndControl, Safe, NEW h \in handles
  PROVE  /\ h \in Binding /\ h.rec \in Records /\ Pinned(h) /\ IsCurrentIncarnation(h)
         /\ record[h.rec] \in TaskRecord /\ record[h.rec].phase = h.phase
         /\ record[h.rec].owner = TRUE
         /\ (record[h.rec].state \in Executing => record[h.rec].worker \in Workers)
         /\ \A c \in Callers : InFlight(c) => call[c].task # h
<1>1. h \in Binding /\ h.rec \in Records /\ Pinned(h) /\ IsCurrentIncarnation(h)
  BY DEF Safe, InterestsPinRecord, TypesAndControl, TypeOK, Binding, Pinned
<1>2. record[h.rec] \in TaskRecord /\ record[h.rec].phase = h.phase /\ Incarnation(h.rec) = h
  BY <1>1 DEF TypesAndControl, TypeOK, Binding, IsCurrentIncarnation, Incarnation
<1>3. record[h.rec].owner = TRUE
  BY <1>1, <1>2 DEF Safe, OwnershipIsUnique, TaskRecord
<1> QED BY <1>1, <1>2, <1>3
        DEF Safe, OwnershipIsUnique, TypesAndControl, ExecutingHaveWorker

LEMMA CancelSafe ==
  ASSUME TypesAndControl, TypeOK', Safe, NEW h \in handles, Cancel(h)
  PROVE  Safe'
<1> DEFINE x == Cancelled(record[h.rec])
           targets == IF record[h.rec].state = "Queued" THEN WaitersOn(h)
                      ELSE {w \in {record[h.rec].worker} : record[h.rec].state \in Executing}
<1>1. /\ h \in Binding /\ h.rec \in Records /\ Pinned(h) /\ IsCurrentIncarnation(h)
      /\ record[h.rec] \in TaskRecord /\ record[h.rec].phase = h.phase
      /\ record[h.rec].owner = TRUE
      /\ (record[h.rec].state \in Executing => record[h.rec].worker \in Workers)
  BY HandleOwns
<1>2. x \in TaskRecord
  <2>1. PICK w \in Workers : TRUE
    BY FacilityAssumption
  <2> QED BY <1>1, <2>1, TransitionTypes
<1>3. /\ x.phase = h.phase /\ x.owner = TRUE /\ x.state # "Queued"
      /\ x.state \in Executing <=> record[h.rec].state \in Executing
      /\ x.state \in Executing => x.worker = record[h.rec].worker
  BY <1>1 DEF Cancelled, Abandoned, TaskRecord, TaskStates, Executing
<1>4. UpdateAndReclaim(h, x, waiters, targets)
  BY <1>1 DEF Cancel
<1>5. /\ queue' = IF Queued(h.rec) /\ x.state # "Queued" THEN Without(queue, h.rec) ELSE queue
      /\ UNCHANGED <<idle, pc, call, running, handles>>
  BY <1>1, <1>3 DEF Cancel, Queued, Pinned
<1>6. \A c \in Callers :
         /\ InFlight(c)' <=> InFlight(c)
         /\ call'[c].task = call[c].task
         /\ pc'[c] = "wait" => pc[c] = "wait" /\ call[c].task \in handles'
  BY <1>5 DEF InFlight, Safe, WaitsOnHandle
<1> HIDE DEF x, targets
<1> QED BY <1>1, <1>2, <1>3, <1>4, <1>5, <1>6, UpdateSafe DEF TypesAndControl

LEMMA ReleaseOwnerSafe ==
  ASSUME TypesAndControl, TypeOK', Safe, NEW h \in handles, ReleaseOwner(h)
  PROVE  Safe'
<1>1. /\ h \in Binding /\ Pinned(h)
      /\ \A c \in Callers : InFlight(c) => call[c].task # h
  BY HandleOwns
<1>2. /\ Relinquish(h, waiters, WaitersOn(h))
      /\ handles' = handles \ {h}
      /\ UNCHANGED <<idle, pc, call, running>>
      /\ Unused(h)
  BY DEF ReleaseOwner
<1>3. \A c \in Callers :
         /\ InFlight(c)' <=> InFlight(c)
         /\ call'[c].task = call[c].task
         /\ pc'[c] = "wait" => pc[c] = "wait" /\ call[c].task \in handles'
  BY <1>2 DEF InFlight, Unused, Safe, WaitsOnHandle
<1> QED BY <1>1, <1>2, <1>3, RelinquishSafe

LEMMA TakeResultSafe ==
  ASSUME TypesAndControl, TypeOK', Safe, NEW h \in handles, TakeResult(h)
  PROVE  Safe'
<1> DEFINE x == Taken(record[h.rec])
<1>1. /\ h \in Binding /\ h.rec \in Records /\ Pinned(h)
      /\ record[h.rec] \in TaskRecord /\ record[h.rec].phase = h.phase
      /\ record[h.rec].owner = TRUE
      /\ (record[h.rec].state \in Executing => record[h.rec].worker \in Workers)
      /\ \A c \in Callers : InFlight(c) => call[c].task # h
  BY HandleOwns
<1>2. x \in TaskRecord
  <2>1. PICK w \in Workers : TRUE
    BY FacilityAssumption
  <2> QED BY <1>1, <2>1, TransitionTypes
<1>3. /\ x.phase = h.phase /\ x.owner = FALSE
      /\ x.state = "Completed" /\ record[h.rec].state = "Completed"
  BY <1>1 DEF Taken, TakeResult, TaskRecord
<1>4. /\ UpdateAndReclaim(h, x, waiters, {})
      /\ handles' = handles \ {h}
      /\ UNCHANGED <<queue, idle, pc, call, running>>
      /\ Unused(h)
  BY DEF TakeResult
<1>5. queue' = IF Queued(h.rec) /\ x.state # "Queued" THEN Without(queue, h.rec) ELSE queue
  BY <1>3, <1>4 DEF Queued
<1>6. \A c \in Callers :
         /\ InFlight(c)' <=> InFlight(c)
         /\ call'[c].task = call[c].task
         /\ pc'[c] = "wait" => pc[c] = "wait" /\ call[c].task \in handles'
  BY <1>4 DEF InFlight, Unused, Safe, WaitsOnHandle
<1>7. x.owner <=> h \in handles' \/ \E c \in Callers : InFlight(c)' /\ call'[c].task = h
  BY <1>1, <1>3, <1>4, <1>6
<1>8. x.state \notin Executing /\ record[h.rec].state \notin Executing /\ x.state # "Queued"
  BY <1>3 DEF Executing
<1> HIDE DEF x
<1> QED BY <1>1, <1>2, <1>3, <1>4, <1>5, <1>6, <1>7, <1>8, UpdateSafe DEF TypesAndControl

-----------------------------------------------------------------------------
(* The steps of the callers that touch no Task, and the waits.             *)

\* What the tail of a critical section does to a Task it leaves as it is, and which it
\* does not free.
LEMMA UpdateNothing ==
  ASSUME TypeOK, NEW b \in Binding, NEW ws, NEW targets,
         UpdateAndReclaim(b, record[b.rec], ws, targets),
         ~Pinned(b) \/ record[b.rec].owner
  PROVE  record' = record /\ available' = available /\ waiters' = ws
<1>1. b.rec \in Records
  BY DEF Binding
<1>2. ~Reclaimable(b, record[b.rec], ws)
  BY DEF Reclaimable, Pinned, IsCurrentIncarnation, Allocated
<1> QED BY <1>1, <1>2 DEF UpdateAndReclaim, TypeOK

LEMMA GrantRegistersSafe ==
  ASSUME TypesAndControl, TypeOK', Safe, NEW c \in Callers, GrantRegisters(c)
  PROVE  Safe'
<1>1. InFlight(c) /\ call[c].task \in Binding
  BY FacilityAssumption
     DEF GrantRegisters, TypesAndControl, ControlOK, PlaceOK, GrantSteps, InFlight, DispatchSteps,
         Binding, NoBinding
<1>2. Pinned(call[c].task)
  BY <1>1, InFlightAlone DEF TypesAndControl
<1>3. UNCHANGED <<idle, running>> /\ pc[c] = "grant"
  BY DEF GrantRegisters
<1>4. CASE /\ ReturnHandle(c)
           /\ UNCHANGED <<available, record, queue, waiters, signalled>>
  BY <1>1, <1>3, <1>4, ReturnHandleSafe
<1>5. CASE /\ waiters' = waiters \cup {Own(c)}
           /\ Goto(c, "grant-asleep")
           /\ UNCHANGED <<available, record, queue, signalled, call, handles>>
  <2>1. \A d \in Callers : Undisturbed(d)
    BY <1>3, <1>5, GotoKeeps DEF DispatchSteps
  <2>2. \A v \in waiters' : v \in waiters \/ Pinned(v.task)
    BY <1>2, <1>5 DEF Own
  <2> QED BY <1>3, <1>5, <2>1, <2>2, QuietSafe DEF TypesAndControl
<1>6. CASE /\ Relinquish(call[c].task, waiters, {})
           /\ Return(c) /\ UNCHANGED handles
  BY <1>1, <1>3, <1>6, WithdrawSafe
<1> QED BY <1>4, <1>5, <1>6 DEF GrantRegisters

LEMMA GrantSucceedsSafe ==
  ASSUME TypesAndControl, TypeOK', Safe, NEW c \in Callers, GrantSucceeds(c)
  PROVE  Safe'
<1>1. InFlight(c) /\ call[c].task \in Binding
  BY FacilityAssumption
     DEF GrantSucceeds, TypesAndControl, ControlOK, PlaceOK, GrantSteps, InFlight, DispatchSteps,
         Binding, NoBinding
<1>2. record[call[c].task.rec].owner
  <2>1. Pinned(call[c].task) /\ call[c].task.rec \in Records
    BY <1>1, InFlightAlone DEF TypesAndControl, Binding
  <2>2. Incarnation(call[c].task.rec) = call[c].task
    BY <1>1, <2>1 DEF Incarnation, Pinned, IsCurrentIncarnation, Binding
  <2> QED BY <1>1, <2>1, <2>2 DEF Safe, OwnershipIsUnique
<1>3. record' = record /\ available' = available /\ waiters' = waiters \ {Own(c)}
  BY <1>1, <1>2, UpdateNothing DEF GrantSucceeds, TypesAndControl
<1>4. ReturnHandle(c) /\ UNCHANGED <<queue, idle, running>>
  BY DEF GrantSucceeds
<1> QED BY <1>1, <1>3, <1>4, ReturnHandleSafe

LEMMA WaitLeavesSafe ==
  ASSUME TypesAndControl, TypeOK', Safe, NEW c \in Callers, WaitLeaves(c)
  PROVE  Safe'
<1> DEFINE b == call[c].task
           x == record[b.rec]
           ws == waiters \ {Own(c)}
<1>1. /\ pc[c] \in {"wait-leave", "wait-woken"}
      /\ UpdateAndReclaim(b, x, ws, {})
      /\ Return(c)
      /\ UNCHANGED <<queue, idle, running, handles>>
  BY DEF WaitLeaves
<1>2. b \in Binding /\ ~InFlight(c)
  BY <1>1 DEF TypesAndControl, ControlOK, PlaceOK, WaitSteps, InFlight, DispatchSteps
<1>3. \A d \in Callers : Undisturbed(d)
  BY <1>1, <1>2, ReturnKeeps
<1>4. CASE ~Pinned(b)
  <2>1. record' = record /\ available' = available /\ waiters' = ws
    BY <1>1, <1>2, <1>4, UpdateNothing DEF TypesAndControl
  <2> QED BY <1>1, <1>3, <2>1, QuietSafe DEF TypesAndControl
<1>5. CASE Pinned(b)
  <2>1. /\ x \in TaskRecord /\ x.phase = b.phase /\ Incarnation(b.rec) = b /\ b.rec \in Records
    BY <1>2, <1>5 DEF Pinned, IsCurrentIncarnation, TypesAndControl, TypeOK, Binding, Incarnation
  <2>2. queue' = IF Queued(b.rec) /\ x.state # "Queued" THEN Without(queue, b.rec) ELSE queue
    BY <1>1 DEF Queued
  <2>3. x.state = "Queued" => Queued(b.rec)
    BY <1>5 DEF Pinned, Queued
  <2>4. \A d \in Callers :
           /\ InFlight(d)' <=> InFlight(d)
           /\ InFlight(d)' => call'[d].task = call[d].task
           /\ pc'[d] = "wait" => /\ pc[d] = "wait" /\ call'[d].task = call[d].task
                                 /\ call[d].task \in handles'
    BY <1>1, <1>3 DEF Undisturbed, Safe, WaitsOnHandle
  <2>5. x.owner <=> b \in handles' \/ \E d \in Callers : InFlight(d)' /\ call'[d].task = b
    <3>1. x.owner <=> b \in handles \/ \E d \in Callers : InFlight(d) /\ call[d].task = b
      BY <2>1 DEF Safe, OwnershipIsUnique
    <3> QED BY <1>1, <2>4, <3>1
  <2>6. \A w \in Workers : pc'[w] = "boot" => pc[w] = "boot"
    BY <1>3 DEF Undisturbed, Callers, Contexts
  <2>7. ws \in SUBSET waiters /\ handles' = handles /\ idle' = idle /\ running' = running
    BY <1>1
  <2> HIDE DEF b, x, ws
  <2> QED BY <1>1, <1>2, <1>5, <2>1, <2>2, <2>3, <2>4, <2>5, <2>6, <2>7, UpdateSafe
          DEF TypesAndControl, x
<1> QED BY <1>4, <1>5

LEMMA WaitRegistersSafe ==
  ASSUME TypesAndControl, TypeOK', Safe, NEW c \in Callers, WaitRegisters(c)
  PROVE  Safe'
<1>1. pc[c] = "wait" /\ UNCHANGED <<available, record, queue, idle, running, handles>>
  BY DEF WaitRegisters
<1>2. CASE Return(c) /\ waiters' = waiters
  <2>1. ~InFlight(c)
    BY <1>1 DEF InFlight, DispatchSteps
  <2> QED BY <1>1, <1>2, <2>1, ReturnKeeps, QuietSafe DEF TypesAndControl
<1>3. CASE waiters' = waiters \cup {Own(c)} /\ Goto(c, "wait-asleep") /\ call' = call
  <2>1. Pinned(call[c].task)
    BY <1>1 DEF Safe, WaitsOnHandle, InterestsPinRecord
  <2>2. \A v \in waiters' : v \in waiters \/ Pinned(v.task)
    BY <1>3, <2>1 DEF Own
  <2>3. \A d \in Callers : Undisturbed(d)
    BY <1>1, <1>3, GotoKeeps DEF DispatchSteps
  <2> QED BY <1>1, <2>2, <2>3, QuietSafe DEF TypesAndControl
<1> QED BY <1>2, <1>3 DEF WaitRegisters

LEMMA BeginWaitSafe ==
  ASSUME TypesAndControl, TypeOK', Safe, NEW c \in Callers, NEW h \in handles, NEW policy,
         BeginWait(c, h, policy)
  PROVE  Safe'
<1>1. /\ pc' = [pc EXCEPT ![c] = "wait"] /\ pc[c] \in {"user", "ready"}
      /\ call' = [call EXCEPT ![c].task = h, ![c].policy = policy]
      /\ UNCHANGED <<available, record, queue, idle, waiters, running, handles>>
  BY DEF BeginWait, Goto, InUserCode, facilityVars
<1>2. /\ pc'[c] = "wait" /\ call'[c].task = h
      /\ \A d \in Callers \ {c} : pc'[d] = pc[d] /\ call'[d] = call[d]
  BY <1>1 DEF TypesAndControl, TypeOK, Call
<1>3. \A d \in Callers : /\ InFlight(d)' <=> InFlight(d)
                         /\ InFlight(d) => call'[d].task = call[d].task
                         /\ pc'[d] = "wait" => call'[d].task \in handles
  BY <1>1, <1>2 DEF InFlight, DispatchSteps, Safe, WaitsOnHandle
<1>4. \A w \in Workers : pc'[w] = "boot" => pc[w] = "boot" /\ w \notin idle'
  BY <1>1, <1>2 DEF Safe, BootsWithoutGrant, Callers, Contexts
<1>5. idle' \subseteq Workers
  BY <1>1 DEF TypesAndControl, TypeOK
<1> QED BY <1>1, <1>3, <1>4, <1>5, FrameSafe DEF TypesAndControl

-----------------------------------------------------------------------------
(* The Worker trampoline.                                                  *)

LEMMA WorkerBecameAvailableSafe ==
  ASSUME TypesAndControl, TypeOK', Safe, NEW w \in Workers, WorkerBecameAvailable(w)
  PROVE  Safe'
<1>1. /\ pc[w] = "boot" /\ pc' = [pc EXCEPT ![w] = "rescheduling"]
      /\ idle' = idle \cup {w}
      /\ UNCHANGED <<available, record, queue, waiters, call, running, handles>>
  BY DEF WorkerBecameAvailable, Goto
<1>2. /\ pc'[w] = "rescheduling"
      /\ \A d \in Callers \ {w} : pc'[d] = pc[d]
  BY <1>1 DEF TypesAndControl, TypeOK, Callers, Contexts
<1>3. \A d \in Callers : /\ InFlight(d)' <=> InFlight(d)
                         /\ pc'[d] = "wait" => call'[d].task \in handles
  BY <1>1, <1>2 DEF InFlight, DispatchSteps, Safe, WaitsOnHandle
<1>4. \A v \in Workers : /\ v \in idle' => v \in idle \/ \A r \in Records : ~AssignedTo(v, r)
                         /\ pc'[v] = "boot" => pc[v] = "boot" /\ v \notin idle'
  BY <1>1, <1>2 DEF Safe, BootsWithoutGrant, Callers, Contexts
<1>5. idle' \subseteq Workers
  BY <1>1 DEF TypesAndControl, TypeOK
<1> QED BY <1>1, <1>3, <1>4, <1>5, FrameSafe DEF TypesAndControl

LEMMA WorkerClaimsSafe ==
  ASSUME TypesAndControl, TypeOK', Safe, NEW w \in Workers, WorkerClaims(w)
  PROVE  Safe'
<1>1. /\ pc[w] = "claim"
      /\ UNCHANGED <<available, record, queue, idle, waiters, call, handles>>
  BY DEF WorkerClaims, facilityVars
<1>2. PICK step \in {"user", "asleep"} :
        /\ pc' = [pc EXCEPT ![w] = step]
        /\ \/ running' = running
           \/ \E r \in Records : /\ AssignedTo(w, r)
                                 /\ running' = [running EXCEPT ![w] = Incarnation(r)]
  BY DEF WorkerClaims, Goto
<1>3. /\ pc'[w] \notin {"wait", "boot"} /\ (InFlight(w)' <=> InFlight(w))
      /\ \A d \in Callers \ {w} : pc'[d] = pc[d]
  BY <1>1, <1>2 DEF TypesAndControl, TypeOK, Callers, Contexts, InFlight, DispatchSteps
<1>4. \A d \in Callers : /\ InFlight(d)' <=> InFlight(d)
                         /\ pc'[d] = "wait" => call'[d].task \in handles
  BY <1>1, <1>3 DEF InFlight, Safe, WaitsOnHandle
<1>5. \A v \in Workers : pc'[v] = "boot" => pc[v] = "boot" /\ v \notin idle'
  BY <1>1, <1>3 DEF Safe, BootsWithoutGrant, Callers, Contexts
<1>6. \A v \in Workers : \/ running'[v] \in {running[v], NoBinding}
                         \/ \E r \in Records : running'[v] = Incarnation(r) /\ AssignedTo(v, r)
  BY <1>2 DEF TypesAndControl, TypeOK
<1>7. idle' \subseteq Workers
  BY <1>1 DEF TypesAndControl, TypeOK
<1> QED BY <1>1, <1>4, <1>5, <1>6, <1>7, FrameSafe DEF TypesAndControl

LEMMA TaskReturnsSafe ==
  ASSUME TypesAndControl, TypeOK', Safe, NEW w \in Workers, TaskReturns(w)
  PROVE  Safe'
<1>1. PICK outcome \in {"completed", "cancelled"} :
        /\ record' = [record EXCEPT ![running[w].rec] = Invoked(@, outcome)]
        /\ pc' = [pc EXCEPT ![w] = outcome]
  BY DEF TaskReturns, Goto
<1>2. pc[w] = "user" /\ UNCHANGED <<available, queue, idle, waiters, call, running, handles>>
  BY DEF TaskReturns
<1>3. ASSUME NEW r \in Records
      PROVE  /\ record'[r].state = record[r].state /\ record'[r].phase = record[r].phase
             /\ record'[r].owner = record[r].owner /\ record'[r].worker = record[r].worker
  <2>1. record[r] \in TaskRecord
    BY DEF TypesAndControl, TypeOK
  <2> QED BY <1>1, <2>1 DEF Invoked, TaskRecord, TypesAndControl, TypeOK
<1>4. /\ pc'[w] \notin {"wait", "boot"} /\ (InFlight(w)' <=> InFlight(w))
      /\ \A d \in Callers \ {w} : pc'[d] = pc[d]
  BY <1>1, <1>2 DEF TypesAndControl, TypeOK, Callers, Contexts, InFlight, DispatchSteps
<1>5. \A d \in Callers : /\ InFlight(d)' <=> InFlight(d)
                         /\ pc'[d] = "wait" => call'[d].task \in handles
  BY <1>2, <1>4 DEF InFlight, Safe, WaitsOnHandle
<1>6. \A v \in Workers : pc'[v] = "boot" => pc[v] = "boot" /\ v \notin idle'
  BY <1>2, <1>4 DEF Safe, BootsWithoutGrant, Callers, Contexts
<1>7. idle' \subseteq Workers
  BY <1>2 DEF TypesAndControl, TypeOK
<1> QED BY <1>2, <1>3, <1>5, <1>6, <1>7, FrameSafe DEF TypesAndControl

-----------------------------------------------------------------------------
\* Every step of the specification is safe.
LEMMA NextSafe ==
  ASSUME TypesAndControl, TypeOK', Safe, [Next]_vars
  PROVE  Safe'
<1>0. TypeOK
  BY DEF TypesAndControl
<1>1. ASSUME NEW c \in Callers, Grant(c) PROVE Safe'
  BY <1>1, GrantSafe
<1>2. ASSUME NEW c \in Callers, NEW policy, BeginDispatch(c, policy) PROVE Safe'
  <2>1. ~InFlight(c) /\ call[c].task = NoBinding
    BY <1>2 DEF BeginDispatch, InUserCode, InFlight, DispatchSteps, WorkerSteps, ClientSteps,
       PlaceOK, ControlOK, TypesAndControl
  <2>2. /\ pc' = [pc EXCEPT ![c] = "dispatch"]
        /\ call' = [call EXCEPT ![c].policy = policy]
    BY <1>2 DEF BeginDispatch, Goto
  <2>3. \A d \in Callers : Undisturbed(d)
    BY <2>1, <2>2 DEF Undisturbed, InFlight, TypesAndControl, TypeOK, Call
  <2> QED BY <1>2, <2>3, <1>0, QuietSafe DEF BeginDispatch, facilityVars
<1>3. ASSUME NEW c \in Callers, DispatchWithoutCapacity(c) PROVE Safe'
  <2>1. \A d \in Callers : Undisturbed(d)
    BY <1>3, GotoKeeps, ReturnKeeps
       DEF DispatchWithoutCapacity, InFlight, PlaceOK, ControlOK, TypesAndControl, WorkerSteps, ClientSteps,
           DispatchSteps, AdmissionSteps, GrantSteps, WaitSteps, InUserCode
  <2> QED BY <1>3, <2>1, <1>0, QuietSafe DEF DispatchWithoutCapacity, facilityVars
<1>4. ASSUME NEW c \in Callers, DispatchUnavailable(c) PROVE Safe'
  <2>1. \A d \in Callers : Undisturbed(d)
    BY <1>4, GotoKeeps, ReturnKeeps
       DEF DispatchUnavailable, InFlight, PlaceOK, ControlOK, TypesAndControl, WorkerSteps, ClientSteps,
           DispatchSteps, AdmissionSteps, GrantSteps, WaitSteps, InUserCode
  <2> QED BY <1>4, <2>1, <1>0, QuietSafe DEF DispatchUnavailable, facilityVars
<1>5. ASSUME NEW c \in Callers, Admit(c) PROVE Safe'
  BY <1>5, AdmitSafe
<1>6. ASSUME NEW c \in Callers, DispatchWithdraws(c) PROVE Safe'
  <2>1. InFlight(c)
    BY <1>6, FacilityAssumption
       DEF DispatchWithdraws, InFlight, DispatchSteps, PlaceOK, ControlOK, TypesAndControl,
           Binding, NoBinding
  <2>2. /\ Relinquish(call[c].task, waiters, {}) /\ Return(c)
        /\ UNCHANGED <<idle, running, handles>>
    BY <1>6 DEF DispatchWithdraws
  <2> QED BY <2>1, <2>2, WithdrawSafe
<1>7. ASSUME NEW c \in Callers, DispatchReturnsTask(c) PROVE Safe'
  <2>1. InFlight(c)
    BY <1>7, FacilityAssumption
       DEF DispatchReturnsTask, InFlight, DispatchSteps, PlaceOK, ControlOK, TypesAndControl,
           Binding, NoBinding
  <2> QED BY <1>7, <2>1, ReturnHandleSafe DEF DispatchReturnsTask, facilityVars
<1>8. ASSUME NEW c \in Callers, DispatchAwaitsGrant(c) PROVE Safe'
  <2>1. \A d \in Callers : Undisturbed(d)
    BY <1>8, GotoKeeps, ReturnKeeps
       DEF DispatchAwaitsGrant, InFlight, PlaceOK, ControlOK, TypesAndControl, WorkerSteps, ClientSteps,
           DispatchSteps, AdmissionSteps, GrantSteps, WaitSteps, InUserCode
  <2> QED BY <1>8, <2>1, <1>0, QuietSafe DEF DispatchAwaitsGrant, facilityVars
<1>9. ASSUME NEW c \in Callers, AdmissionRegisters(c) PROVE Safe'
  <2>1. \A d \in Callers : Undisturbed(d)
    BY <1>9, GotoKeeps, ReturnKeeps
       DEF AdmissionRegisters, InFlight, PlaceOK, ControlOK, TypesAndControl, WorkerSteps, ClientSteps,
           DispatchSteps, AdmissionSteps, GrantSteps, WaitSteps, InUserCode
  <2> QED BY <1>9, <2>1, <1>0, QuietSafe DEF AdmissionRegisters, facilityVars
<1>10. ASSUME NEW c \in Callers, AdmissionWakes(c) PROVE Safe'
  <2>1. \A d \in Callers : Undisturbed(d)
    BY <1>10, GotoKeeps, ReturnKeeps
       DEF AdmissionWakes, InFlight, PlaceOK, ControlOK, TypesAndControl, WorkerSteps, ClientSteps,
           DispatchSteps, AdmissionSteps, GrantSteps, WaitSteps, InUserCode
  <2> QED BY <1>10, <2>1, <1>0, QuietSafe DEF AdmissionWakes, facilityVars
<1>11. ASSUME NEW c \in Callers, AdmissionExpires(c) PROVE Safe'
  <2>1. \A d \in Callers : Undisturbed(d)
    BY <1>11, GotoKeeps, ReturnKeeps
       DEF AdmissionExpires, InFlight, PlaceOK, ControlOK, TypesAndControl, WorkerSteps, ClientSteps,
           DispatchSteps, AdmissionSteps, GrantSteps, WaitSteps, InUserCode
  <2> QED BY <1>11, <2>1, <1>0, QuietSafe DEF AdmissionExpires, facilityVars
<1>12. ASSUME NEW c \in Callers, AdmissionRechecks(c) PROVE Safe'
  <2>1. \A d \in Callers : Undisturbed(d)
    BY <1>12, GotoKeeps, ReturnKeeps
       DEF AdmissionRechecks, InFlight, PlaceOK, ControlOK, TypesAndControl, WorkerSteps, ClientSteps,
           DispatchSteps, AdmissionSteps, GrantSteps, WaitSteps, InUserCode
  <2> QED BY <1>12, <2>1, <1>0, QuietSafe DEF AdmissionRechecks, facilityVars
<1>13. ASSUME NEW c \in Callers, GrantRegisters(c) PROVE Safe'
  BY <1>13, GrantRegistersSafe
<1>14. ASSUME NEW c \in Callers, GrantWakes(c) PROVE Safe'
  <2>1. \A d \in Callers : Undisturbed(d)
    BY <1>14, GotoKeeps, ReturnKeeps
       DEF GrantWakes, InFlight, PlaceOK, ControlOK, TypesAndControl, WorkerSteps, ClientSteps,
           DispatchSteps, AdmissionSteps, GrantSteps, WaitSteps, InUserCode
  <2> QED BY <1>14, <2>1, <1>0, QuietSafe DEF GrantWakes, facilityVars
<1>15. ASSUME NEW c \in Callers, GrantSucceeds(c) PROVE Safe'
  BY <1>15, GrantSucceedsSafe
<1>16. ASSUME NEW c \in Callers, GrantGivesUp(c) PROVE Safe'
  <2>1. InFlight(c)
    BY <1>16, FacilityAssumption
       DEF GrantGivesUp, InFlight, DispatchSteps, GrantSteps, PlaceOK, ControlOK, TypesAndControl,
           Binding, NoBinding
  <2>2. /\ Relinquish(call[c].task, waiters \ {Own(c)}, {}) /\ Return(c)
        /\ UNCHANGED <<idle, running, handles>>
    BY <1>16 DEF GrantGivesUp
  <2> QED BY <2>1, <2>2, WithdrawSafe
<1>17. ASSUME NEW c \in Callers, GrantSleepsAgain(c) PROVE Safe'
  <2>1. \A d \in Callers : Undisturbed(d)
    BY <1>17, GotoKeeps, ReturnKeeps
       DEF GrantSleepsAgain, InFlight, PlaceOK, ControlOK, TypesAndControl, WorkerSteps, ClientSteps,
           DispatchSteps, AdmissionSteps, GrantSteps, WaitSteps, InUserCode
  <2> QED BY <1>17, <2>1, <1>0, QuietSafe DEF GrantSleepsAgain, facilityVars
<1>18. ASSUME NEW c \in Callers, Reenters(c) PROVE Safe'
  <2>1. \A d \in Callers : Undisturbed(d)
    BY <1>18, GotoKeeps, ReturnKeeps
       DEF Reenters, InFlight, PlaceOK, ControlOK, TypesAndControl, WorkerSteps, ClientSteps,
           DispatchSteps, AdmissionSteps, GrantSteps, WaitSteps, InUserCode
  <2> QED BY <1>18, <2>1, <1>0, QuietSafe DEF Reenters, facilityVars
<1>19. ASSUME NEW c \in Callers, WaitRegisters(c) PROVE Safe'
  BY <1>19, WaitRegistersSafe
<1>20. ASSUME NEW c \in Callers, WaitWakes(c) PROVE Safe'
  <2>1. \A d \in Callers : Undisturbed(d)
    BY <1>20, GotoKeeps, ReturnKeeps
       DEF WaitWakes, InFlight, PlaceOK, ControlOK, TypesAndControl, WorkerSteps, ClientSteps,
           DispatchSteps, AdmissionSteps, GrantSteps, WaitSteps, InUserCode
  <2> QED BY <1>20, <2>1, <1>0, QuietSafe DEF WaitWakes, facilityVars
<1>21. ASSUME NEW c \in Callers, WaitRechecks(c) PROVE Safe'
  <2>1. \A d \in Callers : Undisturbed(d)
    BY <1>21, GotoKeeps, ReturnKeeps
       DEF WaitRechecks, InFlight, PlaceOK, ControlOK, TypesAndControl, WorkerSteps, ClientSteps,
           DispatchSteps, AdmissionSteps, GrantSteps, WaitSteps, InUserCode
  <2> QED BY <1>21, <2>1, <1>0, QuietSafe DEF WaitRechecks, facilityVars
<1>22. ASSUME NEW c \in Callers, WaitSettles(c) PROVE Safe'
  <2>1. \A d \in Callers : Undisturbed(d)
    BY <1>22, GotoKeeps, ReturnKeeps
       DEF WaitSettles, InFlight, PlaceOK, ControlOK, TypesAndControl, WorkerSteps, ClientSteps,
           DispatchSteps, AdmissionSteps, GrantSteps, WaitSteps, InUserCode
  <2> QED BY <1>22, <2>1, <1>0, QuietSafe DEF WaitSettles, facilityVars
<1>23. ASSUME NEW c \in Callers, WaitLeaves(c) PROVE Safe'
  BY <1>23, WaitLeavesSafe
<1>24. ASSUME NEW w \in Workers, Work(w) PROVE Safe'
  <2>0. w \in Callers
    BY DEF Callers, Contexts
  <2>1. CASE WorkerBecameAvailable(w)
    BY <2>1, WorkerBecameAvailableSafe
  <2>2. CASE RescheduleEnds(w)
    <3>1. /\ pc' = [pc EXCEPT ![w] = "loop"] /\ pc[w] = "rescheduling"
          /\ call' = [call EXCEPT ![w] = NoCall]
      BY <2>2 DEF RescheduleEnds, Goto
    <3>2. \A d \in Callers : Undisturbed(d)
      BY <3>1 DEF Undisturbed, InFlight, TypesAndControl, TypeOK, DispatchSteps
    <3> QED BY <2>2, <3>2, <1>0, QuietSafe DEF RescheduleEnds, facilityVars
  <2>3. CASE WorkerReadsLifecycle(w)
    <3>1. \A d \in Callers : Undisturbed(d)
      BY <2>0, <2>3, GotoKeeps DEF WorkerReadsLifecycle, DispatchSteps
    <3> QED BY <2>3, <3>1, <1>0, QuietSafe DEF WorkerReadsLifecycle, facilityVars
  <2>4. CASE WorkerClaims(w)
    BY <2>4, WorkerClaimsSafe
  <2>5. CASE WorkerWakes(w)
    <3>1. \A d \in Callers : Undisturbed(d)
      BY <2>0, <2>5, GotoKeeps DEF WorkerWakes, DispatchSteps
    <3> QED BY <2>5, <3>1, <1>0, QuietSafe DEF WorkerWakes, facilityVars
  <2>6. CASE TaskReturns(w)
    BY <2>6, TaskReturnsSafe
  <2>7. CASE CompleteWorkerTask(w)
    BY <2>7, CompleteSafe
  <2> QED BY <1>24, <2>1, <2>2, <2>3, <2>4, <2>5, <2>6, <2>7 DEF Work
<1>25. ASSUME NEW c \in Contexts, NEW h \in handles, NEW policy, BeginWait(c, h, policy)
      PROVE  Safe'
  BY <1>25, BeginWaitSafe DEF Callers
<1>26. ASSUME NEW h \in handles, Cancel(h) \/ ReleaseOwner(h) \/ TakeResult(h) PROVE Safe'
  BY <1>26, CancelSafe, ReleaseOwnerSafe, TakeResultSafe
<1>27. ASSUME NEW c \in Clients, RequestStop(c) PROVE Safe'
  BY <1>27, StayKeeps, <1>0, QuietSafe DEF RequestStop, facilityVars
<1>28. ASSUME NEW c \in Clients, ClientFinishes(c) PROVE Safe'
  <2>1. \A d \in Callers : Undisturbed(d)
    BY <1>28, GotoKeeps DEF ClientFinishes, DispatchSteps, Callers, Contexts
  <2> QED BY <1>28, <2>1, <1>0, QuietSafe DEF ClientFinishes, facilityVars
<1>29. CASE BeginShutdownCancellation
  BY <1>29, CancelAllSafe
<1>30. CASE BeginShutdown
  BY <1>30, StayKeeps, <1>0, QuietSafe DEF BeginShutdown, facilityVars
<1>31. CASE FacilityIsQuiescent
  BY <1>31, StayKeeps, <1>0, QuietSafe DEF FacilityIsQuiescent, facilityVars
<1>32. CASE TopologyIsQuiescent
  BY <1>32, StayKeeps, <1>0, QuietSafe DEF TopologyIsQuiescent, facilityVars
<1>33. CASE FinalizeShutdown
  BY <1>33, StayKeeps, <1>0, QuietSafe DEF FinalizeShutdown, facilityVars
<1>34. CASE UNCHANGED vars
  BY <1>34, StayKeeps, <1>0, QuietSafe DEF vars, facilityVars
<1> QED
  BY <1>1, <1>2, <1>3, <1>4, <1>5, <1>6, <1>7, <1>8, <1>9, <1>10, <1>11, <1>12, <1>13, <1>14,
     <1>15, <1>16, <1>17, <1>18, <1>19, <1>20, <1>21, <1>22, <1>23, <1>24, <1>25, <1>26,
     <1>27, <1>28, <1>29, <1>30, <1>31, <1>32, <1>33, <1>34
     DEF Next, Proceed, Request, ShutdownStep

\* The inductive invariant holds in every reachable state.
THEOREM InvariantHolds == Spec => []IInv
<1>1. Init => TypesAndControl /\ Safe
  <2>1. Init => TypesAndControl
    BY FacilityAssumption
       DEF Init, TypesAndControl, TypeOK, ControlOK, PlaceOK, ExecutingHaveWorker, InitialRecord,
           TaskRecord, TaskStates, Executing, Payloads, Lifecycles, Callers, Contexts, Steps,
           WorkerSteps, ClientSteps, DispatchSteps, WaitSteps, AdmissionSteps, GrantSteps,
           BetweenTasks, Call, NoCall, NoBinding
  <2>2. Init => Safe
    <3> SUFFICES ASSUME Init PROVE Safe
      OBVIOUS
    <3>1. /\ \A c \in Callers : ~InFlight(c) /\ pc[c] # "wait"
          /\ \A r \in Records : ~Queued(r) /\ ~record[r].owner /\ record[r].state \notin Executing
          /\ \A w \in Workers : running[w] = NoBinding
      BY DEF Init, InFlight, DispatchSteps, Queued, Allocated, InitialRecord, Executing
    <3>2. queue = <<>> /\ idle = {} /\ waiters = {} /\ handles = {}
      BY DEF Init
    <3> QED BY <3>1, <3>2
            DEF Safe, QueueHoldsQueuedTasks, GrantsAreExclusive, BootsWithoutGrant, AssignedTo,
                InterestsPinRecord, OwnershipIsUnique, WaitsOnHandle
  <2> QED BY <2>1, <2>2
<1>2. TypesAndControl /\ Safe /\ [Next]_vars => (TypesAndControl /\ Safe)'
  BY NextTypes, NextSafe DEF TypesAndControl
<1>3. TypesAndControl /\ Safe => IInv
  BY DEF TypesAndControl, Safe, IInv
<1> QED BY <1>1, <1>2, <1>3, PTL DEF Spec

\* The FIFO holds every queued Task once and nothing else, however cancellation, release
\* and the scheduling pass interleave.
THEOREM QueueCorrect == Spec => []QueueHoldsQueuedTasks
<1>1. IInv => QueueHoldsQueuedTasks
  BY DEF IInv
<1> QED BY <1>1, InvariantHolds, PTL

\* No Worker is granted two Tasks and no Task is invoked under another incarnation.
THEOREM GrantsCorrect == Spec => []GrantsAreExclusive
<1>1. IInv => GrantsAreExclusive
  BY DEF IInv
<1> QED BY <1>1, InvariantHolds, PTL

\* No record is reused while a handle, a dispatch, a registration or a Worker names it:
\* one phase bit is enough, for any number of records and contexts.
THEOREM IncarnationsCorrect == Spec => []InterestsPinRecord
<1>1. IInv => InterestsPinRecord
  BY DEF IInv
<1> QED BY <1>1, InvariantHolds, PTL

\* A Task has exactly one owner as long as its ownership bit is set.
THEOREM OwnershipCorrect == Spec => []OwnershipIsUnique
<1>1. IInv => OwnershipIsUnique
  BY DEF IInv
<1> QED BY <1>1, InvariantHolds, PTL
=============================================================================
