----------------------- MODULE FailClosedMutexProofs -----------------------
(***************************************************************************)
(* Theorems about FailClosedMutex, for any number of callers and whatever  *)
(* native operations fail.                                                 *)
(***************************************************************************)
EXTENDS FailClosedMutex, TLAPS

-----------------------------------------------------------------------------
(* The invariant.                                                          *)

LEMMA InitInvariant == Init => IInv
BY DEF Init, IInv, TypeOK, NativeOwnership, LatchIsSticky, AnswerStands, Locations, Results

\* Every step keeps the invariant: only the owner may give the native mutex up, and
\* nothing clears the latch.
LEMMA InvariantHolds == IInv /\ [Next]_vars => IInv'
<1> SUFFICES ASSUME IInv, [Next]_vars PROVE IInv'
  OBVIOUS
<1> USE MutexAssumption
    DEF IInv, TypeOK, NativeOwnership, LatchIsSticky, AnswerStands, Goes, Returns, IsFailed,
        Locations, Results
<1>1. ASSUME NEW c \in Callers, BeginAcquire(c) PROVE IInv'
  BY <1>1 DEF BeginAcquire
<1>2. ASSUME NEW c \in Callers, NativeAcquire(c) PROVE IInv'
  BY <1>2 DEF NativeAcquire
<1>3. ASSUME NEW c \in Callers, NativeTimeout(c) PROVE IInv'
  BY <1>3 DEF NativeTimeout
<1>4. ASSUME NEW c \in Callers, NativeAcquireFails(c) PROVE IInv'
  BY <1>4 DEF NativeAcquireFails
<1>5. ASSUME NEW c \in Callers, RecheckTimedOut(c) PROVE IInv'
  BY <1>5 DEF RecheckTimedOut
<1>6. ASSUME NEW c \in Callers, RecheckAcquired(c) PROVE IInv'
  BY <1>6 DEF RecheckAcquired, MayEnter
<1>7. ASSUME NEW c \in Callers, BackOut(c) PROVE IInv'
  BY <1>7 DEF BackOut
<1>8. ASSUME NEW c \in Callers, BeginRelease(c) PROVE IInv'
  BY <1>8 DEF BeginRelease
<1>9. ASSUME NEW c \in Callers, NativeRelease(c) PROVE IInv'
  BY <1>9 DEF NativeRelease
<1>10. ASSUME NEW c \in Callers, NativeReleaseFails(c) PROVE IInv'
  BY <1>10 DEF NativeReleaseFails
<1>11. ASSUME NEW c \in Callers, ConfirmRelease(c) PROVE IInv'
  BY <1>11 DEF ConfirmRelease
<1>12. ASSUME NEW c \in Callers, MarkFailed(c) PROVE IInv'
  BY <1>12 DEF MarkFailed
<1>13. CASE UNCHANGED vars
  BY <1>13 DEF vars
<1> QED
  BY <1>1, <1>2, <1>3, <1>4, <1>5, <1>6, <1>7, <1>8, <1>9, <1>10, <1>11, <1>12, <1>13
     DEF Next, Proceeds, NativeFault

(* Whoever passed the native mutex owns it, what a caller remembers of the *)
(* latch stays true, and an answer stands until the next one.              *)
THEOREM MutexInvariant == Spec => []IInv
<1>1. Init => IInv
  BY InitInvariant
<1>2. IInv /\ [Next]_vars => IInv'
  BY InvariantHolds
<1> QED BY <1>1, <1>2, PTL DEF Spec

-----------------------------------------------------------------------------
(* The refinement.                                                         *)

\* Two callers inside would both own the native mutex.
LEMMA InsideOwns ==
  ASSUME IInv, NEW c \in Inside
  PROVE  /\ Inside = {c} /\ owner = c
         /\ at[c] \in {"critical", "releasing"}
BY DEF IInv, NativeOwnership, Inside

LEMMA InitRefines == Init => Lock!Init
BY DEF Init, Lock!Init, Inside

\* Every step of the mutex is a step of the lock, or none. A caller is admitted where it
\* finds the latch clear, and leaves where it releases the native mutex.
LEMMA StepRefines == IInv /\ [Next]_vars => [Lock!Next]_(Lock!lockVars)
<1> SUFFICES ASSUME IInv, [Next]_vars PROVE [Lock!Next]_(Lock!lockVars)
  OBVIOUS
<1> USE MutexAssumption
    DEF Lock!lockVars, Lock!Next, Goes, Returns, IsFailed
<1>t. TypeOK
  BY DEF IInv
<1>1. ASSUME NEW c \in Callers, BeginAcquire(c) PROVE [Lock!Next]_(Lock!lockVars)
  <2>1. CASE failed
    <3>1. Lock!Refuse(c)
      BY <1>1, <1>t, <2>1 DEF BeginAcquire, Lock!Refuse, Lock!Tell, Inside, TypeOK
    <3> QED BY <3>1
  <2>2. CASE ~failed
    BY <1>1, <1>t, <2>2 DEF BeginAcquire, Inside, TypeOK
  <2> QED BY <2>1, <2>2
<1>2. ASSUME NEW c \in Callers, NativeAcquire(c) PROVE [Lock!Next]_(Lock!lockVars)
  BY <1>2, <1>t DEF NativeAcquire, Inside, TypeOK
<1>3. ASSUME NEW c \in Callers, NativeTimeout(c) PROVE [Lock!Next]_(Lock!lockVars)
  BY <1>3, <1>t DEF NativeTimeout, Inside, TypeOK
<1>4. ASSUME NEW c \in Callers, NativeAcquireFails(c) PROVE [Lock!Next]_(Lock!lockVars)
  BY <1>4, <1>t DEF NativeAcquireFails, Inside, TypeOK
<1>5. ASSUME NEW c \in Callers, RecheckTimedOut(c) PROVE [Lock!Next]_(Lock!lockVars)
  <2>1. CASE failed
    <3>1. Lock!Refuse(c)
      BY <1>5, <1>t, <2>1 DEF RecheckTimedOut, Lock!Refuse, Lock!Tell, Inside, TypeOK
    <3> QED BY <3>1
  <2>2. CASE ~failed
    BY <1>5, <1>t, <2>2 DEF RecheckTimedOut, Inside, TypeOK
  <2> QED BY <2>1, <2>2
<1>6. ASSUME NEW c \in Callers, RecheckAcquired(c) PROVE [Lock!Next]_(Lock!lockVars)
  <2>1. CASE failed
    BY <1>6, <1>t, <2>1 DEF RecheckAcquired, MayEnter, Inside, TypeOK
  <2>2. CASE ~failed
    <3>1. owner = c /\ c \notin Inside
      BY <1>6 DEF RecheckAcquired, IInv, NativeOwnership, Inside
    <3>2. Inside = {}
      BY <3>1, InsideOwns
    <3>3. Inside' = {c}
      BY <1>6, <1>t, <2>2, <3>2 DEF RecheckAcquired, MayEnter, Inside, TypeOK
    <3>4. Lock!Enter(c)
      BY <1>6, <2>2, <3>2, <3>3 DEF RecheckAcquired, MayEnter, Lock!Enter, Lock!Tell
    <3> QED BY <3>4
  <2> QED BY <2>1, <2>2
<1>7. ASSUME NEW c \in Callers, BackOut(c) PROVE [Lock!Next]_(Lock!lockVars)
  <2>1. Lock!Refuse(c)
    BY <1>7, <1>t
       DEF BackOut, IInv, LatchIsSticky, Lock!Refuse, Lock!Tell, Inside, TypeOK
  <2> QED BY <2>1
<1>8. ASSUME NEW c \in Callers, BeginRelease(c) PROVE [Lock!Next]_(Lock!lockVars)
  BY <1>8, <1>t DEF BeginRelease, Inside, TypeOK
<1>9. ASSUME NEW c \in Callers, NativeRelease(c) PROVE [Lock!Next]_(Lock!lockVars)
  <2>1. Inside = {c} /\ Inside' = {}
    <3>1. c \in Inside
      BY <1>9 DEF NativeRelease, Inside
    <3>2. Inside = {c}
      BY <3>1, InsideOwns
    <3>3. Inside' = Inside \ {c}
      BY <1>9, <1>t DEF NativeRelease, Inside, TypeOK
    <3> QED BY <3>2, <3>3
  <2>2. Lock!Leave(c)
    BY <1>9, <2>1 DEF NativeRelease, Lock!Leave
  <2> QED BY <2>2
<1>10. ASSUME NEW c \in Callers, NativeReleaseFails(c) PROVE [Lock!Next]_(Lock!lockVars)
  <2>1. CASE at[c] = "releasing"
    <3>1. c \in Inside
      BY <2>1 DEF Inside
    <3>2. Inside = {c}
      BY <3>1, InsideOwns
    <3>3. Inside' = Inside \ {c}
      BY <1>10, <1>t DEF NativeReleaseFails, Inside, TypeOK
    <3>4. Lock!Leave(c)
      BY <1>10, <3>2, <3>3 DEF NativeReleaseFails, Lock!Leave
    <3> QED BY <3>4
  <2>2. CASE at[c] = "backingOut"
    BY <1>10, <1>t, <2>2 DEF NativeReleaseFails, Inside, TypeOK
  <2> QED BY <1>10, <2>1, <2>2 DEF NativeReleaseFails
<1>11. ASSUME NEW c \in Callers, ConfirmRelease(c) PROVE [Lock!Next]_(Lock!lockVars)
  <2>1. c \notin Inside /\ Inside' = Inside
    BY <1>11, <1>t DEF ConfirmRelease, Inside, TypeOK
  <2>2. CASE failed
    <3>1. Lock!Refuse(c)
      BY <1>11, <2>1, <2>2 DEF ConfirmRelease, Lock!Refuse, Lock!Tell
    <3> QED BY <3>1
  <2>3. CASE ~failed
    <3>1. ~before[c] /\ result[c] = "Acquired"
      BY <1>11, <2>3 DEF ConfirmRelease, IInv, LatchIsSticky, AnswerStands
    <3>2. Lock!Confirm(c)
      BY <1>11, <2>1, <2>3, <3>1 DEF ConfirmRelease, Lock!Confirm, Lock!Tell
    <3> QED BY <3>2
  <2> QED BY <2>2, <2>3
<1>12. ASSUME NEW c \in Callers, MarkFailed(c) PROVE [Lock!Next]_(Lock!lockVars)
  <2>1. c \notin Inside /\ Inside' = Inside
    BY <1>12, <1>t DEF MarkFailed, Inside, TypeOK
  <2>2. Lock!Break(c)
    BY <1>12, <2>1 DEF MarkFailed, Lock!Break, Lock!Tell
  <2> QED BY <2>2
<1>13. CASE UNCHANGED vars
  BY <1>13 DEF vars, Inside
<1> QED
  BY <1>1, <1>2, <1>3, <1>4, <1>5, <1>6, <1>7, <1>8, <1>9, <1>10, <1>11, <1>12, <1>13
     DEF Next, Proceeds, NativeFault

(* The mutex over native waits, native failures of unknown effect and a    *)
(* latch read apart from both is a lock that fails closed.                 *)
THEOREM MutexImplementsLock == Spec => ImplementsLock
<1>1. Init => Lock!Init
  BY InitRefines
<1>2. IInv /\ [Next]_vars => [Lock!Next]_(Lock!lockVars)
  BY StepRefines
<1> QED BY <1>1, <1>2, MutexInvariant, PTL DEF Spec, ImplementsLock, Lock!Spec
=============================================================================
