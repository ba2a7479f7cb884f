------------------------- MODULE BoundedWaitsProofs -------------------------
(***************************************************************************)
(* Theorems about BoundedWaits, for any number of callers, any durations   *)
(* and deadlines and any horizon.                                          *)
(***************************************************************************)
EXTENDS BoundedWaits, TLAPS

-----------------------------------------------------------------------------
(* The budget.                                                             *)

\* The fields of a budget.
LEMMA BudgetFields ==
  ASSUME NEW b \in Budgets \cup {NoBudget}
  PROVE  b.mode \in {"Relative", "Deadline"} /\ b.start \in Int /\ b.span \in Int
<1>1. CASE b \in [mode : {"Relative"}, start : Times, span : Durations]
  <2>1. b.mode = "Relative" /\ b.start \in Times /\ b.span \in Durations
    BY <1>1, Zenon
  <2>2. b.start \in Int
    BY <2>1, WaitsAssumption DEF Times
  <2>3. b.span \in Int
    BY <2>1, WaitsAssumption
  <2> QED BY <2>1, <2>2, <2>3
<1>2. CASE b \in [mode : {"Deadline"}, start : {0}, span : Deadlines]
  <2>1. b.mode = "Deadline" /\ b.start = 0 /\ b.span \in Deadlines
    BY <1>2, Zenon
  <2>2. b.start \in Int
    BY <2>1
  <2>3. b.span \in Int
    BY <2>1, WaitsAssumption
  <2> QED BY <2>1, <2>2, <2>3
<1>3. CASE b = NoBudget
  BY <1>3 DEF NoBudget
<1> QED BY <1>1, <1>2, <1>3 DEF Budgets

\* What Remaining computes is what is left until the budget is over, and nothing when it is.
LEMMA RemainingIsTrue ==
  ASSUME NEW c \in Callers, IInv
  PROVE  /\ Due(c) \in Int /\ Remaining(c) \in Int
         /\ Remaining(c) = 0 => now >= Due(c)
         /\ Remaining(c) # 0 => now + Remaining(c) = Due(c)
<1>1. now \in Int /\ budget[c].start <= now
  BY WaitsAssumption DEF IInv, TypeOK, LeftIsTrue, Times
<1>2. /\ budget[c].mode \in {"Relative", "Deadline"}
      /\ budget[c].start \in Int /\ budget[c].span \in Int
  <2>1. budget[c] \in Budgets \cup {NoBudget}
    BY DEF IInv, TypeOK
  <2> QED BY <2>1, BudgetFields
<1> QED BY <1>1, <1>2 DEF Due, Remaining

\* What a caller asks for is a budget that has begun.
LEMMA AskedBudgetIsBudget ==
  ASSUME NEW b \in AskedBudgets, IInv
  PROVE  b \in Budgets /\ b.start <= now
BY WaitsAssumption DEF AskedBudgets, For, Until, Budgets, IInv, TypeOK, Times

-----------------------------------------------------------------------------
(* The invariant.                                                          *)

LEMMA InitInvariant == Init => IInv
BY WaitsAssumption
   DEF Init, IInv, TypeOK, LeftIsTrue, NoBudget, Times, Phases, Outcomes, Signals

\* The clock goes on: what has begun has begun.
LEMMA InvariantHolds == IInv /\ [Next]_vars => IInv'
<1> SUFFICES ASSUME IInv, [Next]_vars PROVE IInv'
  OBVIOUS
<1> USE WaitsAssumption
    DEF IInv, TypeOK, LeftIsTrue, Moves, Ends, GoesOn, callVars, timerVars, Due, Times,
        Phases, Outcomes, Signals
<1>1. ASSUME NEW c \in Callers, NEW b \in AskedBudgets, BeginSleep(c, b) PROVE IInv'
  BY <1>1, AskedBudgetIsBudget DEF BeginSleep
<1>2. ASSUME NEW c \in Callers, NEW b \in AskedBudgets, NEW p \in Points,
             BeginPointWait(c, p, b)
      PROVE  IInv'
  BY <1>2, AskedBudgetIsBudget DEF BeginPointWait
<1>3. ASSUME NEW c \in Callers, SleepUnmanaged(c) PROVE IInv'
  BY <1>3 DEF SleepUnmanaged, NoBudget
<1>4. ASSUME NEW c \in Callers, CheckInterruption(c) PROVE IInv'
  BY <1>4 DEF CheckInterruption, NoBudget
<1>5. ASSUME NEW c \in Callers, BudgetIsOver(c) PROVE IInv'
  BY <1>5 DEF BudgetIsOver, NoBudget
<1>6. ASSUME NEW c \in Callers, BudgetIsLeft(c) PROVE IInv'
  BY <1>6, RemainingIsTrue DEF BudgetIsLeft
<1>7. ASSUME NEW c \in Callers, BeginNativeWait(c) PROVE IInv'
  BY <1>7, RemainingIsTrue DEF BeginNativeWait
<1>8. ASSUME NEW c \in Callers, Notified(c) PROVE IInv'
  BY <1>8 DEF Notified, NativeWaitIsOver
<1>9. ASSUME NEW c \in Callers, Expired(c) PROVE IInv'
  BY <1>9 DEF Expired, NativeWaitIsOver
<1>10. ASSUME NEW c \in Callers, NativeWaitFails(c) PROVE IInv'
  BY <1>10 DEF NativeWaitFails, NativeWaitIsOver, NoBudget
<1>11. ASSUME NEW c \in Callers, ResumeSleep(c) PROVE IInv'
  BY <1>11 DEF ResumeSleep, LooksAgain, NoBudget
<1>12. ASSUME NEW c \in Callers, ResumePointWait(c) PROVE IInv'
  BY <1>12 DEF ResumePointWait, NoBudget
<1>13. CASE Surroundings
  BY <1>13 DEF Surroundings, Wake, IsReady, Interrupt, Tick, NoBudget, Budgets
<1>14. CASE UNCHANGED vars
  BY <1>14 DEF vars
<1> QED
  BY <1>1, <1>2, <1>3, <1>4, <1>5, <1>6, <1>7, <1>8, <1>9, <1>10, <1>11, <1>12, <1>13, <1>14
     DEF Next, BeginsWait, Continues

(* No budget begins in the future, and what is left of it is counted from  *)
(* the reading of the clock.                                               *)
THEOREM WaitsInvariant == Spec => []IInv
<1>1. Init => IInv
  BY InitInvariant
<1>2. IInv /\ [Next]_vars => IInv'
  BY InvariantHolds
<1> QED BY <1>1, <1>2, PTL DEF Spec

(* Delays do not add up, however many wakes there are.                     *)
THEOREM BudgetIsNeverExtended == Spec => []WakesNeverExtendBudget
<1>1. IInv => WakesNeverExtendBudget
  BY DEF IInv, LeftIsTrue, WakesNeverExtendBudget
<1> QED BY <1>1, WaitsInvariant, PTL

(* A sleep is Completed only when its budget has passed.                   *)
THEOREM SleepIsNeverEarly == Spec => SleepNotEarly
<1> DEFINE Early(c) ==
      /\ phase[c] # "resting" /\ Sleeps(c) /\ phase'[c] = "resting"
      /\ outcome'[c] = "Completed" /\ ~(now >= Due(c))
<1>1. IInv /\ [Next]_vars => [\A c \in Callers : ~Early(c)]_vars
  <2> SUFFICES ASSUME IInv, Next, NEW c \in Callers, Early(c) PROVE FALSE
    BY DEF vars
  <2> USE DEF Moves, Ends, GoesOn, IInv, TypeOK, Phases
  <2>1. CASE BudgetIsOver(c)
    BY <2>1, RemainingIsTrue DEF BudgetIsOver
  <2>2. CASE Surroundings
    BY <2>2 DEF Surroundings, Wake, IsReady, Interrupt, Tick
  <2>3. ASSUME NEW d \in Callers, BeginsWait(d) PROVE FALSE
    BY <2>3 DEF BeginsWait, SleepUnmanaged, BeginSleep, BeginPointWait
  <2>4. ASSUME NEW d \in Callers, NativeWaitFails(d) PROVE FALSE
    BY <2>4 DEF NativeWaitFails
  <2>5. ASSUME NEW d \in Callers, Continues(d) PROVE BudgetIsOver(c)
    BY <2>5
       DEF Continues, CheckInterruption, BudgetIsOver, BudgetIsLeft, BeginNativeWait,
           Notified, Expired, ResumeSleep, ResumePointWait, LooksAgain
  <2> QED BY <2>1, <2>2, <2>3, <2>4, <2>5 DEF Next
<1>2. [\A c \in Callers : ~Early(c)]_vars
        => [\A c \in Callers :
              phase[c] # "resting" /\ Sleeps(c) /\ phase'[c] = "resting"
                 /\ outcome'[c] = "Completed" => now >= Due(c)]_vars
  OBVIOUS
<1> HIDE DEF Early
<1> QED BY <1>1, <1>2, WaitsInvariant, PTL DEF Spec, SleepNotEarly
=============================================================================
