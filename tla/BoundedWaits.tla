---------------------------- MODULE BoundedWaits ----------------------------
(***************************************************************************)
(* The waits that Threading bounds by the canonical clock: SleepFor and    *)
(* SleepUntil of a managed context (ExecutionControl), WaitFor and         *)
(* WaitUntil on a BoundedWaitPoint or on a slot of a                       *)
(* BoundedWaitWakeProvider. A sleeper is woken by whatever its context is  *)
(* woken for and sleeps on; a wait on a point ends with its first wake.    *)
(*                                                                         *)
(* The clock goes on between any two steps. External: the native signals,  *)
(* which latch one notification and end a wait no earlier than asked.      *)
(***************************************************************************)
EXTENDS Integers

CONSTANTS
    Callers,    \* the contexts that wait
    Managed,    \* those of them with a managed context, and so a wake signal
    Points,     \* the wait points and the valid slots
    Durations,  \* the durations asked for, any sign
    Deadlines,  \* the deadlines asked for
    EndOfTime   \* the bound of the clock: what rings later rings then

ASSUME WaitsAssumption ==
    /\ Managed \subseteq Callers
    /\ Callers \cap Points = {}
    /\ Durations \subseteq Int
    /\ Deadlines \subseteq Int
    /\ EndOfTime \in Nat

VARIABLES
    now,          \* MonotonicNow
    latched,      \* the signals with a notification nobody has consumed
    interrupted,  \* the contexts for which IsInterrupted answers yes
    phase,        \* where the wait of each caller is
    target,       \* the signal it waits on
    budget,       \* its MonotonicWaitBudget
    left,         \* the timeout it passes to the signal
    alarm,        \* when that timeout ends
    read, begun,  \* history: when the clock was read, when the native wait began
    outcome       \* what the last wait returned, until the next one

callVars  == <<target, budget>>
timerVars == <<left, alarm, read, begun>>
vars == <<now, latched, interrupted, phase, callVars, timerVars, outcome>>

Signals == Managed \cup Points
Times   == 0 .. EndOfTime

Phases == {"resting", "checking", "reading", "armed", "asleep", "notified", "expired"}
Outcomes   == {"Nothing", "Completed", "Interrupted", "Woken", "TimedOut", "ProviderFailure"}

Budgets ==
    [mode : {"Relative"}, start : Times, span : Durations]
        \cup [mode : {"Deadline"}, start : {0}, span : Deadlines]

NoBudget == [mode |-> "Deadline", start |-> 0, span |-> 0]

TypeOK ==
    /\ now \in Times
    /\ latched \subseteq Signals
    /\ interrupted \subseteq Managed
    /\ phase \in [Callers -> Phases]
    /\ \A c \in Callers : phase[c] # "resting" => target[c] \in Signals
    /\ budget \in [Callers -> Budgets \cup {NoBudget}]
    /\ target \in [Callers -> Signals \cup Callers]
    /\ left \in [Callers -> Int]
    /\ alarm \in [Callers -> Int]
    /\ read \in [Callers -> Times] /\ begun \in [Callers -> Times]
    /\ outcome \in [Callers -> Outcomes]

Init ==
    /\ now = 0
    /\ latched = {} /\ interrupted = {}
    /\ phase = [c \in Callers |-> "resting"]
    /\ target = [c \in Callers |-> c]
    /\ budget = [c \in Callers |-> NoBudget]
    /\ left = [c \in Callers |-> 0]
    /\ alarm = [c \in Callers |-> 0]
    /\ read = [c \in Callers |-> 0]
    /\ begun = [c \in Callers |-> 0]
    /\ outcome = [c \in Callers |-> "Nothing"]

Moves(c, p) == phase' = [phase EXCEPT ![c] = p]

\* What a call keeps for itself ends with it.
Ends(c, result) ==
    /\ Moves(c, "resting") /\ outcome' = [outcome EXCEPT ![c] = result]
    /\ target' = [target EXCEPT ![c] = c]
    /\ budget' = [budget EXCEPT ![c] = NoBudget]

GoesOn(c, p) == Moves(c, p) /\ UNCHANGED <<callVars, outcome>>

NativeWaitIsOver(c) ==
    /\ alarm' = [alarm EXCEPT ![c] = 0]
    /\ read' = [read EXCEPT ![c] = 0] /\ begun' = [begun EXCEPT ![c] = 0]
    /\ UNCHANGED left

\* A sleeper waits on the signal of its own context.
Sleeps(c) == target[c] = c

-----------------------------------------------------------------------------
(* The budget *)

For(duration)   == [mode |-> "Relative", start |-> now, span |-> duration]
Until(deadline) == [mode |-> "Deadline", start |-> 0, span |-> deadline]

\* When the budget is over.
Due(c) == IF budget[c].mode = "Relative" THEN budget[c].start + budget[c].span
                                         ELSE budget[c].span

\* Variant: a relative budget starts again with every native wait.
RemainingRestarted(c) ==
    IF budget[c].mode = "Relative"
      THEN IF now - budget[c].start >= budget[c].span THEN 0 ELSE budget[c].span
      ELSE IF now >= budget[c].span THEN 0 ELSE budget[c].span - now

\* 0 is WaitTimeout::NoWait.
Remaining(c) ==
    LET span    == budget[c].span
        elapsed == now - budget[c].start
    IN  IF budget[c].mode = "Deadline"
          THEN IF now >= span THEN 0 ELSE span - now
          ELSE IF span <= 0 \/ elapsed >= span THEN 0
               ELSE span - (IF elapsed > 0 THEN elapsed ELSE 0)

-----------------------------------------------------------------------------
(* SleepFor, SleepUntil, WaitFor, WaitUntil *)

AskedBudgets == {For(d) : d \in Durations} \cup {Until(t) : t \in Deadlines}

\* The horizon is part of the model, not of the code.
WithinHorizon(b) == b.mode = "Relative" => b.start + b.span <= EndOfTime

BeginSleep(c, b) ==
    /\ phase[c] = "resting" /\ c \in Managed
    /\ b \in AskedBudgets /\ WithinHorizon(b)
    /\ target' = [target EXCEPT ![c] = c]
    /\ budget' = [budget EXCEPT ![c] = b]
    /\ outcome' = [outcome EXCEPT ![c] = "Nothing"]
    /\ Moves(c, "checking")
    /\ UNCHANGED <<now, latched, interrupted, timerVars>>

\* A caller without a context does not sleep.
SleepUnmanaged(c) ==
    /\ phase[c] = "resting" /\ c \notin Managed
    /\ Ends(c, "Interrupted")
    /\ UNCHANGED <<now, latched, interrupted, timerVars>>

\* A slot that does not exist is refused: nothing changes.
BeginPointWait(c, p, b) ==
    /\ phase[c] = "resting" /\ p \in Points
    /\ b \in AskedBudgets /\ WithinHorizon(b)
    /\ target' = [target EXCEPT ![c] = p]
    /\ budget' = [budget EXCEPT ![c] = b]
    /\ outcome' = [outcome EXCEPT ![c] = "Nothing"]
    /\ Moves(c, "reading")
    /\ UNCHANGED <<now, latched, interrupted, timerVars>>

CheckInterruption(c) ==
    /\ phase[c] = "checking"
    /\ IF c \in interrupted THEN Ends(c, "Interrupted") ELSE GoesOn(c, "reading")
    /\ UNCHANGED <<now, latched, interrupted, timerVars>>

BudgetIsOver(c) ==
    /\ phase[c] = "reading" /\ Remaining(c) = 0
    /\ Ends(c, IF Sleeps(c) THEN "Completed" ELSE "TimedOut")
    /\ UNCHANGED <<now, latched, interrupted, timerVars>>

BudgetIsLeft(c) ==
    /\ phase[c] = "reading" /\ Remaining(c) # 0
    /\ left' = [left EXCEPT ![c] = Remaining(c)]
    /\ read' = [read EXCEPT ![c] = now]
    /\ GoesOn(c, "armed")
    /\ UNCHANGED <<now, latched, interrupted, alarm, begun>>

\* The clock may have gone on since it was read: the timeout is relative.
BeginNativeWait(c) ==
    /\ phase[c] = "armed"
    /\ alarm' = [alarm EXCEPT ![c] =
                    IF now + left[c] <= EndOfTime THEN now + left[c] ELSE EndOfTime]
    /\ begun' = [begun EXCEPT ![c] = now] /\ left' = [left EXCEPT ![c] = 0]
    /\ GoesOn(c, "asleep")
    /\ UNCHANGED <<now, latched, interrupted, read>>

Notified(c) ==
    /\ phase[c] = "asleep" /\ target[c] \in latched
    /\ latched' = latched \ {target[c]}
    /\ NativeWaitIsOver(c) /\ GoesOn(c, "notified")
    /\ UNCHANGED <<now, interrupted>>

Expired(c) ==
    /\ phase[c] = "asleep" /\ now >= alarm[c] /\ target[c] \notin latched
    /\ NativeWaitIsOver(c) /\ GoesOn(c, "expired")
    /\ UNCHANGED <<now, latched, interrupted>>

\* A provider failure ends a sleep as interrupted, whatever is asked then.
NativeWaitFails(c) ==
    /\ phase[c] = "asleep"
    /\ NativeWaitIsOver(c)
    /\ Ends(c, IF Sleeps(c) THEN "Interrupted" ELSE "ProviderFailure")
    /\ UNCHANGED <<now, latched, interrupted>>

\* Variant: a sleep ends with the first wake, as a wait on a point does.
EndsCompleted(c) == Ends(c, "Completed")

\* Variant: the native wait is repeated, and the clock not read again.
RepeatsWait(c) == GoesOn(c, "armed")

LooksAgain(c) == GoesOn(c, "checking")

\* A wake only says: look again. The loop then begins with the same question.
ResumeSleep(c) ==
    /\ phase[c] \in {"notified", "expired"} /\ Sleeps(c)
    /\ IF c \in interrupted THEN Ends(c, "Interrupted") ELSE LooksAgain(c)
    /\ UNCHANGED <<now, latched, interrupted, timerVars>>

ResumePointWait(c) ==
    /\ phase[c] \in {"notified", "expired"} /\ ~Sleeps(c)
    /\ Ends(c, IF phase[c] = "notified" THEN "Woken" ELSE "TimedOut")
    /\ UNCHANGED <<now, latched, interrupted, timerVars>>

-----------------------------------------------------------------------------
(* What others do *)

\* Wake of a point, and a targeted wake of a context for any other reason.
Wake(s) ==
    /\ latched' = latched \cup {s}
    /\ UNCHANGED <<now, interrupted, phase, callVars, timerVars, outcome>>

\* IsReady of a point: a wait that does not wait, and so takes what is latched.
IsReady(p) ==
    /\ p \in Points
    /\ latched' = latched \ {p}
    /\ UNCHANGED <<now, interrupted, phase, callVars, timerVars, outcome>>

\* The state is published first; the wake that follows is one of the wakes above.
Interrupt(c) ==
    /\ interrupted' = interrupted \cup {c}
    /\ UNCHANGED <<now, latched, phase, callVars, timerVars, outcome>>

Tick ==
    /\ now < EndOfTime
    /\ now' = now + 1
    /\ UNCHANGED <<latched, interrupted, phase, callVars, timerVars, outcome>>

-----------------------------------------------------------------------------
BeginsWait(c) ==
    \/ SleepUnmanaged(c)
    \/ \E b \in AskedBudgets :
          BeginSleep(c, b) \/ \E p \in Points : BeginPointWait(c, p, b)

Continues(c) ==
    \/ CheckInterruption(c) \/ BudgetIsOver(c) \/ BudgetIsLeft(c) \/ BeginNativeWait(c)
    \/ Notified(c) \/ Expired(c) \/ ResumeSleep(c) \/ ResumePointWait(c)

Surroundings ==
    \/ Tick
    \/ \E s \in Signals : Wake(s)
    \/ \E p \in Points : IsReady(p)
    \/ \E c \in Managed : Interrupt(c)

Next == Surroundings \/ \E c \in Callers : BeginsWait(c) \/ Continues(c) \/ NativeWaitFails(c)

Spec == Init /\ [][Next]_vars

\* The clock advances, and the Platform schedules every caller: a wait that has begun
\* goes on. Nobody has to wait, to wake or to interrupt, and nothing has to fail.
FairSpec ==
    /\ Spec
    /\ WF_vars(Tick)
    /\ \A c \in Callers : WF_vars(Continues(c))

-----------------------------------------------------------------------------
(* A sleep is Completed only when its whole budget has passed, whatever    *)
(* woke the context meanwhile (ExecutionControl::SleepWithBudget).         *)
SleepNotEarly ==
    [][\A c \in Callers :
          phase[c] # "resting" /\ Sleeps(c) /\ phase'[c] = "resting"
              /\ outcome'[c] = "Completed" => now >= Due(c)]_vars

(* "Internal wakes never restart a caller's timeout budget"                *)
(* (docs/ARCHITECTURE.MD): a native wait ends when the budget of the       *)
(* caller does, and is late only by what passed between the last reading   *)
(* of the clock and the beginning of that wait, however many wakes there   *)
(* were before. Delays do not add up.                                      *)
WakesNeverExtendBudget ==
    \A c \in Callers :
        phase[c] = "asleep" => alarm[c] <= Due(c) + (begun[c] - read[c])

(* Every bounded wait returns, though wakes may come at any rate. The      *)
(* clock advances and callers are scheduled.                               *)
WaitReturns == \A c \in Callers : phase[c] # "resting" ~> phase[c] = "resting"

-----------------------------------------------------------------------------
(* The inductive invariant *)

\* No budget begins in the future, and what is left of it is counted from the reading of
\* the clock.
LeftIsTrue ==
    \A c \in Callers :
        /\ budget[c].start <= now
        /\ phase[c] = "armed" => read[c] <= now /\ read[c] + left[c] = Due(c)
        /\ phase[c] = "asleep" => alarm[c] <= Due(c) + (begun[c] - read[c])

IInv == TypeOK /\ LeftIsTrue
=============================================================================
