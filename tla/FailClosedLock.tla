--------------------------- MODULE FailClosedLock ---------------------------
(***************************************************************************)
(* What FailClosedOrdinaryMutexProvider promises: a mutex that breaks for  *)
(* good. As long as it is whole it admits one caller at a time; once it is *)
(* broken it admits nobody, and nobody is told that all went well.         *)
(***************************************************************************)
CONSTANT Callers

VARIABLES
    inside,  \* the callers between an Acquire that succeeded and their Release
    broken,  \* the failure latch
    told     \* what the last call of each caller returned

lockVars == <<inside, broken, told>>

Answers == {"Nothing", "Acquired", "Released", "FailedState", "ProviderFailure"}

Tell(c, answer) == told' = [told EXCEPT ![c] = answer]

Init ==
    /\ inside = {}
    /\ broken = FALSE
    /\ told = [c \in Callers |-> "Nothing"]

Enter(c) ==
    /\ inside = {} /\ ~broken
    /\ inside' = {c}
    /\ Tell(c, "Acquired")
    /\ UNCHANGED broken

\* The next caller may enter before the one that leaves knows how its Release went.
Leave(c) ==
    /\ inside = {c}
    /\ inside' = {}
    /\ UNCHANGED <<broken, told>>

Confirm(c) ==
    /\ c \notin inside /\ told[c] = "Acquired" /\ ~broken
    /\ Tell(c, "Released")
    /\ UNCHANGED <<inside, broken>>

Refuse(c) ==
    /\ c \notin inside /\ broken
    /\ Tell(c, "FailedState")
    /\ UNCHANGED <<inside, broken>>

Break(c) ==
    /\ c \notin inside
    /\ broken' = TRUE
    /\ Tell(c, "ProviderFailure")
    /\ UNCHANGED inside

Next == \E c \in Callers : Enter(c) \/ Leave(c) \/ Confirm(c) \/ Refuse(c) \/ Break(c)

Spec == Init /\ [][Next]_lockVars
=============================================================================
