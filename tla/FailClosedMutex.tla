--------------------------- MODULE FailClosedMutex ---------------------------
(***************************************************************************)
(* FailClosedOrdinaryMutexProvider: a native mutex, awaited in finite      *)
(* slices, and a latch of its own that says for good that the native mutex *)
(* has failed. The latch and the native mutex are read and written one     *)
(* after the other, never together: every such access is a step.           *)
(*                                                                         *)
(* External: the native mutex. It has at most one owner; an operation that *)
(* fails may have taken effect or not.                                     *)
(***************************************************************************)
CONSTANTS
    Callers,       \* the contexts that call Acquire and Release
    NativeFaults,  \* the native operations that may fail
    None           \* no caller

ASSUME MutexAssumption ==
    /\ NativeFaults \subseteq {"acquire", "release"}
    /\ None \notin Callers

VARIABLES
    owner,   \* _mutex: the native owner
    failed,  \* _failed
    at,      \* where each caller is
    before,  \* Release: failedBeforeRelease
    result   \* what the last call returned

vars == <<owner, failed, at, before, result>>

Locations == {"idle", "awaiting", "acquired", "backingOut", "timedOut", "critical",
              "releasing", "confirming", "marking"}

Results == {"Nothing", "Acquired", "Released", "FailedState", "ProviderFailure"}

TypeOK ==
    /\ owner \in Callers \cup {None}
    /\ failed \in BOOLEAN
    /\ at \in [Callers -> Locations]
    /\ before \in [Callers -> BOOLEAN]
    /\ result \in [Callers -> Results]

Init ==
    /\ owner = None
    /\ failed = FALSE
    /\ at = [c \in Callers |-> "idle"]
    /\ before = [c \in Callers |-> FALSE]
    /\ result = [c \in Callers |-> "Nothing"]

Goes(c, location) == at' = [at EXCEPT ![c] = location]

Returns(c, r) == Goes(c, "idle") /\ result' = [result EXCEPT ![c] = r]

IsFailed == failed

-----------------------------------------------------------------------------
(* Acquire *)

BeginAcquire(c) ==
    /\ at[c] = "idle"
    /\ IF IsFailed
         THEN Returns(c, "FailedState")
         ELSE Goes(c, "awaiting") /\ UNCHANGED result
    /\ UNCHANGED <<owner, failed, before>>

NativeAcquire(c) ==
    /\ at[c] = "awaiting" /\ owner = None
    /\ owner' = c
    /\ Goes(c, "acquired")
    /\ UNCHANGED <<failed, before, result>>

\* Variant: one native wait without an end.
WaitsForever == FALSE

\* WaitSliceNanoseconds is finite: every slice may end.
WaitSliceEnds == TRUE

NativeTimeout(c) ==
    /\ at[c] = "awaiting" /\ WaitSliceEnds
    /\ Goes(c, "timedOut")
    /\ UNCHANGED <<owner, failed, before, result>>

\* Whether the caller owns the native mutex now is not known.
NativeAcquireFails(c) ==
    /\ at[c] = "awaiting" /\ "acquire" \in NativeFaults
    /\ owner' \in {owner} \cup (IF owner = None THEN {c} ELSE {})
    /\ Goes(c, "marking")
    /\ UNCHANGED <<failed, before, result>>

RecheckTimedOut(c) ==
    /\ at[c] = "timedOut"
    /\ IF IsFailed
         THEN Returns(c, "FailedState")
         ELSE Goes(c, "awaiting") /\ UNCHANGED result
    /\ UNCHANGED <<owner, failed, before>>

\* Variant: the latch is not read again once the native mutex is owned.
TrustsNativeMutex == TRUE

MayEnter == ~IsFailed

RecheckAcquired(c) ==
    /\ at[c] = "acquired"
    /\ IF MayEnter
         THEN Goes(c, "critical") /\ result' = [result EXCEPT ![c] = "Acquired"]
         ELSE Goes(c, "backingOut") /\ UNCHANGED result
    /\ UNCHANGED <<owner, failed, before>>

\* Variant: a native release that succeeds clears the latch.
BackOutRecovered(c) ==
    /\ at[c] = "backingOut"
    /\ owner' = None /\ failed' = FALSE
    /\ Returns(c, "FailedState")
    /\ UNCHANGED before

BackOut(c) ==
    /\ at[c] = "backingOut"
    /\ owner' = None
    /\ Returns(c, "FailedState")
    /\ UNCHANGED <<failed, before>>

-----------------------------------------------------------------------------
(* Release *)

BeginRelease(c) ==
    /\ at[c] = "critical"
    /\ before' = [before EXCEPT ![c] = IsFailed]
    /\ Goes(c, "releasing")
    /\ UNCHANGED <<owner, failed, result>>

NativeRelease(c) ==
    /\ at[c] = "releasing"
    /\ owner' = None
    /\ Goes(c, "confirming")
    /\ UNCHANGED <<failed, before, result>>

\* The native mutex may be free or lost.
NativeReleaseFails(c) ==
    /\ at[c] \in {"backingOut", "releasing"} /\ "release" \in NativeFaults
    /\ owner' \in {owner, None}
    /\ Goes(c, "marking")
    /\ UNCHANGED <<failed, before, result>>

ConfirmRelease(c) ==
    /\ at[c] = "confirming"
    /\ Returns(c, IF before[c] \/ IsFailed THEN "FailedState" ELSE "Released")
    /\ UNCHANGED <<owner, failed, before>>

MarkFailed(c) ==
    /\ at[c] = "marking"
    /\ failed' = TRUE
    /\ Returns(c, "ProviderFailure")
    /\ UNCHANGED <<owner, before>>

-----------------------------------------------------------------------------
\* What a caller does of itself once it has called.
Proceeds(c) ==
    \/ NativeAcquire(c) \/ NativeTimeout(c) \/ RecheckTimedOut(c) \/ RecheckAcquired(c)
    \/ BackOut(c) \/ NativeRelease(c) \/ ConfirmRelease(c) \/ MarkFailed(c)

NativeFault(c) == NativeAcquireFails(c) \/ NativeReleaseFails(c)

Next == \E c \in Callers : BeginAcquire(c) \/ BeginRelease(c) \/ Proceeds(c) \/ NativeFault(c)

Spec == Init /\ [][Next]_vars

\* The Platform schedules every caller, so that a call that has begun goes on. Nobody has
\* to call anything, nor to leave the mutex, and nothing has to fail.
FairSpec == Spec /\ \A c \in Callers : WF_vars(Proceeds(c))

-----------------------------------------------------------------------------
(* A caller is inside from the answer Acquired to its native release. The  *)
(* native owner is no evidence of it: it may be lost.                      *)
Inside == {c \in Callers : at[c] \in {"critical", "releasing"}}

Lock == INSTANCE FailClosedLock WITH inside <- Inside, broken <- failed, told <- result

(* The mutex is a lock that fails closed: one caller at a time, although   *)
(* native operations fail with their effect unknown and their failure is   *)
(* published later; nobody enters who passes the native mutex after the    *)
(* latch is set, nobody is told Released then, and FailedState is never a  *)
(* lie (FailClosedOrdinaryMutexProvider).                                  *)
ImplementsLock == Lock!Spec

(* A caller that waits sees the failure of another although the native     *)
(* mutex is never given up (docs/DEDICATED-THREAD-WAKE-AND-MUTEX.MD).      *)
WaiterSeesFailure ==
    \A c \in Callers : failed /\ at[c] = "awaiting" ~> at[c] = "idle"

-----------------------------------------------------------------------------
(* The inductive invariant *)

\* Whoever has passed the native mutex owns it, until its native release.
NativeOwnership ==
    \A c \in Callers :
        at[c] \in {"acquired", "backingOut", "critical", "releasing"} => owner = c

\* What a caller remembers of the latch is true of it still.
LatchIsSticky ==
    \A c \in Callers :
        /\ at[c] = "backingOut" => failed
        /\ at[c] = "confirming" /\ before[c] => failed
        /\ at[c] = "releasing" /\ before[c] => failed

\* Until Release returns, the last answer is that of Acquire.
AnswerStands ==
    \A c \in Callers :
        at[c] \in {"critical", "releasing", "confirming"} => result[c] = "Acquired"

IInv == TypeOK /\ NativeOwnership /\ LatchIsSticky /\ AnswerStands
=============================================================================
