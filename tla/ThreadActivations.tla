------------------------- MODULE ThreadActivations -------------------------
(***************************************************************************)
(* What the Dedicated Threads promise to those who start, stop and join    *)
(* them. The activations of a thread are numbered: one begins only when    *)
(* the one before it has ended, its callable runs at most once, it ends    *)
(* after its callable has returned, and no thread that shutdown has        *)
(* reached begins another. A Join that returns Joined was of an activation *)
(* that has ended. Signals, the mutexes, the phase bit and the lists of    *)
(* waiters are not seen.                                                   *)
(***************************************************************************)
EXTENDS Naturals

CONSTANTS Threads, Callers

VARIABLES
    begun,    \* how many activations of each thread have begun
    ended,    \* how many of them have ended
    taken,    \* the activation whose callable each thread ran last
    inside,   \* the threads that are inside a callable
    asked,    \* those whose activation was asked to stop
    retired,  \* the threads that shutdown has reached
    joins,    \* the Joins that wait for the activation they captured
    leaving   \* the callers that have given up a Join

promised == <<begun, ended, taken, inside, asked, retired, joins, leaving>>

IsActive(t) == ended[t] < begun[t]

Init ==
    /\ begun = [t \in Threads |-> 0]
    /\ ended = [t \in Threads |-> 0]
    /\ taken = [t \in Threads |-> 0]
    /\ inside = {} /\ asked = {} /\ retired = {}
    /\ joins = {} /\ leaving = {}

Begin(t) ==
    /\ ~IsActive(t) /\ t \notin retired
    /\ begun' = [begun EXCEPT ![t] = @ + 1]
    /\ UNCHANGED <<ended, taken, inside, asked, retired, joins, leaving>>

TakeUp(t) ==
    /\ IsActive(t) /\ taken[t] < begun[t]
    /\ taken' = [taken EXCEPT ![t] = begun[t]]
    /\ inside' = inside \cup {t}
    /\ UNCHANGED <<begun, ended, asked, retired, joins, leaving>>

Return(t) ==
    /\ t \in inside
    /\ inside' = inside \ {t}
    /\ UNCHANGED <<begun, ended, taken, asked, retired, joins, leaving>>

End(t) ==
    /\ IsActive(t) /\ taken[t] = begun[t] /\ t \notin inside
    /\ ended' = [ended EXCEPT ![t] = begun[t]]
    /\ asked' = asked \ {t}
    /\ UNCHANGED <<begun, taken, inside, retired, joins, leaving>>

Ask(t) ==
    /\ IsActive(t) /\ t \notin asked
    /\ asked' = asked \cup {t}
    /\ UNCHANGED <<begun, ended, taken, inside, retired, joins, leaving>>

\* Shutdown reaches the thread: what runs is asked to stop, and nothing follows it.
Retire(t) ==
    /\ t \notin retired
    /\ retired' = retired \cup {t}
    /\ asked' = IF IsActive(t) THEN asked \cup {t} ELSE asked
    /\ UNCHANGED <<begun, ended, taken, inside, joins, leaving>>

Join(c, t) ==
    /\ IsActive(t) /\ c \notin leaving /\ \A j \in joins : j.caller # c
    /\ joins' = joins \cup {[caller |-> c, thread |-> t, activation |-> begun[t]]}
    /\ UNCHANGED <<begun, ended, taken, inside, asked, retired, leaving>>

Joined(j) ==
    /\ j \in joins /\ j.activation <= ended[j.thread]
    /\ joins' = joins \ {j}
    /\ UNCHANGED <<begun, ended, taken, inside, asked, retired, leaving>>

GiveUp(j) ==
    /\ j \in joins
    /\ joins' = joins \ {j}
    /\ leaving' = leaving \cup {j.caller}
    /\ UNCHANGED <<begun, ended, taken, inside, asked, retired>>

Leave(c) ==
    /\ c \in leaving
    /\ leaving' = leaving \ {c}
    /\ UNCHANGED <<begun, ended, taken, inside, asked, retired, joins>>

Next ==
    \/ \E t \in Threads :
          Begin(t) \/ TakeUp(t) \/ Return(t) \/ End(t) \/ Ask(t) \/ Retire(t)
    \/ \E c \in Callers : Leave(c) \/ \E t \in Threads : Join(c, t)
    \/ \E j \in joins : Joined(j) \/ GiveUp(j)

Spec == Init /\ [][Next]_promised
=============================================================================
