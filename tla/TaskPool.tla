------------------------------ MODULE TaskPool ------------------------------
(***************************************************************************)
(* What a Task facility promises to those who dispatch Tasks: a fixed      *)
(* number of slots, each reused only when nobody cares for its Task any    *)
(* more; Tasks are started in the order of their admission, each by a      *)
(* Worker that has no other, and end once. Waiting, waking, the mutex and  *)
(* the representation of records, queue and grants are not seen.           *)
(***************************************************************************)
CONSTANTS Slots, Workers, None

VARIABLES
    status,  \* what became of the Task in each slot
    owned,   \* the slots somebody holds or will hold the handle of
    worker,  \* the Worker each Task executes on
    ahead    \* for each queued Task those that are started before it

poolVars == <<status, owned, worker, ahead>>

Executing == {"Running", "RunningCancelRequested"}
Finished  == {"Completed", "Cancelled"}

Becomes(s, x) == status' = [status EXCEPT ![s] = x]

\* A Task that is not owned may leave its slot with its end.
Ends(s, x, own) == Becomes(s, x) \/ (s \notin own /\ Becomes(s, "Free"))

LeavesQueue(s) == ahead' = [q \in Slots |-> IF q = s THEN {} ELSE ahead[q] \ {s}]

Init ==
    /\ status = [s \in Slots |-> "Free"]
    /\ owned = {}
    /\ worker = [s \in Slots |-> None]
    /\ ahead = [s \in Slots |-> {}]

Admit(s) ==
    /\ status[s] = "Free"
    /\ Becomes(s, "Queued")
    /\ owned' = owned \cup {s}
    /\ ahead' = [ahead EXCEPT ![s] = {q \in Slots : status[q] = "Queued"}]
    /\ UNCHANGED worker

Start(s, w) ==
    /\ status[s] = "Queued" /\ ahead[s] = {}
    /\ \A q \in Slots : worker[q] # w
    /\ Becomes(s, "Running")
    /\ worker' = [worker EXCEPT ![s] = w]
    /\ LeavesQueue(s)
    /\ UNCHANGED owned

CancelQueued(s) ==
    /\ status[s] = "Queued"
    /\ Becomes(s, "Cancelled")
    /\ LeavesQueue(s)
    /\ UNCHANGED <<owned, worker>>

RequestCancel(s) ==
    /\ status[s] = "Running"
    /\ Becomes(s, "RunningCancelRequested")
    /\ UNCHANGED <<owned, worker, ahead>>

\* Shutdown.
CancelAll ==
    /\ status' = [s \in Slots |-> CASE status[s] = "Queued"  -> "Cancelled"
                                    [] status[s] = "Running" -> "RunningCancelRequested"
                                    [] OTHER -> status[s]]
    /\ ahead' = [s \in Slots |-> {}]
    /\ UNCHANGED <<owned, worker>>

Finish(s) ==
    /\ status[s] \in Executing
    /\ \E x \in Finished : Ends(s, x, owned)
    /\ worker' = [worker EXCEPT ![s] = None]
    /\ UNCHANGED <<owned, ahead>>

\* Nobody will ask for the Task any more: a queued one is never started.
Disown(s) ==
    /\ s \in owned
    /\ owned' = owned \ {s}
    /\ \/ status[s] = "Queued" /\ Ends(s, "Cancelled", owned') /\ LeavesQueue(s)
       \/ status[s] \in Executing /\ UNCHANGED <<status, ahead>>
       \/ status[s] \in Finished /\ Ends(s, status[s], owned') /\ UNCHANGED ahead
    /\ UNCHANGED worker

\* The last waiter of a Task has gone.
Reclaim(s) ==
    /\ status[s] \in Finished /\ s \notin owned
    /\ Becomes(s, "Free")
    /\ UNCHANGED <<owned, worker, ahead>>

Next ==
    \/ \E s \in Slots :
          \/ Admit(s) \/ CancelQueued(s) \/ RequestCancel(s)
          \/ Finish(s) \/ Disown(s) \/ Reclaim(s)
          \/ \E w \in Workers : Start(s, w)
    \/ CancelAll

Spec == Init /\ [][Next]_poolVars
=============================================================================
