--------------------------- MODULE MCTaskFacility ---------------------------
(* Instances of TaskFacility for TLC. *)
EXTENDS TaskFacility, TLC

Image(p, S) == {IF x \in DOMAIN p THEN p[x] ELSE x : x \in S}

\* The permutations of the records and of the contexts that the roles of the contexts
\* do not tell apart.
Symmetry ==
    {p \in Permutations(Records) \cup Permutations(Workers) \cup Permutations(Clients) :
        \A S \in {Dispatchers, TaskWaiters, Faulty} : Image(p, S) = S}
=============================================================================
