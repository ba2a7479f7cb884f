------------------------- MODULE MCDedicatedThread -------------------------
(* Instances of DedicatedThread for TLC. *)
EXTENDS DedicatedThread, TLC

Image(p, S) == {IF x \in DOMAIN p THEN p[x] ELSE x : x \in S}

\* The permutations of the threads that their signal providers do not tell apart.
Symmetry == {p \in Permutations(Threads) : Image(p, Faulty) = Faulty}
=============================================================================
