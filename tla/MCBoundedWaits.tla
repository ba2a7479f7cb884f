--------------------------- MODULE MCBoundedWaits ---------------------------
(* The instance of BoundedWaits for TLC: a duration that is over at once, one  *)
(* that is not, and a deadline that may lie in the past.                      *)
EXTENDS BoundedWaits

MCDurations == {-1, 1, 2}
MCDeadlines == {2}
=============================================================================
