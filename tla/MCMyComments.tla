----------------------------- MODULE MCMyComments -----------------------------
(* MyComments with a few comments and calls, for TLC. *)
EXTENDS MyComments

\* Only where no liveness is checked.
Symmetry == Permutations(Comments) \cup Permutations(Contents)
================================================================================
