--------------------------- MODULE MCRequestSession ---------------------------
(* RequestSession with two workers, for TLC. *)
EXTENDS RequestSession, TLC

Symmetry == Permutations(Workers)
================================================================================
