---------------------------- MODULE MCBoardService ----------------------------
(* BoardService with several workers, for TLC. *)
EXTENDS BoardService, TLC

\* Only where no liveness is checked.
Symmetry == Permutations(Users) \cup Permutations(Workers)
================================================================================
