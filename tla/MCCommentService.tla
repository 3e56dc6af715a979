--------------------------- MODULE MCCommentService ---------------------------
(* CommentService with a few users, comments and workers, for TLC. *)
EXTENDS CommentService, TLC

Symmetry == Permutations(Users) \cup Permutations(Comments) \cup Permutations(Workers)
================================================================================
