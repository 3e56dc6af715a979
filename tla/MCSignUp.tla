------------------------------- MODULE MCSignUp -------------------------------
(* SignUp with an email of a company and one of none, for TLC. *)
EXTENDS SignUp, TLC

\* No two of them are the same to the collation.
MCFold == [e \in Emails |-> e]
================================================================================
