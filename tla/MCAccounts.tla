------------------------------ MODULE MCAccounts ------------------------------
(* Accounts with emails that differ in case only, for TLC. *)
EXTENDS Accounts, TLC

MCFold == [e \in Emails |-> IF e = "Kim@a" THEN "kim@a" ELSE e]
Symmetry == Permutations(Workers) \cup Permutations(Ids) \cup Permutations(Passwords)
================================================================================
