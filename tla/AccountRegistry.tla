---------------------------- MODULE AccountRegistry ----------------------------
(***************************************************************************)
(* What the auth routes promise, with no worker, session, row or token in  *)
(* sight: an account is registered at one moment and for good, under a key *)
(* that had none; a login is to an account that is there, on the day it    *)
(* happens; and nothing else makes an account or a login.                  *)
(* Accounts is shown to implement it.                                      *)
(***************************************************************************)
EXTENDS Naturals

CONSTANTS Keys,      \* what tells one account from another
          Passwords

VARIABLES accounts,  \* the keys registered, each with its password
          logins,    \* who was let in, and on which day
          today

registry == <<accounts, logins, today>>

Init == accounts = {} /\ logins = {} /\ today = 0

Register(k, p) ==
    /\ \A a \in accounts : a.key # k
    /\ accounts' = accounts \cup {[key |-> k, password |-> p]}
    /\ UNCHANGED <<logins, today>>

Login(a) ==
    /\ logins' = logins \cup {[key |-> a.key, day |-> today]}
    /\ UNCHANGED <<accounts, today>>

Tick == today' = today + 1 /\ UNCHANGED <<accounts, logins>>

Next ==
    \/ \E k \in Keys, p \in Passwords : Register(k, p)
    \/ \E a \in accounts : Login(a)
    \/ Tick

Spec == Init /\ [][Next]_registry
================================================================================
