------------------------------ MODULE LikeLedger ------------------------------
(***************************************************************************)
(* What the board API promises about likes, with no request, transaction   *)
(* or worker in sight: a user likes a posted board at most once, and the   *)
(* count a board shows moves by one with every like and every unlike.      *)
(* BoardService is shown to implement it when one worker serves; however   *)
(* many serve, its rows do, with the number of rows for the count, and the *)
(* user of the request for u.                                              *)
(***************************************************************************)
EXTENDS Integers, FiniteSets

CONSTANTS Users, Boards

VARIABLES posted,  \* the boards that exist
          likers,  \* for each board, the users who like it
          count    \* for each board, the number of likes it shows

ledger == <<posted, likers, count>>

Init ==
    /\ posted = {}
    /\ likers = [b \in Boards |-> {}]
    /\ count = [b \in Boards |-> 0]

Post(b) ==
    /\ b \notin posted
    /\ posted' = posted \cup {b}
    /\ UNCHANGED <<likers, count>>

Like(u, b) ==
    /\ b \in posted
    /\ u \notin likers[b]
    /\ likers' = [likers EXCEPT ![b] = @ \cup {u}]
    /\ count' = [count EXCEPT ![b] = @ + 1]
    /\ UNCHANGED posted

Unlike(u, b) ==
    /\ b \in posted
    /\ u \in likers[b]
    /\ likers' = [likers EXCEPT ![b] = @ \ {u}]
    /\ count' = [count EXCEPT ![b] = @ - 1]
    /\ UNCHANGED posted

Next ==
    \/ \E b \in Boards : Post(b)
    \/ \E u \in Users, b \in Boards : Like(u, b) \/ Unlike(u, b)

Spec == Init /\ [][Next]_ledger
================================================================================
