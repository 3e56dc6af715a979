----------------------------- MODULE CommentBook -----------------------------
(***************************************************************************)
(* What the comment API promises about comments, with no request, worker   *)
(* or transaction in sight: whoever writes a comment is its author for as  *)
(* long as it exists, one comment is rewritten or removed at a time and    *)
(* nothing else goes with it, and one that is gone never comes back.  The  *)
(* user u of a step is who takes it: CommentService is shown to implement  *)
(* the book with the user of the request for u; for MyComments, a client   *)
(* of the book, it is always the user of the phone.                        *)
(***************************************************************************)
CONSTANTS Users, Comments, Contents,
          NoUser,   \* the author of a comment that does not exist
          NoContent \* and its content

VARIABLES written, \* the comments that were ever written
          author,  \* of each comment that exists, its author
          content  \* and what it says

book == <<written, author, content>>

Own(u) == {c \in Comments : author[c] = u}

Init ==
    /\ written = {}
    /\ author = [c \in Comments |-> NoUser]
    /\ content = [c \in Comments |-> NoContent]

Write(u, c, t) ==
    /\ c \notin written
    /\ written' = written \cup {c}
    /\ author' = [author EXCEPT ![c] = u]
    /\ content' = [content EXCEPT ![c] = t]

Rewrite(u, c, t) ==
    /\ author[c] = u
    /\ content' = [content EXCEPT ![c] = t]
    /\ UNCHANGED <<written, author>>

Remove(u, c) ==
    /\ author[c] = u
    /\ author' = [author EXCEPT ![c] = NoUser]
    /\ content' = [content EXCEPT ![c] = NoContent]
    /\ UNCHANGED written

Next ==
    \E u \in Users, c \in Comments :
        \/ \E t \in Contents : Write(u, c, t) \/ Rewrite(u, c, t)
        \/ Remove(u, c)

Spec == Init /\ [][Next]_book
================================================================================
