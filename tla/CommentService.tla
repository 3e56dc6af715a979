---------------------------- MODULE CommentService ----------------------------
(***************************************************************************)
(* The comment half of the backend: the handlers of routes/comment.py, the *)
(* CommentService they call, and the rows of comments and comment_likes    *)
(* and the column boards.num_comment they change.  Workers, snapshots and  *)
(* row locks are those of BoardService.                                    *)
(*                                                                         *)
(* The boards exist already and stay.  A flush and the COMMIT right after  *)
(* it are one step: the flush takes the locks, so that no other request    *)
(* sees or changes anything in between.  Only the two like requests flush  *)
(* twice (the like row, then the counter) and hold locks across steps.     *)
(***************************************************************************)
EXTENDS Integers, FiniteSets

CONSTANTS Users, Boards, Workers,
          Comments,  \* the ids AUTO_INCREMENT can hand out, each once
          Contents,  \* texts of comments
          Ops,       \* the kinds of request clients send
          NoBoard,   \* an id of no board
          NoComment, \* the parent of a comment that is no reply
          NoUser,
          MaxLikes   \* bound: no like is requested of a comment that shows this many

AllOps == {"create", "update", "delete", "like", "unlike"}

ASSUME CommentAssumption ==
    /\ IsFiniteSet(Users) /\ NoUser \notin Users
    /\ NoBoard \notin Boards /\ Boards \cap Comments = {}
    /\ IsFiniteSet(Comments) /\ NoComment \notin Comments
    /\ Ops \subseteq AllOps
    /\ MaxLikes \in Nat

VARIABLES born,       \* the ids handed out so far
          live,       \* the comments that exist
          author,     \* comments.user_id
          on,         \* comments.board_id
          parent,     \* comments.parent_comment_id
          content,    \* comments.content
          numLike,    \* comments.num_like
          likers,     \* comment_likes: for each comment, the users with a row
          numComment, \* boards.num_comment
          pc, req,    \* each worker's place in its request, and the request
          read,       \* the counter loaded into the worker's session
          answer,     \* HTTP status of the worker's last answer, 0 for none
          fresh,      \* history: nothing has changed that counter since
          drifted     \* history: boards and comments with a counter
                      \* that was computed from an outdated read

comments == <<born, live, author, on, parent, content>>
likes == <<numLike, likers>>
tables == <<comments, likes, numComment>>
history == <<fresh, drifted>>
vars == <<tables, pc, req, read, answer, history>>

Requests ==
    {r \in [op: Ops, user: Users, comment: Comments \cup {NoComment},
            board: Boards \cup {NoBoard}, text: Contents \cup {NoComment}] :
        CASE r.op = "create" -> r.text \in Contents  \* comment is the parent
          [] r.op = "update" -> r.text \in Contents /\ r.comment \in Comments
                                  /\ r.board = NoBoard
          [] OTHER -> r.text = NoComment /\ r.comment \in Comments
                                  /\ r.board = NoBoard}
NoRequest == [op |-> "none"]

TableTypes ==
    /\ born \in SUBSET Comments /\ live \in SUBSET born
    /\ author \in [Comments -> Users \cup {NoUser}]
    /\ on \in [Comments -> Boards \cup {NoBoard}]
    /\ parent \in [Comments -> Comments \cup {NoComment}]
    /\ content \in [Comments -> Contents \cup {NoComment}]
    /\ numLike \in [Comments -> Nat]
    /\ likers \in [Comments -> SUBSET Users]
    /\ numComment \in [Boards -> Nat]
WorkerTypes ==
    /\ pc \in [Workers -> {"idle", "received", "flush", "commit"}]
    /\ req \in [Workers -> Requests \cup {NoRequest}]
    /\ \A w \in Workers : pc[w] # "idle" <=> req[w] # NoRequest
    /\ read \in [Workers -> Nat]
    /\ answer \in [Workers -> {0, 200, 201, 400, 403, 404, 500}]
HistoryTypes ==
    /\ fresh \in [Workers -> BOOLEAN]
    /\ drifted \in SUBSET (Boards \cup Comments)

(* The counters never become negative, and every answer is one of the six. *)
TypeOK == TableTypes /\ WorkerTypes /\ HistoryTypes

Init ==
    /\ born = {} /\ live = {}
    /\ author = [c \in Comments |-> NoUser]
    /\ on = [c \in Comments |-> NoBoard]
    /\ parent = [c \in Comments |-> NoComment]
    /\ content = [c \in Comments |-> NoComment]
    /\ numLike = [c \in Comments |-> 0]
    /\ likers = [c \in Comments |-> {}]
    /\ numComment = [b \in Boards |-> 0]
    /\ pc = [w \in Workers |-> "idle"]
    /\ req = [w \in Workers |-> NoRequest]
    /\ read = [w \in Workers |-> 0]
    /\ answer = [w \in Workers |-> 0]
    /\ fresh = [w \in Workers |-> FALSE]
    /\ drifted = {}

--------------------------------------------------------------------------------
User(w) == req[w].user
Target(w) == req[w].comment

At(w, place, op) == pc[w] = place /\ req[w].op = op
Goto(w, place) == pc' = [pc EXCEPT ![w] = place] /\ UNCHANGED <<req, answer>>

(* The answer ends the request; close_session drops what it has loaded. *)
Answer(w, code) ==
    /\ pc' = [pc EXCEPT ![w] = "idle"]
    /\ req' = [req EXCEPT ![w] = NoRequest]
    /\ read' = [read EXCEPT ![w] = 0]
    /\ answer' = [answer EXCEPT ![w] = code]

(* An answer that commits nothing. *)
Refuse(w, code) ==
    /\ Answer(w, code)
    /\ fresh' = [fresh EXCEPT ![w] = FALSE]
    /\ UNCHANGED <<tables, drifted>>

(* Load the counter the request is about to change. *)
Load(w, count) ==
    /\ read' = [read EXCEPT ![w] = count]
    /\ fresh' = [fresh EXCEPT ![w] = TRUE]
    /\ Goto(w, "flush")
    /\ UNCHANGED <<tables, drifted>>

InTxn(w) == pc[w] \in {"flush", "commit"}

(* The board or the comment whose counter the request of w changes. *)
Counted(w) ==
    CASE req[w].op = "create" -> req[w].board
      [] req[w].op = "delete" -> on[Target(w)]
      [] OTHER -> Target(w)

(* What the commit of w means to the reads of the others. *)
Outdated(w) == [v \in Workers |-> fresh[v] /\ Counted(v) # Counted(w)]
Drift(w) == IF fresh[w] THEN drifted ELSE drifted \cup {Counted(w)}
NoteCommit(w) == fresh' = Outdated(w) /\ drifted' = Drift(w)

(* Another transaction holds the row (user, comment) of comment_likes. *)
RowLocked(w) ==
    \E v \in Workers \ {w} :
        /\ pc[v] = "commit"
        /\ User(v) = User(w) /\ Target(v) = Target(w)
        /\ "like" \in {req[v].op, req[w].op} \/ User(w) \in likers[Target(w)]

(* Another transaction has inserted a like of c, and so shares c's row. *)
Shared(w, c) ==
    \E v \in Workers \ {w} : At(v, "commit", "like") /\ Target(v) = c

--------------------------------------------------------------------------------
Begin(w) ==
    /\ pc[w] = "idle"
    /\ \E r \in Requests :
          /\ r.op = "like" => numLike[r.comment] < MaxLikes
          /\ req' = [req EXCEPT ![w] = r]
    /\ pc' = [pc EXCEPT ![w] = "received"]
    /\ answer' = [answer EXCEPT ![w] = 0]
    /\ UNCHANGED <<tables, read, history>>

(* POST /comment/: the board, and the parent if one is named, must exist. *)
SelectBoard(w) ==
    /\ At(w, "received", "create")
    /\ LET ok == req[w].board # NoBoard /\ Target(w) \in live \cup {NoComment}
       IN  IF ok THEN Load(w, numComment[req[w].board]) ELSE Refuse(w, 400)

(* Mutants: a parent that is not checked, and a refused comment that stays *)
(* counted because the UPDATE of boards before it is not rolled back.      *)
InsertComment_NoForeignKey(w) ==
    /\ At(w, "flush", "create")
    /\ \E c \in Comments \ born :
          /\ born' = born \cup {c}
          /\ live' = live \cup {c}
          /\ author' = [author EXCEPT ![c] = User(w)]
          /\ on' = [on EXCEPT ![c] = req[w].board]
          /\ parent' = [parent EXCEPT ![c] = Target(w)]
          /\ content' = [content EXCEPT ![c] = req[w].text]
    /\ numComment' = [numComment EXCEPT ![req[w].board] = read[w] + 1]
    /\ NoteCommit(w)
    /\ Answer(w, 201)
    /\ UNCHANGED likes
InsertComment_CountsRefused(w) ==
    /\ At(w, "flush", "create")
    /\ numComment' = [numComment EXCEPT ![req[w].board] = read[w] + 1]
    /\ NoteCommit(w)
    /\ Answer(w, 500)
    /\ UNCHANGED <<comments, likes>>

(* UPDATE boards, INSERT comments, COMMIT.  A parent deleted since the    *)
(* snapshot violates the foreign key; a content the column refuses fails   *)
(* the INSERT at any time.                                                 *)
InsertComment(w) ==
    /\ At(w, "flush", "create")
    /\ \/ /\ Target(w) \in live \cup {NoComment}
          /\ \E c \in Comments \ born :
                /\ born' = born \cup {c}
                /\ live' = live \cup {c}
                /\ author' = [author EXCEPT ![c] = User(w)]
                /\ on' = [on EXCEPT ![c] = req[w].board]
                /\ parent' = [parent EXCEPT ![c] = Target(w)]
                /\ content' = [content EXCEPT ![c] = req[w].text]
          /\ numComment' = [numComment EXCEPT ![req[w].board] = read[w] + 1]
          /\ NoteCommit(w)
          /\ Answer(w, 201)
          /\ UNCHANGED likes
       \/ Refuse(w, 500)

(* Mutant: neither the route nor the service compares the author. *)
SelectOwn_AnyUser(w) ==
    /\ pc[w] = "received" /\ req[w].op \in {"update", "delete"}
    /\ \/ Target(w) \notin live /\ Refuse(w, 404)
       \/ /\ Target(w) \in live /\ req[w].op = "delete"
          /\ Load(w, numComment[on[Target(w)]])
       \/ /\ Target(w) \in live /\ req[w].op = "update"
          /\ Goto(w, "flush")
          /\ UNCHANGED <<tables, read, history>>

(* Both PUT and DELETE look the comment up and compare its author first. *)
SelectOwn(w) ==
    /\ pc[w] = "received" /\ req[w].op \in {"update", "delete"}
    /\ \/ Target(w) \notin live /\ Refuse(w, 404)
       \/ Target(w) \in live /\ User(w) # author[Target(w)] /\ Refuse(w, 403)
       \/ /\ Target(w) \in live /\ User(w) = author[Target(w)]
          /\ \/ req[w].op = "delete" /\ Load(w, numComment[on[Target(w)]])
             \/ /\ req[w].op = "update" /\ req[w].text # content[Target(w)]
                /\ Goto(w, "flush")
                /\ UNCHANGED <<tables, read, history>>
             \/ /\ req[w].op = "update" /\ req[w].text = content[Target(w)]
                /\ Refuse(w, 200)  \* nothing changed: no UPDATE is emitted

(* UPDATE comments, COMMIT.  An UPDATE that matches no row raises. *)
UpdateComment(w) ==
    /\ At(w, "flush", "update")
    /\ ~Shared(w, Target(w))
    /\ \/ /\ Target(w) \in live
          /\ content' = [content EXCEPT ![Target(w)] = req[w].text]
          /\ Answer(w, 200)
          /\ UNCHANGED <<born, live, author, on, parent, likes, numComment, history>>
       \/ Refuse(w, 500)

(* The rows a DELETE of the comment has to lock are held by another: the  *)
(* comment itself, the replies whose parent it nulls, its like rows.       *)
DeleteBlocked(w) ==
    LET c == Target(w)
    IN  \/ \E d \in live : (d = c \/ parent[d] = c) /\ Shared(w, d)
        \/ \E v \in Workers \ {w} : /\ At(v, "commit", "unlike")
                                    /\ Target(v) = c /\ User(v) \in likers[c]

(* Mutants: the counter without max(0, _), and replies that go with their  *)
(* parent (CASCADE where the schema says SET NULL).                        *)
DeleteComment_NoFloor(w) ==
    /\ At(w, "flush", "delete")
    /\ live' = live \ {Target(w)}
    /\ numComment' = [numComment EXCEPT ![on[Target(w)]] = read[w] - 1]
    /\ NoteCommit(w)
    /\ Answer(w, 200)
    /\ UNCHANGED <<born, author, on, parent, content, likes>>
DeleteComment_Cascades(w) ==
    /\ At(w, "flush", "delete")
    /\ live' = {d \in live : d # Target(w) /\ parent[d] # Target(w)}
    /\ LET b == on[Target(w)]
       IN  numComment' = [numComment EXCEPT ![b] = Cardinality({d \in live' : on[d] = b})]
    /\ NoteCommit(w)
    /\ Answer(w, 200)
    /\ UNCHANGED <<born, author, on, parent, content, likes>>

(* UPDATE boards, DELETE comment_likes, DELETE comments, COMMIT.  Replies *)
(* become roots (SET NULL), likes go (CASCADE); deleting a comment that is *)
(* gone matches no row, which is only a warning.                           *)
DeleteComment(w) ==
    /\ At(w, "flush", "delete")
    /\ ~DeleteBlocked(w)
    /\ LET c == Target(w)
       IN  /\ live' = live \ {c}
           /\ parent' = [d \in Comments |-> IF parent[d] = c THEN NoComment ELSE parent[d]]
           /\ author' = [author EXCEPT ![c] = NoUser]
           /\ content' = [content EXCEPT ![c] = NoComment]
           /\ numLike' = [numLike EXCEPT ![c] = 0]
           /\ likers' = [likers EXCEPT ![c] = {}]
           /\ numComment' = [numComment EXCEPT ![on[c]] = IF read[w] = 0 THEN @ ELSE read[w] - 1]
    /\ fresh' = Outdated(w)
    /\ drifted' = Drift(w) \ {Target(w)}
    /\ Answer(w, 200)
    /\ UNCHANGED <<born, on>>

(* POST /comment/<id>/like looks for the comment, but for no earlier like. *)
SelectForLike(w) ==
    /\ At(w, "received", "like")
    /\ IF Target(w) \in live THEN Load(w, numLike[Target(w)]) ELSE Refuse(w, 400)

(* Mutant: comment_likes without its primary key. *)
InsertLike_NoPrimaryKey(w) ==
    /\ At(w, "flush", "like")
    /\ IF Target(w) \in live THEN Goto(w, "commit") /\ UNCHANGED <<tables, read, history>>
                             ELSE Refuse(w, 500)

(* INSERT comment_likes: the primary key or the foreign key may refuse it. *)
(* The repository wraps the IntegrityError, so the service's handler for   *)
(* it is passed by and the request fails.                                  *)
InsertLike(w) ==
    /\ At(w, "flush", "like")
    /\ ~RowLocked(w)
    /\ LET free == Target(w) \in live /\ User(w) \notin likers[Target(w)]
       IN  IF free THEN Goto(w, "commit") /\ UNCHANGED <<tables, read, history>>
                   ELSE Refuse(w, 500)

(* UPDATE comments SET num_like, COMMIT. *)
CommitLike(w) ==
    /\ At(w, "commit", "like")
    /\ ~Shared(w, Target(w))
    /\ numLike' = [numLike EXCEPT ![Target(w)] = read[w] + 1]
    /\ likers' = [likers EXCEPT ![Target(w)] = @ \cup {User(w)}]
    /\ NoteCommit(w)
    /\ Answer(w, 200)
    /\ UNCHANGED <<comments, numComment>>

(* Mutant: unlike without its check that the user likes the comment. *)
SelectForUnlike_Unchecked(w) ==
    /\ At(w, "received", "unlike")
    /\ IF Target(w) \in live THEN Load(w, numLike[Target(w)]) ELSE Refuse(w, 400)

SelectForUnlike(w) ==
    /\ At(w, "received", "unlike")
    /\ IF Target(w) \in live /\ User(w) \in likers[Target(w)]
       THEN Load(w, numLike[Target(w)]) ELSE Refuse(w, 400)

(* DELETE comment_likes: matching no row is only a warning. *)
DeleteLikeRow(w) ==
    /\ At(w, "flush", "unlike")
    /\ ~RowLocked(w)
    /\ Goto(w, "commit")
    /\ UNCHANGED <<tables, read, history>>

(* Mutant: the DELETE matches the comment's rows, whoever they are of. *)
CommitUnlike_AllUsers(w) ==
    /\ At(w, "commit", "unlike")
    /\ numLike' = [numLike EXCEPT ![Target(w)] = IF read[w] = 0 THEN @ ELSE read[w] - 1]
    /\ likers' = [likers EXCEPT ![Target(w)] = {}]
    /\ NoteCommit(w)
    /\ Answer(w, 200)
    /\ UNCHANGED <<comments, numComment>>

(* num_like = max(0, num_like - 1), COMMIT: no UPDATE if it was 0, and an *)
(* UPDATE of a comment deleted meanwhile matches no row and raises.        *)
CommitUnlike(w) ==
    /\ At(w, "commit", "unlike")
    /\ read[w] > 0 => ~Shared(w, Target(w))
    /\ IF read[w] > 0 /\ Target(w) \notin live THEN Refuse(w, 500)
       ELSE /\ numLike' = [numLike EXCEPT ![Target(w)] = IF read[w] = 0 THEN @ ELSE read[w] - 1]
            /\ likers' = [likers EXCEPT ![Target(w)] = @ \ {User(w)}]
            /\ NoteCommit(w)
            /\ Answer(w, 200)
            /\ UNCHANGED <<comments, numComment>>

(* Mutant: a deadlock victim starts its writes over instead of failing. *)
LockFailure_Retries(w) ==
    /\ InTxn(w)
    /\ \E v \in Workers \ {w} : InTxn(v)
    /\ Goto(w, "flush")
    /\ UNCHANGED <<tables, read, history>>

(* InnoDB fails a statement of a transaction that competes with another,  *)
(* to break a deadlock or to end a lock wait; the request is rolled back.  *)
LockFailure(w) ==
    /\ InTxn(w)
    /\ \E v \in Workers \ {w} : InTxn(v)
    /\ Refuse(w, 500)

(* The worker process dies; MySQL rolls its transaction back. *)
Crash(w) == pc[w] # "idle" /\ Refuse(w, 0)

Serve(w) ==
    \/ SelectBoard(w) \/ InsertComment(w)
    \/ SelectOwn(w) \/ UpdateComment(w) \/ DeleteComment(w)
    \/ SelectForLike(w) \/ InsertLike(w) \/ CommitLike(w)
    \/ SelectForUnlike(w) \/ DeleteLikeRow(w) \/ CommitUnlike(w)
    \/ LockFailure(w)

Next == \E w \in Workers : Begin(w) \/ Serve(w) \/ Crash(w)

Spec == Init /\ [][Next]_vars
FairSpec == Spec /\ \A w \in Workers : WF_vars(Serve(w))

--------------------------------------------------------------------------------
(* The number of comments a board shows, and the number of likes a comment *)
(* shows, are the numbers of rows, unless a commit on that counter was     *)
(* computed from an outdated read.  Failed requests, deletions that match  *)
(* nothing and likes that die with their comment do no harm.               *)
CountersExactUnlessDrifted ==
    /\ \A b \in Boards \ drifted :
          numComment[b] = Cardinality({c \in live : on[c] = b})
    /\ \A c \in live \ drifted : numLike[c] = Cardinality(likers[c])

(* A reply's parent exists and a liked comment exists, whatever is deleted *)
(* between the moment a request finds a comment and the moment it writes.  *)
ReferentialIntegrity ==
    /\ \A c \in live : parent[c] \in live \cup {NoComment}
    /\ \A c \in Comments : likers[c] # {} => c \in live

(* The table of comments behaves like the abstract book: every commit     *)
(* writes, changes or removes one comment or leaves them all alone; so     *)
(* replies survive their parent and no comment comes back.  And each of    *)
(* these is one request's, answered as done, with the user of its token    *)
(* for the author: a new comment is this user's, and a comment this user   *)
(* did not write is neither changed nor removed, though the author was     *)
(* compared in an earlier step than the write.                             *)
Book == INSTANCE CommentBook WITH
    NoContent <- NoComment, written <- born,
    author <- [c \in Comments |-> IF c \in live THEN author[c] ELSE NoUser],
    content <- [c \in Comments |-> IF c \in live THEN content[c] ELSE NoComment]
EntersBook(w) ==
    /\ InTxn(w) /\ pc'[w] = "idle"
    /\ \/ /\ req[w].op = "create" /\ answer'[w] = 201
          /\ \E c \in Comments : Book!Write(User(w), c, req[w].text)
       \/ /\ req[w].op = "update" /\ answer'[w] = 200
          /\ Book!Rewrite(User(w), Target(w), req[w].text)
       \/ /\ req[w].op = "delete" /\ answer'[w] = 200
          /\ Book!Remove(User(w), Target(w))
ImplementsBook ==
    Book!Spec /\ [][\E w \in Workers : EntersBook(w)]_(Book!book)

(* like_comment looks for no earlier like, so that the primary key alone    *)
(* answers for this: a like answered 200 is the one that made the user a    *)
(* liker, and its comment is still there.                                   *)
LikeOnce ==
    [][\A w \in Workers :
          At(w, "commit", "like") /\ pc'[w] = "idle" /\ answer'[w] = 200 =>
              /\ Target(w) \in live'
              /\ User(w) \notin likers[Target(w)] /\ User(w) \in likers'[Target(w)]]_vars

(* A like comes and goes with a request of the user it is of, answered 200, *)
(* or goes with its comment when the comment's author removes it: the       *)
(* requests of the other users, that fail, die or overlap, move none.       *)
LikesOfTheirUsers ==
    [][\A c \in Comments, u \in Users :
          (u \in likers[c] <=> u \notin likers'[c]) =>
              \E w \in Workers :
                  /\ InTxn(w) /\ Target(w) = c
                  /\ pc'[w] = "idle" /\ answer'[w] = 200
                  /\ \/ /\ req[w].op = IF u \in likers[c] THEN "unlike" ELSE "like"
                        /\ User(w) = u
                     \/ /\ req[w].op = "delete" /\ User(w) = author[c]
                        /\ c \in live \ live']_vars

(* Every request a worker takes comes to an end. *)
EveryRequestAnswered ==
    \A w \in Workers : pc[w] # "idle" ~> pc[w] = "idle"
================================================================================
