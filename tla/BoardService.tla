----------------------------- MODULE BoardService -----------------------------
(***************************************************************************)
(* The board half of the backend: the handlers of routes/board.py, the     *)
(* BoardService they call, and the rows of boards and board_likes those    *)
(* change, served by a set of workers that each handle one request at a    *)
(* time inside one database transaction.                                   *)
(*                                                                         *)
(* MySQL runs at REPEATABLE READ (nothing sets another level), so the      *)
(* SELECTs of a request read the snapshot its first SELECT took, while     *)
(* INSERT, DELETE and UPDATE act on the latest committed rows and hold     *)
(* their row locks until COMMIT.  The locks are not variables: they follow *)
(* from where each worker is (RowLocked, BoardLocked).                     *)
(***************************************************************************)
EXTENDS Integers, FiniteSets

CONSTANTS Users,    \* users.id
          Boards,   \* the ids AUTO_INCREMENT can hand out
          Workers,  \* gunicorn workers, or threads of the development server
          Ops,      \* the kinds of request clients send
          NoUser,
          MaxLikes  \* bound: no like is requested of a board that shows this many

AllOps == {"create", "detail", "edit", "remove", "like", "unlike"}

ASSUME BoardAssumption ==
    /\ NoUser \notin Users
    /\ IsFiniteSet(Users)
    /\ Ops \subseteq AllOps
    /\ MaxLikes \in Nat

VARIABLES owner,    \* boards.user_id, NoUser where no such board exists
          numLike,  \* boards.num_like
          likers,   \* board_likes: for each board, the users with a row
          pc,       \* where each worker is in its request
          req,      \* the request each worker serves, NoRequest while idle
          read,     \* board.num_like as loaded into the worker's session
          answer,   \* the worker's last answer, NoAnswer while it has none
          fresh,    \* history: nothing has changed the board since the worker read it
          drifted   \* history: boards whose counter was computed from an outdated read

tables == <<owner, numLike, likers>>
history == <<fresh, drifted>>
vars == <<tables, pc, req, read, answer, history>>

Requests == [op: Ops, user: Users, board: Boards]
NoRequest == [op |-> "none"]

(* An answer is its HTTP status, and the is_liked of a detail answer. *)
Answers == [code: {0, 200, 201, 400, 500}, liked: BOOLEAN]
Plain(code) == [code |-> code, liked |-> FALSE]
NoAnswer == Plain(0)

TableTypes ==
    /\ owner \in [Boards -> Users \cup {NoUser}]
    /\ numLike \in [Boards -> Nat]
    /\ likers \in [Boards -> SUBSET Users]
WorkerTypes ==
    /\ pc \in [Workers -> {"idle", "received", "flush", "commit"}]
    /\ req \in [Workers -> Requests \cup {NoRequest}]
    /\ \A w \in Workers : pc[w] # "idle" <=> req[w] # NoRequest
    /\ read \in [Workers -> Nat]
    /\ answer \in [Workers -> Answers]
HistoryTypes ==
    /\ fresh \in [Workers -> BOOLEAN]
    /\ drifted \in SUBSET Boards

(* The counters never become negative, and every answer is one of the five. *)
TypeOK == TableTypes /\ WorkerTypes /\ HistoryTypes

Init ==
    /\ owner = [b \in Boards |-> NoUser]
    /\ numLike = [b \in Boards |-> 0]
    /\ likers = [b \in Boards |-> {}]
    /\ pc = [w \in Workers |-> "idle"]
    /\ req = [w \in Workers |-> NoRequest]
    /\ read = [w \in Workers |-> 0]
    /\ answer = [w \in Workers |-> NoAnswer]
    /\ fresh = [w \in Workers |-> FALSE]
    /\ drifted = {}

--------------------------------------------------------------------------------
User(w) == req[w].user
Board(w) == req[w].board

At(w, place, op) == pc[w] = place /\ req[w].op = op
Goto(w, place) == pc' = [pc EXCEPT ![w] = place] /\ UNCHANGED <<req, answer>>

(* The answer ends the request; close_session drops what it has loaded. *)
Answer(w, a) ==
    /\ pc' = [pc EXCEPT ![w] = "idle"]
    /\ req' = [req EXCEPT ![w] = NoRequest]
    /\ read' = [read EXCEPT ![w] = 0]
    /\ answer' = [answer EXCEPT ![w] = a]

(* The history of the reads when a worker ends without having committed. *)
Forget(w) == fresh' = [fresh EXCEPT ![w] = FALSE] /\ UNCHANGED drifted

Exists(b) == owner[b] # NoUser

InTxn(w) == pc[w] \in {"flush", "commit"}

(* Another transaction holds the row (user, board) of board_likes: it has *)
(* inserted it, or deleted it, or has found nothing to delete and so keeps *)
(* the gap closed to an insert.                                            *)
RowLocked(w) ==
    \E v \in Workers \ {w} :
        /\ pc[v] = "commit"
        /\ User(v) = User(w)
        /\ Board(v) = Board(w)
        /\ "like" \in {req[v].op, req[w].op} \/ User(w) \in likers[Board(w)]

(* The foreign key of an inserted like row keeps a shared lock on the row *)
(* of boards, which an UPDATE of that row has to wait for.                 *)
BoardLocked(w) ==
    \E v \in Workers \ {w} : At(v, "commit", "like") /\ Board(v) = Board(w)

--------------------------------------------------------------------------------
(* A request whose token names the user reaches a free worker. *)
Begin(w) ==
    /\ pc[w] = "idle"
    /\ \E r \in Requests :
          /\ r.op = "like" => numLike[r.board] < MaxLikes
          /\ req' = [req EXCEPT ![w] = r]
    /\ pc' = [pc EXCEPT ![w] = "received"]
    /\ answer' = [answer EXCEPT ![w] = NoAnswer]
    /\ UNCHANGED <<tables, read, history>>

(* POST /board/: one INSERT and its COMMIT.  The request's board stands   *)
(* for the id the row gets; a bad category or title fails the INSERT.      *)
CreateBoard(w) ==
    /\ At(w, "received", "create")
    /\ \/ /\ ~Exists(Board(w))
          /\ owner' = [owner EXCEPT ![Board(w)] = User(w)]
          /\ numLike' = [numLike EXCEPT ![Board(w)] = 0]
          /\ Answer(w, Plain(201))
       \/ UNCHANGED <<owner, numLike>> /\ Answer(w, Plain(500))
    /\ UNCHANGED <<likers, history>>

(* GET /board/detail: is_liked tells whether the reader wrote the board;  *)
(* a missing board is dereferenced and fails.                              *)
ReadDetail(w) ==
    /\ At(w, "received", "detail")
    /\ \/ /\ Exists(Board(w))
          /\ Answer(w, [code |-> 200, liked |-> User(w) = owner[Board(w)]])
       \/ ~Exists(Board(w)) /\ Answer(w, Plain(500))
    /\ UNCHANGED <<tables, history>>

(* PUT and DELETE /board/<id>: both routes call get_by_board_id without   *)
(* its second parameter, so they fail before they look at the board.       *)
EditOrRemoveBoard(w) ==
    /\ At(w, "received", "edit") \/ At(w, "received", "remove")
    /\ Answer(w, Plain(500))
    /\ UNCHANGED <<tables, history>>

(* Load the board and the like row from one snapshot. *)
Load(w) ==
    /\ read' = [read EXCEPT ![w] = numLike[Board(w)]]
    /\ fresh' = [fresh EXCEPT ![w] = TRUE]
    /\ Goto(w, "flush")

SelectLike(w) ==
    /\ At(w, "received", "like")
    /\ \/ Exists(Board(w)) /\ User(w) \notin likers[Board(w)] /\ Load(w)
       \/ /\ ~Exists(Board(w)) \/ User(w) \in likers[Board(w)]
          /\ Answer(w, Plain(400)) /\ UNCHANGED fresh
    /\ UNCHANGED <<tables, drifted>>

(* Mutant: delete_like without its check that the user likes the board. *)
SelectUnlike_Unchecked(w) ==
    /\ At(w, "received", "unlike")
    /\ \/ Exists(Board(w)) /\ Load(w)
       \/ ~Exists(Board(w)) /\ Answer(w, Plain(400)) /\ UNCHANGED fresh
    /\ UNCHANGED <<tables, drifted>>

SelectUnlike(w) ==
    /\ At(w, "received", "unlike")
    /\ \/ Exists(Board(w)) /\ User(w) \in likers[Board(w)] /\ Load(w)
       \/ /\ ~Exists(Board(w)) \/ User(w) \notin likers[Board(w)]
          /\ Answer(w, Plain(400)) /\ UNCHANGED fresh
    /\ UNCHANGED <<tables, drifted>>

(* Mutants: board_likes without its primary key, and one that does not wait *)
(* for the transaction that is inserting the same row.                     *)
InsertLike_NoPrimaryKey(w) ==
    /\ At(w, "flush", "like")
    /\ ~RowLocked(w)
    /\ Goto(w, "commit")
    /\ UNCHANGED <<tables, read, history>>
InsertLike_NoWait(w) ==
    /\ At(w, "flush", "like")
    /\ \/ User(w) \notin likers[Board(w)] /\ Goto(w, "commit") /\ UNCHANGED <<read, history>>
       \/ User(w) \in likers[Board(w)] /\ Answer(w, Plain(500)) /\ Forget(w)
    /\ UNCHANGED tables

(* INSERT INTO board_likes: a row committed since the snapshot violates   *)
(* the primary key, and the route does not catch what that raises.         *)
InsertLike(w) ==
    /\ At(w, "flush", "like")
    /\ ~RowLocked(w)
    /\ \/ User(w) \notin likers[Board(w)] /\ Goto(w, "commit") /\ UNCHANGED <<read, history>>
       \/ User(w) \in likers[Board(w)] /\ Answer(w, Plain(500)) /\ Forget(w)
    /\ UNCHANGED tables

(* DELETE FROM board_likes: matching no row is only a warning. *)
DeleteLikeRow(w) ==
    /\ At(w, "flush", "unlike")
    /\ ~RowLocked(w)
    /\ Goto(w, "commit")
    /\ UNCHANGED <<tables, read, history>>

(* What the commit of a worker means to the reads of the others. *)
NoteCommit(w) ==
    /\ fresh' = [v \in Workers |-> fresh[v] /\ Board(v) # Board(w)]
    /\ drifted' = IF fresh[w] THEN drifted ELSE drifted \cup {Board(w)}

(* board.num_like += 1 and session.commit(): UPDATE, then COMMIT. *)
CommitLike(w) ==
    /\ At(w, "commit", "like")
    /\ ~BoardLocked(w)
    /\ numLike' = [numLike EXCEPT ![Board(w)] = read[w] + 1]
    /\ likers' = [likers EXCEPT ![Board(w)] = @ \cup {User(w)}]
    /\ NoteCommit(w)
    /\ Answer(w, Plain(200))
    /\ UNCHANGED owner

(* Mutants: the counter without max(0, _), and the counter left alone. *)
CommitUnlike_NoFloor(w) ==
    /\ At(w, "commit", "unlike")
    /\ ~BoardLocked(w)
    /\ numLike' = [numLike EXCEPT ![Board(w)] = read[w] - 1]
    /\ likers' = [likers EXCEPT ![Board(w)] = @ \ {User(w)}]
    /\ NoteCommit(w)
    /\ Answer(w, Plain(200))
    /\ UNCHANGED owner
CommitUnlike_KeepsCount(w) ==
    /\ At(w, "commit", "unlike")
    /\ likers' = [likers EXCEPT ![Board(w)] = @ \ {User(w)}]
    /\ NoteCommit(w)
    /\ Answer(w, Plain(200))
    /\ UNCHANGED <<owner, numLike>>

(* Mutant: the DELETE names the board and forgets the user. *)
CommitUnlike_AllUsers(w) ==
    /\ At(w, "commit", "unlike")
    /\ numLike' = [numLike EXCEPT ![Board(w)] = IF read[w] = 0 THEN @ ELSE read[w] - 1]
    /\ likers' = [likers EXCEPT ![Board(w)] = {}]
    /\ NoteCommit(w)
    /\ Answer(w, Plain(200))
    /\ UNCHANGED owner

(* board.num_like = max(0, board.num_like - 1) and session.commit(): the  *)
(* session emits an UPDATE only for a value that differs from what it read. *)
CommitUnlike(w) ==
    /\ At(w, "commit", "unlike")
    /\ \/ read[w] = 0 /\ UNCHANGED numLike
       \/ /\ read[w] > 0
          /\ ~BoardLocked(w)
          /\ numLike' = [numLike EXCEPT ![Board(w)] = read[w] - 1]
    /\ likers' = [likers EXCEPT ![Board(w)] = @ \ {User(w)}]
    /\ NoteCommit(w)
    /\ Answer(w, Plain(200))
    /\ UNCHANGED owner

(* Mutant: a deadlock victim starts its writes over instead of failing. *)
LockFailure_Retries(w) ==
    /\ InTxn(w)
    /\ \E v \in Workers \ {w} : InTxn(v) /\ Board(v) = Board(w)
    /\ Goto(w, "flush")
    /\ UNCHANGED <<tables, read, history>>

(* InnoDB breaks a deadlock, or gives up a lock wait, by failing a        *)
(* statement of a transaction that competes for the board; the error is    *)
(* not a ValueError, so the request is rolled back and answered 500.       *)
LockFailure(w) ==
    /\ InTxn(w)
    /\ \E v \in Workers \ {w} : InTxn(v) /\ Board(v) = Board(w)
    /\ Answer(w, Plain(500))
    /\ Forget(w)
    /\ UNCHANGED tables

(* The worker process dies; MySQL rolls its transaction back. *)
Crash(w) ==
    /\ pc[w] # "idle"
    /\ Answer(w, NoAnswer)
    /\ Forget(w)
    /\ UNCHANGED tables

Serve(w) ==
    \/ CreateBoard(w) \/ ReadDetail(w) \/ EditOrRemoveBoard(w)
    \/ SelectLike(w) \/ InsertLike(w) \/ CommitLike(w)
    \/ SelectUnlike(w) \/ DeleteLikeRow(w) \/ CommitUnlike(w)
    \/ LockFailure(w)

Next == \E w \in Workers : Begin(w) \/ Serve(w) \/ Crash(w)

Spec == Init /\ [][Next]_vars

(* A worker goes on with its request for as long as it can; nothing forces *)
(* clients to send requests, or workers to die.                            *)
FairSpec == Spec /\ \A w \in Workers : WF_vars(Serve(w))

--------------------------------------------------------------------------------
(* The count a board shows is its number of likers as long as every commit *)
(* on it was computed from a snapshot that nothing had outdated: an        *)
(* overlap of requests is the only way add_like and delete_like lose       *)
(* count, neither failed requests, deadlock victims nor dead workers do.   *)
CounterExactUnlessDrifted ==
    \A b \in Boards \ drifted : numLike[b] = Cardinality(likers[b])

(* What the transactions in flight rely on.  A request in its transaction *)
(* likes or unlikes a board that exists; a board that does not exist has   *)
(* no likes; a session whose reads nothing has outdated still agrees with  *)
(* the tables; an inserted row is not yet committed by anyone, and two     *)
(* workers about to commit the same row are both deleting it.              *)
TxnsOnBoards ==
    \A w \in Workers :
        InTxn(w) => req[w].op \in {"like", "unlike"} /\ Exists(Board(w))
NoOrphanLikes == \A b \in Boards : ~Exists(b) => likers[b] = {}
FreshReads ==
    \A w \in Workers :
        fresh[w] => /\ InTxn(w)
                    /\ read[w] = numLike[Board(w)]
                    /\ req[w].op = "like" <=> User(w) \notin likers[Board(w)]
PendingRowsNew ==
    \A w \in Workers : At(w, "commit", "like") => User(w) \notin likers[Board(w)]
PendingRowsApart ==
    \A v, w \in Workers :
        /\ v # w
        /\ pc[v] = "commit" /\ pc[w] = "commit"
        /\ User(v) = User(w) /\ Board(v) = Board(w)
        => req[v].op = "unlike" /\ req[w].op = "unlike"
InFlightConsistent ==
    /\ TxnsOnBoards
    /\ NoOrphanLikes
    /\ FreshReads
    /\ PendingRowsNew
    /\ PendingRowsApart

(* An add_like answered 200 is the one that made the user a liker: of two *)
(* overlapping likes of a user (a double tap served by two workers) at     *)
(* most one is told that it succeeded.                                     *)
LikeOnce ==
    [][\A w \in Workers :
          At(w, "commit", "like") /\ pc'[w] = "idle" /\ answer'[w].code = 200 =>
              User(w) \notin likers[Board(w)] /\ User(w) \in likers'[Board(w)]]_vars

(* Every request a worker takes comes to an end, even when likers of one  *)
(* board deadlock on its row.                                              *)
EveryRequestAnswered ==
    \A w \in Workers : pc[w] # "idle" ~> pc[w] = "idle"

(* The count a board is ranked by is its number of likes, as the docstring *)
(* of get_by_num_like says.                                                *)
NumLikeIsLikeCount ==
    \A b \in Boards : numLike[b] = Cardinality(likers[b])

(* With one worker the tables move only as the ledger's: every like and   *)
(* every unlike moves the row and the count together.                      *)
Ledger == INSTANCE LikeLedger
              WITH posted <- {b \in Boards : Exists(b)}, count <- numLike
ImplementsLedger == Ledger!Spec

(* With any number of workers the rows of board_likes still move as the   *)
(* ledger's, and a ledger that counts rows could be read off them: what    *)
(* overlapping requests damage is boards.num_like alone.  Each move is one *)
(* request's that is answered as done, and moves the row of the user and   *)
(* the board which that request names.                                     *)
RowLedger == INSTANCE LikeLedger
                 WITH posted <- {b \in Boards : Exists(b)},
                      count <- [b \in Boards |-> Cardinality(likers[b])]
EntersLedger(w) ==
    /\ pc[w] # "idle" /\ pc'[w] = "idle"
    /\ \/ /\ req[w].op = "create" /\ answer'[w].code = 201
          /\ RowLedger!Post(Board(w))
       \/ /\ req[w].op = "like" /\ answer'[w].code = 200
          /\ RowLedger!Like(User(w), Board(w))
       \/ /\ req[w].op = "unlike" /\ answer'[w].code = 200
          /\ RowLedger!Unlike(User(w), Board(w))
RowsImplementLedger ==
    RowLedger!Spec /\ [][\E w \in Workers : EntersLedger(w)]_(RowLedger!ledger)

(* The author of a board can edit and remove it: such a request does not  *)
(* fail.  The docstrings of update_board and of the repository's delete    *)
(* promise it.                                                             *)
AuthorCanEdit ==
    [][\A w \in Workers :
          /\ pc[w] = "received" /\ req[w].op \in {"edit", "remove"}
          /\ Exists(Board(w)) /\ User(w) = owner[Board(w)]
          => answer'[w].code # 500]_vars
================================================================================
