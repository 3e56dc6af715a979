-------------------------- MODULE BoardServiceProofs --------------------------
(***************************************************************************)
(* Proofs about BoardService, for any number of users, boards and workers: *)
(* its type invariant, the invariant of the transactions in flight, what   *)
(* they give (exact counters, likes that succeed once), and that one       *)
(* worker implements LikeLedger.                                           *)
(***************************************************************************)
EXTENDS BoardService, FiniteSetTheorems, TLAPS

(* A worker that is not idle serves a request with a kind, a user and a board. *)
LEMMA RequestFields ==
    ASSUME TypeOK, NEW w \in Workers, pc[w] # "idle"
    PROVE  /\ req[w].op \in AllOps
           /\ User(w) \in Users
           /\ Board(w) \in Boards
<1>1. req[w] \in Requests
  BY DEF TypeOK, WorkerTypes
<1>2. QED
  BY <1>1, BoardAssumption DEF Requests, User, Board

(* NoRequest is none of the requests a client can send. *)
LEMMA NoRequestApart == NoRequest \notin Requests
<1>1. NoRequest.op = "none"
  BY DEF NoRequest
<1>2. "none" \notin Ops
  BY BoardAssumption DEF AllOps
<1>3. QED
  BY <1>1, <1>2 DEF Requests

(* Ending a request, and going on with it, keep the worker's types. *)
LEMMA AnswerTypes ==
    ASSUME TypeOK, NEW w \in Workers, NEW a \in Answers, Answer(w, a)
    PROVE  WorkerTypes'
BY DEF TypeOK, WorkerTypes, Answer, Requests

LEMMA GotoTypes ==
    ASSUME TypeOK, NEW w \in Workers, pc[w] # "idle",
           NEW place \in {"flush", "commit"}, Goto(w, place), read' \in [Workers -> Nat]
    PROVE  WorkerTypes'
BY DEF TypeOK, WorkerTypes, Goto, Requests

LEMMA PlainAnswers == \A c \in {0, 200, 201, 400, 500} : Plain(c) \in Answers
BY DEF Plain, Answers

(* Every step of a worker in its request keeps the types. *)
LEMMA ServeTypes ==
    ASSUME TypeOK, NEW w \in Workers, Serve(w)
    PROVE  TypeOK'
<1>1. pc[w] # "idle"
  BY DEF Serve, At, CreateBoard, ReadDetail, EditOrRemoveBoard, SelectLike,
         SelectUnlike, InsertLike, DeleteLikeRow, CommitLike, CommitUnlike,
         LockFailure, InTxn
<1>2. User(w) \in Users /\ Board(w) \in Boards
  BY <1>1, RequestFields
<1> USE <1>1, <1>2, PlainAnswers
<1>3. CASE CreateBoard(w)
  <2>1. WorkerTypes'
    BY <1>3, AnswerTypes DEF CreateBoard
  <2>2. TableTypes' /\ HistoryTypes'
    BY <1>3 DEF CreateBoard, TypeOK, TableTypes, HistoryTypes, history
  <2>3. QED
    BY <2>1, <2>2 DEF TypeOK
<1>4. CASE ReadDetail(w)
  <2>1. [code |-> 200, liked |-> User(w) = owner[Board(w)]] \in Answers
    BY DEF Answers
  <2>2. WorkerTypes'
    BY <1>4, <2>1, AnswerTypes DEF ReadDetail
  <2>3. QED
    BY <1>4, <2>2 DEF ReadDetail, TypeOK, TableTypes, HistoryTypes, tables, history
<1>5. CASE EditOrRemoveBoard(w)
  <2>1. WorkerTypes'
    BY <1>5, AnswerTypes DEF EditOrRemoveBoard
  <2>2. QED
    BY <1>5, <2>1 DEF EditOrRemoveBoard, TypeOK, TableTypes, HistoryTypes, tables, history
<1>6. CASE SelectLike(w) \/ SelectUnlike(w)
  <2>1. CASE Answer(w, Plain(400)) /\ UNCHANGED fresh
    <3>1. WorkerTypes'
      BY <2>1, AnswerTypes
    <3>2. QED
      BY <1>6, <2>1, <3>1
         DEF SelectLike, SelectUnlike, TypeOK, TableTypes, HistoryTypes, tables
  <2>2. CASE Load(w)
    <3>1. read' \in [Workers -> Nat] /\ fresh' \in [Workers -> BOOLEAN]
      BY <2>2 DEF Load, TypeOK, TableTypes, WorkerTypes, HistoryTypes
    <3>2. WorkerTypes'
      BY <2>2, <3>1, GotoTypes DEF Load
    <3>3. QED
      BY <1>6, <3>1, <3>2
         DEF SelectLike, SelectUnlike, TypeOK, TableTypes, HistoryTypes, tables
  <2>3. QED
    BY <1>6, <2>1, <2>2 DEF SelectLike, SelectUnlike
<1>7. CASE InsertLike(w) \/ DeleteLikeRow(w)
  <2>1. CASE Goto(w, "commit") /\ UNCHANGED <<read, history>>
    <3>1. WorkerTypes'
      BY <2>1, GotoTypes DEF TypeOK, WorkerTypes
    <3>2. QED
      BY <1>7, <2>1, <3>1
         DEF InsertLike, DeleteLikeRow, TypeOK, TableTypes, HistoryTypes, tables, history
  <2>2. CASE Answer(w, Plain(500)) /\ Forget(w)
    <3>1. WorkerTypes'
      BY <2>2, AnswerTypes
    <3>2. QED
      BY <1>7, <2>2, <3>1
         DEF InsertLike, DeleteLikeRow, Forget, TypeOK, TableTypes, HistoryTypes, tables
  <2>3. QED
    BY <1>7, <2>1, <2>2 DEF InsertLike, DeleteLikeRow
<1>8. CASE CommitLike(w) \/ CommitUnlike(w)
  <2>1. WorkerTypes'
    BY <1>8, AnswerTypes DEF CommitLike, CommitUnlike
  <2>2. HistoryTypes'
    BY <1>8 DEF CommitLike, CommitUnlike, NoteCommit, TypeOK, HistoryTypes
  <2>3. TableTypes'
    BY <1>8 DEF CommitLike, CommitUnlike, TypeOK, TableTypes, WorkerTypes
  <2>4. QED
    BY <2>1, <2>2, <2>3 DEF TypeOK
<1>9. CASE LockFailure(w)
  <2>1. WorkerTypes'
    BY <1>9, AnswerTypes DEF LockFailure
  <2>2. QED
    BY <1>9, <2>1 DEF LockFailure, Forget, TypeOK, TableTypes, HistoryTypes, tables
<1>10. QED
  BY <1>3, <1>4, <1>5, <1>6, <1>7, <1>8, <1>9 DEF Serve

LEMMA TypeStep == TypeOK /\ [Next]_vars => TypeOK'
<1> SUFFICES ASSUME TypeOK, [Next]_vars
             PROVE  TypeOK'
  OBVIOUS
<1>1. ASSUME NEW w \in Workers, Begin(w)
      PROVE  TypeOK'
  <2>1. PICK r \in Requests : req' = [req EXCEPT ![w] = r]
    BY <1>1 DEF Begin
  <2>2. WorkerTypes'
    BY <1>1, <2>1, NoRequestApart, PlainAnswers
       DEF Begin, TypeOK, WorkerTypes, NoAnswer
  <2>3. QED
    BY <1>1, <2>2 DEF Begin, TypeOK, TableTypes, HistoryTypes, tables, history
<1>2. ASSUME NEW w \in Workers, Serve(w)
      PROVE  TypeOK'
  BY <1>2, ServeTypes
<1>3. ASSUME NEW w \in Workers, Crash(w)
      PROVE  TypeOK'
  <2>1. WorkerTypes'
    BY <1>3, AnswerTypes, PlainAnswers DEF Crash, NoAnswer
  <2>2. QED
    BY <1>3, <2>1 DEF Crash, Forget, TypeOK, TableTypes, HistoryTypes, tables
<1>4. CASE UNCHANGED vars
  BY <1>4 DEF vars, tables, history, TypeOK, TableTypes, WorkerTypes, HistoryTypes
<1>5. QED
  BY <1>1, <1>2, <1>3, <1>4 DEF Next

(* Type correctness of every reachable state. *)
THEOREM TypeInvariant == Spec => []TypeOK
<1>1. Init => TypeOK
  BY PlainAnswers DEF Init, TypeOK, TableTypes, WorkerTypes, HistoryTypes, NoAnswer
<1> QED
  BY <1>1, TypeStep, PTL DEF Spec
--------------------------------------------------------------------------------
(* The steps that change no table and let no worker into a transaction: a *)
(* worker arrives, or ends, and the others stay as they are.               *)
LEMMA OutOfTxn ==
    ASSUME TypeOK, InFlightConsistent, NEW w \in Workers,
           UNCHANGED tables,
           \A v \in Workers \ {w} : /\ pc'[v] = pc[v] /\ req'[v] = req[v]
                                    /\ read'[v] = read[v] /\ fresh'[v] = fresh[v],
           pc'[w] \in {"idle", "received"}, ~fresh'[w]
    PROVE  InFlightConsistent'
<1> USE DEF InFlightConsistent, tables, InTxn, Exists, User, Board, At
<1>1. TxnsOnBoards'
  BY DEF TxnsOnBoards
<1>2. NoOrphanLikes'
  BY DEF NoOrphanLikes
<1>3. FreshReads'
  BY DEF FreshReads
<1>4. PendingRowsNew'
  BY DEF PendingRowsNew
<1>5. PendingRowsApart'
  BY DEF PendingRowsApart
<1>6. QED
  BY <1>1, <1>2, <1>3, <1>4, <1>5

(* A worker outside a transaction holds no fresh read. *)
LEMMA NotFresh ==
    ASSUME FreshReads, NEW w \in Workers, ~InTxn(w)
    PROVE  ~fresh[w]
BY DEF FreshReads

(* A new board: nobody is in a transaction on it. *)
LEMMA CreateStep ==
    ASSUME TypeOK, InFlightConsistent, NEW w \in Workers, CreateBoard(w)
    PROVE  InFlightConsistent'
<1>1. pc[w] = "received" /\ Board(w) \in Boards /\ User(w) \in Users
  BY RequestFields DEF CreateBoard, At
<1>2. ~fresh[w]
  BY <1>1, NotFresh DEF InFlightConsistent, InTxn
<1>3. /\ \A v \in Workers \ {w} : /\ pc'[v] = pc[v] /\ req'[v] = req[v]
                                  /\ read'[v] = read[v]
      /\ pc'[w] = "idle"
      /\ UNCHANGED <<likers, fresh>>
  BY DEF CreateBoard, Answer, TypeOK, WorkerTypes, history
<1>4. CASE UNCHANGED tables
  BY <1>2, <1>3, <1>4, OutOfTxn
<1>5. CASE /\ ~Exists(Board(w))
           /\ owner' = [owner EXCEPT ![Board(w)] = User(w)]
           /\ numLike' = [numLike EXCEPT ![Board(w)] = 0]
  <2>1. \A b \in Boards : b # Board(w) => owner'[b] = owner[b] /\ numLike'[b] = numLike[b]
    BY <1>1, <1>5 DEF TypeOK, TableTypes
  <2>2. owner'[Board(w)] # NoUser
    BY <1>1, <1>5, BoardAssumption DEF TypeOK, TableTypes
  <2>3. \A v \in Workers \ {w} : InTxn(v) => Board(v) \in Boards /\ Board(v) # Board(w)
    BY <1>5, RequestFields DEF InFlightConsistent, TxnsOnBoards, InTxn
  <2>4. TxnsOnBoards'
    BY <1>3, <2>1, <2>3 DEF InFlightConsistent, TxnsOnBoards, InTxn, Exists, Board
  <2>5. NoOrphanLikes'
    BY <1>3, <2>1, <2>2 DEF InFlightConsistent, NoOrphanLikes, Exists
  <2>6. FreshReads'
    BY <1>2, <1>3, <2>1, <2>3 DEF InFlightConsistent, FreshReads, InTxn, Board, User
  <2>7. PendingRowsNew'
    BY <1>3 DEF InFlightConsistent, PendingRowsNew, At, Board, User
  <2>8. PendingRowsApart'
    BY <1>3 DEF InFlightConsistent, PendingRowsApart, Board, User
  <2>9. QED
    BY <2>4, <2>5, <2>6, <2>7, <2>8 DEF InFlightConsistent
<1>6. QED
  BY <1>4, <1>5 DEF CreateBoard, tables

(* The snapshot of a like or an unlike: what it loads is what the tables hold. *)
LEMMA LoadStep ==
    ASSUME TypeOK, InFlightConsistent, NEW w \in Workers,
           pc[w] = "received", Exists(Board(w)), Load(w), UNCHANGED tables,
           req[w].op \in {"like", "unlike"},
           req[w].op = "like" <=> User(w) \notin likers[Board(w)]
    PROVE  InFlightConsistent'
<1>1. /\ \A v \in Workers \ {w} : /\ pc'[v] = pc[v] /\ req'[v] = req[v]
                                  /\ read'[v] = read[v] /\ fresh'[v] = fresh[v]
      /\ pc'[w] = "flush" /\ req'[w] = req[w] /\ read'[w] = numLike[Board(w)]
  BY DEF Load, Goto, TypeOK, WorkerTypes, HistoryTypes
<1> USE <1>1 DEF InFlightConsistent, tables, InTxn, Exists, User, Board, At
<1>2. TxnsOnBoards'
  BY DEF TxnsOnBoards
<1>3. NoOrphanLikes'
  BY DEF NoOrphanLikes
<1>4. FreshReads'
  BY DEF FreshReads
<1>5. PendingRowsNew'
  BY DEF PendingRowsNew
<1>6. PendingRowsApart'
  BY DEF PendingRowsApart
<1>7. QED
  BY <1>2, <1>3, <1>4, <1>5, <1>6

(* The write of the like row: the row lock keeps two workers from holding *)
(* the same row, unless both delete it.                                    *)
LEMMA FlushStep ==
    ASSUME TypeOK, InFlightConsistent, NEW w \in Workers,
           pc[w] = "flush", ~RowLocked(w), Goto(w, "commit"),
           req[w].op = "like" => User(w) \notin likers[Board(w)],
           UNCHANGED <<tables, read, history>>
    PROVE  InFlightConsistent'
<1>1. \A v \in Workers \ {w} : pc'[v] = pc[v] /\ req'[v] = req[v]
  BY DEF Goto, TypeOK, WorkerTypes
<1>2. pc'[w] = "commit" /\ req'[w] = req[w]
  BY DEF Goto, TypeOK, WorkerTypes
<1> USE <1>1, <1>2 DEF InFlightConsistent, tables, history, InTxn, Exists, User, Board, At
<1>3. TxnsOnBoards'
  BY DEF TxnsOnBoards
<1>4. NoOrphanLikes'
  BY DEF NoOrphanLikes
<1>5. FreshReads'
  BY DEF FreshReads
<1>6. PendingRowsNew'
  BY DEF PendingRowsNew
<1>7. PendingRowsApart'
  <2>1. ASSUME NEW v \in Workers \ {w}, pc[v] = "commit",
               User(v) = User(w), Board(v) = Board(w)
        PROVE  req[v].op = "unlike" /\ req[w].op = "unlike"
    <3>1. req[v].op # "like" /\ req[w].op # "like"
      BY <2>1 DEF RowLocked
    <3>2. QED
      BY <2>1, <3>1 DEF TxnsOnBoards
  <2>2. QED
    BY <2>1 DEF PendingRowsApart
<1>8. QED
  BY <1>3, <1>4, <1>5, <1>6, <1>7

(* A commit: no other transaction holds the row it inserts, and those that *)
(* have read the board are no longer fresh.                                *)
LEMMA CommitStep ==
    ASSUME TypeOK, InFlightConsistent, NEW w \in Workers,
           CommitLike(w) \/ CommitUnlike(w)
    PROVE  InFlightConsistent'
<1> DEFINE b == Board(w)
<1>1. /\ pc[w] = "commit" /\ User(w) \in Users /\ b \in Boards
      /\ req[w].op \in {"like", "unlike"}
  BY RequestFields DEF CommitLike, CommitUnlike, At
<1>2. /\ \A v \in Workers \ {w} : pc'[v] = pc[v] /\ req'[v] = req[v] /\ read'[v] = read[v]
      /\ pc'[w] = "idle"
      /\ UNCHANGED owner
  BY DEF CommitLike, CommitUnlike, Answer, TypeOK, WorkerTypes
<1>3. \A v \in Workers : fresh'[v] <=> fresh[v] /\ Board(v) # b
  BY DEF CommitLike, CommitUnlike, NoteCommit, TypeOK, HistoryTypes
<1>4. \A c \in Boards : c # b => likers'[c] = likers[c] /\ numLike'[c] = numLike[c]
  BY DEF CommitLike, CommitUnlike, TypeOK, TableTypes
<1>5. Exists(b)
  BY <1>1 DEF InFlightConsistent, TxnsOnBoards, InTxn
<1>6. \A v \in Workers \ {w} : InTxn(v) => Board(v) \in Boards
  BY RequestFields DEF InTxn
<1>7. TxnsOnBoards'
  BY <1>2 DEF InFlightConsistent, TxnsOnBoards, InTxn, Exists, Board
<1>8. NoOrphanLikes'
  BY <1>2, <1>4, <1>5 DEF InFlightConsistent, NoOrphanLikes, Exists
<1>9. FreshReads'
  BY <1>2, <1>3, <1>4, <1>6 DEF InFlightConsistent, FreshReads, InTxn, Board, User
<1>10. PendingRowsNew'
  <2>1. SUFFICES ASSUME NEW v \in Workers \ {w}, At(v, "commit", "like"),
                        User(v) \in likers'[Board(v)]
                 PROVE  FALSE
    BY <1>2 DEF PendingRowsNew, At, Board, User
  <2>2. User(v) \notin likers[Board(v)]
    BY <2>1 DEF InFlightConsistent, PendingRowsNew
  <2>3. Board(v) = b
    BY <1>4, <1>6, <2>1, <2>2 DEF InTxn, At
  <2>4. likers'[b] \in {likers[b] \cup {User(w)}, likers[b] \ {User(w)}}
    BY <1>1 DEF CommitLike, CommitUnlike, TypeOK, TableTypes
  <2>5. User(v) = User(w)
    BY <2>1, <2>2, <2>3, <2>4
  <2>6. QED
    BY <1>1, <2>1, <2>3, <2>5 DEF InFlightConsistent, PendingRowsApart, At
<1>11. PendingRowsApart'
  BY <1>2 DEF InFlightConsistent, PendingRowsApart, Board, User
<1>12. QED
  BY <1>7, <1>8, <1>9, <1>10, <1>11 DEF InFlightConsistent

LEMMA InFlightStep ==
    TypeOK /\ InFlightConsistent /\ [Next]_vars => InFlightConsistent'
<1> SUFFICES ASSUME TypeOK, InFlightConsistent, [Next]_vars
             PROVE  InFlightConsistent'
  OBVIOUS
<1>1. ASSUME NEW w \in Workers, Begin(w)
      PROVE  InFlightConsistent'
  <2>1. ~fresh[w]
    BY <1>1, NotFresh DEF Begin, InFlightConsistent, InTxn
  <2>2. QED
    BY <1>1, <2>1, OutOfTxn DEF Begin, TypeOK, WorkerTypes, history
<1>2. ASSUME NEW w \in Workers,
             \E a \in Answers : Answer(w, a), UNCHANGED tables,
             Forget(w) \/ (pc[w] = "received" /\ UNCHANGED fresh)
      PROVE  InFlightConsistent'
  <2>1. /\ \A v \in Workers \ {w} : /\ pc'[v] = pc[v] /\ req'[v] = req[v]
                                    /\ read'[v] = read[v]
        /\ pc'[w] = "idle"
    BY <1>2 DEF Answer, TypeOK, WorkerTypes
  <2>2. /\ \A v \in Workers \ {w} : fresh'[v] = fresh[v]
        /\ ~fresh'[w]
    BY <1>2, NotFresh DEF Forget, InFlightConsistent, InTxn, TypeOK, HistoryTypes
  <2>3. QED
    BY <1>2, <2>1, <2>2, OutOfTxn
<1>3. ASSUME NEW w \in Workers, Serve(w)
      PROVE  InFlightConsistent'
  <2> USE PlainAnswers
  <2>1. CASE CreateBoard(w)
    BY <2>1, CreateStep
  <2>2. CASE ReadDetail(w)
    <3>1. [code |-> 200, liked |-> User(w) = owner[Board(w)]] \in Answers
      BY DEF Answers
    <3>2. QED
      BY <1>2, <2>2, <3>1 DEF ReadDetail, At, history
  <2>3. CASE EditOrRemoveBoard(w)
    BY <1>2, <2>3 DEF EditOrRemoveBoard, At, history
  <2>4. CASE SelectLike(w)
    BY <1>2, <2>4, LoadStep DEF SelectLike, At
  <2>5. CASE SelectUnlike(w)
    BY <1>2, <2>5, LoadStep DEF SelectUnlike, At
  <2>6. CASE InsertLike(w)
    BY <1>2, <2>6, FlushStep DEF InsertLike, At
  <2>7. CASE DeleteLikeRow(w)
    BY <2>7, FlushStep DEF DeleteLikeRow, At
  <2>8. CASE CommitLike(w) \/ CommitUnlike(w)
    BY <2>8, CommitStep
  <2>9. CASE LockFailure(w)
    BY <1>2, <2>9 DEF LockFailure
  <2>10. QED
    BY <1>3, <2>1, <2>2, <2>3, <2>4, <2>5, <2>6, <2>7, <2>8, <2>9 DEF Serve
<1>4. ASSUME NEW w \in Workers, Crash(w)
      PROVE  InFlightConsistent'
  BY <1>2, <1>4, PlainAnswers DEF Crash, NoAnswer
<1>5. CASE UNCHANGED vars
  BY <1>5 DEF vars, tables, history, InFlightConsistent, TxnsOnBoards, NoOrphanLikes,
              FreshReads, PendingRowsNew, PendingRowsApart, InTxn, Exists, At, User, Board
<1>6. QED
  BY <1>1, <1>3, <1>4, <1>5 DEF Next

(* The transactions in flight are consistent with the tables in every     *)
(* reachable state: row locks and the primary key of board_likes keep two  *)
(* workers from inserting one like, and an outdated read is known as one.  *)
THEOREM InFlightInvariant == Spec => []InFlightConsistent
<1>1. Init => InFlightConsistent
  BY DEF Init, InFlightConsistent, TxnsOnBoards, NoOrphanLikes, FreshReads,
         PendingRowsNew, PendingRowsApart, InTxn, At
<1>2. QED
  BY <1>1, InFlightStep, TypeInvariant, PTL DEF Spec

(* An add_like answered 200 inserted the like row: no user is told twice. *)
THEOREM LikeSucceedsOnce == Spec => LikeOnce
<1>1. TypeOK /\ InFlightConsistent /\ [Next]_vars =>
          [\A w \in Workers :
              At(w, "commit", "like") /\ pc'[w] = "idle" /\ answer'[w].code = 200 =>
                  User(w) \notin likers[Board(w)] /\ User(w) \in likers'[Board(w)]]_vars
  <2> SUFFICES ASSUME TypeOK, InFlightConsistent, Next,
                      NEW w \in Workers, At(w, "commit", "like"),
                      pc'[w] = "idle", answer'[w].code = 200
               PROVE  User(w) \notin likers[Board(w)] /\ User(w) \in likers'[Board(w)]
    OBVIOUS
  <2>1. User(w) \notin likers[Board(w)] /\ Board(w) \in Boards
    BY RequestFields DEF InFlightConsistent, PendingRowsNew, At
  <2>2. PICK v \in Workers : Begin(v) \/ Serve(v) \/ Crash(v)
    BY DEF Next
  <2>3. v = w
    <3>1. pc'[w] # pc[w]
      BY DEF At
    <3>2. \E q : pc' = [pc EXCEPT ![v] = q]
      BY <2>2 DEF Begin, Serve, Crash, CreateBoard, ReadDetail, EditOrRemoveBoard,
                  SelectLike, SelectUnlike, Load, InsertLike, DeleteLikeRow,
                  CommitLike, CommitUnlike, LockFailure, Goto, Answer
    <3>3. QED
      BY <3>1, <3>2 DEF TypeOK, WorkerTypes
  <2>4. CommitLike(w)
    <3>1. ~Crash(w) /\ ~LockFailure(w)
      BY DEF Crash, LockFailure, Answer, NoAnswer, Plain, TypeOK, WorkerTypes
    <3>2. QED
      BY <2>2, <2>3, <3>1
         DEF Begin, Serve, At, CreateBoard, ReadDetail, EditOrRemoveBoard, SelectLike,
             SelectUnlike, InsertLike, DeleteLikeRow, CommitUnlike
  <2>5. QED
    BY <2>1, <2>4 DEF CommitLike, TypeOK, TableTypes
<1>2. QED
  BY <1>1, TypeInvariant, InFlightInvariant, PTL DEF Spec, LikeOnce

--------------------------------------------------------------------------------
(* The likers of a board are finitely many, so they can be counted. *)
LEMMA LikersFinite ==
    ASSUME TypeOK, NEW b \in Boards
    PROVE  IsFiniteSet(likers[b]) /\ Cardinality(likers[b]) \in Nat
<1>1. likers[b] \in SUBSET Users
  BY DEF TypeOK, TableTypes
<1>2. QED
  BY <1>1, BoardAssumption, FS_Subset, FS_CardinalityType

(* A commit of a fresh read on a board whose counter is exact moves the   *)
(* counter and the number of likers by the same one.                       *)
LEMMA FreshCommit ==
    ASSUME TypeOK, InFlightConsistent, NEW w \in Workers, fresh[w],
           numLike[Board(w)] = Cardinality(likers[Board(w)]),
           CommitLike(w) \/ CommitUnlike(w)
    PROVE  numLike'[Board(w)] = Cardinality(likers'[Board(w)])
<1> DEFINE b == Board(w)
           u == User(w)
<1>1. b \in Boards /\ read[w] = numLike[b] /\ pc[w] = "commit"
  BY RequestFields DEF InFlightConsistent, FreshReads, CommitLike, CommitUnlike, At
<1>2. IsFiniteSet(likers[b]) /\ numLike[b] \in Nat
  BY <1>1, LikersFinite
<1>3. CASE CommitLike(w)
  <2>1. u \notin likers[b]
    BY <1>3 DEF InFlightConsistent, FreshReads, CommitLike, At
  <2>2. likers'[b] = likers[b] \cup {u} /\ numLike'[b] = numLike[b] + 1
    BY <1>1, <1>3 DEF CommitLike, TypeOK, TableTypes
  <2>3. QED
    BY <1>2, <2>1, <2>2, FS_AddElement
<1>4. CASE CommitUnlike(w)
  <2>1. u \in likers[b]
    BY <1>4 DEF InFlightConsistent, FreshReads, CommitUnlike, At
  <2>2. numLike[b] # 0
    BY <1>2, <2>1, FS_EmptySet
  <2>3. likers'[b] = likers[b] \ {u} /\ numLike'[b] = numLike[b] - 1
    BY <1>1, <1>4, <2>2 DEF CommitUnlike, TypeOK, TableTypes
  <2>4. Cardinality(likers[b] \ {u}) = Cardinality(likers[b]) - 1
    BY <1>2, <2>1, FS_RemoveElement
  <2>5. QED
    BY <2>3, <2>4
<1>5. QED
  BY <1>3, <1>4

(* The steps that leave the rows alone, or write those of a new board. *)
LEMMA OtherSteps ==
    ASSUME TypeOK, InFlightConsistent, NEW w \in Workers,
           Begin(w) \/ Serve(w) \/ Crash(w), ~CommitLike(w), ~CommitUnlike(w)
    PROVE  /\ UNCHANGED <<likers, drifted>>
           /\ UNCHANGED numLike \/
                  (Board(w) \in Boards /\ ~Exists(Board(w))
                     /\ numLike' = [numLike EXCEPT ![Board(w)] = 0])
BY RequestFields
   DEF Begin, Serve, Crash, At, CreateBoard, ReadDetail, EditOrRemoveBoard, SelectLike,
       SelectUnlike, Load, InsertLike, DeleteLikeRow, LockFailure, Forget, tables, history

LEMMA CounterStep ==
    TypeOK /\ InFlightConsistent /\ CounterExactUnlessDrifted /\ [Next]_vars =>
        CounterExactUnlessDrifted'
<1> SUFFICES ASSUME TypeOK, InFlightConsistent, CounterExactUnlessDrifted, [Next]_vars,
                    NEW b \in Boards, b \notin drifted'
             PROVE  numLike'[b] = Cardinality(likers'[b])
  BY DEF CounterExactUnlessDrifted
<1>1. CASE UNCHANGED vars
  BY <1>1 DEF vars, tables, history, CounterExactUnlessDrifted
<1>2. ASSUME NEW w \in Workers, CommitLike(w) \/ CommitUnlike(w)
      PROVE  numLike'[b] = Cardinality(likers'[b])
  <2>1. b \notin drifted
    BY <1>2 DEF CommitLike, CommitUnlike, NoteCommit
  <2>2. CASE b # Board(w)
    BY <1>2, <2>1, <2>2
       DEF CommitLike, CommitUnlike, CounterExactUnlessDrifted, TypeOK, TableTypes
  <2>3. CASE b = Board(w)
    <3>1. fresh[w]
      BY <1>2, <2>3 DEF CommitLike, CommitUnlike, NoteCommit
    <3>2. QED
      BY <1>2, <2>1, <2>3, <3>1, FreshCommit DEF CounterExactUnlessDrifted
  <2>4. QED
    BY <2>2, <2>3
<1>3. ASSUME NEW w \in Workers, Begin(w) \/ Serve(w) \/ Crash(w),
             ~CommitLike(w), ~CommitUnlike(w)
      PROVE  numLike'[b] = Cardinality(likers'[b])
  <2>1. UNCHANGED <<likers, drifted>>
    BY <1>3, OtherSteps
  <2>2. CASE UNCHANGED numLike
    BY <2>1, <2>2 DEF CounterExactUnlessDrifted
  <2>3. CASE /\ Board(w) \in Boards /\ ~Exists(Board(w))
             /\ numLike' = [numLike EXCEPT ![Board(w)] = 0]
    <3>1. likers[Board(w)] = {}
      BY <2>3 DEF InFlightConsistent, NoOrphanLikes
    <3>2. QED
      BY <2>1, <2>3, <3>1, FS_EmptySet DEF CounterExactUnlessDrifted, TypeOK, TableTypes
  <2>4. QED
    BY <1>3, <2>2, <2>3, OtherSteps
<1>4. QED
  BY <1>1, <1>2, <1>3 DEF Next

(* The number of likes a board shows is its number of likers unless some  *)
(* commit on it was computed from an outdated read: nothing else (a failed *)
(* request, a deadlock victim, a dead worker) can make them differ.        *)
THEOREM CounterInvariant == Spec => []CounterExactUnlessDrifted
<1>1. Init => CounterExactUnlessDrifted
  BY FS_EmptySet DEF Init, CounterExactUnlessDrifted
<1>2. QED
  BY <1>1, CounterStep, TypeInvariant, InFlightInvariant, PTL DEF Spec

--------------------------------------------------------------------------------
(* The ledger that counts rows. *)
Posted == {b \in Boards : Exists(b)}
Rows == [b \in Boards |-> Cardinality(likers[b])]

(* Counting rows follows the rows: one more, one less. *)
LEMMA RowsMove ==
    ASSUME TypeOK, NEW b \in Boards, NEW u \in Users
    PROVE  /\ u \notin likers[b] /\ likers' = [likers EXCEPT ![b] = @ \cup {u}] =>
                  Rows' = [Rows EXCEPT ![b] = @ + 1]
           /\ u \in likers[b] /\ likers' = [likers EXCEPT ![b] = @ \ {u}] =>
                  Rows' = [Rows EXCEPT ![b] = @ - 1]
<1>1. IsFiniteSet(likers[b]) /\ likers \in [Boards -> SUBSET Users]
  BY LikersFinite DEF TypeOK, TableTypes
<1>2. CASE u \notin likers[b] /\ likers' = [likers EXCEPT ![b] = @ \cup {u}]
  <2>1. Cardinality(likers[b] \cup {u}) = Cardinality(likers[b]) + 1
    BY <1>1, <1>2, FS_AddElement
  <2>2. \A c \in Boards : Cardinality(likers'[c]) =
           IF c = b THEN Cardinality(likers[c]) + 1 ELSE Cardinality(likers[c])
    BY <1>1, <1>2, <2>1
  <2>3. QED
    BY <1>2, <2>2 DEF Rows
<1>3. CASE u \in likers[b] /\ likers' = [likers EXCEPT ![b] = @ \ {u}]
  <2>1. Cardinality(likers[b] \ {u}) = Cardinality(likers[b]) - 1
    BY <1>1, <1>3, FS_RemoveElement
  <2>2. \A c \in Boards : Cardinality(likers'[c]) =
           IF c = b THEN Cardinality(likers[c]) - 1 ELSE Cardinality(likers[c])
    BY <1>1, <1>3, <2>1
  <2>3. QED
    BY <1>3, <2>2 DEF Rows
<1>4. QED
  BY <1>2, <1>3

(* An answer ends the request of its worker and says what it says. *)
LEMMA AnswerEnds ==
    ASSUME TypeOK, NEW w \in Workers, NEW a, Answer(w, a)
    PROVE  pc'[w] = "idle" /\ answer'[w] = a
BY DEF Answer, TypeOK, WorkerTypes

(* Every step leaves the rows or is one of the ledger, of whoever asked. *)
LEMMA RowLedgerStep ==
    TypeOK /\ InFlightConsistent /\ [Next]_vars =>
        \/ UNCHANGED RowLedger!ledger
        \/ RowLedger!Next /\ \E w \in Workers : EntersLedger(w)
<1> SUFFICES ASSUME TypeOK, InFlightConsistent, [Next]_vars
             PROVE  \/ UNCHANGED RowLedger!ledger
                    \/ RowLedger!Next /\ \E w \in Workers : EntersLedger(w)
  OBVIOUS
<1>1. CASE UNCHANGED <<owner, likers>>
  BY <1>1 DEF RowLedger!ledger, Exists
<1>2. ASSUME NEW w \in Workers, CreateBoard(w), ~UNCHANGED <<owner, likers>>
      PROVE  RowLedger!Next /\ EntersLedger(w)
  <2>1. Board(w) \in Boards /\ User(w) \in Users /\ pc[w] # "idle" /\ req[w].op = "create"
    BY <1>2, RequestFields DEF CreateBoard, At
  <2>2. PICK b \in Boards : b = Board(w)
    BY <2>1
  <2>3. /\ ~Exists(b)
        /\ owner' = [owner EXCEPT ![b] = User(w)]
        /\ likers' = likers /\ Answer(w, Plain(201))
    BY <1>2, <2>2 DEF CreateBoard
  <2>4. Posted' = Posted \cup {b} /\ b \notin Posted /\ Rows' = Rows
    BY <2>1, <2>3, BoardAssumption DEF Posted, Rows, Exists, TypeOK, TableTypes
  <2>5. RowLedger!Post(b)
    BY <2>3, <2>4 DEF RowLedger!Post, Posted, Rows
  <2>6. pc'[w] = "idle" /\ answer'[w].code = 201
    BY <2>3, AnswerEnds DEF Plain
  <2>7. RowLedger!Next
    BY <2>5 DEF RowLedger!Next
  <2>8. EntersLedger(w)
    BY <2>1, <2>2, <2>5, <2>6 DEF EntersLedger
  <2>9. QED
    BY <2>7, <2>8
<1>3. ASSUME NEW w \in Workers, CommitLike(w) \/ CommitUnlike(w)
      PROVE  \/ UNCHANGED <<owner, likers>>
             \/ RowLedger!Next /\ EntersLedger(w)
  <2>1. Board(w) \in Boards /\ User(w) \in Users /\ pc[w] = "commit"
    BY <1>3, RequestFields DEF CommitLike, CommitUnlike, At
  <2>2. PICK b \in Boards, u \in Users : b = Board(w) /\ u = User(w)
    BY <2>1
  <2>3. b \in Posted /\ Posted' = Posted
    BY <1>3, <2>1, <2>2
       DEF CommitLike, CommitUnlike, Posted, Exists, InFlightConsistent, TxnsOnBoards, InTxn
  <2>4. pc'[w] = "idle" /\ answer'[w].code = 200
    BY <1>3, AnswerEnds DEF CommitLike, CommitUnlike, Plain
  <2>5. CASE CommitLike(w)
    <3>1. u \notin likers[b] /\ likers' = [likers EXCEPT ![b] = @ \cup {u}]
      BY <2>2, <2>5 DEF CommitLike, InFlightConsistent, PendingRowsNew
    <3>2. Rows' = [Rows EXCEPT ![b] = @ + 1]
      BY <3>1, RowsMove
    <3>3. RowLedger!Like(u, b)
      BY <2>3, <3>1, <3>2 DEF RowLedger!Like, Posted, Rows
    <3>4. RowLedger!Next
      BY <3>3 DEF RowLedger!Next
    <3>5. EntersLedger(w)
      BY <2>1, <2>2, <2>4, <2>5, <3>3 DEF EntersLedger, CommitLike, At
    <3>6. QED
      BY <3>4, <3>5
  <2>6. CASE CommitUnlike(w) /\ u \in likers[b]
    <3>1. likers' = [likers EXCEPT ![b] = @ \ {u}]
      BY <2>2, <2>6 DEF CommitUnlike
    <3>2. Rows' = [Rows EXCEPT ![b] = @ - 1]
      BY <2>6, <3>1, RowsMove
    <3>3. RowLedger!Unlike(u, b)
      BY <2>3, <2>6, <3>1, <3>2 DEF RowLedger!Unlike, Posted, Rows
    <3>4. RowLedger!Next
      BY <3>3 DEF RowLedger!Next
    <3>5. EntersLedger(w)
      BY <2>1, <2>2, <2>4, <2>6, <3>3 DEF EntersLedger, CommitUnlike, At
    <3>6. QED
      BY <3>4, <3>5
  <2>7. CASE CommitUnlike(w) /\ u \notin likers[b]
    BY <2>2, <2>7 DEF CommitUnlike, TypeOK, TableTypes
  <2>8. QED
    BY <1>3, <2>5, <2>6, <2>7
<1>4. \/ UNCHANGED <<owner, likers>>
      \/ \E w \in Workers : CreateBoard(w) \/ CommitLike(w) \/ CommitUnlike(w)
  BY DEF Next, Serve, Begin, Crash, ReadDetail, EditOrRemoveBoard, SelectLike,
         SelectUnlike, InsertLike, DeleteLikeRow, LockFailure, vars, tables
<1>5. QED
  BY <1>1, <1>2, <1>3, <1>4

(* However many workers serve, every step moves the rows of board_likes   *)
(* as a step of the ledger or leaves them: an unlike that finds its row    *)
(* gone is none, and no like is inserted twice.  Who likes or unlikes is   *)
(* the user of a request that is answered as done in this very step.       *)
THEOREM RowsAreALedger == Spec => RowsImplementLedger
<1>1. Init => RowLedger!Init
  <2> SUFFICES ASSUME Init
               PROVE  RowLedger!Init
    OBVIOUS
  <2>1. \A b \in Boards : Cardinality(likers[b]) = 0
    BY FS_EmptySet DEF Init
  <2>2. QED
    BY <2>1 DEF Init, RowLedger!Init, Exists
<1>2. TypeOK /\ InFlightConsistent /\ [Next]_vars =>
         /\ [RowLedger!Next]_(RowLedger!ledger)
         /\ [\E w \in Workers : EntersLedger(w)]_(RowLedger!ledger)
  BY RowLedgerStep
<1>3. QED
  BY <1>1, <1>2, TypeInvariant, InFlightInvariant, PTL
     DEF Spec, RowsImplementLedger, RowLedger!Spec

--------------------------------------------------------------------------------
(* With a single worker nothing can outdate what it has read. *)
SoloFresh == \A w \in Workers : InTxn(w) => fresh[w]

LEMMA SoloFreshStep ==
    ASSUME NEW solo, Workers = {solo}
    PROVE  TypeOK /\ SoloFresh /\ [Next]_vars => SoloFresh'
<1> SUFFICES ASSUME TypeOK, SoloFresh, [Next]_vars, pc'[solo] \in {"flush", "commit"}
             PROVE  fresh'[solo]
  BY DEF SoloFresh, InTxn
<1>1. CASE UNCHANGED vars
  BY <1>1 DEF vars, history, SoloFresh, InTxn
<1>2. CASE Serve(solo)
  <2>1. \/ Load(solo)
        \/ pc[solo] = "flush" /\ UNCHANGED history
    BY <1>2 DEF Serve, CreateBoard, ReadDetail, EditOrRemoveBoard, SelectLike,
                SelectUnlike, InsertLike, DeleteLikeRow, CommitLike, CommitUnlike,
                LockFailure, Answer, At, TypeOK, WorkerTypes
  <2>2. QED
    BY <2>1 DEF Load, SoloFresh, InTxn, history, TypeOK, HistoryTypes
<1>3. CASE Begin(solo) \/ Crash(solo)
  BY <1>3 DEF Begin, Crash, Answer, TypeOK, WorkerTypes
<1>4. QED
  BY <1>1, <1>2, <1>3 DEF Next

(* Each step of a single worker is a step of the ledger, or none. *)
LEMMA SoloLedgerStep ==
    ASSUME NEW solo, Workers = {solo}
    PROVE  TypeOK /\ InFlightConsistent /\ SoloFresh /\ CounterExactUnlessDrifted
             /\ drifted = {} /\ [Next]_vars => [Ledger!Next]_(Ledger!ledger)
<1> SUFFICES ASSUME TypeOK, InFlightConsistent, SoloFresh, CounterExactUnlessDrifted,
                    drifted = {}, [Next]_vars
             PROVE  [Ledger!Next]_(Ledger!ledger)
  OBVIOUS
<1> DEFINE b == Board(solo)
           u == User(solo)
<1>1. CASE UNCHANGED tables
  BY <1>1 DEF tables, Ledger!ledger, Exists
<1>2. CASE CreateBoard(solo) /\ ~UNCHANGED tables
  <2>1. b \in Boards /\ u \in Users
    BY <1>2, RequestFields DEF CreateBoard, At
  <2>2. /\ ~Exists(b)
        /\ owner' = [owner EXCEPT ![b] = u]
        /\ numLike' = [numLike EXCEPT ![b] = 0]
        /\ likers' = likers
    BY <1>2 DEF CreateBoard, tables
  <2>3. numLike[b] = 0
    BY <2>1, <2>2, FS_EmptySet
       DEF InFlightConsistent, NoOrphanLikes, CounterExactUnlessDrifted
  <2>4. numLike' = numLike
    BY <2>1, <2>2, <2>3 DEF TypeOK, TableTypes
  <2>5. {c \in Boards : Exists(c)}' = {c \in Boards : Exists(c)} \cup {b}
    BY <2>1, <2>2, BoardAssumption DEF Exists, TypeOK, TableTypes
  <2>6. Ledger!Post(b)
    BY <2>2, <2>4, <2>5 DEF Ledger!Post
  <2>7. QED
    BY <2>1, <2>6 DEF Ledger!Next
<1>3. ASSUME CommitLike(solo) \/ CommitUnlike(solo)
      PROVE  Ledger!Next
  <2>1. b \in Boards /\ u \in Users /\ pc[solo] = "commit"
    BY <1>3, RequestFields DEF CommitLike, CommitUnlike, At
  <2>2. /\ Exists(b)
        /\ read[solo] = numLike[b]
        /\ req[solo].op = "like" <=> u \notin likers[b]
    BY <2>1 DEF InFlightConsistent, TxnsOnBoards, FreshReads, SoloFresh, InTxn
  <2>3. b \in {c \in Boards : Exists(c)} /\ {c \in Boards : Exists(c)}' = {c \in Boards : Exists(c)}
    BY <1>3, <2>1, <2>2 DEF CommitLike, CommitUnlike, Exists
  <2>4. CASE CommitLike(solo)
    <3>1. Ledger!Like(u, b)
      BY <2>1, <2>2, <2>3, <2>4 DEF CommitLike, At, Ledger!Like, TypeOK, TableTypes
    <3>2. QED
      BY <2>1, <3>1 DEF Ledger!Next
  <2>5. CASE CommitUnlike(solo)
    <3>1. u \in likers[b]
      BY <2>2, <2>5 DEF CommitUnlike, At
    <3>2. numLike[b] # 0
      BY <2>1, <3>1, LikersFinite, FS_EmptySet DEF CounterExactUnlessDrifted
    <3>3. numLike' = [numLike EXCEPT ![b] = @ - 1]
      BY <2>2, <2>5, <3>2 DEF CommitUnlike
    <3>4. Ledger!Unlike(u, b)
      BY <2>3, <2>5, <3>1, <3>3 DEF CommitUnlike, Ledger!Unlike
    <3>5. QED
      BY <2>1, <3>4 DEF Ledger!Next
  <2>6. QED
    BY <1>3, <2>4, <2>5
<1>4. \/ UNCHANGED tables \/ CreateBoard(solo)
      \/ CommitLike(solo) \/ CommitUnlike(solo)
  BY DEF Next, Serve, Begin, Crash, ReadDetail, EditOrRemoveBoard, SelectLike,
         SelectUnlike, InsertLike, DeleteLikeRow, LockFailure, vars
<1>5. QED
  BY <1>1, <1>2, <1>3, <1>4

(* A single worker never commits an outdated read. *)
LEMMA SoloInvariant ==
    ASSUME NEW solo, Workers = {solo}
    PROVE  Spec => [](SoloFresh /\ drifted = {})
<1> DEFINE Solo == SoloFresh /\ drifted = {}
<1>1. Init => Solo
  BY DEF Init, SoloFresh, InTxn
<1>2. TypeOK /\ Solo /\ [Next]_vars => Solo'
  <2> SUFFICES ASSUME TypeOK, Solo, [Next]_vars
               PROVE  drifted' = {}
    BY SoloFreshStep
  <2>1. CASE UNCHANGED vars
    BY <2>1 DEF vars, history
  <2>2. CASE CommitLike(solo) \/ CommitUnlike(solo)
    BY <2>2 DEF CommitLike, CommitUnlike, NoteCommit, At, SoloFresh, InTxn
  <2>3. CASE Next /\ ~CommitLike(solo) /\ ~CommitUnlike(solo)
    BY <2>3 DEF Next, Serve, Begin, Crash, CreateBoard, ReadDetail, EditOrRemoveBoard,
                SelectLike, SelectUnlike, InsertLike, DeleteLikeRow, LockFailure,
                Forget, history
  <2>4. QED
    BY <2>1, <2>2, <2>3
<1>3. QED
  BY <1>1, <1>2, TypeInvariant, PTL DEF Spec

(* One worker (docker-compose.prod.yml starts gunicorn with its default of *)
(* one) keeps the count of every board equal to its number of likers.      *)
THEOREM SoloCounterExact ==
    ASSUME NEW solo, Workers = {solo}
    PROVE  Spec => []NumLikeIsLikeCount
<1>1. CounterExactUnlessDrifted /\ drifted = {} => NumLikeIsLikeCount
  BY DEF CounterExactUnlessDrifted, NumLikeIsLikeCount
<1>2. QED
  BY <1>1, SoloInvariant, CounterInvariant, PTL

(* One worker implements the ledger of likes: every request that changes  *)
(* the tables is one of the ledger's steps, every other step is none.      *)
THEOREM SoloImplementsLedger ==
    ASSUME NEW solo, Workers = {solo}
    PROVE  Spec => ImplementsLedger
<1>1. Init => Ledger!Init
  BY DEF Init, Ledger!Init, Exists
<1>2. TypeOK /\ InFlightConsistent /\ CounterExactUnlessDrifted
        /\ (SoloFresh /\ drifted = {}) /\ [Next]_vars
        => [Ledger!Next]_(Ledger!ledger)
  BY SoloLedgerStep
<1>3. QED
  BY <1>1, <1>2, TypeInvariant, InFlightInvariant, CounterInvariant, SoloInvariant, PTL
     DEF Spec, ImplementsLedger, Ledger!Spec
================================================================================
