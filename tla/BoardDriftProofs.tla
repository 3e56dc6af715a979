--------------------------- MODULE BoardDriftProofs ---------------------------
(***************************************************************************)
(* Proofs about BoardDrift, for any number of users, boards and workers:   *)
(* it is BoardService with two variables more, and those bound by how much *)
(* the count of a board can differ from its number of likers.              *)
(***************************************************************************)
EXTENDS BoardDrift, BoardServiceProofs

(* The commits, and the steps of a request that commit nothing to a count. *)
Commit(w) == CommitLike(w) \/ CommitUnlike(w)
ServeOtherwise(w) ==
    \/ CreateBoard(w) \/ ReadDetail(w) \/ EditOrRemoveBoard(w)
    \/ SelectLike(w) \/ InsertLike(w) \/ SelectUnlike(w) \/ DeleteLikeRow(w)
    \/ LockFailure(w)

LEMMA DriftNextCases ==
    DriftNext =>
        \E w \in Workers :
            \/ Commit(w) /\ CountMissed(w)
            \/ (Begin(w) \/ ServeOtherwise(w) \/ Crash(w)) /\ ForgetMissed(w)
BY DEF DriftNext, Commit, ServeOtherwise

(* The steps of BoardDrift are those of BoardService. *)
LEMMA DriftNextIsNext == DriftNext => Next
BY DEF DriftNext, Next, Serve

(* The measured service is the service: whatever is proved of BoardService *)
(* holds of it, and measuring changes nothing a request can see.           *)
THEOREM DriftImplementsBoard == DriftSpec => Spec
<1>1. DriftInit => Init
  BY DEF DriftInit
<1>2. [DriftNext]_driftVars => [Next]_vars
  BY DriftNextIsNext DEF driftVars
<1>3. QED
  BY <1>1, <1>2, PTL DEF DriftSpec, Spec

DriftInv == DriftTypes /\ ReadsWithinMissed /\ CounterWithinLost

--------------------------------------------------------------------------------
(* The steps that commit nothing. *)

(* What such a step does to the worker that takes it: it is outside its    *)
(* transaction afterwards, or enters it with what the tables hold, or goes *)
(* on with what it has read.                                               *)
Leaves(w) == ~InTxn(w)'
Enters(w) ==
    /\ pc[w] = "received" /\ InTxn(w)'
    /\ read'[w] = numLike[Board(w)] /\ fresh'[w]
    /\ req[w].op = "unlike" => User(w) \in likers[Board(w)]
    /\ req'[w] = req[w] /\ UNCHANGED numLike
GoesOn(w) ==
    /\ InTxn(w) /\ InTxn(w)'
    /\ UNCHANGED <<read, fresh, req, numLike>>

LEMMA QuietMoves ==
    ASSUME TypeOK, NEW w \in Workers, Begin(w) \/ ServeOtherwise(w) \/ Crash(w)
    PROVE  Leaves(w) \/ Enters(w) \/ GoesOn(w)
<1>1. CASE Begin(w)
  BY <1>1 DEF Begin, Leaves, InTxn, TypeOK, WorkerTypes
<1>2. CASE \E a : Answer(w, a)
  BY <1>2 DEF Answer, Leaves, InTxn, TypeOK, WorkerTypes
<1>3. CASE SelectLike(w) /\ Load(w)
  BY <1>3 DEF SelectLike, Load, Goto, Enters, InTxn, At, tables, TypeOK, WorkerTypes, HistoryTypes
<1>4. CASE SelectUnlike(w) /\ Load(w) /\ User(w) \in likers[Board(w)]
  BY <1>4 DEF SelectUnlike, Load, Goto, Enters, InTxn, At, tables, TypeOK, WorkerTypes, HistoryTypes
<1>5. CASE /\ pc[w] = "flush" /\ Goto(w, "commit")
           /\ UNCHANGED <<tables, read, history>>
  BY <1>5 DEF Goto, GoesOn, InTxn, tables, history, TypeOK, WorkerTypes
<1>6. QED
  BY <1>1, <1>2, <1>3, <1>4, <1>5
     DEF ServeOtherwise, CreateBoard, ReadDetail, EditOrRemoveBoard, SelectLike, SelectUnlike,
         InsertLike, DeleteLikeRow, LockFailure, Crash, At

(* The others do not notice it. *)
LEMMA QuietOthers ==
    ASSUME TypeOK, NEW w \in Workers, Begin(w) \/ ServeOtherwise(w) \/ Crash(w),
           NEW v \in Workers \ {w}
    PROVE  pc'[v] = pc[v] /\ req'[v] = req[v] /\ read'[v] = read[v] /\ fresh'[v] = fresh[v]
<1>1. /\ pc' = [pc EXCEPT ![w] = pc'[w]] /\ req' = [req EXCEPT ![w] = req'[w]]
      /\ read' = [read EXCEPT ![w] = read'[w]] /\ fresh' = [fresh EXCEPT ![w] = fresh'[w]]
  <2> USE DEF TypeOK, WorkerTypes, HistoryTypes, history
  <2>1. CASE Begin(w)
    BY <2>1 DEF Begin
  <2>2. CASE \E a : Answer(w, a) /\ (Forget(w) \/ UNCHANGED fresh)
    BY <2>2 DEF Answer, Forget
  <2>3. CASE Load(w)
    BY <2>3 DEF Load, Goto
  <2>4. CASE Goto(w, "commit") /\ UNCHANGED <<read, history>>
    BY <2>4 DEF Goto
  <2>5. QED
    BY <2>1, <2>2, <2>3, <2>4
       DEF ServeOtherwise, CreateBoard, ReadDetail, EditOrRemoveBoard, SelectLike, SelectUnlike,
           InsertLike, DeleteLikeRow, LockFailure, Crash
<1>2. QED
  BY <1>1 DEF TypeOK, WorkerTypes, HistoryTypes

(* Counts of likers, and the types the arithmetic needs. *)
LEMMA DriftNats ==
    ASSUME TypeOK, DriftTypes
    PROVE  /\ \A b \in Boards : Likes(b) \in Nat /\ numLike[b] \in Nat /\ lost[b] \in Nat
           /\ \A w \in Workers : read[w] \in Nat /\ missed[w] \in Nat
BY LikersFinite DEF TypeOK, TableTypes, WorkerTypes, DriftTypes, Likes

LEMMA QuietStep ==
    ASSUME TypeOK, InFlightConsistent, DriftInv, InFlightConsistent', NEW w \in Workers,
           Begin(w) \/ ServeOtherwise(w) \/ Crash(w), ForgetMissed(w)
    PROVE  DriftInv'
<1>1. /\ UNCHANGED <<likers, drifted>>
      /\ \/ UNCHANGED numLike
         \/ /\ Board(w) \in Boards /\ ~Exists(Board(w))
            /\ numLike' = [numLike EXCEPT ![Board(w)] = 0]
  BY RequestFields
     DEF Begin, ServeOtherwise, Crash, At, CreateBoard, ReadDetail, EditOrRemoveBoard,
         SelectLike, SelectUnlike, Load, InsertLike, DeleteLikeRow, LockFailure, Forget,
         tables, history
<1>2. /\ lost' = lost /\ \A v \in Workers \ {w} : missed'[v] = missed[v]
      /\ missed'[w] = IF InTxn(w)' THEN missed[w] ELSE 0
  BY DEF ForgetMissed, DriftInv, DriftTypes
<1>3. DriftTypes'
  BY DEF ForgetMissed, DriftInv, DriftTypes
<1>4. CounterWithinLost'
  <2>1. ASSUME NEW b \in Boards
        PROVE  Within(numLike'[b], Likes(b)', lost'[b])
    <3>1. Likes(b)' = Likes(b) /\ Within(numLike[b], Likes(b), lost[b])
      BY <1>1 DEF Likes, DriftInv, CounterWithinLost
    <3>2. CASE numLike'[b] = numLike[b]
      BY <1>2, <3>1, <3>2
    <3>3. CASE ~Exists(b) /\ numLike'[b] = 0
      <4>1. Likes(b) = 0
        BY <3>3, FS_EmptySet DEF InFlightConsistent, NoOrphanLikes, Likes
      <4>2. QED
        BY <1>2, <3>1, <3>3, <4>1, DriftNats DEF Within, DriftInv
    <3>4. QED
      BY <1>1, <3>2, <3>3 DEF TypeOK, TableTypes
  <2>2. QED
    BY <2>1 DEF CounterWithinLost
<1>5. \A v \in Workers \ {w} :
         pc'[v] = pc[v] /\ req'[v] = req[v] /\ read'[v] = read[v] /\ fresh'[v] = fresh[v]
  BY QuietOthers
<1>6. \A v \in Workers \ {w} : InTxn(v)' => ReadWithin(v)'
  BY <1>1, <1>2, <1>5
     DEF DriftInv, ReadsWithinMissed, InTxn, ReadWithin, Likes, Board, User
<1>7. /\ InTxn(w)' => ReadWithin(w)'
      /\ fresh'[w] <=> InTxn(w)' /\ missed'[w] = 0
      /\ ~InTxn(w)' => missed'[w] = 0
  <2>1. CASE Leaves(w)
    BY <1>2, <2>1 DEF Leaves, InFlightConsistent, FreshReads, InTxn
  <2>2. CASE Enters(w)
    <3>1. missed'[w] = 0
      BY <1>2, <2>2 DEF Enters, InTxn, DriftInv, ReadsWithinMissed
    <3>2. Board(w) \in Boards
      BY <2>2, RequestFields DEF Enters
    <3>3. Within(numLike[Board(w)], Likes(Board(w)), lost[Board(w)])
      BY <3>2 DEF DriftInv, CounterWithinLost
    <3>4. QED
      BY <1>1, <1>2, <2>2, <3>1, <3>2, <3>3, DriftNats
         DEF Enters, ReadWithin, Board, User, Likes, Within, DriftInv
  <2>3. CASE GoesOn(w)
    BY <1>1, <1>2, <2>3
       DEF GoesOn, DriftInv, ReadsWithinMissed, ReadWithin, Board, User, Likes
  <2>4. QED
    BY <2>1, <2>2, <2>3, QuietMoves
<1>8. ReadsWithinMissed'
  <2>1. \A v \in Workers \ {w} : /\ fresh'[v] <=> InTxn(v)' /\ missed'[v] = 0
                                 /\ ~InTxn(v)' => missed'[v] = 0
    BY <1>2, <1>5 DEF DriftInv, ReadsWithinMissed, InTxn
  <2>2. \A b \in Boards : b \in drifted' <=> lost'[b] > 0
    BY <1>1, <1>2 DEF DriftInv, ReadsWithinMissed
  <2>3. QED
    BY <1>6, <1>7, <2>1, <2>2 DEF ReadsWithinMissed
<1>9. QED
  BY <1>3, <1>4, <1>8 DEF DriftInv
--------------------------------------------------------------------------------
(* The commits. *)

(* A commit changes the number of likers of its board by one at most: a   *)
(* like by one more, an unlike by one less if its row is still there.      *)
LEMMA LikesMove ==
    ASSUME TypeOK, InFlightConsistent, NEW w \in Workers, Commit(w),
           NEW b \in Boards, b = Board(w)
    PROVE  \/ CommitLike(w) /\ Likes(b)' = Likes(b) + 1
           \/ /\ CommitUnlike(w) /\ User(w) \in likers[b]
              /\ Likes(b)' = Likes(b) - 1 /\ likers'[b] = likers[b] \ {User(w)}
           \/ /\ CommitUnlike(w) /\ User(w) \notin likers[b]
              /\ Likes(b)' = Likes(b) /\ likers'[b] = likers[b]
<1>1. IsFiniteSet(likers[b])
  BY LikersFinite
<1>2. CASE CommitLike(w)
  <2>1. User(w) \notin likers[b] /\ likers'[b] = likers[b] \cup {User(w)}
    BY <1>2 DEF CommitLike, InFlightConsistent, PendingRowsNew, TypeOK, TableTypes
  <2>2. Cardinality(likers[b] \cup {User(w)}) = Cardinality(likers[b]) + 1
    BY <1>1, <2>1, FS_AddElement
  <2>3. QED
    BY <1>2, <2>1, <2>2 DEF Likes
<1>3. CASE CommitUnlike(w) /\ User(w) \in likers[b]
  <2>1. likers'[b] = likers[b] \ {User(w)}
    BY <1>3 DEF CommitUnlike, TypeOK, TableTypes
  <2>2. Cardinality(likers[b] \ {User(w)}) = Cardinality(likers[b]) - 1
    BY <1>1, <1>3, FS_RemoveElement
  <2>3. QED
    BY <1>3, <2>1, <2>2 DEF Likes
<1>4. CASE CommitUnlike(w) /\ User(w) \notin likers[b]
  <2>1. likers'[b] = likers[b]
    BY <1>4 DEF CommitUnlike, TypeOK, TableTypes
  <2>2. QED
    BY <1>4, <2>1 DEF Likes
<1>5. QED
  BY <1>2, <1>3, <1>4 DEF Commit

(* What a commit does to the workers and to the measures. *)
LEMMA CommitMoves ==
    ASSUME TypeOK, InFlightConsistent, DriftTypes, NEW w \in Workers, Commit(w), CountMissed(w),
           NEW b \in Boards, b = Board(w)
    PROVE  /\ InTxn(w) /\ ~InTxn(w)' /\ missed'[w] = 0
           /\ \A v \in Workers \ {w} : pc'[v] = pc[v] /\ req'[v] = req[v] /\ read'[v] = read[v]
           /\ \A v \in Workers \ {w} :
                 missed'[v] = IF InTxn(v) /\ Board(v) = b THEN missed[v] + 1 ELSE missed[v]
           /\ \A v \in Workers : fresh'[v] <=> fresh[v] /\ Board(v) # b
           /\ lost' = [lost EXCEPT ![b] = @ + missed[w]]
           /\ drifted' = IF fresh[w] THEN drifted ELSE drifted \cup {b}
           /\ \A c \in Boards \ {b} : numLike'[c] = numLike[c] /\ likers'[c] = likers[c]
<1>1. InTxn(w) /\ \E a : Answer(w, a)
  BY DEF Commit, CommitLike, CommitUnlike, At, InTxn
<1>2. /\ pc'[w] = "idle"
      /\ \A v \in Workers \ {w} : pc'[v] = pc[v] /\ req'[v] = req[v] /\ read'[v] = read[v]
  BY <1>1 DEF Answer, TypeOK, WorkerTypes
<1>3. NoteCommit(w)
  BY DEF Commit, CommitLike, CommitUnlike
<1>4. \A c \in Boards \ {b} : numLike'[c] = numLike[c] /\ likers'[c] = likers[c]
  BY DEF Commit, CommitLike, CommitUnlike, TypeOK, TableTypes
<1>5. QED
  BY <1>1, <1>2, <1>3, <1>4 DEF InTxn, NoteCommit, CountMissed, TypeOK, HistoryTypes

(* The counter a commit writes is off by no more than before and what the *)
(* commit had missed.  A decrement that stops at 0 has either missed a     *)
(* commit, or finds a counter that is too low already.                     *)
LEMMA CommitCounter ==
    ASSUME TypeOK, InFlightConsistent, DriftInv, NEW w \in Workers, Commit(w), CountMissed(w),
           NEW b \in Boards, b = Board(w)
    PROVE  Within(numLike'[b], Likes(b)', lost'[b])
<1>1. /\ InTxn(w) /\ lost'[b] = lost[b] + missed[w]
      /\ Likes(b) \in Nat /\ numLike[b] \in Nat /\ lost[b] \in Nat
      /\ read[w] \in Nat /\ missed[w] \in Nat
  BY CommitMoves, DriftNats DEF DriftInv, DriftTypes
<1>2. /\ Within(read[w], Likes(b), lost[b] + missed[w])
      /\ req[w].op = "unlike" /\ User(w) \notin likers[b] =>
            Within(read[w] - 1, Likes(b), lost[b] + missed[w])
  BY <1>1 DEF DriftInv, ReadsWithinMissed, ReadWithin
<1>3. CASE CommitLike(w)
  <2>1. Likes(b)' = Likes(b) + 1
    BY <1>3, LikesMove DEF CommitLike, CommitUnlike, At
  <2>2. numLike'[b] = read[w] + 1
    BY <1>3 DEF CommitLike, TypeOK, TableTypes
  <2>3. QED
    BY <1>1, <1>2, <2>1, <2>2 DEF Within
<1>4. CASE CommitUnlike(w) /\ read[w] > 0
  <2>1. numLike'[b] = read[w] - 1
    BY <1>4 DEF CommitUnlike, TypeOK, TableTypes
  <2>2. CASE User(w) \in likers[b]
    <3>1. Likes(b)' = Likes(b) - 1
      BY <1>4, <2>2, LikesMove DEF CommitLike, CommitUnlike, At
    <3>2. QED
      BY <1>1, <1>2, <2>1, <3>1 DEF Within
  <2>3. CASE User(w) \notin likers[b]
    <3>1. Likes(b)' = Likes(b) /\ req[w].op = "unlike"
      BY <1>4, <2>3, LikesMove DEF CommitLike, CommitUnlike, At
    <3>2. QED
      BY <1>1, <1>2, <2>1, <2>3, <3>1 DEF Within
  <2>4. QED
    BY <2>2, <2>3
<1>5. CASE CommitUnlike(w) /\ read[w] = 0
  <2>1. numLike'[b] = numLike[b]
    BY <1>5 DEF CommitUnlike
  <2>2. Within(numLike[b], Likes(b), lost[b])
    BY DEF DriftInv, CounterWithinLost
  <2>3. CASE User(w) \notin likers[b]
    <3>1. Likes(b)' = Likes(b)
      BY <1>5, <2>3, LikesMove DEF CommitLike, CommitUnlike, At
    <3>2. QED
      BY <1>1, <2>1, <2>2, <3>1 DEF Within
  <2>4. CASE User(w) \in likers[b]
    <3>1. Likes(b)' = Likes(b) - 1
      BY <1>5, <2>4, LikesMove DEF CommitLike, CommitUnlike, At
    <3>2. CASE missed[w] > 0
      BY <1>1, <2>1, <2>2, <3>1, <3>2 DEF Within
    <3>3. CASE missed[w] = 0
      <4>1. numLike[b] = 0
        BY <1>1, <1>5, <3>3
           DEF DriftInv, ReadsWithinMissed, InFlightConsistent, FreshReads
      <4>2. Likes(b) # 0
        BY <2>4, LikersFinite, FS_EmptySet DEF Likes
      <4>3. QED
        BY <1>1, <2>1, <2>2, <3>1, <3>3, <4>1, <4>2 DEF Within
    <3>4. QED
      BY <1>1, <3>2, <3>3
  <2>5. QED
    BY <2>3, <2>4
<1>6. QED
  BY <1>1, <1>3, <1>4, <1>5 DEF Commit

(* The reads of the others, for each of which it is one commit more. *)
LEMMA CommitReads ==
    ASSUME TypeOK, InFlightConsistent, DriftInv, NEW w \in Workers, Commit(w), CountMissed(w),
           NEW b \in Boards, b = Board(w),
           NEW v \in Workers \ {w}, InTxn(v)
    PROVE  ReadWithin(v)'
<1>1. /\ pc'[v] = pc[v] /\ req'[v] = req[v] /\ read'[v] = read[v]
      /\ missed'[v] = IF Board(v) = b THEN missed[v] + 1 ELSE missed[v]
  BY CommitMoves DEF DriftInv
<1>2. ReadWithin(v) /\ Board(v) \in Boards
  BY RequestFields DEF InTxn, DriftInv, ReadsWithinMissed
<1>3. CASE Board(v) # b
  <2>1. likers'[Board(v)] = likers[Board(v)] /\ lost'[Board(v)] = lost[Board(v)]
    BY <1>2, <1>3, CommitMoves DEF DriftInv, DriftTypes
  <2>2. QED
    BY <1>1, <1>2, <1>3, <2>1 DEF ReadWithin, Board, User, Likes
<1>4. CASE Board(v) = b
  <2> DEFINE slack == lost[b] + missed[v]
  <2>1. /\ read[v] \in Nat /\ Likes(b) \in Nat /\ slack \in Nat
        /\ missed[w] \in Nat /\ missed[v] \in Nat /\ lost[b] \in Nat
    BY DriftNats DEF DriftInv
  <2>2. lost'[b] + missed'[v] = slack + missed[w] + 1
    BY <1>1, <1>4, <2>1, CommitMoves DEF DriftInv, DriftTypes
  <2>3. Likes(b)' \in {Likes(b) - 1, Likes(b), Likes(b) + 1}
    BY LikesMove
  <2>4. Within(read[v], Likes(b), slack)
    BY <1>2, <1>4 DEF ReadWithin
  <2>5. Within(read[v], Likes(b)', lost'[b] + missed'[v])
    BY <2>1, <2>2, <2>3, <2>4 DEF Within
  <2>6. ASSUME req[v].op = "unlike", User(v) \notin likers'[b]
        PROVE  Within(read[v] - 1, Likes(b)', lost'[b] + missed'[v])
    <3>1. CASE User(v) \notin likers[b]
      <4>1. Within(read[v] - 1, Likes(b), slack)
        BY <1>2, <1>4, <2>6, <3>1 DEF ReadWithin
      <4>2. QED
        BY <2>1, <2>2, <2>3, <4>1 DEF Within
    <3>2. CASE User(v) \in likers[b]
      <4>1. CASE CommitLike(w)
        BY <2>6, <3>2, <4>1 DEF CommitLike, TypeOK, TableTypes
      <4>2. CASE Likes(b)' = Likes(b) - 1
        BY <2>1, <2>2, <2>4, <4>2 DEF Within
      <4>3. CASE likers'[b] = likers[b]
        BY <2>6, <3>2, <4>3
      <4>4. QED
        BY <4>1, <4>2, <4>3, LikesMove
    <3>3. QED
      BY <3>1, <3>2
  <2>7. QED
    BY <1>1, <1>4, <2>5, <2>6 DEF ReadWithin, Board, User, Likes
<1>5. QED
  BY <1>3, <1>4

LEMMA CommitStepDrift ==
    ASSUME TypeOK, InFlightConsistent, DriftInv, NEW w \in Workers, Commit(w), CountMissed(w)
    PROVE  DriftInv'
<1>1. PICK b \in Boards : b = Board(w)
  BY RequestFields DEF Commit, CommitLike, CommitUnlike, At
<1>2. DriftTypes'
  <2>1. missed' \in [Workers -> Nat]
    BY DEF CountMissed, DriftInv, DriftTypes
  <2>2. lost' \in [Boards -> Nat]
    BY <1>1 DEF CountMissed, DriftInv, DriftTypes
  <2>3. QED
    BY <2>1, <2>2 DEF DriftTypes
<1>3. CounterWithinLost'
  <2>1. ASSUME NEW c \in Boards, c # b
        PROVE  Within(numLike'[c], Likes(c)', lost'[c])
    <3>1. Likes(c)' = Likes(c) /\ numLike'[c] = numLike[c] /\ lost'[c] = lost[c]
      BY <1>1, <2>1, CommitMoves DEF Likes, DriftInv, DriftTypes
    <3>2. QED
      BY <3>1 DEF DriftInv, CounterWithinLost
  <2>2. QED
    BY <1>1, <2>1, CommitCounter DEF CounterWithinLost
<1>4. \A v \in Workers : InTxn(v)' => ReadWithin(v)'
  BY <1>1, CommitMoves, CommitReads DEF DriftInv, InTxn
<1>5. \A v \in Workers : /\ fresh'[v] <=> InTxn(v)' /\ missed'[v] = 0
                         /\ ~InTxn(v)' => missed'[v] = 0
  <2>1. CASE InTxn(w) /\ Board(w) = b
    <3>1. ASSUME NEW v \in Workers \ {w}
          PROVE  /\ fresh'[v] <=> InTxn(v)' /\ missed'[v] = 0
                 /\ ~InTxn(v)' => missed'[v] = 0
      BY <1>1, <3>1, CommitMoves, DriftNats DEF DriftInv, ReadsWithinMissed, InTxn
    <3>2. ~fresh'[w] /\ ~InTxn(w)' /\ missed'[w] = 0
      BY <1>1, CommitMoves DEF DriftInv
    <3>3. QED
      BY <3>1, <3>2
  <2>2. QED
    BY <1>1, <2>1, CommitMoves DEF DriftInv
<1>6. \A c \in Boards : c \in drifted' <=> lost'[c] > 0
  <2>1. fresh[w] <=> missed[w] = 0
    BY <1>1, CommitMoves DEF DriftInv, ReadsWithinMissed
  <2>2. QED
    BY <1>1, <2>1, CommitMoves, DriftNats DEF DriftInv, DriftTypes, ReadsWithinMissed
<1>7. QED
  BY <1>2, <1>3, <1>4, <1>5, <1>6 DEF DriftInv, ReadsWithinMissed

--------------------------------------------------------------------------------
LEMMA DriftStep ==
    TypeOK /\ InFlightConsistent /\ InFlightConsistent' /\ DriftInv
        /\ [DriftNext]_driftVars => DriftInv'
<1> SUFFICES ASSUME TypeOK, InFlightConsistent, InFlightConsistent', DriftInv,
                    [DriftNext]_driftVars
             PROVE  DriftInv'
  OBVIOUS
<1>1. CASE UNCHANGED driftVars
  BY <1>1
     DEF driftVars, vars, tables, history, DriftInv, DriftTypes, CounterWithinLost,
         ReadsWithinMissed, ReadWithin, Likes, InTxn, Board, User
<1>2. CASE DriftNext
  BY <1>2, DriftNextCases, CommitStepDrift, QuietStep
<1>3. QED
  BY <1>1, <1>2

LEMMA DriftInvariant == DriftSpec => [](TypeOK /\ InFlightConsistent /\ DriftInv)
<1>1. DriftInit => DriftInv
  <2> SUFFICES ASSUME DriftInit
               PROVE  DriftInv
    OBVIOUS
  <2>1. \A b \in Boards : Likes(b) = 0 /\ numLike[b] = 0 /\ lost[b] = 0
    BY FS_EmptySet DEF DriftInit, Init, Likes
  <2>2. QED
    BY <2>1
       DEF DriftInit, Init, DriftInv, DriftTypes, CounterWithinLost, ReadsWithinMissed,
           InTxn, Within
<1>2. QED
  BY <1>1, DriftStep, DriftImplementsBoard, TypeInvariant, InFlightInvariant, PTL DEF DriftSpec

(* The count a board shows is off by at most what the commits on it had   *)
(* missed, for any number of workers, users and boards.                    *)
THEOREM CounterErrorBounded == DriftSpec => []CounterWithinLost
BY DriftInvariant, PTL DEF DriftInv

(* What a session has read is off by no more than that and what it has    *)
(* itself missed; the boards that drifted are those that lost anything, so *)
(* a count that never met an overlap is exact.                             *)
THEOREM ReadErrorBounded == DriftSpec => []ReadsWithinMissed
BY DriftInvariant, PTL DEF DriftInv
================================================================================
