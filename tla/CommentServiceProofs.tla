------------------------- MODULE CommentServiceProofs -------------------------
(***************************************************************************)
(* Proofs about CommentService, for any number of users, boards, comments  *)
(* and workers: its type invariant, the consistency of its tables with the *)
(* transactions in flight, exact counters, referential integrity, and that *)
(* it implements CommentBook.                                              *)
(***************************************************************************)
EXTENDS CommentService, FiniteSetTheorems, TLAPS

--------------------------------------------------------------------------------
(* The inductive invariant.  A comment that exists has an author, a board  *)
(* and, if it is a reply, a parent that exists; what does not exist has no *)
(* likes.                                                                  *)
RowsSound ==
    /\ \A c \in born : on[c] \in Boards
    /\ \A c \in live : author[c] \in Users /\ parent[c] \in live \cup {NoComment}
    /\ \A c \in Comments : c \notin live => numLike[c] = 0 /\ likers[c] = {}

(* A request in its transaction has been let in for a reason. *)
Grounded(w) ==
    /\ req[w].op = "create" => req[w].board \in Boards
    /\ req[w].op # "create" => Target(w) \in born
    /\ pc[w] = "commit" => req[w].op \in {"like", "unlike"}
    /\ req[w].op \in {"update", "delete"} /\ Target(w) \in live =>
           author[Target(w)] = User(w)

(* What a worker has read is still so, if nothing has outdated it. *)
ReadHolds(w) ==
    /\ req[w].op # "update"
    /\ req[w].op = "create" => read[w] = numComment[req[w].board]
    /\ req[w].op = "delete" => Target(w) \in live /\ read[w] = numComment[on[Target(w)]]
    /\ req[w].op \in {"like", "unlike"} /\ Target(w) \in live => read[w] = numLike[Target(w)]
    /\ req[w].op = "unlike" /\ Target(w) \in live => User(w) \in likers[Target(w)]

Sound(w) ==
    /\ InTxn(w) => Grounded(w)
    /\ fresh[w] => InTxn(w) /\ ReadHolds(w)
    /\ At(w, "commit", "like") => Target(w) \in live /\ User(w) \notin likers[Target(w)]

(* Two workers that hold the same like row are both deleting it. *)
PendingApart ==
    \A v, w \in Workers :
        /\ v # w
        /\ pc[v] = "commit" /\ pc[w] = "commit"
        /\ User(v) = User(w) /\ Target(v) = Target(w)
        => req[v].op = "unlike" /\ req[w].op = "unlike"

InFlight == RowsSound /\ (\A w \in Workers : Sound(w)) /\ PendingApart

--------------------------------------------------------------------------------
(* A worker that is not idle serves a request, which names what it needs. *)
LEMMA RequestFields ==
    ASSUME TypeOK, NEW w \in Workers, pc[w] # "idle"
    PROVE  /\ req[w] \in Requests
           /\ req[w].op \in AllOps /\ User(w) \in Users
           /\ req[w].op = "create" => /\ req[w].text \in Contents
                                      /\ req[w].board \in Boards \cup {NoBoard}
                                      /\ Target(w) \in Comments \cup {NoComment}
           /\ req[w].op # "create" => Target(w) \in Comments
           /\ req[w].op = "update" => req[w].text \in Contents
<1>1. req[w] \in Requests
  BY DEF TypeOK, WorkerTypes
<1>2. QED
  BY <1>1, CommentAssumption DEF Requests, AllOps, User, Target

(* NoRequest is none of the requests a client can send. *)
LEMMA NoRequestApart == NoRequest \notin Requests
<1>1. NoRequest.op = "none"
  BY DEF NoRequest
<1>2. "none" \notin Ops
  BY CommentAssumption DEF AllOps
<1>3. QED
  BY <1>1, <1>2 DEF Requests

(* Ending a request, and going on with it, keep the worker's types. *)
LEMMA AnswerTypes ==
    ASSUME TypeOK, NEW w \in Workers, NEW code \in {0, 200, 201, 400, 403, 404, 500},
           Answer(w, code)
    PROVE  WorkerTypes'
<1>1. \A v \in Workers : pc'[v] # "idle" <=> req'[v] # NoRequest
  BY DEF TypeOK, WorkerTypes, Answer
<1>2. QED
  BY <1>1 DEF TypeOK, WorkerTypes, Answer

LEMMA GotoTypes ==
    ASSUME TypeOK, NEW w \in Workers, pc[w] # "idle",
           NEW place \in {"flush", "commit"}, Goto(w, place), read' \in [Workers -> Nat]
    PROVE  WorkerTypes'
<1>1. \A v \in Workers : pc'[v] # "idle" <=> req'[v] # NoRequest
  BY DEF TypeOK, WorkerTypes, Goto
<1>2. QED
  BY <1>1 DEF TypeOK, WorkerTypes, Goto

(* The counter a transaction changes belongs to a board or a comment. *)
LEMMA CountedExists ==
    ASSUME TypeOK, NEW w \in Workers, InTxn(w), RowsSound, Grounded(w)
    PROVE  Counted(w) \in Boards \cup Comments
<1>1. req[w].op # "create" => Target(w) \in Comments
  BY RequestFields DEF InTxn
<1>2. QED
  BY <1>1 DEF Counted, Grounded, RowsSound

--------------------------------------------------------------------------------
(* Steps that change no table. *)

(* The other workers stay where they are. *)
Alone(w) ==
    \A v \in Workers \ {w} : /\ pc'[v] = pc[v] /\ req'[v] = req[v]
                             /\ read'[v] = read[v] /\ fresh'[v] = fresh[v]

LEMMA SameTables ==
    ASSUME TypeOK, InFlight, NEW w \in Workers, UNCHANGED tables, Alone(w), Sound(w)',
           pc'[w] # "commit"
    PROVE  InFlight'
<1> USE DEF tables, comments, likes
<1>1. RowsSound'
  BY DEF InFlight, RowsSound
<1>2. ASSUME NEW v \in Workers \ {w}
      PROVE  Sound(v)'
  BY DEF InFlight, Sound, Alone, InTxn, Grounded, ReadHolds, At, Target, User
<1>3. PendingApart'
  BY DEF InFlight, PendingApart, Alone, Target, User
<1>4. QED
  BY <1>1, <1>2, <1>3 DEF InFlight

(* A worker outside a transaction holds no fresh read. *)
LEMMA NotFresh ==
    ASSUME InFlight, NEW w \in Workers, ~InTxn(w)
    PROVE  ~fresh[w]
BY DEF InFlight, Sound

LEMMA RefuseStep ==
    ASSUME TypeOK, InFlight, NEW w \in Workers,
           NEW code \in {0, 200, 201, 400, 403, 404, 500}, Refuse(w, code)
    PROVE  TypeOK' /\ InFlight'
<1>1. TypeOK'
  <2>1. WorkerTypes'
    BY AnswerTypes DEF Refuse
  <2>2. TableTypes' /\ HistoryTypes'
    BY DEF Refuse, TypeOK, TableTypes, HistoryTypes, tables, comments, likes
  <2>3. QED
    BY <2>1, <2>2 DEF TypeOK
<1>2. Alone(w) /\ pc'[w] = "idle" /\ ~fresh'[w]
  BY DEF Refuse, Answer, Alone, TypeOK, WorkerTypes, HistoryTypes
<1>3. Sound(w)'
  BY <1>2 DEF Sound, InTxn, At
<1>4. QED
  BY <1>1, <1>2, <1>3, SameTables DEF Refuse

LEMMA BeginStep ==
    ASSUME TypeOK, InFlight, NEW w \in Workers, Begin(w)
    PROVE  TypeOK' /\ InFlight'
<1>1. PICK r \in Requests : req' = [req EXCEPT ![w] = r]
  BY DEF Begin
<1>2. TypeOK'
  <2>1. \A v \in Workers : pc'[v] # "idle" <=> req'[v] # NoRequest
    BY <1>1, NoRequestApart DEF Begin, TypeOK, WorkerTypes
  <2>2. WorkerTypes'
    BY <1>1, <2>1 DEF Begin, TypeOK, WorkerTypes
  <2>3. QED
    BY <2>2 DEF Begin, TypeOK, TableTypes, HistoryTypes, tables, comments, likes, history
<1>3. ~fresh[w]
  BY NotFresh DEF Begin, InTxn
<1>4. Alone(w) /\ pc'[w] = "received" /\ ~fresh'[w]
  BY <1>1, <1>3 DEF Begin, Alone, TypeOK, WorkerTypes, history
<1>5. Sound(w)'
  BY <1>4 DEF Sound, InTxn, At
<1>6. QED
  BY <1>2, <1>4, <1>5, SameTables DEF Begin

(* The first SELECTs of a request: what it loads is what the tables hold. *)
LEMMA LoadStep ==
    ASSUME TypeOK, InFlight, NEW w \in Workers, pc[w] = "received",
           NEW count \in Nat, Load(w, count), Grounded(w),
           req[w].op = "create" => count = numComment[req[w].board],
           req[w].op = "delete" => Target(w) \in live /\ count = numComment[on[Target(w)]],
           req[w].op \in {"like", "unlike"} => count = numLike[Target(w)],
           req[w].op = "unlike" => User(w) \in likers[Target(w)],
           req[w].op # "update"
    PROVE  TypeOK' /\ InFlight'
<1>1. /\ read' = [read EXCEPT ![w] = count] /\ fresh' = [fresh EXCEPT ![w] = TRUE]
      /\ pc' = [pc EXCEPT ![w] = "flush"] /\ UNCHANGED <<req, tables, drifted>>
  BY DEF Load, Goto
<1>2. TypeOK'
  <2>1. WorkerTypes'
    BY <1>1, GotoTypes DEF Load, TypeOK, WorkerTypes
  <2>2. QED
    BY <1>1, <2>1 DEF TypeOK, TableTypes, HistoryTypes, tables, comments, likes
<1>3. Alone(w) /\ pc'[w] = "flush" /\ read'[w] = count /\ fresh'[w] /\ req'[w] = req[w]
  BY <1>1 DEF Alone, TypeOK, WorkerTypes, HistoryTypes
<1>4. Sound(w)'
  BY <1>1, <1>3 DEF Sound, InTxn, At, Grounded, ReadHolds, Target, User, tables, comments, likes
<1>5. QED
  BY <1>1, <1>2, <1>3, <1>4, SameTables

(* The author's update goes on to its write. *)
LEMMA UpdateGoesOn ==
    ASSUME TypeOK, InFlight, NEW w \in Workers, At(w, "received", "update"),
           Target(w) \in live, User(w) = author[Target(w)],
           Goto(w, "flush"), UNCHANGED <<tables, read, history>>
    PROVE  TypeOK' /\ InFlight'
<1>1. TypeOK'
  <2>1. WorkerTypes'
    BY GotoTypes DEF At, TypeOK, WorkerTypes
  <2>2. QED
    BY <2>1 DEF TypeOK, TableTypes, HistoryTypes, tables, comments, likes, history
<1>2. Alone(w) /\ pc'[w] = "flush" /\ req'[w] = req[w]
  BY DEF Goto, Alone, TypeOK, WorkerTypes, HistoryTypes, history
<1>3. ~fresh'[w]
  BY NotFresh DEF InTxn, At, history
<1>4. Sound(w)'
  BY <1>2, <1>3
     DEF Sound, InTxn, At, Grounded, Target, User, tables, comments, TypeOK, TableTypes
<1>5. QED
  BY <1>1, <1>2, <1>4, SameTables

(* The write of a like row: the row lock keeps two workers from holding   *)
(* the same row, unless both delete it.                                    *)
LEMMA FlushStep ==
    ASSUME TypeOK, InFlight, NEW w \in Workers,
           pc[w] = "flush", req[w].op \in {"like", "unlike"}, ~RowLocked(w),
           req[w].op = "like" => Target(w) \in live /\ User(w) \notin likers[Target(w)],
           Goto(w, "commit"), UNCHANGED <<tables, read, history>>
    PROVE  TypeOK' /\ InFlight'
<1>1. TypeOK'
  <2>1. WorkerTypes'
    BY GotoTypes DEF TypeOK, WorkerTypes
  <2>2. QED
    BY <2>1 DEF TypeOK, TableTypes, HistoryTypes, tables, comments, likes, history
<1>2. Alone(w) /\ pc'[w] = "commit" /\ UNCHANGED <<req, read, fresh>>
  BY DEF Goto, Alone, TypeOK, WorkerTypes, history
<1> USE DEF tables, comments, likes, history
<1>3. RowsSound'
  BY DEF InFlight, RowsSound
<1>4. ASSUME NEW v \in Workers
      PROVE  Sound(v)'
  BY <1>2 DEF InFlight, Sound, Alone, InTxn, Grounded, ReadHolds, At, Target, User
<1>5. PendingApart'
  <2>1. ASSUME NEW v \in Workers \ {w}, pc[v] = "commit",
               User(v) = User(w), Target(v) = Target(w)
        PROVE  req[v].op = "unlike" /\ req[w].op = "unlike"
    <3>1. req[v].op # "like" /\ req[w].op # "like"
      BY <2>1 DEF RowLocked
    <3>2. req[v].op \in {"like", "unlike"}
      BY <2>1 DEF InFlight, Sound, InTxn, Grounded
    <3>3. QED
      BY <3>1, <3>2
  <2>2. QED
    BY <1>2, <2>1 DEF InFlight, PendingApart, Alone, User, Target
<1>6. QED
  BY <1>1, <1>3, <1>4, <1>5 DEF InFlight

--------------------------------------------------------------------------------
(* The commits. *)

(* A commit leaves its worker idle and fresh reads of other counters alone. *)
LEMMA NoteTypes ==
    ASSUME TypeOK, InFlight, NEW w \in Workers, InTxn(w)
    PROVE  /\ Drift(w) \in SUBSET (Boards \cup Comments)
           /\ Outdated(w) \in [Workers -> BOOLEAN]
           /\ ~Outdated(w)[w]
           /\ \A v \in Workers : Outdated(w)[v] => fresh[v] /\ Counted(v) # Counted(w)
<1>1. Counted(w) \in Boards \cup Comments
  BY CountedExists DEF InFlight, Sound
<1>2. QED
  BY <1>1 DEF Drift, Outdated, TypeOK, HistoryTypes

(* How the others stay while w commits. *)
Ended(w) ==
    /\ pc'[w] = "idle"
    /\ \A v \in Workers \ {w} : pc'[v] = pc[v] /\ req'[v] = req[v] /\ read'[v] = read[v]

LEMMA AnswerEnds ==
    ASSUME TypeOK, NEW w \in Workers, NEW code, Answer(w, code)
    PROVE  Ended(w)
BY DEF Ended, Answer, TypeOK, WorkerTypes

LEMMA ApartKept ==
    ASSUME InFlight, NEW w \in Workers, Ended(w)
    PROVE  PendingApart'
BY DEF InFlight, PendingApart, Ended, User, Target

(* A new comment: its id was in nobody's hands. *)
LEMMA InsertCommentStep ==
    ASSUME TypeOK, InFlight, NEW w \in Workers, InsertComment(w), ~Refuse(w, 500)
    PROVE  TypeOK' /\ InFlight'
<1>1. /\ InTxn(w) /\ Grounded(w) /\ req[w].op = "create" /\ req[w].board \in Boards
      /\ User(w) \in Users /\ req[w].text \in Contents
  BY RequestFields DEF InsertComment, At, InTxn, InFlight, Sound, Grounded
<1>2. PICK c \in Comments \ born :
         /\ born' = born \cup {c} /\ live' = live \cup {c}
         /\ author' = [author EXCEPT ![c] = User(w)]
         /\ on' = [on EXCEPT ![c] = req[w].board]
         /\ parent' = [parent EXCEPT ![c] = Target(w)]
         /\ content' = [content EXCEPT ![c] = req[w].text]
  BY DEF InsertComment
<1>3. /\ Target(w) \in live \cup {NoComment}
      /\ numComment' = [numComment EXCEPT ![req[w].board] = read[w] + 1]
      /\ fresh' = Outdated(w) /\ drifted' = Drift(w)
      /\ Answer(w, 201) /\ UNCHANGED <<numLike, likers>>
  BY DEF InsertComment, NoteCommit, likes
<1>4. Ended(w)
  BY <1>3, AnswerEnds
<1>5. TypeOK'
  <2>1. WorkerTypes'
    BY <1>3, AnswerTypes
  <2>2. HistoryTypes'
    BY <1>1, <1>3, NoteTypes DEF HistoryTypes
  <2>3. TableTypes'
    BY <1>1, <1>2, <1>3 DEF TypeOK, TableTypes, WorkerTypes
  <2>4. QED
    BY <2>1, <2>2, <2>3 DEF TypeOK
<1>6. RowsSound'
  BY <1>1, <1>2, <1>3 DEF InFlight, RowsSound, TypeOK, TableTypes
<1>7. ASSUME NEW v \in Workers
      PROVE  Sound(v)'
  <2>1. CASE v = w
    BY <1>1, <1>3, <1>4, <2>1, NoteTypes DEF Sound, Ended, InTxn, At
  <2>2. CASE v # w
    <3>1. Sound(v) /\ pc'[v] = pc[v] /\ req'[v] = req[v] /\ read'[v] = read[v]
      BY <1>4, <2>2 DEF InFlight, Ended
    <3>2. InTxn(v) /\ req[v].op # "create" => Target(v) \in born /\ Target(v) # c
      BY <3>1 DEF Sound, Grounded
    <3>3. InTxn(v)' => Grounded(v)'
      BY <1>2, <3>1, <3>2
         DEF Sound, Grounded, InTxn, Target, User, TypeOK, TableTypes
    <3>4. fresh'[v] => InTxn(v)' /\ ReadHolds(v)'
      <4>1. ASSUME fresh'[v]
            PROVE  fresh[v] /\ Counted(v) # req[w].board
        BY <1>1, <1>3, <4>1, NoteTypes DEF Counted
      <4>2. QED
        BY <1>1, <1>2, <1>3, <3>1, <3>2, <4>1
           DEF Sound, InTxn, ReadHolds, Counted, Target, User, TypeOK, TableTypes, Grounded,
               InFlight, RowsSound
    <3>5. QED
      BY <1>2, <1>3, <3>1, <3>3, <3>4 DEF Sound, At, Target, User
  <2>3. QED
    BY <2>1, <2>2
<1>8. QED
  BY <1>4, <1>5, <1>6, <1>7, ApartKept DEF InFlight

LEMMA UpdateCommentStep ==
    ASSUME TypeOK, InFlight, NEW w \in Workers, UpdateComment(w), ~Refuse(w, 500)
    PROVE  TypeOK' /\ InFlight'
<1>1. /\ InTxn(w) /\ Target(w) \in live /\ req[w].op = "update" /\ req[w].text \in Contents
      /\ content' = [content EXCEPT ![Target(w)] = req[w].text]
      /\ Answer(w, 200)
      /\ UNCHANGED <<born, live, author, on, parent, numLike, likers, numComment,
                     fresh, drifted>>
  BY RequestFields DEF UpdateComment, At, InTxn, likes, history
<1>2. Ended(w)
  BY <1>1, AnswerEnds
<1>3. TypeOK'
  <2>1. WorkerTypes'
    BY <1>1, AnswerTypes
  <2>2. QED
    BY <1>1, <2>1 DEF TypeOK, TableTypes, HistoryTypes
<1>4. RowsSound'
  BY <1>1 DEF InFlight, RowsSound
<1>5. ASSUME NEW v \in Workers
      PROVE  Sound(v)'
  <2>1. CASE v = w
    BY <1>1, <1>2, <2>1 DEF InFlight, Sound, Ended, InTxn, At, ReadHolds
  <2>2. CASE v # w
    BY <1>1, <1>2, <2>2
       DEF InFlight, Sound, Ended, InTxn, At, Grounded, ReadHolds, Target, User
  <2>3. QED
    BY <2>1, <2>2
<1>6. QED
  BY <1>2, <1>3, <1>4, <1>5, ApartKept DEF InFlight

(* A deletion: replies become roots and likes go; no like of the comment  *)
(* is about to be committed, as it would share the row.                    *)
LEMMA DeleteCommentStep ==
    ASSUME TypeOK, InFlight, NEW w \in Workers, DeleteComment(w)
    PROVE  TypeOK' /\ InFlight'
<1> DEFINE c == Target(w)
<1>1. /\ InTxn(w) /\ req[w].op = "delete" /\ c \in born /\ c \in Comments /\ on[c] \in Boards
      /\ pc[w] = "flush"
  BY DEF DeleteComment, At, InTxn, InFlight, Sound, Grounded, RowsSound, TypeOK, TableTypes
<1>2. /\ live' = live \ {c}
      /\ parent' = [d \in Comments |-> IF parent[d] = c THEN NoComment ELSE parent[d]]
      /\ author' = [author EXCEPT ![c] = NoUser]
      /\ content' = [content EXCEPT ![c] = NoComment]
      /\ numLike' = [numLike EXCEPT ![c] = 0]
      /\ likers' = [likers EXCEPT ![c] = {}]
      /\ numComment' = [numComment EXCEPT ![on[c]] = IF read[w] = 0 THEN @ ELSE read[w] - 1]
      /\ fresh' = Outdated(w) /\ drifted' = Drift(w) \ {c}
      /\ Answer(w, 200) /\ UNCHANGED <<born, on>>
  BY DEF DeleteComment
<1>3. Ended(w)
  BY <1>2, AnswerEnds
<1>4. TypeOK'
  <2>1. WorkerTypes'
    BY <1>2, AnswerTypes
  <2>2. HistoryTypes'
    BY <1>1, <1>2, NoteTypes DEF HistoryTypes
  <2>3. numComment' \in [Boards -> Nat]
    BY <1>1, <1>2 DEF TypeOK, TableTypes, WorkerTypes
  <2>4. TableTypes'
    BY <1>1, <1>2, <2>3 DEF TypeOK, TableTypes
  <2>5. QED
    BY <2>1, <2>2, <2>4 DEF TypeOK
<1>5. RowsSound'
  BY <1>1, <1>2, CommentAssumption DEF InFlight, RowsSound, TypeOK, TableTypes
<1>6. ASSUME NEW v \in Workers
      PROVE  Sound(v)'
  <2>1. CASE v = w
    BY <1>1, <1>2, <1>3, <2>1, NoteTypes DEF Sound, Ended, InTxn, At
  <2>2. CASE v # w
    <3>1. Sound(v) /\ pc'[v] = pc[v] /\ req'[v] = req[v] /\ read'[v] = read[v]
      BY <1>3, <2>2 DEF InFlight, Ended
    <3>2. InTxn(v) /\ req[v].op # "create" => Target(v) \in born /\ Target(v) \in Comments
      BY <3>1 DEF Sound, Grounded, TypeOK, TableTypes
    <3>3. InTxn(v)' => Grounded(v)'
      BY <1>1, <1>2, <3>1, <3>2
         DEF Sound, Grounded, InTxn, Target, User, TypeOK, TableTypes
    <3>4. fresh'[v] => InTxn(v)' /\ ReadHolds(v)'
      <4>1. ASSUME fresh'[v]
            PROVE  fresh[v] /\ Counted(v) # on[c]
        BY <1>1, <1>2, <4>1, NoteTypes DEF Counted
      <4>2. QED
        BY <1>1, <1>2, <3>1, <3>2, <4>1
           DEF Sound, InTxn, ReadHolds, Counted, Target, User, TypeOK, TableTypes, Grounded,
               InFlight, RowsSound
    <3>5. At(v, "commit", "like") => Target(v) # c
      BY <2>2, <3>1 DEF DeleteComment, DeleteBlocked, Shared, Sound, At, Target
    <3>6. QED
      BY <1>1, <1>2, <3>1, <3>2, <3>3, <3>4, <3>5
         DEF Sound, At, InTxn, Target, User, TypeOK, TableTypes
  <2>3. QED
    BY <2>1, <2>2
<1>7. QED
  BY <1>3, <1>4, <1>5, <1>6, ApartKept DEF InFlight

(* A commit of a like or an unlike: no other transaction holds the row it *)
(* inserts, and those that have read the counter are no longer fresh.      *)
LEMMA CommitLikesStep ==
    ASSUME TypeOK, InFlight, NEW w \in Workers, ~Refuse(w, 500),
           CommitLike(w) \/ CommitUnlike(w)
    PROVE  TypeOK' /\ InFlight'
<1> DEFINE c == Target(w)
           u == User(w)
<1>1. /\ pc[w] = "commit" /\ InTxn(w) /\ req[w].op \in {"like", "unlike"}
      /\ c \in Comments /\ u \in Users /\ Counted(w) = c
  BY RequestFields DEF CommitLike, CommitUnlike, At, InTxn, Counted
<1>2. /\ fresh' = Outdated(w) /\ drifted' = Drift(w) /\ Answer(w, 200)
      /\ UNCHANGED <<born, live, author, on, parent, content, numComment>>
  BY DEF CommitLike, CommitUnlike, NoteCommit, comments
<1>3. \/ /\ numLike' = [numLike EXCEPT ![c] = read[w] + 1]
         /\ likers' = [likers EXCEPT ![c] = @ \cup {u}]
         /\ c \in live /\ req[w].op = "like"
      \/ /\ numLike' = [numLike EXCEPT ![c] = IF read[w] = 0 THEN @ ELSE read[w] - 1]
         /\ likers' = [likers EXCEPT ![c] = @ \ {u}]
         /\ read[w] > 0 => c \in live
         /\ req[w].op = "unlike"
  BY DEF CommitLike, CommitUnlike, At, InFlight, Sound
<1>4. Ended(w)
  BY <1>2, AnswerEnds
<1>5. TypeOK'
  <2>1. WorkerTypes'
    BY <1>2, AnswerTypes
  <2>2. HistoryTypes'
    BY <1>1, <1>2, NoteTypes DEF HistoryTypes
  <2>3. read[w] \in Nat /\ numLike[c] \in Nat
    BY <1>1 DEF TypeOK, TableTypes, WorkerTypes
  <2>4. numLike' \in [Comments -> Nat] /\ likers' \in [Comments -> SUBSET Users]
    BY <1>1, <1>3, <2>3 DEF TypeOK, TableTypes
  <2>5. QED
    BY <1>2, <2>1, <2>2, <2>4 DEF TypeOK, TableTypes
<1>6. RowsSound'
  <2>1. ASSUME NEW d \in Comments, d \notin live
        PROVE  numLike'[d] = 0 /\ likers'[d] = {}
    <3>1. numLike[d] = 0 /\ likers[d] = {}
      BY <2>1 DEF InFlight, RowsSound
    <3>2. d = c => read[w] = 0
      BY <1>3, <2>1 DEF TypeOK, WorkerTypes
    <3>3. QED
      BY <1>1, <1>3, <2>1, <3>1, <3>2 DEF TypeOK, TableTypes
  <2>2. QED
    BY <1>2, <2>1 DEF InFlight, RowsSound
<1>7. ASSUME NEW v \in Workers
      PROVE  Sound(v)'
  <2>1. CASE v = w
    BY <1>1, <1>2, <1>4, <2>1, NoteTypes DEF Sound, Ended, InTxn, At
  <2>2. CASE v # w
    <3>1. Sound(v) /\ pc'[v] = pc[v] /\ req'[v] = req[v] /\ read'[v] = read[v]
      BY <1>4, <2>2 DEF InFlight, Ended
    <3>2. InTxn(v)' => Grounded(v)'
      BY <1>2, <3>1 DEF Sound, Grounded, InTxn, Target, User
    <3>3. fresh'[v] => InTxn(v)' /\ ReadHolds(v)'
      <4>1. ASSUME fresh'[v]
            PROVE  fresh[v] /\ Counted(v) # c
        BY <1>1, <1>2, <4>1, NoteTypes
      <4>2. ASSUME fresh'[v], req[v].op \in {"like", "unlike"}
            PROVE  numLike'[Target(v)] = numLike[Target(v)]
                   /\ likers'[Target(v)] = likers[Target(v)]
        <5>1. Target(v) # c /\ Target(v) \in Comments
          BY <3>1, <4>1, <4>2, RequestFields DEF Counted, Sound, InTxn
        <5>2. QED
          BY <1>1, <1>3, <5>1 DEF TypeOK, TableTypes
      <4>3. QED
        BY <1>2, <3>1, <4>1, <4>2 DEF Sound, InTxn, ReadHolds, Target, User
    <3>4. At(v, "commit", "like") => Target(v) \in live /\ User(v) \notin likers'[Target(v)]
      <4>1. SUFFICES ASSUME At(v, "commit", "like")
                     PROVE  User(v) \notin likers'[Target(v)]
        BY <3>1 DEF Sound
      <4>2. User(v) \notin likers[Target(v)] /\ Target(v) \in Comments
        BY <3>1, <4>1, RequestFields DEF Sound, At
      <4>3. Target(v) = c => User(v) # u
        BY <1>1, <2>2, <4>1 DEF InFlight, PendingApart, At
      <4>4. QED
        BY <1>1, <1>3, <4>2, <4>3 DEF TypeOK, TableTypes
    <3>5. QED
      BY <1>2, <3>1, <3>2, <3>3, <3>4 DEF Sound, At, Target, User
  <2>3. QED
    BY <2>1, <2>2
<1>8. QED
  BY <1>4, <1>5, <1>6, <1>7, ApartKept DEF InFlight

--------------------------------------------------------------------------------
(* The first SELECTs let a request in, or refuse it. *)
LEMMA SelectStep ==
    ASSUME TypeOK, InFlight, NEW w \in Workers,
           \/ SelectBoard(w) \/ SelectOwn(w)
           \/ SelectForLike(w) \/ SelectForUnlike(w)
    PROVE  TypeOK' /\ InFlight'
<1>1. pc[w] = "received" /\ pc[w] # "idle"
  BY DEF SelectBoard, SelectOwn, SelectForLike, SelectForUnlike, At
<1>2. ASSUME NEW code \in {0, 200, 201, 400, 403, 404, 500}, Refuse(w, code)
      PROVE  TypeOK' /\ InFlight'
  BY <1>2, RefuseStep
<1>3. CASE SelectBoard(w)
  <2>1. CASE req[w].board # NoBoard /\ Target(w) \in live \cup {NoComment}
    <3>1. req[w].op = "create" /\ req[w].board \in Boards /\ Load(w, numComment[req[w].board])
      BY <1>1, <1>3, <2>1, RequestFields DEF SelectBoard, At
    <3>2. Grounded(w) /\ numComment[req[w].board] \in Nat
      BY <1>1, <3>1 DEF Grounded, TypeOK, TableTypes
    <3>3. QED
      BY <1>1, <3>1, <3>2, LoadStep
  <2>2. QED
    BY <1>2, <1>3, <2>1 DEF SelectBoard
<1>4. CASE SelectForLike(w) \/ SelectForUnlike(w)
  <2>1. CASE /\ Target(w) \in live /\ Load(w, numLike[Target(w)])
             /\ req[w].op \in {"like", "unlike"}
             /\ req[w].op = "unlike" => User(w) \in likers[Target(w)]
    <3>1. Grounded(w) /\ numLike[Target(w)] \in Nat
      BY <1>1, <2>1 DEF Grounded, TypeOK, TableTypes
    <3>2. QED
      BY <1>1, <2>1, <3>1, LoadStep
  <2>2. CASE Refuse(w, 400)
    BY <1>2, <2>2
  <2>3. QED
    BY <1>4, <2>1, <2>2 DEF SelectForLike, SelectForUnlike, At
<1>5. CASE SelectOwn(w)
  <2>1. CASE Refuse(w, 404) \/ Refuse(w, 403) \/ Refuse(w, 200)
    BY <1>2, <2>1
  <2>2. CASE /\ Target(w) \in live /\ User(w) = author[Target(w)]
             /\ req[w].op = "delete" /\ Load(w, numComment[on[Target(w)]])
    <3>1. Grounded(w) /\ numComment[on[Target(w)]] \in Nat
      BY <1>1, <2>2 DEF Grounded, InFlight, RowsSound, TypeOK, TableTypes
    <3>2. QED
      BY <1>1, <2>2, <3>1, LoadStep
  <2>3. CASE /\ Target(w) \in live /\ User(w) = author[Target(w)]
             /\ req[w].op = "update" /\ Goto(w, "flush")
             /\ UNCHANGED <<tables, read, history>>
    BY <1>1, <2>3, UpdateGoesOn DEF At
  <2>4. QED
    BY <1>5, <2>1, <2>2, <2>3 DEF SelectOwn
<1>6. QED
  BY <1>3, <1>4, <1>5

LEMMA InFlightStep == TypeOK /\ InFlight /\ [Next]_vars => TypeOK' /\ InFlight'
<1> SUFFICES ASSUME TypeOK, InFlight, [Next]_vars
             PROVE  TypeOK' /\ InFlight'
  OBVIOUS
<1>1. CASE UNCHANGED vars
  <2> USE <1>1 DEF vars, tables, comments, likes, history
  <2>1. TypeOK'
    BY DEF TypeOK, TableTypes, WorkerTypes, HistoryTypes
  <2>2. RowsSound' /\ PendingApart'
    BY DEF InFlight, RowsSound, PendingApart, User, Target
  <2>3. \A w \in Workers : Sound(w)'
    BY DEF InFlight, Sound, Grounded, ReadHolds, At, InTxn, User, Target
  <2>4. QED
    BY <2>1, <2>2, <2>3 DEF InFlight
<1>2. ASSUME NEW w \in Workers, Serve(w)
      PROVE  TypeOK' /\ InFlight'
  <2>1. CASE Refuse(w, 500)
    BY <2>1, RefuseStep
  <2>2. CASE SelectBoard(w) \/ SelectOwn(w) \/ SelectForLike(w) \/ SelectForUnlike(w)
    BY <2>2, SelectStep
  <2>3. CASE ~Refuse(w, 500) /\ (InsertLike(w) \/ DeleteLikeRow(w))
    BY <2>3, FlushStep DEF InsertLike, DeleteLikeRow, At
  <2>4. CASE ~Refuse(w, 500) /\ (CommitLike(w) \/ CommitUnlike(w))
    BY <2>4, CommitLikesStep
  <2>5. CASE ~Refuse(w, 500) /\ InsertComment(w)
    BY <2>5, InsertCommentStep
  <2>6. CASE ~Refuse(w, 500) /\ UpdateComment(w)
    BY <2>6, UpdateCommentStep
  <2>7. CASE DeleteComment(w)
    BY <2>7, DeleteCommentStep
  <2>8. QED
    BY <1>2, <2>1, <2>2, <2>3, <2>4, <2>5, <2>6, <2>7 DEF Serve, LockFailure
<1>3. ASSUME NEW w \in Workers, Crash(w)
      PROVE  TypeOK' /\ InFlight'
  BY <1>3, RefuseStep DEF Crash
<1>4. QED
  BY <1>1, <1>2, <1>3, BeginStep DEF Next

LEMMA InFlightInvariant == Spec => [](TypeOK /\ InFlight)
<1>1. Init => TypeOK
  BY DEF Init, TypeOK, TableTypes, WorkerTypes, HistoryTypes
<1>2. Init => InFlight
  BY DEF Init, InFlight, RowsSound, Sound, PendingApart, InTxn, At
<1>3. QED
  BY <1>1, <1>2, InFlightStep, PTL DEF Spec

--------------------------------------------------------------------------------
(* Every value keeps its type: no counter becomes negative, whatever the  *)
(* order in which requests read it and write it back.                      *)
THEOREM CommentTypeInvariant == Spec => []TypeOK
BY InFlightInvariant, PTL

(* Replies and likes never outlive what they refer to, although a comment *)
(* may go between a request's look at it and its write.                    *)
THEOREM CommentReferences == Spec => []ReferentialIntegrity
<1>1. TypeOK /\ InFlight => ReferentialIntegrity
  BY DEF InFlight, RowsSound, ReferentialIntegrity
<1>2. QED
  BY <1>1, InFlightInvariant, PTL

--------------------------------------------------------------------------------
(* The rows counted: those of a board, and the likes of a comment. *)
OnBoard(b) == {c \in live : on[c] = b}

LEMMA RowsFinite ==
    ASSUME TypeOK
    PROVE  /\ \A b \in Boards : IsFiniteSet(OnBoard(b)) /\ Cardinality(OnBoard(b)) \in Nat
           /\ \A c \in Comments : IsFiniteSet(likers[c]) /\ Cardinality(likers[c]) \in Nat
<1>1. \A b \in Boards : OnBoard(b) \subseteq Comments
  BY DEF OnBoard, TypeOK, TableTypes
<1>2. \A c \in Comments : likers[c] \subseteq Users
  BY DEF TypeOK, TableTypes
<1>3. QED
  BY <1>1, <1>2, CommentAssumption, FS_Subset, FS_CardinalityType

(* A step that leaves rows and counters alone. *)
LEMMA QuietCounters ==
    ASSUME CountersExactUnlessDrifted,
           UNCHANGED <<live, on, numLike, likers, numComment, drifted>>
    PROVE  CountersExactUnlessDrifted'
BY DEF CountersExactUnlessDrifted

(* The three commits that change a counter, each with its rows: what was  *)
(* read is what was there, or the counter is marked.                       *)
LEMMA InsertCounters ==
    ASSUME TypeOK, InFlight, CountersExactUnlessDrifted,
           NEW w \in Workers, InsertComment(w), ~Refuse(w, 500)
    PROVE  CountersExactUnlessDrifted'
<1> DEFINE brd == req[w].board
<1>1. /\ InTxn(w) /\ Grounded(w) /\ req[w].op = "create" /\ brd \in Boards
      /\ Counted(w) = brd
  BY DEF InsertComment, At, InTxn, InFlight, Sound, Grounded, Counted
<1>2. PICK c \in Comments \ born :
         live' = live \cup {c} /\ on' = [on EXCEPT ![c] = brd]
  BY DEF InsertComment
<1>3. /\ numComment' = [numComment EXCEPT ![brd] = read[w] + 1]
      /\ drifted' = Drift(w) /\ UNCHANGED <<numLike, likers>>
  BY DEF InsertComment, NoteCommit, likes
<1>4. c \notin live /\ numLike[c] = 0 /\ likers[c] = {}
  BY <1>2 DEF InFlight, RowsSound, TypeOK, TableTypes
<1>5. drifted \subseteq drifted'
  BY <1>3 DEF Drift
<1>6. ASSUME NEW b \in Boards \ drifted'
      PROVE  numComment'[b] = Cardinality(OnBoard(b)')
  <2>1. numComment[b] = Cardinality(OnBoard(b))
    BY <1>5, <1>6 DEF CountersExactUnlessDrifted, OnBoard
  <2>2. CASE b # brd
    <3>1. OnBoard(b)' = OnBoard(b)
      BY <1>2, <1>4, <2>2 DEF OnBoard, TypeOK, TableTypes
    <3>2. QED
      BY <1>1, <1>3, <2>1, <2>2, <3>1 DEF TypeOK, TableTypes
  <2>3. CASE b = brd
    <3>1. read[w] = numComment[b]
      BY <1>1, <1>3, <1>6, <2>3 DEF Drift, InFlight, Sound, ReadHolds
    <3>2. OnBoard(b)' = OnBoard(b) \cup {c} /\ c \notin OnBoard(b)
      BY <1>2, <1>4, <2>3 DEF OnBoard, TypeOK, TableTypes
    <3>3. Cardinality(OnBoard(b) \cup {c}) = Cardinality(OnBoard(b)) + 1
      BY <3>2, RowsFinite, FS_AddElement
    <3>4. numComment'[b] = read[w] + 1
      BY <1>1, <1>3, <2>3 DEF TypeOK, TableTypes
    <3>5. QED
      BY <2>1, <3>1, <3>2, <3>3, <3>4
  <2>4. QED
    BY <2>2, <2>3
<1>7. ASSUME NEW d \in live' \ drifted'
      PROVE  numLike'[d] = Cardinality(likers'[d])
  BY <1>2, <1>3, <1>4, <1>5, <1>7, FS_EmptySet DEF CountersExactUnlessDrifted
<1>8. QED
  BY <1>6, <1>7 DEF CountersExactUnlessDrifted, OnBoard

LEMMA DeleteCounters ==
    ASSUME TypeOK, InFlight, CountersExactUnlessDrifted,
           NEW w \in Workers, DeleteComment(w)
    PROVE  CountersExactUnlessDrifted'
<1> DEFINE c == Target(w)
           brd == on[c]
<1>1. /\ InTxn(w) /\ req[w].op = "delete" /\ c \in born /\ c \in Comments /\ brd \in Boards
      /\ Counted(w) = brd
  BY DEF DeleteComment, At, InTxn, InFlight, Sound, Grounded, RowsSound, TypeOK, TableTypes,
         Counted
<1>2. /\ live' = live \ {c}
      /\ numLike' = [numLike EXCEPT ![c] = 0]
      /\ likers' = [likers EXCEPT ![c] = {}]
      /\ numComment' = [numComment EXCEPT ![brd] = IF read[w] = 0 THEN @ ELSE read[w] - 1]
      /\ drifted' = Drift(w) \ {c} /\ on' = on
  BY DEF DeleteComment
<1>3. ASSUME NEW b \in Boards \ drifted'
      PROVE  numComment'[b] = Cardinality(OnBoard(b)')
  <2>1. b \notin Drift(w) /\ b \notin drifted
    BY <1>1, <1>2, <1>3, CommentAssumption DEF Drift
  <2>2. numComment[b] = Cardinality(OnBoard(b))
    BY <2>1 DEF CountersExactUnlessDrifted, OnBoard
  <2>3. CASE b # brd
    <3>1. OnBoard(b)' = OnBoard(b)
      BY <1>2, <2>3 DEF OnBoard
    <3>2. QED
      BY <1>1, <1>2, <2>2, <2>3, <3>1 DEF TypeOK, TableTypes
  <2>4. CASE b = brd
    <3>1. read[w] = numComment[b] /\ c \in live
      BY <1>1, <2>1, <2>4 DEF Drift, InFlight, Sound, ReadHolds
    <3>2. OnBoard(b)' = OnBoard(b) \ {c} /\ c \in OnBoard(b)
      BY <1>2, <2>4, <3>1 DEF OnBoard
    <3>3. Cardinality(OnBoard(b) \ {c}) = Cardinality(OnBoard(b)) - 1
      BY <3>2, RowsFinite, FS_RemoveElement
    <3>4. read[w] # 0
      BY <2>2, <3>1, <3>2, RowsFinite, FS_EmptySet
    <3>5. numComment'[b] = read[w] - 1
      BY <1>1, <1>2, <2>4, <3>4 DEF TypeOK, TableTypes
    <3>6. QED
      BY <2>2, <3>1, <3>2, <3>3, <3>5
  <2>5. QED
    BY <2>3, <2>4
<1>4. ASSUME NEW d \in live' \ drifted'
      PROVE  numLike'[d] = Cardinality(likers'[d])
  <2>1. d \in live /\ d # c /\ d \notin drifted
    BY <1>2, <1>4 DEF Drift
  <2>2. QED
    BY <1>2, <2>1 DEF CountersExactUnlessDrifted, TypeOK, TableTypes
<1>5. QED
  BY <1>3, <1>4 DEF CountersExactUnlessDrifted, OnBoard

LEMMA LikeCounters ==
    ASSUME TypeOK, InFlight, CountersExactUnlessDrifted,
           NEW w \in Workers, CommitLike(w) \/ CommitUnlike(w), ~Refuse(w, 500)
    PROVE  CountersExactUnlessDrifted'
<1> DEFINE c == Target(w)
           u == User(w)
<1>1. /\ pc[w] = "commit" /\ InTxn(w) /\ req[w].op \in {"like", "unlike"}
      /\ c \in Comments /\ Counted(w) = c
  BY RequestFields DEF CommitLike, CommitUnlike, At, InTxn, Counted
<1>2. drifted' = Drift(w) /\ UNCHANGED <<live, on, numComment>>
  BY DEF CommitLike, CommitUnlike, NoteCommit, comments
<1>3. drifted \subseteq drifted'
  BY <1>2 DEF Drift
<1>4. \A d \in Comments \ {c} : numLike'[d] = numLike[d] /\ likers'[d] = likers[d]
  BY DEF CommitLike, CommitUnlike, TypeOK, TableTypes
<1>5. ASSUME c \in live \ drifted'
      PROVE  numLike'[c] = Cardinality(likers'[c])
  <2>1. fresh[w] /\ read[w] = numLike[c] /\ numLike[c] = Cardinality(likers[c])
    BY <1>1, <1>2, <1>3, <1>5
       DEF Drift, InFlight, Sound, ReadHolds, CountersExactUnlessDrifted
  <2>2. CASE CommitLike(w)
    <3>1. u \notin likers[c]
      BY <2>2 DEF CommitLike, At, InFlight, Sound
    <3>2. likers'[c] = likers[c] \cup {u} /\ numLike'[c] = numLike[c] + 1
      BY <1>1, <2>1, <2>2 DEF CommitLike, TypeOK, TableTypes
    <3>3. QED
      BY <1>1, <2>1, <3>1, <3>2, RowsFinite, FS_AddElement
  <2>3. CASE CommitUnlike(w)
    <3>1. u \in likers[c]
      BY <1>1, <1>5, <2>1, <2>3 DEF CommitUnlike, At, InFlight, Sound, ReadHolds
    <3>2. numLike[c] # 0
      BY <1>1, <2>1, <3>1, RowsFinite, FS_EmptySet
    <3>3. likers'[c] = likers[c] \ {u} /\ numLike'[c] = numLike[c] - 1
      BY <1>1, <2>1, <2>3, <3>2 DEF CommitUnlike, TypeOK, TableTypes
    <3>4. Cardinality(likers[c] \ {u}) = Cardinality(likers[c]) - 1
      BY <1>1, <3>1, RowsFinite, FS_RemoveElement
    <3>5. QED
      BY <2>1, <3>3, <3>4
  <2>4. QED
    BY <2>2, <2>3
<1>6. QED
  BY <1>2, <1>3, <1>4, <1>5 DEF CountersExactUnlessDrifted, TypeOK, TableTypes

LEMMA CounterStep ==
    TypeOK /\ InFlight /\ CountersExactUnlessDrifted /\ [Next]_vars =>
        CountersExactUnlessDrifted'
<1> SUFFICES ASSUME TypeOK, InFlight, CountersExactUnlessDrifted, [Next]_vars
             PROVE  CountersExactUnlessDrifted'
  OBVIOUS
<1> USE DEF tables, comments, likes, history
<1>1. CASE UNCHANGED vars
  BY <1>1, QuietCounters DEF vars
<1>2. ASSUME NEW w \in Workers, Begin(w) \/ Crash(w)
      PROVE  CountersExactUnlessDrifted'
  BY <1>2, QuietCounters DEF Begin, Crash, Refuse
<1>3. ASSUME NEW w \in Workers, Serve(w)
      PROVE  CountersExactUnlessDrifted'
  <2>1. CASE Refuse(w, 500)
    BY <2>1, QuietCounters DEF Refuse
  <2>2. CASE ~Refuse(w, 500) /\ InsertComment(w)
    BY <2>2, InsertCounters
  <2>3. CASE DeleteComment(w)
    BY <2>3, DeleteCounters
  <2>4. CASE ~Refuse(w, 500) /\ (CommitLike(w) \/ CommitUnlike(w))
    BY <2>4, LikeCounters
  <2>5. CASE SelectBoard(w) \/ SelectOwn(w) \/ SelectForLike(w) \/ SelectForUnlike(w)
    BY <2>5, QuietCounters
       DEF SelectBoard, SelectOwn, SelectForLike, SelectForUnlike, Load, Refuse
  <2>6. CASE ~Refuse(w, 500) /\ (UpdateComment(w) \/ InsertLike(w) \/ DeleteLikeRow(w))
    BY <2>6, QuietCounters DEF UpdateComment, InsertLike, DeleteLikeRow
  <2>7. QED
    BY <1>3, <2>1, <2>2, <2>3, <2>4, <2>5, <2>6 DEF Serve, LockFailure
<1>4. QED
  BY <1>1, <1>2, <1>3 DEF Next

(* The numbers a board and a comment show are the numbers of rows unless a *)
(* commit on that counter was computed from an outdated read: refused and  *)
(* failed requests, dead workers and deadlock victims do no harm.          *)
THEOREM CommentCounters == Spec => []CountersExactUnlessDrifted
<1>1. Init => CountersExactUnlessDrifted
  <2> SUFFICES ASSUME Init
               PROVE  CountersExactUnlessDrifted
    OBVIOUS
  <2>1. \A b \in Boards : {c \in live : on[c] = b} = {}
    BY DEF Init
  <2>2. QED
    BY <2>1, FS_EmptySet DEF Init, CountersExactUnlessDrifted
<1>2. QED
  BY <1>1, CounterStep, InFlightInvariant, PTL DEF Spec

--------------------------------------------------------------------------------
(* The abstract book, as the tables show it. *)
ShownAuthor == [c \in Comments |-> IF c \in live THEN author[c] ELSE NoUser]
ShownContent == [c \in Comments |-> IF c \in live THEN content[c] ELSE NoComment]

(* An answer ends the request of its worker and says what it says. *)
LEMMA AnswerIdle ==
    ASSUME TypeOK, NEW w \in Workers, NEW code, Answer(w, code)
    PROVE  pc'[w] = "idle" /\ answer'[w] = code
BY DEF Answer, TypeOK, WorkerTypes

(* A new comment is written by the user whose request it is. *)
LEMMA WriteStep ==
    ASSUME TypeOK, NEW w \in Workers, InsertComment(w), ~Refuse(w, 500)
    PROVE  Book!Next /\ EntersBook(w)
<1>1. /\ User(w) \in Users /\ req[w].text \in Contents
      /\ InTxn(w) /\ req[w].op = "create"
  BY RequestFields DEF InsertComment, At, InTxn
<1>2. PICK c \in Comments \ born :
         /\ born' = born \cup {c} /\ live' = live \cup {c}
         /\ author' = [author EXCEPT ![c] = User(w)]
         /\ content' = [content EXCEPT ![c] = req[w].text]
  BY DEF InsertComment
<1>3. /\ ShownAuthor' = [ShownAuthor EXCEPT ![c] = User(w)]
      /\ ShownContent' = [ShownContent EXCEPT ![c] = req[w].text]
  BY <1>2 DEF ShownAuthor, ShownContent, TypeOK, TableTypes
<1>4. c \in Comments /\ Book!Write(User(w), c, req[w].text)
  BY <1>2, <1>3 DEF Book!Write, ShownAuthor, ShownContent
<1>5. \E t \in Contents : Book!Write(User(w), c, t)
  BY <1>1, <1>4 DEF Book!Write
<1>6. Book!Next
  BY <1>1, <1>4, <1>5, Zenon DEF Book!Next
<1>7. \E d \in Comments : Book!Write(User(w), d, req[w].text)
  BY <1>4, Zenon
<1>8. pc'[w] = "idle" /\ answer'[w] = 201
  BY AnswerIdle DEF InsertComment
<1>9. QED
  BY <1>1, <1>6, <1>7, <1>8, Zenon DEF EntersBook

(* A comment is rewritten by its author: by Grounded, the user whose      *)
(* request goes on to the write is still the author if the comment is.     *)
LEMMA RewriteStep ==
    ASSUME TypeOK, InFlight, NEW w \in Workers, UpdateComment(w), ~Refuse(w, 500)
    PROVE  Book!Next /\ EntersBook(w)
<1> DEFINE c == Target(w)
<1>1. /\ User(w) \in Users /\ req[w].text \in Contents /\ c \in Comments
      /\ c \in live /\ author[c] = User(w) /\ InTxn(w) /\ req[w].op = "update"
  BY RequestFields DEF UpdateComment, At, InFlight, Sound, InTxn, Grounded
<1>2. /\ content' = [content EXCEPT ![c] = req[w].text]
      /\ UNCHANGED <<born, live, author>> /\ Answer(w, 200)
  BY DEF UpdateComment
<1>3. /\ ShownAuthor' = ShownAuthor /\ ShownAuthor[c] = User(w)
      /\ ShownContent' = [ShownContent EXCEPT ![c] = req[w].text]
  BY <1>1, <1>2 DEF ShownAuthor, ShownContent, TypeOK, TableTypes
<1>4. Book!Rewrite(User(w), c, req[w].text)
  BY <1>2, <1>3 DEF Book!Rewrite, ShownAuthor, ShownContent
<1>5. Book!Next
  BY <1>1, <1>4 DEF Book!Next, Book!Rewrite
<1>6. pc'[w] = "idle" /\ answer'[w] = 200
  BY <1>2, AnswerIdle
<1>7. QED
  BY <1>1, <1>4, <1>5, <1>6, Zenon DEF EntersBook

(* A comment is removed by its author, or was gone already. *)
LEMMA RemoveStep ==
    ASSUME TypeOK, InFlight, NEW w \in Workers, DeleteComment(w)
    PROVE  \/ UNCHANGED <<born, ShownAuthor, ShownContent>>
           \/ Book!Next /\ EntersBook(w)
<1> DEFINE c == Target(w)
<1>1. /\ User(w) \in Users /\ c \in Comments /\ (c \in live => author[c] = User(w))
      /\ InTxn(w) /\ req[w].op = "delete"
  BY RequestFields DEF DeleteComment, At, InFlight, Sound, InTxn, Grounded
<1>2. /\ live' = live \ {c} /\ author' = [author EXCEPT ![c] = NoUser]
      /\ content' = [content EXCEPT ![c] = NoComment] /\ UNCHANGED born /\ Answer(w, 200)
  BY DEF DeleteComment
<1>3. CASE c \notin live
  BY <1>1, <1>2, <1>3 DEF ShownAuthor, ShownContent, TypeOK, TableTypes
<1>4. CASE c \in live
  <2>1. /\ ShownAuthor' = [ShownAuthor EXCEPT ![c] = NoUser] /\ ShownAuthor[c] = User(w)
        /\ ShownContent' = [ShownContent EXCEPT ![c] = NoComment]
    BY <1>1, <1>2, <1>4 DEF ShownAuthor, ShownContent, TypeOK, TableTypes
  <2>2. Book!Remove(User(w), c)
    BY <1>2, <2>1 DEF Book!Remove, ShownAuthor, ShownContent
  <2>3. Book!Next
    BY <1>1, <2>2 DEF Book!Next, Book!Remove
  <2>4. pc'[w] = "idle" /\ answer'[w] = 200
    BY <1>2, AnswerIdle
  <2>5. EntersBook(w)
    BY <1>1, <2>2, <2>4, Zenon DEF EntersBook
  <2>6. QED
    BY <2>3, <2>5
<1>5. QED
  BY <1>3, <1>4

(* Every step leaves the book or is one of it, of the user who asked. *)
LEMMA BookStep ==
    TypeOK /\ InFlight /\ [Next]_vars =>
        \/ UNCHANGED Book!book
        \/ Book!Next /\ \E w \in Workers : EntersBook(w)
<1> SUFFICES ASSUME TypeOK, InFlight, [Next]_vars
             PROVE  \/ UNCHANGED Book!book
                    \/ Book!Next /\ \E w \in Workers : EntersBook(w)
  OBVIOUS
<1>1. CASE UNCHANGED <<born, ShownAuthor, ShownContent>>
  BY <1>1 DEF ShownAuthor, ShownContent, Book!book
<1>2. CASE UNCHANGED comments
  BY <1>1, <1>2 DEF comments, ShownAuthor, ShownContent
<1>3. CASE \E w \in Workers : \/ InsertComment(w) /\ ~Refuse(w, 500)
                              \/ UpdateComment(w) /\ ~Refuse(w, 500)
                              \/ DeleteComment(w)
  BY <1>1, <1>3, WriteStep, RewriteStep, RemoveStep
<1>4. ASSUME NEW w \in Workers, Begin(w) \/ Serve(w) \/ Crash(w),
             ~DeleteComment(w), ~InsertComment(w) \/ Refuse(w, 500),
             ~UpdateComment(w) \/ Refuse(w, 500)
      PROVE  UNCHANGED comments
  BY <1>4
     DEF Begin, Crash, Serve, SelectBoard, SelectOwn, SelectForLike, SelectForUnlike, Load,
         InsertLike, DeleteLikeRow, CommitLike, CommitUnlike, LockFailure, Refuse, tables
<1>5. QED
  BY <1>2, <1>3, <1>4 DEF Next, vars, tables

(* The table of comments implements the book, with the requester for its   *)
(* user: a comment is written for, rewritten and removed by nobody but the *)
(* user of the request that is answered 201 or 200 in this very step, who  *)
(* must be its author, although the author was compared in an earlier step *)
(* than the write and the comment may go in between; and none comes back.  *)
THEOREM CommentsImplementBook == Spec => ImplementsBook
<1>1. Init => Book!Init
  BY DEF Init, Book!Init
<1>2. TypeOK /\ InFlight /\ [Next]_vars =>
         /\ [Book!Next]_(Book!book)
         /\ [\E w \in Workers : EntersBook(w)]_(Book!book)
  BY BookStep
<1>3. QED
  BY <1>1, <1>2, InFlightInvariant, PTL DEF Spec, ImplementsBook, Book!Spec

--------------------------------------------------------------------------------
(* What moves rows of comment_likes: a commit of one of the three requests. *)
MovesLikes(w) == CommitLike(w) \/ CommitUnlike(w) \/ DeleteComment(w)

LEMMA LikesKept ==
    ASSUME [Next]_vars, \A w \in Workers : ~MovesLikes(w)
    PROVE  likers' = likers
<1> USE DEF tables, comments, likes, Refuse
<1>1. CASE UNCHANGED vars
  BY <1>1 DEF vars
<1>2. ASSUME NEW w \in Workers, Begin(w) \/ Serve(w) \/ Crash(w), ~MovesLikes(w)
      PROVE  likers' = likers
  <2>1. CASE Begin(w) \/ Crash(w) \/ LockFailure(w)
    BY <2>1 DEF Begin, Crash, LockFailure
  <2>2. CASE SelectBoard(w) \/ SelectOwn(w) \/ SelectForLike(w) \/ SelectForUnlike(w)
    BY <2>2 DEF SelectBoard, SelectOwn, SelectForLike, SelectForUnlike, Load
  <2>3. CASE InsertComment(w) \/ UpdateComment(w) \/ InsertLike(w) \/ DeleteLikeRow(w)
    BY <2>3 DEF InsertComment, UpdateComment, InsertLike, DeleteLikeRow
  <2>4. QED
    BY <1>2, <2>1, <2>2, <2>3 DEF Serve, MovesLikes
<1>3. QED
  BY <1>1, <1>2 DEF Next

(* An answer of 200 to a request in its transaction is its own commit. *)
LEMMA LikeCommitted ==
    ASSUME TypeOK, InFlight, [Next]_vars, NEW w \in Workers,
           At(w, "commit", "like"), pc'[w] = "idle", answer'[w] = 200
    PROVE  CommitLike(w)
<1>1. ~UNCHANGED vars
  BY DEF At, vars
<1>2. PICK v \in Workers : Begin(v) \/ Serve(v) \/ Crash(v)
  BY <1>1 DEF Next
<1>3. CASE v # w
  <2>1. pc'[w] = pc[w]
    BY <1>2, <1>3
       DEF Begin, Serve, Crash, SelectBoard, InsertComment, SelectOwn, UpdateComment,
           DeleteComment, SelectForLike, InsertLike, CommitLike, SelectForUnlike,
           DeleteLikeRow, CommitUnlike, LockFailure, Load, Refuse, Answer, Goto,
           TypeOK, WorkerTypes
  <2>2. QED
    BY <2>1 DEF At
<1>4. CASE v = w
  <2>1. ~Refuse(w, 500) /\ ~Refuse(w, 0)
    BY DEF Refuse, Answer, TypeOK, WorkerTypes
  <2>2. QED
    BY <1>2, <1>4, <2>1
       DEF At, Begin, Serve, Crash, SelectBoard, InsertComment, SelectOwn, UpdateComment,
           DeleteComment, SelectForLike, InsertLike, SelectForUnlike, DeleteLikeRow,
           CommitUnlike, LockFailure
<1>5. QED
  BY <1>3, <1>4

(* like_comment tells no one twice that a like has been stored, and none   *)
(* that it was stored of a comment that is gone.                           *)
THEOREM CommentLikedOnce == Spec => LikeOnce
<1>1. TypeOK /\ InFlight /\ [Next]_vars =>
         [\A w \in Workers :
            At(w, "commit", "like") /\ pc'[w] = "idle" /\ answer'[w] = 200 =>
              /\ Target(w) \in live'
              /\ User(w) \notin likers[Target(w)] /\ User(w) \in likers'[Target(w)]]_vars
  <2> SUFFICES ASSUME TypeOK, InFlight, [Next]_vars, NEW w \in Workers,
                      At(w, "commit", "like"), pc'[w] = "idle", answer'[w] = 200
               PROVE  /\ Target(w) \in live' /\ User(w) \notin likers[Target(w)]
                      /\ User(w) \in likers'[Target(w)]
    OBVIOUS
  <2>1. CommitLike(w)
    BY LikeCommitted
  <2>2. Target(w) \in live /\ User(w) \notin likers[Target(w)]
    BY DEF InFlight, Sound
  <2>3. Target(w) \in Comments
    BY <2>2 DEF TypeOK, TableTypes
  <2>4. QED
    BY <2>1, <2>2, <2>3 DEF CommitLike, comments, TypeOK, TableTypes
<1>2. QED
  BY <1>1, InFlightInvariant, PTL DEF Spec, LikeOnce

(* Whose step it is when a like comes or goes. *)
MovedBy(w, c, u) ==
    /\ InTxn(w) /\ Target(w) = c
    /\ pc'[w] = "idle" /\ answer'[w] = 200
    /\ \/ /\ req[w].op = IF u \in likers[c] THEN "unlike" ELSE "like"
          /\ User(w) = u
       \/ /\ req[w].op = "delete" /\ User(w) = author[c]
          /\ c \in live \ live'

LEMMA LikeMoves ==
    ASSUME TypeOK, InFlight, NEW w \in Workers, MovesLikes(w),
           NEW c \in Comments, NEW u \in Users, u \in likers[c] <=> u \notin likers'[c]
    PROVE  MovedBy(w, c, u)
<1>1. ~Refuse(w, 500)
  BY DEF Refuse, tables, likes
<1>2. InTxn(w) /\ Target(w) \in Comments
  BY RequestFields DEF MovesLikes, CommitLike, CommitUnlike, DeleteComment, At, InTxn
<1>3. Answer(w, 200)
  BY <1>1 DEF MovesLikes, CommitLike, CommitUnlike, DeleteComment
<1>4. pc'[w] = "idle" /\ answer'[w] = 200
  BY <1>3, AnswerIdle
<1>5. Target(w) = c
  BY <1>1, <1>2 DEF MovesLikes, CommitLike, CommitUnlike, DeleteComment, TypeOK, TableTypes
<1>6. CASE CommitLike(w)
  <2>1. u \notin likers[c] /\ User(w) = u /\ req[w].op = "like"
    BY <1>5, <1>6 DEF CommitLike, At, TypeOK, TableTypes
  <2>2. QED
    BY <1>2, <1>4, <1>5, <2>1 DEF MovedBy
<1>7. CASE CommitUnlike(w)
  <2>1. u \in likers[c] /\ User(w) = u /\ req[w].op = "unlike"
    BY <1>1, <1>5, <1>7 DEF CommitUnlike, At, TypeOK, TableTypes
  <2>2. QED
    BY <1>2, <1>4, <1>5, <2>1 DEF MovedBy
<1>8. CASE DeleteComment(w)
  <2>1. req[w].op = "delete" /\ live' = live \ {c} /\ likers' = [likers EXCEPT ![c] = {}]
    BY <1>5, <1>8 DEF DeleteComment, At
  <2>2. u \in likers[c]
    BY <2>1 DEF TypeOK, TableTypes
  <2>3. c \in live
    BY <2>2 DEF InFlight, RowsSound
  <2>4. User(w) = author[c]
    BY <1>2, <1>5, <2>1, <2>3 DEF InFlight, Sound, Grounded
  <2>5. QED
    BY <1>2, <1>4, <1>5, <2>1, <2>3, <2>4 DEF MovedBy
<1>9. QED
  BY <1>6, <1>7, <1>8 DEF MovesLikes

(* A user's likes are the user's own: the rows of comment_likes move by the *)
(* requests of the users they are of, or go with a comment its author       *)
(* removes, although who that is was looked up before the lock was taken.   *)
THEOREM LikesMoveByTheirUsers == Spec => LikesOfTheirUsers
<1>1. TypeOK /\ InFlight /\ [Next]_vars =>
         [\A c \in Comments, u \in Users :
            (u \in likers[c] <=> u \notin likers'[c]) =>
               \E w \in Workers : MovedBy(w, c, u)]_vars
  <2> SUFFICES ASSUME TypeOK, InFlight, [Next]_vars, NEW c \in Comments, NEW u \in Users,
                      u \in likers[c] <=> u \notin likers'[c]
               PROVE  \E w \in Workers : MovedBy(w, c, u)
    OBVIOUS
  <2>1. PICK w \in Workers : MovesLikes(w)
    BY LikesKept
  <2>2. QED
    BY <2>1, LikeMoves
<1>2. QED
  BY <1>1, InFlightInvariant, PTL DEF Spec, LikesOfTheirUsers, MovedBy
================================================================================
