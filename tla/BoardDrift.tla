------------------------------ MODULE BoardDrift ------------------------------
(***************************************************************************)
(* BoardService with two more history variables, which measure how much    *)
(* count its workers lose to each other.  board.num_like += 1 is computed  *)
(* in the worker from what it has read, so a commit undoes, in the count,  *)
(* whatever was committed on the board since that read.  A worker's        *)
(* "missed" is how many commits those are; a board's "lost" adds up what   *)
(* the commits on it had missed.  Nothing of BoardService depends on them. *)
(***************************************************************************)
EXTENDS BoardService

CONSTANT MaxLost  \* bound: no like or unlike is requested once that much is at stake

VARIABLES missed,  \* commits on the worker's board since the worker has read it
          lost     \* what the commits on each board had missed, in all

driftVars == <<vars, missed, lost>>

DriftTypes == missed \in [Workers -> Nat] /\ lost \in [Boards -> Nat]

DriftInit ==
    /\ Init
    /\ missed = [w \in Workers |-> 0]
    /\ lost = [b \in Boards |-> 0]

(* A commit on the board of w: the others that have read it miss the       *)
(* commit, and what w itself has missed is lost.                           *)
CountMissed(w) ==
    /\ missed' = [v \in Workers |->
                     CASE v = w -> 0
                       [] v # w /\ InTxn(v) /\ Board(v) = Board(w) -> missed[v] + 1
                       [] OTHER -> missed[v]]
    /\ lost' = [lost EXCEPT ![Board(w)] = @ + missed[w]]

(* A worker that leaves its transaction otherwise loses nothing to anyone. *)
ForgetMissed(w) ==
    /\ missed' = [missed EXCEPT ![w] = IF InTxn(w)' THEN @ ELSE 0]
    /\ UNCHANGED lost

WithinBound(r) ==
    r.op \in {"like", "unlike"} => \A v \in Workers : lost[r.board] + missed[v] < MaxLost

(* Next of BoardService, each action with its measure. *)
DriftNext ==
    \E w \in Workers :
        \/ CommitLike(w) /\ CountMissed(w)
        \/ CommitUnlike(w) /\ CountMissed(w)
        \/ Begin(w) /\ WithinBound(req'[w]) /\ ForgetMissed(w)
        \/ CreateBoard(w) /\ ForgetMissed(w)
        \/ ReadDetail(w) /\ ForgetMissed(w)
        \/ EditOrRemoveBoard(w) /\ ForgetMissed(w)
        \/ SelectLike(w) /\ ForgetMissed(w)
        \/ InsertLike(w) /\ ForgetMissed(w)
        \/ SelectUnlike(w) /\ ForgetMissed(w)
        \/ DeleteLikeRow(w) /\ ForgetMissed(w)
        \/ LockFailure(w) /\ ForgetMissed(w)
        \/ Crash(w) /\ ForgetMissed(w)

DriftSpec == DriftInit /\ [][DriftNext]_driftVars
FairDriftSpec == DriftSpec /\ \A w \in Workers : WF_vars(Serve(w))

--------------------------------------------------------------------------------
Likes(b) == Cardinality(likers[b])
Within(x, y, e) == x <= y + e /\ y <= x + e

(* The count a board shows differs from its number of likers by no more   *)
(* than what the commits on it had missed: one overlapping commit costs at *)
(* most one like, whatever the mix of likes, unlikes, deadlock victims,    *)
(* dead workers and decrements that stop at 0, and the error does not grow *)
(* while requests follow one another.                                      *)
CounterWithinLost ==
    \A b \in Boards : Within(numLike[b], Likes(b), lost[b])

(* What a session has read goes stale by at most one for each commit it   *)
(* has missed; a row that an unlike will no longer find went with one of   *)
(* those; and a read is outdated when it has missed something.             *)
ReadWithin(w) ==
    LET slack == lost[Board(w)] + missed[w]
    IN  /\ Within(read[w], Likes(Board(w)), slack)
        /\ req[w].op = "unlike" /\ User(w) \notin likers[Board(w)] =>
               Within(read[w] - 1, Likes(Board(w)), slack)
ReadsWithinMissed ==
    /\ \A w \in Workers : InTxn(w) => ReadWithin(w)
    /\ \A w \in Workers : fresh[w] <=> InTxn(w) /\ missed[w] = 0
    /\ \A w \in Workers : ~InTxn(w) => missed[w] = 0
    /\ \A b \in Boards : b \in drifted <=> lost[b] > 0
================================================================================
