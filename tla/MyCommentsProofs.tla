--------------------------- MODULE MyCommentsProofs ---------------------------
(***************************************************************************)
(* Proofs about MyComments, for any number of comments, texts and calls:   *)
(* its type invariant, and that a view whose calls have all been answered  *)
(* shows the comments there are, unless one of its three excuses holds.    *)
(***************************************************************************)
EXTENDS MyComments, SequenceTheorems, TLAPS

--------------------------------------------------------------------------------
(* Taking one element out of a sequence keeps the others, in their order. *)
LEMMA RemoveAtFacts ==
    ASSUME NEW S, NEW s \in Seq(S), NEW i \in DOMAIN s
    PROVE  /\ RemoveAt(s, i) \in Seq(S)
           /\ Len(RemoveAt(s, i)) = Len(s) - 1
           /\ \A j \in 1..(Len(s) - 1) :
                  RemoveAt(s, i)[j] = IF j < i THEN s[j] ELSE s[j + 1]
<1> DEFINE before == SubSeq(s, 1, i - 1)
           after  == SubSeq(s, i + 1, Len(s))
<1>1. Len(s) \in Nat /\ i \in 1..Len(s) /\ \A j \in 1..Len(s) : s[j] \in S
  BY LenProperties, ElementOfSeq
<1>2. /\ before \in Seq(S) /\ Len(before) = i - 1
      /\ \A j \in 1..(i - 1) : before[j] = s[j]
  <2>1. i - 1 \in Int /\ \A j \in 1..(i - 1) : s[j] \in S
    BY <1>1
  <2>2. QED
    BY <1>1, <2>1, SubSeqProperties
<1>3. /\ after \in Seq(S) /\ Len(after) = Len(s) - i
      /\ \A j \in 1..(Len(s) - i) : after[j] = s[i + j]
  <2>1. i + 1 \in Int /\ Len(s) \in Int /\ \A j \in (i + 1)..Len(s) : s[j] \in S
    BY <1>1
  <2>2. /\ after \in Seq(S)
        /\ Len(after) = IF i + 1 <= Len(s) THEN Len(s) - (i + 1) + 1 ELSE 0
        /\ \A j \in 1..(Len(s) - (i + 1) + 1) : after[j] = s[(i + 1) + j - 1]
    BY <2>1, SubSeqProperties
  <2>3. QED
    BY <1>1, <2>2
<1>4. /\ before \o after \in Seq(S) /\ Len(before \o after) = Len(before) + Len(after)
      /\ \A j \in 1..(Len(before) + Len(after)) : (before \o after)[j] =
             IF j <= Len(before) THEN before[j] ELSE after[j - Len(before)]
  BY <1>2, <1>3, ConcatProperties
<1>5. RemoveAt(s, i) = before \o after
  BY DEF RemoveAt
<1> HIDE DEF before, after
<1>6. Len(before) + Len(after) = Len(s) - 1
  BY <1>1, <1>2, <1>3
<1>7. ASSUME NEW j \in 1..(Len(s) - 1)
      PROVE  (before \o after)[j] = IF j < i THEN s[j] ELSE s[j + 1]
  <2>1. CASE j < i
    BY <1>1, <1>2, <1>4, <1>6, <2>1
  <2>2. CASE ~(j < i)
    <3>1. (before \o after)[j] = after[j - (i - 1)]
      BY <1>1, <1>2, <1>4, <1>6, <2>2
    <3>2. j - (i - 1) \in 1..(Len(s) - i) /\ i + (j - (i - 1)) = j + 1
      BY <1>1, <2>2
    <3>3. QED
      BY <1>3, <2>2, <3>1, <3>2
  <2>3. QED
    BY <2>1, <2>2
<1>8. QED
  BY <1>4, <1>5, <1>6, <1>7

(* Where each element goes, and where each one left comes from. *)
LEMMA RemoveAtMoves ==
    ASSUME NEW S, NEW s \in Seq(S), NEW i \in DOMAIN s
    PROVE  /\ \A j \in DOMAIN s \ {i} :
                  \E k \in DOMAIN RemoveAt(s, i) :
                      RemoveAt(s, i)[k] = s[j] /\ k = (IF j < i THEN j ELSE j - 1)
           /\ \A k \in DOMAIN RemoveAt(s, i) :
                  \E j \in DOMAIN s \ {i} :
                      RemoveAt(s, i)[k] = s[j] /\ j = (IF k < i THEN k ELSE k + 1)
<1>1. Len(s) \in Nat /\ DOMAIN s = 1..Len(s) /\ i \in 1..Len(s)
  BY LenProperties
<1>2. DOMAIN RemoveAt(s, i) = 1..(Len(s) - 1)
  BY RemoveAtFacts, LenProperties
<1>3. ASSUME NEW j \in DOMAIN s \ {i}
      PROVE  \E k \in DOMAIN RemoveAt(s, i) :
                 RemoveAt(s, i)[k] = s[j] /\ k = (IF j < i THEN j ELSE j - 1)
  <2>1. CASE j < i
    <3>1. j \in 1..(Len(s) - 1)
      BY <1>1, <2>1
    <3>2. RemoveAt(s, i)[j] = s[j]
      BY <2>1, <3>1, RemoveAtFacts
    <3>3. QED
      BY <1>2, <2>1, <3>1, <3>2
  <2>2. CASE ~(j < i)
    <3>1. j - 1 \in 1..(Len(s) - 1) /\ ~(j - 1 < i) /\ (j - 1) + 1 = j
      BY <1>1, <2>2
    <3>2. RemoveAt(s, i)[j - 1] = s[j]
      BY <3>1, RemoveAtFacts
    <3>3. QED
      BY <1>2, <2>2, <3>1, <3>2
  <2>3. QED
    BY <2>1, <2>2
<1>4. ASSUME NEW k \in DOMAIN RemoveAt(s, i)
      PROVE  \E j \in DOMAIN s \ {i} :
                 RemoveAt(s, i)[k] = s[j] /\ j = (IF k < i THEN k ELSE k + 1)
  <2>1. RemoveAt(s, i)[k] = IF k < i THEN s[k] ELSE s[k + 1]
    BY <1>2, RemoveAtFacts
  <2>2. k \in DOMAIN s /\ k + 1 \in DOMAIN s
    BY <1>1, <1>2
  <2>3. QED
    BY <1>1, <1>2, <2>1, <2>2
<1>5. QED
  BY <1>3, <1>4

--------------------------------------------------------------------------------
(* Type correctness. *)
LEMMA CallTypes ==
    /\ Fetch \in Requests
    /\ \A c \in Comments, t \in Contents :
          [kind |-> "edit", comment |-> c, text |-> t, awaited |-> TRUE] \in Requests
    /\ \A c \in Comments : [kind |-> "delete", comment |-> c, awaited |-> TRUE] \in Requests
    /\ \A r \in Requests : [r EXCEPT !.awaited = FALSE] \in Requests
    /\ \A r \in Requests : r.kind \in {"list", "edit", "delete"} /\ r.awaited \in BOOLEAN
<1>1. \A r \in Requests : [r EXCEPT !.awaited = FALSE] \in Requests
  BY DEF Requests
<1>2. QED
  BY <1>1 DEF Requests, Fetch

LEMMA AnswerTypes ==
    /\ \A good \in BOOLEAN : [kind |-> "change", good |-> good] \in Answers
    /\ \A good \in BOOLEAN, l \in Lists :
          [kind |-> "list", good |-> good, behind |-> FALSE, list |-> l] \in Answers
    /\ \A a \in Answers : a.kind \in {"change", "list"} /\ a.good \in BOOLEAN
    /\ \A a \in Answers : a.kind = "list" =>
          /\ a.list \in Lists /\ a.behind \in BOOLEAN
          /\ [a EXCEPT !.behind = TRUE] \in Answers
BY DEF Answers

LEMMA AnswerBehind ==
    ASSUME NEW a \in Answers, a.kind = "list"
    PROVE  LET b == [a EXCEPT !.behind = TRUE]
           IN  b.kind = a.kind /\ b.good = a.good /\ b.behind
BY DEF Answers

(* What the user has is one of the lists the view can show. *)
LEMMA MineType ==
    ASSUME TypeOK
    PROVE  Mine \in Lists /\ Nothing \in Lists
BY DEF TypeOK, Mine, Nothing, Lists

(* Changing every element of a sequence gives a sequence. *)
LEMMA MapType ==
    ASSUME NEW S, NEW s \in Seq(S), NEW t, DOMAIN t = DOMAIN s, t = [i \in DOMAIN t |-> t[i]],
           \A i \in DOMAIN s : t[i] \in S
    PROVE  t \in Seq(S) /\ Len(t) = Len(s)
<1>1. Len(s) \in Nat /\ DOMAIN s = 1..Len(s)
  BY LenProperties
<1>2. t \in [1..Len(s) -> S]
  BY <1>1
<1>3. QED
  BY <1>1, <1>2, SeqDef

(* A call still awaited belongs to the view on the screen. *)
NoneForgotten == ~visit => \A i \in DOMAIN sent : ~sent[i].awaited

Typed == TypeOK /\ NoneForgotten

(* A call that is served leaves, and its answer is on the way or nowhere. *)
LEMMA AnsweredTypes ==
    ASSUME Typed, NEW i \in DOMAIN sent, NEW a \in Answers, Answered(i, a), visit' = visit
    PROVE  /\ sent' \in Seq(Requests) /\ answers' \in Seq(Answers)
           /\ ~visit' => answers' = <<>>
           /\ NoneForgotten'
<1>1. sent \in Seq(Requests) /\ answers \in Seq(Answers) /\ (~visit => answers = <<>>)
  BY DEF Typed, TypeOK
<1>2. ~visit => ~sent[i].awaited
  BY DEF Typed, NoneForgotten
<1>3. sent' \in Seq(Requests)
  BY <1>1, RemoveAtFacts DEF Answered
<1>4. answers' \in Seq(Answers) /\ (~visit' => answers' = <<>>)
  BY <1>1, <1>2, AppendProperties DEF Answered
<1>5. \A k \in DOMAIN sent' : \E j \in DOMAIN sent : sent'[k] = sent[j]
  BY <1>1, RemoveAtMoves DEF Answered
<1>6. NoneForgotten'
  BY <1>5 DEF Typed, NoneForgotten
<1>7. QED
  BY <1>3, <1>4, <1>6

LEMMA SendTypes ==
    ASSUME Typed, NEW r \in Requests, Send(r), visit'
    PROVE  /\ sent' \in Seq(Requests) /\ answers' \in Seq(Answers)
           /\ ~visit' => answers' = <<>>
           /\ NoneForgotten'
BY AppendProperties DEF Typed, TypeOK, Send, NoneForgotten

LEMMA BookTypes ==
    ASSUME TypeOK, Book!Next
    PROVE  /\ written' \in SUBSET Comments /\ author' \in [Comments -> {Me, NoUser}]
           /\ content' \in Lists
BY DEF TypeOK, Book!Next, Book!Write, Book!Rewrite, Book!Remove, Users, Lists

(* The commits and refusals of the server keep the types. *)
LEMMA ServeTypes ==
    ASSUME Typed, NEW i \in DOMAIN sent, Serve(i)
    PROVE  Typed'
<1>1. sent[i] \in Requests
  BY LenProperties, ElementOfSeq DEF Typed, TypeOK
<1>2. CASE ServeList(i)
  <2>1. PICK good \in BOOLEAN :
           Answered(i, [kind |-> "list", good |-> good, behind |-> FALSE,
                        list |-> IF good THEN Mine ELSE Nothing])
    BY <1>2 DEF ServeList
  <2>2. [kind |-> "list", good |-> good, behind |-> FALSE,
         list |-> IF good THEN Mine ELSE Nothing] \in Answers
    BY <2>1, AnswerTypes, MineType DEF Typed
  <2>3. QED
    BY <1>2, <2>1, <2>2, AnsweredTypes DEF ServeList, Typed, TypeOK, table, history
<1>3. CASE ServeChange(i)
  <2>1. /\ written' \in SUBSET Comments /\ author' \in [Comments -> {Me, NoUser}]
        /\ content' \in Lists
    BY <1>1, <1>3 DEF ServeChange, Typed, TypeOK, Requests, Book!Rewrite, Book!Remove, Lists
  <2>2. [kind |-> "change", good |-> TRUE] \in Answers /\ sent[i].awaited \in BOOLEAN
    BY <1>1, AnswerTypes, CallTypes
  <2>3. QED
    BY <1>3, <2>1, <2>2, AnsweredTypes DEF ServeChange, Typed, TypeOK
<1>4. CASE RefuseChange(i)
  <2>1. PICK good \in BOOLEAN : Answered(i, [kind |-> "change", good |-> good])
    BY <1>4 DEF RefuseChange
  <2>2. [kind |-> "change", good |-> good] \in Answers
    BY <2>1, AnswerTypes
  <2>3. QED
    BY <1>4, <2>1, <2>2, AnsweredTypes DEF RefuseChange, Typed, TypeOK, table, history
<1>5. QED
  BY <1>2, <1>3, <1>4 DEF Serve

(* So do the completions. *)
LEMMA ReceiveTypes ==
    ASSUME Typed, NEW i \in DOMAIN answers, Receive(i)
    PROVE  Typed'
<1>1. answers \in Seq(Answers) /\ answers[i] \in Answers /\ visit
  BY LenProperties, ElementOfSeq, EmptySeq DEF Typed, TypeOK
<1>2. CASE ShowList(i)
  <2>1. Behind(i) \in Seq(Answers) /\ DOMAIN Behind(i) = DOMAIN answers
    <3>1. \A j \in DOMAIN answers : answers[j] \in Answers
      BY <1>1, LenProperties, ElementOfSeq
    <3>2. \A j \in DOMAIN answers : Behind(i)[j] \in Answers
      BY <3>1, AnswerTypes DEF Behind
    <3>3. QED
      BY <1>1, <3>2, MapType DEF Behind
  <2>2. answers' \in Seq(Answers)
    BY <1>2, <2>1, RemoveAtFacts DEF ShowList
  <2>3. list' \in Lists /\ overtaken' \in BOOLEAN
    BY <1>1, <1>2, AnswerTypes DEF ShowList
  <2>4. QED
    BY <1>1, <1>2, <2>2, <2>3 DEF ShowList, Typed, TypeOK, NoneForgotten, table
<1>3. CASE ChangeDone(i)
  <2>1. answers' \in Seq(Answers) /\ sent' \in Seq(Requests)
    BY <1>1, <1>3, RemoveAtFacts, AppendProperties, CallTypes DEF ChangeDone, Typed, TypeOK
  <2>2. QED
    BY <1>1, <1>3, <2>1 DEF ChangeDone, Typed, TypeOK, NoneForgotten, table, history
<1>4. CASE LoseAnswer(i)
  <2>1. answers' \in Seq(Answers)
    BY <1>1, <1>4, RemoveAtFacts DEF LoseAnswer
  <2>2. QED
    BY <1>1, <1>4, <2>1 DEF LoseAnswer, Typed, TypeOK, NoneForgotten, table
<1>5. QED
  BY <1>2, <1>3, <1>4 DEF Receive

LEMMA TypeStep == Typed /\ [Next]_vars => Typed'
<1> SUFFICES ASSUME Typed, [Next]_vars
             PROVE  Typed'
  OBVIOUS
<1> USE DEF table, wire, history
<1>1. CASE UNCHANGED vars
  BY <1>1 DEF vars, Typed, TypeOK, NoneForgotten
<1>2. CASE Open \/ ComeBack
  <2>1. Send(Fetch) /\ Fetch \in Requests /\ visit'
    BY <1>2, CallTypes DEF Open, ComeBack
  <2>2. QED
    BY <1>2, <2>1, SendTypes DEF Open, ComeBack, Typed, TypeOK
<1>3. CASE Leave
  <2>1. sent \in Seq(Requests) /\ \A i \in DOMAIN sent : sent[i] \in Requests
    BY LenProperties, ElementOfSeq DEF Typed, TypeOK
  <2>2. \A i \in DOMAIN sent : [sent[i] EXCEPT !.awaited = FALSE] \in Requests
    BY <2>1, CallTypes
  <2>3. sent' \in Seq(Requests)
    BY <1>3, <2>1, <2>2, MapType DEF Leave
  <2>4. \A i \in DOMAIN sent' : ~sent'[i].awaited
    BY <1>3, <2>1 DEF Leave, Requests
  <2>5. QED
    BY <1>3, <2>3, <2>4, EmptySeq, MineType DEF Leave, Typed, TypeOK, NoneForgotten
<1>4. CASE OtherDevice
  BY <1>4, BookTypes DEF OtherDevice, Typed, TypeOK, NoneForgotten
<1>5. ASSUME NEW c \in Comments, Delete(c) \/ \E t \in Contents : Edit(c, t)
      PROVE  Typed'
  <2>1. \E r \in Requests : Send(r)
    BY <1>5, CallTypes DEF Delete, Edit
  <2>2. QED
    BY <1>5, <2>1, SendTypes DEF Delete, Edit, Typed, TypeOK
<1>6. ASSUME NEW i \in DOMAIN sent, GiveUp(i)
      PROVE  Typed'
  <2>1. sent \in Seq(Requests) /\ sent[i] \in Requests /\ visit /\ i \in 1..Len(sent)
    BY <1>6, LenProperties, ElementOfSeq DEF GiveUp, Typed, TypeOK, NoneForgotten
  <2>2. sent' = [sent EXCEPT ![i] = [sent[i] EXCEPT !.awaited = FALSE]]
    BY <1>6 DEF GiveUp
  <2>3. sent' \in Seq(Requests)
    BY <2>1, <2>2, CallTypes, ExceptSeq
  <2>4. QED
    BY <1>6, <2>1, <2>3 DEF GiveUp, Typed, TypeOK, NoneForgotten
<1>7. QED
  BY <1>1, <1>2, <1>3, <1>4, <1>5, <1>6, ServeTypes, ReceiveTypes DEF Next

LEMMA TypedInvariant == Spec => []Typed
<1>1. Init => TypeOK
  <2>1. <<>> \in Seq(Requests) /\ <<>> \in Seq(Answers)
    BY EmptySeq
  <2>2. QED
    BY <2>1 DEF Init, Book!Init, TypeOK, Nothing, Lists
<1>2. Init => NoneForgotten
  BY DEF Init, NoneForgotten
<1>3. QED
  BY <1>1, <1>2, TypeStep, PTL DEF Spec, Typed

(* Lists, calls and answers keep their types, and no answer is on its way *)
(* to a view that is gone.                                                 *)
THEOREM ViewTypeInvariant == Spec => []TypeOK
BY TypedInvariant, PTL DEF Typed

--------------------------------------------------------------------------------
(* The inductive invariant: a list that is out of date, shown or waiting  *)
(* to be, has something better coming after it.                            *)

(* A list still to be taken, or an answer that will have one fetched, or  *)
(* that cannot but count as lost.                                          *)
Coming ==
    \/ \E j \in DOMAIN sent : sent[j].awaited /\ sent[j].kind = "list"
    \/ \E j \in DOMAIN answers : answers[j].kind = "change" /\ answers[j].good
    \/ \E j \in DOMAIN answers : answers[j].kind = "list" /\ ~answers[j].good

Shows(j) == answers[j].kind = "list" /\ answers[j].good /\ ~answers[j].behind

(* A list answered after the i-th answer that is up to date. *)
Later(i) == \E j \in DOMAIN answers : j > i /\ Shows(j) /\ answers[j].list = Mine

HelpOnTheWay ==
    visit /\ ~lost /\ ~elsewhere =>
        /\ ~overtaken /\ list # Mine => Coming \/ Later(0)
        /\ \A i \in DOMAIN answers : Shows(i) /\ answers[i].list # Mine => Coming \/ Later(i)

LEMMA ComingHelps == Coming' => HelpOnTheWay'
BY DEF HelpOnTheWay

LEMMA MineKept == UNCHANGED table => Mine' = Mine
BY DEF table, Mine, Book!Own

(* Sending a call takes no help away. *)
LEMMA SendHelp ==
    ASSUME Typed, HelpOnTheWay, NEW r \in Requests, Send(r),
           UNCHANGED <<table, visit, list, history>>
    PROVE  HelpOnTheWay'
<1>1. sent \in Seq(Requests) /\ DOMAIN sent = 1..Len(sent) /\ Len(sent) \in Nat
  BY LenProperties DEF Typed, TypeOK
<1>2. \A j \in DOMAIN sent : j \in DOMAIN sent' /\ sent'[j] = sent[j]
  BY <1>1, AppendProperties, LenProperties DEF Send
<1>3. Coming => Coming'
  BY <1>2 DEF Coming, Send
<1>4. Mine' = Mine
  BY MineKept
<1>5. QED
  BY <1>3, <1>4 DEF HelpOnTheWay, Later, Shows, Send, history

(* A list served is the best there is; any other answer takes none away. *)
LEMMA AnsweredHelp ==
    ASSUME Typed, HelpOnTheWay, NEW i \in DOMAIN sent, NEW a \in Answers, Answered(i, a),
           UNCHANGED <<table, visit, list, history>>,
           sent[i].kind = "list" => a.kind = "list",
           a.kind = "list" => (a.good => a.list = Mine) /\ ~a.behind
    PROVE  HelpOnTheWay'
<1>1. /\ sent \in Seq(Requests) /\ answers \in Seq(Answers)
      /\ DOMAIN answers = 1..Len(answers) /\ Len(answers) \in Nat
  BY LenProperties DEF Typed, TypeOK
<1>2. \A j \in DOMAIN sent \ {i} : \E k \in DOMAIN sent' : sent'[k] = sent[j]
  BY <1>1, RemoveAtMoves DEF Answered
<1>3. Mine' = Mine
  BY MineKept
<1>4. CASE ~sent[i].awaited
  <2>1. answers' = answers
    BY <1>4 DEF Answered
  <2>2. Coming => Coming'
    BY <1>2, <1>4, <2>1 DEF Coming
  <2>3. QED
    BY <1>3, <2>1, <2>2 DEF HelpOnTheWay, Later, Shows, history
<1>5. CASE sent[i].awaited
  <2>1. /\ DOMAIN answers' = 1..(Len(answers) + 1)
        /\ answers'[Len(answers) + 1] = a
        /\ \A j \in DOMAIN answers : j \in DOMAIN answers' /\ answers'[j] = answers[j]
    BY <1>1, <1>5, AppendProperties, LenProperties DEF Answered
  <2>2. a.kind = "change" \/ a.kind = "list"
    BY AnswerTypes
  <2>3. CASE (a.kind = "list" /\ ~a.good) \/ (a.kind = "change" /\ a.good)
    <3>1. Coming'
      BY <1>1, <2>1, <2>3 DEF Coming
    <3>2. QED
      BY <3>1, ComingHelps
  <2>4. CASE a.kind = "list" /\ a.good
    <3>1. \A j \in 0..Len(answers) : Later(j)'
      BY <1>1, <1>3, <2>1, <2>4 DEF Later, Shows
    <3>2. \A j \in DOMAIN answers' :
             answers'[j].list # Mine' => j \in 0..Len(answers)
      BY <1>1, <1>3, <2>1, <2>4
    <3>3. 0 \in 0..Len(answers)
      BY <1>1
    <3>4. QED
      BY <1>3, <3>1, <3>2, <3>3 DEF HelpOnTheWay
  <2>5. CASE a.kind = "change" /\ ~a.good
    <3>1. Coming => Coming'
      BY <1>2, <2>1, <2>5 DEF Coming
    <3>2. \A j : Later(j) => Later(j)'
      BY <1>3, <2>1 DEF Later, Shows
    <3>3. \A j \in DOMAIN answers' : Shows(j)' => j \in DOMAIN answers /\ Shows(j)
      BY <1>1, <2>1, <2>5 DEF Shows
    <3>4. QED
      BY <1>3, <2>1, <3>1, <3>2, <3>3 DEF HelpOnTheWay, history
  <2>6. QED
    BY <2>2, <2>3, <2>4, <2>5
<1>6. QED
  BY <1>4, <1>5

LEMMA ServeHelp ==
    ASSUME Typed, HelpOnTheWay, NEW i \in DOMAIN sent, Serve(i)
    PROVE  HelpOnTheWay'
<1>1. sent[i] \in Requests
  BY LenProperties, ElementOfSeq DEF Typed, TypeOK
<1>2. CASE ServeList(i)
  <2>1. PICK good \in BOOLEAN :
           Answered(i, [kind |-> "list", good |-> good, behind |-> FALSE,
                        list |-> IF good THEN Mine ELSE Nothing])
    BY <1>2 DEF ServeList
  <2>2. [kind |-> "list", good |-> good, behind |-> FALSE,
         list |-> IF good THEN Mine ELSE Nothing] \in Answers
    BY <2>1, AnswerTypes, MineType DEF Typed
  <2>3. QED
    BY <1>2, <2>1, <2>2, AnsweredHelp DEF ServeList
<1>3. CASE ServeChange(i)
  <2>1. CASE sent[i].awaited
    <3>1. answers' = Append(answers, [kind |-> "change", good |-> TRUE])
      BY <1>3, <2>1 DEF ServeChange, Answered
    <3>2. answers \in Seq(Answers) /\ [kind |-> "change", good |-> TRUE] \in Answers
      BY AnswerTypes DEF Typed, TypeOK
    <3>3. /\ Len(answers) + 1 \in DOMAIN answers'
          /\ answers'[Len(answers) + 1] = [kind |-> "change", good |-> TRUE]
      BY <3>1, <3>2, AppendProperties, LenProperties
    <3>4. Coming'
      BY <3>3 DEF Coming
    <3>5. QED
      BY <3>4, ComingHelps
  <2>2. CASE ~sent[i].awaited
    BY <1>3, <2>2 DEF ServeChange, HelpOnTheWay
  <2>3. QED
    BY <2>1, <2>2
<1>4. CASE RefuseChange(i)
  <2>1. PICK good \in BOOLEAN : Answered(i, [kind |-> "change", good |-> good])
    BY <1>4 DEF RefuseChange
  <2>2. [kind |-> "change", good |-> good] \in Answers
    BY <2>1, AnswerTypes
  <2>3. QED
    BY <1>4, <2>1, <2>2, AnsweredHelp DEF RefuseChange
<1>5. QED
  BY <1>2, <1>3, <1>4 DEF Serve

(* The list shown puts the ones before it behind; what helped it, if it   *)
(* was out of date, comes after it and stays.                              *)
LEMMA ShowHelp ==
    ASSUME Typed, HelpOnTheWay, NEW i \in DOMAIN answers, ShowList(i)
    PROVE  HelpOnTheWay'
<1>1. /\ answers \in Seq(Answers) /\ DOMAIN answers = 1..Len(answers) /\ Len(answers) \in Nat
      /\ \A j \in DOMAIN answers : answers[j] \in Answers
  BY LenProperties, ElementOfSeq DEF Typed, TypeOK
<1>2. /\ Behind(i) \in Seq(Answers) /\ DOMAIN Behind(i) = DOMAIN answers
      /\ \A j \in DOMAIN answers :
            /\ Behind(i)[j].kind = answers[j].kind /\ Behind(i)[j].good = answers[j].good
            /\ j >= i => Behind(i)[j] = answers[j]
            /\ j < i /\ answers[j].kind = "list" => Behind(i)[j].behind
  <2>1. \A j \in DOMAIN answers : Behind(i)[j] =
           IF j < i /\ answers[j].kind = "list" THEN [answers[j] EXCEPT !.behind = TRUE]
                                                ELSE answers[j]
    BY DEF Behind
  <2>2. \A j \in DOMAIN answers : Behind(i)[j] \in Answers
    BY <1>1, <2>1, AnswerTypes
  <2>3. Behind(i) \in Seq(Answers) /\ DOMAIN Behind(i) = DOMAIN answers
    BY <1>1, <2>2, MapType DEF Behind
  <2>4. ASSUME NEW j \in DOMAIN answers
        PROVE  /\ Behind(i)[j].kind = answers[j].kind /\ Behind(i)[j].good = answers[j].good
               /\ j >= i => Behind(i)[j] = answers[j]
               /\ j < i /\ answers[j].kind = "list" => Behind(i)[j].behind
    <3>1. CASE j < i /\ answers[j].kind = "list"
      <4>1. Behind(i)[j] = [answers[j] EXCEPT !.behind = TRUE] /\ answers[j] \in Answers
        BY <1>1, <2>1, <3>1
      <4>2. QED
        BY <1>1, <3>1, <4>1, AnswerBehind
    <3>2. CASE ~(j < i /\ answers[j].kind = "list")
      BY <2>1, <3>2
    <3>3. QED
      BY <3>1, <3>2
  <2>5. QED
    BY <2>3, <2>4
<1>3. /\ \A j \in DOMAIN answers \ {i} : \E k \in DOMAIN answers' :
            answers'[k] = Behind(i)[j] /\ k = (IF j < i THEN j ELSE j - 1)
      /\ \A k \in DOMAIN answers' : \E j \in DOMAIN answers \ {i} :
            answers'[k] = Behind(i)[j] /\ j = (IF k < i THEN k ELSE k + 1)
      /\ DOMAIN answers' \subseteq Nat
  <2>1. answers' = RemoveAt(Behind(i), i) /\ i \in DOMAIN Behind(i)
    BY <1>2 DEF ShowList
  <2>2. answers' \in Seq(Answers)
    BY <1>2, <2>1, RemoveAtFacts
  <2>3. DOMAIN answers' \subseteq Nat
    BY <2>2, LenProperties
  <2>4. QED
    BY <1>2, <2>1, <2>3, RemoveAtMoves
<1>4. Mine' = Mine
  BY MineKept DEF ShowList
<1>5. Coming => Coming'
  <2>1. CASE \E j \in DOMAIN sent : sent[j].awaited /\ sent[j].kind = "list"
    BY <2>1 DEF Coming, ShowList
  <2>2. ASSUME NEW j \in DOMAIN answers,
               \/ answers[j].kind = "change" /\ answers[j].good
               \/ answers[j].kind = "list" /\ ~answers[j].good
        PROVE  Coming'
    BY <1>2, <1>3, <2>2 DEF Coming, ShowList
  <2>3. QED
    BY <2>1, <2>2 DEF Coming
<1>6. ASSUME NEW n \in Nat, Later(n), n >= i
      PROVE  Later(n - 1)'
  <2>1. PICK j \in DOMAIN answers : j > n /\ Shows(j) /\ answers[j].list = Mine
    BY <1>6 DEF Later
  <2>2. Behind(i)[j] = answers[j] /\ j # i /\ ~(j < i)
    BY <1>1, <1>2, <1>6, <2>1
  <2>3. PICK k \in DOMAIN answers' : answers'[k] = answers[j] /\ k = j - 1
    BY <1>3, <2>2
  <2>4. QED
    BY <1>1, <1>4, <1>6, <2>1, <2>3 DEF Later, Shows
<1>7. SUFFICES ASSUME visit, ~lost, ~elsewhere, ~Coming
               PROVE  HelpOnTheWay'
  BY <1>5, ComingHelps DEF HelpOnTheWay, ShowList
<1>8. ASSUME ~overtaken', list' # Mine
      PROVE  Later(0)'
  <2>1. Shows(i) /\ answers[i].list # Mine
    BY <1>8 DEF ShowList, Shows
  <2>2. Later(i)
    BY <1>7, <2>1 DEF HelpOnTheWay
  <2>3. Later(i - 1)'
    BY <1>1, <1>6, <2>2
  <2>4. QED
    BY <1>1, <1>3, <2>3 DEF Later
<1>9. ASSUME NEW k \in DOMAIN answers', Shows(k)', answers'[k].list # Mine
      PROVE  Later(k)'
  <2>1. PICK j \in DOMAIN answers \ {i} :
           answers'[k] = Behind(i)[j] /\ j = (IF k < i THEN k ELSE k + 1)
    BY <1>3
  <2>2. j > i /\ j = k + 1 /\ k \in Nat
    <3>1. k \in Nat /\ j \in Nat /\ i \in Nat /\ j # i
      BY <1>1, <1>3
    <3>2. Behind(i)[j].kind = "list" /\ ~Behind(i)[j].behind
      BY <1>9, <2>1 DEF Shows
    <3>3. ~(j < i)
      BY <1>2, <3>2
    <3>4. QED
      BY <2>1, <3>1, <3>3
  <2>3. Shows(j) /\ answers[j].list # Mine
    BY <1>1, <1>2, <1>9, <2>1, <2>2 DEF Shows
  <2>4. Later(j)
    BY <1>7, <2>3 DEF HelpOnTheWay
  <2>5. QED
    BY <1>1, <1>6, <2>2, <2>4
<1>10. QED
  BY <1>4, <1>8, <1>9 DEF HelpOnTheWay

LEMMA HelpStep == Typed /\ HelpOnTheWay /\ [Next]_vars => HelpOnTheWay'
<1> SUFFICES ASSUME Typed, HelpOnTheWay, [Next]_vars
             PROVE  HelpOnTheWay'
  OBVIOUS
<1>1. CASE UNCHANGED vars
  BY <1>1, MineKept DEF vars, table, wire, history, HelpOnTheWay, Coming, Later, Shows
<1>2. CASE Open \/ ComeBack
  <2>1. sent' = Append(sent, Fetch) /\ sent \in Seq(Requests) /\ Fetch \in Requests
    BY <1>2, CallTypes DEF Open, ComeBack, Send, Typed, TypeOK
  <2>2. Len(sent) + 1 \in DOMAIN sent' /\ sent'[Len(sent) + 1] = Fetch
    BY <2>1, AppendProperties, LenProperties
  <2>3. QED
    BY <2>2, ComingHelps DEF Coming, Fetch
<1>3. CASE Leave \/ OtherDevice
  BY <1>3 DEF Leave, OtherDevice, HelpOnTheWay
<1>4. ASSUME NEW c \in Comments, Delete(c) \/ \E t \in Contents : Edit(c, t)
      PROVE  HelpOnTheWay'
  <2>1. \E r \in Requests : Send(r)
    BY <1>4, CallTypes DEF Delete, Edit
  <2>2. QED
    BY <1>4, <2>1, SendHelp DEF Delete, Edit
<1>5. ASSUME NEW i \in DOMAIN sent, GiveUp(i)
      PROVE  HelpOnTheWay'
  BY <1>5 DEF GiveUp, HelpOnTheWay
<1>6. ASSUME NEW i \in DOMAIN answers, ChangeDone(i)
      PROVE  HelpOnTheWay'
  <2>1. sent' = Append(sent, Fetch) /\ sent \in Seq(Requests) /\ Fetch \in Requests
    BY <1>6, CallTypes DEF ChangeDone, Typed, TypeOK
  <2>2. Len(sent) + 1 \in DOMAIN sent' /\ sent'[Len(sent) + 1] = Fetch
    BY <2>1, AppendProperties, LenProperties
  <2>3. QED
    BY <2>2, ComingHelps DEF Coming, Fetch
<1>7. ASSUME NEW i \in DOMAIN answers, LoseAnswer(i)
      PROVE  HelpOnTheWay'
  BY <1>7 DEF LoseAnswer, HelpOnTheWay
<1>8. QED
  BY <1>1, <1>2, <1>3, <1>4, <1>5, <1>6, <1>7, ServeHelp, ShowHelp DEF Next, Receive

(* When every call has been answered, the view shows the comments there   *)
(* are, in whatever order calls were served and answers arrived, unless an *)
(* answer was lost, something else changed them, or an older list came last. *)
THEOREM SettledViewIsCurrent == Spec => []CurrentUnlessExcused
<1>1. Init => HelpOnTheWay
  BY DEF Init, HelpOnTheWay
<1>2. Typed /\ HelpOnTheWay => CurrentUnlessExcused
  <2> SUFFICES ASSUME Typed, HelpOnTheWay, Settled, ~Excused
               PROVE  list = Mine
    BY DEF CurrentUnlessExcused
  <2>1. DOMAIN answers = {}
    BY EmptySeq, LenProperties DEF Settled
  <2>2. ~Coming /\ ~Later(0)
    BY <2>1 DEF Coming, Later, Settled
  <2>3. QED
    BY <2>2 DEF HelpOnTheWay, Settled, Excused
<1>3. QED
  BY <1>1, <1>2, HelpStep, TypedInvariant, PTL DEF Spec
================================================================================
