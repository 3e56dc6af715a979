------------------------------ MODULE MyComments ------------------------------
(***************************************************************************)
(* MyPostCommentView of the iOS client: the user's own comments, with an   *)
(* edit and a delete button on each row, over the server's CommentBook.    *)
(*                                                                         *)
(* The view keeps a copy of the list.  Opening it and every edit or        *)
(* deletion that was answered fetch the list again, and whatever list      *)
(* arrives replaces the copy.  Calls run side by side: the workers serve   *)
(* them in any order, and the answers arrive in any order or not at all.   *)
(* The user's other devices work on the same comments.                     *)
(***************************************************************************)
EXTENDS Naturals, Sequences, SequencesExt

CONSTANTS Me, Comments, Contents, NoUser, NoContent,
          MaxCalls  \* bound: no tap while this many calls are out

ASSUME MyCommentsAssumption ==
    /\ Me # NoUser /\ NoContent \notin Contents /\ MaxCalls \in Nat

VARIABLES written, author, content,  \* the book
          visit,   \* the view is on the screen
          list,    \* its commentList: what it shows of each comment
          sent,    \* calls not yet served
          answers, \* answers not yet arrived, oldest first
          lost,    \* history of the visit: a call brought the view no answer
          elsewhere, \* and: something else changed the comments
          overtaken  \* and: the list shown is older than one shown before

Users == {Me}
Book == INSTANCE CommentBook

table == <<written, author, content>>
wire == <<sent, answers>>
history == <<lost, elsewhere, overtaken>>
vars == <<table, visit, list, wire, history>>

Lists == [Comments -> Contents \cup {NoContent}]
Nothing == [c \in Comments |-> NoContent]

(* GET /mypage/user/comments *)
Mine == [c \in Comments |-> IF c \in Book!Own(Me) THEN content[c] ELSE NoContent]

(* awaited: the view that made the call still waits for its answer. *)
Requests ==
    [kind: {"list"}, awaited: BOOLEAN]
        \cup [kind: {"edit"}, comment: Comments, text: Contents, awaited: BOOLEAN]
        \cup [kind: {"delete"}, comment: Comments, awaited: BOOLEAN]
(* good: the body decodes as what the call expects.  behind is history: a *)
(* list answered later has been shown.                                     *)
Answers ==
    [kind: {"change"}, good: BOOLEAN]
        \cup [kind: {"list"}, good: BOOLEAN, list: Lists, behind: BOOLEAN]

TypeOK ==
    /\ written \in SUBSET Comments
    /\ author \in [Comments -> {Me, NoUser}]
    /\ content \in Lists
    /\ visit \in BOOLEAN /\ list \in Lists
    /\ sent \in Seq(Requests) /\ answers \in Seq(Answers)
    /\ ~visit => answers = <<>>
    /\ lost \in BOOLEAN /\ elsewhere \in BOOLEAN /\ overtaken \in BOOLEAN

Init ==
    /\ Book!Init
    /\ visit = FALSE /\ list = Nothing
    /\ sent = <<>> /\ answers = <<>>
    /\ lost = FALSE /\ elsewhere = FALSE /\ overtaken = FALSE

--------------------------------------------------------------------------------
(* The user. *)

Fetch == [kind |-> "list", awaited |-> TRUE]
Room == Len(sent) + Len(answers) < MaxCalls

Send(r) == sent' = Append(sent, r) /\ UNCHANGED answers

(* onAppear of a new view. *)
Open ==
    /\ ~visit /\ Room
    /\ visit' = TRUE
    /\ lost' = FALSE /\ elsewhere' = FALSE /\ overtaken' = FALSE
    /\ Send(Fetch)
    /\ UNCHANGED <<table, list>>

(* onAppear again, on the way back from the BoardDetailView of a row. *)
ComeBack ==
    /\ visit /\ list # Nothing /\ Room
    /\ Send(Fetch)
    /\ UNCHANGED <<table, visit, list, history>>

(* Mutant: answers to a view that is gone still come in. *)
Leave_KeepsAnswers ==
    /\ visit
    /\ visit' = FALSE /\ list' = Nothing
    /\ UNCHANGED <<table, wire, history>>

(* The view goes, and what was on its way to it reaches nobody. *)
Leave ==
    /\ visit
    /\ visit' = FALSE /\ list' = Nothing
    /\ sent' = [i \in DOMAIN sent |-> [sent[i] EXCEPT !.awaited = FALSE]]
    /\ answers' = <<>>
    /\ UNCHANGED <<table, history>>

Edit(c, t) ==
    /\ visit /\ list[c] # NoContent /\ Room
    /\ Send([kind |-> "edit", comment |-> c, text |-> t, awaited |-> TRUE])
    /\ UNCHANGED <<table, visit, list, history>>

Delete(c) ==
    /\ visit /\ list[c] # NoContent /\ Room
    /\ Send([kind |-> "delete", comment |-> c, awaited |-> TRUE])
    /\ UNCHANGED <<table, visit, list, history>>

--------------------------------------------------------------------------------
(* The server, one call at a time: each commits at one moment between its *)
(* request and its answer (CommentService implements CommentBook).         *)

Answered(i, a) ==
    /\ sent' = RemoveAt(sent, i)
    /\ answers' = IF sent[i].awaited THEN Append(answers, a) ELSE answers

ServeList(i) ==
    /\ sent[i].kind = "list"
    /\ \E good \in BOOLEAN :  \* FALSE: a 401, or a 500 with no JSON
          Answered(i, [kind |-> "list", good |-> good, behind |-> FALSE,
                       list |-> IF good THEN Mine ELSE Nothing])
    /\ UNCHANGED <<table, visit, list, history>>

(* A change by a view that is gone is news to the one that is shown. *)
ServeChange(i) ==
    /\ sent[i].kind \in {"edit", "delete"}
    /\ IF sent[i].kind = "edit" THEN Book!Rewrite(Me, sent[i].comment, sent[i].text)
                                ELSE Book!Remove(Me, sent[i].comment)
    /\ Answered(i, [kind |-> "change", good |-> TRUE])
    /\ elsewhere' = (elsewhere \/ ~sent[i].awaited)
    /\ UNCHANGED <<visit, list, lost, overtaken>>

(* The comment is gone (404), the token has expired (401), or the request *)
(* fails (500).  The refusals have a JSON body, the failure has none.      *)
RefuseChange(i) ==
    /\ sent[i].kind \in {"edit", "delete"}
    /\ \E good \in BOOLEAN : Answered(i, [kind |-> "change", good |-> good])
    /\ UNCHANGED <<table, visit, list, history>>

Serve(i) == ServeList(i) \/ ServeChange(i) \/ RefuseChange(i)

(* Another device of the user. *)
OtherDevice ==
    /\ Book!Next
    /\ elsewhere' = TRUE
    /\ UNCHANGED <<visit, list, wire, lost, overtaken>>

--------------------------------------------------------------------------------
(* The completions.  Moya runs them on the main queue, one at a time. *)

(* URLSession gives up on a call; the server may serve it all the same. *)
GiveUp(i) ==
    /\ sent[i].awaited
    /\ sent' = [sent EXCEPT ![i].awaited = FALSE]
    /\ lost' = TRUE
    /\ UNCHANGED <<table, visit, list, answers, elsewhere, overtaken>>

(* The lists that were answered before the i-th are now behind. *)
Behind(i) ==
    [j \in DOMAIN answers |->
        IF j < i /\ answers[j].kind = "list" THEN [answers[j] EXCEPT !.behind = TRUE]
                                             ELSE answers[j]]

(* self.commentList = clubResponse *)
ShowList(i) ==
    /\ answers[i].kind = "list" /\ answers[i].good
    /\ list' = answers[i].list
    /\ overtaken' = answers[i].behind
    /\ answers' = RemoveAt(Behind(i), i)
    /\ UNCHANGED <<table, visit, sent, lost, elsewhere>>

(* Mutant: the list is fetched again after an edit only. *)
ChangeDone_NoReload(i) ==
    /\ answers[i].kind = "change" /\ answers[i].good
    /\ answers' = RemoveAt(answers, i)
    /\ UNCHANGED <<table, visit, list, sent, history>>

(* onEditSuccess() *)
ChangeDone(i) ==
    /\ answers[i].kind = "change" /\ answers[i].good
    /\ answers' = RemoveAt(answers, i)
    /\ sent' = Append(sent, Fetch)
    /\ UNCHANGED <<table, visit, list, history>>

(* The answer is lost, or its body does not decode: a list is kept as it *)
(* was, and the completion of an edit or a deletion is not even called.    *)
LoseAnswer(i) ==
    /\ answers' = RemoveAt(answers, i)
    /\ lost' = TRUE
    /\ UNCHANGED <<table, visit, list, sent, elsewhere, overtaken>>

Receive(i) == ShowList(i) \/ ChangeDone(i) \/ LoseAnswer(i)

Next ==
    \/ Open \/ ComeBack \/ Leave \/ OtherDevice
    \/ \E c \in Comments : Delete(c) \/ \E t \in Contents : Edit(c, t)
    \/ \E i \in DOMAIN sent : Serve(i) \/ GiveUp(i)
    \/ \E i \in DOMAIN answers : Receive(i)

Spec == Init /\ [][Next]_vars
FairSpec ==
    /\ Spec
    /\ WF_vars(\E i \in DOMAIN sent : Serve(i))
    /\ WF_vars(\E i \in DOMAIN answers : Receive(i))

--------------------------------------------------------------------------------
Excused == lost \/ elsewhere \/ overtaken
Settled == visit /\ answers = <<>> /\ \A i \in DOMAIN sent : ~sent[i].awaited

(* When every call has been answered, the view shows the comments there   *)
(* are, however edits, deletions and fetches crossed: unless an answer was *)
(* lost, something else changed the comments, or an older list came last.  *)
CurrentUnlessExcused == Settled /\ ~Excused => list = Mine

(* A view that shows something else gets a list that is right, unless the *)
(* same excuses hold, the view goes or the user taps on.                   *)
Tapped == \E i \in DOMAIN sent : sent[i].kind # "list"
CatchesUp ==
    visit /\ list # Mine ~> list = Mine \/ Excused \/ ~visit \/ Tapped

(* An edit that succeeded has the list fetched again (line 19), so that   *)
(* the screen shows it (line 148): once nothing is under way and nothing   *)
(* was lost, no row shows a text that this view has replaced.              *)
EditShows ==
    Settled /\ ~lost /\ ~elsewhere =>
        \A c \in Book!Own(Me) : list[c] # NoContent => list[c] = content[c]
================================================================================
