----------------------------- MODULE SignUpProofs -----------------------------
(***************************************************************************)
(* Proofs about SignUp, for any emails, passwords, workers and calls: the  *)
(* phone is one more client of Accounts, so that what is proved of Accounts *)
(* holds behind it; a success alert means that the email is taken, and the *)
(* main tabs that the token is of an account of the login's.               *)
(***************************************************************************)
EXTENDS SignUp, AccountsProofs

(* The account a token or the answer of a login speaks of is there. *)
Match(user, f) ==
    \E u \in users : u.id = user /\ Same(u.email, f.email) /\ u.password = f.password

(* What is known of a call: its answer told the truth, and still does. *)
GoodCall(c) ==
    /\ c \in CallTypes
    /\ c.kind = "login" /\ c.at = "answered" /\ c.code = 200 =>
           c.user \in Ids /\ Match(c.user, c.form)
    /\ c.kind = "register" /\ Decodes(c.code) /\ c.form.email \in Registrable =>
           Taken(c.form.email)
GoodAlert(a) ==
    /\ a \in Alerts \cup {NoAlert}
    /\ a.says = "success" /\ a.form.email \in Registrable => Taken(a.form.email)
GoodToken(t) == t \in [user: Ids, form: Forms] /\ Match(t.user, t.form)

(* The inductive invariant, by screen, calls and workers. *)
ViewInv ==
    /\ screen \in {"splash", "login", "signUp", "main"}
    /\ popup \in BOOLEAN
    /\ GoodAlert(alert)
    /\ token = NoToken \/ GoodToken(token)
    /\ screen = "main" => GoodToken(token)
CallInv ==
    /\ call = [k \in Calls |-> call[k]]
    /\ \A k \in Calls : call[k] = NoCall \/ GoodCall(call[k])
ServingInv ==
    /\ serving \in [Workers -> Calls \cup {NoCall}]
    /\ \A w \in Workers, k \in Calls :
          serving[w] = k => /\ pc[w] = "checked"
                            /\ call[k] # NoCall /\ call[k].kind = "register"
                            /\ form[w] = call[k].form
AppInv == ViewInv /\ CallInv /\ ServingInv

(* What was true of an account stays true, as accounts are only added. *)
LEMMA UsersGrow == TypeOK /\ [Next]_vars => users \subseteq users'
BY UsersStep

LEMMA GoodKept ==
    ASSUME users \subseteq users'
    PROVE  /\ \A c : GoodCall(c) => GoodCall(c)'
           /\ \A a : GoodAlert(a) => GoodAlert(a)'
           /\ \A t : GoodToken(t) => GoodToken(t)'
BY DEF GoodCall, GoodAlert, GoodToken, Match, Taken, Same

(* A call that is out is well-formed. *)
LEMMA CallOut ==
    ASSUME CallInv, NEW k \in Calls, call[k] # NoCall
    PROVE  /\ GoodCall(call[k]) /\ call[k] \in CallTypes
           /\ call[k].form \in Forms
BY DEF CallInv, GoodCall, CallTypes

(* What the phone does is a step of a worker, of the clock, or of neither. *)
LEMMA AppStep == CallInv /\ [AppNext]_appVars => [Next]_vars
<1> SUFFICES ASSUME CallInv, [AppNext]_appVars PROVE [Next]_vars
  OBVIOUS
<1>1. ASSUME NEW w \in Workers, NEW k \in Calls,
             TakeRegister(w, k) \/ FinishRegister(w, k) \/ TakeLogin(w, k) \/ CrashUnder(w, k)
      PROVE  Next
  BY <1>1, CallOut DEF TakeRegister, FinishRegister, TakeLogin, CrashUnder, Next, Serve
<1>2. Elsewhere => Next
  BY DEF Elsewhere, Next
<1>3. ASSUME NEW k \in Calls, Complete(k) \/ \E f \in Forms : Tap(k, f)
      PROVE  UNCHANGED vars
  BY <1>3 DEF Complete, SignUpDone, SignUpFailed, LoginDone, LoginFailed, Ended, Tap
<1>4. SplashOver \/ ToSignUp \/ Cancel \/ DismissAlert \/ DismissPopup \/ Relaunch
          \/ UNCHANGED appVars
         => UNCHANGED vars
  BY DEF SplashOver, ToSignUp, Cancel, DismissAlert, DismissPopup, Relaunch, appVars
<1>5. QED
  BY <1>1, <1>2, <1>3, <1>4 DEF AppNext

(* Steps that leave the screens alone keep what the screens rely on. *)
LEMMA ViewKept ==
    ASSUME ViewInv, users \subseteq users', UNCHANGED view
    PROVE  ViewInv'
BY GoodKept DEF ViewInv, view

(* A call that is changed for a good one, while the others are kept. *)
LEMMA CallReplaced ==
    ASSUME CallInv, users \subseteq users', NEW k \in Calls, NEW c,
           call' = [call EXCEPT ![k] = c], c = NoCall \/ GoodCall(c)'
    PROVE  CallInv'
BY GoodKept DEF CallInv

LEMMA CallsKept ==
    ASSUME CallInv, users \subseteq users', UNCHANGED call
    PROVE  CallInv'
BY GoodKept DEF CallInv

(* What an answer does to the worker that gives it. *)
LEMMA ReplyEffect ==
    ASSUME TypeOK, NEW w \in Workers, NEW code \in {200, 201, 400, 401, 500}, Reply(w, code)
    PROVE  /\ answer'[w] = IF broken[w] THEN 500 ELSE code
           /\ pc'[w] = "idle"
           /\ \A v \in Workers \ {w} : pc'[v] = pc[v] /\ form'[v] = form[v]
BY DEF TypeOK, WorkerTypes, Reply

(* A worker does not touch the request of another. *)
LEMMA OthersKept ==
    ASSUME TypeOK, NEW w \in Workers, Serve(w), NEW v \in Workers \ {w}
    PROVE  pc'[v] = pc[v] /\ form'[v] = form[v]
<1>1. CASE Crash(w)
  BY <1>1 DEF Crash, TypeOK, WorkerTypes
<1>2. CASE \E code \in {200, 201, 400, 401, 500} : Reply(w, code)
  BY <1>2, ReplyEffect
<1>3. ASSUME NEW f \in Forms, SelectForRegister(w, f), ~Reply(w, 400)
      PROVE  pc'[v] = pc[v] /\ form'[v] = form[v]
  BY <1>3 DEF SelectForRegister, TypeOK, WorkerTypes
<1>4. QED
  BY <1>1, <1>2, <1>3
     DEF Serve, SelectForRegister, InsertUser, Login, Refresh, UseToken, ReadPublic

(* w serves none of the phone's calls after the step, the others serve what *)
(* they did; and the calls stay what they were asked for.                  *)
LeavesFree(w) ==
    /\ serving' \in [Workers -> Calls \cup {NoCall}]
    /\ serving'[w] = NoCall
    /\ \A v \in Workers \ {w} : serving'[v] = serving[v]
CallsStay ==
    \A k \in Calls : call[k] # NoCall =>
        call'[k] # NoCall /\ call'[k].kind = call[k].kind /\ call'[k].form = call[k].form

LEMMA ServingStep ==
    ASSUME TypeOK, ServingInv, NEW w \in Workers, Serve(w), LeavesFree(w), CallsStay
    PROVE  ServingInv'
<1>1. ASSUME NEW v \in Workers, NEW k \in Calls, serving'[v] = k
      PROVE  /\ pc'[v] = "checked"
             /\ call'[k] # NoCall /\ call'[k].kind = "register"
             /\ form'[v] = call'[k].form
  <2>1. v # w /\ serving[v] = k
    BY <1>1, SignUpAssumption DEF LeavesFree
  <2>2. QED
    BY <2>1, OthersKept DEF ServingInv, CallsStay
<1>2. QED
  BY <1>1 DEF ServingInv, LeavesFree

(* A call of which the place, the code and the user have been set. *)
Changed(d, c, at, code, user) ==
    /\ d \in CallTypes /\ d.kind = c.kind /\ d.form = c.form
    /\ d.at = at /\ d.code = code /\ d.user = user

LEMMA Moved ==
    ASSUME NEW c \in CallTypes, NEW at \in {"sent", "served", "answered", "cut"}
    PROVE  Changed([c EXCEPT !.at = at], c, at, c.code, c.user)
BY SMTT(30) DEF CallTypes, Changed

LEMMA Silenced ==
    ASSUME NEW c \in CallTypes
    PROVE  Changed([c EXCEPT !.heard = FALSE], c, c.at, c.code, c.user)
BY ZenonT(60) DEF CallTypes, Changed

(* The same of the call of a phone. *)
LEMMA CallMoved ==
    ASSUME CallInv, NEW k \in Calls, call[k] # NoCall,
           NEW at \in {"sent", "served", "answered", "cut"}, call' = [call EXCEPT ![k].at = at]
    PROVE  \E c : /\ Changed(c, call[k], at, call[k].code, call[k].user)
                  /\ call' = [call EXCEPT ![k] = c]
<1>1. call' = [call EXCEPT ![k] = [call[k] EXCEPT !.at = at]]
  BY DEF CallInv
<1>2. Changed([call[k] EXCEPT !.at = at], call[k], at, call[k].code, call[k].user)
  BY Moved, CallOut
<1>3. QED
  BY <1>1, <1>2

LEMMA CallAnswered ==
    ASSUME CallInv, NEW k \in Calls, call[k] # NoCall, NEW w \in Workers,
           answer'[w] \in {0, 200, 201, 400, 500},
           NEW u \in Ids \cup {NoCall}, call' = Replied(k, w, u)
    PROVE  \E c : /\ Changed(c, call[k], "answered", answer'[w], u)
                  /\ call' = [call EXCEPT ![k] = c]
<1>1. PICK n \in {0, 200, 201, 400, 500} : n = answer'[w]
  OBVIOUS
<1>2. PICK c \in CallTypes : c = call[k]
  BY CallOut
<1> DEFINE d == [c EXCEPT !.at = "answered"]
           e == [d EXCEPT !.code = n]
           f == [e EXCEPT !.user = u]
<1>3. Changed(d, c, "answered", c.code, c.user)
  BY SMTT(30) DEF Changed, CallTypes
<1>4. call' = [call EXCEPT ![k] = f]
  BY <1>1, <1>2 DEF CallInv, Replied
<1> HIDE DEF d
<1>5. Changed(e, c, "answered", n, c.user)
  BY <1>3, SMTT(30) DEF Changed, CallTypes
<1> HIDE DEF e
<1>6. Changed(f, c, "answered", n, u)
  BY <1>5, SMTT(30) DEF Changed, CallTypes
<1>7. QED
  BY <1>1, <1>2, <1>4, <1>6

(* A register that is refused was told the truth, and one that goes on is *)
(* what the worker is busy with.                                           *)
LEMMA TakeRegisterStep ==
    ASSUME TypeOK, AppInv, NEW w \in Workers, NEW k \in Calls, TakeRegister(w, k)
    PROVE  AppInv'
<1>1. GoodCall(call[k]) /\ call[k].form \in Forms /\ call[k] \in CallTypes
  BY CallOut DEF TakeRegister, AppInv
<1>2. Serve(w) /\ users' = users
  BY <1>1 DEF TakeRegister, Serve, SelectForRegister
<1>3. ViewInv'
  BY <1>2, ViewKept DEF TakeRegister, AppInv
<1>4. CASE pc'[w] = "checked"
  <2>1. /\ call' = [call EXCEPT ![k].at = "served"]
        /\ serving' = [serving EXCEPT ![w] = k]
    BY <1>4 DEF TakeRegister
  <2>2. PICK c : /\ Changed(c, call[k], "served", call[k].code, call[k].user)
                 /\ call' = [call EXCEPT ![k] = c]
    BY <2>1, CallMoved DEF AppInv, TakeRegister
  <2>3. GoodCall(c)'
    BY <1>1, <1>2, <2>2, GoodKept DEF GoodCall, Changed, TakeRegister
  <2>4. CallInv'
    BY <1>2, <2>2, <2>3, CallReplaced DEF AppInv
  <2>5. ASSUME NEW v \in Workers, NEW j \in Calls, serving'[v] = j
        PROVE  /\ pc'[v] = "checked"
               /\ call'[j] # NoCall /\ call'[j].kind = "register"
               /\ form'[v] = call'[j].form
    <3>1. c # NoCall /\ c.kind = "register" /\ c.form = call[k].form
      BY <1>1, <2>2, SignUpAssumption DEF Changed, TakeRegister
    <3>2. CASE v = w
      <4>1. j = k
        BY <2>1, <2>5, <3>2 DEF AppInv, ServingInv
      <4>2. form'[w] = call[k].form
        BY <1>4 DEF TakeRegister, SelectForRegister, Reply, TypeOK, WorkerTypes
      <4>3. QED
        BY <1>4, <2>2, <3>1, <3>2, <4>1, <4>2 DEF AppInv, CallInv
    <3>3. CASE v # w
      <4>1. serving[v] = j
        BY <2>1, <2>5, <3>3 DEF AppInv, ServingInv
      <4>2. call'[j] = IF j = k THEN c ELSE call[j]
        BY <2>2 DEF AppInv, CallInv
      <4>3. QED
        BY <1>2, <3>1, <3>3, <4>1, <4>2, OthersKept DEF AppInv, ServingInv
    <3>4. QED
      BY <3>2, <3>3
  <2>6. serving' \in [Workers -> Calls \cup {NoCall}]
    BY <2>1 DEF AppInv, ServingInv
  <2>7. QED
    BY <1>3, <2>4, <2>5, <2>6 DEF AppInv, ServingInv
<1>5. CASE pc'[w] # "checked"
  <2>1. Reply(w, 400) /\ call' = Replied(k, w, NoCall) /\ serving' = serving
    BY <1>5 DEF TakeRegister, SelectForRegister, TypeOK, WorkerTypes
  <2>2. answer'[w] = IF broken[w] THEN 500 ELSE 400
    BY <2>1, ReplyEffect
  <2>3. PICK c : /\ Changed(c, call[k], "answered", answer'[w], NoCall)
                 /\ call' = [call EXCEPT ![k] = c]
    BY <2>1, <2>2, CallAnswered DEF AppInv, TakeRegister
  <2>4. GoodCall(c)'
    <3>1. answer'[w] = 400 /\ call[k].form.email \in Registrable => Taken(call[k].form.email)
      BY <1>5, <2>2 DEF TakeRegister, SelectForRegister, TypeOK, WorkerTypes
    <3>2. QED
      BY <1>1, <1>2, <2>2, <2>3, <3>1 DEF GoodCall, Changed, Decodes, Taken, TakeRegister
  <2>5. CallInv'
    BY <1>2, <2>3, <2>4, CallReplaced DEF AppInv
  <2>6. ServingInv'
    <3>1. LeavesFree(w) /\ CallsStay
      BY <2>1, <2>3, SignUpAssumption
         DEF LeavesFree, CallsStay, Changed, AppInv, CallInv, ServingInv, TakeRegister
    <3>2. QED
      BY <1>2, <3>1, ServingStep DEF AppInv
  <2>7. QED
    BY <1>3, <2>5, <2>6 DEF AppInv
<1>6. QED
  BY <1>4, <1>5

(* A register the worker was busy with, answered 201, has stored its row. *)
LEMMA FinishRegisterStep ==
    ASSUME TypeOK, AppInv, NEW w \in Workers, NEW k \in Calls, FinishRegister(w, k)
    PROVE  AppInv'
<1>1. GoodCall(call[k]) /\ call[k] \in CallTypes
  BY CallOut DEF FinishRegister, AppInv
<1>2. Serve(w) /\ Next
  BY DEF FinishRegister, Serve, Next
<1>3. users \subseteq users'
  BY <1>2, UsersGrow
<1>4. ViewInv'
  BY <1>3, ViewKept DEF FinishRegister, AppInv
<1>5. /\ call[k].kind = "register" /\ form[w] = call[k].form
      /\ InsertUser(w)
      /\ call' = Replied(k, w, NoCall) /\ serving' = [serving EXCEPT ![w] = NoCall]
  BY DEF FinishRegister, AppInv, ServingInv
<1>6. Reply(w, 201) \/ Reply(w, 500)
  BY <1>5 DEF InsertUser
<1>7. answer'[w] \in {201, 500}
  BY <1>6, ReplyEffect
<1>8. PICK c : /\ Changed(c, call[k], "answered", answer'[w], NoCall)
               /\ call' = [call EXCEPT ![k] = c]
  BY <1>5, <1>7, CallAnswered DEF AppInv, FinishRegister
<1>9. GoodCall(c)'
  <2>1. CASE answer'[w] = 201
    <3>1. ~Reply(w, 500)
      BY <2>1, ReplyEffect
    <3>2. PICK i \in Ids \ {u.id : u \in users} :
             users' = users \cup {[id |-> i, email |-> form[w].email,
                                   password |-> form[w].password]}
      BY <1>5, <3>1 DEF InsertUser
    <3> DEFINE r == [id |-> i, email |-> form[w].email, password |-> form[w].password]
    <3>3. r \in users' /\ r.email = form[w].email
      BY <3>2
    <3>4. Taken(c.form.email)'
      BY <1>5, <1>8, <3>3 DEF Changed, Taken, Same
    <3>5. QED
      BY <1>5, <1>8, <3>4 DEF GoodCall, Changed
  <2>2. CASE answer'[w] = 500
    BY <1>5, <1>8, <2>2 DEF GoodCall, Changed, Decodes
  <2>3. QED
    BY <1>7, <2>1, <2>2
<1>10. CallInv'
  BY <1>3, <1>8, <1>9, CallReplaced DEF AppInv
<1>11. ServingInv'
  <2>1. LeavesFree(w) /\ CallsStay
    BY <1>5, <1>8, SignUpAssumption
       DEF LeavesFree, CallsStay, Changed, AppInv, CallInv, ServingInv
  <2>2. QED
    BY <1>2, <2>1, ServingStep DEF AppInv
<1>12. QED
  BY <1>4, <1>10, <1>11 DEF AppInv

(* A login answered 200 was let into the account it names. *)
LEMMA TakeLoginStep ==
    ASSUME TypeOK, AppInv, NEW w \in Workers, NEW k \in Calls, TakeLogin(w, k)
    PROVE  AppInv'
<1>1. call[k] \in CallTypes /\ call[k].form \in Forms
  BY CallOut DEF TakeLogin, AppInv
<1>2. Serve(w) /\ users' = users
  BY <1>1 DEF TakeLogin, Serve, Login
<1>3. ViewInv'
  BY <1>2, ViewKept DEF TakeLogin, AppInv
<1>4. PICK u \in Ids \cup {NoCall} :
         /\ answer'[w] = 200 =>
               \E r \in users : /\ r.id = u /\ Same(r.email, call[k].form.email)
                               /\ r.password = call[k].form.password
         /\ call' = Replied(k, w, u)
  BY DEF TakeLogin
<1>5. Reply(w, 200) \/ Reply(w, 400)
  BY DEF TakeLogin, Login
<1>6. answer'[w] \in {200, 400, 500}
  BY <1>5, ReplyEffect
<1>7. PICK c : /\ Changed(c, call[k], "answered", answer'[w], u)
               /\ call' = [call EXCEPT ![k] = c]
  BY <1>4, <1>6, CallAnswered DEF AppInv, TakeLogin
<1>8. GoodCall(c)'
  <2>1. answer'[w] = 200 => u \in Ids /\ Match(u, c.form)'
    BY <1>2, <1>4, <1>7 DEF Match, Changed, Same, TypeOK, RowTypes, Rows
  <2>2. QED
    BY <1>7, <2>1 DEF GoodCall, Changed, TakeLogin
<1>9. CallInv'
  BY <1>2, <1>7, <1>8, CallReplaced DEF AppInv
<1>10. ServingInv'
  <2>1. LeavesFree(w) /\ CallsStay
    BY <1>7, SignUpAssumption
       DEF LeavesFree, CallsStay, Changed, AppInv, CallInv, ServingInv, TakeLogin
  <2>2. QED
    BY <1>2, <2>1, ServingStep DEF AppInv
<1>11. QED
  BY <1>3, <1>9, <1>10 DEF AppInv

(* A worker that dies takes nothing with it but its request. *)
LEMMA CrashUnderStep ==
    ASSUME TypeOK, AppInv, NEW w \in Workers, NEW k \in Calls, CrashUnder(w, k)
    PROVE  AppInv'
<1>1. GoodCall(call[k]) /\ call[k] \in CallTypes /\ call[k].kind = "register"
  BY CallOut DEF CrashUnder, AppInv, ServingInv
<1>2. Serve(w) /\ users' = users
  BY DEF CrashUnder, Serve, Crash
<1>3. ViewInv'
  BY <1>2, ViewKept DEF CrashUnder, AppInv
<1>4. PICK c : /\ Changed(c, call[k], "cut", call[k].code, call[k].user)
               /\ call' = [call EXCEPT ![k] = c]
  BY CallMoved DEF CrashUnder, AppInv
<1>5. GoodCall(c)'
  BY <1>1, <1>2, <1>4, GoodKept DEF GoodCall, Changed
<1>6. CallInv'
  BY <1>2, <1>4, <1>5, CallReplaced DEF AppInv
<1>7. ServingInv'
  <2>1. LeavesFree(w) /\ CallsStay
    BY <1>4, SignUpAssumption
       DEF LeavesFree, CallsStay, Changed, AppInv, CallInv, ServingInv, CrashUnder
  <2>2. QED
    BY <1>2, <2>1, ServingStep DEF AppInv
<1>8. QED
  BY <1>3, <1>6, <1>7 DEF AppInv

(* What happens elsewhere leaves the phone's calls to their workers. *)
LEMMA ElsewhereStep == TypeOK /\ AppInv /\ Elsewhere => AppInv'
<1> SUFFICES ASSUME TypeOK, AppInv, Elsewhere PROVE AppInv'
  OBVIOUS
<1>1. UNCHANGED <<view, call, serving>> /\ users \subseteq users'
  BY UsersGrow DEF Elsewhere, Next, phone
<1>2. ViewInv' /\ CallInv'
  BY <1>1, ViewKept, CallsKept DEF AppInv
<1>3. CASE Tick
  BY <1>1, <1>2, <1>3 DEF Tick, AppInv, ServingInv
<1>4. ASSUME NEW w \in Workers, serving[w] = NoCall, Serve(w)
      PROVE  ServingInv'
  <2>1. LeavesFree(w) /\ CallsStay
    BY <1>1, <1>4 DEF LeavesFree, CallsStay, AppInv, ServingInv
  <2>2. QED
    BY <1>4, <2>1, ServingStep DEF AppInv
<1>5. CASE \E w \in Workers : serving[w] = NoCall /\ Serve(w)
  BY <1>2, <1>4, <1>5 DEF AppInv
<1>6. QED
  BY <1>3, <1>5 DEF Elsewhere

(* The user's taps send new calls, and take nothing from the others. *)
LEMMA TapStep ==
    ASSUME AppInv, NEW k \in Calls, NEW f \in Forms, Tap(k, f)
    PROVE  AppInv'
<1>1. UNCHANGED <<users, pc, form, view, serving>>
  BY DEF Tap, vars
<1>2. PICK kind \in {"register", "login"} :
         call' = [call EXCEPT ![k] = [kind |-> kind, form |-> f, heard |-> TRUE,
                                      at |-> "sent", code |-> 0, user |-> NoCall]]
  BY DEF Tap
<1>3. GoodCall([kind |-> kind, form |-> f, heard |-> TRUE,
                at |-> "sent", code |-> 0, user |-> NoCall])'
  BY DEF GoodCall, CallTypes, Decodes
<1>4. ViewInv' /\ CallInv'
  BY <1>1, <1>2, <1>3, ViewKept, CallReplaced DEF AppInv
<1>5. \A j \in Calls \ {k} : call'[j] = call[j]
  BY <1>2 DEF AppInv, CallInv
<1>6. \A w \in Workers : serving[w] # k
  BY DEF AppInv, ServingInv, Tap
<1>7. ServingInv'
  BY <1>1, <1>5, <1>6 DEF AppInv, ServingInv
<1>8. QED
  BY <1>4, <1>7 DEF AppInv

(* Moving between the screens shows nothing new but the login. *)
LEMMA ScreenStep ==
    ASSUME AppInv, SplashOver \/ ToSignUp \/ DismissAlert \/ DismissPopup
    PROVE  AppInv'
<1>1. UNCHANGED <<users, pc, form, token, call, serving>>
  BY DEF SplashOver, ToSignUp, DismissAlert, DismissPopup, vars
<1>2. GoodAlert(NoAlert)'
  BY DEF GoodAlert, NoAlert
<1>3. ViewInv'
  BY <1>1, <1>2, GoodKept DEF AppInv, ViewInv, SplashOver, ToSignUp, DismissAlert, DismissPopup
<1>4. CallInv' /\ ServingInv'
  BY <1>1, CallsKept DEF AppInv, ServingInv
<1>5. QED
  BY <1>3, <1>4 DEF AppInv

LEMMA RelaunchStep ==
    ASSUME AppInv, Relaunch
    PROVE  AppInv'
<1>1. GoodAlert(NoAlert)'
  BY DEF GoodAlert, NoAlert
<1>2. users' = users
  BY DEF Relaunch, vars
<1>3. ViewInv'
  BY <1>1, <1>2, GoodKept DEF AppInv, ViewInv, Relaunch
<1>4. CallInv' /\ ServingInv'
  BY SignUpAssumption DEF Relaunch, CallInv, ServingInv
<1>5. QED
  BY <1>3, <1>4 DEF AppInv

(* A view that is left only makes its calls unheard. *)
LEMMA CancelStep ==
    ASSUME AppInv, Cancel
    PROVE  AppInv'
<1>1. UNCHANGED <<users, pc, form, serving, token, alert, popup>> /\ screen' = "login"
  BY DEF Cancel, vars
<1>2. ViewInv'
  BY <1>1, GoodKept DEF AppInv, ViewInv
<1>3. ASSUME NEW k \in Calls, call[k] # NoCall
      PROVE  /\ GoodCall(call'[k]) /\ call'[k] # NoCall
             /\ call'[k].kind = call[k].kind /\ call'[k].form = call[k].form
  <2>1. PICK c \in CallTypes : c = call[k] /\ GoodCall(c)
    BY <1>3, CallOut DEF AppInv
  <2> DEFINE d == [c EXCEPT !.heard = FALSE]
  <2>2. call'[k] = c \/ call'[k] = d
    BY <2>1 DEF Cancel, Unheard
  <2>3. Changed(d, c, c.at, c.code, c.user)
    BY Silenced
  <2> HIDE DEF d
  <2>4. GoodCall(d)
    BY <2>1, <2>3 DEF GoodCall, Changed
  <2>5. QED
    BY <2>1, <2>2, <2>3, <2>4, SignUpAssumption DEF Changed
<1>4. ASSUME NEW k \in Calls, call[k] = NoCall
      PROVE  call'[k] = NoCall
  BY <1>4 DEF Cancel, Unheard
<1>5. CallInv'
  <2>1. call' = [k \in Calls |-> call'[k]]
    BY DEF Cancel, Unheard
  <2>2. ASSUME NEW k \in Calls, call'[k] # NoCall
        PROVE  GoodCall(call[k])'
    BY <1>1, <1>3, <1>4, <2>2 DEF GoodCall, Match, Taken, Same
  <2>3. QED
    BY <2>1, <2>2 DEF CallInv
<1>6. ServingInv'
  BY <1>1, <1>3 DEF AppInv, ServingInv
<1>7. QED
  BY <1>2, <1>5, <1>6 DEF AppInv

(* A call that ends leaves the other calls, and the server, alone. *)
LEMMA EndedStep ==
    ASSUME AppInv, NEW k \in Calls, Ended(k)
    PROVE  CallInv' /\ ServingInv' /\ users' = users
<1>1. UNCHANGED <<users, pc, form>> /\ call' = [call EXCEPT ![k] = NoCall]
  BY DEF Ended, vars
<1>2. CallInv'
  BY <1>1, CallReplaced DEF AppInv
<1>3. \A j \in Calls \ {k} : call'[j] = call[j]
  BY <1>1 DEF AppInv, CallInv
<1>4. /\ serving' \in [Workers -> Calls \cup {NoCall}]
      /\ \A w \in Workers, j \in Calls : serving'[w] = j => serving[w] = j /\ j # k
  BY SignUpAssumption DEF Ended, AppInv, ServingInv
<1>5. ServingInv'
  BY <1>1, <1>3, <1>4 DEF AppInv, ServingInv
<1>6. QED
  BY <1>1, <1>2, <1>5

(* The alert repeats what the answer said of the call. *)
LEMMA SignUpDoneStep ==
    ASSUME AppInv, NEW k \in Calls, SignUpDone(k) \/ SignUpFailed(k)
    PROVE  AppInv'
<1>1. CallInv' /\ ServingInv' /\ users' = users
  BY EndedStep DEF SignUpDone, SignUpFailed
<1>2. GoodCall(call[k]) /\ call[k].form \in Forms
  BY CallOut DEF SignUpDone, SignUpFailed, AppInv
<1>3. PICK says \in {"success", "failure"} :
         /\ ShowAlert(k, says)
         /\ says = "success" => Decodes(call[k].code) /\ call[k].kind = "register"
  BY DEF SignUpDone, SignUpFailed
<1> DEFINE a == [says |-> says, form |-> call[k].form]
<1>4. a \in Alerts /\ a.says = says /\ a.form = call[k].form
  BY <1>2 DEF Alerts
<1>5. GoodAlert(a)
  BY <1>2, <1>3, <1>4 DEF GoodAlert, GoodCall
<1>6. alert' = alert \/ alert' = a
  BY <1>3 DEF ShowAlert
<1> HIDE DEF a
<1>7. GoodAlert(alert)'
  BY <1>1, <1>5, <1>6 DEF GoodAlert, Taken, Same, AppInv, ViewInv
<1>8. ViewInv'
  BY <1>1, <1>7, GoodKept DEF AppInv, ViewInv, SignUpDone, SignUpFailed
<1>9. QED
  BY <1>1, <1>8 DEF AppInv

(* A login stores a token of the account that let it in. *)
LEMMA LoginDoneStep ==
    ASSUME AppInv, NEW k \in Calls, LoginDone(k) \/ LoginFailed(k)
    PROVE  AppInv'
<1>1. CallInv' /\ ServingInv' /\ users' = users
  BY EndedStep DEF LoginDone, LoginFailed
<1>2. GoodCall(call[k]) /\ call[k].form \in Forms
  BY CallOut DEF LoginDone, LoginFailed, AppInv
<1>3. GoodAlert(NoAlert)'
  BY DEF GoodAlert, NoAlert
<1>4. CASE LoginDone(k)
  <2> DEFINE t == [user |-> call[k].user, form |-> call[k].form]
  <2>1. GoodToken(t)
    BY <1>2, <1>4 DEF GoodToken, GoodCall, LoginDone
  <2>2. token' = t
    BY <1>4 DEF LoginDone
  <2> HIDE DEF t
  <2>3. GoodToken(token)'
    BY <1>1, <2>1, <2>2 DEF GoodToken, Match, Same
  <2>4. ViewInv'
    BY <1>1, <1>3, <1>4, <2>3, GoodKept DEF AppInv, ViewInv, LoginDone
  <2>5. QED
    BY <1>1, <2>4 DEF AppInv
<1>5. CASE LoginFailed(k)
  <2>1. ViewInv'
    BY <1>1, <1>5, GoodKept DEF AppInv, ViewInv, LoginFailed
  <2>2. QED
    BY <1>1, <2>1 DEF AppInv
<1>6. QED
  BY <1>4, <1>5

LEMMA AppInvStep == TypeOK /\ AppInv /\ [AppNext]_appVars => AppInv'
<1> SUFFICES ASSUME TypeOK, AppInv, [AppNext]_appVars PROVE AppInv'
  OBVIOUS
<1>1. CASE SplashOver \/ ToSignUp \/ Cancel \/ DismissAlert \/ DismissPopup \/ Relaunch \/ Elsewhere
  BY <1>1, ScreenStep, CancelStep, RelaunchStep, ElsewhereStep
<1>2. ASSUME NEW k \in Calls, Complete(k) \/ \E f \in Forms : Tap(k, f)
      PROVE  AppInv'
  BY <1>2, TapStep, SignUpDoneStep, LoginDoneStep DEF Complete
<1>3. ASSUME NEW k \in Calls, NEW w \in Workers,
             TakeRegister(w, k) \/ FinishRegister(w, k) \/ TakeLogin(w, k) \/ CrashUnder(w, k)
      PROVE  AppInv'
  BY <1>3, TakeRegisterStep, FinishRegisterStep, TakeLoginStep, CrashUnderStep
<1>4. CASE UNCHANGED appVars
  BY <1>4 DEF appVars, vars, phone, view, AppInv, ViewInv, CallInv, ServingInv,
              GoodCall, GoodAlert, GoodToken, Match, Taken, Same
<1>5. QED
  BY <1>1, <1>2, <1>3, <1>4 DEF AppNext

(* The phone does to the server only what any client may: performLogin and *)
(* idPwSignUp keep whatever Accounts promises.                             *)
THEOREM PhoneIsAClient == AppSpec => Spec
<1>1. AppInit => Init /\ TypeOK /\ AppInv
  <2> SUFFICES ASSUME AppInit PROVE Init /\ TypeOK /\ AppInv
    OBVIOUS
  <2>1. Init /\ TypeOK
    BY AccountsAssumption DEF AppInit, Init, TypeOK, RowTypes, WorkerTypes, Forms
  <2>2. GoodAlert(NoAlert)
    BY DEF GoodAlert, NoAlert
  <2>3. AppInv
    BY <2>2, SignUpAssumption DEF AppInit, AppInv, ViewInv, CallInv, ServingInv
  <2>4. QED
    BY <2>1, <2>3
<1>2. TypeOK /\ AppInv /\ [AppNext]_appVars => TypeOK' /\ AppInv' /\ [Next]_vars
  BY AppStep, AppInvStep, WorkerStep, RowStep DEF AppInv, TypeOK
<1>3. QED
  BY <1>1, <1>2, PTL DEF AppSpec, Spec

(* What the screens, the calls and the workers rely on, throughout. *)
LEMMA AppInvariant == AppSpec => []AppInv
<1>1. AppInit => AppInv
  <2>1. GoodAlert(NoAlert)
    BY DEF GoodAlert, NoAlert
  <2>2. QED
    BY <2>1, SignUpAssumption DEF AppInit, AppInv, ViewInv, CallInv, ServingInv
<1>2. QED
  BY <1>1, AppInvStep, PhoneIsAClient, AccountsTypeInvariant, PTL DEF AppSpec

(* The types of the phone's state, and that a worker busy with one of its *)
(* calls is between the SELECT and the INSERT of a register.               *)
THEOREM AppTypeInvariant == AppSpec => []AppTypeOK
<1>1. AppInv => AppTypeOK
  <2> SUFFICES ASSUME AppInv PROVE AppTypeOK
    OBVIOUS
  <2>1. call \in [Calls -> CallTypes \cup {NoCall}]
    BY DEF AppInv, CallInv, GoodCall
  <2>2. \A w \in Workers : serving[w] # NoCall => pc[w] = "checked"
    BY DEF AppInv, ServingInv
  <2>3. QED
    BY <2>1, <2>2 DEF AppTypeOK, AppInv, ViewInv, ServingInv, GoodAlert, GoodToken
<1>2. QED
  BY <1>1, AppInvariant, PTL

(* A sign-up that is shown as successful has an account of its email behind *)
(* it, however the request was lost, repeated or overtaken.                *)
THEOREM SuccessTaken == AppSpec => []SuccessMeansTaken
<1>1. AppInv => SuccessMeansTaken
  BY DEF AppInv, ViewInv, GoodAlert, SuccessMeansTaken
<1>2. QED
  BY <1>1, AppInvariant, PTL

(* Nobody gets to the main tabs but with a token of an account of theirs. *)
THEOREM OnlyOwnersEnter == AppSpec => []EnteredAsOneself
<1>1. AppInv => EnteredAsOneself
  BY DEF AppInv, ViewInv, GoodToken, Match, EnteredAsOneself
<1>2. QED
  BY <1>1, AppInvariant, PTL

(* A tap is over: the user was told of it, or has left its screen. *)
Told(kind, f) ==
    \/ screen' = "splash"
    \/ kind = "register" /\ alert' # NoAlert /\ alert'.form = f
    \/ kind = "register" /\ screen = "signUp" /\ screen' = "login"
    \/ kind = "login" /\ popup'
    \/ kind = "login" /\ token' # NoToken /\ token'.form = f /\ screen' # "login"

(* A call stays out while its view, its form and its kind are left alone. *)
StaysOut(k) ==
    /\ call'[k] # NoCall /\ call'[k].heard = call[k].heard
    /\ call'[k].kind = call[k].kind /\ call'[k].form = call[k].form

(* No step takes a place, a code or a user for a reason to forget a call. *)
LEMMA MovedStaysOut ==
    ASSUME CallInv, NEW k \in Calls, call[k] # NoCall,
           NEW at \in {"sent", "served", "answered", "cut"}, call' = [call EXCEPT ![k].at = at]
    PROVE  \A j \in Calls : call[j] # NoCall => StaysOut(j)
<1>1. PICK c \in CallTypes : c = call[k]
  BY CallOut
<1> DEFINE d == [c EXCEPT !.at = at]
<1>2. d \in CallTypes /\ d.heard = c.heard /\ d.kind = c.kind /\ d.form = c.form
  BY SMTT(30) DEF CallTypes
<1>3. call' = [call EXCEPT ![k] = d]
  BY <1>1 DEF CallInv
<1> HIDE DEF d
<1>4. QED
  BY <1>1, <1>2, <1>3, SignUpAssumption DEF CallInv, StaysOut

LEMMA AnsweredStaysOut ==
    ASSUME CallInv, NEW k \in Calls, call[k] # NoCall, NEW w \in Workers,
           answer'[w] \in {0, 200, 201, 400, 500},
           NEW u \in Ids \cup {NoCall}, call' = Replied(k, w, u)
    PROVE  \A j \in Calls : call[j] # NoCall => StaysOut(j)
<1>1. PICK c \in CallTypes : c = call[k]
  BY CallOut
<1>2. PICK n \in {0, 200, 201, 400, 500} : n = answer'[w]
  OBVIOUS
<1> DEFINE d == [c EXCEPT !.at = "answered"]
           e == [d EXCEPT !.code = n]
           g == [e EXCEPT !.user = u]
           Kept(x) == x \in CallTypes /\ x.heard = c.heard /\ x.kind = c.kind /\ x.form = c.form
<1>3. Kept(d)
  BY SMTT(30) DEF CallTypes
<1>4. call' = [call EXCEPT ![k] = g]
  BY <1>1, <1>2 DEF CallInv, Replied
<1> HIDE DEF d
<1>5. Kept(e)
  BY <1>3, SMTT(30) DEF CallTypes
<1> HIDE DEF e
<1>6. Kept(g)
  BY <1>5, SMTT(30) DEF CallTypes
<1> HIDE DEF g
<1>7. QED
  BY <1>1, <1>4, <1>6, SignUpAssumption DEF CallInv, StaysOut

(* Whatever the server does with a call, its tap is still out. *)
LEMMA ServerKeepsCalls ==
    ASSUME TypeOK, AppInv, NEW w \in Workers, NEW k \in Calls,
           TakeRegister(w, k) \/ FinishRegister(w, k) \/ TakeLogin(w, k) \/ CrashUnder(w, k)
    PROVE  \A j \in Calls : call[j] # NoCall => StaysOut(j)
<1>1. CallInv /\ call[k] # NoCall /\ call[k].form \in Forms
  BY CallOut DEF AppInv, TakeRegister, FinishRegister, TakeLogin, CrashUnder
<1>2. CASE TakeRegister(w, k)
  <2>1. CASE pc'[w] = "checked"
    BY <1>1, <1>2, <2>1, MovedStaysOut DEF TakeRegister
  <2>2. CASE pc'[w] # "checked"
    <3>1. Reply(w, 400) /\ call' = Replied(k, w, NoCall)
      BY <1>2, <2>2 DEF TakeRegister, SelectForRegister, TypeOK, WorkerTypes
    <3>2. QED
      BY <1>1, <3>1, ReplyEffect, AnsweredStaysOut
  <2>3. QED
    BY <2>1, <2>2
<1>3. CASE FinishRegister(w, k)
  <2>1. (Reply(w, 201) \/ Reply(w, 500)) /\ call' = Replied(k, w, NoCall)
    BY <1>3 DEF FinishRegister, InsertUser
  <2>2. QED
    BY <1>1, <2>1, ReplyEffect, AnsweredStaysOut
<1>4. CASE TakeLogin(w, k)
  <2>1. Reply(w, 200) \/ Reply(w, 400)
    BY <1>4 DEF TakeLogin, Login
  <2>2. PICK u \in Ids \cup {NoCall} : call' = Replied(k, w, u)
    BY <1>4 DEF TakeLogin
  <2>3. QED
    BY <1>1, <2>1, <2>2, ReplyEffect, AnsweredStaysOut
<1>5. CASE CrashUnder(w, k)
  BY <1>1, <1>5, MovedStaysOut DEF CrashUnder
<1>6. QED
  BY <1>2, <1>3, <1>4, <1>5

(* The user's steps: a tap on a button, the other screen, the way back. *)
LEMMA UserKeepsCalls ==
    ASSUME AppInv, NEW j \in Calls, call[j] # NoCall, call[j].heard,
           \/ SplashOver \/ ToSignUp \/ Cancel \/ DismissAlert \/ DismissPopup \/ Relaunch \/ Elsewhere
           \/ \E k \in Calls, f \in Forms : Tap(k, f)
    PROVE  StaysOut(j) \/ Told(call[j].kind, call[j].form)
<1>1. call[j] \in CallTypes
  BY CallOut DEF AppInv
<1>2. CASE SplashOver \/ ToSignUp \/ DismissAlert \/ DismissPopup \/ Elsewhere
  BY <1>2 DEF SplashOver, ToSignUp, DismissAlert, DismissPopup, Elsewhere, phone, StaysOut
<1>3. CASE Relaunch
  BY <1>3 DEF Relaunch, Told
<1>4. CASE Cancel
  <2>1. call[j].kind = "register" => Told(call[j].kind, call[j].form)
    BY <1>4 DEF Cancel, Told
  <2>2. call[j].kind # "register" => call'[j] = call[j]
    BY <1>4 DEF Cancel, Unheard
  <2>3. QED
    BY <2>1, <2>2 DEF StaysOut
<1>5. ASSUME NEW k \in Calls, NEW f \in Forms, Tap(k, f)
      PROVE  StaysOut(j)
  <2>1. k # j
    BY <1>5 DEF Tap
  <2>2. call'[j] = call[j]
    BY <1>5, <2>1 DEF Tap, AppInv, CallInv
  <2>3. QED
    BY <2>2 DEF StaysOut
<1>6. QED
  BY <1>2, <1>3, <1>4, <1>5

(* A completion tells of its own call, and keeps the others. *)
LEMMA CompletionTells ==
    ASSUME AppInv, NEW k \in Calls, Complete(k), NEW j \in Calls, call[j] # NoCall, call[j].heard
    PROVE  StaysOut(j) \/ Told(call[j].kind, call[j].form)
<1>1. call[k] # NoCall /\ call' = [call EXCEPT ![k] = NoCall]
  BY DEF Complete, SignUpDone, SignUpFailed, LoginDone, LoginFailed, Ended
<1>2. CASE j # k
  <2>1. call'[j] = call[j]
    BY <1>1, <1>2 DEF AppInv, CallInv
  <2>2. QED
    BY <1>2, <2>1 DEF StaysOut
<1>3. CASE j = k
  <2>1. call[k].form \in Forms
    BY <1>1, CallOut DEF AppInv
  <2>2. CASE SignUpDone(k) \/ SignUpFailed(k)
    <3>1. PICK says \in {"success", "failure"} : ShowAlert(k, says) /\ call[k].kind = "register"
      BY <2>2 DEF SignUpDone, SignUpFailed
    <3>2. alert' = [says |-> says, form |-> call[k].form]
      BY <1>3, <3>1 DEF ShowAlert
    <3>3. alert'.says # "nothing" /\ alert'.form = call[k].form
      BY <3>2
    <3>4. alert' # NoAlert
      BY <3>3 DEF NoAlert
    <3>5. QED
      BY <1>3, <3>1, <3>3, <3>4 DEF Told
  <2>3. CASE LoginDone(k)
    <3>1. token' = [user |-> call[k].user, form |-> call[k].form] /\ call[k].kind = "login"
      BY <2>3 DEF LoginDone
    <3>2. GoodCall(call[k])
      BY <1>1, CallOut DEF AppInv
    <3>3. token'.user \in Ids /\ token'.form = call[k].form
      BY <2>3, <3>1, <3>2 DEF GoodCall, LoginDone
    <3>4. token' # NoToken
      BY <3>3, SignUpAssumption DEF NoToken
    <3>5. screen' # "login"
      BY <2>3 DEF LoginDone
    <3>6. QED
      BY <1>3, <3>1, <3>3, <3>4, <3>5 DEF Told
  <2>4. CASE LoginFailed(k)
    BY <1>3, <2>4 DEF LoginFailed, Told
  <2>5. QED
    BY <2>2, <2>3, <2>4 DEF Complete
<1>4. QED
  BY <1>2, <1>3

(* The half of EveryTapTold that needs no fairness: idPwSignUp and          *)
(* performLogin drop no call silently, whatever becomes of it.              *)
THEOREM TapsAreKept == AppSpec => TapUntilTold
<1>1. TypeOK /\ AppInv /\ [AppNext]_appVars =>
         \A j \in Calls : call[j] # NoCall /\ call[j].heard =>
            StaysOut(j) \/ Told(call[j].kind, call[j].form)
  <2> SUFFICES ASSUME TypeOK, AppInv, [AppNext]_appVars,
                      NEW j \in Calls, call[j] # NoCall, call[j].heard
               PROVE  StaysOut(j) \/ Told(call[j].kind, call[j].form)
    OBVIOUS
  <2>1. CASE UNCHANGED appVars
    BY <2>1 DEF appVars, phone, StaysOut
  <2>2. ASSUME NEW k \in Calls, NEW w \in Workers,
               TakeRegister(w, k) \/ FinishRegister(w, k) \/ TakeLogin(w, k) \/ CrashUnder(w, k)
        PROVE  StaysOut(j)
    BY <2>2, ServerKeepsCalls
  <2>3. QED
    BY <2>1, <2>2, UserKeepsCalls, CompletionTells DEF AppNext
<1>2. TypeOK /\ AppInv /\ [AppNext]_appVars =>
         [\A k \in Calls, f \in Forms :
            /\ Out(k, "register", f) =>
                  \/ Out(k, "register", f)'
                  \/ alert' # NoAlert /\ alert'.form = f
                  \/ screen = "signUp" /\ screen' = "login"
                  \/ screen' = "splash"
            /\ Out(k, "login", f) =>
                  \/ Out(k, "login", f)'
                  \/ token' # NoToken /\ token'.form = f /\ screen' # "login"
                  \/ popup'
                  \/ screen' = "splash"
         ]_appVars
  BY <1>1 DEF Out, StaysOut, Told
<1>3. QED
  BY <1>2, AppInvariant, PhoneIsAClient, AccountsTypeInvariant, PTL DEF AppSpec, TapUntilTold
================================================================================
