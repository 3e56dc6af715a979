-------------------------------- MODULE SignUp --------------------------------
(***************************************************************************)
(* The first screens of the iOS client, OnBoardingScreenView (login) and   *)
(* IDPWSignUpView, in front of Accounts.  One phone is followed; Elsewhere *)
(* is every other client.                                                  *)
(*                                                                         *)
(* A tap sends a call and returns.  Neither button is disabled while a     *)
(* call is out, so several are, and their answers come in any order.  A    *)
(* call that is not answered fails: the connection breaks or URLSession    *)
(* gives up.  The server may still serve what the phone has given up on.   *)
(***************************************************************************)
EXTENDS Accounts

CONSTANTS Calls,  \* bound: the calls of this phone that can be out at once
          NoCall

(* code is 0 before the answer; user is the account a login was let into. *)
(* heard: the view that made the call is still there to be told.           *)
CallTypes == [kind: {"register", "login"}, form: Forms, heard: BOOLEAN,
              at: {"sent", "served", "answered", "cut"},
              code: {0, 200, 201, 400, 500}, user: Ids \cup {NoCall}]

ASSUME SignUpAssumption == NoCall \notin Calls \cup Ids \cup CallTypes

VARIABLES screen,  \* the view on top of the navigation stack
          alert,   \* what the alert of IDPWSignUpView says, and of which form
          popup,   \* LoginErrorPopupView is shown
          call,    \* the calls that are out
          serving, \* the call of this phone a worker is busy with
          token    \* UserDefaults "accessToken": whose it is; form is history

view == <<screen, alert, popup, token>>
phone == <<view, call, serving>>
appVars == <<vars, phone>>

NoAlert == [says |-> "nothing"]
Alerts == [says: {"success", "failure"}, form: Forms]
NoToken == [user |-> NoCall]

AppTypeOK ==
    /\ screen \in {"splash", "login", "signUp", "main"}
    /\ alert \in Alerts \cup {NoAlert}
    /\ popup \in BOOLEAN
    /\ call \in [Calls -> CallTypes \cup {NoCall}]
    /\ serving \in [Workers -> Calls \cup {NoCall}]
    /\ \A w \in Workers : serving[w] # NoCall => pc[w] = "checked"
    /\ token \in [user: Ids, form: Forms] \cup {NoToken}

AppInit ==
    /\ Init
    /\ screen = "splash" /\ alert = NoAlert /\ popup = FALSE
    /\ call = [k \in Calls |-> NoCall]
    /\ serving = [w \in Workers |-> NoCall]
    /\ token = NoToken

--------------------------------------------------------------------------------
(* The user.  The alert is modal and the popup covers the screen. *)

(* performLogin and idPwSignUp, up to the provider's request. *)
Tap(k, f) ==
    /\ call[k] = NoCall
    /\ alert = NoAlert /\ ~popup
    /\ \E kind \in {"register", "login"} :
          /\ screen = (IF kind = "login" THEN "login" ELSE "signUp")
          /\ call' = [call EXCEPT ![k] = [kind |-> kind, form |-> f, heard |-> TRUE,
                                          at |-> "sent", code |-> 0, user |-> NoCall]]
    /\ UNCHANGED <<vars, view, serving>>

ToSignUp ==
    /\ screen = "login" /\ ~popup
    /\ screen' = "signUp"
    /\ UNCHANGED <<vars, alert, popup, token, call, serving>>

(* The alert of a view that was left is shown by nobody. *)
Unheard(kinds) ==
    [k \in Calls |-> IF call[k] # NoCall /\ call[k].kind \in kinds
                     THEN [call[k] EXCEPT !.heard = FALSE] ELSE call[k]]

Cancel ==
    /\ screen = "signUp" /\ alert = NoAlert /\ ~popup
    /\ screen' = "login"
    /\ call' = Unheard({"register"})
    /\ UNCHANGED <<vars, alert, popup, token, serving>>

DismissAlert ==
    /\ alert # NoAlert
    /\ alert' = NoAlert
    /\ UNCHANGED <<vars, screen, popup, token, call, serving>>

DismissPopup ==
    /\ popup /\ alert = NoAlert
    /\ popup' = FALSE
    /\ UNCHANGED <<vars, screen, alert, token, call, serving>>

(* Every start of the app ends at the login, with a token or without. *)
SplashOver ==
    /\ screen = "splash"
    /\ screen' = "login"
    /\ UNCHANGED <<vars, alert, popup, token, call, serving>>

(* The app is killed and started again. *)
Relaunch ==
    /\ screen' = "splash" /\ alert' = NoAlert /\ popup' = FALSE
    /\ call' = [k \in Calls |-> NoCall]
    /\ serving' = [w \in Workers |-> NoCall]
    /\ UNCHANGED <<vars, token>>

--------------------------------------------------------------------------------
(* The server. *)

Replied(k, w, user) ==
    [call EXCEPT ![k].at = "answered", ![k].code = answer'[w], ![k].user = user]

(* A worker takes a register, and refuses it or goes on to the INSERT. *)
TakeRegister(w, k) ==
    /\ serving[w] = NoCall
    /\ call[k] # NoCall /\ call[k].at = "sent" /\ call[k].kind = "register"
    /\ SelectForRegister(w, call[k].form)
    /\ IF pc'[w] = "checked"
       THEN /\ serving' = [serving EXCEPT ![w] = k]
            /\ call' = [call EXCEPT ![k].at = "served"]
       ELSE /\ call' = Replied(k, w, NoCall)
            /\ UNCHANGED serving
    /\ UNCHANGED view

FinishRegister(w, k) ==
    /\ serving[w] = k /\ call[k] # NoCall
    /\ InsertUser(w)
    /\ call' = Replied(k, w, NoCall)
    /\ serving' = [serving EXCEPT ![w] = NoCall]
    /\ UNCHANGED view

(* The tokens of a login answered 200 are those of the row it matched. *)
TakeLogin(w, k) ==
    /\ serving[w] = NoCall
    /\ call[k] # NoCall /\ call[k].at = "sent" /\ call[k].kind = "login"
    /\ Login(w, call[k].form)
    /\ \E u \in Ids \cup {NoCall} :
          /\ IF answer'[w] = 200
             THEN \E r \in users : /\ r.id = u /\ Same(r.email, call[k].form.email)
                                   /\ r.password = call[k].form.password
             ELSE u = NoCall
          /\ call' = Replied(k, w, u)
    /\ UNCHANGED <<view, serving>>

(* Mutant: the dead worker stays busy with the call. *)
CrashUnder_KeepsServing(w, k) ==
    /\ serving[w] = k /\ call[k] # NoCall
    /\ Crash(w)
    /\ call' = [call EXCEPT ![k].at = "cut"]
    /\ UNCHANGED <<view, serving>>

(* The worker dies under the call, which the phone sees as a reset. *)
CrashUnder(w, k) ==
    /\ serving[w] = k /\ call[k] # NoCall
    /\ Crash(w)
    /\ call' = [call EXCEPT ![k].at = "cut"]
    /\ serving' = [serving EXCEPT ![w] = NoCall]
    /\ UNCHANGED view

(* Whatever other clients do, a call the phone has given up on included. *)
Elsewhere ==
    /\ Tick \/ \E w \in Workers : serving[w] = NoCall /\ Serve(w)
    /\ UNCHANGED phone

--------------------------------------------------------------------------------
(* The completions. *)

(* Mutant: a bare 500 counts as a success, too. *)
Decodes_Any(code) == code # 0

(* A register is answered with a JSON body unless close_session failed,   *)
(* which makes a 500 with none; whatever decodes counts as success.        *)
Decodes(code) == code \in {201, 400}

Ended(k) ==
    /\ call' = [call EXCEPT ![k] = NoCall]
    /\ serving' = [w \in Workers |-> IF serving[w] = k THEN NoCall ELSE serving[w]]
    /\ UNCHANGED vars

ShowAlert(k, says) ==
    alert' = IF call[k].heard THEN [says |-> says, form |-> call[k].form] ELSE alert

(* Mutant: an answer that does not decode is dropped, as other calls do. *)
SignUpDone_NoCatch(k) ==
    /\ call[k] # NoCall /\ call[k].kind = "register" /\ call[k].at = "answered"
    /\ IF Decodes(call[k].code) THEN ShowAlert(k, "success") ELSE UNCHANGED alert
    /\ Ended(k)
    /\ UNCHANGED <<screen, popup, token>>

SignUpDone(k) ==
    /\ call[k] # NoCall /\ call[k].kind = "register" /\ call[k].at = "answered"
    /\ ShowAlert(k, IF Decodes(call[k].code) THEN "success" ELSE "failure")
    /\ Ended(k)
    /\ UNCHANGED <<screen, popup, token>>

SignUpFailed(k) ==
    /\ call[k] # NoCall /\ call[k].kind = "register"
    /\ ShowAlert(k, "failure")
    /\ Ended(k)
    /\ UNCHANGED <<screen, popup, token>>

(* Mutant: whatever the login was answered counts. *)
LoginDone_AnyStatus(k) ==
    /\ call[k] # NoCall /\ call[k].kind = "login" /\ call[k].at = "answered"
    /\ token' = [user |-> call[k].user, form |-> call[k].form]
    /\ screen' = "main" /\ alert' = NoAlert
    /\ Ended(k)
    /\ UNCHANGED popup

(* The token is stored before the screen changes.  If the user has gone on *)
(* to the sign-up, two links of one stack are active, and either shows.    *)
LoginDone(k) ==
    /\ call[k] # NoCall /\ call[k].kind = "login"
    /\ call[k].at = "answered" /\ call[k].code = 200
    /\ token' = [user |-> call[k].user, form |-> call[k].form]
    /\ \/ screen' = "main" /\ alert' = NoAlert
       \/ screen = "signUp" /\ UNCHANGED <<screen, alert>>
    /\ Ended(k)
    /\ UNCHANGED popup

LoginFailed(k) ==
    /\ call[k] # NoCall /\ call[k].kind = "login"
    /\ popup' = TRUE
    /\ Ended(k)
    /\ UNCHANGED <<screen, alert, token>>

Complete(k) == SignUpDone(k) \/ SignUpFailed(k) \/ LoginDone(k) \/ LoginFailed(k)

AppNext ==
    \/ SplashOver \/ ToSignUp \/ Cancel \/ DismissAlert \/ DismissPopup
    \/ Relaunch \/ Elsewhere
    \/ \E k \in Calls :
          \/ \E f \in Forms : Tap(k, f)
          \/ Complete(k)
          \/ \E w \in Workers : \/ TakeRegister(w, k) \/ FinishRegister(w, k)
                                \/ TakeLogin(w, k) \/ CrashUnder(w, k)

AppSpec == AppInit /\ [][AppNext]_appVars
FairAppSpec == AppSpec /\ \A k \in Calls : WF_appVars(Complete(k))

--------------------------------------------------------------------------------
(* A success alert need not mean what it says, but it means this: if the  *)
(* email is one that can be registered, an account with it exists.  So a   *)
(* sign-up repeated after a lost answer, and refused because the first one *)
(* was stored, is rightly reported; a failure of the INSERT never is.      *)
SuccessMeansTaken ==
    alert.says = "success" /\ alert.form.email \in Registrable => Taken(alert.form.email)

(* Whoever sees the main tabs holds a token of an account that exists and *)
(* has the email and the password of the login it came from, whatever      *)
(* overtakes what, and though nothing ever takes the token away again.     *)
EnteredAsOneself ==
    screen = "main" =>
        \E u \in users : /\ u.id = token.user
                         /\ Same(u.email, token.form.email)
                         /\ u.password = token.form.password

(* Every tap is told of: a sign-up by an alert, a login by the main tabs or *)
(* the popup, unless the user leaves the screen or the app first.          *)
Out(k, kind, f) == call[k] # NoCall /\ call[k].heard /\ call[k].kind = kind /\ call[k].form = f
EveryTapTold ==
    \A k \in Calls, f \in Forms :
        /\ Out(k, "register", f) ~> (screen # "signUp" \/ (alert # NoAlert /\ alert.form = f))
        /\ Out(k, "login", f) ~> (screen # "login" \/ popup)

(* No step drops a tap: a call that is out stays out, as it was asked for, *)
(* until an alert with its form, a popup, or a token of its login; or until *)
(* the user leaves, by Cancel or with the app.  A call that breaks, or is   *)
(* answered late, refused or overtaken by the other call, is no exception.  *)
TapUntilTold ==
    [][\A k \in Calls, f \in Forms :
          /\ Out(k, "register", f) =>
                \/ Out(k, "register", f)'
                \/ alert' # NoAlert /\ alert'.form = f
                \/ screen = "signUp" /\ screen' = "login"
                \/ screen' = "splash"
          /\ Out(k, "login", f) =>
                \/ Out(k, "login", f)'
                \/ token' # NoToken /\ token'.form = f /\ screen' # "login"
                \/ popup'
                \/ screen' = "splash"
      ]_appVars

(* A success alert means the account is there: its text says so. *)
SuccessMeansAccount ==
    alert.says = "success" =>
        \E u \in users : Same(u.email, alert.form.email) /\ u.password = alert.form.password
================================================================================
