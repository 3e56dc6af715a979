------------------------------- MODULE Accounts -------------------------------
(***************************************************************************)
(* Accounts and tokens: the handlers of routes/auth.py, the AuthService    *)
(* they call, the rows of users, the tokens jwt.py signs, and the check    *)
(* token_required makes before every route that needs a user.              *)
(*                                                                         *)
(* register looks the email up in one step and inserts the row in another, *)
(* so two workers may register one email at a time.  Its handler catches   *)
(* the failed INSERT, which leaves the worker with a broken session (see   *)
(* RequestSession): until another route repairs it by failing, or the      *)
(* process dies, the worker answers 500.  Nothing deletes a user, and      *)
(* nothing revokes a token.                                                *)
(***************************************************************************)
EXTENDS Integers, FiniteSets

CONSTANTS Emails, Passwords, Workers,
          Fold,        \* what the collation of users.email compares: no case, no accents
          Registrable, \* the emails that are well-formed, of the domain of a company
          Ids,         \* the ids AUTO_INCREMENT can hand out
          AccessLife, RefreshLife,  \* in days, 30 and 30
          NoForm,
          LastDay      \* bound: the clock stops here

ASSUME AccountsAssumption ==
    /\ Fold \in [Emails -> Emails]
    /\ Registrable \subseteq Emails
    /\ AccessLife \in Nat \ {0} /\ RefreshLife \in Nat \ {0}
    /\ LastDay \in Nat
    /\ NoForm \notin [email: Emails, password: Passwords]

VARIABLES users,   \* the rows of users; bcrypt matches one password
          issued,  \* the tokens clients were given
          today,   \* the clock of the server
          pc,      \* "checked": register found the email free
          form,    \* what that register was asked for
          answer,  \* HTTP status of the worker's last answer, 0 for none
          broken,  \* the worker's session awaits a rollback
          told     \* history: the registrations answered 201

vars == <<users, issued, today, pc, form, answer, broken, told>>

Forms == [email: Emails, password: Passwords]
Rows == [id: Ids, email: Emails, password: Passwords]

(* login is history: the day of the login the token goes back to. *)
Tokens == [user: Ids, type: {"access", "refresh"}, exp: Nat, login: Nat]

(* Every token names a user, and no two rows have one id. *)
RowTypes ==
    /\ users \in SUBSET Rows
    /\ \A u, v \in users : u.id = v.id => u = v
    /\ issued \in SUBSET Tokens
    /\ \A t \in issued : \E u \in users : u.id = t.user
    /\ told \in SUBSET Forms
WorkerTypes ==
    /\ today \in 0..LastDay
    /\ pc \in [Workers -> {"idle", "checked"}]
    /\ form \in [Workers -> Forms \cup {NoForm}]
    /\ \A w \in Workers : pc[w] = "checked" <=> form[w] # NoForm
    /\ answer \in [Workers -> {0, 200, 201, 400, 401, 500}]
    /\ broken \in [Workers -> BOOLEAN]
(* Types, and no token outlives the row it names. *)
TypeOK == RowTypes /\ WorkerTypes

Init ==
    /\ users = {} /\ issued = {} /\ today = 0
    /\ pc = [w \in Workers |-> "idle"]
    /\ form = [w \in Workers |-> NoForm]
    /\ answer = [w \in Workers |-> 0]
    /\ broken = [w \in Workers |-> FALSE]
    /\ told = {}

--------------------------------------------------------------------------------
Same(e, f) == Fold[e] = Fold[f]
Taken(e) == \E u \in users : Same(u.email, e)

(* PyJWT refuses a token from the moment of its exp on. *)
Valid(t) == today < t.exp

Token(user, type, life, login) ==
    [user |-> user, type |-> type, exp |-> today + life, login |-> login]

(* close_session cannot commit a broken session: whatever the route says, *)
(* the client gets a bare 500.                                             *)
Reply(w, code) ==
    /\ answer' = [answer EXCEPT ![w] = IF broken[w] THEN 500 ELSE code]
    /\ pc' = [pc EXCEPT ![w] = "idle"]
    /\ form' = [form EXCEPT ![w] = NoForm]
    /\ UNCHANGED today

(* POST /auth/register, up to the row: the SELECTs of company and email. *)
SelectForRegister(w, f) ==
    /\ pc[w] = "idle"
    /\ IF ~broken[w] /\ f.email \in Registrable /\ ~Taken(f.email)
       THEN /\ pc' = [pc EXCEPT ![w] = "checked"]
            /\ form' = [form EXCEPT ![w] = f]
            /\ answer' = [answer EXCEPT ![w] = 0]
            /\ UNCHANGED today
       ELSE Reply(w, 400)
    /\ UNCHANGED <<users, issued, broken, told>>

(* Mutants: users without its unique key, and REPLACE INTO users, which    *)
(* drops the row that holds the email.                                     *)
InsertUser_NoUniqueKey(w) ==
    /\ pc[w] = "checked"
    /\ \E i \in Ids \ {u.id : u \in users} :
          users' = users \cup {[id |-> i, email |-> form[w].email,
                                password |-> form[w].password]}
    /\ told' = told \cup {form[w]}
    /\ Reply(w, 201)
    /\ UNCHANGED <<issued, broken>>
InsertUser_Replaces(w) ==
    /\ pc[w] = "checked"
    /\ \E i \in Ids \ {u.id : u \in users} :
          users' = {u \in users : ~Same(u.email, form[w].email)}
                       \cup {[id |-> i, email |-> form[w].email,
                              password |-> form[w].password]}
    /\ told' = told \cup {form[w]}
    /\ Reply(w, 201)
    /\ UNCHANGED <<issued, broken>>

(* INSERT INTO users and COMMIT.  The unique key refuses an email that was *)
(* registered since, the columns refuse what is too long; the handler      *)
(* catches either.                                                         *)
InsertUser(w) ==
    /\ pc[w] = "checked"
    /\ \/ /\ ~Taken(form[w].email)
          /\ \E i \in Ids \ {u.id : u \in users} :
                users' = users \cup {[id |-> i, email |-> form[w].email,
                                      password |-> form[w].password]}
          /\ told' = told \cup {form[w]}
          /\ Reply(w, 201)
          /\ UNCHANGED broken
       \/ /\ Reply(w, 500)
          /\ broken' = [broken EXCEPT ![w] = TRUE]
          /\ UNCHANGED <<users, told>>
    /\ UNCHANGED issued

(* POST /auth/login *)
Login(w, f) ==
    /\ pc[w] = "idle"
    /\ \/ \E u \in users :
             /\ ~broken[w] /\ Same(u.email, f.email) /\ u.password = f.password
             /\ issued' = issued \cup {Token(u.id, "access", AccessLife, today),
                                       Token(u.id, "refresh", RefreshLife, today)}
             /\ Reply(w, 200)
       \/ /\ broken[w] \/ ~\E u \in users : Same(u.email, f.email) /\ u.password = f.password
          /\ Reply(w, 400) /\ UNCHANGED issued
    /\ UNCHANGED <<users, broken, told>>

(* Mutant: refresh takes any token that has not expired. *)
Refresh_AnyToken(w, t) ==
    /\ pc[w] = "idle"
    /\ IF ~broken[w] /\ Valid(t)
       THEN issued' = issued \cup {Token(t.user, "access", AccessLife, t.login)} /\ Reply(w, 200)
       ELSE Reply(w, 401) /\ UNCHANGED issued
    /\ UNCHANGED <<users, broken, told>>

(* POST /auth/refresh: a new access token; the refresh token stays.  What *)
(* a worker with a broken session makes is lost with its answer.           *)
Refresh(w, t) ==
    /\ pc[w] = "idle"
    /\ IF ~broken[w] /\ Valid(t) /\ t.type = "refresh"
       THEN issued' = issued \cup {Token(t.user, "access", AccessLife, t.login)} /\ Reply(w, 200)
       ELSE Reply(w, 401) /\ UNCHANGED issued
    /\ UNCHANGED <<users, broken, told>>

(* A route behind token_required, which takes tokens of both types.  It   *)
(* may refuse the request before it reaches the database, or reach it; if  *)
(* the session is broken it then fails, nothing catches the error, and     *)
(* close_session rolls back.                                               *)
UseToken(w, t) ==
    /\ pc[w] = "idle"
    /\ \/ ~Valid(t) /\ Reply(w, 401) /\ UNCHANGED broken
       \/ Valid(t) /\ Reply(w, 400) /\ UNCHANGED broken
       \/ Valid(t) /\ Reply(w, 200) /\ broken' = [broken EXCEPT ![w] = FALSE]
    /\ UNCHANGED <<users, issued, told>>

(* The lists that need no token reach the database in the same way. *)
ReadPublic(w) ==
    /\ pc[w] = "idle"
    /\ Reply(w, 200)
    /\ broken' = [broken EXCEPT ![w] = FALSE]
    /\ UNCHANGED <<users, issued, told>>

(* The worker process dies; the next one starts with no session. *)
Crash(w) ==
    /\ pc[w] # "idle" \/ broken[w]
    /\ pc' = [pc EXCEPT ![w] = "idle"]
    /\ form' = [form EXCEPT ![w] = NoForm]
    /\ answer' = [answer EXCEPT ![w] = 0]
    /\ broken' = [broken EXCEPT ![w] = FALSE]
    /\ UNCHANGED <<users, issued, today, told>>

Tick ==
    /\ today < LastDay
    /\ today' = today + 1
    /\ UNCHANGED <<users, issued, pc, form, answer, broken, told>>

(* One step of a worker, whatever its client asks for. *)
Serve(w) ==
    \/ \E f \in Forms : SelectForRegister(w, f) \/ Login(w, f)
    \/ InsertUser(w) \/ ReadPublic(w)
    \/ \E t \in issued : Refresh(w, t) \/ UseToken(w, t)
    \/ Crash(w)

Next == (\E w \in Workers : Serve(w)) \/ Tick

Spec == Init /\ [][Next]_vars

--------------------------------------------------------------------------------
(* An email, in whatever case it is written, has one account, also when   *)
(* several workers register it at once.                                    *)
OneAccountPerEmail == \A u, v \in users : Same(u.email, v.email) => u = v

(* Whoever was told 201 has an account with the password they chose, and  *)
(* keeps it: no later or simultaneous register of the email replaces it.   *)
ToldCanLogIn ==
    \A f \in told : \E u \in users : u.email = f.email /\ u.password = f.password

(* However the tokens of a login are refreshed, used and refreshed again, *)
(* none lets its bearer in once the lives of a refresh token and an access *)
(* token have passed since that login.                                     *)
LoginWearsOff ==
    \A t \in issued : Valid(t) => today < t.login + RefreshLife + AccessLife

(* The look-up and the INSERT of register, which other workers may come   *)
(* between, amount to one registration; every token goes back to a login   *)
(* to an account there was on that day; refreshes, broken sessions and     *)
(* dead workers are none of either.                                        *)
LoginsOf(u) == {[key |-> Fold[u.email], day |-> t.login] : t \in {i \in issued : i.user = u.id}}
Registry == INSTANCE AccountRegistry WITH
    Keys <- {Fold[e] : e \in Registrable},
    accounts <- {[key |-> Fold[u.email], password |-> u.password] : u \in users},
    logins <- UNION {LoginsOf(u) : u \in users}
ImplementsRegistry == Registry!Spec
================================================================================
