---------------------------- MODULE AccountsProofs ----------------------------
(***************************************************************************)
(* Proofs about Accounts, for any emails, passwords, workers and lives of  *)
(* tokens: its type invariant, one account per email, registrations that   *)
(* last, and the bound on what a login can be stretched to.                *)
(***************************************************************************)
EXTENDS Accounts, TLAPS

(* The row a register adds: a new id, and the email and password asked for. *)
Row(i, f) == [id |-> i, email |-> f.email, password |-> f.password]

(* A reply leaves the worker idle, with an answer of the six. *)
LEMMA ReplyTypes ==
    ASSUME WorkerTypes, NEW w \in Workers, NEW code \in {200, 201, 400, 401, 500},
           Reply(w, code), broken' \in [Workers -> BOOLEAN]
    PROVE  WorkerTypes'
<1>1. (IF broken[w] THEN 500 ELSE code) \in {0, 200, 201, 400, 401, 500}
  OBVIOUS
<1>2. answer' \in [Workers -> {0, 200, 201, 400, 401, 500}]
  BY <1>1 DEF WorkerTypes, Reply
<1>3. /\ pc' \in [Workers -> {"idle", "checked"}]
      /\ form' \in [Workers -> Forms \cup {NoForm}]
  BY DEF WorkerTypes, Reply
<1>4. ASSUME NEW v \in Workers PROVE pc'[v] = "checked" <=> form'[v] # NoForm
  <2>1. CASE v = w
    BY <2>1 DEF WorkerTypes, Reply
  <2>2. CASE v # w
    BY <2>2 DEF WorkerTypes, Reply
  <2>3. QED
    BY <2>1, <2>2
<1>5. QED
  BY <1>2, <1>3, <1>4 DEF WorkerTypes, Reply

(* A form is of a worker that has checked it. *)
LEMMA FormChecked ==
    ASSUME TypeOK, NEW w \in Workers, pc[w] = "checked"
    PROVE  form[w] \in Forms
BY DEF TypeOK, WorkerTypes

(* Rows come one at a time, each under an email that had none. *)
LEMMA UsersStep ==
    ASSUME TypeOK, [Next]_vars
    PROVE  \/ users' = users /\ told' = told
           \/ \E w \in Workers, i \in Ids \ {u.id : u \in users} :
                 /\ form[w] \in Forms /\ ~Taken(form[w].email)
                 /\ users' = users \cup {Row(i, form[w])}
                 /\ told' = told \cup {form[w]}
<1>1. CASE \E w \in Workers : InsertUser(w)
  BY <1>1, FormChecked DEF InsertUser, Row
<1>2. CASE ~\E w \in Workers : InsertUser(w)
  BY <1>2 DEF Next, Serve, vars, SelectForRegister, Login, ReadPublic, Refresh, UseToken,
              Crash, Tick
<1>3. QED
  BY <1>1, <1>2

(* Tokens are added by login and refresh, to users that exist. *)
LEMMA IssuedStep ==
    ASSUME TypeOK, [Next]_vars
    PROVE  \/ issued' = issued
           \/ /\ users' = users /\ today' = today
              /\ \/ \E u \in users :
                       issued' = issued \cup {Token(u.id, "access", AccessLife, today),
                                              Token(u.id, "refresh", RefreshLife, today)}
                 \/ \E t \in issued :
                       /\ Valid(t) /\ t.type = "refresh"
                       /\ issued' = issued \cup {Token(t.user, "access", AccessLife, t.login)}
<1>1. CASE \E w \in Workers, f \in Forms : Login(w, f)
  BY <1>1 DEF Login, Reply
<1>2. CASE \E w \in Workers, t \in issued : Refresh(w, t)
  BY <1>2 DEF Refresh, Reply
<1>3. CASE \/ \E w \in Workers, f \in Forms : SelectForRegister(w, f)
           \/ \E w \in Workers : InsertUser(w) \/ ReadPublic(w) \/ Crash(w)
           \/ \E w \in Workers, t \in issued : UseToken(w, t)
           \/ Tick
           \/ UNCHANGED vars
  BY <1>3 DEF SelectForRegister, InsertUser, ReadPublic, Crash, UseToken, Tick, vars
<1>4. QED
  BY <1>1, <1>2, <1>3 DEF Next, Serve

(* Every step keeps the workers and the clock within their types. *)
LEMMA WorkerStep == TypeOK /\ [Next]_vars => WorkerTypes'
<1> SUFFICES ASSUME TypeOK, [Next]_vars PROVE WorkerTypes'
  OBVIOUS
<1>0. WorkerTypes
  BY DEF TypeOK
<1>b. broken \in [Workers -> BOOLEAN]
  BY <1>0 DEF WorkerTypes
<1>1. ASSUME NEW w \in Workers, NEW f \in Forms, SelectForRegister(w, f)
      PROVE  WorkerTypes'
  <2>1. CASE Reply(w, 400)
    BY <1>0, <1>b, <1>1, <2>1, ReplyTypes DEF SelectForRegister
  <2>2. CASE ~Reply(w, 400)
    BY <1>0, <1>1, <2>2, AccountsAssumption DEF SelectForRegister, WorkerTypes, Forms
  <2>3. QED
    BY <2>1, <2>2
<1>2. ASSUME NEW w \in Workers, InsertUser(w)
      PROVE  WorkerTypes'
  <2>1. broken' \in [Workers -> BOOLEAN]
    BY <1>b, <1>2 DEF InsertUser
  <2>2. Reply(w, 201) \/ Reply(w, 500)
    BY <1>2 DEF InsertUser
  <2>3. QED
    BY <1>0, <2>1, <2>2, ReplyTypes
<1>3. ASSUME NEW w \in Workers, NEW f \in Forms, Login(w, f)
      PROVE  WorkerTypes'
  BY <1>0, <1>b, <1>3, ReplyTypes DEF Login
<1>4. ASSUME NEW w \in Workers, NEW t \in issued, Refresh(w, t) \/ UseToken(w, t)
      PROVE  WorkerTypes'
  <2>1. broken' \in [Workers -> BOOLEAN]
    BY <1>b, <1>4 DEF Refresh, UseToken
  <2>2. Reply(w, 200) \/ Reply(w, 400) \/ Reply(w, 401)
    BY <1>4 DEF Refresh, UseToken
  <2>3. QED
    BY <1>0, <2>1, <2>2, ReplyTypes
<1>5. ASSUME NEW w \in Workers, ReadPublic(w)
      PROVE  WorkerTypes'
  BY <1>0, <1>b, <1>5, ReplyTypes DEF ReadPublic
<1>6. ASSUME NEW w \in Workers, Crash(w)
      PROVE  WorkerTypes'
  BY <1>0, <1>6 DEF Crash, WorkerTypes
<1>7. CASE Tick
  BY <1>0, <1>7, AccountsAssumption DEF Tick, WorkerTypes
<1>8. CASE UNCHANGED vars
  BY <1>0, <1>8 DEF vars, WorkerTypes
<1>9. QED
  BY <1>1, <1>2, <1>3, <1>4, <1>5, <1>6, <1>7, <1>8 DEF Next, Serve

(* A token made today is a token. *)
LEMMA TokenTypes ==
    ASSUME TypeOK, NEW i \in Ids, NEW type \in {"access", "refresh"},
           NEW life \in Nat, NEW login \in Nat
    PROVE  Token(i, type, life, login) \in Tokens /\ today \in Nat
BY AccountsAssumption DEF TypeOK, WorkerTypes, Token, Tokens

(* Every step keeps the rows and the tokens well-formed. *)
LEMMA RowStep == TypeOK /\ [Next]_vars => RowTypes'
<1> SUFFICES ASSUME TypeOK, [Next]_vars PROVE RowTypes'
  OBVIOUS
<1>0. RowTypes
  BY DEF TypeOK
<1>1. /\ users' \in SUBSET Rows
      /\ \A u, v \in users' : u.id = v.id => u = v
      /\ told' \in SUBSET Forms
      /\ \A u \in users : u \in users'
  <2>1. CASE users' = users /\ told' = told
    BY <1>0, <2>1 DEF RowTypes
  <2>2. ASSUME NEW w \in Workers, NEW i \in Ids \ {u.id : u \in users},
               form[w] \in Forms,
               users' = users \cup {Row(i, form[w])},
               told' = told \cup {form[w]}
        PROVE  <1>1!:
    <3>1. Row(i, form[w]) \in Rows /\ Row(i, form[w]).id = i
      BY <2>2 DEF Row, Rows, Forms
    <3>2. \A u \in users : u.id # i
      OBVIOUS
    <3>3. QED
      BY <1>0, <2>2, <3>1, <3>2 DEF RowTypes
  <2>3. QED
    BY <2>1, <2>2, UsersStep
<1>2. issued' \in SUBSET Tokens /\ \A t \in issued' : \E u \in users' : u.id = t.user
  <2>1. CASE issued' = issued
    BY <1>0, <1>1, <2>1 DEF RowTypes
  <2>2. ASSUME NEW u \in users,
               issued' = issued \cup {Token(u.id, "access", AccessLife, today),
                                      Token(u.id, "refresh", RefreshLife, today)}
        PROVE  <1>2!:
    <3>1. u.id \in Ids /\ today \in Nat
      BY <1>0, AccountsAssumption DEF RowTypes, Rows, TypeOK, WorkerTypes
    <3>2. /\ Token(u.id, "access", AccessLife, today) \in Tokens
          /\ Token(u.id, "refresh", RefreshLife, today) \in Tokens
      BY <3>1, TokenTypes, AccountsAssumption
    <3>3. /\ Token(u.id, "access", AccessLife, today).user = u.id
          /\ Token(u.id, "refresh", RefreshLife, today).user = u.id
      BY DEF Token
    <3>4. QED
      BY <1>0, <1>1, <2>2, <3>2, <3>3 DEF RowTypes
  <2>3. ASSUME NEW t \in issued,
               issued' = issued \cup {Token(t.user, "access", AccessLife, t.login)}
        PROVE  <1>2!:
    <3>1. t.user \in Ids /\ t.login \in Nat
      BY <1>0 DEF RowTypes, Tokens
    <3>2. Token(t.user, "access", AccessLife, t.login) \in Tokens
      BY <3>1, TokenTypes, AccountsAssumption
    <3>3. Token(t.user, "access", AccessLife, t.login).user = t.user
      BY DEF Token
    <3>4. QED
      BY <1>0, <1>1, <2>3, <3>2, <3>3 DEF RowTypes
  <2>4. QED
    BY <2>1, <2>2, <2>3, IssuedStep
<1>3. QED
  BY <1>1, <1>2 DEF RowTypes

(* The types of users, tokens and workers hold throughout: login, refresh *)
(* and register never make a row or a token out of range.                  *)
THEOREM AccountsTypeInvariant == Spec => []TypeOK
<1>1. Init => TypeOK
  BY AccountsAssumption DEF Init, TypeOK, RowTypes, WorkerTypes, Forms
<1>2. TypeOK /\ [Next]_vars => TypeOK'
  BY WorkerStep, RowStep DEF TypeOK
<1>3. QED
  BY <1>1, <1>2, PTL DEF Spec

(* register and the unique key of users keep one account per email, with  *)
(* any number of workers registering it at once.                           *)
THEOREM UniqueAccounts == Spec => []OneAccountPerEmail
<1>1. Init => OneAccountPerEmail
  BY DEF Init, OneAccountPerEmail
<1>2. TypeOK /\ OneAccountPerEmail /\ [Next]_vars => OneAccountPerEmail'
  <2> SUFFICES ASSUME TypeOK, OneAccountPerEmail, [Next]_vars
               PROVE  OneAccountPerEmail'
    OBVIOUS
  <2>1. CASE users' = users
    BY <2>1 DEF OneAccountPerEmail, Same
  <2>2. ASSUME NEW w \in Workers, NEW i \in Ids,
               ~Taken(form[w].email), users' = users \cup {Row(i, form[w])}
        PROVE  OneAccountPerEmail'
    <3>1. Row(i, form[w]).email = form[w].email
      BY DEF Row
    <3>2. \A u \in users : Fold[u.email] # Fold[form[w].email]
      BY <2>2 DEF Taken, Same
    <3>3. QED
      BY <2>2, <3>1, <3>2 DEF OneAccountPerEmail, Same
  <2>3. QED
    BY <2>1, <2>2, UsersStep
<1>3. QED
  BY <1>1, <1>2, AccountsTypeInvariant, PTL DEF Spec

(* No step takes back an account that register has confirmed with a 201. *)
THEOREM RegistrationsLast == Spec => []ToldCanLogIn
<1>1. Init => ToldCanLogIn
  BY DEF Init, ToldCanLogIn
<1>2. TypeOK /\ ToldCanLogIn /\ [Next]_vars => ToldCanLogIn'
  <2> SUFFICES ASSUME TypeOK, ToldCanLogIn, [Next]_vars
               PROVE  ToldCanLogIn'
    OBVIOUS
  <2>1. CASE users' = users /\ told' = told
    BY <2>1 DEF ToldCanLogIn
  <2>2. ASSUME NEW w \in Workers, NEW i \in Ids,
               users' = users \cup {Row(i, form[w])}, told' = told \cup {form[w]}
        PROVE  ToldCanLogIn'
    <3>1. /\ Row(i, form[w]).email = form[w].email
          /\ Row(i, form[w]).password = form[w].password
      BY DEF Row
    <3>2. QED
      BY <2>2, <3>1 DEF ToldCanLogIn
  <2>3. QED
    BY <2>1, <2>2, UsersStep
<1>3. QED
  BY <1>1, <1>2, AccountsTypeInvariant, PTL DEF Spec

(* A refresh token expires with the life it got at the login, any token    *)
(* with one access life more.                                              *)
ExpiryBounded ==
    \A t \in issued :
        /\ t.type = "refresh" => t.exp <= t.login + RefreshLife
        /\ t.exp <= t.login + RefreshLife + AccessLife

LEMMA ExpiryStep == TypeOK /\ ExpiryBounded /\ [Next]_vars => ExpiryBounded'
<1> SUFFICES ASSUME TypeOK, ExpiryBounded, [Next]_vars
             PROVE  ExpiryBounded'
  OBVIOUS
<1>0. today \in Nat /\ issued \in SUBSET Tokens
  BY AccountsAssumption DEF TypeOK, RowTypes, WorkerTypes
<1>1. CASE issued' = issued
  BY <1>1 DEF ExpiryBounded
<1>2. ASSUME NEW u \in users,
             issued' = issued \cup {Token(u.id, "access", AccessLife, today),
                                    Token(u.id, "refresh", RefreshLife, today)}
      PROVE  ExpiryBounded'
  BY <1>0, <1>2, AccountsAssumption DEF ExpiryBounded, Token
<1>3. ASSUME NEW t \in issued, Valid(t), t.type = "refresh",
             issued' = issued \cup {Token(t.user, "access", AccessLife, t.login)}
      PROVE  ExpiryBounded'
  <2>1. t.exp \in Nat /\ t.login \in Nat /\ t.exp <= t.login + RefreshLife
    BY <1>0, <1>3 DEF Tokens, ExpiryBounded
  <2>2. today + AccessLife <= t.login + RefreshLife + AccessLife
    BY <1>0, <1>3, <2>1, AccountsAssumption DEF Valid
  <2>3. LET n == Token(t.user, "access", AccessLife, t.login)
        IN  n.type = "access" /\ n.exp = today + AccessLife /\ n.login = t.login
    BY DEF Token
  <2>4. QED
    BY <1>3, <2>2, <2>3 DEF ExpiryBounded
<1>4. QED
  BY <1>1, <1>2, <1>3, IssuedStep

(* However tokens are refreshed, a login lets nobody in after the lives of *)
(* a refresh and an access token.                                          *)
THEOREM LoginsWearOff == Spec => []LoginWearsOff
<1>1. Init => ExpiryBounded
  BY DEF Init, ExpiryBounded
<1>2. TypeOK /\ ExpiryBounded => LoginWearsOff
  <2> SUFFICES ASSUME TypeOK, ExpiryBounded, NEW t \in issued, Valid(t)
               PROVE  today < t.login + RefreshLife + AccessLife
    BY DEF LoginWearsOff
  <2>1. today \in Nat /\ t.exp \in Nat /\ t.login \in Nat
    BY AccountsAssumption DEF TypeOK, RowTypes, WorkerTypes, Tokens
  <2>2. QED
    BY <2>1, AccountsAssumption DEF ExpiryBounded, Valid
<1>3. QED
  BY <1>1, <1>2, ExpiryStep, AccountsTypeInvariant, PTL DEF Spec

--------------------------------------------------------------------------------
(* The registry, as the rows and tokens show it. *)
Shown == {[key |-> Fold[u.email], password |-> u.password] : u \in users}
Entered == UNION {LoginsOf(u) : u \in users}

LEMMA EnteredBy ==
    ASSUME NEW x
    PROVE  x \in Entered <=>
               \E u \in users, t \in issued :
                  t.user = u.id /\ x = [key |-> Fold[u.email], day |-> t.login]
BY DEF Entered, LoginsOf

LEMMA EnteredByNext ==
    ASSUME NEW x
    PROVE  x \in Entered' <=>
               \E u \in users', t \in issued' :
                  t.user = u.id /\ x = [key |-> Fold[u.email], day |-> t.login]
BY DEF Entered, LoginsOf

(* A register that went on to its INSERT asked for an email a company has. *)
CheckedRegistrable == \A w \in Workers : pc[w] = "checked" => form[w].email \in Registrable

LEMMA CheckedStep == TypeOK /\ CheckedRegistrable /\ [Next]_vars => CheckedRegistrable'
<1> SUFFICES ASSUME TypeOK, CheckedRegistrable, [Next]_vars
             PROVE  CheckedRegistrable'
  OBVIOUS
<1> USE DEF CheckedRegistrable, TypeOK, WorkerTypes
<1>1. ASSUME NEW w \in Workers, NEW code, Reply(w, code)
      PROVE  CheckedRegistrable'
  BY <1>1 DEF Reply
<1>2. ASSUME NEW w \in Workers, NEW f \in Forms, SelectForRegister(w, f)
      PROVE  CheckedRegistrable'
  BY <1>1, <1>2 DEF SelectForRegister
<1>3. ASSUME NEW w \in Workers, Crash(w)
      PROVE  CheckedRegistrable'
  BY <1>3 DEF Crash
<1>4. CASE UNCHANGED <<pc, form>>
  BY <1>4
<1>5. QED
  BY <1>1, <1>2, <1>3, <1>4
     DEF Next, Serve, Login, InsertUser, ReadPublic, Refresh, UseToken, Tick, vars

(* The one step of register that counts: a row under a key that had none; *)
(* no token names its id yet.                                              *)
LEMMA RegisterStep ==
    ASSUME TypeOK, CheckedRegistrable, NEW w \in Workers, InsertUser(w), users' # users
    PROVE  Registry!Next
<1>1. PICK i \in Ids \ {u.id : u \in users} :
         /\ ~Taken(form[w].email) /\ users' = users \cup {Row(i, form[w])}
         /\ UNCHANGED <<issued, today>>
  BY DEF InsertUser, Reply, Row
<1>2. form[w] \in Forms /\ form[w].email \in Registrable
  BY FormChecked DEF InsertUser, CheckedRegistrable
<1> DEFINE k == Fold[form[w].email]
           p == form[w].password
<1>3. /\ Row(i, form[w]).email = form[w].email /\ Row(i, form[w]).password = p
      /\ Row(i, form[w]).id = i
  BY DEF Row
<1>4. Shown' = Shown \cup {[key |-> k, password |-> p]}
  BY <1>1, <1>3 DEF Shown
<1>5. \A a \in Shown : a.key # k
  BY <1>1 DEF Shown, Taken, Same
<1>6. Entered' = Entered
  <2>1. \A t \in issued : t.user # i
    BY DEF TypeOK, RowTypes
  <2>2. ASSUME NEW x
        PROVE  x \in Entered' <=> x \in Entered
    BY <1>1, <1>3, <2>1, EnteredBy, EnteredByNext
  <2>3. QED
    BY <2>2 DEF Entered, LoginsOf
<1>7. k \in {Fold[e] : e \in Registrable} /\ p \in Passwords
  BY <1>2 DEF Forms
<1>8. PICK key \in {Fold[e] : e \in Registrable}, password \in Passwords :
         key = k /\ password = p
  BY <1>7
<1>9. Registry!Register(key, password)
  BY <1>1, <1>4, <1>5, <1>6, <1>8 DEF Registry!Register, Shown, Entered
<1>10. QED
  BY <1>9 DEF Registry!Next

(* A login adds one login; a refresh, whose token goes back to the same,  *)
(* adds none.                                                              *)
LEMMA TokenStep ==
    ASSUME TypeOK, [Next]_vars, issued' # issued
    PROVE  [Registry!Next]_(Registry!registry)
<1>1. users' = users /\ today' = today /\ Shown' = Shown
  BY IssuedStep DEF Shown
<1>2. ASSUME NEW u \in users,
             issued' = issued \cup {Token(u.id, "access", AccessLife, today),
                                    Token(u.id, "refresh", RefreshLife, today)}
      PROVE  Registry!Next
  <2> DEFINE a == [key |-> Fold[u.email], password |-> u.password]
             l == [key |-> Fold[u.email], day |-> today]
  <2>1. /\ Token(u.id, "access", AccessLife, today).user = u.id
        /\ Token(u.id, "access", AccessLife, today).login = today
        /\ Token(u.id, "refresh", RefreshLife, today).user = u.id
        /\ Token(u.id, "refresh", RefreshLife, today).login = today
    BY DEF Token
  <2>2. \A v \in users : v.id = u.id => v = u
    BY DEF TypeOK, RowTypes
  <2>3. ASSUME NEW x
        PROVE  x \in Entered' <=> x \in Entered \cup {l}
    <3>1. ASSUME x \in Entered'
          PROVE  x \in Entered \cup {l}
      <4>1. PICK v \in users, t \in issued' :
               t.user = v.id /\ x = [key |-> Fold[v.email], day |-> t.login]
        BY <1>1, <3>1, EnteredByNext
      <4>2. CASE t \in issued
        BY <4>1, <4>2, EnteredBy
      <4>3. CASE t \notin issued
        <5>1. t.user = u.id /\ t.login = today
          BY <1>2, <2>1, <4>1, <4>3
        <5>2. QED
          BY <2>2, <4>1, <5>1
      <4>4. QED
        BY <4>2, <4>3
    <3>2. ASSUME x \in Entered
          PROVE  x \in Entered'
      BY <1>1, <1>2, <3>2, EnteredBy, EnteredByNext
    <3>3. l \in Entered'
      BY <1>1, <1>2, <2>1, EnteredByNext
    <3>4. QED
      BY <3>1, <3>2, <3>3
  <2>4. Entered' = Entered \cup {l}
    BY <2>3 DEF Entered, LoginsOf
  <2>5. a \in Shown
    BY DEF Shown
  <2>6. Registry!Login(a)
    BY <1>1, <2>4 DEF Registry!Login, Shown, Entered
  <2>7. QED
    BY <2>5, <2>6 DEF Registry!Next, Shown
<1>3. ASSUME NEW s \in issued,
             issued' = issued \cup {Token(s.user, "access", AccessLife, s.login)}
      PROVE  UNCHANGED <<Shown, Entered, today>>
  <2> DEFINE n == Token(s.user, "access", AccessLife, s.login)
  <2>1. n.user = s.user /\ n.login = s.login
    BY DEF Token
  <2>2. ASSUME NEW x
        PROVE  x \in Entered' <=> x \in Entered
    BY <1>1, <1>3, <2>1, EnteredBy, EnteredByNext
  <2>3. Entered' = Entered
    BY <2>2 DEF Entered, LoginsOf
  <2>4. QED
    BY <1>1, <2>3
<1>4. QED
  BY <1>2, <1>3, IssuedStep DEF Registry!registry, Shown, Entered

LEMMA RegistryStep ==
    TypeOK /\ CheckedRegistrable /\ [Next]_vars => [Registry!Next]_(Registry!registry)
<1> SUFFICES ASSUME TypeOK, CheckedRegistrable, [Next]_vars
             PROVE  [Registry!Next]_(Registry!registry)
  OBVIOUS
<1>1. CASE issued' # issued
  BY <1>1, TokenStep
<1>2. CASE users' # users
  <2>1. PICK w \in Workers : InsertUser(w)
    BY <1>2
       DEF Next, Serve, vars, SelectForRegister, Login, ReadPublic, Refresh, UseToken, Crash, Tick
  <2>2. QED
    BY <1>2, <2>1, RegisterStep
<1>3. CASE UNCHANGED <<users, issued>>
  <2>1. Shown' = Shown /\ Entered' = Entered
    BY <1>3 DEF Shown, Entered, LoginsOf
  <2>2. today' = today \/ Tick
    BY DEF Next, Serve, vars, SelectForRegister, InsertUser, Login, ReadPublic, Refresh,
           UseToken, Crash, Reply
  <2>3. CASE Tick
    BY <2>1, <2>3 DEF Tick, Registry!Next, Registry!Tick, Shown, Entered
  <2>4. CASE today' = today
    BY <2>1, <2>4 DEF Registry!registry, Shown, Entered
  <2>5. QED
    BY <2>2, <2>3, <2>4
<1>4. QED
  BY <1>1, <1>2, <1>3

(* The auth routes, with their workers, broken sessions and caught errors, *)
(* implement the registry: registering is atomic and for good, and every   *)
(* token ever issued goes back to a login.                                 *)
THEOREM AccountsImplementRegistry == Spec => ImplementsRegistry
<1>1. Init => Registry!Init /\ CheckedRegistrable
  BY DEF Init, Registry!Init, LoginsOf, CheckedRegistrable
<1>2. QED
  BY <1>1, CheckedStep, RegistryStep, AccountsTypeInvariant, PTL
     DEF Spec, ImplementsRegistry, Registry!Spec
================================================================================
