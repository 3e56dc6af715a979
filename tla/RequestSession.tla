---------------------------- MODULE RequestSession ----------------------------
(***************************************************************************)
(* The life of a request around its database session: open_session before *)
(* it, the statements of a route, close_session after it, and the scoped   *)
(* session registry, which keeps one session per worker thread until       *)
(* SessionLocal.remove().                                                  *)
(*                                                                         *)
(* What matters of a route is how it uses the session and what it catches: *)
(*   plain   answers without a statement: /auth/refresh, a request the     *)
(*           validation or the token check refuses, an unknown path        *)
(*   read    only SELECTs; no handler catches a database error             *)
(*   write   SELECTs, a flush, a commit; only ValueError is caught         *)
(*   auth    register: the same, and every exception is caught             *)
(*   login   only SELECTs, and every exception is caught                   *)
(* The database is up: a SELECT fails only because of the session it uses. *)
(***************************************************************************)
EXTENDS Naturals

CONSTANT Workers  \* gunicorn sync workers: one thread for all their requests

Kinds == {"plain", "read", "write", "auth", "login"}
Catching == {"auth", "login"}

VARIABLES sess,    \* the worker's session in the registry
          pending, \* rows flushed in the session's transaction, not committed
          pc, kind,
          raised,  \* the exception that left the route, if one did
          resp,    \* the status the route answered with
          answer   \* the status the client got

vars == <<sess, pending, pc, kind, raised, resp, answer>>

(* A failed flush rolls the transaction back and leaves it deactive: the  *)
(* session refuses to go on until someone calls rollback().                *)
SessionStates == {"none", "clean", "active", "deactive"}

(* Types; and a route writes only in a transaction that is active. *)
TypeOK ==
    /\ sess \in [Workers -> SessionStates]
    /\ pending \in [Workers -> BOOLEAN]
    /\ pc \in [Workers -> {"idle", "open", "queried", "flushed", "teardown"}]
    /\ kind \in [Workers -> Kinds]
    /\ raised \in [Workers -> {"no", "wrapped", "raw"}]
    /\ resp \in [Workers -> {0, 200, 400, 500}]
    /\ answer \in [Workers -> {0, 200, 400, 500}]
    /\ \A w \in Workers : pc[w] \in {"queried", "flushed"} =>
                             sess[w] = "active" /\ kind[w] \in {"write", "auth"}

Init ==
    /\ sess = [w \in Workers |-> "none"]
    /\ pending = [w \in Workers |-> FALSE]
    /\ pc = [w \in Workers |-> "idle"]
    /\ kind = [w \in Workers |-> "plain"]
    /\ raised = [w \in Workers |-> "no"]
    /\ resp = [w \in Workers |-> 0]
    /\ answer = [w \in Workers |-> 0]

--------------------------------------------------------------------------------
Goto(w, place) == pc' = [pc EXCEPT ![w] = place]

(* The route returns a response, and the request context is torn down. *)
Return(w, code) ==
    /\ resp' = [resp EXCEPT ![w] = code]
    /\ Goto(w, "teardown")
    /\ UNCHANGED <<kind, raised, answer>>

(* Mutant: every route catches every exception. *)
Fail_AllCatch(w, error) ==
    /\ resp' = [resp EXCEPT ![w] = 500]
    /\ Goto(w, "teardown")
    /\ UNCHANGED <<kind, raised, answer>>

(* The route meets a database error: the auth routes turn it into a       *)
(* response, the others let it out to Flask.                               *)
Fail(w, error) ==
    /\ raised' = [raised EXCEPT ![w] = IF kind[w] \in Catching THEN "no" ELSE error]
    /\ resp' = [resp EXCEPT ![w] = 500]
    /\ Goto(w, "teardown")
    /\ UNCHANGED <<kind, answer>>

(* open_session: SessionLocal() creates a session only if the registry has *)
(* none for this thread.                                                   *)
Open(w) ==
    /\ pc[w] = "idle"
    /\ \E k \in Kinds : kind' = [kind EXCEPT ![w] = k]
    /\ sess' = [sess EXCEPT ![w] = IF @ = "none" THEN "clean" ELSE @]
    /\ raised' = [raised EXCEPT ![w] = "no"]
    /\ resp' = [resp EXCEPT ![w] = 0]
    /\ answer' = [answer EXCEPT ![w] = 0]
    /\ Goto(w, "open")
    /\ UNCHANGED pending

ServePlain(w) ==
    /\ pc[w] = "open" /\ kind[w] = "plain"
    /\ \E code \in {200, 400} : Return(w, code)
    /\ UNCHANGED <<sess, pending>>

(* Mutant: a session that runs SELECTs whatever state it is in. *)
Query_AnySession(w) ==
    /\ pc[w] = "open" /\ kind[w] # "plain"
    /\ \/ kind[w] \in {"write", "auth"} /\ Goto(w, "queried")
            /\ UNCHANGED <<kind, raised, resp, answer>>
       \/ kind[w] \in {"read", "login"} /\ Return(w, 200)
       \/ kind[w] # "read" /\ Return(w, 400)
    /\ UNCHANGED <<sess, pending>>

(* The SELECTs of a route, through the repositories: a deactive session   *)
(* raises, which they wrap.  A service may refuse with a ValueError.       *)
Query(w) ==
    /\ pc[w] = "open" /\ kind[w] # "plain"
    /\ UNCHANGED pending
    /\ \/ sess[w] = "deactive" /\ Fail(w, "wrapped") /\ UNCHANGED sess
       \/ /\ sess[w] # "deactive"
          /\ sess' = [sess EXCEPT ![w] = "active"]
          /\ \/ kind[w] \in {"write", "auth"} /\ Goto(w, "queried")
                  /\ UNCHANGED <<kind, raised, resp, answer>>
             \/ kind[w] \in {"read", "login"} /\ Return(w, 200)
             \/ kind[w] # "read" /\ Return(w, 400)

(* session.flush() in a repository: a constraint, a value too long for its *)
(* column or a lock failure makes it raise, which the repository wraps.    *)
Flush(w) ==
    /\ pc[w] = "queried"
    /\ \/ /\ pending' = [pending EXCEPT ![w] = TRUE]
          /\ Goto(w, "flushed")
          /\ UNCHANGED <<sess, kind, raised, resp, answer>>
       \/ /\ sess' = [sess EXCEPT ![w] = "deactive"]
          /\ Fail(w, "wrapped")
          /\ UNCHANGED pending

(* Mutant: a service that leaves its commit to close_session. *)
ServiceCommit_Forgotten(w) ==
    /\ pc[w] = "flushed"
    /\ Return(w, 200)
    /\ UNCHANGED <<sess, pending>>

(* session.commit() in a service: it flushes what changed since (a write's *)
(* counter), which may fail outside every repository, and commits.         *)
ServiceCommit(w) ==
    /\ pc[w] = "flushed"
    /\ pending' = [pending EXCEPT ![w] = FALSE]
    /\ \/ sess' = [sess EXCEPT ![w] = "clean"] /\ Return(w, 200)
       \/ /\ kind[w] = "write"
          /\ sess' = [sess EXCEPT ![w] = "deactive"]
          /\ Fail(w, "raw")

(* Mutant: close_session commits whatever happened. *)
Teardown_AlwaysCommits(w) ==
    /\ pc[w] = "teardown"
    /\ LET ok == sess[w] # "deactive"
       IN  /\ sess' = [sess EXCEPT ![w] = IF ok THEN "none" ELSE @]
           /\ answer' = [answer EXCEPT ![w] = IF ok THEN resp[w] ELSE 500]
    /\ pending' = [pending EXCEPT ![w] = FALSE]
    /\ Goto(w, "idle")
    /\ UNCHANGED <<kind, raised, resp>>

(* close_session: roll back after an uncaught exception, commit otherwise, *)
(* then close and remove the session.  The commit of a deactive session    *)
(* raises, so neither happens, and the client gets a bare 500.             *)
Teardown(w) ==
    /\ pc[w] = "teardown"
    /\ LET ok == raised[w] # "no" \/ sess[w] # "deactive"
       IN  /\ sess' = [sess EXCEPT ![w] = IF ok THEN "none" ELSE @]
           /\ answer' = [answer EXCEPT ![w] = IF ok THEN resp[w] ELSE 500]
    /\ pending' = [pending EXCEPT ![w] = FALSE]
    /\ Goto(w, "idle")
    /\ UNCHANGED <<kind, raised, resp>>

Serve(w) == ServePlain(w) \/ Query(w) \/ Flush(w) \/ ServiceCommit(w) \/ Teardown(w)

Next == \E w \in Workers : Open(w) \/ Serve(w)

Spec == Init /\ [][Next]_vars

--------------------------------------------------------------------------------
(* Rows are stored by the commit of the service that wrote them, or never: *)
(* the commit of close_session finds nothing pending, so what an answer    *)
(* says was decided before it was given, and no request stores the rows of *)
(* an earlier one that failed on the same worker.                          *)
TeardownStoresNothing ==
    \A w \in Workers : pc[w] \in {"idle", "open", "teardown"} => ~pending[w]

(* A worker is left with a broken session by the auth routes only: between *)
(* requests its registry is empty, unless a register failed to flush there *)
(* and only requests that catch every exception, or need no database, have *)
(* been served since.                                                      *)
PoisonedByAuthOnly ==
    [][\A w \in Workers :
          pc[w] = "teardown" /\ pc'[w] = "idle" =>
             \/ sess'[w] = "none"
             \/ kind[w] \in {"auth", "login", "plain"} /\ answer'[w] = 500]_vars

(* The first read or write to reach the database through a broken session *)
(* fails, and by failing repairs it: the worker serves the next request    *)
(* with a new one.                                                         *)
OneFailureRepairs ==
    [][\A w \in Workers :
          pc[w] = "teardown" /\ pc'[w] = "idle" /\ kind[w] \in {"read", "write"} =>
             sess'[w] = "none"]_vars
================================================================================
