------------------------ MODULE RequestSessionProofs ------------------------
(***************************************************************************)
(* Proofs about RequestSession, for any number of workers: its types, that *)
(* close_session commits nothing, and that a broken session is left by the *)
(* auth routes alone and repaired by one failure.                          *)
(***************************************************************************)
EXTENDS RequestSession, TLAPS

(* Rows are pending between the flush and the commit of a service only.   *)
PendingInFlight == \A w \in Workers : pc[w] # "flushed" => ~pending[w]

(* A read or a write that ends with a broken session has let the error    *)
(* out, so that close_session knows of it.                                 *)
BreakKnown ==
    \A w \in Workers :
        pc[w] = "teardown" /\ sess[w] = "deactive" /\ kind[w] \in {"read", "write"} =>
            raised[w] # "no"

IInv == TypeOK /\ PendingInFlight /\ BreakKnown

(* The variables of a worker other than the one that moves do not change. *)
OthersKept(w) ==
    \A v \in Workers \ {w} :
        /\ sess'[v] = sess[v] /\ pending'[v] = pending[v] /\ pc'[v] = pc[v]
        /\ kind'[v] = kind[v] /\ raised'[v] = raised[v]

(* The types of the seven functions, without what TypeOK adds to them. *)
VarTypes ==
    /\ sess \in [Workers -> SessionStates]
    /\ pending \in [Workers -> BOOLEAN]
    /\ pc \in [Workers -> {"idle", "open", "queried", "flushed", "teardown"}]
    /\ kind \in [Workers -> Kinds]
    /\ raised \in [Workers -> {"no", "wrapped", "raw"}]
    /\ resp \in [Workers -> {0, 200, 400, 500}]
    /\ answer \in [Workers -> {0, 200, 400, 500}]

(* What the invariant says of one worker. *)
Sound(w) ==
    /\ pc[w] \in {"queried", "flushed"} => sess[w] = "active" /\ kind[w] \in {"write", "auth"}
    /\ pc[w] # "flushed" => ~pending[w]
    /\ pc[w] = "teardown" /\ sess[w] = "deactive" /\ kind[w] \in {"read", "write"} =>
           raised[w] # "no"

(* The invariant is that every worker is sound. *)
LEMMA InvByWorker == IInv <=> VarTypes /\ \A w \in Workers : Sound(w)
BY DEF IInv, TypeOK, PendingInFlight, BreakKnown, VarTypes, Sound

(* A response, and an error, keep the variables within their types. *)
LEMMA ReturnTypes ==
    ASSUME VarTypes, NEW w \in Workers, NEW code \in {200, 400}, Return(w, code)
    PROVE  /\ pc' = [pc EXCEPT ![w] = "teardown"] /\ pc'[w] = "teardown"
           /\ kind' = kind /\ raised' = raised
           /\ pc' \in [Workers -> {"idle", "open", "queried", "flushed", "teardown"}]
           /\ kind' \in [Workers -> Kinds]
           /\ raised' \in [Workers -> {"no", "wrapped", "raw"}]
           /\ resp' \in [Workers -> {0, 200, 400, 500}]
           /\ answer' \in [Workers -> {0, 200, 400, 500}]
           /\ \A v \in Workers \ {w} : pc'[v] = pc[v]
BY DEF VarTypes, Return, Goto

LEMMA FailTypes ==
    ASSUME VarTypes, NEW w \in Workers, NEW error \in {"wrapped", "raw"}, Fail(w, error)
    PROVE  /\ pc'[w] = "teardown" /\ kind' = kind
           /\ kind[w] \in {"read", "write"} => raised'[w] # "no"
           /\ pc' \in [Workers -> {"idle", "open", "queried", "flushed", "teardown"}]
           /\ kind' \in [Workers -> Kinds]
           /\ raised' \in [Workers -> {"no", "wrapped", "raw"}]
           /\ resp' \in [Workers -> {0, 200, 400, 500}]
           /\ answer' \in [Workers -> {0, 200, 400, 500}]
           /\ \A v \in Workers \ {w} : pc'[v] = pc[v] /\ raised'[v] = raised[v]
<1>1. (IF kind[w] \in Catching THEN "no" ELSE error) \in {"no", "wrapped", "raw"}
  OBVIOUS
<1>2. raised' \in [Workers -> {"no", "wrapped", "raw"}]
  BY <1>1 DEF VarTypes, Fail
<1>3. kind[w] \in {"read", "write"} => raised'[w] # "no"
  BY DEF VarTypes, Fail, Catching
<1>4. QED
  BY <1>2, <1>3 DEF VarTypes, Fail, Goto

(* A step of one worker keeps the types, leaves the others as they were,  *)
(* and leaves the worker sound.                                            *)
LEMMA WorkerStep ==
    ASSUME IInv, NEW w \in Workers, Open(w) \/ Serve(w)
    PROVE  VarTypes' /\ OthersKept(w) /\ Sound(w)'
<1> USE DEF OthersKept
<1>0. VarTypes /\ Sound(w)
  BY InvByWorker
<1>1. CASE Open(w)
  BY <1>0, <1>1 DEF Open, Goto, VarTypes, Sound, SessionStates
<1>2. CASE ServePlain(w)
  <2>1. PICK code \in {200, 400} : Return(w, code)
    BY <1>2 DEF ServePlain
  <2>2. QED
    BY <1>0, <1>2, <2>1, ReturnTypes DEF ServePlain, VarTypes, Sound
<1>3. CASE Query(w)
  <2>0. pc[w] = "open" /\ kind[w] # "plain" /\ pending' = pending /\ ~pending[w]
    BY <1>0, <1>3 DEF Query, Sound
  <2>1. CASE sess[w] = "deactive" /\ Fail(w, "wrapped") /\ sess' = sess
    BY <1>0, <2>0, <2>1, FailTypes DEF VarTypes, Sound
  <2>2. CASE /\ sess' = [sess EXCEPT ![w] = "active"]
             /\ kind[w] \in {"write", "auth"} /\ Goto(w, "queried")
             /\ UNCHANGED <<kind, raised, resp, answer>>
    BY <1>0, <2>0, <2>2 DEF Goto, VarTypes, Sound, SessionStates
  <2>3. ASSUME sess' = [sess EXCEPT ![w] = "active"],
               NEW code \in {200, 400}, Return(w, code)
        PROVE  VarTypes' /\ OthersKept(w) /\ Sound(w)'
    BY <1>0, <2>0, <2>3, ReturnTypes DEF VarTypes, Sound, SessionStates
  <2>4. QED
    BY <1>3, <2>1, <2>2, <2>3 DEF Query
<1>4. CASE Flush(w)
  <2>1. CASE /\ pending' = [pending EXCEPT ![w] = TRUE]
             /\ Goto(w, "flushed")
             /\ UNCHANGED <<sess, kind, raised, resp, answer>>
    BY <1>0, <1>4, <2>1 DEF Flush, Goto, VarTypes, Sound
  <2>2. CASE /\ sess' = [sess EXCEPT ![w] = "deactive"]
             /\ Fail(w, "wrapped")
             /\ UNCHANGED pending
    BY <1>0, <1>4, <2>2, FailTypes DEF Flush, VarTypes, Sound, SessionStates
  <2>3. QED
    BY <1>4, <2>1, <2>2 DEF Flush
<1>5. CASE ServiceCommit(w)
  <2>0. pending' = [pending EXCEPT ![w] = FALSE]
    BY <1>5 DEF ServiceCommit
  <2>1. CASE sess' = [sess EXCEPT ![w] = "clean"] /\ Return(w, 200)
    BY <1>0, <2>0, <2>1, ReturnTypes DEF VarTypes, Sound, SessionStates
  <2>2. CASE sess' = [sess EXCEPT ![w] = "deactive"] /\ Fail(w, "raw")
    BY <1>0, <2>0, <2>2, FailTypes DEF VarTypes, Sound, SessionStates
  <2>3. QED
    BY <1>5, <2>1, <2>2 DEF ServiceCommit
<1>6. CASE Teardown(w)
  BY <1>0, <1>6 DEF Teardown, Goto, VarTypes, Sound, SessionStates
<1>7. QED
  BY <1>1, <1>2, <1>3, <1>4, <1>5, <1>6 DEF Serve

(* The invariant is inductive: the worker that moves stays sound, the      *)
(* others do not notice.                                                   *)
LEMMA InvStep == IInv /\ [Next]_vars => IInv'
<1> SUFFICES ASSUME IInv, [Next]_vars PROVE IInv'
  OBVIOUS
<1>1. ASSUME NEW w \in Workers, Open(w) \/ Serve(w) PROVE IInv'
  <2>1. \A v \in Workers : Sound(v)'
    BY <1>1, WorkerStep, InvByWorker DEF OthersKept, Sound
  <2>2. QED
    BY <1>1, <2>1, WorkerStep
       DEF IInv, TypeOK, PendingInFlight, BreakKnown, VarTypes, Sound
<1>2. CASE UNCHANGED vars
  BY <1>2 DEF vars, IInv, TypeOK, PendingInFlight, BreakKnown
<1>3. QED
  BY <1>1, <1>2 DEF Next

LEMMA Invariant == Spec => []IInv
<1>1. Init => IInv
  BY DEF Init, IInv, TypeOK, PendingInFlight, BreakKnown, SessionStates, Kinds
<1>2. QED
  BY <1>1, InvStep, PTL DEF Spec

(* A route writes only in a transaction that is active, and open_session  *)
(* and close_session keep every session in one of its four states.         *)
THEOREM SessionTypeInvariant == Spec => []TypeOK
<1>1. IInv => TypeOK
  BY DEF IInv
<1>2. QED
  BY <1>1, Invariant, PTL

(* The commit of close_session never stores a row. *)
THEOREM AnswersDecideFirst == Spec => []TeardownStoresNothing
<1>1. IInv => TeardownStoresNothing
  BY DEF IInv, PendingInFlight, TeardownStoresNothing
<1>2. QED
  BY <1>1, Invariant, PTL

(* The step that ends a request: what close_session leaves behind. *)
LEMMA EndOfRequest ==
    ASSUME IInv, [Next]_vars, NEW w \in Workers, pc[w] = "teardown", pc'[w] = "idle"
    PROVE  /\ raised[w] # "no" \/ sess[w] # "deactive" => sess'[w] = "none"
           /\ raised[w] = "no" /\ sess[w] = "deactive" => answer'[w] = 500
<1>0. VarTypes
  BY InvByWorker
<1>1. PICK v \in Workers : Open(v) \/ Serve(v)
  BY DEF Next, vars
<1>2. v = w
  BY <1>1, WorkerStep DEF OthersKept
<1>3. Teardown(w)
  BY <1>0, <1>1, <1>2 DEF Serve, Open, ServePlain, Query, Flush, ServiceCommit
<1>4. QED
  BY <1>0, <1>3 DEF Teardown, VarTypes

(* Only the auth routes, and requests that need no database, leave a      *)
(* broken session to the worker's next request, and never behind a success. *)
THEOREM BrokenByAuthOnly == Spec => PoisonedByAuthOnly
<1>1. IInv /\ [Next]_vars =>
        \A w \in Workers : pc[w] = "teardown" /\ pc'[w] = "idle" =>
             \/ sess'[w] = "none"
             \/ kind[w] \in {"auth", "login", "plain"} /\ answer'[w] = 500
  <2> SUFFICES ASSUME IInv, [Next]_vars, NEW w \in Workers,
                      pc[w] = "teardown", pc'[w] = "idle", sess'[w] # "none"
               PROVE  kind[w] \in {"auth", "login", "plain"} /\ answer'[w] = 500
    OBVIOUS
  <2>1. raised[w] = "no" /\ sess[w] = "deactive" /\ answer'[w] = 500
    BY EndOfRequest
  <2>2. kind[w] \in Kinds
    BY DEF IInv, TypeOK
  <2>3. QED
    BY <2>1, <2>2 DEF IInv, BreakKnown, Kinds
<1>2. QED
  BY <1>1, Invariant, PTL DEF Spec, PoisonedByAuthOnly

(* The first read or write on a broken session repairs the worker. *)
THEOREM RepairedByOneFailure == Spec => OneFailureRepairs
<1>1. IInv /\ [Next]_vars =>
        \A w \in Workers :
          pc[w] = "teardown" /\ pc'[w] = "idle" /\ kind[w] \in {"read", "write"} =>
             sess'[w] = "none"
  BY EndOfRequest DEF IInv, BreakKnown
<1>2. QED
  BY <1>1, Invariant, PTL DEF Spec, OneFailureRepairs
=============================================================================
