----------------------- MODULE InterfaceRequestProofs -----------------------
(***************************************************************************)
(* Proofs, for every set of requests and every number of connections, of   *)
(* the safety properties of InterfaceRequest and of its refinement of      *)
(* RequestOutcome.                                                         *)
(***************************************************************************)
EXTENDS InterfaceRequest, TLAPS

(* Up to the handler: a connection, then setConnection, then a transaction,  *)
(* and only for a request that is to have one.                               *)
Opening(r) ==
  /\ pc[r] \in {"new", "get"} => connection[r] = "none" /\ ~set[r]
  /\ pc[r] = "set" => kind[r] = "transaction" /\ connection[r] = "open" /\ ~set[r]
  /\ pc[r] = "begin" => kind[r] = "transaction" /\ connection[r] = "open" /\ set[r]
  /\ pc[r] \in {"new", "get", "set", "begin", "refuse"} => transaction[r] = "none"

(* While the handler runs, the request has a connection and a transaction    *)
(* exactly when its kind calls for one, and the transaction is active.       *)
Serving(r) ==
  /\ pc[r] \in {"get", "set", "begin"} => kind[r] \notin {"options", "noConnection"}
  /\ pc[r] \in {"invoke", "after"} =>
       /\ connection[r] = "open" <=> kind[r] \notin {"options", "noConnection"}
       /\ set[r] <=> kind[r] = "transaction"
       /\ IF set[r] THEN connection[r] = "open" /\ transaction[r] = "active"
                    ELSE transaction[r] = "none"
  /\ pc[r] = "finish" =>
       set[r] /\ baseOk[r] /\ connection[r] = "open" /\ transaction[r] = "active"

(* A transaction that is still active after the hooks, or that only the      *)
(* destructor has ended, is one of a request that the base class vetoed.     *)
Closing(r) ==
  /\ pc[r] = "close" =>
       set[r] /\ baseOk[r] /\ connection[r] = "open" /\ transaction[r] \notin {"none", "active"}
  /\ pc[r] = "destroy" =>
       /\ transaction[r] = "active" => set[r] /\ ~baseOk[r] /\ connection[r] = "open"
       /\ kind[r] = "transaction" /\ connection[r] = "open" => transaction[r] = "active"
  /\ pc[r] = "gone" =>
       /\ transaction[r] # "active"
       /\ kind[r] = "transaction" /\ connection[r] = "open" =>
            ~baseOk[r] /\ transaction[r] = "rolledback"

(* A handler that wants its writes kept has them committed by the hook.      *)
Kept(r) ==
  pc[r] \in {"close", "destroy", "gone"} /\ set[r] /\ baseOk[r] /\ ok[r] /\ ~rollback[r]
    => transaction[r] \in {"committed", "lost"}

IInv ==
  /\ TypeOK
  /\ \A r \in Requests : Opening(r) /\ Serving(r) /\ Closing(r) /\ Kept(r)

-----------------------------------------------------------------------------
(* What a step of a request leaves alone: everything of the other requests. *)
Frame(r) ==
  \A q \in Requests \ {r} :
    /\ pc'[q] = pc[q]
    /\ kind'[q] = kind[q]
    /\ connection'[q] = connection[q]
    /\ set'[q] = set[q]
    /\ transaction'[q] = transaction[q]
    /\ rollback'[q] = rollback[q]
    /\ ok'[q] = ok[q]
    /\ baseOk'[q] = baseOk[q]

Step(r) == Proceeds(r) \/ SetsStatus(r) \/ SetsRollbackForce(r)

(* Each action keeps the types. *)
LEMMA TypeStep ==
  ASSUME TypeOK, NEW r \in Requests, Step(r)
  PROVE  TypeOK'
<1> USE DEF TypeOK, goto, becomes, poolFinish, Pc, Transaction
<1>1. CASE Arrives(r)
  BY <1>1 DEF Arrives
<1>2. CASE GetsConnection(r)
  BY <1>2 DEF GetsConnection
<1>3. CASE SetsConnection(r)
  BY <1>3 DEF SetsConnection
<1>4. CASE BeginsTransaction(r)
  BY <1>4 DEF BeginsTransaction
<1>5. CASE ConnectionFails(r)
  BY <1>5 DEF ConnectionFails
<1>6. CASE Refused(r)
  BY <1>6 DEF Refused
<1>7. CASE Invoked(r)
  BY <1>7 DEF Invoked
<1>8. CASE AfterInvoke(r)
  BY <1>8 DEF AfterInvoke
<1>9. CASE RollsBack(r) \/ Commits(r)
  BY <1>9 DEF RollsBack, Commits
<1>10. CASE ClosesConnection(r)
  BY <1>10 DEF ClosesConnection
<1>11. CASE Destroyed(r)
  BY <1>11 DEF Destroyed
<1>12. CASE SetsStatus(r) \/ SetsRollbackForce(r)
  BY <1>12 DEF SetsStatus, SetsRollbackForce
<1> QED
  BY <1>1, <1>2, <1>3, <1>4, <1>5, <1>6, <1>7, <1>8, <1>9, <1>10, <1>11, <1>12
     DEF Step, Proceeds

(* Each action touches one request. *)
LEMMA FrameStep ==
  ASSUME TypeOK, NEW r \in Requests, Step(r)
  PROVE  Frame(r)
<1> USE DEF TypeOK, Frame, goto, becomes, poolFinish
<1>1. CASE Arrives(r) \/ GetsConnection(r) \/ SetsConnection(r) \/ BeginsTransaction(r)
  BY <1>1 DEF Arrives, GetsConnection, SetsConnection, BeginsTransaction
<1>2. CASE ConnectionFails(r) \/ Refused(r) \/ Invoked(r) \/ AfterInvoke(r)
  BY <1>2 DEF ConnectionFails, Refused, Invoked, AfterInvoke
<1>3. CASE RollsBack(r) \/ Commits(r) \/ ClosesConnection(r) \/ Destroyed(r)
  BY <1>3 DEF RollsBack, Commits, ClosesConnection, Destroyed
<1>4. CASE SetsStatus(r) \/ SetsRollbackForce(r)
  BY <1>4 DEF SetsStatus, SetsRollbackForce
<1> QED
  BY <1>1, <1>2, <1>3, <1>4 DEF Step, Proceeds

(* Each action keeps the invariant of the request it touches. *)
LEMMA RequestStep ==
  ASSUME TypeOK, NEW r \in Requests, Step(r),
         Opening(r), Serving(r), Closing(r), Kept(r)
  PROVE  (Opening(r) /\ Serving(r) /\ Closing(r) /\ Kept(r))'
<1> USE DEF TypeOK, Opening, Serving, Closing, Kept, goto, becomes, poolFinish, Pc,
            Transaction, Kind
<1>1. CASE Arrives(r)
  BY <1>1 DEF Arrives
<1>2. CASE GetsConnection(r)
  BY <1>2 DEF GetsConnection
<1>3. CASE SetsConnection(r)
  BY <1>3 DEF SetsConnection
<1>4. CASE BeginsTransaction(r)
  BY <1>4 DEF BeginsTransaction
<1>5. CASE ConnectionFails(r)
  BY <1>5 DEF ConnectionFails
<1>6. CASE Refused(r)
  BY <1>6 DEF Refused
<1>7. CASE Invoked(r)
  BY <1>7 DEF Invoked
<1>8. CASE AfterInvoke(r)
  BY <1>8 DEF AfterInvoke
<1>9. CASE RollsBack(r)
  BY <1>9 DEF RollsBack, isRollback
<1>10. CASE Commits(r)
  BY <1>10 DEF Commits, isRollback
<1>11. CASE ClosesConnection(r)
  BY <1>11 DEF ClosesConnection
<1>12. CASE Destroyed(r)
  BY <1>12 DEF Destroyed
<1>13. CASE SetsStatus(r) \/ SetsRollbackForce(r)
  BY <1>13 DEF SetsStatus, SetsRollbackForce
<1> QED
  BY <1>1, <1>2, <1>3, <1>4, <1>5, <1>6, <1>7, <1>8, <1>9, <1>10, <1>11, <1>12, <1>13
     DEF Step, Proceeds

(* The invariant is inductive. *)
THEOREM Invariance == Spec => []IInv
<1>1. Init => IInv
  BY DEF Init, IInv, TypeOK, Opening, Serving, Closing, Kept, Pc, Transaction
<1>2. IInv /\ [Next]_vars => IInv'
  <2>1. CASE UNCHANGED vars
    BY <2>1 DEF vars, IInv, TypeOK, Opening, Serving, Closing, Kept
  <2>2. ASSUME IInv, NEW r \in Requests, Step(r) PROVE IInv'
    <3>1. TypeOK'
      BY <2>2, TypeStep DEF IInv
    <3>2. (Opening(r) /\ Serving(r) /\ Closing(r) /\ Kept(r))'
      BY <2>2, RequestStep DEF IInv
    <3>3. ASSUME NEW q \in Requests, q # r
          PROVE  (Opening(q) /\ Serving(q) /\ Closing(q) /\ Kept(q))'
      BY <2>2, <3>3, FrameStep DEF IInv, Frame, Opening, Serving, Closing, Kept
    <3> QED
      BY <3>1, <3>2, <3>3 DEF IInv
  <2> QED
    BY <2>1, <2>2 DEF Next, Step
<1> QED
  BY <1>1, <1>2, PTL DEF Spec

(* Every variable keeps its type. *)
THEOREM TypeCorrect == Spec => []TypeOK
BY Invariance, PTL DEF IInv

(* No request has a transaction on a connection it no longer has. *)
THEOREM NeverDetached == Spec => []ActiveOnConnection
<1>1. IInv => ActiveOnConnection
  BY DEF IInv, TypeOK, Opening, Serving, Closing, ActiveOnConnection, Pc
<1> QED
  BY <1>1, Invariance, PTL

(* The handler of a request that is to have a transaction runs inside one,   *)
(* on a connection of the pool, and no other handler does.                   *)
THEOREM AlwaysPrepared == Spec => []HandlerPrepared
<1>1. IInv => HandlerPrepared
  BY DEF IInv, Serving, HandlerPrepared
<1> QED
  BY <1>1, Invariance, PTL

(* The writes of a handler that wants them kept are committed. *)
THEOREM Committed == Spec => []OkIsCommitted
<1>1. IInv => OkIsCommitted
  BY DEF IInv, Kept, OkIsCommitted
<1> QED
  BY <1>1, Invariance, PTL

(* Only a veto of the base class makes a request with a transaction keep its *)
(* connection.                                                               *)
THEOREM NeverLeaked == Spec => []ConnectionReturned
<1>1. IInv => ConnectionReturned
  BY DEF IInv, Closing, ConnectionReturned
<1> QED
  BY <1>1, Invariance, PTL

-----------------------------------------------------------------------------
(* The requests implement RequestOutcome: each step decides, applies or      *)
(* discards the writes of one request, or changes nothing of them.           *)
THEOREM Refinement == Spec => OutcomeSpec
<1>1. Init => Outcome!Init
  BY DEF Init, Outcome!Init, outcome, wanted
<1>2. IInv /\ [Next]_vars => [Outcome!Next]_<<outcome, wanted>>
  <2> SUFFICES ASSUME IInv, [Next]_vars PROVE [Outcome!Next]_<<outcome, wanted>>
    OBVIOUS
  <2>1. CASE UNCHANGED vars
    BY <2>1 DEF vars, outcome, wanted
  <2>2. ASSUME NEW r \in Requests, Step(r)
        PROVE  Outcome!Next \/ UNCHANGED <<outcome, wanted>>
    <3>1. CASE SetsStatus(r) \/ SetsRollbackForce(r)
      <4>1. outcome[r] = "open"
        BY <3>1 DEF IInv, Serving, SetsStatus, SetsRollbackForce, outcome
      <4>2. UNCHANGED outcome
        BY <3>1 DEF SetsStatus, SetsRollbackForce, outcome
      <4>3. wanted' \in {wanted \cup {r}, wanted \ {r}}
        BY <3>1 DEF IInv, TypeOK, SetsStatus, SetsRollbackForce, wanted
      <4> QED
        BY <4>1, <4>2, <4>3 DEF Outcome!Next, Outcome!Decide
    <3>2. CASE RollsBack(r) \/ Commits(r) \/ (Destroyed(r) /\ transaction[r] = "active")
      <4>1. outcome[r] = "open" /\ UNCHANGED wanted
        BY <3>2 DEF IInv, Serving, RollsBack, Commits, Destroyed, goto, outcome, wanted
      <4>2. \/ r \in wanted /\ outcome' = [outcome EXCEPT ![r] = "applied"]
            \/ outcome' = [outcome EXCEPT ![r] = "discarded"]
        BY <3>2
           DEF IInv, TypeOK, RollsBack, Commits, Destroyed, isRollback, becomes, outcome, wanted
      <4> QED
        BY <4>1, <4>2 DEF Outcome!Next, Outcome!Apply, Outcome!Discard
    <3>3. CASE BeginsTransaction(r)
      <4>1. UNCHANGED wanted
        BY <3>3 DEF BeginsTransaction, wanted
      <4>2. \A q \in Requests : outcome'[q] = outcome[q]
        BY <3>3 DEF IInv, TypeOK, Opening, BeginsTransaction, goto, becomes, outcome
      <4> QED
        BY <4>1, <4>2 DEF outcome
    <3>4. CASE Destroyed(r) /\ transaction[r] # "active"
      <4>1. transaction' = transaction
        BY <3>4 DEF IInv, TypeOK, Destroyed, becomes
      <4> QED
        BY <3>4, <4>1 DEF Destroyed, outcome, wanted
    <3>5. CASE Arrives(r) \/ GetsConnection(r) \/ SetsConnection(r) \/ ConnectionFails(r)
                 \/ Refused(r) \/ Invoked(r) \/ AfterInvoke(r) \/ ClosesConnection(r)
      BY <3>5 DEF Arrives, GetsConnection, SetsConnection, ConnectionFails, Refused, Invoked,
                  AfterInvoke, ClosesConnection, outcome, wanted
    <3> QED
      BY <2>2, <3>1, <3>2, <3>3, <3>4, <3>5 DEF Step, Proceeds
  <2> QED
    BY <2>1, <2>2 DEF Next, Step
<1> QED
  BY <1>1, <1>2, Invariance, PTL DEF Spec, OutcomeSpec, Outcome!Spec

=============================================================================
