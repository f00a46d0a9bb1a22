-------------------------- MODULE InterfaceRequest --------------------------
(***************************************************************************)
(* The requests of QApr::Interface: each runs in a thread of its own on an *)
(* object of its own, takes a database connection and opens a transaction  *)
(* before its handler (requestBeforeInvoke), and commits or rolls back and *)
(* gives the connection back after it (requestAfterInvoke).  The handler   *)
(* and the QApr::Controller objects below it set the answer's status and   *)
(* may force a rollback.                                                   *)
(*                                                                         *)
(* The connection pool, the transaction object and the caller of the two   *)
(* hooks are libraries: the model uses of them what this code relies on.   *)
(* The database accepts MaxConnections connections, may refuse one at any  *)
(* time, and may fail to begin or to commit a transaction.                 *)
(***************************************************************************)
EXTENDS Naturals, FiniteSets

CONSTANTS
  Requests,        \* the request objects
  MaxConnections   \* how many connections the database accepts

ASSUME RequestsAssumption == IsFiniteSet(Requests)
ASSUME MaxConnectionsAssumption == MaxConnections \in Nat

(* What the method of a request and its annotations make of the request. *)
Kind == {"options",        \* an OPTIONS request
         "noConnection",   \* dbNoConnection
         "readOnly",       \* dbReadOnly
         "noTransaction",  \* dbNoTransaction
         "transaction"}    \* none of these

VARIABLES
  pc,          \* pc[r]: where request r is
  kind,        \* kind[r]: its kind
  connection,  \* connection[r]: "none", or "open" from pool.get to pool.finish
  set,         \* set[r]: setConnection has made the connection the object's
  transaction, \* transaction[r]: the state of its QOrm::Transaction
  rollback,    \* rollback[r]: p->transactionRollbackForce
  ok,          \* ok[r]: rq().co().isOK()
  baseOk       \* baseOk[r]: QRpc::Controller::requestAfterInvoke said true

vars == <<pc, kind, connection, set, transaction, rollback, ok, baseOk>>

Pc == {"new", "get", "set", "begin", "refuse", "invoke", "after", "finish",
       "close", "destroy", "gone"}

Transaction == {"none", "active", "committed", "lost", "rolledback"}

TypeOK ==
  /\ pc \in [Requests -> Pc]
  /\ kind \in [Requests -> Kind]
  /\ connection \in [Requests -> {"none", "open"}]
  /\ set \in [Requests -> BOOLEAN]
  /\ transaction \in [Requests -> Transaction]
  /\ rollback \in [Requests -> BOOLEAN]
  /\ ok \in [Requests -> BOOLEAN]
  /\ baseOk \in [Requests -> BOOLEAN]

Init ==
  /\ pc = [r \in Requests |-> "new"]
  /\ kind \in [Requests -> Kind]
  /\ connection = [r \in Requests |-> "none"]
  /\ set = [r \in Requests |-> FALSE]
  /\ transaction = [r \in Requests |-> "none"]
  /\ rollback = [r \in Requests |-> FALSE]
  /\ ok = [r \in Requests |-> FALSE]
  /\ baseOk = [r \in Requests |-> FALSE]

goto(r, from, to) == pc[r] = from /\ pc' = [pc EXCEPT ![r] = to]

opened == {r \in Requests : connection[r] = "open"}

becomes(r, state) == transaction' = [transaction EXCEPT ![r] = state]

-----------------------------------------------------------------------------
(* requestBeforeInvoke *)

Arrives(r) ==
  /\ goto(r, "new", IF kind[r] \in {"options", "noConnection"} THEN "invoke" ELSE "get")
  /\ UNCHANGED <<kind, connection, set, transaction, rollback, ok, baseOk>>

(* pool.get or pool.getReadOnly; only a request with a transaction goes on. *)
GetsConnection(r) ==
  /\ Cardinality(opened) < MaxConnections
  /\ goto(r, "get", IF kind[r] = "transaction" THEN "set" ELSE "invoke")
  /\ connection' = [connection EXCEPT ![r] = "open"]
  /\ UNCHANGED <<kind, set, transaction, rollback, ok, baseOk>>

SetsConnection(r) ==
  /\ goto(r, "set", "begin")
  /\ set' = [set EXCEPT ![r] = TRUE]
  /\ UNCHANGED <<kind, connection, transaction, rollback, ok, baseOk>>

BeginsTransaction(r) ==
  /\ goto(r, "begin", "invoke")
  /\ becomes(r, "active")
  /\ UNCHANGED <<kind, connection, set, rollback, ok, baseOk>>

(* Mutant: pool.get waits for a connection instead of refusing one. *)
ConnectionFailsAfterGet(r) ==
  /\ \E from \in {"set", "begin"} : goto(r, from, "refuse")
  /\ UNCHANGED <<kind, connection, set, transaction, rollback, ok, baseOk>>

(* Mutant: the result of transaction() is ignored, as that of commit() is. *)
ConnectionFailsUnseen(r) ==
  /\ \/ \E from \in {"get", "set"} : goto(r, from, "refuse")
     \/ goto(r, "begin", "invoke")
  /\ UNCHANGED <<kind, connection, set, transaction, rollback, ok, baseOk>>

(* Any of the three may fail. *)
ConnectionFails(r) ==
  /\ \E from \in {"get", "set", "begin"} : goto(r, from, "refuse")
  /\ UNCHANGED <<kind, connection, set, transaction, rollback, ok, baseOk>>

(* Mutant: a request that was refused keeps its connection. *)
poolFinishInvoked(r) ==
  connection' = [connection EXCEPT ![r] = IF pc[r] = "refuse" THEN @ ELSE "none"]

poolFinish(r) == connection' = [connection EXCEPT ![r] = "none"]

(* pool.finish and connectionClear; the handler is not called. *)
Refused(r) ==
  /\ goto(r, "refuse", "destroy")
  /\ poolFinish(r)
  /\ set' = [set EXCEPT ![r] = FALSE]
  /\ UNCHANGED <<kind, transaction, rollback, ok, baseOk>>

-----------------------------------------------------------------------------
(* The handler *)

(* The handler, or Controller::resultInfo below it, sets the status. *)
SetsStatus(r) ==
  /\ pc[r] = "invoke"
  /\ \E value \in BOOLEAN : ok' = [ok EXCEPT ![r] = value]
  /\ UNCHANGED <<pc, kind, connection, set, transaction, rollback, baseOk>>

(* setTransactionRollbackForce, of the interface or of a controller that     *)
(* finds the interface among its parents.                                    *)
SetsRollbackForce(r) ==
  /\ pc[r] = "invoke"
  /\ \E value \in BOOLEAN : rollback' = [rollback EXCEPT ![r] = value]
  /\ UNCHANGED <<pc, kind, connection, set, transaction, ok, baseOk>>

Invoked(r) ==
  /\ goto(r, "invoke", "after")
  /\ UNCHANGED <<kind, connection, set, transaction, rollback, ok, baseOk>>

-----------------------------------------------------------------------------
(* requestAfterInvoke *)

(* Mutant: the connection is given back before the transaction is finished. *)
AfterInvokeClosing(r) ==
  /\ \E value \in BOOLEAN :
       /\ baseOk' = [baseOk EXCEPT ![r] = value]
       /\ goto(r, "after", IF value /\ set[r] THEN "finish" ELSE "destroy")
  /\ connection' = [connection EXCEPT ![r] = IF set[r] THEN "none" ELSE @]
  /\ UNCHANGED <<kind, set, transaction, rollback, ok>>

(* Without a connection of the object's own there is nothing to finish. *)
AfterInvoke(r) ==
  /\ \E value \in BOOLEAN :
       /\ baseOk' = [baseOk EXCEPT ![r] = value]
       /\ goto(r, "after", IF value /\ set[r] THEN "finish" ELSE "destroy")
  /\ UNCHANGED <<kind, connection, set, transaction, rollback, ok>>

(* Mutant: a forced rollback is tested only when the status is not OK. *)
isRollbackOfNotOk(r) == ~ok[r]

(* Mutant: the status is read after it was reset, and is never OK. *)
isRollbackAlways(r) == rollback[r] \/ ok[r] \in BOOLEAN

isRollback(r) == rollback[r] \/ ~ok[r]

RollsBack(r) ==
  /\ isRollback(r)
  /\ goto(r, "finish", "close")
  /\ becomes(r, "rolledback")
  /\ UNCHANGED <<kind, connection, set, rollback, ok, baseOk>>

(* The result of commit() is ignored: the database may have lost the writes. *)
Commits(r) ==
  /\ ~isRollback(r)
  /\ goto(r, "finish", "close")
  /\ becomes(r, "committed") \/ becomes(r, "lost")
  /\ UNCHANGED <<kind, connection, set, rollback, ok, baseOk>>

(* Mutant: connection.close() alone, the pool is not told. *)
ClosesConnectionOnly(r) ==
  /\ goto(r, "close", "destroy")
  /\ connection' = [connection EXCEPT ![r] = "closed"]
  /\ UNCHANGED <<kind, set, transaction, rollback, ok, baseOk>>

ClosesConnection(r) ==
  /\ goto(r, "close", "destroy")
  /\ poolFinish(r)
  /\ UNCHANGED <<kind, set, transaction, rollback, ok, baseOk>>

(* ~InterfacePvt rolls back what is still active. *)
Destroyed(r) ==
  /\ goto(r, "destroy", "gone")
  /\ becomes(r, IF transaction[r] = "active" THEN "rolledback" ELSE transaction[r])
  /\ UNCHANGED <<kind, connection, set, rollback, ok, baseOk>>

Proceeds(r) ==
  \/ Arrives(r)
  \/ GetsConnection(r)
  \/ SetsConnection(r)
  \/ BeginsTransaction(r)
  \/ ConnectionFails(r)
  \/ Refused(r)
  \/ Invoked(r)
  \/ AfterInvoke(r)
  \/ RollsBack(r)
  \/ Commits(r)
  \/ ClosesConnection(r)
  \/ Destroyed(r)

Next == \E r \in Requests : Proceeds(r) \/ SetsStatus(r) \/ SetsRollbackForce(r)

Spec == Init /\ [][Next]_vars

(* A pool that has no connection to give answers so, and handlers return. *)
FairSpec == Spec /\ \A r \in Requests : WF_vars(Proceeds(r))

-----------------------------------------------------------------------------
(* A transaction is only ever active on a connection the request still has:  *)
(* no path gives the connection back before it has committed or rolled back. *)
ActiveOnConnection ==
  \A r \in Requests : transaction[r] = "active" => connection[r] = "open" /\ set[r]

(* A handler runs only with all that its annotations ask for: a transaction  *)
(* that is active, on the connection the pool gave and setConnection took,   *)
(* or no transaction and no connection of the object's own at all.  After    *)
(* any preparation that fails, the handler is not reached.                   *)
HandlerPrepared ==
  \A r \in Requests :
    pc[r] = "invoke" =>
      /\ connection[r] = "open" <=> kind[r] \notin {"options", "noConnection"}
      /\ set[r] <=> kind[r] = "transaction"
      /\ transaction[r] = IF set[r] THEN "active" ELSE "none"

(* The writes of a handler that answered OK and forced no rollback are kept, *)
(* unless commit() failed unseen or the base class vetoed the answer.        *)
OkIsCommitted ==
  \A r \in Requests :
    pc[r] = "gone" /\ set[r] /\ baseOk[r] /\ ok[r] /\ ~rollback[r]
      => transaction[r] \in {"committed", "lost"}

(* A request with a transaction, refused or served, has given its connection *)
(* back when it is gone; only a veto of the base class makes it leak.  (One  *)
(* annotated dbReadOnly or dbNoTransaction never gives its connection back.) *)
ConnectionReturned ==
  \A r \in Requests :
    pc[r] = "gone" /\ kind[r] = "transaction" /\ connection[r] = "open"
      => ~baseOk[r] /\ transaction[r] = "rolledback"

(* What has become of the writes of each handler, and which handlers would   *)
(* have them kept.                                                           *)
outcome ==
  [r \in Requests |->
     IF transaction[r] \in {"none", "active"} THEN "open"
     ELSE IF transaction[r] = "committed" THEN "applied" ELSE "discarded"]

wanted == {r \in Requests : ok[r] /\ ~rollback[r]}

(* The requests implement RequestOutcome: the writes of each are applied or  *)
(* discarded as a whole and once, and applied only if its handler wants it.  *)
Outcome == INSTANCE RequestOutcome

OutcomeSpec == Outcome!Spec

(* Every request that arrives is answered and destroyed, even when other     *)
(* requests have used up the connections of the database.                    *)
RequestsEnd == \A r \in Requests : pc[r] = "get" ~> pc[r] = "gone"

=============================================================================
