--------------------------- MODULE RequestHandler ---------------------------
(***************************************************************************)
(* What the handlers of one thread do while they are invoked (the hooks    *)
(* have let them in, see InterfaceRequest): they construct the objects of  *)
(* their requests and call controllers, messages and services, one after   *)
(* the other.                                                              *)
(*                                                                         *)
(* The objects form trees.  To force a rollback, a Controller looks for    *)
(* its request among itself and those above it, and keeps what it finds.   *)
(* The last result, lr(), is the thread's: every object of the thread      *)
(* leaves its failures there, whichever request it works for.  The server, *)
(* the services that are called, and the results controllers come to are   *)
(* external.                                                               *)
(***************************************************************************)
EXTENDS Integers

CONSTANTS
  Objects,
  NoObject,  \* the null pointer
  Kind,      \* Kind[o]: the class of o
  Parent,    \* Parent[o]: its parent, or NoObject
  MaxCalls   \* bound: how many calls and constructions the thread makes

Kinds ==
  {"Interface", "Maintence", "Actuator", "Printer",  \* controllers of QRpc: requests
   "Controller"}

ASSUME ObjectsAssumption ==
  /\ NoObject \notin Objects
  /\ Kind \in [Objects -> Kinds]
  /\ Parent \in [Objects -> Objects \cup {NoObject}]

ASSUME CallsAssumption == MaxCalls \in Nat

Of(kind) == {o \in Objects : Kind[o] = kind}

Interfaces == Of("Interface")

Checked == Of("Maintence") \cup Of("Actuator")

Requests == Interfaces \cup Checked \cup Of("Printer")

Controllers == Of("Controller")

VARIABLES
  status,    \* status[r]: the status code of the answer to request r
  rollback,  \* rollback[i]: transactionRollbackForce of interface i
  request,   \* request[o]: what o keeps of its search
  lr,        \* the last result of the thread
  walk,      \* the search that goes on, or NoWalk
  server,    \* whether the server and its interfaces run
  quit,      \* the application was told to quit
  calls,
  asked,     \* asked[i]: the rollback last asked for where i is the request
  told,      \* the requests that were told a failure and have not answered anew
  failed     \* the interfaces since whose construction a call of the thread failed

resultVars == <<lr, failed>>
answerVars == <<status, told, resultVars>>
searchVars == <<rollback, request, asked>>
serverVars == <<server, quit>>
vars == <<answerVars, searchVars, serverVars, walk, calls>>

NoWalk == [of |-> NoObject, at |-> NoObject, value |-> FALSE]

Init ==
  /\ status = [r \in Requests |-> "ok"]
  /\ rollback = [i \in Interfaces |-> FALSE]
  /\ request = [o \in Controllers |-> NoObject]
  /\ lr = "ok"
  /\ walk = NoWalk
  /\ server = [running |-> TRUE, interfaces |-> TRUE]
  /\ quit = FALSE
  /\ calls = 0
  /\ asked = [i \in Interfaces |-> FALSE]
  /\ told = {}
  /\ failed = {}

Calls == walk = NoWalk /\ calls < MaxCalls /\ calls' = calls + 1

(* A result becomes the thread's last one. *)
Results(result) ==
  /\ lr' = result
  /\ failed' = IF result = "ok" THEN failed ELSE Interfaces

-----------------------------------------------------------------------------
(* The request of an object, as it should be found: the Interface that can   *)
(* be reached from its parent with no other one on the way.                  *)
Reached(x) ==
  LET closed == {S \in SUBSET Objects : \A z \in S \ Interfaces : Parent[z] \in S \cup {NoObject}}
  IN  {y \in Objects : \A S \in closed : x \in S => y \in S}

Nearest ==
  [x \in Objects |->
     IF Reached(x) \cap Interfaces = {} THEN NoObject
     ELSE CHOOSE i \in Reached(x) \cap Interfaces : TRUE]

RequestOf(o) == IF Parent[o] = NoObject THEN NoObject ELSE Nearest[Parent[o]]

(* setTransactionRollbackForce: at once where the request is known, and else *)
(* after a search that begins with the controller itself.                    *)
AsksRollback(c, value) ==
  /\ Calls
  /\ IF request[c] # NoObject
       THEN rollback' = [rollback EXCEPT ![request[c]] = value] /\ UNCHANGED walk
       ELSE walk' = [of |-> c, at |-> c, value |-> value] /\ UNCHANGED rollback
  /\ asked' = IF RequestOf(c) # NoObject THEN [asked EXCEPT ![RequestOf(c)] = value] ELSE asked
  /\ UNCHANGED <<answerVars, request, serverVars>>

(* The search ends at the object it is at, and sets the rollback there. *)
found ==
  /\ request' = [request EXCEPT ![walk.of] = walk.at]
  /\ rollback' = [rollback EXCEPT ![walk.at] = walk.value]
  /\ walk' = NoWalk
  /\ UNCHANGED <<answerVars, asked, serverVars, calls>>

goesOn ==
  /\ walk' = [walk EXCEPT !.at = Parent[@]]
  /\ UNCHANGED <<answerVars, searchVars, serverVars, calls>>

(* Mutant: the search goes on to the outermost Interface. *)
reqOutermost ==
  /\ walk.at # NoObject
  /\ IF walk.at \in Interfaces /\ Parent[walk.at] \notin Interfaces THEN found ELSE goesOn

(* Mutant: an object that is no Interface is tested again. *)
reqRepeats ==
  /\ walk.at # NoObject
  /\ IF walk.at \in Interfaces THEN found ELSE UNCHANGED vars

(* The search of a Controller: on to the parent where it finds no Interface. *)
req ==
  /\ walk.at # NoObject
  /\ IF walk.at \in Interfaces THEN found ELSE goesOn

(* At the top: no request, and the rollback is not set. *)
NotFound ==
  /\ walk # NoWalk /\ walk.at = NoObject
  /\ walk' = NoWalk
  /\ UNCHANGED <<answerVars, searchVars, serverVars, calls>>

-----------------------------------------------------------------------------
(* The objects that are made with r: those whose parents lead to it. *)
Below ==
  LET closed == {S \in SUBSET Objects : \A z \in S : Parent[z] \in S \cup {NoObject}}
  IN  [r \in Requests |-> {o \in Objects : \A S \in closed : o \in S => r \in S}]

(* Mutant: the errors of the thread stay. *)
clearNot == UNCHANGED lr

(* "clear thread erros", of the constructor of Interface. *)
clear == lr' = "ok"

(* The thread goes on to a new request, or a handler makes one: the names of *)
(* r and of what is below stand for new objects.  Only where an Interface is *)
(* among them is the last result of the thread cleared.                      *)
Constructed(r) ==
  /\ Calls
  /\ status' = [q \in Requests |-> IF q \in Below[r] THEN "ok" ELSE status[q]]
  /\ rollback' = [i \in Interfaces |-> rollback[i] /\ i \notin Below[r]]
  /\ request' = [c \in Controllers |-> IF c \in Below[r] THEN NoObject ELSE request[c]]
  /\ IF Below[r] \cap Interfaces # {} THEN clear ELSE UNCHANGED lr
  /\ asked' = [i \in Interfaces |-> asked[i] /\ i \notin Below[r]]
  /\ told' = told \ Below[r]
  /\ failed' = failed \ Below[r]
  /\ UNCHANGED <<serverVars, walk>>

(* A method of a controller of the program comes to a result. *)
Works ==
  /\ Calls
  /\ \E result \in {"ok", "critical"} : Results(result)
  /\ UNCHANGED <<status, told, searchVars, serverVars, walk>>

(* Controller::resultInfo: a last result that is not OK becomes the status   *)
(* of the request that is the parent.                                        *)
resultInfo(c) ==
  /\ Calls
  /\ IF Parent[c] \in Requests /\ lr # "ok"
       THEN status' = [status EXCEPT ![Parent[c]] = lr] /\ told' = told \cup {Parent[c]}
       ELSE UNCHANGED <<status, told>>
  /\ UNCHANGED <<resultVars, searchVars, serverVars, walk>>

(* sendMessage: the message service takes the fields of a message, its       *)
(* payload and attachments, or refuses.                                      *)
sendMessage == BOOLEAN

(* The same for a text, with a type, an address and a token of the service. *)
sendText == BOOLEAN

Sent(sent) ==
  /\ Results(IF sent THEN lr ELSE "critical")
  /\ UNCHANGED <<status, told, searchVars, serverVars, walk>>

(* UtilMessage::send, sendSMS, sendPushNotify, sendTelegram, sendEmail and   *)
(* sendWhatsApp answer the last result of the thread, which a failure sets   *)
(* and no success clears.                                                    *)
send == Calls /\ \E sent \in sendMessage : Sent(sent)

sendTo == Calls /\ \E sent \in sendText : Sent(sent)

(* Mutant: an answer may be none of the codes. *)
setOKWrong(r, code) ==
  /\ status' = [status EXCEPT ![r] = IF code = "ok" THEN "" ELSE code]
  /\ told' = told \ {r}

(* An answer that is set whatever was answered before. *)
setOK(r, code) ==
  /\ status' = [status EXCEPT ![r] = code]
  /\ told' = told \ {r}

AnswersCheck(r) ==
  /\ Calls
  /\ \E code \in {"ok", "notImplemented"} : setOK(r, code)
  /\ UNCHANGED <<resultVars, searchVars, serverVars, walk>>

(* Interface::check, ping, fullCheck and connectionsCheck; businessCheck is  *)
(* there to be overridden.                                                   *)
Checks(i) == i \in Interfaces /\ AnswersCheck(i)

(* The same of QAPR_DECLARE_INTERFACE_METHOD_CHECK. *)
ChecksByMacro(r) == r \in Checked /\ AnswersCheck(r)

(* InterfacePrinter::execute passes the request on to the print service.  A  *)
(* refusal goes to the last result as no success, which counts as not OK, or *)
(* its message alone does not, and from there to the status.                 *)
execute(p) ==
  /\ Calls
  /\ \E printed, notOk \in BOOLEAN :
       IF printed
         THEN UNCHANGED <<status, told, resultVars>>
         ELSE LET result == IF notOk THEN "critical" ELSE lr
              IN  /\ Results(result)
                  /\ IF result # "ok"
                       THEN status' = [status EXCEPT ![p] = result] /\ told' = told \cup {p}
                       ELSE UNCHANGED <<status, told>>
  /\ UNCHANGED <<searchVars, serverVars, walk>>

-----------------------------------------------------------------------------
(* The commands of InterfaceMaintence, to the server they are answered by. *)
stop == [running |-> FALSE, interfaces |-> FALSE]

Commands(m, after) ==
  /\ Calls
  /\ server' = after
  /\ setOK(m, "ok")
  /\ UNCHANGED <<resultVars, searchVars, walk>>

serverStart(m) == Commands(m, [server EXCEPT !.interfaces = TRUE]) /\ UNCHANGED quit

serverStop(m) == Commands(m, [server EXCEPT !.interfaces = FALSE]) /\ UNCHANGED quit

(* serverRestart and servicesCheck call start() and then stop(), the last word. *)
serverRestart(m) == Commands(m, stop) /\ UNCHANGED quit

applicationQuit(m) == Commands(m, stop) /\ quit' = TRUE

-----------------------------------------------------------------------------
Searching == req \/ NotFound

Next ==
  \/ Searching
  \/ \E c \in Controllers, value \in BOOLEAN : AsksRollback(c, value)
  \/ \E r \in Requests : Constructed(r)
  \/ \E c \in Controllers : resultInfo(c)
  \/ Works \/ send \/ sendTo
  \/ \E r \in Requests : Checks(r) \/ ChecksByMacro(r)
  \/ \E p \in Of("Printer") : execute(p)
  \/ \E m \in Of("Maintence") :
       serverStart(m) \/ serverStop(m) \/ serverRestart(m) \/ applicationQuit(m)

Spec == Init /\ [][Next]_vars

(* A thread runs the search it is in: nothing else can happen to it. *)
FairSpec == Spec /\ WF_vars(Searching)

-----------------------------------------------------------------------------
(* The type of every variable of a handler. *)
TypeOK ==
  /\ status \in [Requests -> {"ok", "critical", "notImplemented"}]
  /\ rollback \in [Interfaces -> BOOLEAN]
  /\ request \in [Controllers -> Interfaces \cup {NoObject}]
  /\ lr \in {"ok", "critical"}
  /\ walk \in [of : Objects \cup {NoObject}, at : Objects \cup {NoObject}, value : BOOLEAN]
  /\ server \in [running : BOOLEAN, interfaces : BOOLEAN]
  /\ quit \in BOOLEAN
  /\ calls \in 0 .. MaxCalls
  /\ asked \in [Interfaces -> BOOLEAN]
  /\ told \subseteq Requests
  /\ failed \subseteq Interfaces

(* Between calls, an interface is told to roll back exactly when the last    *)
(* call that concerned it asked for that, whoever made it and however deep   *)
(* below the interface: what the searches find and keep (ControllerPvt::req) *)
(* is the nearest interface above, and never another or an earlier one.      *)
RollbackReachesNearest == walk = NoWalk => rollback = asked

(* Though the last result is shared by all objects of the thread, an         *)
(* interface answers only for what failed since it was constructed, and      *)
(* never for an earlier request of the thread (InterfacePvt clears it); and  *)
(* the failure a request was told is not lost to a later success, until the  *)
(* request itself answers anew (Controller::resultInfo).                     *)
AnswersOwnFailures ==
  /\ \A i \in Interfaces \ failed : status[i] # "critical"
  /\ \A r \in told : status[r] # "ok"

(* Every search for the request ends, wherever its controller is.            *)
WalksEnd == \A c \in Controllers : walk.of = c ~> walk = NoWalk

=============================================================================
