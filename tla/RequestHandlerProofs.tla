----------------------- MODULE RequestHandlerProofs -----------------------
(***************************************************************************)
(* Proofs about RequestHandler, for every tree of objects and any number   *)
(* of calls and constructions: a rollback reaches the nearest interface    *)
(* above whoever asked for it, and an interface answers its own failures,  *)
(* though the last result is the thread's.                                 *)
(***************************************************************************)
EXTENDS RequestHandler, TLAPS

-----------------------------------------------------------------------------
(* Only an object that can search is in a search, and only then is there     *)
(* somewhere to look.                                                        *)
SeekerWalks == walk = NoWalk \/ walk.of \in Controllers

(* A failure that is the thread's last result is one that no interface was   *)
(* constructed after: where one was, the result was cleared.                 *)
LastSince == lr # "ok" => failed = Interfaces

(* The inductive invariant: AnswersOwnFailures needs LastSince, for the      *)
(* status a request takes from the last result, and the types, which need    *)
(* SeekerWalks, for what a search keeps.                                     *)
IInv == TypeOK /\ SeekerWalks /\ LastSince /\ AnswersOwnFailures

(* The kinds are disjoint. *)
LEMMA KindsDisjoint ==
  /\ Controllers \cap Requests = {}
  /\ Requests \subseteq Objects /\ Controllers \subseteq Objects /\ Interfaces \subseteq Requests
BY DEF Of, Interfaces, Checked, Requests, Controllers

(* The bound counts up. *)
LEMMA CallsType == ASSUME IInv, Calls PROVE calls' \in 0 .. MaxCalls
BY CallsAssumption DEF IInv, TypeOK, Calls

-----------------------------------------------------------------------------
(* A step of a search: it ends at an interface, or goes on to the parent. *)
LEMMA FoundStep ==
  ASSUME IInv, walk.at \in Interfaces, found
  PROVE  IInv'
<1>1. walk.at # NoObject
  BY ObjectsAssumption DEF Interfaces, Of
<1>2. walk # NoWalk
  BY <1>1 DEF NoWalk
<1>3. request' \in [Controllers -> Interfaces \cup {NoObject}]
  BY DEF found, IInv, TypeOK
<1>4. rollback' \in [Interfaces -> BOOLEAN]
  BY DEF found, IInv, TypeOK
<1> QED
  BY <1>3, <1>4
     DEF found, IInv, TypeOK, SeekerWalks, LastSince, AnswersOwnFailures, NoWalk, answerVars,
         resultVars, serverVars

LEMMA GoesOnStep ==
  ASSUME IInv, walk.at # NoObject, goesOn
  PROVE  IInv'
<1>1. walk # NoWalk
  BY DEF NoWalk
<1>2. walk.at \in Objects
  BY DEF IInv, TypeOK
<1>3. walk' \in [of : Objects \cup {NoObject}, at : Objects \cup {NoObject}, value : BOOLEAN]
      /\ walk'.of = walk.of
  BY <1>2, ObjectsAssumption DEF goesOn, IInv, TypeOK
<1> QED
  BY <1>1, <1>3
     DEF goesOn, IInv, TypeOK, SeekerWalks, LastSince, AnswersOwnFailures, answerVars, resultVars,
         searchVars, serverVars

LEMMA SearchStep == ASSUME IInv, Searching PROVE IInv'
<1>1. CASE NotFound
  BY <1>1
     DEF NotFound, NoWalk, answerVars, resultVars, searchVars, serverVars, IInv, TypeOK,
         SeekerWalks, LastSince, AnswersOwnFailures
<1>2. CASE req
  BY <1>2, FoundStep, GoesOnStep DEF req
<1> QED
  BY <1>1, <1>2 DEF Searching

(* Asking for a rollback sets it at once, or begins a search. *)
LEMMA AskStep ==
  ASSUME IInv, NEW c \in Controllers, NEW value \in BOOLEAN, AsksRollback(c, value)
  PROVE  IInv'
<1>1. c \in Objects
  BY KindsDisjoint
<1>2. rollback' \in [Interfaces -> BOOLEAN]
  BY DEF AsksRollback, IInv, TypeOK
<1>3. asked' \in [Interfaces -> BOOLEAN]
  BY DEF AsksRollback, IInv, TypeOK
<1>4. /\ walk' \in [of : Objects \cup {NoObject}, at : Objects \cup {NoObject}, value : BOOLEAN]
      /\ SeekerWalks'
  BY <1>1 DEF AsksRollback, IInv, TypeOK, SeekerWalks
<1> QED
  BY <1>2, <1>3, <1>4, CallsType
     DEF AsksRollback, IInv, TypeOK, LastSince, AnswersOwnFailures, answerVars, resultVars,
         serverVars

-----------------------------------------------------------------------------
(* The other calls change no search. *)
NoSearch == walk = NoWalk /\ walk' = walk /\ UNCHANGED searchVars

LEMMA AnswerStep ==
  ASSUME IInv, Calls, NoSearch, UNCHANGED server, UNCHANGED quit,
         status' \in [Requests -> {"ok", "critical", "notImplemented"}],
         lr' \in {"ok", "critical"}, told' \subseteq Requests, failed' \subseteq Interfaces,
         LastSince', AnswersOwnFailures'
  PROVE  IInv'
BY CallsType DEF IInv, TypeOK, SeekerWalks, NoSearch, searchVars

(* A result becomes the last one, and no status changes. *)
LEMMA ResultsStep ==
  ASSUME IInv, NEW result \in {"ok", "critical"}, Results(result), UNCHANGED <<status, told>>
  PROVE  /\ lr' \in {"ok", "critical"} /\ failed' \subseteq Interfaces
         /\ LastSince' /\ AnswersOwnFailures'
BY DEF Results, IInv, TypeOK, LastSince, AnswersOwnFailures

(* A request is told the last result, which is a failure. *)
LEMMA ToldStep ==
  ASSUME IInv, NEW r \in Requests, failed' = Interfaces, lr' = "critical",
         status' = [status EXCEPT ![r] = "critical"], told' = told \cup {r}
  PROVE  /\ status' \in [Requests -> {"ok", "critical", "notImplemented"}]
         /\ told' \subseteq Requests /\ LastSince' /\ AnswersOwnFailures'
BY DEF IInv, TypeOK, LastSince, AnswersOwnFailures

LEMMA WorksStep == ASSUME IInv, Works \/ send \/ sendTo PROVE IInv'
<1>1. PICK result \in {"ok", "critical"} : Results(result)
  BY DEF Works, send, sendTo, sendMessage, sendText, Sent, IInv, TypeOK
<1>2. Calls /\ NoSearch /\ UNCHANGED <<server, quit, status, told>>
  BY DEF Works, send, sendTo, Sent, NoSearch, Calls, serverVars
<1> QED
  BY <1>1, <1>2, ResultsStep, AnswerStep DEF IInv, TypeOK

LEMMA ResultInfoStep ==
  ASSUME IInv, NEW c \in Controllers, resultInfo(c)
  PROVE  IInv'
<1>1. Calls /\ NoSearch /\ UNCHANGED <<server, quit, lr, failed>>
  BY DEF resultInfo, resultVars, NoSearch, Calls, serverVars
<1>2. CASE Parent[c] \in Requests /\ lr # "ok"
  <2>1. lr' = "critical" /\ failed' = Interfaces
    BY <1>1, <1>2 DEF IInv, TypeOK, LastSince
  <2>2. status' = [status EXCEPT ![Parent[c]] = "critical"] /\ told' = told \cup {Parent[c]}
    BY <1>1, <1>2, <2>1 DEF resultInfo
  <2> QED
    BY <1>1, <1>2, <2>1, <2>2, ToldStep, AnswerStep
<1>3. CASE UNCHANGED <<status, told>>
  BY <1>1, <1>3, AnswerStep DEF IInv, TypeOK, LastSince, AnswersOwnFailures
<1> QED
  BY <1>2, <1>3 DEF resultInfo

LEMMA PrintStep ==
  ASSUME IInv, NEW q \in Of("Printer"), execute(q)
  PROVE  IInv'
<1>1. q \in Requests
  BY DEF Requests
<1>2. Calls /\ NoSearch /\ UNCHANGED <<server, quit>>
  BY DEF execute, NoSearch, Calls, serverVars
<1>3. CASE UNCHANGED <<status, told, lr, failed>>
  BY <1>2, <1>3, AnswerStep DEF IInv, TypeOK, LastSince, AnswersOwnFailures
<1>4. CASE \E result \in {"ok", "critical"} :
             /\ Results(result)
             /\ IF result # "ok"
                  THEN status' = [status EXCEPT ![q] = result] /\ told' = told \cup {q}
                  ELSE UNCHANGED <<status, told>>
  <2>1. PICK result \in {"ok", "critical"} :
             /\ Results(result)
             /\ IF result # "ok"
                  THEN status' = [status EXCEPT ![q] = result] /\ told' = told \cup {q}
                  ELSE UNCHANGED <<status, told>>
    BY <1>4
  <2>2. CASE result = "ok"
    BY <1>2, <2>1, <2>2, ResultsStep, AnswerStep DEF IInv, TypeOK
  <2>3. CASE result = "critical"
    <3>1. lr' = "critical" /\ failed' = Interfaces
      BY <2>1, <2>3 DEF Results
    <3>2. status' = [status EXCEPT ![q] = "critical"] /\ told' = told \cup {q}
      BY <2>1, <2>3
    <3> QED
      BY <1>1, <1>2, <3>1, <3>2, ToldStep, AnswerStep
  <2> QED
    BY <2>2, <2>3
<1>5. lr \in {"ok", "critical"}
  BY DEF IInv, TypeOK
<1> QED
  BY <1>3, <1>4, <1>5 DEF execute, resultVars

(* A request is answered anew. *)
LEMMA SetStep ==
  ASSUME IInv, NEW r \in Requests, NEW code \in {"ok", "notImplemented"}, setOK(r, code),
         UNCHANGED <<lr, failed>>
  PROVE  /\ status' \in [Requests -> {"ok", "critical", "notImplemented"}]
         /\ told' \subseteq Requests /\ LastSince' /\ AnswersOwnFailures'
BY DEF setOK, IInv, TypeOK, LastSince, AnswersOwnFailures

LEMMA CheckStep ==
  ASSUME IInv, NEW r \in Requests, AnswersCheck(r)
  PROVE  IInv'
<1>1. PICK code \in {"ok", "notImplemented"} : setOK(r, code)
  BY DEF AnswersCheck
<1>2. Calls /\ NoSearch /\ UNCHANGED <<server, quit, lr, failed>>
  BY DEF AnswersCheck, resultVars, NoSearch, Calls, serverVars
<1> QED
  BY <1>1, <1>2, SetStep, AnswerStep DEF IInv, TypeOK

(* New objects: what they keep of searches, answers and failures is gone,    *)
(* and with an Interface among them so is the last result.                   *)
LEMMA ConstructedStep ==
  ASSUME IInv, NEW r \in Requests, Constructed(r)
  PROVE  IInv'
<1>1. /\ status' \in [Requests -> {"ok", "critical", "notImplemented"}]
      /\ request' \in [Controllers -> Interfaces \cup {NoObject}]
  BY DEF Constructed, IInv, TypeOK
<1>2. /\ rollback' \in [Interfaces -> BOOLEAN]
      /\ asked' \in [Interfaces -> BOOLEAN]
  BY DEF Constructed, IInv, TypeOK
<1>3. lr' \in {"ok", "critical"} /\ told' \subseteq Requests /\ failed' \subseteq Interfaces
  BY DEF Constructed, clear, IInv, TypeOK
<1>4. LastSince'
  <2>1. CASE Below[r] \cap Interfaces = {}
    <3>1. lr' = lr /\ failed' = failed
      BY <2>1 DEF Constructed, IInv, TypeOK
    <3> QED
      BY <3>1 DEF IInv, LastSince
  <2>2. CASE Below[r] \cap Interfaces # {}
    BY <2>2 DEF Constructed, clear, LastSince
  <2> QED
    BY <2>1, <2>2
<1>5. AnswersOwnFailures'
  <2>1. \A q \in Requests : status'[q] = IF q \in Below[r] THEN "ok" ELSE status[q]
    BY DEF Constructed
  <2>2. failed' = failed \ Below[r] /\ told' = told \ Below[r]
    BY DEF Constructed
  <2> QED
    BY <2>1, <2>2, KindsDisjoint DEF IInv, TypeOK, AnswersOwnFailures
<1>6. UNCHANGED <<walk, server, quit>> /\ Calls
  BY DEF Constructed, serverVars
<1> QED
  BY <1>1, <1>2, <1>3, <1>4, <1>5, <1>6, CallsType DEF IInv, TypeOK, SeekerWalks

LEMMA CommandStep ==
  ASSUME IInv, NEW m \in Of("Maintence"),
         serverStart(m) \/ serverStop(m) \/ serverRestart(m) \/ applicationQuit(m)
  PROVE  IInv'
<1>1. m \in Requests
  BY DEF Requests, Checked
<1>2. PICK after \in [running : BOOLEAN, interfaces : BOOLEAN] : Commands(m, after)
  BY DEF serverStart, serverStop, serverRestart, applicationQuit, stop, IInv, TypeOK
<1>3. quit' \in BOOLEAN
  BY DEF serverStart, serverStop, serverRestart, applicationQuit, IInv, TypeOK
<1>4. Calls /\ UNCHANGED <<lr, failed, walk, searchVars>> /\ server' = after /\ setOK(m, "ok")
  BY <1>2 DEF Commands, resultVars
<1>5. /\ status' \in [Requests -> {"ok", "critical", "notImplemented"}]
      /\ told' \subseteq Requests /\ LastSince' /\ AnswersOwnFailures'
  BY <1>1, <1>4, SetStep
<1> QED
  BY <1>2, <1>3, <1>4, <1>5, CallsType DEF IInv, TypeOK, SeekerWalks, searchVars

-----------------------------------------------------------------------------
(* The inductive invariant holds of every reachable state. *)
THEOREM Invariance == Spec => []IInv
<1>1. Init => IInv
  <2> SUFFICES ASSUME Init PROVE IInv
    OBVIOUS
  <2>1. walk \in [of : Objects \cup {NoObject}, at : Objects \cup {NoObject}, value : BOOLEAN]
    BY DEF Init, NoWalk
  <2>2. /\ rollback \in [Interfaces -> BOOLEAN] /\ asked \in [Interfaces -> BOOLEAN]
        /\ server \in [running : BOOLEAN, interfaces : BOOLEAN] /\ quit \in BOOLEAN
    BY DEF Init
  <2>3. /\ status \in [Requests -> {"ok", "critical", "notImplemented"}]
        /\ request \in [Controllers -> Interfaces \cup {NoObject}]
        /\ lr \in {"ok", "critical"} /\ LastSince
    BY DEF Init, LastSince
  <2>4. calls \in 0 .. MaxCalls /\ told = {} /\ failed = {} /\ walk = NoWalk
    BY CallsAssumption DEF Init
  <2>5. \A i \in Interfaces : status[i] = "ok"
    BY KindsDisjoint DEF Init
  <2> QED
    BY <2>1, <2>2, <2>3, <2>4, <2>5 DEF IInv, TypeOK, SeekerWalks, LastSince, AnswersOwnFailures
<1>2. IInv /\ [Next]_vars => IInv'
  <2> SUFFICES ASSUME IInv, [Next]_vars PROVE IInv'
    OBVIOUS
  <2>1. CASE UNCHANGED vars
    BY <2>1
       DEF vars, answerVars, resultVars, searchVars, serverVars, IInv, TypeOK, SeekerWalks,
           LastSince, AnswersOwnFailures
  <2>2. CASE Searching
    BY <2>2, SearchStep
  <2>3. CASE \E c \in Controllers, value \in BOOLEAN : AsksRollback(c, value)
    BY <2>3, AskStep
  <2>4. CASE \E r \in Requests : Constructed(r)
    BY <2>4, ConstructedStep
  <2>5. CASE \E c \in Controllers : resultInfo(c)
    BY <2>5, ResultInfoStep
  <2>6. CASE Works \/ send \/ sendTo
    BY <2>6, WorksStep
  <2>7. CASE \E r \in Requests : Checks(r) \/ ChecksByMacro(r)
    BY <2>7, CheckStep DEF Checks, ChecksByMacro
  <2>8. CASE \E p \in Of("Printer") : execute(p)
    BY <2>8, PrintStep
  <2>9. CASE \E m \in Of("Maintence") :
               serverStart(m) \/ serverStop(m) \/ serverRestart(m) \/ applicationQuit(m)
    BY <2>9, CommandStep
  <2> QED
    BY <2>1, <2>2, <2>3, <2>4, <2>5, <2>6, <2>7, <2>8, <2>9 DEF Next
<1> QED
  BY <1>1, <1>2, PTL DEF Spec

-----------------------------------------------------------------------------
(* The nearest interface.  From an interface it is that interface; from      *)
(* another object it is the one from the parent.                             *)
Closed ==
  {S \in SUBSET Objects : \A z \in S \ Interfaces : Parent[z] \in S \cup {NoObject}}

LEMMA ReachedIs ==
  ASSUME NEW x PROVE Reached(x) = {y \in Objects : \A S \in Closed : x \in S => y \in S}
BY DEF Reached, Closed

LEMMA ReachedClosed ==
  ASSUME NEW x \in Objects
  PROVE  Reached(x) \in Closed /\ x \in Reached(x)
<1>1. x \in Reached(x) /\ Reached(x) \in SUBSET Objects
  BY ReachedIs
<1>2. ASSUME NEW z \in Reached(x), z \notin Interfaces, Parent[z] # NoObject
      PROVE  Parent[z] \in Reached(x)
  <2>1. z \in Objects /\ Parent[z] \in Objects
    BY <1>1, <1>2, ObjectsAssumption
  <2>2. ASSUME NEW S \in Closed, x \in S PROVE Parent[z] \in S
    <3>1. z \in S
      BY <2>2, ReachedIs
    <3> QED
      BY <1>2, <3>1 DEF Closed
  <2> QED
    BY <2>1, <2>2, ReachedIs
<1> QED
  BY <1>1, <1>2 DEF Closed

(* Nothing is reached but what every closed set of objects has to contain. *)
LEMMA ReachedLeast ==
  ASSUME NEW x, NEW S \in Closed, x \in S
  PROVE  Reached(x) \subseteq S
BY ReachedIs

LEMMA NearestHere ==
  ASSUME NEW i \in Interfaces
  PROVE  Nearest[i] = i
<1>1. i \in Objects
  BY DEF Interfaces, Of
<1>2. {i} \in Closed
  BY <1>1 DEF Closed
<1>3. Reached(i) = {i}
  BY <1>1, <1>2, ReachedLeast, ReachedClosed
<1> QED
  BY <1>1, <1>3 DEF Nearest

LEMMA NearestAbove ==
  ASSUME NEW x \in Objects, x \notin Interfaces
  PROVE  Nearest[x] = RequestOf(x)
<1>1. CASE Parent[x] = NoObject
  <2>1. {x} \in Closed
    BY <1>1 DEF Closed
  <2>2. Reached(x) \cap Interfaces = {}
    BY <2>1, ReachedLeast
  <2> QED
    BY <1>1, <2>2 DEF Nearest, RequestOf
<1>2. CASE Parent[x] # NoObject
  <2> DEFINE p == Parent[x]
  <2>1. p \in Objects
    BY <1>2, ObjectsAssumption
  <2>2. Reached(p) \in Closed /\ p \in Reached(p)
    BY <2>1, ReachedClosed
  <2>3. {x} \cup Reached(p) \in Closed
    BY <2>2 DEF Closed
  <2>4. Reached(x) \subseteq {x} \cup Reached(p)
    BY <2>3, ReachedLeast
  <2>5. Reached(x) \in Closed /\ x \in Reached(x)
    BY ReachedClosed
  <2>6. p \in Reached(x)
    BY <1>2, <2>5 DEF Closed
  <2>7. Reached(p) \subseteq Reached(x)
    BY <2>5, <2>6, ReachedLeast
  <2>8. Reached(x) \cap Interfaces = Reached(p) \cap Interfaces
    BY <2>4, <2>7
  <2> DEFINE Pick(S) == IF S = {} THEN NoObject ELSE CHOOSE i \in S : TRUE
  <2>9. /\ Nearest[x] = Pick(Reached(x) \cap Interfaces)
        /\ Nearest[p] = Pick(Reached(p) \cap Interfaces)
    BY <2>1 DEF Nearest
  <2>10. Nearest[x] = Nearest[p]
    <3> HIDE DEF Pick, p
    <3> QED
      BY <2>8, <2>9
  <2> QED
    BY <1>2, <2>10 DEF RequestOf
<1> QED
  BY <1>1, <1>2

LEMMA RequestType ==
  /\ \A x \in Objects : Nearest[x] \in Interfaces \cup {NoObject}
  /\ \A o \in Objects : RequestOf(o) \in Interfaces \cup {NoObject}
<1>1. ASSUME NEW x \in Objects PROVE Nearest[x] \in Interfaces \cup {NoObject}
  BY DEF Nearest
<1> QED
  BY <1>1, ObjectsAssumption DEF RequestOf

-----------------------------------------------------------------------------
(* What a search that is at x will find. *)
Ahead(x) == IF x = NoObject THEN NoObject ELSE Nearest[x]

(* A kept request is the right one.  While a search goes on, it is on its    *)
(* way to the right one, and what was asked is what will be the case once    *)
(* it has set the rollback there, if there is one.                           *)
KeptRight == \A o \in Controllers : request[o] # NoObject => request[o] = RequestOf(o)

AskedPending ==
  IF walk = NoWalk THEN rollback = asked
  ELSE /\ Ahead(walk.at) = RequestOf(walk.of)
       /\ asked = IF RequestOf(walk.of) = NoObject THEN rollback
                  ELSE [rollback EXCEPT ![RequestOf(walk.of)] = walk.value]

(* The inductive invariant of the rollback: where RollbackReachesNearest     *)
(* only speaks of the time between calls, AskedPending says how far a search *)
(* is, and KeptRight that no later call needs another one.                   *)
RInv == IInv /\ KeptRight /\ AskedPending

LEMMA AsksReaches ==
  ASSUME RInv, IInv', NEW o \in Controllers, NEW value \in BOOLEAN, AsksRollback(o, value)
  PROVE  RInv'
<1>1. o \in Objects /\ o # NoObject /\ walk = NoWalk /\ rollback = asked /\ o \notin Interfaces
  BY KindsDisjoint, ObjectsAssumption DEF AsksRollback, Calls, RInv, AskedPending
<1>2. KeptRight'
  BY DEF AsksRollback, RInv, KeptRight
<1>3. asked' = IF RequestOf(o) = NoObject THEN rollback
               ELSE [rollback EXCEPT ![RequestOf(o)] = value]
  BY <1>1 DEF AsksRollback
<1>4. CASE request[o] # NoObject
  <2>1. walk' = NoWalk /\ rollback' = [rollback EXCEPT ![RequestOf(o)] = value]
    BY <1>1, <1>4 DEF AsksRollback, RInv, KeptRight
  <2>2. RequestOf(o) # NoObject
    BY <1>4 DEF RInv, KeptRight
  <2> QED
    BY <1>2, <1>3, <2>1, <2>2 DEF RInv, AskedPending, NoWalk
<1>5. CASE request[o] = NoObject
  <2>1. /\ walk' = [of |-> o, at |-> o, value |-> value]
        /\ rollback' = rollback
    BY <1>5 DEF AsksRollback
  <2>2. walk'.of = o /\ walk'.at = o /\ walk'.value = value
    BY <2>1
  <2>3. walk' # NoWalk
    BY <1>1, <2>2 DEF NoWalk
  <2>4. Ahead(o) = RequestOf(o)
    BY <1>1, NearestAbove DEF Ahead
  <2>5. AskedPending'
    BY <1>3, <2>1, <2>2, <2>3, <2>4 DEF AskedPending, Ahead, RequestOf
  <2> QED
    BY <1>2, <2>5 DEF RInv
<1> QED
  BY <1>4, <1>5

LEMMA SearchReaches ==
  ASSUME RInv, IInv', Searching
  PROVE  RInv'
<1>1. CASE NotFound
  <2>1. walk # NoWalk /\ RequestOf(walk.of) = NoObject
    BY <1>1 DEF NotFound, RInv, AskedPending, Ahead
  <2>2. walk' = NoWalk /\ UNCHANGED <<rollback, request, asked>>
    BY <1>1 DEF NotFound, searchVars
  <2> QED
    BY <2>1, <2>2 DEF RInv, KeptRight, AskedPending, NoWalk
<1>2. CASE walk.at \in Interfaces /\ found
  <2>1. walk.at # NoObject
    BY <1>2, ObjectsAssumption DEF Interfaces, Of
  <2>2. walk # NoWalk
    BY <2>1 DEF NoWalk
  <2>3. walk.of \in Controllers /\ RequestOf(walk.of) = walk.at
    BY <1>2, <2>1, <2>2, NearestHere DEF RInv, IInv, SeekerWalks, AskedPending, Ahead
  <2>4. asked = [rollback EXCEPT ![walk.at] = walk.value]
    BY <2>1, <2>2, <2>3 DEF RInv, AskedPending
  <2>5. walk' = NoWalk /\ rollback' = asked /\ asked' = asked
    BY <1>2, <2>4 DEF found
  <2>6. AskedPending'
    BY <2>5 DEF AskedPending, NoWalk
  <2>7. KeptRight'
    BY <1>2, <2>3 DEF found, RInv, KeptRight, IInv, TypeOK
  <2> QED
    BY <2>6, <2>7 DEF RInv
<1>3. CASE walk.at # NoObject /\ walk.at \notin Interfaces /\ goesOn
  <2>1. walk # NoWalk
    BY <1>3 DEF NoWalk
  <2>2. walk.at \in Objects /\ walk.of \in Controllers /\ walk.of # NoObject
    BY <1>3, <2>1, KindsDisjoint, ObjectsAssumption DEF RInv, IInv, TypeOK, SeekerWalks
  <2>3. walk'.at = Parent[walk.at] /\ walk'.of = walk.of /\ walk'.value = walk.value
    BY <1>3, <2>2 DEF goesOn, RInv, IInv, TypeOK
  <2>4. walk' # NoWalk
    BY <2>2, <2>3 DEF NoWalk
  <2>5. Ahead(Parent[walk.at]) = Ahead(walk.at)
    BY <1>3, <2>2, NearestAbove DEF Ahead, RequestOf
  <2>6. UNCHANGED <<rollback, request, asked>>
    BY <1>3 DEF goesOn, searchVars
  <2>7. AskedPending'
    BY <2>1, <2>3, <2>4, <2>5, <2>6 DEF RInv, AskedPending, Ahead, RequestOf
  <2> QED
    BY <2>6, <2>7 DEF RInv, KeptRight
<1>4. CASE req
  BY <1>2, <1>3, <1>4 DEF req
<1> QED
  BY <1>1, <1>4 DEF Searching

(* New objects have kept nothing, and the interfaces among them are told     *)
(* nothing.                                                                  *)
LEMMA ConstructedReaches ==
  ASSUME RInv, IInv', NEW r \in Requests, Constructed(r)
  PROVE  RInv'
<1>1. walk = NoWalk /\ walk' = NoWalk /\ rollback = asked
  BY DEF Constructed, Calls, RInv, AskedPending
<1>2. rollback' = asked'
  BY <1>1 DEF Constructed
<1>3. \A c \in Controllers : request'[c] = IF c \in Below[r] THEN NoObject ELSE request[c]
  BY DEF Constructed
<1>4. KeptRight'
  BY <1>3 DEF RInv, KeptRight, RequestOf
<1> QED
  BY <1>1, <1>2, <1>4 DEF RInv, AskedPending, NoWalk

(* The other calls leave the searches and the rollbacks alone. *)
LEMMA OthersReach ==
  ASSUME RInv, IInv', UNCHANGED <<searchVars, walk>>
  PROVE  RInv'
BY DEF RInv, KeptRight, AskedPending, searchVars

LEMMA RInvariance == Spec => []RInv
<1>1. Init => KeptRight /\ AskedPending
  BY DEF Init, KeptRight, AskedPending
<1>2. RInv /\ IInv' /\ [Next]_vars => RInv'
  <2> SUFFICES ASSUME RInv, IInv', [Next]_vars PROVE RInv'
    OBVIOUS
  <2>1. CASE Searching
    BY <2>1, SearchReaches
  <2>2. CASE \E c \in Controllers, value \in BOOLEAN : AsksRollback(c, value)
    BY <2>2, AsksReaches
  <2>3. CASE \E r \in Requests : Constructed(r)
    BY <2>3, ConstructedReaches
  <2>4. CASE UNCHANGED <<searchVars, walk>>
    BY <2>4, OthersReach
  <2>5. CASE \/ \E c \in Controllers : resultInfo(c)
             \/ Works \/ send \/ sendTo
             \/ \E r \in Requests : Checks(r) \/ ChecksByMacro(r)
             \/ \E p \in Of("Printer") : execute(p)
    BY <2>4, <2>5 DEF Works, resultInfo, send, sendTo, Sent, Checks, ChecksByMacro,
                      AnswersCheck, execute
  <2>6. CASE \E m \in Of("Maintence") :
               serverStart(m) \/ serverStop(m) \/ serverRestart(m) \/ applicationQuit(m)
    BY <2>4, <2>6 DEF serverStart, serverStop, serverRestart, applicationQuit, Commands
  <2>7. CASE UNCHANGED vars
    BY <2>4, <2>7 DEF vars
  <2> QED
    BY <2>1, <2>2, <2>3, <2>5, <2>6, <2>7 DEF Next
<1> QED
  BY Invariance, <1>1, <1>2, PTL DEF Spec, RInv

-----------------------------------------------------------------------------
(* Every variable keeps its type: what a search finds and an object keeps is *)
(* an interface, however the objects are nested.                             *)
THEOREM TypeCorrect == Spec => []TypeOK
BY Invariance, PTL DEF IInv

(* Whatever the objects are and however failures, constructions and answers  *)
(* were mixed, an interface answers a failure only of a call that came after *)
(* its construction, and a request keeps the one it was told.                *)
THEOREM OwnFailures == Spec => []AnswersOwnFailures
BY Invariance, PTL DEF IInv

(* Between calls, an interface is told to roll back exactly when the last    *)
(* call that concerned it asked for that: whatever the tree and however the  *)
(* calls and searches were mixed, each reached the nearest interface above.  *)
THEOREM RollbackReached == Spec => []RollbackReachesNearest
<1>1. RInv => RollbackReachesNearest
  BY DEF RInv, AskedPending, RollbackReachesNearest
<1> QED
  BY RInvariance, <1>1, PTL

(* A request once found is kept as long as the object that keeps it, and is  *)
(* never another: only a construction, that makes the object anew, ends it.  *)
THEOREM FoundForGood ==
  Spec => [][\A o \in Controllers :
               request[o] # NoObject =>
                 \/ request'[o] = request[o]
                 \/ \E r \in Requests : Constructed(r) /\ o \in Below[r]]_vars
<1> DEFINE Kept(o) == \/ request'[o] = request[o]
                      \/ \E r \in Requests : Constructed(r) /\ o \in Below[r]
<1>1. RInv /\ RInv' /\ [Next]_vars =>
        [\A o \in Controllers : request[o] # NoObject => Kept(o)]_vars
  <2> SUFFICES ASSUME RInv, RInv', Next, NEW o \in Controllers, request[o] # NoObject
               PROVE  Kept(o)
    OBVIOUS
  <2>1. request[o] = RequestOf(o) /\ (request'[o] # NoObject => request'[o] = RequestOf(o))
    BY DEF RInv, KeptRight, RequestOf
  <2>2. CASE walk.at \in Interfaces /\ found
    <3>1. request'[o] \in {request[o], walk.at}
      BY <2>2 DEF found, RInv, IInv, TypeOK
    <3>2. walk.at # NoObject
      BY <2>2, ObjectsAssumption DEF Interfaces, Of
    <3> QED
      BY <2>1, <3>1, <3>2
  <2>3. CASE UNCHANGED request
    BY <2>3
  <2>4. CASE \E r \in Requests : Constructed(r)
    <3>1. PICK r \in Requests : Constructed(r)
      BY <2>4
    <3>2. request'[o] = IF o \in Below[r] THEN NoObject ELSE request[o]
      BY <3>1 DEF Constructed
    <3> QED
      BY <3>1, <3>2
  <2>5. Searching => UNCHANGED request \/ (walk.at \in Interfaces /\ found)
    BY DEF Searching, req, NotFound, goesOn, searchVars
  <2>6. Next => \/ Searching \/ UNCHANGED request
                \/ \E r \in Requests : Constructed(r)
    BY DEF Next, AsksRollback, Works, resultInfo, send, sendTo, Sent, Checks, ChecksByMacro,
           AnswersCheck, execute, serverStart, serverStop, serverRestart, applicationQuit,
           Commands, searchVars
  <2> QED
    BY <2>2, <2>3, <2>4, <2>5, <2>6
<1> QED
  BY RInvariance, <1>1, PTL DEF Spec

=============================================================================
