----------------------------- MODULE BackOffice -----------------------------
(***************************************************************************)
(* The modules that a back office answers (InterfaceBackOffice), from a    *)
(* list of controllers the whole program shares.                           *)
(*                                                                         *)
(* Requests run in threads of the server.  The first ones find the list    *)
(* empty and fill it under a mutex; the test before the mutex and the loop *)
(* that reads the list afterwards do not take it.  A request also reads    *)
(* the base path of the settings' host, by a getter that writes a default  *)
(* into a path that is blank.                                              *)
(*                                                                         *)
(* A list or a path that is read while another thread writes it gives what *)
(* was there, or Torn: any other outcome.                                  *)
(***************************************************************************)
EXTENDS Integers, SequencesExt

CONSTANTS
  Requests,     \* the back office objects, one for each request
  Serves,       \* the sets of those that may have a server
  Controllers,  \* the classes the server knows
  Info,         \* Info[c]: what is annotated at class c
  Names,        \* the names that order controllers
  NameOrders,   \* what apiNameOrder of the back office may be
  Paths,        \* the base paths that settings give
  Envs,         \* what the environment may give
  Authorization,\* Authorization[r]: the authorization headers of request r
  Blank,        \* a text that is empty
  Torn,
  Nobody        \* the owner of a mutex that is not locked

ASSUME InfoAssumption ==
  \A c \in Controllers :
    Info[c] \in [created : BOOLEAN,  \* newInstance() gives a controller
                 name : Names,       \* its apiName in lower case, or its class
                 named : BOOLEAN,    \* its apiName is not empty
                 methods : BOOLEAN,  \* it has invokable methods
                 order : Int]        \* its apiOrder, -1 without one

ASSUME PathAssumption == Torn \notin Paths \cup {"/"} /\ Blank # "/"

ASSUME ControllersAssumption == IsFiniteSet(Controllers)

(* The lists no longer than there are classes. *)
Lists == UNION {[1 .. n -> Controllers] : n \in 0 .. Cardinality(Controllers)}

ASSUME TornAssumption == Torn \notin Lists

ASSUME ServesAssumption == Serves \subseteq SUBSET Requests

ASSUME EnvsAssumption ==
  Envs \subseteq
    [protocol : {Blank, "env"}, dns : {Blank, "env"}, port : {0, 8080}, headers : {Blank, "env"}]

ASSUME OwnerAssumption == Nobody \notin Requests

VARIABLES
  nameOrder,        \* apiNameOrder, a sequence of names
  consts,           \* the static APR_ constants
  staticInfoCache,  \* the shared list
  mutexInfo,        \* its owner
  basePath,         \* HostPvt::basePath
  pc,               \* pc[r]: where request r is
  served,           \* the requests whose object has a server
  controllers,      \* controllers[r]: those r puts into the list
  rounds,           \* rounds[r]: how many of them it has looked at
  objects,          \* the instances of controllers that exist, <<r, c>>
  host,             \* host[r]: where r says the modules are
  access,           \* access[r]: the controllers r has read
  overlap,          \* the requests whose loop met a change of the list
  late              \* those that came when list and path were settled

cacheVars == <<staticInfoCache, mutexInfo, controllers, rounds, objects>>
hostVars == <<basePath, host>>
constVars == <<nameOrder, consts, served, late>>
readVars == <<access, overlap>>
vars == <<cacheVars, hostVars, constVars, readVars, pc>>

Pc == {"idle", "first", "lock", "locked", "fill", "sort", "unlock",
       "basePath", "writing", "copy", "read", "reading", "done"}

-----------------------------------------------------------------------------
(* Mutant: a protocol the environment does not give stays empty. *)
initConstsUnset(env) ==
  [protocol |-> env.protocol,
   dns |-> IF env.dns = Blank THEN "localhost" ELSE env.dns,
   port |-> IF env.port <= 0 THEN 80 ELSE env.port,
   headers |-> env.headers]

(* The startup function: each constant is that of the environment, or else   *)
(* a default, and so never empty, but for the headers; the context path has  *)
(* no reader.                                                                *)
initConsts(env) ==
  [protocol |-> IF env.protocol = Blank THEN "http" ELSE env.protocol,
   dns |-> IF env.dns = Blank THEN "localhost" ELSE env.dns,
   port |-> IF env.port <= 0 THEN 80 ELSE env.port,
   headers |-> env.headers]

NoHost ==
  [consts |-> [protocol |-> Blank, dns |-> Blank, port |-> 0, headers |-> Blank], path |-> Blank]

Init ==
  /\ nameOrder \in NameOrders
  /\ \E env \in Envs : consts = initConsts(env)
  /\ staticInfoCache = <<>>
  /\ mutexInfo = Nobody
  /\ basePath \in Paths
  /\ pc = [r \in Requests |-> "idle"]
  /\ served \in Serves
  /\ controllers = [r \in Requests |-> <<>>]
  /\ rounds = [r \in Requests |-> 0]
  /\ objects = {}
  /\ host = [r \in Requests |-> NoHost]
  /\ access = [r \in Requests |-> <<>>]
  /\ overlap = {}
  /\ late = {}

goes(r, from, to) == pc[r] = from /\ pc' = [pc EXCEPT ![r] = to]

(* Some thread is in the middle of changing the list, or the path. *)
Filling == \E q \in Requests : pc[q] \in {"fill", "sort"}

Writing == \E q \in Requests : pc[q] = "writing"

(* modules(): the first call of an object; a later one answers what it saved. *)
Arrives(r) ==
  /\ goes(r, "idle", "first")
  /\ late' = IF staticInfoCache # <<>> /\ ~Filling /\ basePath # Blank /\ ~Writing
               THEN late \cup {r} ELSE late
  /\ UNCHANGED <<nameOrder, consts, served, cacheVars, hostVars, readVars>>

-----------------------------------------------------------------------------
(* initControllersCache(): filling the list. *)

Created == {c \in Controllers : Info[c].created}

(* The place apiNameOrder gives to a controller; the others come last. *)
rank(c) ==
  IF \E i \in DOMAIN nameOrder : nameOrder[i] = Info[c].name
    THEN Min({i \in DOMAIN nameOrder : nameOrder[i] = Info[c].name})
    ELSE Len(nameOrder) + 1

Ranked(s) == \A i, j \in DOMAIN s : i < j => rank(s[i]) <= rank(s[j])

(* Mutant: the controllers that apiNameOrder does not name are left out. *)
arrangementsNamed ==
  {s \in SetToSeqs({c \in Created : rank(c) <= Len(nameOrder)}) : Ranked(s)}

(* What controllers() may return: all instances in the order of their names, *)
(* those of one name in the order of a hash, and none without apiNameOrder.  *)
arrangements ==
  IF nameOrder = <<>> THEN {<<>>} ELSE {s \in SetToSeqs(Created) : Ranked(s)}

FirstTest(r) ==
  /\ IF staticInfoCache # <<>> THEN goes(r, "first", "basePath") ELSE goes(r, "first", "lock")
  /\ UNCHANGED <<cacheVars, hostVars, constVars, readVars>>

Locks(r) ==
  /\ goes(r, "lock", "locked")
  /\ mutexInfo = Nobody
  /\ mutexInfo' = r
  /\ UNCHANGED <<staticInfoCache, controllers, rounds, objects, hostVars, constVars, readVars>>

(* Mutant: the list is not tested again under the mutex. *)
nothingToFillUntested(r) == r \notin served

nothingToFill(r) == staticInfoCache # <<>> \/ r \notin served

LeavesList(r) ==
  /\ nothingToFill(r)
  /\ goes(r, "locked", "unlock")
  /\ UNCHANGED <<cacheVars, hostVars, constVars, readVars>>

Collects(r) ==
  /\ ~nothingToFill(r)
  /\ goes(r, "locked", "fill")
  /\ \E s \in arrangements : controllers' = [controllers EXCEPT ![r] = s]
  /\ objects' = objects \cup ({r} \X Created)
  /\ overlap' = overlap \cup {q \in Requests : pc[q] = "reading"}
  /\ UNCHANGED <<staticInfoCache, mutexInfo, rounds, hostVars, constVars, access>>

(* One round of the loop over the controllers. *)
Appends(r) ==
  /\ pc[r] = "fill" /\ rounds[r] < Len(controllers[r])
  /\ rounds' = [rounds EXCEPT ![r] = @ + 1]
  /\ LET c == controllers[r][rounds'[r]]
     IN  staticInfoCache' = IF Info[c].named /\ Info[c].methods
                              THEN Append(staticInfoCache, c) ELSE staticInfoCache
  /\ UNCHANGED <<mutexInfo, controllers, objects, hostVars, constVars, readVars, pc>>

(* qDeleteAll of what controllers() returned. *)
Deletes(r) ==
  /\ rounds[r] = Len(controllers[r])
  /\ goes(r, "fill", "sort")
  /\ objects' = objects \ ({r} \X ToSet(controllers[r]))
  /\ UNCHANGED <<staticInfoCache, mutexInfo, controllers, rounds, hostVars, constVars, readVars>>

Ascending(s) == \A i, j \in DOMAIN s : i < j => Info[s[i]].order <= Info[s[j]].order

(* The orders std::sort may leave a list in. *)
sorted(s) ==
  {t \in {[i \in DOMAIN s |-> s[p[i]]] : p \in Bijection(DOMAIN s, DOMAIN s)} : Ascending(t)}

Sorts(r) ==
  /\ goes(r, "sort", "unlock")
  /\ staticInfoCache' \in sorted(staticInfoCache)
  /\ UNCHANGED <<mutexInfo, controllers, rounds, objects, hostVars, constVars, readVars>>

(* Mutant: a request that has filled nothing keeps the mutex. *)
UnlocksWhenFilled(r) ==
  /\ goes(r, "unlock", "basePath")
  /\ mutexInfo' = IF staticInfoCache # <<>> THEN Nobody ELSE mutexInfo
  /\ UNCHANGED <<staticInfoCache, controllers, rounds, objects, hostVars, constVars, readVars>>

Unlocks(r) ==
  /\ goes(r, "unlock", "basePath")
  /\ mutexInfo' = Nobody
  /\ UNCHANGED <<staticInfoCache, controllers, rounds, objects, hostVars, constVars, readVars>>

-----------------------------------------------------------------------------
(* initAccess(): where the modules are, and which there are. *)

(* Mutant: the default is written whenever the path is asked for. *)
isDefaultAlways(p) == TRUE

isDefault(p) == p = Blank

(* The getter of the host tests the path; while another thread writes it,    *)
(* the test may come out either way.                                         *)
TestsBasePath(r) ==
  /\ \/ isDefault(basePath) /\ goes(r, "basePath", "writing")
     \/ (~isDefault(basePath) \/ Writing) /\ goes(r, "basePath", "copy")
  /\ UNCHANGED <<cacheVars, hostVars, constVars, readVars>>

WritesBasePath(r) ==
  /\ goes(r, "writing", "copy")
  /\ basePath' = "/"
  /\ UNCHANGED <<cacheVars, host, constVars, readVars>>

(* The constants are taken where they are not empty, which they never are;   *)
(* the path is the host's in any case, and the headers are the request's own *)
(* where it has some.                                                        *)
CopiesHost(r) ==
  /\ goes(r, "copy", "read")
  /\ \E p \in {basePath} \cup (IF Writing THEN {"/", Torn} ELSE {}) :
       host' = [host EXCEPT ![r] =
                  [path |-> p,
                   consts |-> [consts EXCEPT !.headers =
                     IF Authorization[r] # Blank THEN Authorization[r] ELSE @]]]
  /\ UNCHANGED <<cacheVars, basePath, constVars, readVars>>

ReadsBegin(r) ==
  /\ goes(r, "read", "reading")
  /\ access' = [access EXCEPT ![r] = staticInfoCache]
  /\ overlap' = IF Filling THEN overlap \cup {r} ELSE overlap
  /\ UNCHANGED <<cacheVars, hostVars, constVars>>

(* modules() saves what was read; the loop that met a change may have read   *)
(* anything.                                                                 *)
ReadsEnd(r) ==
  /\ goes(r, "reading", "done")
  /\ \/ UNCHANGED access
     \/ r \in overlap /\ access' = [access EXCEPT ![r] = Torn]
  /\ UNCHANGED <<cacheVars, hostVars, constVars, overlap>>

-----------------------------------------------------------------------------
Fill(r) ==
  \/ FirstTest(r) \/ Locks(r) \/ LeavesList(r) \/ Collects(r) \/ Appends(r) \/ Deletes(r)
  \/ Sorts(r) \/ Unlocks(r)

Read(r) ==
  TestsBasePath(r) \/ WritesBasePath(r) \/ CopiesHost(r) \/ ReadsBegin(r) \/ ReadsEnd(r)

Next == \E r \in Requests : Arrives(r) \/ Fill(r) \/ Read(r)

Spec == Init /\ [][Next]_vars

(* A thread that serves a request goes on.  It asks for the mutex once, so   *)
(* that others can come before it only finitely often.                       *)
Fairness == \A r \in Requests : WF_vars(Fill(r) \/ Read(r))

FairSpec == Spec /\ Fairness

-----------------------------------------------------------------------------
TypeOK ==
  /\ nameOrder \in NameOrders
  /\ consts \in [protocol : {"http", "env"}, dns : {"localhost", "env"}, port : {80, 8080},
                headers : {Blank, "env"}]
  /\ staticInfoCache \in Lists
  /\ mutexInfo \in Requests \cup {Nobody}
  /\ basePath \in Paths \cup {"/"}
  /\ pc \in [Requests -> Pc]
  /\ served \subseteq Requests
  /\ controllers \in [Requests -> Lists]
  /\ \A r \in Requests : rounds[r] \in 0 .. Len(controllers[r])
  /\ objects \subseteq Requests \X Controllers
  /\ \A r \in Requests : host[r].path \in Paths \cup {"/", Torn, Blank}
  /\ \A r \in Requests : access[r] \in Lists \cup {Torn}
  /\ overlap \subseteq Requests
  /\ late \subseteq Requests

(* The controllers a back office shows. *)
Shown == {c \in Controllers : Info[c].created /\ Info[c].named /\ Info[c].methods}

Complete(s) ==
  ToSet(s) = Shown /\ Len(s) = Cardinality(Shown) /\ Ascending(s)

(* However many requests find the list empty at once, it is filled once: it  *)
(* never has a controller twice, and when nobody is filling it it is empty   *)
(* or has all controllers in their order.                                    *)
FilledOnce ==
  /\ IsInjective(staticInfoCache)
  /\ ~Filling /\ staticInfoCache # <<>> => Complete(staticInfoCache)

(* A request that comes after the first ones have settled the list and the   *)
(* base path answers the complete list and a base path that is neither empty *)
(* nor torn.  (One that comes earlier may get part of the list, or garbage.) *)
LateAccessComplete ==
  \A r \in late : pc[r] = "done" =>
    /\ access[r] # Torn /\ Complete(access[r])
    /\ host[r].path = basePath /\ basePath # Blank

(* With an order of names, a request that has filled the list, or found that *)
(* there was nothing to show, leaves no instance of a controller behind.     *)
(* (Without one, controllers() returns before what it created is anybody's.) *)
NoControllerLeaked ==
  nameOrder # <<>> =>
    \A o \in objects : pc[o[1]] = "fill"

(* Every request that comes is answered: the mutex is given back on each way *)
(* out of the filling, that of a request without a server too.               *)
RequestsAnswered == \A r \in Requests : pc[r] # "idle" ~> pc[r] = "done"

=============================================================================
