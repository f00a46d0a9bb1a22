------------------------ MODULE SchedulerScopeGroup ------------------------
(***************************************************************************)
(* The registry of scope groups and the invocation of their methods.       *)
(*                                                                         *)
(* Every Scheduler class registers itself in a static initializer, so the  *)
(* order of registrations is the linker's.  A scope group is created by    *)
(* the first class that schedules a method in it, and keeps that class and *)
(* its synchronize annotation; later classes only add methods, by index.   *)
(* A group is found by a uuid that is made of the names of its scope and   *)
(* its group, and which other pairs of names may share.                    *)
(* From main() on a task thread invokes the methods of its group, in the   *)
(* order of their sort names, and posts what became of each to the main    *)
(* thread, which is to keep statistics.                                    *)
(***************************************************************************)
EXTENDS Integers, Sequences, FiniteSetsExt, SequencesExt, TLC

CONSTANTS
  Classes,      \* the Scheduler subclasses
  Synchronize,  \* those annotated scSynchronize
  Groups,       \* the pairs of a scope and a group, each the words between dots
  Rank,         \* Rank[g]: where the text "scope-group" of pair g sorts
  Settings,     \* Settings[n]: what the settings named like method n enable
  Methods,      \* Methods[c]: the invokable methods of class c, by index
  MaxStacks,    \* bound: how many invocations of groups begin
  MaxPosted     \* bound: how many events wait for the main thread

Int32 == {n \in Int : -2147483647 - 1 <= n /\ n <= 2147483647}

(* A method: the rank of its lower-case name, its scExecOrder (-1 when it has *)
(* none), the groups its annotations schedule it in, and its scEnabled, which *)
(* is "no" without one and may name a value of the settings.                  *)
Method ==
  [name : Nat, order : Int32, groups : SUBSET Groups, enabled : {"yes", "no", "setting"}]

ASSUME MethodsAssumption ==
  /\ Synchronize \subseteq Classes
  /\ Methods \in [Classes -> Seq(Method)]

(* A pair of two empty names would get a random uuid, a new one each time. *)
ASSUME GroupsAssumption ==
  /\ IsFiniteSet(Groups)
  /\ \A g \in Groups : g[1] \o g[2] # <<>>
  /\ Rank \in [Groups -> Nat]

ASSUME BoundsAssumption == MaxStacks \in Nat /\ MaxPosted \in Nat

VARIABLES
  phase,       \* "static" until every class is registered, then "main"
  registered,  \* the classes whose static initializer has run
  scopeCache,  \* scopeCache[u]: the group registered with uuid u
  run,         \* run[u]: the invocation of group u by its task thread
  stacks,      \* how many stack ids were created
  posted,      \* the invokeState events on their way to the main thread
  stackStats   \* stackStats[u]: the statistics of group u

vars == <<phase, registered, scopeCache, run, stacks, posted, stackStats>>

-----------------------------------------------------------------------------
(* The uuid is the MD5 of the names that are not empty, joined by a dot: of  *)
(* all their words, whichever are the scope's.                               *)
scopeUuid(g) == g[1] \o g[2]

Uuids == {scopeUuid(g) : g \in Groups}

(* The ten digits of an int32 that is not negative, the highest first. *)
Weights ==
  <<1000000000, 100000000, 10000000, 1000000, 100000, 10000, 1000, 100, 10, 1>>

digits(n) == [d \in 1 .. 10 |-> (n \div Weights[d]) % 10]

(* Mutant: the digits of the number only. *)
notJustified(n) ==
  SubSeq(digits(n), Min({10} \cup {d \in 1 .. 10 : digits(n)[d] # 0}), 10)

(* QString::number(n).rightJustified(11, '0'); the eleventh is always '0'. *)
rightJustified(n) == digits(n)

(* Sort names: the scope and the group, and then "a-" and the padded order   *)
(* of the methods that have one, or "b-" and the name.                       *)
sortName(m, g) ==
  IF m.order >= 0 THEN <<Rank[g], "a", rightJustified(m.order)>>
  ELSE <<Rank[g], "b", <<m.name>>>>

(* The order of texts: by the first character that differs, and a text       *)
(* before those it begins.                                                   *)
LowerText(s, t) ==
  \/ \E i \in DOMAIN s \cap DOMAIN t : s[i] < t[i] /\ \A j \in 1 .. i - 1 : s[j] = t[j]
  \/ Len(s) < Len(t) /\ \A j \in DOMAIN s : s[j] = t[j]

Before(k, l) ==
  \/ k[1] < l[1]
  \/ k[1] = l[1] /\ k[2] = "a" /\ l[2] = "b"
  \/ k[1] = l[1] /\ k[2] = l[2] /\ LowerText(k[3], l[3])

(* Mutant: a method without scSchedule is scheduled in the default scope. *)
scheduledUnasked(c, u) ==
  {x \in (DOMAIN Methods[c]) \X Groups :
     /\ scopeUuid(x[2]) = u
     /\ \/ x[2] \in Methods[c][x[1]].groups
        \/ Methods[c][x[1]].groups = {} /\ x[2][1] = <<"default">>}

(* The methods of class c annotated for the group of a uuid, each with the   *)
(* pair that says so, and their sort names.                                  *)
scheduled(c, u) ==
  {x \in (DOMAIN Methods[c]) \X Groups : x[2] \in Methods[c][x[1]].groups /\ scopeUuid(x[2]) = u}

nameOf(c, x) == sortName(Methods[c][x[1]], x[2])

sortNames(c, u) == {nameOf(c, x) : x \in scheduled(c, u)}

Named(c, u, k) == {x[1] : x \in {y \in scheduled(c, u) : nameOf(c, y) = k}}

(* Mutant: indices that count from zero. *)
firstIndexFromZero(c, u, k) == Min(Named(c, u, k)) - 1

(* Of the methods of c with one sort name, the first is kept. *)
firstIndex(c, u, k) == Min(Named(c, u, k))

(* Mutant: a class that comes later takes over the names it shares. *)
insertOver(methods, new) == new @@ methods

(* Mutant: methods are inserted only when the group is created. *)
insertOnce(methods, new) == IF methods = <<>> THEN new ELSE methods

(* methods.insert(), but only for the sort names methods does not contain. *)
insertNew(methods, new) ==
  [k \in DOMAIN methods \cup DOMAIN new |-> IF k \in DOMAIN methods THEN methods[k] ELSE new[k]]

(* The group a registration of class c finds or creates. *)
groupOf(c, u) ==
  IF u \in DOMAIN scopeCache
    THEN scopeCache[u]
    ELSE [class |-> c, synchronize |-> c \in Synchronize, methods |-> <<>>]

reg(c) ==
  /\ phase = "static"
  /\ scopeCache' = [u \in DOMAIN scopeCache \cup {v \in Uuids : scheduled(c, v) # {}} |->
       IF scheduled(c, u) = {} THEN scopeCache[u]
       ELSE [groupOf(c, u) EXCEPT !.methods =
               insertNew(@, [k \in sortNames(c, u) |-> firstIndex(c, u, k)])]]
  /\ registered' = registered \cup {c}
  /\ UNCHANGED <<phase, run, stacks, posted, stackStats>>

MainBegins ==
  /\ phase = "static"
  /\ registered = Classes
  /\ phase' = "main"
  /\ UNCHANGED <<registered, scopeCache, run, stacks, posted, stackStats>>

-----------------------------------------------------------------------------
(* What the settings of a method's name say where its scEnabled asks them,   *)
(* and whatever a name is parsed to that they do not have.                   *)
readSettings(m) == IF m.name \in DOMAIN Settings THEN {Settings[m.name]} ELSE BOOLEAN

canEnabled(m) == IF m.enabled = "setting" THEN readSettings(m) ELSE {m.enabled = "yes"}

(* Scheduler::invoke: the enumerator it returns, from what the virtual       *)
(* methods of the class answer.                                              *)
Answers ==
  [canEnabled : BOOLEAN, canInvoke : BOOLEAN, invokeBefore : BOOLEAN,
   method : BOOLEAN, invokeAfter : BOOLEAN]

invokeReturn(a) ==
  CASE ~a.canEnabled -> "DISABLED"
    [] a.canEnabled /\ ~a.canInvoke -> "SKIPPED"
    [] a.canEnabled /\ a.canInvoke ->
         IF a.invokeBefore /\ a.method /\ a.invokeAfter THEN "SUCCESSFUL" ELSE "FAIL"

(* The enumerators of Scheduler::InvokeReturn and SchedulerScopeGroup::       *)
(* InvokeState, by their values from 1.  The signal carries the value.        *)
InvokeReturn == <<"SUCCESSFUL", "DISABLED", "SKIPPED", "FAIL">>
InvokeState == <<"STARTED", "FAIL", "SUCCESSFUL", "SKIPPED">>

Idle == [stack |-> 0, todo |-> <<>>, ran |-> <<>>, method |-> 0]

(* emit invokeState(...): "is" says what the value was emitted for. *)
emit(u, index, is, value) ==
  /\ Len(posted) < MaxPosted
  /\ posted' = Append(posted, [group |-> u, stack |-> run[u].stack, method |-> index,
                              is |-> is, state |-> value])

(* The sort names of a group whose index its class knows. *)
known(u) ==
  {k \in DOMAIN scopeCache[u].methods :
     scopeCache[u].methods[k] \in DOMAIN Methods[scopeCache[u].class]}

(* These in order; there is one such sequence. *)
methodList(u) ==
  {s \in SetToSeqs(known(u)) : \A i, j \in DOMAIN s : i < j => Before(s[i], s[j])}

(* invoke() up to its loop.  newInstance() is not modelled to fail: it has     *)
(* succeeded for this class in reg().                                        *)
InvokeBegins(u) ==
  /\ phase = "main"
  /\ u \in DOMAIN scopeCache
  /\ run[u].todo = <<>> /\ run[u].method = 0
  /\ stacks < MaxStacks
  /\ stacks' = stacks + 1
  /\ \E todo \in methodList(u) :
       run' = [run EXCEPT ![u] =
                 [stack |-> stacks', todo |-> todo, ran |-> <<>>, method |-> 0]]
  /\ UNCHANGED <<phase, registered, scopeCache, posted, stackStats>>

MethodStarts(u) ==
  /\ run[u].todo # <<>> /\ run[u].method = 0
  /\ LET index == scopeCache[u].methods[Head(run[u].todo)]
     IN  /\ run' = [run EXCEPT ![u].method = index]
         /\ emit(u, index, "STARTED", 1)
  /\ UNCHANGED <<phase, registered, scopeCache, stacks, stackStats>>

(* Mutant: the loop stays at the method it has run. *)
sameMethod(r) == [r EXCEPT !.method = 0]

afterMethod(r) ==
  [stack |-> r.stack, todo |-> Tail(r.todo), ran |-> Append(r.ran, Head(r.todo)), method |-> 0]

(* The run of a method is over; whatever it returned, the next one follows. *)
MethodEnds(u) ==
  /\ run[u].method # 0
  /\ \E a \in Answers, value \in DOMAIN InvokeReturn :
       /\ a.canEnabled \in canEnabled(Methods[scopeCache[u].class][run[u].method])
       /\ InvokeReturn[value] = invokeReturn(a)
       /\ emit(u, run[u].method, InvokeReturn[value], value)
  /\ run' = [run EXCEPT ![u] = afterMethod(@)]
  /\ UNCHANGED <<phase, registered, scopeCache, stacks, stackStats>>

(* What regState stores of an event in the statistics: it nests the event in *)
(* a copy of the attribute and then inserts the copy into itself.            *)
regState(stats, e) == stats

(* The invokeState slot, in the main thread. *)
Delivered ==
  /\ posted # <<>>
  /\ posted' = Tail(posted)
  /\ LET e == Head(posted)
     IN  stackStats' = [stackStats EXCEPT ![e.group] = regState(@, e)]
  /\ UNCHANGED <<phase, registered, scopeCache, run, stacks>>

-----------------------------------------------------------------------------
Init ==
  /\ phase = "static"
  /\ registered = {}
  /\ scopeCache = <<>>
  /\ run = [u \in Uuids |-> Idle]
  /\ stacks = 0
  /\ posted = <<>>
  /\ stackStats = [u \in Uuids |-> {}]

Next ==
  \/ \E c \in Classes : reg(c)
  \/ MainBegins
  \/ \E u \in Uuids : InvokeBegins(u) \/ MethodStarts(u) \/ MethodEnds(u)
  \/ Delivered

Spec == Init /\ [][Next]_vars

(* Every group keeps invoking its methods and the main thread runs its loop. *)
FairSpec ==
  /\ Spec
  /\ WF_vars(Delivered)
  /\ \A u \in Uuids : SF_vars(MethodStarts(u)) /\ SF_vars(MethodEnds(u))

-----------------------------------------------------------------------------
Indices == UNION {DOMAIN Methods[c] : c \in Classes}

Names == UNION {sortNames(c, u) : c \in Classes, u \in Uuids}

TypeOK ==
  /\ phase \in {"static", "main"}
  /\ registered \subseteq Classes
  /\ DOMAIN scopeCache \subseteq Uuids
  /\ \A u \in DOMAIN scopeCache :
       /\ scopeCache[u].class \in Classes
       /\ scopeCache[u].synchronize \in BOOLEAN
       /\ DOMAIN scopeCache[u].methods \subseteq Names
       /\ Range(scopeCache[u].methods) \subseteq Indices
  /\ \A u \in Uuids :
       /\ run[u].stack \in 0 .. MaxStacks
       /\ Range(run[u].todo) \cup Range(run[u].ran) \subseteq Names
       /\ run[u].method \in Indices \cup {0}
  /\ stacks \in 0 .. MaxStacks
  /\ Len(posted) <= MaxPosted
  /\ DOMAIN stackStats = Uuids

(* Registering a class, for the first time or again, never changes what a    *)
(* group already is: its class, its synchronize flag, the index of a name.   *)
BindingsStable ==
  [][\A u \in DOMAIN scopeCache :
       /\ u \in DOMAIN scopeCache'
       /\ scopeCache'[u].class = scopeCache[u].class
       /\ scopeCache'[u].synchronize = scopeCache[u].synchronize
       /\ \A k \in DOMAIN scopeCache[u].methods :
            /\ k \in DOMAIN scopeCache'[u].methods
            /\ scopeCache'[u].methods[k] = scopeCache[u].methods[k]]_vars

(* The methods of a class that its annotations put into the group of a uuid, *)
(* each with the pair of names that does, and the name of one of these.      *)
Annotated(c, u) ==
  UNION {{<<i, g>> : g \in {h \in Methods[c][i].groups : h[1] \o h[2] = u}} : i \in DOMAIN Methods[c]}

AnnotatedName(c, x) == sortName(Methods[c][x[1]], x[2])

(* In whatever order the classes registered, main() finds the groups they    *)
(* schedule methods in, each with the sort names of all of them, also where  *)
(* different names of scope and group make one uuid.                         *)
RegistryComplete ==
  phase = "main" =>
    \A u \in Uuids :
      LET names == UNION {{AnnotatedName(c, x) : x \in Annotated(c, u)} : c \in Classes}
      IN  IF names = {} THEN u \notin DOMAIN scopeCache
          ELSE u \in DOMAIN scopeCache /\ DOMAIN scopeCache[u].methods = names

Completed(u) == run[u].stack # 0 /\ run[u].todo = <<>>

Owner(u) == scopeCache[u].class

(* Those of the group's own class. *)
Own(u) == Annotated(Owner(u), u)

RanAt(u, x) == {n \in DOMAIN run[u].ran : run[u].ran[n] = AnnotatedName(Owner(u), x)}

(* Those that share the sort name of x. *)
Sharing(u, x) == {y \in Own(u) : AnnotatedName(Owner(u), y) = AnnotatedName(Owner(u), x)}

(* A completed invocation has gone once through a place for each method of   *)
(* the group's own class and each pair of names it is annotated with.  Where *)
(* methods have the same order, or name, they share it, and the first of     *)
(* them in the class is the only one that runs.  Of one pair, those with an  *)
(* order come first and ascending, then the others by name.                  *)
InvocationOrdered ==
  \A u \in Uuids : Completed(u) =>
    /\ \A x \in Own(u) :
         LET index == scopeCache[u].methods[AnnotatedName(Owner(u), x)]
         IN  /\ Cardinality(RanAt(u, x)) = 1
             /\ \E y \in Sharing(u, x) : y[1] = index
             /\ \A y \in Sharing(u, x) : index <= y[1]
    /\ \A x, y \in Own(u) :
         LET m == Methods[Owner(u)][x[1]]
             n == Methods[Owner(u)][y[1]]
         IN  /\ x[2] = y[2]
             /\ \/ m.order >= 0 /\ (n.order < 0 \/ m.order < n.order)
                \/ m.order < 0 /\ n.order < 0 /\ m.name < n.name
             => \A k \in RanAt(u, x), l \in RanAt(u, y) : k < l

(* A group whose methods come from one class runs no other methods of it     *)
(* than those annotated for the group.  (A class registered into the group   *)
(* of another adds indices that name methods of the other.)                  *)
OneClassRunsItsOwn ==
  \A u \in Uuids :
    /\ run[u].method # 0
    /\ \A c \in Classes \ {Owner(u)} : Annotated(c, u) = {}
    => \E x \in Own(u) : x[1] = run[u].method

(* An invocation that has begun runs through, and all it emitted arrives. *)
InvocationsComplete ==
  \A u \in Uuids : run[u].stack # 0 ~> Completed(u) /\ posted = <<>>

-----------------------------------------------------------------------------
(* The comment of regState: the statistics hold, for each stack, the method  *)
(* and the time of each state it reached.                                    *)
StatsRecorded ==
  \A u \in Uuids : Completed(u) /\ run[u].ran # <<>> /\ posted = <<>> => stackStats[u] # {}

(* The same comment: a failure is recorded under "fail". *)
FailNamedFail ==
  \A n \in DOMAIN posted :
    posted[n].is = "FAIL" => InvokeState[posted[n].state] = "FAIL"

=============================================================================
