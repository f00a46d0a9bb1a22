------------------------- MODULE BackOfficeProofs -------------------------
(***************************************************************************)
(* Proofs about BackOffice, for any number of requests and of controllers: *)
(* the list is filled once and completely, late requests answer all of it, *)
(* and no instance of a controller stays behind.                           *)
(***************************************************************************)
EXTENDS BackOffice, FiniteSetTheorems, SequenceTheorems, TLAPS

-----------------------------------------------------------------------------
(***************************************************************************)
(* The inductive invariant.  FilledOnce and NoControllerLeaked speak of a  *)
(* list nobody is filling; to get there, Partial says how much of it is    *)
(* there after some rounds, and Exclusion that only one request fills it.  *)
(***************************************************************************)

Maps ==
  /\ rounds \in [Requests -> Nat]
  /\ DOMAIN host = Requests
  /\ DOMAIN access = Requests
  /\ objects \subseteq Requests \X Created

(* Only the owner of the mutex is between Locks and Unlocks. *)
Exclusion ==
  \A r \in Requests : pc[r] \in {"locked", "fill", "sort", "unlock"} => mutexInfo = r

NotBegun == \A r \in Requests : pc[r] \in {"idle", "first", "lock", "locked"} => rounds[r] = 0

(* Some rounds of the loop have put those of the controllers they looked at  *)
(* into the list that are to be shown.                                       *)
Partial ==
  \A r \in Requests : pc[r] = "fill" =>
    /\ IsInjective(controllers[r])
    /\ nameOrder = <<>> => controllers[r] = <<>>
    /\ nameOrder # <<>> => ToSet(controllers[r]) = Created
    /\ ToSet(staticInfoCache) =
         {c \in {controllers[r][i] : i \in 1 .. rounds[r]} : Info[c].named /\ Info[c].methods}

Collected ==
  \A r \in Requests : pc[r] = "sort" =>
    staticInfoCache = <<>> \/ ToSet(staticInfoCache) = Shown

ListInv ==
  /\ TypeOK /\ Maps /\ Exclusion /\ NotBegun /\ Partial /\ Collected
  /\ FilledOnce /\ NoControllerLeaked

(* What a late request has found stays: nobody fills the list or writes the  *)
(* base path again.                                                          *)
Settled == staticInfoCache # <<>> /\ ~Filling /\ basePath # Blank /\ ~Writing

LateSettled == late # {} => Settled

(* A loop meets a change only while it runs, and that of a late one never. *)
LateUndisturbed ==
  /\ \A r \in overlap : pc[r] \in {"reading", "done"}
  /\ \A r \in late : pc[r] # "idle"
  /\ overlap \cap late = {}

LateReads ==
  \A r \in late :
    /\ pc[r] \in {"read", "reading", "done"} => host[r].path = basePath
    /\ pc[r] \in {"reading", "done"} => access[r] = staticInfoCache

IInv == ListInv /\ LateSettled /\ LateUndisturbed /\ LateReads

-----------------------------------------------------------------------------
(* Lists. *)

LEMMA ListSeq == ASSUME NEW s \in Lists PROVE s \in Seq(Controllers) /\ DOMAIN s = 1 .. Len(s)
<1>1. Cardinality(Controllers) \in Nat
  BY ControllersAssumption, FS_CardinalityType
<1>2. s \in Seq(Controllers)
  BY <1>1, SeqDef DEF Lists
<1> QED
  BY <1>2, LenProperties

(* A list without duplicates has a place for each of its elements, and so is *)
(* no longer than there are controllers.                                     *)
LEMMA InjectiveList ==
  ASSUME NEW s \in Seq(Controllers), IsInjective(s)
  PROVE  s \in Lists /\ Len(s) = Cardinality(ToSet(s))
<1>1. Len(s) \in Nat /\ DOMAIN s = 1 .. Len(s) /\ s \in [1 .. Len(s) -> Controllers]
  BY LenProperties
<1>2. s \in Surjection(1 .. Len(s), ToSet(s)) /\ s \in Injection(1 .. Len(s), ToSet(s))
  <2>1. s \in [1 .. Len(s) -> ToSet(s)]
    BY <1>1 DEF ToSet
  <2> QED
    BY <1>1, <2>1 DEF ToSet, Surjection, Injection
<1>3. IsFiniteSet(1 .. Len(s)) /\ Cardinality(1 .. Len(s)) = Len(s)
  <2> DEFINE n == Len(s)
  <2>1. n \in Nat
    BY <1>1
  <2> HIDE DEF n
  <2>2. IsFiniteSet(1 .. n) /\ Cardinality(1 .. n) = n
    BY <2>1, FS_Interval
  <2> QED
    BY <2>2 DEF n
<1>4. Len(s) = Cardinality(ToSet(s))
  BY <1>2, <1>3, FS_Surjection
<1>5. Len(s) <= Cardinality(Controllers)
  <2>1. ToSet(s) \in SUBSET Controllers
    BY <1>1 DEF ToSet
  <2> QED
    BY <1>4, <2>1, ControllersAssumption, FS_Subset
<1> QED
  BY <1>1, <1>4, <1>5, ControllersAssumption, FS_CardinalityType DEF Lists

LEMMA EmptyList == <<>> \in Lists /\ IsInjective(<<>>) /\ ToSet(<<>>) = {} /\ Len(<<>>) = 0
<1>1. IsInjective(<<>>) /\ ToSet(<<>>) = {}
  BY DEF IsInjective, ToSet
<1>2. <<>> \in Seq(Controllers) /\ Len(<<>>) = 0
  OBVIOUS
<1> QED
  BY <1>1, <1>2, InjectiveList

LEMMA NothingListed == ASSUME NEW s \in Lists, ToSet(s) = {} PROVE s = <<>>
<1>1. s \in Seq(Controllers) /\ DOMAIN s = 1 .. Len(s) /\ DOMAIN s = {}
  BY ListSeq DEF ToSet
<1>2. s # <<>> => Len(s) \in Nat \ {0}
  BY <1>1, EmptySeq
<1>3. s # <<>> => 1 \in DOMAIN s
  BY <1>1, <1>2
<1> QED
  BY <1>1, <1>3

(* What controllers() returns is without duplicates, and with an order of    *)
(* names it has all instances.                                               *)
LEMMA Arranged ==
  ASSUME NEW s \in arrangements
  PROVE  /\ s \in Lists /\ IsInjective(s)
         /\ nameOrder = <<>> => s = <<>>
         /\ nameOrder # <<>> => ToSet(s) = Created
<1>1. CASE nameOrder = <<>>
  BY <1>1, EmptyList DEF arrangements
<1>2. CASE nameOrder # <<>>
  <2> DEFINE D == 1 .. Cardinality(Created)
  <2>1. Created \in SUBSET Controllers
    BY DEF Created
  <2>2. IsFiniteSet(Created) /\ Cardinality(Created) \in Nat
        /\ Cardinality(Created) <= Cardinality(Controllers) /\ Cardinality(Controllers) \in Nat
    BY <2>1, ControllersAssumption, FS_Subset, FS_CardinalityType
  <2>3. s \in [D -> Created] /\ \A i, j \in D : i # j => s[i] # s[j]
    BY <1>2 DEF arrangements, SetToSeqs
  <2>4. s \in Injection(D, Created)
    BY <2>3 DEF Injection, IsInjective
  <2>5. Cardinality(D) = Cardinality(Created)
    BY <2>2, FS_Interval
  <2>6. s \in Surjection(D, Created)
    BY <2>2, <2>4, <2>5, FS_Injection
  <2>7. ToSet(s) = Created
    BY <2>3, <2>6 DEF ToSet, Surjection
  <2>8. s \in Lists
    BY <2>1, <2>2, <2>3 DEF Lists
  <2> QED
    BY <1>2, <2>4, <2>7, <2>8 DEF Injection
<1> QED
  BY <1>1, <1>2

(* Sorting changes neither what is in a list nor how often. *)
LEMMA SortedList ==
  ASSUME NEW s \in Lists, NEW t \in sorted(s)
  PROVE  /\ t \in Lists /\ ToSet(t) = ToSet(s) /\ Ascending(t)
         /\ IsInjective(s) => IsInjective(t)
         /\ t = <<>> <=> s = <<>>
<1>1. s \in Seq(Controllers) /\ DOMAIN s = 1 .. Len(s)
  BY ListSeq
<1>2. PICK p \in Bijection(DOMAIN s, DOMAIN s) : t = [i \in DOMAIN s |-> s[p[i]]]
  BY DEF sorted
<1>3. /\ p \in [DOMAIN s -> DOMAIN s]
      /\ \A i, j \in DOMAIN s : p[i] = p[j] => i = j
      /\ \A j \in DOMAIN s : \E i \in DOMAIN s : p[i] = j
  BY <1>2 DEF Bijection, Injection, Surjection, IsInjective
<1>4. PICK n \in 0 .. Cardinality(Controllers) : s \in [1 .. n -> Controllers]
  BY DEF Lists
<1>5. DOMAIN s = 1 .. n /\ DOMAIN t = 1 .. n /\ t \in [1 .. n -> Controllers]
  BY <1>2, <1>3, <1>4
<1>6. t \in Lists
  BY <1>4, <1>5 DEF Lists
<1>7. ToSet(t) = ToSet(s)
  <2>1. ToSet(t) \subseteq ToSet(s)
    BY <1>2, <1>3 DEF ToSet
  <2>2. ToSet(s) \subseteq ToSet(t)
    <3> SUFFICES ASSUME NEW j \in DOMAIN s PROVE s[j] \in ToSet(t)
      BY DEF ToSet
    <3> QED
      BY <1>2, <1>3 DEF ToSet
  <2> QED
    BY <2>1, <2>2
<1>8. IsInjective(s) => IsInjective(t)
  BY <1>2, <1>3 DEF IsInjective
<1>9. t = <<>> <=> s = <<>>
  BY <1>6, <1>7, EmptyList, NothingListed
<1> QED
  BY <1>6, <1>7, <1>8, <1>9 DEF sorted

(* What a round of the loop does to a list. *)
LEMMA AppendedList ==
  ASSUME NEW s \in Lists, NEW c \in Controllers, IsInjective(s), c \notin ToSet(s)
  PROVE  /\ Append(s, c) \in Lists /\ IsInjective(Append(s, c))
         /\ ToSet(Append(s, c)) = ToSet(s) \cup {c}
<1> DEFINE t == Append(s, c)
<1>1. s \in Seq(Controllers) /\ DOMAIN s = 1 .. Len(s) /\ Len(s) \in Nat
  BY ListSeq, LenProperties
<1>2. /\ t \in Seq(Controllers) /\ Len(t) = Len(s) + 1
      /\ t[Len(s) + 1] = c /\ \A i \in 1 .. Len(s) : t[i] = s[i]
  BY <1>1
<1>3. DOMAIN t = 1 .. Len(s) + 1
  BY <1>2, LenProperties
<1> HIDE DEF t
<1>4. IsInjective(t)
  BY <1>1, <1>2, <1>3 DEF IsInjective, ToSet
<1>5. ToSet(t) = ToSet(s) \cup {c}
  <2>1. \A i \in DOMAIN t : t[i] \in ToSet(s) \cup {c}
    BY <1>1, <1>2, <1>3 DEF ToSet
  <2>2. \A i \in DOMAIN s : i \in DOMAIN t /\ t[i] = s[i]
    BY <1>1, <1>2, <1>3
  <2>3. Len(s) + 1 \in DOMAIN t
    BY <1>1, <1>3
  <2> QED
    BY <1>2, <2>1, <2>2, <2>3 DEF ToSet
<1> QED
  BY <1>2, <1>4, <1>5, InjectiveList DEF t

-----------------------------------------------------------------------------
(* The list is filled once. *)

LEMMA CompleteList ==
  ASSUME NEW s \in Lists, IsInjective(s), ToSet(s) = Shown, Ascending(s)
  PROVE  Complete(s)
BY ListSeq, InjectiveList DEF Complete

LEMMA ListInit == Init => ListInv
<1> SUFFICES ASSUME Init PROVE ListInv
  OBVIOUS
<1> USE DEF Init
<1>1. /\ staticInfoCache \in Lists /\ IsInjective(staticInfoCache)
      /\ controllers \in [Requests -> Lists] /\ access \in [Requests -> Lists]
      /\ \A r \in Requests : Len(controllers[r]) = 0
  BY EmptyList
<1>2. consts \in [protocol : {"http", "env"}, dns : {"localhost", "env"}, port : {80, 8080},
                  headers : {Blank, "env"}]
  BY EnvsAssumption DEF initConsts
<1>3. TypeOK
  BY <1>1, <1>2, ServesAssumption DEF TypeOK, Pc, NoHost
<1>4. Maps /\ Exclusion /\ NotBegun /\ Partial /\ Collected
  BY DEF Maps, Exclusion, NotBegun, Partial, Collected
<1>5. FilledOnce /\ NoControllerLeaked
  BY <1>1 DEF FilledOnce, NoControllerLeaked
<1> QED
  BY <1>3, <1>4, <1>5 DEF ListInv

(* What the steps of a request leave alone outside of the filling. *)
Elsewhere ==
  /\ UNCHANGED <<cacheVars, nameOrder, consts, served>>
  /\ basePath' \in Paths \cup {"/"}
  /\ DOMAIN host' = Requests /\ \A q \in Requests : host'[q].path \in Paths \cup {"/", Torn, Blank}
  /\ DOMAIN access' = Requests /\ \A q \in Requests : access'[q] \in Lists \cup {Torn}
  /\ overlap' \subseteq Requests /\ late' \subseteq Requests

LEMMA ElsewhereStep ==
  ASSUME ListInv, Elsewhere, NEW r \in Requests, NEW from \in Pc, NEW to \in Pc,
         goes(r, from, to), from \notin {"fill", "sort"}, to \notin {"locked", "fill", "sort"},
         to = "unlock" => from = "locked",
         to \in {"idle", "first", "lock"} => from \in {"idle", "first"}
  PROVE  ListInv'
<1> USE DEF Elsewhere, ListInv, goes, cacheVars
<1>1. TypeOK'
  BY DEF TypeOK
<1>2. Maps'
  BY DEF Maps, Created
<1>3. \A q \in Requests : q # r => pc'[q] = pc[q]
  BY DEF TypeOK
<1>4. pc[r] = from /\ pc'[r] = to
  BY DEF TypeOK
<1>5. \A q \in Requests : pc'[q] \in {"fill", "sort"} <=> pc[q] \in {"fill", "sort"}
  BY <1>3, <1>4
<1>6. Exclusion' /\ NotBegun'
  BY <1>3, <1>4 DEF Exclusion, NotBegun
<1>7. \A q \in Requests : (pc'[q] = "fill" => pc[q] = "fill") /\ (pc'[q] = "sort" => pc[q] = "sort")
                         /\ (pc[q] = "fill" => pc'[q] = "fill")
  BY <1>3, <1>4
<1>8. Partial' /\ Collected'
  BY <1>7 DEF Partial, Collected, Created
<1>9. FilledOnce'
  BY <1>5 DEF FilledOnce, Filling, Complete, Shown, Ascending
<1>10. NoControllerLeaked'
  BY <1>7 DEF NoControllerLeaked, Maps
<1> QED
  BY <1>1, <1>2, <1>6, <1>8, <1>9, <1>10

(* Those of the arrival and of initAccess(). *)
LEMMA AccessStep ==
  ASSUME ListInv, NEW r \in Requests, Arrives(r) \/ Read(r)
  PROVE  ListInv'
<1> USE DEF Pc, ListInv
<1>1. CASE Arrives(r)
  <2>1. Elsewhere
    BY <1>1 DEF Arrives, Elsewhere, hostVars, readVars, TypeOK, Maps
  <2> QED
    BY <1>1, <2>1, ElsewhereStep DEF Arrives
<1>2. CASE TestsBasePath(r)
  <2>1. Elsewhere
    BY <1>2 DEF TestsBasePath, Elsewhere, hostVars, constVars, readVars, TypeOK, Maps
  <2> QED
    BY <1>2, <2>1, ElsewhereStep DEF TestsBasePath
<1>3. CASE WritesBasePath(r)
  <2>1. Elsewhere
    BY <1>3 DEF WritesBasePath, Elsewhere, constVars, readVars, TypeOK, Maps
  <2> QED
    BY <1>3, <2>1, ElsewhereStep DEF WritesBasePath
<1>4. CASE CopiesHost(r)
  <2> DEFINE named == [consts EXCEPT !.headers =
                         IF Authorization[r] # Blank THEN Authorization[r] ELSE @]
  <2>0. PICK p \in {basePath} \cup (IF Writing THEN {"/", Torn} ELSE {}) :
          host' = [host EXCEPT ![r] = [path |-> p, consts |-> named]]
    BY <1>4 DEF CopiesHost
  <2> HIDE DEF named
  <2>1. PICK h : host' = [host EXCEPT ![r] = h] /\ h.path = p
    <3>1. [path |-> p, consts |-> named].path = p
      OBVIOUS
    <3> QED
      BY <2>0, <3>1
  <2>2. p \in Paths \cup {"/", Torn, Blank}
    BY DEF TypeOK
  <2>3. Elsewhere
    BY <1>4, <2>1, <2>2 DEF CopiesHost, Elsewhere, constVars, readVars, TypeOK, Maps
  <2> QED
    BY <1>4, <2>3, ElsewhereStep DEF CopiesHost
<1>5. CASE ReadsBegin(r)
  <2>1. Elsewhere
    BY <1>5 DEF ReadsBegin, Elsewhere, hostVars, constVars, TypeOK, Maps
  <2> QED
    BY <1>5, <2>1, ElsewhereStep DEF ReadsBegin
<1>6. CASE ReadsEnd(r)
  <2>1. access' = access \/ access' = [access EXCEPT ![r] = Torn]
    BY <1>6 DEF ReadsEnd
  <2>2. DOMAIN access' = Requests /\ \A q \in Requests : access'[q] \in Lists \cup {Torn}
    <3>1. /\ DOMAIN access' = Requests
          /\ \A q \in Requests : access'[q] = access[q] \/ access'[q] = Torn
      BY <2>1 DEF Maps
    <3>2. \A q \in Requests : access[q] \in Lists \cup {Torn}
      BY DEF TypeOK
    <3> QED
      BY <3>1, <3>2
  <2>3. Elsewhere
    BY <1>6, <2>2 DEF ReadsEnd, Elsewhere, hostVars, constVars, TypeOK, Maps
  <2> QED
    BY <1>6, <2>3, ElsewhereStep DEF ReadsEnd
<1> QED
  BY <1>1, <1>2, <1>3, <1>4, <1>5, <1>6 DEF Read

LEMMA TestsListStep ==
  ASSUME ListInv, NEW r \in Requests, FirstTest(r) \/ LeavesList(r)
  PROVE  ListInv'
<1>1. Elsewhere
  BY DEF FirstTest, LeavesList, Elsewhere, hostVars, constVars, readVars, ListInv, TypeOK, Maps
<1> QED
  BY <1>1, ElsewhereStep DEF FirstTest, LeavesList, Pc

(* The steps of the filling. *)

LEMMA LocksStep ==
  ASSUME ListInv, NEW r \in Requests, Locks(r)
  PROVE  ListInv'
<1> USE DEF ListInv, Locks, goes, hostVars, constVars, readVars
<1>1. TypeOK' /\ Maps'
  BY DEF TypeOK, Maps, Created, Pc
<1>2. /\ pc[r] = "lock" /\ pc'[r] = "locked"
      /\ \A q \in Requests : q # r => pc'[q] = pc[q]
  BY DEF TypeOK
<1>3. \A q \in Requests : pc[q] \notin {"locked", "fill", "sort", "unlock"}
  BY OwnerAssumption DEF Exclusion
<1>4. Exclusion' /\ NotBegun'
  BY <1>2, <1>3 DEF Exclusion, NotBegun
<1>5. Partial' /\ Collected'
  BY <1>2, <1>3 DEF Partial, Collected, Created
<1>6. FilledOnce'
  BY <1>2, <1>3 DEF FilledOnce, Filling, Complete, Shown, Ascending
<1>7. NoControllerLeaked'
  BY <1>2 DEF NoControllerLeaked, Maps
<1> QED
  BY <1>1, <1>4, <1>5, <1>6, <1>7

LEMMA UnlocksStep ==
  ASSUME ListInv, NEW r \in Requests, Unlocks(r)
  PROVE  ListInv'
<1> USE DEF ListInv, Unlocks, goes, hostVars, constVars, readVars
<1>1. TypeOK' /\ Maps'
  BY DEF TypeOK, Maps, Created, Pc
<1>2. /\ pc[r] = "unlock" /\ pc'[r] = "basePath"
      /\ \A q \in Requests : q # r => pc'[q] = pc[q]
  BY DEF TypeOK
<1>3. \A q \in Requests : q # r => pc[q] \notin {"locked", "fill", "sort", "unlock"}
  BY <1>2 DEF Exclusion
<1>4. Exclusion' /\ NotBegun'
  BY <1>2, <1>3 DEF Exclusion, NotBegun
<1>5. Partial' /\ Collected'
  BY <1>2, <1>3 DEF Partial, Collected, Created
<1>6. FilledOnce'
  BY <1>2, <1>3 DEF FilledOnce, Filling, Complete, Shown, Ascending
<1>7. NoControllerLeaked'
  BY <1>2 DEF NoControllerLeaked, Maps
<1> QED
  BY <1>1, <1>4, <1>5, <1>6, <1>7

LEMMA CollectsStep ==
  ASSUME ListInv, NEW r \in Requests, Collects(r)
  PROVE  ListInv'
<1> USE DEF ListInv, Collects, goes, hostVars, constVars
<1>1. /\ pc[r] = "locked" /\ pc'[r] = "fill"
      /\ \A q \in Requests : q # r => pc'[q] = pc[q]
  BY DEF TypeOK
<1>2. \A q \in Requests : q # r => pc[q] \notin {"locked", "fill", "sort", "unlock"}
  BY <1>1 DEF Exclusion
<1>3. staticInfoCache = <<>> /\ staticInfoCache' = <<>>
  BY DEF nothingToFill
<1>4. PICK s \in arrangements : controllers' = [controllers EXCEPT ![r] = s]
  OBVIOUS
<1>5. /\ controllers' \in [Requests -> Lists] /\ controllers'[r] = s
      /\ \A q \in Requests : q # r => controllers'[q] = controllers[q]
  BY <1>4, Arranged DEF TypeOK
<1>6. rounds[r] = 0 /\ rounds' = rounds
  BY <1>1 DEF NotBegun
<1>7. TypeOK'
  <2>1. \A q \in Requests : rounds'[q] \in 0 .. Len(controllers'[q])
    BY <1>5, <1>6, ListSeq, LenProperties DEF TypeOK
  <2>2. objects' \subseteq Requests \X Controllers
    BY DEF TypeOK, Created
  <2> QED
    BY <1>5, <2>1, <2>2 DEF TypeOK, Pc
<1>8. Maps'
  BY <1>6 DEF Maps, Created
<1>9. Exclusion' /\ NotBegun'
  BY <1>1, <1>2, <1>6 DEF Exclusion, NotBegun
<1>10. Partial'
  <2>1. ToSet(staticInfoCache') = {} /\ 1 .. rounds'[r] = {}
    BY <1>3, <1>6, EmptyList
  <2> QED
    BY <1>1, <1>2, <1>5, <2>1, Arranged DEF Partial, Created
<1>11. Collected' /\ FilledOnce'
  BY <1>3, EmptyList DEF Collected, FilledOnce
<1>12. NoControllerLeaked'
  BY <1>1 DEF NoControllerLeaked, Maps
<1> QED
  BY <1>7, <1>8, <1>9, <1>10, <1>11, <1>12

LEMMA AppendsStep ==
  ASSUME ListInv, NEW r \in Requests, Appends(r)
  PROVE  ListInv'
<1> USE DEF ListInv, Appends, hostVars, constVars, readVars
<1> DEFINE n == rounds[r] + 1
           c == controllers[r][n]
           Looked == {controllers[r][i] : i \in 1 .. rounds[r]}
           kept == Info[c].named /\ Info[c].methods
<1>1. /\ pc[r] = "fill" /\ pc' = pc
      /\ \A q \in Requests : q # r => pc[q] \notin {"locked", "fill", "sort", "unlock"}
  BY DEF Exclusion
<1>2. /\ controllers[r] \in Lists /\ controllers[r] \in Seq(Controllers)
      /\ DOMAIN controllers[r] = 1 .. Len(controllers[r]) /\ Len(controllers[r]) \in Nat
      /\ rounds[r] \in Nat /\ rounds[r] < Len(controllers[r])
  BY ListSeq, LenProperties DEF TypeOK
<1>3. rounds' \in [Requests -> Nat] /\ rounds'[r] = n
      /\ \A q \in Requests : q # r => rounds'[q] = rounds[q]
  BY <1>2 DEF Maps
<1>4. n \in DOMAIN controllers[r] /\ c \in Controllers
  BY <1>2, ElementOfSeq
<1>5. c \notin Looked
  BY <1>1, <1>2, <1>4 DEF Partial, IsInjective
<1>6. /\ ToSet(staticInfoCache) = {d \in Looked : Info[d].named /\ Info[d].methods}
      /\ c \notin ToSet(staticInfoCache)
  BY <1>1, <1>5 DEF Partial
<1>7. staticInfoCache' = IF kept THEN Append(staticInfoCache, c) ELSE staticInfoCache
  BY <1>3
<1> HIDE DEF Appends, c
<1>8. /\ staticInfoCache' \in Lists /\ IsInjective(staticInfoCache')
      /\ ToSet(staticInfoCache') = ToSet(staticInfoCache) \cup {d \in {c} : kept}
  <2>1. staticInfoCache \in Lists /\ IsInjective(staticInfoCache)
    BY DEF TypeOK, FilledOnce
  <2>2. CASE kept
    BY <1>4, <1>6, <1>7, <2>1, <2>2, AppendedList
  <2>3. CASE ~kept
    BY <1>7, <2>1, <2>3
  <2> QED
    BY <2>2, <2>3
<1>9. UNCHANGED <<mutexInfo, controllers, objects, hostVars, constVars, readVars, pc>>
  BY DEF Appends
<1>10. TypeOK' /\ Maps'
  <2>1. \A q \in Requests : rounds'[q] \in 0 .. Len(controllers'[q])
    <3> SUFFICES ASSUME NEW q \in Requests PROVE rounds'[q] \in 0 .. Len(controllers[q])
      BY <1>9
    <3>1. CASE q = r
      BY <1>2, <1>3, <3>1
    <3>2. CASE q # r
      BY <1>3, <3>2 DEF TypeOK
    <3> QED
      BY <3>1, <3>2
  <2> QED
    BY <1>3, <1>8, <1>9, <2>1 DEF TypeOK, Maps, Created
<1>11. Exclusion' /\ NotBegun'
  BY <1>1, <1>3, <1>9 DEF Exclusion, NotBegun
<1>12. Partial'
  <2>1. {controllers[r][i] : i \in 1 .. n} = Looked \cup {c}
    <3>1. 1 .. n = (1 .. rounds[r]) \cup {n}
      BY <1>2
    <3> QED
      BY <3>1 DEF c
  <2>2. ToSet(staticInfoCache') =
          {d \in {controllers[r][i] : i \in 1 .. n} : Info[d].named /\ Info[d].methods}
    BY <1>6, <1>8, <2>1
  <2> QED
    BY <1>1, <1>3, <1>9, <2>2 DEF Partial, Created
<1>13. Collected' /\ FilledOnce' /\ NoControllerLeaked'
  BY <1>1, <1>8, <1>9 DEF Collected, FilledOnce, Filling, NoControllerLeaked
<1> QED
  BY <1>10, <1>11, <1>12, <1>13

LEMMA DeletesStep ==
  ASSUME ListInv, NEW r \in Requests, Deletes(r)
  PROVE  ListInv'
<1> USE DEF ListInv, Deletes, goes, hostVars, constVars, readVars
<1>1. /\ pc[r] = "fill" /\ pc'[r] = "sort"
      /\ \A q \in Requests : q # r => pc'[q] = pc[q]
  BY DEF TypeOK
<1>2. \A q \in Requests : q # r => pc[q] \notin {"locked", "fill", "sort", "unlock"}
  BY <1>1 DEF Exclusion
<1>3. /\ nameOrder = <<>> => ToSet(controllers[r]) = {}
      /\ nameOrder # <<>> => ToSet(controllers[r]) = Created
  BY <1>1, EmptyList DEF Partial
<1>4. TypeOK' /\ Maps'
  BY DEF TypeOK, Maps, Created, Pc
<1>5. Exclusion' /\ NotBegun' /\ Partial'
  BY <1>1, <1>2 DEF Exclusion, NotBegun, Partial
<1>6. Collected'
  <2>1. {controllers[r][i] : i \in 1 .. rounds[r]} = ToSet(controllers[r])
    <3>1. controllers[r] \in Lists
      BY DEF TypeOK
    <3> QED
      BY <3>1, ListSeq DEF ToSet
  <2>2. ToSet(staticInfoCache) = {c \in ToSet(controllers[r]) : Info[c].named /\ Info[c].methods}
    BY <1>1, <2>1 DEF Partial
  <2>3. staticInfoCache = <<>> \/ ToSet(staticInfoCache) = Shown
    BY <1>3, <2>2, NothingListed DEF TypeOK, Created, Shown
  <2> QED
    BY <2>3 DEF Collected, Shown
<1>7. FilledOnce'
  BY <1>1 DEF FilledOnce, Filling
<1>8. NoControllerLeaked'
  BY <1>1, <1>3 DEF NoControllerLeaked, Maps
<1> QED
  BY <1>4, <1>5, <1>6, <1>7, <1>8

LEMMA SortsStep ==
  ASSUME ListInv, NEW r \in Requests, Sorts(r)
  PROVE  ListInv'
<1> USE DEF ListInv, Sorts, goes, hostVars, constVars, readVars
<1>1. /\ pc[r] = "sort" /\ pc'[r] = "unlock"
      /\ \A q \in Requests : q # r => pc'[q] = pc[q]
  BY DEF TypeOK
<1>2. \A q \in Requests : q # r => pc[q] \notin {"locked", "fill", "sort", "unlock"}
  BY <1>1 DEF Exclusion
<1>3. staticInfoCache \in Lists /\ IsInjective(staticInfoCache)
  BY DEF TypeOK, FilledOnce
<1>4. /\ staticInfoCache' \in Lists /\ IsInjective(staticInfoCache') /\ Ascending(staticInfoCache')
      /\ ToSet(staticInfoCache') = ToSet(staticInfoCache)
      /\ staticInfoCache' # <<>> => staticInfoCache # <<>>
  BY <1>3, SortedList
<1>5. TypeOK' /\ Maps'
  BY <1>4 DEF TypeOK, Maps, Created, Pc
<1>6. Exclusion' /\ NotBegun' /\ Partial' /\ Collected'
  BY <1>1, <1>2 DEF Exclusion, NotBegun, Partial, Collected
<1>7. FilledOnce'
  <2>1. staticInfoCache' # <<>> => ToSet(staticInfoCache') = Shown
    BY <1>1, <1>4 DEF Collected
  <2>2. staticInfoCache' # <<>> => Complete(staticInfoCache')
    BY <1>4, <2>1, CompleteList
  <2> QED
    BY <1>4, <2>2 DEF FilledOnce, Complete, Shown, Ascending
<1>8. NoControllerLeaked'
  BY <1>1 DEF NoControllerLeaked, Maps
<1> QED
  BY <1>5, <1>6, <1>7, <1>8

LEMMA ListStep == ASSUME ListInv, [Next]_vars PROVE ListInv'
<1>1. CASE UNCHANGED vars
  BY <1>1
     DEF vars, cacheVars, hostVars, constVars, readVars, ListInv, TypeOK, Maps, Created, Exclusion,
         NotBegun, Partial, Collected, FilledOnce, Filling, Complete, Shown, Ascending,
         NoControllerLeaked
<1>2. ASSUME NEW r \in Requests, Arrives(r) \/ Fill(r) \/ Read(r) PROVE ListInv'
  BY <1>2, AccessStep, TestsListStep, LocksStep, CollectsStep, AppendsStep, DeletesStep, SortsStep,
     UnlocksStep DEF Fill
<1> QED
  BY <1>1, <1>2 DEF Next

-----------------------------------------------------------------------------
(* Late requests. *)

(* Once there is a list that nobody is filling, nobody fills it again. *)
LEMMA SettledStays ==
  ASSUME ListInv, [Next]_vars, Settled
  PROVE  /\ Settled' /\ UNCHANGED <<staticInfoCache, basePath>>
         /\ \A r \in Requests : ~Collects(r)
<1> USE DEF Settled
<1>1. \A r \in Requests : pc[r] \notin {"fill", "sort", "writing"}
  BY DEF Filling, Writing
<1>2. CASE UNCHANGED vars
  BY <1>2, <1>1 DEF vars, cacheVars, hostVars, Filling, Writing, Collects, goes, nothingToFill
<1>3. ASSUME NEW r \in Requests, Arrives(r) \/ Fill(r) \/ Read(r)
      PROVE  /\ UNCHANGED <<staticInfoCache, basePath>>
             /\ \E from, to \in Pc \ {"fill", "sort", "writing"} : goes(r, from, to)
  <2>1. ~Collects(r) /\ ~Appends(r) /\ ~Deletes(r) /\ ~Sorts(r) /\ ~WritesBasePath(r)
    BY <1>1 DEF Collects, nothingToFill, Appends, Deletes, Sorts, WritesBasePath, goes
  <2>2. CASE Arrives(r) \/ Locks(r) \/ LeavesList(r) \/ Unlocks(r) \/ FirstTest(r)
    BY <2>2 DEF Arrives, FirstTest, Locks, LeavesList, Unlocks, Pc, cacheVars, hostVars
  <2>3. CASE TestsBasePath(r) \/ CopiesHost(r) \/ ReadsBegin(r) \/ ReadsEnd(r)
    BY <2>3 DEF TestsBasePath, isDefault, CopiesHost, ReadsBegin, ReadsEnd, Pc, cacheVars, hostVars
  <2> QED
    BY <1>3, <2>1, <2>2, <2>3 DEF Fill, Read
<1>4. ASSUME NEW r \in Requests, Arrives(r) \/ Fill(r) \/ Read(r)
      PROVE  Settled' /\ UNCHANGED <<staticInfoCache, basePath>>
  <2>1. \A q \in Requests : pc'[q] \notin {"fill", "sort", "writing"}
    BY <1>1, <1>3, <1>4 DEF goes, ListInv, TypeOK
  <2> QED
    BY <1>3, <1>4, <2>1 DEF Filling, Writing
<1> QED
  BY <1>2, <1>4 DEF Next, Collects, nothingToFill

LEMMA LateInit == Init => IInv
BY ListInit DEF Init, IInv, LateSettled, LateUndisturbed, LateReads

LEMMA LateStep == ASSUME IInv, [Next]_vars PROVE (LateSettled /\ LateUndisturbed /\ LateReads)'
<1> USE DEF IInv
<1>0. late \subseteq Requests /\ overlap \subseteq Requests
  BY DEF ListInv, TypeOK
<1>1. CASE UNCHANGED vars
  BY <1>1 DEF vars, cacheVars, hostVars, constVars, readVars, LateSettled, Settled, Filling, Writing,
              LateUndisturbed, LateReads
<1>2. ASSUME NEW r \in Requests, Arrives(r) PROVE (LateSettled /\ LateUndisturbed /\ LateReads)'
  <2>1. /\ pc[r] = "idle" /\ pc'[r] = "first" /\ \A q \in Requests : q # r => pc'[q] = pc[q]
        /\ UNCHANGED <<staticInfoCache, basePath, host, access, overlap>>
    BY <1>2 DEF Arrives, goes, ListInv, TypeOK, cacheVars, hostVars, readVars
  <2>2. Settled => Settled'
    BY <2>1 DEF Settled, Filling, Writing
  <2>3. late' = late \/ (late' = late \cup {r} /\ Settled)
    BY <1>2 DEF Arrives, Settled
  <2>4. LateSettled'
    BY <2>2, <2>3 DEF LateSettled
  <2>5. LateUndisturbed'
    BY <1>0, <2>1, <2>3 DEF LateUndisturbed
  <2>6. LateReads'
    BY <1>0, <2>1, <2>3 DEF LateReads, LateUndisturbed
  <2> QED
    BY <2>4, <2>5, <2>6
<1>3. ASSUME NEW r \in Requests, Fill(r) \/ Read(r) PROVE (LateSettled /\ LateUndisturbed /\ LateReads)'
  <2>1. late' = late /\ (late # {} => Settled)
    BY <1>3 DEF LateSettled, Fill, Read, FirstTest, Locks, LeavesList, Collects, Appends, Deletes,
       Sorts, Unlocks, TestsBasePath, WritesBasePath, CopiesHost, ReadsBegin, ReadsEnd, constVars
  <2>2. late # {} => /\ Settled' /\ UNCHANGED <<staticInfoCache, basePath>>
                     /\ \A q \in Requests : ~Collects(q)
    BY <1>3, <2>1, SettledStays DEF Next
  <2>3. LateSettled'
    BY <2>1, <2>2 DEF LateSettled
  <2>4. \A q \in Requests : q # r => pc'[q] = pc[q]
    BY <1>3 DEF Fill, Read, FirstTest, Locks, LeavesList, Collects, Appends, Deletes, Sorts, Unlocks,
       TestsBasePath, WritesBasePath, CopiesHost, ReadsBegin, ReadsEnd, goes, ListInv, TypeOK
  <2>5. CASE Collects(r)
    <3>1. late = {} /\ late' = {} /\ pc[r] = "locked"
      BY <2>1, <2>2, <2>5 DEF Collects, goes
    <3>2. LateUndisturbed'
      BY <1>0, <2>4, <2>5, <3>1 DEF Collects, LateUndisturbed
    <3> QED
      BY <1>0, <2>3, <3>1, <3>2 DEF LateReads
  <2>6. CASE ReadsBegin(r)
    <3>1. /\ pc[r] = "read" /\ pc'[r] = "reading"
          /\ overlap' = IF Filling THEN overlap \cup {r} ELSE overlap
          /\ late # {} => ~Filling
      BY <2>1, <2>6 DEF ReadsBegin, goes, ListInv, TypeOK, Settled
    <3>2. LateUndisturbed'
      BY <1>0, <2>1, <2>4, <3>1 DEF LateUndisturbed
    <3>3. /\ host' = host /\ access'[r] = staticInfoCache
          /\ \A q \in Requests : q # r => access'[q] = access[q]
      BY <2>6 DEF ReadsBegin, hostVars, ListInv, Maps
    <3>4. LateReads'
      BY <1>0, <2>1, <2>2, <2>4, <3>1, <3>3 DEF LateReads
    <3> QED
      BY <2>3, <3>2, <3>4
  <2>7. CASE ReadsEnd(r)
    <3>1. pc[r] = "reading" /\ pc'[r] = "done" /\ overlap' = overlap /\ host' = host
      BY <2>7 DEF ReadsEnd, goes, hostVars, ListInv, TypeOK
    <3>2. LateUndisturbed'
      BY <1>0, <2>1, <2>4, <3>1 DEF LateUndisturbed
    <3>3. /\ r \in late => access'[r] = access[r]
          /\ \A q \in Requests : q # r => access'[q] = access[q]
      BY <2>7 DEF ReadsEnd, LateUndisturbed, ListInv, Maps
    <3>4. LateReads'
      BY <1>0, <2>1, <2>2, <2>4, <3>1, <3>3 DEF LateReads
    <3> QED
      BY <2>3, <3>2, <3>4
  <2>8. CASE CopiesHost(r)
    <3>1. pc[r] = "copy" /\ pc'[r] = "read" /\ UNCHANGED <<overlap, access>>
      BY <2>8 DEF CopiesHost, goes, readVars, ListInv, TypeOK
    <3>2. LateUndisturbed'
      BY <1>0, <2>1, <2>4, <3>1 DEF LateUndisturbed
    <3> DEFINE named == [consts EXCEPT !.headers =
                           IF Authorization[r] # Blank THEN Authorization[r] ELSE @]
    <3>0. PICK p \in {basePath} \cup (IF Writing THEN {"/", Torn} ELSE {}) :
            host' = [host EXCEPT ![r] = [path |-> p, consts |-> named]]
      BY <2>8 DEF CopiesHost
    <3> HIDE DEF named
    <3>3. PICK h : host' = [host EXCEPT ![r] = h] /\ h.path = p
      <4>1. [path |-> p, consts |-> named].path = p
        OBVIOUS
      <4> QED
        BY <3>0, <4>1
    <3>4. /\ late # {} => host'[r].path = basePath
          /\ \A q \in Requests : q # r => host'[q] = host[q]
      BY <2>1, <3>3 DEF Settled, ListInv, Maps
    <3>5. LateReads'
      BY <1>0, <2>1, <2>2, <2>4, <3>1, <3>4 DEF LateReads
    <3> QED
      BY <2>3, <3>2, <3>5
  <2>9. CASE ~(Collects(r) \/ ReadsBegin(r) \/ ReadsEnd(r) \/ CopiesHost(r))
    <3>1. /\ UNCHANGED <<overlap, host, access>>
          /\ pc[r] \notin {"reading", "done"}
          /\ pc'[r] \notin {"idle", "read", "reading", "done"}
      BY <1>3, <2>9 DEF Fill, Read, FirstTest, Locks, LeavesList, Appends, Deletes, Sorts, Unlocks,
         TestsBasePath, WritesBasePath, goes, hostVars, readVars, ListInv, TypeOK
    <3>2. LateUndisturbed'
      BY <1>0, <2>1, <2>4, <3>1 DEF LateUndisturbed
    <3>3. LateReads'
      BY <1>0, <2>1, <2>2, <2>4, <3>1 DEF LateReads
    <3> QED
      BY <2>3, <3>2, <3>3
  <2> QED
    BY <2>5, <2>6, <2>7, <2>8, <2>9
<1> QED
  BY <1>1, <1>2, <1>3 DEF Next

(* The invariant holds in every behaviour. *)
THEOREM Invariance == Spec => []IInv
<1>1. IInv /\ [Next]_vars => IInv'
  BY ListStep, LateStep DEF IInv
<1> QED
  BY LateInit, <1>1, PTL DEF Spec

(* The variables have their types: no list is longer than there are classes. *)
THEOREM TypeCorrect == Spec => []TypeOK
<1>1. IInv => TypeOK
  BY DEF IInv, ListInv
<1> QED
  BY Invariance, <1>1, PTL

(* However many requests call initControllersCache() at once, the list has   *)
(* no controller twice, and all of them in their order when nobody fills it. *)
THEOREM ListFilledOnce == Spec => []FilledOnce
<1>1. IInv => FilledOnce
  BY DEF IInv, ListInv
<1> QED
  BY Invariance, <1>1, PTL

(* A request whose modules() begins after the list and the base path were    *)
(* settled answers all of the list and that base path.                       *)
THEOREM LateComplete == Spec => []LateAccessComplete
<1>1. IInv => LateAccessComplete
  <2> SUFFICES ASSUME IInv, NEW r \in late, pc[r] = "done"
               PROVE  /\ access[r] # Torn /\ Complete(access[r])
                      /\ host[r].path = basePath /\ basePath # Blank
    BY DEF LateAccessComplete
  <2>1. access[r] = staticInfoCache /\ host[r].path = basePath
    BY DEF IInv, LateReads
  <2>2. staticInfoCache # <<>> /\ ~Filling /\ basePath # Blank
    BY DEF IInv, LateSettled, Settled
  <2>3. staticInfoCache # Torn
    BY TornAssumption DEF IInv, ListInv, TypeOK
  <2>4. Complete(staticInfoCache)
    BY <2>2 DEF IInv, ListInv, FilledOnce
  <2> QED
    BY <2>1, <2>2, <2>3, <2>4
<1> QED
  BY Invariance, <1>1, PTL

(* With an order of names, every instance that controllers() created is      *)
(* deleted when the list is filled, by whichever request.                    *)
THEOREM InstancesDeleted == Spec => []NoControllerLeaked
<1>1. IInv => NoControllerLeaked
  BY DEF IInv, ListInv
<1> QED
  BY Invariance, <1>1, PTL

(* Two requests are never in the filling at once: mutexInfo excludes them on *)
(* every way through initControllersCache().                                 *)
OneFills ==
  LET Inside == {r \in Requests : pc[r] \in {"locked", "fill", "sort", "unlock"}}
  IN  \A q, r \in Inside : q = r

(* Of all requests, one at most is between Locks and Unlocks. *)
THEOREM MutexExcludes == Spec => []OneFills
<1>1. IInv => OneFills
  BY DEF IInv, ListInv, Exclusion, OneFills
<1> QED
  BY Invariance, <1>1, PTL

(* Once some request has left the list settled, no step of any request       *)
(* changes the list or the base path again.                                  *)
THEOREM SettledForGood == Spec => [][Settled => UNCHANGED <<staticInfoCache, basePath>>]_vars
<1>1. ListInv /\ [Next]_vars => [Settled => UNCHANGED <<staticInfoCache, basePath>>]_vars
  BY SettledStays
<1>2. IInv => ListInv
  BY DEF IInv
<1> QED
  BY Invariance, <1>1, <1>2, PTL DEF Spec

=============================================================================
