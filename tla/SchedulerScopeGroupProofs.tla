--------------------- MODULE SchedulerScopeGroupProofs ---------------------
(***************************************************************************)
(* Proofs about SchedulerScopeGroup, for any classes, groups and methods:  *)
(* whatever the order of registrations, the registry is complete and what  *)
(* is in it stays, and an invocation runs all methods in their order.      *)
(***************************************************************************)
EXTENDS SchedulerScopeGroup, FiniteSetTheorems, SequenceTheorems, WellFoundedInduction, TLAPS

-----------------------------------------------------------------------------
(***************************************************************************)
(* The inductive invariant.  What main() finds follows from what each      *)
(* registration leaves (Registered); the order of an invocation is that of *)
(* the list it began with, of which it has run one part and has the other  *)
(* to run (Invoking).                                                      *)
(***************************************************************************)

Group ==
  [class : Classes, synchronize : BOOLEAN, methods : UNION {[S -> Indices] : S \in SUBSET Names}]

Emitted == {"STARTED", "SUCCESSFUL", "DISABLED", "SKIPPED", "FAIL"}

Events == [group : Uuids, stack : Nat, method : Nat, is : Emitted, state : Nat]

Invocations ==
  [stack : 0 .. MaxStacks, todo : Seq(Names), ran : Seq(Names), method : Indices \cup {0}]

(* TypeOK, with the variables as maps and sequences. *)
Typed ==
  /\ phase \in {"static", "main"}
  /\ registered \subseteq Classes
  /\ DOMAIN scopeCache \subseteq Uuids
  /\ \A u \in DOMAIN scopeCache : scopeCache[u] \in Group
  /\ run \in [Uuids -> Invocations]
  /\ stacks \in 0 .. MaxStacks
  /\ posted \in Seq(Events) /\ Len(posted) <= MaxPosted
  /\ DOMAIN stackStats = Uuids

(* A group has the names of all classes that have registered, each with the  *)
(* index that one of these has for it; of its owner's names, the owner's.    *)
Registered(u) ==
  IF u \notin DOMAIN scopeCache
    THEN \A c \in registered : scheduled(c, u) = {}
    ELSE LET methods == scopeCache[u].methods
         IN  /\ Owner(u) \in registered
             /\ scheduled(Owner(u), u) # {}
             /\ IsFiniteSet(DOMAIN methods)
             /\ DOMAIN methods = UNION {sortNames(c, u) : c \in registered}
             /\ \A k \in DOMAIN methods : \E c \in registered :
                  k \in sortNames(c, u) /\ methods[k] = firstIndex(c, u, k)
             /\ \A k \in sortNames(Owner(u), u) : methods[k] = firstIndex(Owner(u), u, k)

(* A group is invoked only from main() on, and then what it has run and what *)
(* is left to run are the list of its methods.                               *)
Invoking(u) ==
  IF run[u].stack = 0
    THEN run[u].todo = <<>> /\ run[u].ran = <<>> /\ run[u].method = 0
    ELSE /\ phase = "main"
         /\ u \in DOMAIN scopeCache
         /\ run[u].ran \o run[u].todo \in methodList(u)
         /\ run[u].method # 0 => /\ run[u].todo # <<>>
                                 /\ run[u].method = scopeCache[u].methods[Head(run[u].todo)]

IInv ==
  /\ Typed
  /\ phase = "main" => registered = Classes
  /\ \A u \in Uuids : Registered(u) /\ Invoking(u)

-----------------------------------------------------------------------------
(* Numbers. *)

(* A set of natural numbers has a least one, and Min chooses it. *)
LEMMA MinIsLeast ==
  ASSUME NEW T \in SUBSET Nat, T # {}
  PROVE  Min(T) \in T /\ \A n \in T : Min(T) <= n
<1>1. PICK m \in T : \A n \in T : ~ (<<n, m>> \in OpToRel(<, Nat))
  BY NatLessThanWellFounded, WFMin
<1>2. \A n \in T : ~ (n < m)
  BY <1>1 DEF OpToRel
<1>3. \A n \in T : m <= n
  BY <1>2
<1> QED
  BY <1>3 DEF Min

-----------------------------------------------------------------------------
(* The methods of a class and their sort names. *)

LEMMA MethodsOf ==
  ASSUME NEW c \in Classes
  PROVE  /\ DOMAIN Methods[c] = 1 .. Len(Methods[c]) /\ Len(Methods[c]) \in Nat
         /\ \A i \in DOMAIN Methods[c] : i \in Nat \ {0} /\ Methods[c][i] \in Method
<1>1. Methods[c] \in Seq(Method)
  BY MethodsAssumption
<1> QED
  BY <1>1, LenProperties

(* The properties say of a class what the code does with it. *)
LEMMA AnnotatedIsScheduled ==
  ASSUME NEW c \in Classes, NEW u
  PROVE  Annotated(c, u) = scheduled(c, u) /\ \A x : AnnotatedName(c, x) = nameOf(c, x)
<1>1. \A i \in DOMAIN Methods[c] : Methods[c][i].groups \subseteq Groups
  BY MethodsOf DEF Method
<1>2. ASSUME NEW x \in Annotated(c, u) PROVE x \in scheduled(c, u)
  <2>1. PICK i \in DOMAIN Methods[c] :
          x \in {<<i, g>> : g \in {h \in Methods[c][i].groups : h[1] \o h[2] = u}}
    BY <1>2 DEF Annotated
  <2>2. PICK g \in Methods[c][i].groups : x = <<i, g>> /\ g[1] \o g[2] = u
    BY <2>1
  <2> QED
    BY <1>1, <2>2 DEF scheduled, scopeUuid
<1>3. ASSUME NEW x \in scheduled(c, u) PROVE x \in Annotated(c, u)
  <2>1. x \in (DOMAIN Methods[c]) \X Groups
    BY <1>3 DEF scheduled
  <2>2. PICK i \in DOMAIN Methods[c], g \in Groups : x = <<i, g>>
    BY <2>1
  <2>3. g \in {h \in Methods[c][i].groups : h[1] \o h[2] = u}
    BY <1>3, <2>2 DEF scheduled, scopeUuid
  <2>4. x \in {<<i, h>> : h \in {h \in Methods[c][i].groups : h[1] \o h[2] = u}}
    BY <2>2, <2>3
  <2> QED
    BY <2>4 DEF Annotated
<1> QED
  BY <1>2, <1>3 DEF AnnotatedName, nameOf

LEMMA FirstIndexNamed ==
  ASSUME NEW c \in Classes, NEW u, NEW k \in sortNames(c, u)
  PROVE  /\ firstIndex(c, u, k) \in DOMAIN Methods[c]
         /\ \E x \in scheduled(c, u) : x[1] = firstIndex(c, u, k) /\ nameOf(c, x) = k
<1>1. Named(c, u, k) \in SUBSET Nat /\ Named(c, u, k) # {}
  BY MethodsOf DEF Named, sortNames, scheduled
<1>2. firstIndex(c, u, k) \in Named(c, u, k)
  BY <1>1, MinIsLeast DEF firstIndex
<1> QED
  BY <1>2 DEF Named, scheduled

LEMMA FirstIndexLeast ==
  ASSUME NEW c \in Classes, NEW u, NEW x \in scheduled(c, u)
  PROVE  firstIndex(c, u, nameOf(c, x)) <= x[1]
<1> DEFINE k == nameOf(c, x)
<1>1. Named(c, u, k) \in SUBSET Nat /\ x[1] \in Named(c, u, k)
  BY MethodsOf DEF Named, scheduled
<1> QED
  BY <1>1, MinIsLeast DEF firstIndex

LEMMA SortNamesFinite ==
  ASSUME NEW c \in Classes, NEW u
  PROVE  IsFiniteSet(sortNames(c, u))
<1> DEFINE name == [x \in scheduled(c, u) |-> nameOf(c, x)]
<1>0. IsFiniteSet(DOMAIN Methods[c])
  <2>1. DOMAIN Methods[c] = 1 .. Len(Methods[c]) /\ Len(Methods[c]) \in Int
    BY MethodsOf
  <2> DEFINE n == Len(Methods[c])
  <2>2. 1 \in Int /\ n \in Int
    BY <2>1
  <2> HIDE DEF n
  <2>3. IsFiniteSet(1 .. n)
    BY <2>2, FS_Interval
  <2> QED
    BY <2>1, <2>3 DEF n
<1>1. IsFiniteSet((DOMAIN Methods[c]) \X Groups)
  BY <1>0, GroupsAssumption, FS_Product
<1>2. scheduled(c, u) \in SUBSET ((DOMAIN Methods[c]) \X Groups)
  BY DEF scheduled
<1>3. IsFiniteSet(scheduled(c, u))
  BY <1>1, <1>2, FS_Subset
<1>4. name \in Surjection(scheduled(c, u), sortNames(c, u))
  BY DEF Surjection, sortNames
<1> QED
  BY <1>3, <1>4, FS_Surjection

(* The orders a sort name shows. *)
LEMMA OrdersAre == Int32 \subseteq Int /\ \A n \in Int32 : n >= 0 => n \in Nat
BY SMT DEF Int32

(* A sort name is a rank, a letter and a text. *)
LEMMA NameParts ==
  ASSUME NEW c \in Classes, NEW u \in Uuids, NEW x \in scheduled(c, u)
  PROVE  LET m == Methods[c][x[1]]
         IN  /\ nameOf(c, x) \in Names
             /\ x[1] \in DOMAIN Methods[c]
             /\ m.order \in Int32 /\ m.name \in Nat /\ Rank[x[2]] \in Nat
             /\ nameOf(c, x)[1] = Rank[x[2]]
             /\ nameOf(c, x)[2] = IF m.order >= 0 THEN "a" ELSE "b"
             /\ nameOf(c, x)[3] = IF m.order >= 0 THEN digits(m.order) ELSE <<m.name>>
<1>1. x[1] \in DOMAIN Methods[c] /\ x[2] \in Groups
  BY DEF scheduled
<1>2. Methods[c][x[1]] \in Method
  BY <1>1, MethodsOf
<1>3. nameOf(c, x) \in Names
  <2>1. nameOf(c, x) \in sortNames(c, u)
    BY DEF sortNames
  <2> QED
    BY <2>1 DEF Names
<1> QED
  BY <1>1, <1>2, <1>3, OrdersAre, GroupsAssumption DEF Method, nameOf, sortName, rightJustified

(* A text of numbers. *)
Texts == Seq(Nat)

LEMMA DigitsType ==
  ASSUME NEW n \in Nat
  PROVE  /\ digits(n) \in Texts /\ DOMAIN digits(n) = 1 .. 10 /\ Len(digits(n)) = 10
         /\ \A d \in 1 .. 10 : digits(n)[d] = (n \div Weights[d]) % 10
<1>1. \A d \in 1 .. 10 : Weights[d] \in Nat \ {0}
  BY SMT DEF Weights
<1>2. \A d \in 1 .. 10 : (n \div Weights[d]) % 10 \in Nat
  BY <1>1
<1>3. digits(n) \in [1 .. 10 -> Nat]
  BY <1>2 DEF digits
<1> QED
  BY <1>3 DEF digits, Texts

LEMMA NamesCompare ==
  ASSUME NEW k \in Names
  PROVE  k[1] \in Nat /\ k[2] \in {"a", "b"} /\ k[3] \in Texts
<1>1. PICK c \in Classes, u \in Uuids : k \in sortNames(c, u)
  BY DEF Names
<1>2. PICK x \in scheduled(c, u) : k = nameOf(c, x)
  BY <1>1 DEF sortNames
<1> DEFINE m == Methods[c][x[1]]
<1>3. m.order \in Int32 /\ m.name \in Nat /\ k[1] \in Nat /\ k[2] \in {"a", "b"}
  BY <1>2, NameParts
<1>4. k[3] \in {digits(m.order), <<m.name>>} /\ (k[3] # <<m.name>> => m.order \in Nat)
  BY <1>2, <1>3, OrdersAre, NameParts
<1>5. <<m.name>> \in Texts
  BY <1>3 DEF Texts
<1> QED
  BY <1>3, <1>4, <1>5, DigitsType

(* Two texts are not each before the other: at the first place where they    *)
(* differ only one has the lower character.                                  *)
LEMMA LowerAsymmetric ==
  ASSUME NEW s \in Texts, NEW t \in Texts, LowerText(s, t)
  PROVE  ~LowerText(t, s)
<1>1. /\ DOMAIN s = 1 .. Len(s) /\ Len(s) \in Nat /\ \A i \in DOMAIN s : s[i] \in Nat
      /\ DOMAIN t = 1 .. Len(t) /\ Len(t) \in Nat /\ \A i \in DOMAIN t : t[i] \in Nat
  BY LenProperties, ElementOfSeq DEF Texts
<1> SUFFICES ASSUME LowerText(t, s) PROVE FALSE
  OBVIOUS
<1>2. ASSUME NEW i \in DOMAIN s \cap DOMAIN t, s[i] < t[i], \A j \in 1 .. i - 1 : s[j] = t[j]
      PROVE  FALSE
  <2>1. CASE \E h \in DOMAIN t \cap DOMAIN s : t[h] < s[h] /\ \A j \in 1 .. h - 1 : t[j] = s[j]
    <3>1. PICK h \in DOMAIN t \cap DOMAIN s : t[h] < s[h] /\ \A j \in 1 .. h - 1 : t[j] = s[j]
      BY <2>1
    <3>2. i \in Int /\ h \in Int /\ 1 <= i /\ 1 <= h
      BY <1>1
    <3>3. ~(i < h) /\ ~(h < i) /\ i # h
      BY <1>1, <1>2, <3>1, <3>2
    <3> QED
      BY <3>2, <3>3
  <2>2. CASE Len(t) < Len(s) /\ \A j \in DOMAIN t : t[j] = s[j]
    BY <1>1, <1>2, <2>2
  <2> QED
    BY <2>1, <2>2 DEF LowerText
<1>3. ASSUME Len(s) < Len(t), \A j \in DOMAIN s : s[j] = t[j]
      PROVE  FALSE
  <2>1. CASE \E h \in DOMAIN t \cap DOMAIN s : t[h] < s[h] /\ \A j \in 1 .. h - 1 : t[j] = s[j]
    BY <1>1, <1>3, <2>1
  <2>2. CASE Len(t) < Len(s)
    BY <1>1, <1>3, <2>2
  <2> QED
    BY <2>1, <2>2 DEF LowerText
<1> QED
  BY <1>2, <1>3 DEF LowerText

LEMMA LowerOne ==
  ASSUME NEW a \in Nat, NEW b \in Nat, a < b
  PROVE  LowerText(<<a>>, <<b>>)
<1>1. /\ DOMAIN <<a>> = 1 .. 1 /\ DOMAIN <<b>> = 1 .. 1
      /\ <<a>>[1] = a /\ <<b>>[1] = b
  OBVIOUS
<1>2. 1 \in DOMAIN <<a>> \cap DOMAIN <<b>> /\ \A j \in 1 .. 1 - 1 : <<a>>[j] = <<b>>[j]
  BY <1>1
<1> QED
  BY <1>1, <1>2 DEF LowerText

(* Before is a strict order. *)
LEMMA BeforeAsymmetric ==
  ASSUME NEW k \in Names, NEW l \in Names, Before(k, l)
  PROVE  ~Before(l, k)
BY NamesCompare, LowerAsymmetric DEF Before

-----------------------------------------------------------------------------
(***************************************************************************)
(* Padded numbers.  The first d digits of n are the number                 *)
(* n \div Weights[d].  Of two numbers, the first prefixes that differ are  *)
(* in the order of the numbers, and so are the digits they end with.       *)
(***************************************************************************)
Orders == Int32 \cap Nat

Prefix(n, d) == IF d = 0 THEN 0 ELSE n \div Weights[d]

LEMMA Quotient ==
  ASSUME NEW n \in Nat, NEW w \in Nat \ {0}
  PROVE  n \div w \in Nat /\ w * (n \div w) <= n /\ n < w * (n \div w) + w
BY SMT

LEMMA QuotientOfTen ==
  ASSUME NEW n \in Nat, NEW w \in Nat \ {0}, NEW q \in Nat, NEW r \in Nat, NEW s \in Nat,
         w * q <= n, n < w * q + w,
         (10 * w) * r <= n, n < (10 * w) * r + 10 * w,
         10 * s <= q, q < 10 * s + 10
  PROVE  s = r
<1>1. ASSUME s < r PROVE FALSE
  <2>1. q + 1 <= 10 * r
    BY <1>1
  <2>2. w * (q + 1) <= w * (10 * r)
    BY <2>1
  <2>3. w * (q + 1) = w * q + w /\ w * (10 * r) = (10 * w) * r
    OBVIOUS
  <2> QED
    BY <2>2, <2>3
<1>2. ASSUME r < s PROVE FALSE
  <2>1. 10 * r + 10 <= q
    BY <1>2
  <2>2. w * (10 * r + 10) <= w * q
    BY <2>1
  <2>3. w * (10 * r + 10) = (10 * w) * r + 10 * w
    OBVIOUS
  <2> QED
    BY <2>2, <2>3
<1> QED
  BY <1>1, <1>2

LEMMA LastDigit ==
  ASSUME NEW n \in Nat, NEW w \in Nat \ {0}
  PROVE  n \div w = 10 * (n \div (10 * w)) + ((n \div w) % 10)
<1> DEFINE q == n \div w
           r == n \div (10 * w)
           s == q \div 10
<1>1. q \in Nat /\ w * q <= n /\ n < w * q + w
  BY Quotient
<1>2. 10 * w \in Nat \ {0}
  OBVIOUS
<1>3. r \in Nat /\ (10 * w) * r <= n /\ n < (10 * w) * r + 10 * w
  BY <1>2, Quotient
<1>4. s \in Nat /\ 10 * s <= q /\ q < 10 * s + 10
  BY <1>1, Quotient
<1>5. q % 10 = q - 10 * s
  BY <1>1
<1> HIDE DEF q, r, s
<1>6. s = r
  BY <1>1, <1>3, <1>4, QuotientOfTen
<1>7. q = 10 * r + (q % 10)
  BY <1>1, <1>4, <1>5, <1>6
<1> QED
  BY <1>7 DEF q, r

LEMMA WeightsTens ==
  /\ \A d \in 1 .. 10 : Weights[d] \in Nat \ {0}
  /\ \A d \in 2 .. 10 : Weights[d - 1] = 10 * Weights[d]
  /\ Weights[1] = 1000000000 /\ Weights[10] = 1
BY SMT DEF Weights

LEMMA PrefixNext ==
  ASSUME NEW n \in Orders, NEW d \in 1 .. 10
  PROVE  /\ n \in Nat /\ Prefix(n, d) \in Nat /\ Prefix(n, d - 1) \in Nat
         /\ digits(n)[d] \in Nat
         /\ Prefix(n, d) = 10 * Prefix(n, d - 1) + digits(n)[d]
<1>1. n \in Nat /\ Weights[d] \in Nat \ {0}
  BY WeightsTens DEF Orders
<1>2. digits(n)[d] = (n \div Weights[d]) % 10 /\ n \div Weights[d] \in Nat
  BY <1>1, DigitsType, Quotient
<1>3. digits(n)[d] \in Nat /\ Prefix(n, d) \in Nat
  BY <1>2 DEF Prefix
<1>4. CASE d = 1
  <2>1. Prefix(n, d - 1) = 0
    BY <1>4 DEF Prefix
  <2>2. n \div 1000000000 = (n \div 1000000000) % 10
    BY SMT DEF Orders, Int32
  <2>3. Weights[d] = 1000000000
    BY SMT, <1>4, WeightsTens
  <2>4. Prefix(n, d) = digits(n)[d]
    BY SMT, <1>2, <1>4, <2>2, <2>3 DEF Prefix
  <2> QED
    BY <1>1, <1>3, <2>1, <2>4
<1>5. CASE d # 1
  <2>1. d \in 2 .. 10 /\ d - 1 \in 1 .. 10
    BY <1>5
  <2>2. Weights[d - 1] = 10 * Weights[d] /\ Weights[d - 1] \in Nat \ {0}
    BY <2>1, WeightsTens
  <2>3. Prefix(n, d - 1) = n \div (10 * Weights[d]) /\ Prefix(n, d) = n \div Weights[d]
    BY <2>1, <2>2 DEF Prefix
  <2>4. Prefix(n, d - 1) \in Nat
    BY <1>1, <2>1, <2>2, Quotient DEF Prefix
  <2>5. n \div Weights[d] = 10 * (n \div (10 * Weights[d])) + ((n \div Weights[d]) % 10)
    BY <1>1, LastDigit
  <2> QED
    BY <1>1, <1>2, <1>3, <2>3, <2>4, <2>5
<1> QED
  BY <1>4, <1>5

LEMMA PrefixMonotone ==
  ASSUME NEW a \in Nat, NEW b \in Nat, a < b, NEW w \in Nat \ {0}
  PROVE  a \div w <= b \div w
<1> DEFINE q == a \div w
           r == b \div w
<1>1. /\ q \in Nat /\ w * q <= a
      /\ r \in Nat /\ b < w * r + w
  BY Quotient
<1> HIDE DEF q, r
<1>2. ASSUME r < q PROVE FALSE
  <2>1. r + 1 <= q
    BY <1>1, <1>2
  <2>2. w * (r + 1) <= w * q
    BY <1>1, <2>1
  <2>3. w * (r + 1) = w * r + w
    BY <1>1
  <2> QED
    BY <1>1, <2>2, <2>3
<1> QED
  BY <1>1, <1>2 DEF q, r

(* Padded to one width, numbers are in the order of their texts. *)
LEMMA PaddedInOrder ==
  ASSUME NEW a \in Orders, NEW b \in Orders, a < b
  PROVE  LowerText(digits(a), digits(b))
<1> DEFINE T == {d \in 1 .. 10 : Prefix(a, d) # Prefix(b, d)}
           i == Min(T)
<1>1. a \in Nat /\ b \in Nat
  BY DEF Orders
<1>2. 10 \in T
  <2>1. Weights[10] = 1
    BY SMT, WeightsTens
  <2>2. a \div 1 = a /\ b \div 1 = b
    BY <1>1
  <2>3. Prefix(a, 10) = a /\ Prefix(b, 10) = b
    BY <2>1, <2>2 DEF Prefix
  <2> QED
    BY <1>1, <2>3
<1>3. T \in SUBSET Nat
  OBVIOUS
<1>4. i \in T /\ \A d \in T : i <= d
  BY <1>2, <1>3, MinIsLeast
<1> HIDE DEF i
<1>5. i \in 1 .. 10 /\ Prefix(a, i) # Prefix(b, i)
  BY <1>4
<1>6. \A d \in 1 .. 10 : d < i => Prefix(a, d) = Prefix(b, d)
  BY <1>4, <1>5
<1> HIDE DEF T
<1>7. \A d \in 1 .. 10 : d <= i => Prefix(a, d - 1) = Prefix(b, d - 1)
  <2> SUFFICES ASSUME NEW d \in 1 .. 10, d <= i PROVE Prefix(a, d - 1) = Prefix(b, d - 1)
    OBVIOUS
  <2>1. CASE d = 1
    BY <2>1 DEF Prefix
  <2>2. CASE d # 1
    BY <1>5, <1>6, <2>2
  <2> QED
    BY <2>1, <2>2
<1>8. \A d \in 1 .. i - 1 : digits(a)[d] = digits(b)[d]
  <2> SUFFICES ASSUME NEW d \in 1 .. i - 1 PROVE digits(a)[d] = digits(b)[d]
    OBVIOUS
  <2>1. d \in 1 .. 10 /\ d < i /\ d <= i
    BY <1>5
  <2>2. Prefix(a, d) = Prefix(b, d) /\ Prefix(a, d - 1) = Prefix(b, d - 1)
    BY <1>6, <1>7, <2>1
  <2>3. /\ digits(a)[d] \in Nat /\ Prefix(a, d - 1) \in Nat
        /\ Prefix(a, d) = 10 * Prefix(a, d - 1) + digits(a)[d]
    BY <2>1, PrefixNext
  <2>4. digits(b)[d] \in Nat /\ Prefix(b, d) = 10 * Prefix(b, d - 1) + digits(b)[d]
    BY <2>1, PrefixNext
  <2>5. 10 * Prefix(a, d - 1) + digits(a)[d] = 10 * Prefix(a, d - 1) + digits(b)[d]
    BY <2>2, <2>3, <2>4
  <2> QED
    BY <2>3, <2>4, <2>5
<1>9. digits(a)[i] < digits(b)[i]
  <2>1. Prefix(a, i) <= Prefix(b, i)
    <3>1. Weights[i] \in Nat \ {0} /\ i # 0
      BY <1>5, WeightsTens
    <3> QED
      BY <1>1, <3>1, PrefixMonotone DEF Prefix
  <2>2. Prefix(a, i - 1) = Prefix(b, i - 1)
    BY <1>5, <1>7
  <2>3. /\ digits(a)[i] \in Nat /\ Prefix(a, i - 1) \in Nat
        /\ Prefix(a, i) = 10 * Prefix(a, i - 1) + digits(a)[i]
    BY <1>5, PrefixNext
  <2>4. digits(b)[i] \in Nat /\ Prefix(b, i) = 10 * Prefix(b, i - 1) + digits(b)[i]
    BY <1>5, PrefixNext
  <2> QED
    BY <1>5, <2>1, <2>2, <2>3, <2>4
<1>10. DOMAIN digits(a) = 1 .. 10 /\ DOMAIN digits(b) = 1 .. 10
  BY <1>1, DigitsType
<1> QED
  BY <1>5, <1>8, <1>9, <1>10 DEF LowerText

-----------------------------------------------------------------------------
(* Types. *)

LEMMA IndicesCount == Indices \subseteq Nat \ {0}
  <1> SUFFICES ASSUME NEW c \in Classes PROVE DOMAIN Methods[c] \subseteq Nat \ {0}
    BY DEF Indices
  <1> QED
    BY MethodsOf

LEMMA TypedImpliesTypeOK == Typed => TypeOK
<1> SUFFICES ASSUME Typed PROVE TypeOK
  OBVIOUS
<1>1. ASSUME NEW u \in DOMAIN scopeCache
      PROVE  /\ scopeCache[u].class \in Classes
             /\ scopeCache[u].synchronize \in BOOLEAN
             /\ DOMAIN scopeCache[u].methods \subseteq Names
             /\ Range(scopeCache[u].methods) \subseteq Indices
  <2>1. scopeCache[u] \in Group
    BY DEF Typed
  <2>2. PICK S \in SUBSET Names : scopeCache[u].methods \in [S -> Indices]
    BY <2>1 DEF Group
  <2> QED
    BY <2>1, <2>2 DEF Group, Range
<1>2. ASSUME NEW u \in Uuids
      PROVE  /\ run[u].stack \in 0 .. MaxStacks
             /\ Range(run[u].todo) \cup Range(run[u].ran) \subseteq Names
             /\ run[u].method \in Indices \cup {0}
  <2>1. run[u] \in Invocations
    BY DEF Typed
  <2>2. \A s \in Seq(Names) : Range(s) \subseteq Names
    BY LenProperties, ElementOfSeq DEF Range
  <2> QED
    BY <2>1, <2>2 DEF Invocations
<1> QED
  BY <1>1, <1>2 DEF TypeOK, Typed

-----------------------------------------------------------------------------
(* Registration. *)

LEMMA RegisteredInit == Init => \A u \in Uuids : Registered(u)
BY DEF Init, Registered

(* The group that a class with methods for it finds or creates. *)
LEMMA GroupFound ==
  ASSUME IInv, NEW u \in Uuids, NEW c \in Classes, scheduled(c, u) # {}
  PROVE  LET g == groupOf(c, u)
         IN  /\ g \in Group
             /\ g.class \in registered \cup {c}
             /\ scheduled(g.class, u) # {}
             /\ IsFiniteSet(DOMAIN g.methods)
             /\ DOMAIN g.methods = UNION {sortNames(d, u) : d \in registered}
             /\ \A k \in DOMAIN g.methods : \E d \in registered :
                  k \in sortNames(d, u) /\ g.methods[k] = firstIndex(d, u, k)
             /\ \A k \in sortNames(g.class, u) :
                  IF k \in DOMAIN g.methods THEN g.methods[k] = firstIndex(g.class, u, k)
                                            ELSE g.class = c
<1>1. CASE u \in DOMAIN scopeCache
  BY <1>1 DEF groupOf, IInv, Typed, Registered, Owner
<1>2. CASE u \notin DOMAIN scopeCache
  <2>1. groupOf(c, u) = [class |-> c, synchronize |-> c \in Synchronize, methods |-> <<>>]
    BY <1>2 DEF groupOf
  <2>2. /\ DOMAIN groupOf(c, u).methods = {} /\ groupOf(c, u).class = c
        /\ groupOf(c, u).methods \in [{} -> Indices]
    BY <2>1
  <2>3. UNION {sortNames(d, u) : d \in registered} = {}
    BY <1>2 DEF IInv, Registered, sortNames
  <2>4. groupOf(c, u) \in Group
    <3>1. groupOf(c, u).methods \in UNION {[S -> Indices] : S \in SUBSET Names}
      BY <2>2
    <3> QED
      BY <2>1, <3>1 DEF Group
  <2> QED
    BY <2>2, <2>3, <2>4, FS_EmptySet
<1> QED
  BY <1>1, <1>2

LEMMA RegStep ==
  ASSUME IInv, NEW c \in Classes, reg(c)
  PROVE  IInv'
<1>1. ASSUME NEW u \in Uuids, scheduled(c, u) = {}
      PROVE  /\ Registered(u)'
             /\ u \in DOMAIN scopeCache' => u \in DOMAIN scopeCache /\ scopeCache'[u] = scopeCache[u]
  <2>1. /\ u \in DOMAIN scopeCache' <=> u \in DOMAIN scopeCache
        /\ u \in DOMAIN scopeCache => scopeCache'[u] = scopeCache[u]
        /\ registered' = registered \cup {c}
    BY <1>1 DEF reg
  <2>2. sortNames(c, u) = {}
    BY <1>1 DEF sortNames
  <2>3. UNION {sortNames(d, u) : d \in registered'} = UNION {sortNames(d, u) : d \in registered}
    BY <2>1, <2>2
  <2>4. CASE u \notin DOMAIN scopeCache
    BY <1>1, <2>1, <2>4 DEF IInv, Registered
  <2>5. CASE u \in DOMAIN scopeCache
    BY <2>1, <2>3, <2>5 DEF IInv, Registered, Owner
  <2> QED
    BY <2>1, <2>4, <2>5
<1>2. ASSUME NEW u \in Uuids, scheduled(c, u) # {}
      PROVE  Registered(u)' /\ scopeCache'[u] \in Group
  <2> DEFINE g == groupOf(c, u)
             new == [k \in sortNames(c, u) |-> firstIndex(c, u, k)]
             methods == insertNew(g.methods, new)
  <2>1. /\ u \in DOMAIN scopeCache' /\ scopeCache'[u] = [g EXCEPT !.methods = methods]
        /\ registered' = registered \cup {c}
    BY <1>2 DEF reg
  <2>2. g \in Group
    BY <1>2, GroupFound
  <2>3. /\ scopeCache'[u].class = g.class /\ scopeCache'[u].synchronize = g.synchronize
        /\ scopeCache'[u].methods = methods
    BY <2>1, <2>2 DEF Group
  <2>4. /\ DOMAIN methods = DOMAIN g.methods \cup sortNames(c, u)
        /\ \A k \in DOMAIN methods :
             methods[k] = IF k \in DOMAIN g.methods THEN g.methods[k] ELSE firstIndex(c, u, k)
    BY DEF insertNew
  <2> HIDE DEF methods, g
  <2>5. UNION {sortNames(d, u) : d \in registered'} =
          (UNION {sortNames(d, u) : d \in registered}) \cup sortNames(c, u)
    BY <2>1
  <2>6. IsFiniteSet(DOMAIN methods)
    <3>1. IsFiniteSet(DOMAIN g.methods) /\ IsFiniteSet(sortNames(c, u))
      BY <1>2, GroupFound, SortNamesFinite DEF g
    <3> QED
      BY <2>4, <3>1, FS_Union
  <2>7. \A k \in DOMAIN methods : \E d \in registered' :
          k \in sortNames(d, u) /\ methods[k] = firstIndex(d, u, k)
    BY <1>2, <2>1, <2>4, GroupFound DEF g
  <2>8. \A k \in sortNames(g.class, u) : methods[k] = firstIndex(g.class, u, k)
    BY <1>2, <2>4, GroupFound DEF g
  <2>9. Registered(u)'
    BY <1>2, <2>1, <2>3, <2>4, <2>5, <2>6, <2>7, <2>8, GroupFound DEF Registered, Owner, g
  <2>10. methods \in [DOMAIN methods -> Indices] /\ DOMAIN methods \in SUBSET Names
    <3>1. ASSUME NEW k \in DOMAIN methods PROVE k \in Names /\ methods[k] \in Indices
      <4>1. PICK d \in registered' : k \in sortNames(d, u) /\ methods[k] = firstIndex(d, u, k)
        BY <2>7
      <4>2. d \in Classes
        BY <2>1 DEF IInv, Typed
      <4> QED
        BY <4>1, <4>2, FirstIndexNamed DEF Names, Indices
    <3>2. methods = [k \in DOMAIN methods |-> methods[k]]
      BY DEF methods, insertNew
    <3> QED
      BY <3>1, <3>2
  <2> QED
    BY <2>1, <2>2, <2>9, <2>10 DEF Group
<1>3. DOMAIN scopeCache' \subseteq Uuids
  BY DEF reg, IInv, Typed
<1>4. \A u \in DOMAIN scopeCache' : scopeCache'[u] \in Group
  BY <1>1, <1>2, <1>3 DEF IInv, Typed
<1>5. Typed'
  BY <1>3, <1>4 DEF reg, IInv, Typed
<1>6. \A u \in Uuids : Invoking(u)'
  BY DEF reg, IInv, Invoking
<1> QED
  BY <1>1, <1>2, <1>5, <1>6 DEF reg, IInv

-----------------------------------------------------------------------------
(* Invocation. *)

(* A list of methods has each name of the group that its class can invoke    *)
(* at exactly one place, and in order.                                       *)
LEMMA MethodListed ==
  ASSUME IInv, NEW u \in DOMAIN scopeCache, NEW s \in methodList(u)
  PROVE  /\ s \in Seq(known(u)) /\ s \in Seq(Names)
         /\ DOMAIN s = 1 .. Len(s) /\ Len(s) \in Nat
         /\ \A i, j \in DOMAIN s : s[i] = s[j] => i = j
         /\ \A k \in known(u) : \E i \in DOMAIN s : s[i] = k
         /\ \A i, j \in DOMAIN s : i < j => Before(s[i], s[j])
<1> DEFINE n == Cardinality(known(u))
<1>1. known(u) \in SUBSET DOMAIN scopeCache[u].methods /\ IsFiniteSet(DOMAIN scopeCache[u].methods)
  BY DEF known, IInv, Registered, Typed
<1>2. IsFiniteSet(known(u)) /\ n \in Nat
  BY <1>1, FS_Subset, FS_CardinalityType
<1>3. /\ s \in [1 .. n -> known(u)]
      /\ \A i, j \in 1 .. n : i # j => s[i] # s[j]
      /\ \A i, j \in DOMAIN s : i < j => Before(s[i], s[j])
  BY DEF methodList, SetToSeqs
<1>4. s \in Injection(1 .. n, known(u))
  BY <1>3 DEF Injection, IsInjective
<1>5. s \in Surjection(1 .. n, known(u))
  BY <1>2, <1>4, FS_Interval, FS_Injection
<1>6. s \in Seq(known(u))
  BY <1>2, <1>3, SeqDef
<1>7. known(u) \subseteq Names
  <2>1. scopeCache[u] \in Group
    BY DEF IInv, Typed
  <2> QED
    BY <2>1 DEF Group, known
<1>8. s \in Seq(Names)
  BY <1>6, <1>7, SeqMonotonic
<1> QED
  BY <1>3, <1>4, <1>5, <1>6, <1>8, LenProperties DEF Injection, IsInjective, Surjection

(* Going on to the next method moves one name from what is left to what ran. *)
LEMMA NextMethod ==
  ASSUME NEW S, NEW r \in Seq(S), NEW t \in Seq(S), t # <<>>
  PROVE  /\ Append(r, Head(t)) \o Tail(t) = r \o t
         /\ Append(r, Head(t)) \in Seq(S) /\ Tail(t) \in Seq(S)
         /\ Head(t) = (r \o t)[Len(r) + 1] /\ Len(r) + 1 \in DOMAIN (r \o t)
<1>1. /\ Head(t) \in S /\ Tail(t) \in Seq(S) /\ Len(Tail(t)) = Len(t) - 1
      /\ \A i \in 1 .. Len(Tail(t)) : Tail(t)[i] = t[i + 1]
      /\ Len(t) \in Nat \ {0} /\ Len(r) \in Nat
  BY HeadTailProperties, EmptySeq, LenProperties
<1>2. /\ Append(r, Head(t)) \in Seq(S) /\ Len(Append(r, Head(t))) = Len(r) + 1
      /\ \A i \in 1 .. Len(r) : Append(r, Head(t))[i] = r[i]
      /\ Append(r, Head(t))[Len(r) + 1] = t[1]
  BY <1>1
<1> DEFINE a == Append(r, Head(t)) \o Tail(t)
           b == r \o t
<1>3. /\ a \in Seq(S) /\ Len(a) = Len(r) + Len(t)
      /\ \A i \in 1 .. Len(a) :
           a[i] = IF i <= Len(r) + 1 THEN Append(r, Head(t))[i] ELSE Tail(t)[i - (Len(r) + 1)]
  BY <1>1, <1>2, ConcatProperties
<1>4. /\ b \in Seq(S) /\ Len(b) = Len(r) + Len(t)
      /\ \A i \in 1 .. Len(b) : b[i] = IF i <= Len(r) THEN r[i] ELSE t[i - Len(r)]
  BY <1>1, ConcatProperties
<1> HIDE DEF a, b
<1>5. ASSUME NEW i \in 1 .. Len(a) PROVE a[i] = b[i]
  <2>1. CASE i <= Len(r)
    BY <1>1, <1>2, <1>3, <1>4, <2>1
  <2>2. CASE i = Len(r) + 1
    <3>0. i \in 1 .. Len(a) /\ i \in 1 .. Len(b) /\ i <= Len(r) + 1 /\ ~(i <= Len(r))
      BY <1>1, <1>3, <1>4, <2>2
    <3>1. a[i] = Append(r, Head(t))[i] /\ b[i] = t[i - Len(r)]
      BY <1>3, <1>4, <3>0
    <3>2. i - Len(r) = 1
      BY <1>1, <2>2
    <3>3. b[i] = t[1]
      BY <3>1, <3>2
    <3> QED
      BY <1>2, <2>2, <3>1, <3>3
  <2>3. CASE i > Len(r) + 1
    <3>0. i \in 1 .. Len(a) /\ i \in 1 .. Len(b) /\ ~(i <= Len(r) + 1) /\ ~(i <= Len(r))
      BY <1>1, <1>3, <1>4, <2>3
    <3>1. a[i] = Tail(t)[i - (Len(r) + 1)] /\ b[i] = t[i - Len(r)]
      BY <1>3, <1>4, <3>0
    <3>2. i - (Len(r) + 1) \in 1 .. Len(Tail(t)) /\ (i - (Len(r) + 1)) + 1 = i - Len(r)
      BY <1>1, <1>3, <2>3
    <3> QED
      BY <1>1, <3>1, <3>2
  <2> QED
    BY <1>1, <2>1, <2>2, <2>3
<1>6. a = b
  BY <1>3, <1>4, <1>5, SeqEqual
<1>7. b[Len(r) + 1] = t[1] /\ Len(r) + 1 \in DOMAIN b
  BY <1>1, <1>4, LenProperties
<1> QED
  BY <1>1, <1>2, <1>6, <1>7 DEF a, b

LEMMA EmitTypes ==
  ASSUME IInv, NEW u \in Uuids, NEW index \in Nat, NEW is \in Emitted, NEW value \in Nat,
         emit(u, index, is, value)
  PROVE  posted' \in Seq(Events) /\ Len(posted') <= MaxPosted
<1>1. run[u].stack \in Nat
  BY BoundsAssumption DEF IInv, Typed, Invocations
<1>2. [group |-> u, stack |-> run[u].stack, method |-> index, is |-> is, state |-> value] \in Events
  BY <1>1 DEF Events
<1> QED
  BY <1>2, BoundsAssumption DEF emit, IInv, Typed

(* A step of one group leaves the registry and the other groups alone. *)
LEMMA GroupStep ==
  ASSUME IInv, NEW u \in Uuids, NEW r \in Invocations, run' = [run EXCEPT ![u] = r],
         UNCHANGED <<phase, registered, scopeCache, stackStats>>,
         stacks' \in 0 .. MaxStacks,
         posted' \in Seq(Events), Len(posted') <= MaxPosted,
         Invoking(u)'
  PROVE  IInv'
<1>1. Typed'
  BY DEF IInv, Typed
<1>2. \A v \in Uuids : v # u => run'[v] = run[v]
  BY DEF IInv, Typed
<1>3. ASSUME NEW v \in Uuids PROVE Invoking(v)' /\ Registered(v)'
  <2>1. Invoking(v) /\ Registered(v)
    BY DEF IInv
  <2>2. CASE v = u
    BY <2>1, <2>2 DEF Registered, Owner
  <2>3. CASE v # u
    BY <1>2, <2>1, <2>3 DEF Invoking, Registered, Owner, methodList, known
  <2> QED
    BY <2>2, <2>3
<1> QED
  BY <1>1, <1>3 DEF IInv

LEMMA InvokeBeginsStep ==
  ASSUME IInv, NEW u \in Uuids, InvokeBegins(u)
  PROVE  IInv'
<1>1. PICK todo \in methodList(u) :
        run' = [run EXCEPT ![u] = [stack |-> stacks', todo |-> todo, ran |-> <<>>, method |-> 0]]
  BY DEF InvokeBegins
<1> DEFINE r == [stack |-> stacks', todo |-> todo, ran |-> <<>>, method |-> 0]
<1>2. todo \in Seq(Names)
  BY MethodListed DEF InvokeBegins
<1>3. stacks' = stacks + 1 /\ stacks' \in 1 .. MaxStacks
  BY BoundsAssumption DEF InvokeBegins, IInv, Typed
<1>4. r.stack = stacks' /\ r.todo = todo /\ r.ran = <<>> /\ r.method = 0
  OBVIOUS
<1>5. r \in Invocations
  BY <1>2, <1>3 DEF Invocations
<1> HIDE DEF r
<1>6. run'[u] = r
  BY <1>1 DEF IInv, Typed, r
<1>7. r.ran \o r.todo = todo
  BY <1>2, <1>4, ConcatEmptySeq
<1>8. Invoking(u)'
  <2>1. methodList(u)' = methodList(u)
    BY DEF InvokeBegins, methodList, known
  <2>2. UNCHANGED <<phase, scopeCache>> /\ phase = "main" /\ u \in DOMAIN scopeCache
    BY DEF InvokeBegins
  <2>3. run'[u].stack # 0 /\ run'[u].method = 0 /\ run'[u].ran \o run'[u].todo = todo
    <3>1. run'[u].stack # 0
      BY <1>3, <1>4, <1>6
    <3>2. run'[u].method = 0
      BY <1>4, <1>6
    <3>3. run'[u].ran \o run'[u].todo = todo
      BY <1>6, <1>7
    <3> QED
      BY <3>1, <3>2, <3>3
  <2> QED
    BY <2>1, <2>2, <2>3 DEF Invoking
<1>9. /\ UNCHANGED <<phase, registered, scopeCache, stackStats>> /\ stacks' \in 0 .. MaxStacks
      /\ posted' \in Seq(Events) /\ Len(posted') <= MaxPosted
  BY <1>3 DEF InvokeBegins, IInv, Typed
<1>10. run' = [run EXCEPT ![u] = r]
  BY <1>1 DEF r
<1> QED
  BY <1>5, <1>8, <1>9, <1>10, GroupStep

(* The next name to run is one the group's class can invoke. *)
LEMMA HeadKnown ==
  ASSUME IInv, NEW u \in Uuids, run[u].todo # <<>>
  PROVE  /\ u \in DOMAIN scopeCache
         /\ run[u].ran \o run[u].todo \in methodList(u)
         /\ Head(run[u].todo) \in known(u)
<1>1. run[u].ran \in Seq(Names) /\ run[u].todo \in Seq(Names)
  BY DEF IInv, Typed, Invocations
<1>2. u \in DOMAIN scopeCache /\ run[u].ran \o run[u].todo \in methodList(u)
  BY DEF IInv, Invoking
<1>3. /\ Head(run[u].todo) = (run[u].ran \o run[u].todo)[Len(run[u].ran) + 1]
      /\ Len(run[u].ran) + 1 \in DOMAIN (run[u].ran \o run[u].todo)
  BY <1>1, NextMethod
<1>4. run[u].ran \o run[u].todo \in Seq(known(u))
  BY <1>2, MethodListed
<1>5. Head(run[u].todo) \in known(u)
  BY <1>3, <1>4, LenProperties, ElementOfSeq
<1> QED
  BY <1>2, <1>5

LEMMA MethodStartsStep ==
  ASSUME IInv, NEW u \in Uuids, MethodStarts(u)
  PROVE  IInv'
<1> DEFINE index == scopeCache[u].methods[Head(run[u].todo)]
           r == [run[u] EXCEPT !.method = index]
<1>1. run[u] \in Invocations /\ run[u].todo # <<>> /\ run[u].method = 0
  BY DEF MethodStarts, IInv, Typed
<1>2. /\ run[u].stack # 0 /\ phase = "main" /\ u \in DOMAIN scopeCache
      /\ run[u].ran \o run[u].todo \in methodList(u)
  BY <1>1 DEF IInv, Invoking
<1>3. Head(run[u].todo) \in known(u)
  BY <1>1, HeadKnown
<1>4. index \in Indices /\ index \in Nat \ {0}
  <2>1. scopeCache[u].class \in Classes
    BY <1>2 DEF IInv, Typed, Group
  <2> QED
    BY <1>3, <2>1, IndicesCount DEF known, Indices
<1>5. run' = [run EXCEPT ![u] = r] /\ emit(u, index, "STARTED", 1)
  <2>1. run' = [run EXCEPT ![u].method = index] /\ emit(u, index, "STARTED", 1)
    BY DEF MethodStarts
  <2> QED
    BY <2>1
<1> HIDE DEF index
<1>6. r \in Invocations /\ run'[u] = r
  BY <1>1, <1>4, <1>5 DEF Invocations, IInv, Typed
<1>7. posted' \in Seq(Events) /\ Len(posted') <= MaxPosted
  <2>1. index \in Nat /\ "STARTED" \in Emitted /\ 1 \in Nat
    BY <1>4 DEF Emitted
  <2> QED
    BY <1>5, <2>1, EmitTypes
<1>8. Invoking(u)'
  <2>1. UNCHANGED <<phase, scopeCache>>
    BY DEF MethodStarts
  <2>2. r.stack = run[u].stack /\ r.todo = run[u].todo /\ r.ran = run[u].ran /\ r.method = index
    BY <1>1 DEF Invocations
  <2> QED
    BY <1>1, <1>2, <1>6, <2>1, <2>2 DEF Invoking, methodList, known, index
<1> QED
  BY <1>5, <1>6, <1>7, <1>8, GroupStep DEF MethodStarts, IInv, Typed

LEMMA MethodEndsStep ==
  ASSUME IInv, NEW u \in Uuids, MethodEnds(u)
  PROVE  IInv'
<1> DEFINE r == afterMethod(run[u])
<1>1. run[u] \in Invocations /\ run[u].method # 0
  BY DEF MethodEnds, IInv, Typed
<1>2. /\ run[u].stack # 0 /\ phase = "main" /\ u \in DOMAIN scopeCache /\ run[u].todo # <<>>
      /\ run[u].ran \o run[u].todo \in methodList(u)
  BY <1>1 DEF IInv, Invoking
<1>3. run[u].ran \in Seq(Names) /\ run[u].todo \in Seq(Names)
  BY <1>1 DEF Invocations
<1>4. /\ r.stack = run[u].stack /\ r.todo = Tail(run[u].todo) /\ r.method = 0
      /\ r.ran = Append(run[u].ran, Head(run[u].todo))
  BY DEF afterMethod
<1>5. run' = [run EXCEPT ![u] = r]
  BY DEF MethodEnds
<1>6. r \in Invocations /\ run'[u] = r
  BY <1>1, <1>2, <1>3, <1>5, NextMethod DEF Invocations, IInv, Typed, afterMethod
<1> HIDE DEF r
<1>7. posted' \in Seq(Events) /\ Len(posted') <= MaxPosted
  <2>1. PICK value \in 1 .. 4 : emit(u, run[u].method, InvokeReturn[value], value)
    BY DEF MethodEnds, InvokeReturn
  <2>2. InvokeReturn[value] \in Emitted /\ value \in Nat
    BY DEF InvokeReturn, Emitted
  <2>3. run[u].method \in Nat
    BY <1>1, IndicesCount DEF Invocations
  <2> QED
    BY <2>1, <2>2, <2>3, EmitTypes
<1>8. Invoking(u)'
  <2>1. UNCHANGED <<phase, scopeCache>>
    BY DEF MethodEnds
  <2>2. r.ran \o r.todo = run[u].ran \o run[u].todo
    <3>1. \A p, q \in Seq(Names) : q # <<>> => Append(p, Head(q)) \o Tail(q) = p \o q
      BY NextMethod
    <3>2. Append(run[u].ran, Head(run[u].todo)) \o Tail(run[u].todo) = run[u].ran \o run[u].todo
      BY <1>2, <1>3, <3>1
    <3> QED
      BY <1>4, <3>2
  <2> QED
    BY <1>2, <1>4, <1>6, <2>1, <2>2 DEF Invoking, methodList, known
<1> QED
  BY <1>5, <1>6, <1>7, <1>8, GroupStep DEF MethodEnds, IInv, Typed

-----------------------------------------------------------------------------
(* The invariant holds in every behaviour. *)

LEMMA InitInvariant == Init => IInv
<1> SUFFICES ASSUME Init PROVE IInv
  OBVIOUS
<1> USE DEF Init
<1>1. Idle \in Invocations
  BY BoundsAssumption DEF Idle, Invocations
<1>2. posted \in Seq(Events) /\ Len(posted) = 0
  BY EmptySeq
<1>3. Typed
  BY <1>1, <1>2, BoundsAssumption DEF Typed
<1>4. \A u \in Uuids : Invoking(u)
  BY DEF Invoking, Idle
<1> QED
  BY <1>3, <1>4, RegisteredInit DEF IInv

LEMMA MainStep == ASSUME IInv, MainBegins \/ Delivered \/ UNCHANGED vars PROVE IInv'
<1>1. UNCHANGED <<registered, scopeCache, run, stacks>> /\ (phase = "main" => phase' = "main")
  BY DEF MainBegins, Delivered, vars
<1>2. posted' \in Seq(Events) /\ Len(posted') <= MaxPosted
  <2>1. posted \in Seq(Events) /\ Len(posted) <= MaxPosted /\ Len(posted) \in Nat
    BY LenProperties DEF IInv, Typed
  <2>2. CASE posted' = posted
    BY <2>1, <2>2
  <2>3. CASE posted # <<>> /\ posted' = Tail(posted)
    <3>1. Tail(posted) \in Seq(Events) /\ Len(Tail(posted)) = Len(posted) - 1
      BY <2>1, <2>3, HeadTailProperties
    <3> QED
      BY <2>1, <2>3, <3>1, BoundsAssumption
  <2> QED
    BY <2>2, <2>3 DEF MainBegins, Delivered, vars
<1>3. Typed'
  BY <1>1, <1>2 DEF MainBegins, Delivered, vars, IInv, Typed
<1>4. phase' = "main" => registered' = Classes
  BY <1>1 DEF MainBegins, Delivered, vars, IInv
<1>5. ASSUME NEW u \in Uuids PROVE Registered(u)' /\ Invoking(u)'
  <2>1. Registered(u) /\ Invoking(u)
    BY DEF IInv
  <2>2. Registered(u)'
    BY <1>1, <2>1 DEF Registered, Owner
  <2>3. Invoking(u)'
    BY <1>1, <2>1 DEF Invoking, methodList, known
  <2> QED
    BY <2>2, <2>3
<1> QED
  BY <1>3, <1>4, <1>5 DEF IInv

LEMMA NextStep == ASSUME IInv, [Next]_vars PROVE IInv'
BY RegStep, MainStep, InvokeBeginsStep, MethodStartsStep, MethodEndsStep DEF Next

THEOREM Invariance == Spec => []IInv
BY InitInvariant, NextStep, PTL DEF Spec

-----------------------------------------------------------------------------
(* The variables have their types: groups, names and indices that some class *)
(* has, and the bounds.                                                      *)
THEOREM TypeCorrect == Spec => []TypeOK
<1>1. IInv => TypeOK
  BY TypedImpliesTypeOK DEF IInv
<1> QED
  BY Invariance, <1>1, PTL

(* No registration, in whatever order and however often, changes the class,  *)
(* the synchronize flag or an index of a group that exists.                  *)
THEOREM RegistrationsKeep == Spec => BindingsStable
<1> DEFINE Kept(u) ==
      /\ u \in DOMAIN scopeCache'
      /\ scopeCache'[u].class = scopeCache[u].class
      /\ scopeCache'[u].synchronize = scopeCache[u].synchronize
      /\ \A k \in DOMAIN scopeCache[u].methods :
           /\ k \in DOMAIN scopeCache'[u].methods
           /\ scopeCache'[u].methods[k] = scopeCache[u].methods[k]
<1>1. ASSUME IInv, NEW c \in Classes, reg(c), NEW u \in DOMAIN scopeCache PROVE Kept(u)
  <2>1. u \in Uuids /\ scopeCache[u] \in Group
    BY <1>1 DEF IInv, Typed
  <2>2. CASE scheduled(c, u) = {}
    BY <1>1, <2>1, <2>2 DEF reg
  <2>3. CASE scheduled(c, u) # {}
    <3> DEFINE methods == insertNew(scopeCache[u].methods,
                                    [k \in sortNames(c, u) |-> firstIndex(c, u, k)])
    <3>1. scopeCache'[u] = [scopeCache[u] EXCEPT !.methods = methods]
      BY <1>1, <2>1, <2>3 DEF reg, groupOf
    <3>2. \A k \in DOMAIN scopeCache[u].methods :
            k \in DOMAIN methods /\ methods[k] = scopeCache[u].methods[k]
      BY DEF insertNew
    <3> HIDE DEF methods
    <3>3. /\ scopeCache'[u].class = scopeCache[u].class
          /\ scopeCache'[u].synchronize = scopeCache[u].synchronize
          /\ scopeCache'[u].methods = methods
      BY <2>1, <3>1 DEF Group
    <3> QED
      BY <1>1, <3>2, <3>3 DEF reg
  <2> QED
    BY <2>2, <2>3
<1>2. ASSUME UNCHANGED scopeCache, NEW u \in DOMAIN scopeCache PROVE Kept(u)
  BY <1>2
<1>3. IInv /\ [Next]_vars => [\A u \in DOMAIN scopeCache : Kept(u)]_vars
  BY <1>1, <1>2 DEF Next, MainBegins, InvokeBegins, MethodStarts, MethodEnds, Delivered, vars
<1> QED
  BY Invariance, <1>3, PTL DEF Spec, BindingsStable

(* In whatever order the linker puts the static initializers, main() finds   *)
(* every group that some class schedules a method in, with all its names.    *)
THEOREM MainFindsAll == Spec => []RegistryComplete
<1>1. IInv => RegistryComplete
  <2> SUFFICES ASSUME IInv, phase = "main", NEW u \in Uuids
               PROVE  LET names == UNION {{AnnotatedName(c, x) : x \in Annotated(c, u)} : c \in Classes}
                      IN  IF names = {} THEN u \notin DOMAIN scopeCache
                          ELSE u \in DOMAIN scopeCache /\ DOMAIN scopeCache[u].methods = names
    BY DEF RegistryComplete
  <2> DEFINE names == UNION {{AnnotatedName(c, x) : x \in Annotated(c, u)} : c \in Classes}
  <2>1. registered = Classes /\ Registered(u)
    BY DEF IInv
  <2>2. \A c \in Classes : {AnnotatedName(c, x) : x \in Annotated(c, u)} = sortNames(c, u)
    BY AnnotatedIsScheduled DEF sortNames
  <2>3. names = UNION {sortNames(c, u) : c \in Classes}
    BY <2>2
  <2> HIDE DEF names
  <2>4. CASE u \in DOMAIN scopeCache
    <3>1. DOMAIN scopeCache[u].methods = names
      BY <2>1, <2>3, <2>4 DEF Registered
    <3>2. Owner(u) \in Classes /\ sortNames(Owner(u), u) # {}
      BY <2>1, <2>4 DEF Registered, sortNames
    <3>3. names # {}
      BY <2>3, <3>2
    <3> QED
      BY <2>4, <3>1, <3>3 DEF names
  <2>5. CASE u \notin DOMAIN scopeCache
    <3>1. \A c \in Classes : sortNames(c, u) = {}
      BY <2>1, <2>5 DEF Registered, sortNames
    <3> QED
      BY <2>3, <2>5, <3>1 DEF names
  <2> QED
    BY <2>4, <2>5
<1> QED
  BY Invariance, <1>1, PTL

(* What a completed invocation has run is the list of the group's methods,   *)
(* in which the owner's names have one place each, in their order.           *)
LEMMA CompletedOrdered ==
  ASSUME IInv, NEW u \in Uuids, Completed(u)
  PROVE  /\ \A x \in Own(u) :
              LET index == scopeCache[u].methods[AnnotatedName(Owner(u), x)]
              IN  /\ Cardinality(RanAt(u, x)) = 1
                  /\ \E y \in Sharing(u, x) : y[1] = index
                  /\ \A y \in Sharing(u, x) : index <= y[1]
         /\ \A x, y \in Own(u) :
              LET m == Methods[Owner(u)][x[1]]
                  n == Methods[Owner(u)][y[1]]
              IN  /\ x[2] = y[2]
                  /\ \/ m.order >= 0 /\ (n.order < 0 \/ m.order < n.order)
                     \/ m.order < 0 /\ n.order < 0 /\ m.name < n.name
                  => \A k \in RanAt(u, x), l \in RanAt(u, y) : k < l
<1> DEFINE ran == run[u].ran
<1>1. /\ u \in DOMAIN scopeCache /\ Registered(u)
      /\ ran \o <<>> \in methodList(u) /\ ran \in Seq(Names)
  BY DEF Completed, IInv, Invoking, Typed, Invocations
<1>2. ran \in methodList(u)
  BY <1>1, ConcatEmptySeq
<1> HIDE DEF ran
<1>3. /\ ran \in Seq(Names)
      /\ DOMAIN ran = 1 .. Len(ran) /\ Len(ran) \in Nat
      /\ \A i, j \in DOMAIN ran : ran[i] = ran[j] => i = j
      /\ \A k \in known(u) : \E i \in DOMAIN ran : ran[i] = k
      /\ \A i, j \in DOMAIN ran : i < j => Before(ran[i], ran[j])
  BY <1>1, <1>2, MethodListed
<1>4. Owner(u) \in Classes
  BY <1>1 DEF IInv, Typed, Group, Owner
<1>5. Own(u) = scheduled(Owner(u), u)
  BY <1>4, AnnotatedIsScheduled DEF Own
<1>6. \A x \in Own(u) : RanAt(u, x) = {i \in DOMAIN ran : ran[i] = nameOf(Owner(u), x)}
  BY <1>4, AnnotatedIsScheduled DEF RanAt, ran
<1>7. ASSUME NEW x \in Own(u) PROVE Cardinality(RanAt(u, x)) = 1
  <2> DEFINE k == nameOf(Owner(u), x)
  <2>1. k \in sortNames(Owner(u), u)
    BY <1>5 DEF sortNames
  <2>2. scopeCache[u].methods[k] \in DOMAIN Methods[Owner(u)] /\ k \in DOMAIN scopeCache[u].methods
    BY <1>1, <1>4, <2>1, FirstIndexNamed DEF Registered
  <2>3. k \in known(u)
    BY <2>2 DEF known, Owner
  <2>4. PICK i \in DOMAIN ran : ran[i] = k
    BY <1>3, <2>3
  <2>5. RanAt(u, x) = {i}
    BY <1>3, <1>6, <2>4
  <2> QED
    BY <2>5, FS_Singleton
<1>8. ASSUME NEW x \in Own(u)
      PROVE  LET index == scopeCache[u].methods[AnnotatedName(Owner(u), x)]
             IN  /\ \E y \in Sharing(u, x) : y[1] = index
                 /\ \A y \in Sharing(u, x) : index <= y[1]
  <2> DEFINE k == nameOf(Owner(u), x)
  <2>1. k \in sortNames(Owner(u), u) /\ AnnotatedName(Owner(u), x) = k
    BY <1>4, <1>5, AnnotatedIsScheduled DEF sortNames
  <2>2. scopeCache[u].methods[k] = firstIndex(Owner(u), u, k)
    BY <1>1, <2>1 DEF Registered
  <2>3. Sharing(u, x) = {y \in scheduled(Owner(u), u) : nameOf(Owner(u), y) = k}
    BY <1>4, <1>5, AnnotatedIsScheduled DEF Sharing
  <2>4. \E y \in scheduled(Owner(u), u) :
          y[1] = firstIndex(Owner(u), u, k) /\ nameOf(Owner(u), y) = k
    BY <1>4, <2>1, FirstIndexNamed
  <2>5. ASSUME NEW y \in scheduled(Owner(u), u), nameOf(Owner(u), y) = k
        PROVE  firstIndex(Owner(u), u, k) <= y[1]
    BY <1>4, <2>1, <2>5, FirstIndexLeast
  <2> QED
    BY <2>1, <2>2, <2>3, <2>4, <2>5
<1>9. ASSUME NEW x \in Own(u), NEW y \in Own(u), x[2] = y[2],
             LET m == Methods[Owner(u)][x[1]]
                 n == Methods[Owner(u)][y[1]]
             IN  \/ m.order >= 0 /\ (n.order < 0 \/ m.order < n.order)
                 \/ m.order < 0 /\ n.order < 0 /\ m.name < n.name,
             NEW k \in RanAt(u, x), NEW l \in RanAt(u, y)
      PROVE  k < l
  <2>1. Before(nameOf(Owner(u), x), nameOf(Owner(u), y))
    <3> DEFINE m == Methods[Owner(u)][x[1]]
               n == Methods[Owner(u)][y[1]]
               k1 == nameOf(Owner(u), x)
               l1 == nameOf(Owner(u), y)
    <3>1. /\ m.order \in Int32 /\ m.name \in Nat /\ k1[1] = Rank[x[2]]
          /\ k1[2] = IF m.order >= 0 THEN "a" ELSE "b"
          /\ k1[3] = IF m.order >= 0 THEN digits(m.order) ELSE <<m.name>>
      BY <1>4, <1>5, NameParts
    <3>2. /\ n.order \in Int32 /\ n.name \in Nat /\ l1[1] = Rank[y[2]]
          /\ l1[2] = IF n.order >= 0 THEN "a" ELSE "b"
          /\ l1[3] = IF n.order >= 0 THEN digits(n.order) ELSE <<n.name>>
      BY <1>4, <1>5, NameParts
    <3>3. \/ m.order >= 0 /\ (n.order < 0 \/ m.order < n.order)
          \/ m.order < 0 /\ n.order < 0 /\ m.name < n.name
      BY <1>9
    <3> HIDE DEF m, n, k1, l1
    <3>4. m.order \in Int /\ n.order \in Int
      BY <3>1, <3>2, OrdersAre
    <3>5. CASE m.order >= 0 /\ n.order < 0
      BY <1>9, <3>1, <3>2, <3>4, <3>5 DEF Before, k1, l1
    <3>6. CASE m.order >= 0 /\ n.order >= 0 /\ m.order < n.order
      <4>1. LowerText(digits(m.order), digits(n.order))
        BY <3>1, <3>2, <3>4, <3>6, OrdersAre, PaddedInOrder DEF Orders
      <4> QED
        BY <1>9, <3>1, <3>2, <3>6, <4>1 DEF Before, k1, l1
    <3>7. CASE m.order < 0 /\ n.order < 0 /\ m.name < n.name
      <4>1. LowerText(<<m.name>>, <<n.name>>)
        BY <3>1, <3>2, <3>7, LowerOne
      <4> QED
        BY <1>9, <3>1, <3>2, <3>4, <3>7, <4>1 DEF Before, k1, l1
    <3> QED
      BY <3>3, <3>4, <3>5, <3>6, <3>7
  <2>2. /\ k \in DOMAIN ran /\ ran[k] = nameOf(Owner(u), x)
        /\ l \in DOMAIN ran /\ ran[l] = nameOf(Owner(u), y)
    BY <1>6
  <2>3. ran[k] \in Names /\ ran[l] \in Names
    BY <1>3, <2>2, ElementOfSeq
  <2>4. ~Before(ran[l], ran[k])
    BY <2>1, <2>2, <2>3, BeforeAsymmetric
  <2>5. k # l
    BY <2>1, <2>2, <2>4
  <2>6. ~ (l < k)
    BY <1>3, <2>2, <2>4
  <2> QED
    BY <1>3, <2>2, <2>5, <2>6
<1> QED
  BY <1>7, <1>9, <1>8

(* However the classes registered, a completed invocation has gone through   *)
(* the methods its own class puts into the group by scExecOrder as a number, *)
(* though the code sorts texts, then by name, and of those that share a      *)
(* place it has run the first.                                               *)
THEOREM OrderKept == Spec => []InvocationOrdered
<1>1. IInv => InvocationOrdered
  BY CompletedOrdered DEF InvocationOrdered
<1> QED
  BY Invariance, <1>1, PTL

(* A group that one class has to itself runs no method of that class that    *)
(* is not annotated for the group.                                           *)
THEOREM RunsItsOwn == Spec => []OneClassRunsItsOwn
<1>1. IInv => OneClassRunsItsOwn
  <2> SUFFICES ASSUME IInv, NEW u \in Uuids, run[u].method # 0,
                      \A c \in Classes \ {Owner(u)} : Annotated(c, u) = {}
               PROVE  \E x \in Own(u) : x[1] = run[u].method
    BY DEF OneClassRunsItsOwn
  <2> DEFINE k == Head(run[u].todo)
  <2>1. run[u].todo # <<>> /\ run[u].method = scopeCache[u].methods[k]
    BY DEF IInv, Invoking
  <2>2. u \in DOMAIN scopeCache /\ k \in known(u)
    BY <2>1, HeadKnown
  <2>3. Registered(u)
    BY DEF IInv
  <2>4. PICK c \in registered : k \in sortNames(c, u) /\ scopeCache[u].methods[k] = firstIndex(c, u, k)
    BY <2>2, <2>3 DEF Registered, known
  <2>5. c \in Classes /\ scheduled(c, u) # {}
    BY <2>4 DEF IInv, Typed, sortNames
  <2>6. c = Owner(u)
    BY <2>5, AnnotatedIsScheduled
  <2>7. \E x \in scheduled(c, u) : x[1] = firstIndex(c, u, k)
    BY <2>4, <2>5, FirstIndexNamed
  <2> QED
    BY <2>1, <2>4, <2>5, <2>6, <2>7, AnnotatedIsScheduled DEF Own
<1> QED
  BY Invariance, <1>1, PTL

=============================================================================
