------------------------ MODULE StartSettingsProofs ------------------------
(***************************************************************************)
(* Proofs about StartSettings, for all files, command lines, hosts and     *)
(* client code: every variable keeps its type, the arguments are the mix   *)
(* they are promised to be, and a host shows what was set of it.           *)
(***************************************************************************)
EXTENDS StartSettings, SequenceTheorems, WellFoundedInduction, TLAPS

-----------------------------------------------------------------------------
(* What holds of 0 and passes on to the next number, up to n, holds of n. *)
LEMMA UpTo ==
  ASSUME NEW n \in Nat, NEW S, 0 \in S,
         \A m \in 0 .. (n - 1) : m \in S => m + 1 \in S
  PROVE  n \in S
<1> DEFINE Bad == {m \in Nat : m <= n /\ m \notin S}
<1> SUFFICES n \notin Bad
  OBVIOUS
<1>1. SUFFICES ASSUME Bad # {} PROVE FALSE
  OBVIOUS
<1>2. PICK k \in Bad : \A j \in Bad : ~ (<<j, k>> \in OpToRel(<, Nat))
  BY <1>1, NatLessThanWellFounded, WFMin
<1>3. \A j \in Bad : ~ (j < k)
  BY <1>2 DEF OpToRel
<1>4. k \in Nat /\ k # 0 /\ k <= n /\ k \notin S
  BY <1>2
<1>5. k - 1 \in 0 .. (n - 1) /\ k - 1 \notin Bad
  BY <1>3, <1>4
<1>6. k - 1 \in S
  BY <1>5
<1>7. (k - 1) + 1 \in S
  BY <1>5, <1>6
<1> QED
  BY <1>4, <1>7

(* The greatest of some numbers up to n. *)
LEMMA MaxIs ==
  ASSUME NEW n \in Nat, NEW S, S \subseteq 0 .. n, S # {}
  PROVE  Max(S) \in S /\ \A y \in S : y <= Max(S)
<1> DEFINE Has(m) == (\E y \in S : y <= m) => \E x \in S : \A y \in S : y <= m => y <= x
           T == {m \in 0 .. n : Has(m)}
<1>1. 0 \in T
  OBVIOUS
<1>2. ASSUME NEW m \in 0 .. (n - 1), m \in T PROVE m + 1 \in T
  <2>1. CASE m + 1 \in S
    <3>1. \A y \in S : y <= m + 1 => y <= m + 1
      OBVIOUS
    <3> QED
      BY <2>1
  <2>2. CASE m + 1 \notin S
    <3>1. \A y \in S : y <= m + 1 <=> y <= m
      BY <2>2
    <3> QED
      BY <1>2, <3>1
  <2> QED
    BY <2>1, <2>2
<1>3. n \in T
  <2> HIDE DEF T
  <2> QED
    BY <1>1, <1>2, UpTo
<1>4. Has(n) /\ \A y \in S : y \in Int /\ y <= n
  BY <1>3
<1>5. PICK x \in S : \A y \in S : x >= y
  BY <1>4
<1> QED
  BY <1>5 DEF Max

-----------------------------------------------------------------------------
(* The loop of findFile leaves files that were tried and exist. *)
LEMMA ExistingType ==
  ASSUME NEW F, NEW tried \in Seq(F)
  PROVE  existing(tried) \in Seq({f \in F : Exists(f)})
<1> DEFINE N == Len(tried)
           Step(g, n) ==
             IF n = 0 THEN <<>>
             ELSE IF Exists(tried[n]) THEN Append(g[n - 1], tried[n]) ELSE g[n - 1]
           Loop(g, m) == g = [n \in 0 .. m |-> Step(g, n)]
           There == {m \in 0 .. N : \E g : Loop(g, m)}
           upTo == CHOOSE g : Loop(g, N)
           Found == {f \in F : Exists(f)}
           Right == {m \in 0 .. N : upTo[m] \in Seq(Found)}
<1>0. N \in Nat
  OBVIOUS
<1>1. 0 \in There
  <2>1. Loop([n \in 0 .. 0 |-> <<>>], 0)
    OBVIOUS
  <2> HIDE DEF Loop
  <2> QED
    BY <1>0, <2>1
<1>2. ASSUME NEW m \in 0 .. (N - 1), m \in There PROVE m + 1 \in There
  <2>1. PICK g : Loop(g, m)
    BY <1>2
  <2> DEFINE h == [n \in 0 .. (m + 1) |-> IF n = m + 1 THEN Step(g, m + 1) ELSE g[n]]
  <2>2. ASSUME NEW n \in 0 .. (m + 1) PROVE h[n] = Step(h, n)
    <3>1. CASE n = m + 1
      BY <1>0, <3>1
    <3>2. CASE n # m + 1
      <4>1. n \in 0 .. m /\ (n # 0 => n - 1 \in 0 .. m /\ n - 1 \in 0 .. (m + 1) /\ n - 1 # m + 1)
        BY <1>0, <3>2
      <4>2. g[n] = Step(g, n)
        BY <2>1, <4>1
      <4>3. h[n] = g[n] /\ (n # 0 => h[n - 1] = g[n - 1])
        BY <3>2, <4>1
      <4> QED
        BY <4>2, <4>3
    <3> QED
      BY <3>1, <3>2
  <2>3. Loop(h, m + 1)
    BY <2>2
  <2>4. m + 1 \in 0 .. N
    BY <1>0
  <2> HIDE DEF Loop, h
  <2> QED
    BY <2>3, <2>4
<1>3. Loop(upTo, N)
  <2>1. N \in There
    <3> HIDE DEF There, N
    <3> QED
      BY <1>0, <1>1, <1>2, UpTo
  <2> QED
    BY <2>1
<1>4. \A n \in 0 .. N : upTo[n] = Step(upTo, n)
  BY <1>3
<1> HIDE DEF upTo
<1>5. 0 \in Right
  <2>1. 0 \in 0 .. N
    BY <1>0
  <2>2. upTo[0] = <<>>
    BY <1>4, <2>1
  <2>3. upTo[0] \in Seq(Found)
    <3> HIDE DEF Found
    <3> QED
      BY <2>2, EmptySeq
  <2> QED
    BY <2>1, <2>3
<1>6. ASSUME NEW m \in 0 .. (N - 1), m \in Right PROVE m + 1 \in Right
  <2>1. upTo[m + 1] = IF Exists(tried[m + 1]) THEN Append(upTo[m], tried[m + 1]) ELSE upTo[m]
    BY <1>0, <1>4
  <2>2. tried[m + 1] \in F /\ upTo[m] \in Seq(Found)
    BY <1>0, <1>6
  <2>3. upTo[m + 1] \in Seq(Found)
    BY <2>1, <2>2
  <2> QED
    BY <1>0, <2>3
<1>7. N \in Right
  <2> HIDE DEF Right, N
  <2> QED
    BY <1>0, <1>5, <1>6, UpTo
<1>8. existing(tried) = upTo[N]
  BY DEF existing, upTo
<1> QED
  BY <1>7, <1>8

-----------------------------------------------------------------------------
(* The files that are found exist and have the extension that was asked for. *)
LEMMA FindFileType ==
  ASSUME NEW ext
  PROVE  findFile(ext) \in Seq({f \in exists : f[3] = ext})
<1> DEFINE F == {f \in {<<p, FileNames[i], ext>> : p \in {":", ":/qapr"}, i \in DOMAIN FileNames} :
                   f[3] = ext}
<1>1. DOMAIN FileNames = 1 .. Len(FileNames) /\ Len(FileNames) \in Nat
  BY ContentAssumption, LenProperties
<1>2. ASSUME NEW p \in {":", ":/qapr"} PROVE inPath(p, ext) \in Seq(F)
  <2>1. \A i \in DOMAIN FileNames : <<p, FileNames[i], ext>> \in F
    OBVIOUS
  <2> HIDE DEF F
  <2> QED
    BY <1>1, <2>1 DEF inPath
<1>3. inPath(ListPaths[1], ext) \o inPath(ListPaths[2], ext) \in Seq(F)
  <2> HIDE DEF F
  <2>1. ListPaths[1] \in {":", ":/qapr"} /\ ListPaths[2] \in {":", ":/qapr"}
    BY DEF ListPaths
  <2>2. inPath(ListPaths[1], ext) \in Seq(F) /\ inPath(ListPaths[2], ext) \in Seq(F)
    BY <1>2, <2>1
  <2> QED
    BY <2>2, ConcatProperties
<1>4. findFile(ext) \in Seq({f \in F : Exists(f)})
  <2> HIDE DEF F
  <2> QED
    BY <1>3, ExistingType DEF findFile
<1>5. {f \in F : Exists(f)} \subseteq {f \in exists : f[3] = ext}
  BY DEF Exists
<1> HIDE DEF F
<1> QED
  BY <1>4, <1>5

(* Every value of a merge comes from one of the hashes. *)
LEMMA MergeFrom ==
  ASSUME NEW n \in Nat, NEW hashes, DOMAIN hashes = 1 .. n, NEW k \in DOMAIN vMerge(hashes)
  PROVE  \E i \in 1 .. n : k \in DOMAIN hashes[i] /\ vMerge(hashes)[k] = hashes[i][k]
<1> DEFINE Has == {i \in DOMAIN hashes : k \in DOMAIN hashes[i]}
<1>1. k \in UNION {DOMAIN hashes[i] : i \in DOMAIN hashes}
  BY DEF vMerge
<1>2. Has # {} /\ Has \subseteq 0 .. n
  BY <1>1
<1>3. Max(Has) \in Has
  BY <1>2, MaxIs
<1>4. vMerge(hashes)[k] = hashes[Max(Has)][k]
  BY <1>1 DEF vMerge
<1> QED
  BY <1>3, <1>4

LEMMA MergedTyped ==
  ASSUME exists \in Existing, NEW files \in Seq({f \in exists : f[3] = "json"})
  PROVE  TypedHash(merged(files).arguments, merged(files).apr)
<1> DEFINE n == Len(files)
           of == [i \in DOMAIN files |-> Content[files[i]].arguments]
           apr == [i \in DOMAIN files |-> Content[files[i]].apr]
<1>1. n \in Nat /\ DOMAIN files = 1 .. n /\ DOMAIN of = 1 .. n /\ DOMAIN apr = 1 .. n
  BY LenProperties
<1>2. \A i \in 1 .. n : TypedHash(of[i], apr[i])
  BY <1>1, ContentAssumption
<1>3. merged(files).arguments = vMerge(of) /\ merged(files).apr = vMerge(apr)
  BY DEF merged
<1>4. \A k \in DOMAIN vMerge(of) : \E i \in 1 .. n : k \in DOMAIN of[i]
  <2> HIDE DEF n, of
  <2> QED
    BY <1>1, MergeFrom
<1>5. \A k \in DOMAIN vMerge(apr) : \E i \in 1 .. n : k \in DOMAIN apr[i] /\ vMerge(apr)[k] = apr[i][k]
  <2> HIDE DEF n, apr
  <2> QED
    BY <1>1, MergeFrom
<1> HIDE DEF n, of, apr
<1>6. DOMAIN vMerge(of) \subseteq Keys
  BY <1>2, <1>4 DEF TypedHash
<1>7. \A k \in DOMAIN vMerge(apr) \cap {"name", "version", "envFile"} : vMerge(apr)[k] \in Texts
  BY <1>2, <1>5 DEF TypedHash
<1>8. ASSUME "host" \in DOMAIN vMerge(apr)
      PROVE  /\ \A k \in DOMAIN vMerge(apr)["host"] \cap {"protocol", "hostName", "basePath"} :
                  vMerge(apr)["host"][k] \in Texts
             /\ "port" \in DOMAIN vMerge(apr)["host"] => vMerge(apr)["host"]["port"] \in Int
  <2>1. PICK i \in 1 .. n : "host" \in DOMAIN apr[i] /\ vMerge(apr)["host"] = apr[i]["host"]
    BY <1>5, <1>8
  <2> QED
    BY <1>2, <2>1 DEF TypedHash
<1> QED
  BY <1>3, <1>6, <1>7, <1>8 DEF TypedHash

-----------------------------------------------------------------------------
(* An argument is inserted under its key, with its value. *)
LEMMA EntryIs ==
  ASSUME NEW parts \in Seq(Keys) \ {<<>>}
  PROVE  /\ DOMAIN entry(parts) = {KeyOf(parts)} /\ KeyOf(parts) \in Keys
         /\ entry(parts)[KeyOf(parts)] = ValueOf(parts)
<1> DEFINE l == Len(parts)
<1>1. l \in Nat /\ l # 0 /\ parts[1] \in Keys
  BY EmptySeq
<1> HIDE DEF l
<1>2. CASE l = 1
  BY <1>1, <1>2 DEF l, entry, KeyOf, ValueOf
<1>3. CASE l > 1
  <2>1. Lower[parts[1]] \in Keys
    BY <1>1, CommandLinesAssumption
  <2>2. Tail(parts) = SubSeq(parts, 2, Len(parts))
    BY TailIsSubSeq
  <2>3. l # 1
    BY <1>1, <1>3
  <2>4. entry(parts) = [k \in {Lower[parts[1]]} |-> Tail(parts)]
    BY <2>3 DEF entry, l
  <2>5. KeyOf(parts) = Lower[parts[1]] /\ ValueOf(parts) = SubSeq(parts, 2, Len(parts))
    BY <1>3 DEF KeyOf, ValueOf, l
  <2> QED
    BY <2>1, <2>2, <2>4, <2>5
<1> QED
  BY <1>1, <1>2, <1>3

(* After the loop over the command line, each key has the value of its last  *)
(* argument.                                                                 *)
LEMMA LineIs ==
  ASSUME argv \in CommandLines
  PROVE  /\ DOMAIN insertLine(<<>>) = {KeyOf(argv[i]) : i \in DOMAIN argv}
         /\ DOMAIN insertLine(<<>>) \subseteq Keys
         /\ \A k \in DOMAIN insertLine(<<>>) :
              \E i \in DOMAIN argv :
                /\ KeyOf(argv[i]) = k /\ insertLine(<<>>)[k] = ValueOf(argv[i])
                /\ \A j \in DOMAIN argv : KeyOf(argv[j]) = k => j <= i
<1> DEFINE N == Len(argv)
           Step(g, n) == IF n = 0 THEN <<>> ELSE insert(g[n - 1], entry(argv[n]))
           Loop(g, m) == g = [n \in 0 .. m |-> Step(g, n)]
           There == {m \in 0 .. N : \E g : Loop(g, m)}
           upTo == CHOOSE g : Loop(g, N)
           IsLast(m, k, i) ==
             /\ KeyOf(argv[i]) = k /\ upTo[m][k] = ValueOf(argv[i])
             /\ \A j \in 1 .. m : KeyOf(argv[j]) = k => j <= i
           Right ==
             {m \in 0 .. N :
                /\ DOMAIN upTo[m] = {KeyOf(argv[i]) : i \in 1 .. m}
                /\ \A k \in DOMAIN upTo[m] : \E i \in 1 .. m : IsLast(m, k, i)}
<1>0. N \in Nat /\ DOMAIN argv = 1 .. N /\ \A i \in 1 .. N : argv[i] \in Seq(Keys) \ {<<>>}
  BY CommandLinesAssumption, LenProperties
<1>1. 0 \in There
  <2>1. Loop([n \in 0 .. 0 |-> <<>>], 0)
    OBVIOUS
  <2> HIDE DEF Loop
  <2> QED
    BY <1>0, <2>1
<1>2. ASSUME NEW m \in 0 .. (N - 1), m \in There PROVE m + 1 \in There
  <2>1. PICK g : Loop(g, m)
    BY <1>2
  <2> DEFINE h == [n \in 0 .. (m + 1) |-> IF n = m + 1 THEN Step(g, m + 1) ELSE g[n]]
  <2>2. ASSUME NEW n \in 0 .. (m + 1) PROVE h[n] = Step(h, n)
    <3>1. CASE n = m + 1
      BY <1>0, <3>1
    <3>2. CASE n # m + 1
      <4>1. n \in 0 .. m /\ (n # 0 => n - 1 \in 0 .. m /\ n - 1 \in 0 .. (m + 1) /\ n - 1 # m + 1)
        BY <1>0, <3>2
      <4>2. g[n] = Step(g, n)
        BY <2>1, <4>1
      <4>3. h[n] = g[n] /\ (n # 0 => h[n - 1] = g[n - 1])
        BY <3>2, <4>1
      <4> QED
        BY <4>2, <4>3
    <3> QED
      BY <3>1, <3>2
  <2>3. Loop(h, m + 1)
    BY <2>2
  <2>4. m + 1 \in 0 .. N
    BY <1>0
  <2> HIDE DEF Loop, h
  <2> QED
    BY <2>3, <2>4
<1>3. Loop(upTo, N)
  <2>1. N \in There
    <3> HIDE DEF There, N
    <3> QED
      BY <1>0, <1>1, <1>2, UpTo
  <2> QED
    BY <2>1
<1>4. \A n \in 0 .. N : upTo[n] = Step(upTo, n)
  BY <1>3
<1> HIDE DEF upTo
<1>5. 0 \in Right
  <2>1. 0 \in 0 .. N
    BY <1>0
  <2>2. upTo[0] = <<>>
    BY <1>4, <2>1
  <2>3. DOMAIN upTo[0] = {} /\ 1 .. 0 = {}
    BY <2>2
  <2> QED
    BY <2>1, <2>3
<1>6. ASSUME NEW m \in 0 .. (N - 1), m \in Right PROVE m + 1 \in Right
  <2> DEFINE all == upTo[m]
             key == KeyOf(argv[m + 1])
             new == entry(argv[m + 1])
  <2>1. m + 1 \in 1 .. N /\ upTo[m + 1] = insert(all, new)
    BY <1>0, <1>4
  <2>2. DOMAIN new = {key} /\ new[key] = ValueOf(argv[m + 1])
    BY <1>0, <2>1, EntryIs
  <2>3. 1 .. (m + 1) = 1 .. m \cup {m + 1}
    BY <1>0
  <2>4. DOMAIN all = {KeyOf(argv[i]) : i \in 1 .. m}
        /\ \A k \in DOMAIN all : \E i \in 1 .. m : IsLast(m, k, i)
    BY <1>6
  <2> HIDE DEF new
  <2>5. DOMAIN upTo[m + 1] = DOMAIN all \cup {key}
    BY <2>1, <2>2 DEF insert
  <2>6. \A k \in DOMAIN all \cup {key} : upTo[m + 1][k] = IF k = key THEN ValueOf(argv[m + 1]) ELSE all[k]
    BY <2>1, <2>2 DEF insert
  <2>7. DOMAIN upTo[m + 1] = {KeyOf(argv[i]) : i \in 1 .. (m + 1)}
    BY <2>3, <2>4, <2>5
  <2>8. ASSUME NEW k \in DOMAIN upTo[m + 1]
        PROVE  \E i \in 1 .. (m + 1) : IsLast(m + 1, k, i)
    <3>1. CASE k = key
      <4>1. IsLast(m + 1, k, m + 1)
        BY <1>0, <2>5, <2>6, <3>1
      <4> HIDE DEF IsLast
      <4> QED
        BY <2>3, <4>1
    <3>2. CASE k # key
      <4>1. PICK i \in 1 .. m : IsLast(m, k, i)
        BY <2>4, <2>5, <2>8, <3>2
      <4>2. IsLast(m + 1, k, i)
        BY <2>3, <2>5, <2>6, <2>8, <3>2, <4>1
      <4> HIDE DEF IsLast
      <4> QED
        BY <2>3, <4>2
    <3> QED
      BY <3>1, <3>2
  <2> HIDE DEF IsLast, key
  <2> QED
    BY <2>1, <2>7, <2>8
<1>7. N \in Right
  <2> HIDE DEF Right, N
  <2> QED
    BY <1>0, <1>5, <1>6, UpTo
<1>8. insertLine(<<>>) = upTo[N]
  BY DEF insertLine, upTo
<1>9. \A i \in 1 .. N : KeyOf(argv[i]) \in Keys
  BY <1>0, EntryIs
<1>10. /\ DOMAIN upTo[N] = {KeyOf(argv[i]) : i \in 1 .. N}
       /\ \A k \in DOMAIN upTo[N] : \E i \in 1 .. N : IsLast(N, k, i)
  BY <1>7
<1>11. ASSUME NEW k \in DOMAIN upTo[N]
       PROVE  \E i \in DOMAIN argv :
                /\ KeyOf(argv[i]) = k /\ upTo[N][k] = ValueOf(argv[i])
                /\ \A j \in DOMAIN argv : KeyOf(argv[j]) = k => j <= i
  <2>1. PICK i \in 1 .. N : IsLast(N, k, i)
    BY <1>10, <1>11
  <2> HIDE DEF N
  <2> QED
    BY <1>0, <2>1
<1> HIDE DEF N, Right, IsLast
<1>12. DOMAIN upTo[N] = {KeyOf(argv[i]) : i \in DOMAIN argv} /\ DOMAIN upTo[N] \subseteq Keys
  BY <1>0, <1>9, <1>10
<1> QED
  BY <1>8, <1>11, <1>12

-----------------------------------------------------------------------------
(* What client code and the settings file do to a host, done to two hosts    *)
(* that show the same, leaves two that show the same.                        *)

NameShown(h) == IF h.hostName = Blank THEN "localhost" ELSE h.hostName

PortShown(h) == IF h.port <= 0 THEN 80 ELSE h.port

PathShown(h) == IF Trimmed[h.basePath] = Blank THEN "/" ELSE h.basePath

(* Each field of a and of b, seen through its getter. *)
SameHost(a, b) ==
  /\ IsHost(a) /\ IsHost(b)
  /\ protocol(a) = protocol(b)
  /\ NameShown(a) = NameShown(b)
  /\ PortShown(a) = PortShown(b)
  /\ PathShown(a) = PathShown(b)
  /\ a.headers = b.headers

(* Each getter writes its own field. *)
LEMMA GettersWrite ==
  ASSUME NEW h, IsHost(h)
  PROVE  /\ LET c == hostName(h)
            IN  /\ IsHost(c) /\ c.protocol = h.protocol /\ c.hostName = NameShown(h)
                /\ c.port = h.port /\ c.headers = h.headers /\ c.basePath = h.basePath
         /\ LET c == port(h)
            IN  /\ IsHost(c) /\ c.protocol = h.protocol /\ c.hostName = h.hostName
                /\ c.port = PortShown(h) /\ c.headers = h.headers /\ c.basePath = h.basePath
         /\ LET c == basePath(h)
            IN  /\ IsHost(c) /\ c.protocol = h.protocol /\ c.hostName = h.hostName
                /\ c.port = h.port /\ c.headers = h.headers /\ c.basePath = PathShown(h)
BY TrimmedAssumption DEF IsHost, hostName, port, basePath, NameShown, PortShown, PathShown

LEMMA AllReadIs ==
  ASSUME NEW h, IsHost(h)
  PROVE  LET c == allRead(h)
         IN  /\ IsHost(c) /\ c.protocol = h.protocol /\ c.hostName = NameShown(h)
             /\ c.port = PortShown(h) /\ c.headers = h.headers /\ c.basePath = PathShown(h)
<1> DEFINE b == hostName(h)
           c == port(b)
           d == basePath(c)
<1>1. /\ IsHost(b) /\ b.protocol = h.protocol /\ b.hostName = NameShown(h)
      /\ b.port = h.port /\ b.headers = h.headers /\ b.basePath = h.basePath
  BY GettersWrite
<1> HIDE DEF b
<1>2. /\ IsHost(c) /\ c.protocol = h.protocol /\ c.hostName = NameShown(h)
      /\ c.port = PortShown(h) /\ c.headers = h.headers /\ c.basePath = h.basePath
  <2>1. PortShown(b) = PortShown(h)
    BY <1>1 DEF PortShown
  <2> QED
    BY <1>1, <2>1, GettersWrite
<1> HIDE DEF c
<1>3. /\ IsHost(d) /\ d.protocol = h.protocol /\ d.hostName = NameShown(h)
      /\ d.port = PortShown(h) /\ d.headers = h.headers /\ d.basePath = PathShown(h)
  <2>1. PathShown(c) = PathShown(h)
    BY <1>2 DEF PathShown
  <2> QED
    BY <1>2, <2>1, GettersWrite
<1>4. allRead(h) = d
  BY DEF allRead, b, c
<1> HIDE DEF d
<1> QED
  BY <1>3, <1>4

LEMMA ShownIs ==
  ASSUME NEW h, IsHost(h)
  PROVE  LET c == shown(h)
         IN  /\ IsHost(c) /\ c.protocol = protocol(h) /\ c.hostName = NameShown(h)
             /\ c.port = PortShown(h) /\ c.headers = h.headers /\ c.basePath = PathShown(h)
<1>1. protocol(h) \in Texts
  BY TrimmedAssumption DEF protocol, IsHost
<1> DEFINE r == allRead(h)
<1>2. /\ IsHost(r) /\ r.hostName = NameShown(h)
      /\ r.port = PortShown(h) /\ r.headers = h.headers /\ r.basePath = PathShown(h)
  BY AllReadIs
<1>3. shown(h) = [r EXCEPT !.protocol = protocol(h)]
  BY DEF shown
<1> HIDE DEF r
<1> QED
  BY <1>1, <1>2, <1>3 DEF IsHost

(* Two hosts show the same when their getters answer the same. *)
LEMMA SameShown ==
  ASSUME NEW a, NEW b, SameHost(a, b)
  PROVE  shown(a) = shown(b)
<1>1. IsHost(a) /\ IsHost(b)
  BY DEF SameHost
<1> DEFINE c == shown(a)
           d == shown(b)
<1>2. /\ c.protocol = d.protocol /\ c.hostName = d.hostName /\ c.port = d.port
      /\ c.headers = d.headers /\ c.basePath = d.basePath
  BY <1>1, ShownIs DEF SameHost
<1>3. IsHost(c) /\ IsHost(d)
  BY <1>1, ShownIs
<1> HIDE DEF c, d
<1>4. c = d
  BY <1>2, <1>3 DEF IsHost
<1> QED
  BY <1>4 DEF c, d

(* Reading, all or some of it, is not seen. *)
LEMMA ReadSame ==
  ASSUME NEW a, NEW b, SameHost(a, b),
         NEW c \in {hostName(a), port(a), basePath(a), allRead(a), shown(a)}
  PROVE  SameHost(c, b)
<1>1. IsHost(a) /\ IsHost(b)
  BY DEF SameHost
<1>2. IsHost(c) /\ c.headers = a.headers
  BY <1>1, GettersWrite, AllReadIs, ShownIs
<1>3. /\ c.protocol \in {a.protocol, protocol(a)} /\ c.hostName \in {a.hostName, NameShown(a)}
      /\ c.port \in {a.port, PortShown(a)} /\ c.basePath \in {a.basePath, PathShown(a)}
  BY <1>1, GettersWrite, AllReadIs, ShownIs
<1>4. protocol(c) = protocol(a)
  BY <1>3, TrimmedAssumption DEF protocol
<1>5. NameShown(c) = NameShown(a)
  BY <1>3, TrimmedAssumption DEF NameShown
<1>6. PortShown(c) = PortShown(a)
  BY <1>1, <1>3 DEF PortShown, IsHost
<1>7. PathShown(c) = PathShown(a)
  BY <1>3, TrimmedAssumption DEF PathShown
<1> QED
  BY <1>1, <1>2, <1>4, <1>5, <1>6, <1>7 DEF SameHost

LEMMA SetSame ==
  ASSUME NEW a, NEW b, SameHost(a, b)
  PROVE  /\ \A t \in Texts :
              /\ SameHost(setProtocol(a, t), setProtocol(b, t))
              /\ SameHost(setHostName(a, t), setHostName(b, t))
              /\ SameHost(setBasePath(a, t), setBasePath(b, t))
         /\ \A n \in Int : SameHost(setPort(a, n), setPort(b, n))
         /\ \A new : SameHost(setHeaders(a, new), setHeaders(b, new))
         /\ \A new : SameHost(addHeaders(a, new), addHeaders(b, new))
<1> USE DEF SameHost, IsHost, protocol, NameShown, PortShown, PathShown
<1>1. ASSUME NEW t \in Texts PROVE SameHost(setProtocol(a, t), setProtocol(b, t))
  BY DEF setProtocol
<1>2. ASSUME NEW t \in Texts PROVE SameHost(setHostName(a, t), setHostName(b, t))
  BY DEF setHostName
<1>3. ASSUME NEW t \in Texts PROVE SameHost(setBasePath(a, t), setBasePath(b, t))
  BY DEF setBasePath
<1>4. ASSUME NEW n \in Int PROVE SameHost(setPort(a, n), setPort(b, n))
  BY DEF setPort
<1>5. ASSUME NEW new PROVE SameHost(setHeaders(a, new), setHeaders(b, new))
  BY DEF setHeaders
<1>6. ASSUME NEW new PROVE SameHost(addHeaders(a, new), addHeaders(b, new))
  <2> DEFINE x == insert(a.headers, new)
             y == insert(b.headers, new)
  <2>1. x = y
    OBVIOUS
  <2>2. addHeaders(a, new) = [a EXCEPT !.headers = x] /\ addHeaders(b, new) = [b EXCEPT !.headers = y]
    BY DEF addHeaders
  <2> HIDE DEF x, y
  <2> QED
    BY <2>1, <2>2
<1> HIDE DEF SameHost
<1> QED
  BY <1>1, <1>2, <1>3, <1>4, <1>5, <1>6

(* The properties of a host that a settings file gives. *)
LEMMA ValuesSame ==
  ASSUME NEW a, NEW b, SameHost(a, b), NEW all, NEW apr, TypedHash(all, apr)
  PROVE  SameHost(hostValues(apr, a), hostValues(apr, b))
<1>1. CASE "host" \notin DOMAIN apr
  BY <1>1 DEF hostValues
<1>2. CASE "host" \in DOMAIN apr
  <2> DEFINE v == apr["host"]
             a1 == sets(v, "protocol", a, setProtocol)
             b1 == sets(v, "protocol", b, setProtocol)
             a2 == sets(v, "hostName", a1, setHostName)
             b2 == sets(v, "hostName", b1, setHostName)
             a3 == sets(v, "port", a2, setPort)
             b3 == sets(v, "port", b2, setPort)
             a4 == sets(v, "basePath", a3, setBasePath)
             b4 == sets(v, "basePath", b3, setBasePath)
             a5 == sets(v, "headers", a4, setHeaders)
             b5 == sets(v, "headers", b4, setHeaders)
  <2>0. /\ \A k \in DOMAIN v \cap {"protocol", "hostName", "basePath"} : v[k] \in Texts
        /\ "port" \in DOMAIN v => v["port"] \in Int
    BY <1>2 DEF TypedHash
  <2>6. hostValues(apr, a) = a5 /\ hostValues(apr, b) = b5
    BY <1>2 DEF hostValues, HostProperties
  <2> HIDE DEF v
  <2>1. SameHost(a1, b1)
    BY <2>0, SetSame DEF sets
  <2> HIDE DEF a1, b1
  <2>2. SameHost(a2, b2)
    BY <2>0, <2>1, SetSame DEF sets
  <2> HIDE DEF a2, b2
  <2>3. SameHost(a3, b3)
    BY <2>0, <2>2, SetSame DEF sets
  <2> HIDE DEF a3, b3
  <2>4. SameHost(a4, b4)
    BY <2>0, <2>3, SetSame DEF sets
  <2> HIDE DEF a4, b4
  <2>5. SameHost(a5, b5)
    BY <2>4, SetSame DEF sets
  <2> QED
    BY <2>5, <2>6
<1> QED
  BY <1>1, <1>2

(* A host that was cleared shows what a new one shows. *)
LEMMA ClearSame ==
  ASSUME NEW h, IsHost(h)
  PROVE  SameHost(clear(h), HostPvt) /\ SameHost(HostPvt, HostPvt)
<1>1. clear(h) = [protocol |-> "http", hostName |-> Blank, port |-> -1, headers |-> <<>>,
                  basePath |-> Blank]
  <2> DEFINE h1 == resetProtocol(h)
             h2 == resetHostName(h1)
             h3 == resetPort(h2)
             h4 == resetHeaders(h3)
             h5 == resetBasePath(h4)
  <2>1. h1 = [protocol |-> "http", hostName |-> h.hostName, port |-> h.port,
              headers |-> h.headers, basePath |-> h.basePath]
    BY DEF IsHost, resetProtocol, setProtocol
  <2>6. clear(h) = h5
    BY DEF clear
  <2> HIDE DEF h1
  <2>2. h2 = [protocol |-> "http", hostName |-> Blank, port |-> h.port,
              headers |-> h.headers, basePath |-> h.basePath]
    BY <2>1 DEF resetHostName, setHostName
  <2> HIDE DEF h2
  <2>3. h3 = [protocol |-> "http", hostName |-> Blank, port |-> -1,
              headers |-> h.headers, basePath |-> h.basePath]
    BY <2>2 DEF resetPort, setPort
  <2> HIDE DEF h3
  <2>4. h4 = [protocol |-> "http", hostName |-> Blank, port |-> -1,
              headers |-> <<>>, basePath |-> h.basePath]
    BY <2>3 DEF resetHeaders, setHeaders
  <2> HIDE DEF h4
  <2>5. h5 = [protocol |-> "http", hostName |-> Blank, port |-> -1,
              headers |-> <<>>, basePath |-> Blank]
    BY <2>4 DEF resetBasePath, setBasePath
  <2> QED
    BY <2>5, <2>6
<1>2. IsHost(clear(h)) /\ IsHost(HostPvt)
  BY <1>1, TrimmedAssumption DEF IsHost, HostPvt
<1>3. SameHost(HostPvt, HostPvt)
  BY <1>2 DEF SameHost
<1>4. NameShown(clear(h)) = NameShown(HostPvt)
  BY <1>1, TrimmedAssumption DEF NameShown, HostPvt
<1>5. protocol(clear(h)) = protocol(HostPvt) /\ PathShown(clear(h)) = PathShown(HostPvt)
  BY <1>1 DEF protocol, PathShown, HostPvt
<1>6. PortShown(clear(h)) = PortShown(HostPvt) /\ clear(h).headers = HostPvt.headers
  BY <1>1 DEF PortShown, HostPvt
<1> QED
  BY <1>2, <1>3, <1>4, <1>5, <1>6 DEF SameHost

-----------------------------------------------------------------------------
(* The setters of the settings, and what a file gives, keep the types. *)
LEMMA SetType ==
  ASSUME NEW s \in [name : Texts, version : Texts, envFile : Texts], NEW t \in Texts
  PROVE  /\ setName(s, t) \in [name : Texts, version : Texts, envFile : Texts]
         /\ setVersion(s, t) \in [name : Texts, version : Texts, envFile : Texts]
         /\ setEnvFile(s, t) \in [name : Texts, version : Texts, envFile : Texts]
<1>1. Trimmed[t] \in Texts
  BY TrimmedAssumption
<1> QED
  BY <1>1 DEF setName, setVersion, setEnvFile

LEMMA SetValuesType ==
  ASSUME settings \in [name : Texts, version : Texts, envFile : Texts],
         NEW all, NEW apr, TypedHash(all, apr)
  PROVE  setValues(apr) \subseteq [name : Texts, version : Texts, envFile : Texts]
<1> DEFINE T == [name : Texts, version : Texts, envFile : Texts]
           named == sets(apr, "name", settings, setName)
<1>1. \A k \in DOMAIN apr \cap {"name", "version", "envFile"} : apr[k] \in Texts
  BY DEF TypedHash
<1>2. \A s \in T, t \in Texts : setName(s, t) \in T /\ setVersion(s, t) \in T /\ setEnvFile(s, t) \in T
  BY SetType
<1> HIDE DEF T
<1>3. named \in T
  BY <1>1, <1>2 DEF sets, T
<1>4. setValues(apr) = {sets(apr, "envFile", sets(apr, "version", named, setVersion), setEnvFile),
                        sets(apr, "version", sets(apr, "envFile", named, setEnvFile), setVersion)}
  BY DEF setValues
<1> HIDE DEF named
<1>5. \A s \in T : sets(apr, "version", s, setVersion) \in T /\ sets(apr, "envFile", s, setEnvFile) \in T
  BY <1>1, <1>2 DEF sets
<1> QED
  BY <1>3, <1>4, <1>5 DEF T

-----------------------------------------------------------------------------
(* The inductive invariant, part by part. *)
BaseInv ==
  /\ phase \in {"files", "manager", "settings", "started", "failed"}
  /\ exists \in Existing /\ argv \in CommandLines
  /\ early \in BOOLEAN /\ calls \in 0 .. MaxCalls

(* The files that are kept were found. *)
FilesInv ==
  /\ settingFile.setting \in Seq({f \in exists : f[3] = "json"})
  /\ settingFile.envs \in Seq({f \in exists : f[3] = "env"} \cup {<<t>> : t \in Texts})

SettingsInv == settings \in [name : Texts, version : Texts, envFile : Texts]

HostInv == SameHost(host, given)

(* The arguments a program is promised. *)
Mixed(args) ==
  /\ DOMAIN args = DOMAIN managerArguments \cup {KeyOf(argv[i]) : i \in DOMAIN argv}
  /\ \A k \in DOMAIN args :
       LET last == Max({0} \cup {i \in DOMAIN argv : KeyOf(argv[i]) = k})
       IN  args[k] = IF k \in DOMAIN managerArguments THEN managerArguments[k]
                     ELSE ValueOf(argv[last])

(* Arguments kept before the manager has loaded are known to be early. *)
ArgumentsInv ==
  /\ DOMAIN managerArguments \subseteq Keys /\ DOMAIN arguments \subseteq Keys
  /\ phase \in {"files", "manager"} /\ arguments # <<>> => early
  /\ arguments # <<>> /\ ~early => Mixed(arguments)

IInv == BaseInv /\ FilesInv /\ SettingsInv /\ HostInv /\ ArgumentsInv

LEMMA InitInv == ASSUME Init PROVE IInv
<1>1. BaseInv
  <2>1. /\ phase = "files" /\ exists \in Existing /\ argv \in CommandLines
        /\ early = FALSE /\ calls = 0
    BY DEF Init
  <2>2. 0 \in 0 .. MaxCalls
    BY ClientAssumption
  <2> QED
    BY <2>1, <2>2 DEF BaseInv
<1>2. FilesInv
  BY EmptySeq DEF Init, NoFile, FilesInv
<1>3. SettingsInv
  BY TrimmedAssumption DEF Init, NewSettings, SettingsInv
<1>4. HostInv
  <2>1. IsHost(HostPvt)
    BY TrimmedAssumption DEF HostPvt, IsHost
  <2> QED
    BY <2>1, ClearSame DEF Init, HostInv
<1>5. ArgumentsInv
  <2>1. DOMAIN <<>> = {}
    OBVIOUS
  <2> QED
    BY <2>1 DEF Init, ArgumentsInv
<1> QED
  BY <1>1, <1>2, <1>3, <1>4, <1>5 DEF IInv

(* What resourceSettings answers, and what client code does to the bound. *)
LEMMA FilesStep ==
  ASSUME IInv, settingFile' = resourceSettings, UNCHANGED exists
  PROVE  FilesInv'
<1> DEFINE J == {f \in exists : f[3] = "json"}
           E == {f \in exists : f[3] = "env"}
           T == {<<t>> : t \in Texts}
<1>1. findFile("json") \in Seq(J) /\ findFile("env") \in Seq(E)
  BY FindFileType
<1>2. <<settings.envFile>> \in T
  BY DEF IInv, SettingsInv
<1>3. settingFile.setting \in Seq(J) /\ settingFile.envs \in Seq(E \cup T)
  BY DEF IInv, FilesInv
<1> HIDE DEF J, E, T
<1>4. findFile("env") \in Seq(E \cup T) /\ <<settings.envFile>> \in E \cup T
  BY <1>1, <1>2
<1>5. Append(findFile("env"), <<settings.envFile>>) \in Seq(E \cup T)
  BY <1>4, AppendProperties
<1>6. <<>> \in Seq(J) /\ <<>> \in Seq(E \cup T)
  BY EmptySeq
<1>7. resourceSettings.setting \in Seq(J) /\ resourceSettings.envs \in Seq(E \cup T)
  BY <1>1, <1>3, <1>5, <1>6 DEF resourceSettings, NoFile
<1> QED
  BY <1>7 DEF FilesInv, J, E, T

LEMMA CallsStep == ASSUME IInv, Calls PROVE calls' \in 0 .. MaxCalls
BY ClientAssumption DEF IInv, BaseInv, Calls

(* The files give values of the right types. *)
LEMMA FileTyped ==
  ASSUME IInv
  PROVE  TypedHash(merged(settingFile.setting).arguments, merged(settingFile.setting).apr)
BY MergedTyped DEF IInv, BaseInv, FilesInv

-----------------------------------------------------------------------------
(* startSettings. *)
LEMMA StartStep == ASSUME IInv, Start PROVE IInv'
<1>1. CASE FindsFiles
  <2>1. BaseInv'
    BY <1>1 DEF FindsFiles, IInv, BaseInv
  <2>2. FilesInv'
    BY <1>1, FilesStep DEF FindsFiles
  <2> QED
    BY <1>1, <2>1, <2>2
       DEF FindsFiles, settingsVars, IInv, SettingsInv, HostInv, ArgumentsInv, Mixed
<1>2. CASE LoadsManager
  <2>1. UNCHANGED <<exists, argv, settingFile, arguments, early, settings, host, given, calls>>
    BY <1>2 DEF LoadsManager, keptVars, settingsVars
  <2>2. BaseInv'
    BY <1>2, <2>1 DEF LoadsManager, IInv, BaseInv
  <2>3. FilesInv' /\ SettingsInv' /\ HostInv'
    BY <2>1 DEF IInv, FilesInv, SettingsInv, HostInv
  <2>4. arguments # <<>> => early
    BY <1>2 DEF LoadsManager, IInv, ArgumentsInv
  <2>5. DOMAIN managerArguments' \subseteq Keys
    BY <1>2, FileTyped DEF LoadsManager, TypedHash, IInv, ArgumentsInv
  <2>6. ArgumentsInv'
    BY <2>1, <2>4, <2>5 DEF IInv, ArgumentsInv
  <2> QED
    BY <2>2, <2>3, <2>6 DEF IInv
<1>3. CASE LoadsSettings
  <2> DEFINE apr == merged(settingFile.setting).apr
  <2>1. UNCHANGED <<exists, argv, managerArguments, settingFile, arguments, early, calls>>
    BY <1>3 DEF LoadsSettings, keptVars
  <2>2. /\ settings' \in setValues(apr)
        /\ host' = hostValues(apr, host) /\ given' = hostValues(apr, given)
        /\ phase = "settings" /\ phase' \in {"started", "failed"}
    BY <1>3 DEF LoadsSettings
  <2>3. TypedHash(merged(settingFile.setting).arguments, apr)
    BY FileTyped
  <2> HIDE DEF apr
  <2>4. BaseInv' /\ FilesInv' /\ ArgumentsInv'
    BY <2>1, <2>2 DEF IInv, BaseInv, FilesInv, ArgumentsInv, Mixed
  <2>5. HostInv'
    BY <2>2, <2>3, ValuesSame DEF IInv, HostInv
  <2>6. SettingsInv'
    BY <2>2, <2>3, SetValuesType DEF IInv, SettingsInv
  <2> QED
    BY <2>4, <2>5, <2>6 DEF IInv
<1> QED
  BY <1>1, <1>2, <1>3 DEF Start

-----------------------------------------------------------------------------
(* The answer of getArguments, the first time there is one. *)
LEMMA ArgumentsAnswer ==
  ASSUME IInv, arguments = <<>>
  PROVE  Mixed(getArguments) /\ DOMAIN getArguments \subseteq Keys
<1> DEFINE line == insertLine(<<>>)
           r == insert(line, managerArguments)
           At(k) == {i \in DOMAIN argv : KeyOf(argv[i]) = k}
           last(k) == Max({0} \cup At(k))
<1>1. getArguments = r
  BY DEF getArguments
<1>2. /\ DOMAIN line = {KeyOf(argv[i]) : i \in DOMAIN argv} /\ DOMAIN line \subseteq Keys
      /\ \A k \in DOMAIN line :
           \E i \in DOMAIN argv : /\ KeyOf(argv[i]) = k /\ line[k] = ValueOf(argv[i])
                                  /\ \A j \in DOMAIN argv : KeyOf(argv[j]) = k => j <= i
  BY LineIs DEF IInv, BaseInv
<1>3. Len(argv) \in Nat /\ DOMAIN argv = 1 .. Len(argv)
  BY CommandLinesAssumption, LenProperties DEF IInv, BaseInv
<1> HIDE DEF line
<1>4. /\ DOMAIN r = DOMAIN managerArguments \cup DOMAIN line
      /\ \A k \in DOMAIN r :
           r[k] = IF k \in DOMAIN managerArguments THEN managerArguments[k] ELSE line[k]
  BY DEF insert
<1>5. ASSUME NEW k \in DOMAIN line PROVE line[k] = ValueOf(argv[last(k)])
  <2>1. PICK i \in DOMAIN argv :
          /\ KeyOf(argv[i]) = k /\ line[k] = ValueOf(argv[i])
          /\ \A j \in DOMAIN argv : KeyOf(argv[j]) = k => j <= i
    BY <1>2, <1>5
  <2> DEFINE S == {0} \cup At(k)
  <2>2. S \subseteq 0 .. Len(argv) /\ S # {}
    BY <1>3
  <2>3. i \in S /\ i > 0 /\ \A j \in S : j <= i
    BY <1>3, <2>1
  <2> HIDE DEF S
  <2>4. Max(S) \in S /\ i <= Max(S)
    BY <1>3, <2>2, <2>3, MaxIs
  <2>5. Max(S) = i
    BY <1>3, <2>2, <2>3, <2>4
  <2> QED
    BY <2>1, <2>5 DEF S
<1> HIDE DEF r
<1>6. DOMAIN r \subseteq Keys
  BY <1>2, <1>4 DEF IInv, ArgumentsInv
<1>7. ASSUME NEW k \in DOMAIN r
      PROVE  r[k] = IF k \in DOMAIN managerArguments THEN managerArguments[k]
                    ELSE ValueOf(argv[last(k)])
  <2> HIDE DEF last
  <2> QED
    BY <1>4, <1>5
<1>8. Mixed(r)
  BY <1>2, <1>4, <1>7 DEF Mixed
<1> QED
  BY <1>1, <1>6, <1>8

LEMMA AsksStep == ASSUME IInv, AsksArguments PROVE IInv'
<1>1. /\ arguments' = getArguments
      /\ early' = IF phase \in {"files", "manager"} /\ arguments' # <<>> THEN TRUE ELSE early
      /\ UNCHANGED <<phase, exists, argv, managerArguments, settingFile, settings, host, given>>
  BY DEF AsksArguments, startVars, settingsVars
<1>2. BaseInv'
  BY <1>1, CallsStep DEF AsksArguments, IInv, BaseInv
<1>3. CASE arguments # <<>>
  <2>1. arguments' = arguments
    BY <1>1, <1>3 DEF getArguments
  <2>2. early' \/ early' = early
    BY <1>1
  <2>3. phase \in {"files", "manager"} => early
    BY <1>3 DEF IInv, ArgumentsInv
  <2>4. early => early'
    BY <1>1
  <2>5. ArgumentsInv'
    <3>1. ArgumentsInv
      BY DEF IInv
    <3>2. phase' = phase /\ argv' = argv /\ managerArguments' = managerArguments
      BY <1>1
    <3>3. Mixed(arguments) => Mixed(arguments)'
      BY <2>1, <3>2 DEF Mixed
    <3> QED
      BY <2>1, <2>3, <2>4, <3>1, <3>2, <3>3 DEF ArgumentsInv
  <2> QED
    BY <1>1, <1>2, <2>5 DEF IInv, FilesInv, SettingsInv, HostInv
<1>4. CASE arguments = <<>>
  <2>1. Mixed(arguments') /\ DOMAIN arguments' \subseteq Keys
    BY <1>1, <1>4, ArgumentsAnswer
  <2>2. phase \in {"files", "manager"} /\ arguments' # <<>> => early'
    BY <1>1
  <2>3. ArgumentsInv'
    BY <1>1, <2>1, <2>2 DEF IInv, ArgumentsInv, Mixed
  <2> QED
    BY <1>1, <1>2, <2>3 DEF IInv, FilesInv, SettingsInv, HostInv
<1> QED
  BY <1>3, <1>4

(* A step of client code that leaves files and arguments alone. *)
LEMMA OtherStep ==
  ASSUME IInv, Calls, UNCHANGED <<startVars, keptVars>>, SettingsInv', HostInv'
  PROVE  IInv'
<1>1. UNCHANGED <<phase, exists, argv, managerArguments, settingFile, arguments, early>>
  BY DEF startVars, keptVars
<1>2. BaseInv'
  BY <1>1, CallsStep DEF IInv, BaseInv
<1> QED
  BY <1>1, <1>2 DEF IInv, FilesInv, ArgumentsInv, Mixed

LEMMA SettingsStep == ASSUME IInv, SetsSettings PROVE IInv'
<1>1. PICK t \in Texts :
        settings' \in {setName(settings, t), setVersion(settings, t), setEnvFile(settings, t)}
  BY TrimmedAssumption, ClientAssumption DEF SetsSettings
<1>2. SettingsInv'
  BY <1>1, SetType DEF IInv, SettingsInv
<1>3. HostInv'
  BY DEF SetsSettings, IInv, HostInv
<1> QED
  BY <1>2, <1>3, OtherStep DEF SetsSettings

LEMMA HostPropertyStep == ASSUME IInv, SetsHostProperty PROVE IInv'
<1>1. PICK h \in Hosts :
       \/ host' = setProtocol(host, h.protocol) /\ given' = setProtocol(given, h.protocol)
       \/ host' = setHostName(host, h.hostName) /\ given' = setHostName(given, h.hostName)
       \/ host' = setPort(host, h.port) /\ given' = setPort(given, h.port)
       \/ host' = setHeaders(host, h.headers) /\ given' = setHeaders(given, h.headers)
       \/ host' = addHeaders(host, h.headers) /\ given' = addHeaders(given, h.headers)
       \/ host' = setBasePath(host, h.basePath) /\ given' = setBasePath(given, h.basePath)
  BY DEF SetsHostProperty, addHeaders, insert
<1>2. h.protocol \in Texts /\ h.hostName \in Texts /\ h.basePath \in Texts /\ h.port \in Int
  BY ClientAssumption DEF IsHost
<1>3. HostInv'
  BY <1>1, <1>2, SetSame DEF IInv, HostInv
<1>4. SettingsInv'
  BY DEF SetsHostProperty, IInv, SettingsInv
<1> QED
  BY <1>3, <1>4, OtherStep DEF SetsHostProperty

LEMMA HostStep ==
  ASSUME IInv, SetsHost \/ SetsHostItself \/ ResetsHost \/ ReadsHost
  PROVE  IInv'
<1>1. SettingsInv' /\ Calls /\ UNCHANGED <<startVars, keptVars>>
  BY DEF SetsHost, SetsHostItself, ResetsHost, ReadsHost, IInv, SettingsInv
<1>2. IsHost(host)
  BY DEF IInv, HostInv, SameHost
<1>3. CASE SetsHost
  <2>1. PICK h \in Hosts : host' = shown(h) /\ given' = h
    BY <1>3 DEF SetsHost
  <2>2. SameHost(h, h)
    BY ClientAssumption DEF SameHost
  <2>3. SameHost(shown(h), h)
    BY <2>2, ReadSame
  <2> QED
    BY <1>1, <2>1, <2>3, OtherStep DEF HostInv
<1>4. CASE SetsHostItself
  <2>1. SameHost(clear(host), HostPvt)
    BY <1>2, ClearSame
  <2>2. SameHost(shown(clear(host)), HostPvt)
    BY <2>1, ReadSame
  <2> QED
    BY <1>1, <1>4, <2>2, OtherStep DEF SetsHostItself, HostInv
<1>5. CASE ResetsHost
  <2>1. SameHost(clear(host), HostPvt)
    BY <1>2, ClearSame
  <2> QED
    BY <1>1, <1>5, <2>1, OtherStep DEF ResetsHost, HostInv
<1>6. CASE ReadsHost
  <2>1. host' \in {hostName(host), port(host), basePath(host), allRead(host)} /\ given' = given
    BY <1>6 DEF ReadsHost
  <2>2. SameHost(host', given)
    BY <2>1, ReadSame DEF IInv, HostInv
  <2> QED
    BY <1>1, <2>1, <2>2, OtherStep DEF HostInv
<1> QED
  BY <1>3, <1>4, <1>5, <1>6

LEMMA AsksFilesStep == ASSUME IInv, AsksFiles PROVE IInv'
<1>1. UNCHANGED <<phase, exists, argv, managerArguments, arguments, early, settings, host, given>>
  BY DEF AsksFiles, startVars, settingsVars
<1>2. BaseInv'
  BY <1>1, CallsStep DEF AsksFiles, IInv, BaseInv
<1>3. FilesInv'
  BY <1>1, FilesStep DEF AsksFiles
<1> QED
  BY <1>1, <1>2, <1>3 DEF IInv, SettingsInv, HostInv, ArgumentsInv, Mixed

(* The inductive invariant holds of every reachable state. *)
THEOREM Invariance == Spec => []IInv
<1>1. IInv /\ [Next]_vars => IInv'
  <2> SUFFICES ASSUME IInv, [Next]_vars PROVE IInv'
    OBVIOUS
  <2>1. CASE UNCHANGED vars
    BY <2>1 DEF vars, startVars, keptVars, settingsVars, IInv, BaseInv, FilesInv, SettingsInv,
                HostInv, ArgumentsInv, Mixed
  <2>2. CASE Start
    BY <2>2, StartStep
  <2>3. CASE Client
    BY <2>3, AsksFilesStep, AsksStep, SettingsStep, HostPropertyStep, HostStep DEF Client
  <2> QED
    BY <2>1, <2>2, <2>3 DEF Next
<1> QED
  BY InitInv, <1>1, PTL DEF Spec

-----------------------------------------------------------------------------
(* Every variable keeps its type: the files that are kept exist and have the *)
(* right extension, keys and values are of the right kind, a host is whole.  *)
THEOREM TypeCorrect == Spec => []TypeOK
<1>1. IInv => TypeOK
  <2> SUFFICES ASSUME IInv PROVE TypeOK
    OBVIOUS
  <2>1. ASSUME NEW S, NEW s \in Seq(S) PROVE ToSet(s) \subseteq S
    BY DEF ToSet
  <2>2. /\ ToSet(settingFile.setting) \subseteq {f \in exists : f[3] = "json"}
        /\ ToSet(settingFile.envs) \subseteq {f \in exists : f[3] = "env"} \cup {<<t>> : t \in Texts}
    BY <2>1 DEF IInv, FilesInv
  <2>3. IsHost(host) /\ IsHost(given)
    BY DEF IInv, HostInv, SameHost
  <2> QED
    BY <2>2, <2>3 DEF TypeOK, IInv, BaseInv, SettingsInv, ArgumentsInv
<1> QED
  BY Invariance, <1>1, PTL

(* Arguments that were not asked for too early are the mix that is promised, *)
(* for every command line and whatever the settings file gives.              *)
THEOREM ArgumentsAreMixed == Spec => []ArgumentsMixed
<1>1. IInv => ArgumentsMixed
  BY DEF IInv, ArgumentsInv, Mixed, ArgumentsMixed
<1> QED
  BY Invariance, <1>1, PTL

(* However a host was read, reset, replaced, merged into or set from a file, *)
(* its getters answer what was last set.                                     *)
THEOREM HostShown == Spec => []HostShowsWhatWasSet
<1>1. IInv => HostShowsWhatWasSet
  <2> SUFFICES ASSUME IInv PROVE HostShowsWhatWasSet
    OBVIOUS
  <2>1. SameHost(host, given) /\ IsHost(given)
    BY DEF IInv, HostInv, SameHost
  <2>2. shown(host) = shown(given)
    BY <2>1, SameShown
  <2> DEFINE c == shown(given)
  <2>3. /\ IsHost(c) /\ c.protocol = protocol(given) /\ c.hostName = NameShown(given)
        /\ c.port = PortShown(given) /\ c.headers = given.headers /\ c.basePath = PathShown(given)
    BY <2>1, ShownIs
  <2> HIDE DEF c
  <2>4. c = [protocol |-> protocol(given), hostName |-> NameShown(given),
             port |-> PortShown(given), headers |-> given.headers, basePath |-> PathShown(given)]
    BY <2>3 DEF IsHost
  <2> QED
    BY <2>2, <2>4 DEF HostShowsWhatWasSet, c, protocol, NameShown, PortShown, PathShown
<1> QED
  BY Invariance, <1>1, PTL

=============================================================================
