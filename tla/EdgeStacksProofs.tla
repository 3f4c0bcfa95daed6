-------------------------- MODULE EdgeStacksProofs --------------------------
(***************************************************************************)
(* Proofs about EdgeStacks, and about EdgeRouting and Presets, which it is *)
(* built from, for every catalog, registry, company and number of updates. *)
(* First the operators: zones, the order of a tunnel's rules, what Load    *)
(* accepts, what presets grant, what the stacks declare. Then EstateInv,   *)
(* the inductive invariant, step by step, and what follows from it.        *)
(***************************************************************************)
EXTENDS EdgeStacks, FiniteSetTheorems, WellFoundedInduction, TLAPS

-----------------------------------------------------------------------------
(* Names and zones. *)

LEMMA LeastOne ==
  ASSUME NEW I \in SUBSET Nat, I # {}
  PROVE  \E n \in I : \A y \in I : n <= y
<1>1. PICK n \in I : \A y \in I : <<y, n>> \notin OpToRel(<, Nat)
  BY NatLessThanWellFounded, WFMin
<1>2. \A y \in I : ~(y < n)
  BY <1>1 DEF OpToRel
<1> QED BY <1>2

LEMMA GreatestOne ==
  ASSUME NEW I \in SUBSET Nat, I # {}, NEW b \in Nat, \A y \in I : y <= b
  PROVE  \E n \in I : \A y \in I : y <= n
<1> DEFINE J == {n \in Nat : b - n \in I}
<1>1. J # {}
  <2>1. PICK y \in I : TRUE
    OBVIOUS
  <2>2. b - y \in Nat /\ b - (b - y) = y
    BY <2>1
  <2> QED BY <2>1, <2>2
<1>2. PICK n \in J : \A y \in J : n <= y
  BY <1>1, LeastOne
<1>3. ASSUME NEW y \in I PROVE y <= b - n
  <2>1. b - y \in J /\ b - y \in Nat
    <3>1. b - y \in Nat /\ b - (b - y) = y
      BY <1>3
    <3> QED BY <3>1
  <2>2. n <= b - y /\ n \in Nat /\ y \in Nat
    BY <1>2, <2>1
  <2> QED BY <2>2
<1> QED BY <1>2, <1>3

LEMMA SameSequence ==
  ASSUME NEW S, NEW s \in Seq(S), NEW t \in Seq(S), Len(s) = Len(t),
         \A i \in 1 .. Len(s) : s[i] = t[i]
  PROVE  s = t
OBVIOUS

(* A prefix agrees at every place it has.                                  *)
LEMMA PrefixIs ==
  ASSUME NEW S, NEW s \in Seq(S), NEW t \in Seq(S)
  PROVE  IsPrefix(s, t) <=> Len(s) <= Len(t) /\ \A i \in 1 .. Len(s) : s[i] = t[i]
<1>1. CASE Len(s) <= Len(t)
  <2> DEFINE u == SubSeq(t, 1, Len(s))  v == SubSeq(s, 1, Len(s))
  <2>1. /\ Len(u) = Len(s) /\ \A i \in 1 .. Len(s) : u[i] = t[i]
        /\ Len(v) = Len(s) /\ \A i \in 1 .. Len(s) : v[i] = s[i]
        /\ u \in Seq(S) /\ v \in Seq(S)
    BY <1>1
  <2> HIDE DEF u, v
  <2>2. u = v <=> \A i \in 1 .. Len(s) : u[i] = v[i]
    BY <2>1
  <2>3. IsPrefix(s, t) <=> v = u
    BY <1>1 DEF IsPrefix, u, v
  <2> QED BY <1>1, <2>1, <2>2, <2>3
<1>2. CASE ~(Len(s) <= Len(t))
  BY <1>2 DEF IsPrefix
<1> QED BY <1>1, <1>2

(* Of two prefixes of one name the shorter is a prefix of the longer.      *)
LEMMA PrefixesNest ==
  ASSUME NEW S, NEW s \in Seq(S), NEW t \in Seq(S), NEW u \in Seq(S),
         IsPrefix(s, u), IsPrefix(t, u), Len(s) <= Len(t)
  PROVE  IsPrefix(s, t) /\ (Len(s) = Len(t) => s = t)
<1>1. \A i \in 1 .. Len(s) : s[i] = u[i] /\ t[i] = u[i]
  BY PrefixIs
<1>2. IsPrefix(s, t)
  BY <1>1, PrefixIs
<1>3. Len(s) = Len(t) => s = t
  BY <1>1
<1> QED BY <1>2, <1>3

(* ZoneOf: the innermost of the zones around a host, whenever there is one.*)
LEMMA ZoneOfIs ==
  ASSUME NEW zones \in SUBSET Name, NEW h \in Host, NEW z \in zones, InZone(h, z)
  PROVE  /\ ZoneOf(zones, h) \in zones
         /\ InZone(h, ZoneOf(zones, h))
         /\ \A y \in zones : InZone(h, y) => IsPrefix(y, ZoneOf(zones, h))
<1> DEFINE around == {y \in zones : InZone(h, y)}
           lengths == {Len(y) : y \in around}
<1>1. h.name \in Name /\ Len(h.name) \in Nat
  BY DEF Host, Name
<1>2. \A y \in around : y \in Name /\ Len(y) \in Nat /\ Len(y) <= Len(h.name) /\ IsPrefix(y, h.name)
  BY <1>1, PrefixIs DEF Name, InZone
<1>3. lengths \in SUBSET Nat /\ lengths # {} /\ \A y \in lengths : y <= Len(h.name)
  BY <1>2
<1>4. \E n \in lengths : \A y \in lengths : y <= n
  BY <1>1, <1>3, GreatestOne
<1>5. \E y \in around : \A x \in around : Len(x) <= Len(y)
  BY <1>4
<1>6. ZoneOf(zones, h) = CHOOSE y \in around : \A x \in around : Len(x) <= Len(y)
  BY DEF ZoneOf
<1> DEFINE o == ZoneOf(zones, h)
<1>7. o \in around /\ \A x \in around : Len(x) <= Len(o)
  BY <1>5, <1>6
<1> HIDE DEF o
<1>8. ASSUME NEW y \in zones, InZone(h, y) PROVE IsPrefix(y, o)
  <2>1. y \in around
    BY <1>8
  <2> QED BY <1>1, <1>2, <1>7, <2>1, PrefixesNest DEF Name
<1> QED BY <1>7, <1>8 DEF o

(* A zone around a host that no other zone around it lies in is the one.   *)
LEMMA ZoneOfUnique ==
  ASSUME NEW zones \in SUBSET Name, NEW h \in Host, NEW z \in zones, InZone(h, z),
         \A y \in zones : InZone(h, y) => IsPrefix(y, z)
  PROVE  ZoneOf(zones, h) = z
<1> DEFINE o == ZoneOf(zones, h)
<1>1. o \in zones /\ InZone(h, o) /\ IsPrefix(z, o)
  BY ZoneOfIs
<1>2. IsPrefix(o, z)
  BY <1>1
<1> HIDE DEF o
<1>3. o \in Name /\ z \in Name
  BY <1>1
<1> QED BY <1>1, <1>2, <1>3, PrefixIs, SMTT(30) DEF Name, o

LEMMA NoZoneIs ==
  ASSUME NEW zones \in SUBSET (Name \ {NoZone}), NEW h \in Host
  PROVE  ZoneOf(zones, h) # NoZone <=> \E z \in zones : InZone(h, z)
<1>1. ASSUME NEW z \in zones, InZone(h, z) PROVE ZoneOf(zones, h) # NoZone
  BY <1>1, ZoneOfIs
<1>2. ASSUME ~ \E z \in zones : InZone(h, z) PROVE ZoneOf(zones, h) = NoZone
  BY <1>2 DEF ZoneOf
<1> QED BY <1>1, <1>2

(* The closest zone of all, when it is among some of them, is theirs.      *)
LEMMA ZoneOfAmong ==
  ASSUME NEW zones \in SUBSET (Name \ {NoZone}), NEW some \in SUBSET zones, NEW h \in Host,
         ZoneOf(zones, h) \in some
  PROVE  ZoneOf(some, h) = ZoneOf(zones, h)
<1> DEFINE o == ZoneOf(zones, h)
<1>1. \E z \in zones : InZone(h, z)
  BY NoZoneIs
<1>2. InZone(h, o) /\ \A y \in zones : InZone(h, y) => IsPrefix(y, o)
  BY <1>1, ZoneOfIs
<1> HIDE DEF o
<1> QED BY <1>2, ZoneOfUnique DEF o

-----------------------------------------------------------------------------
(* The order of a tunnel's rules. *)

LEMMA LabelsIrreflexive ==
  ASSUME NEW la \in Seq(Nat) PROVE ~LabelsBefore(la, la)
BY DEF LabelsBefore

LEMMA LabelsPlaces ==
  ASSUME NEW la \in Seq(Nat)
  PROVE  Len(la) \in Nat /\ DOMAIN la = 1 .. Len(la) /\ \A i \in DOMAIN la : i \in Nat /\ la[i] \in Nat
OBVIOUS

LEMMA LabelsTransitive ==
  ASSUME NEW la \in Seq(Nat), NEW lb \in Seq(Nat), NEW lc \in Seq(Nat),
         LabelsBefore(la, lb), LabelsBefore(lb, lc)
  PROVE  LabelsBefore(la, lc)
<1> DEFINE First(i) == \A j \in 1 .. i - 1 : j \in DOMAIN la /\ la[j] = lb[j]
           Second(k) == \A j \in 1 .. k - 1 : j \in DOMAIN lb /\ lb[j] = lc[j]
<1>1. PICK i \in DOMAIN lb : First(i) /\ (i \in DOMAIN la => la[i] < lb[i])
  BY DEF LabelsBefore
<1>2. PICK k \in DOMAIN lc : Second(k) /\ (k \in DOMAIN lb => lb[k] < lc[k])
  BY DEF LabelsBefore
<1>3. /\ i \in Nat /\ i >= 1 /\ k \in Nat /\ k >= 1
      /\ \A j \in 1 .. k - 1 : j \in DOMAIN lc
      /\ \A j \in 1 .. i - 1 : j \in DOMAIN lb
  BY <1>1, <1>2, LabelsPlaces, SMTT(30)
<1>4. CASE i < k
  <2>1. i \in 1 .. k - 1
    BY <1>3, <1>4
  <2>2. i \in DOMAIN lc /\ lb[i] = lc[i]
    BY <1>2, <1>3, <2>1
  <2>3. ASSUME NEW j \in 1 .. i - 1 PROVE j \in DOMAIN la /\ la[j] = lc[j]
    <3>1. j \in 1 .. k - 1
      BY <1>3, <1>4
    <3> QED BY <1>1, <1>2, <3>1
  <2>4. i \in DOMAIN la => la[i] < lc[i]
    BY <1>1, <2>2
  <2> QED BY <2>2, <2>3, <2>4 DEF LabelsBefore
<1>5. CASE k <= i
  <2>1. ASSUME NEW j \in 1 .. k - 1 PROVE j \in DOMAIN la /\ la[j] = lc[j]
    <3>1. j \in 1 .. i - 1
      BY <1>3, <1>5
    <3> QED BY <1>1, <1>2, <3>1
  <2>2. k \in DOMAIN lb
    <3>1. CASE k = i
      BY <1>1, <3>1
    <3>2. CASE k < i
      BY <1>3, <3>2
    <3> QED BY <1>3, <1>5, <3>1, <3>2
  <2>3. ASSUME k \in DOMAIN la PROVE la[k] < lc[k]
    <3>1. la[k] \in Nat /\ lb[k] \in Nat /\ lc[k] \in Nat /\ lb[k] < lc[k]
      BY <1>2, <2>2, <2>3, LabelsPlaces
    <3>2. la[k] <= lb[k]
      <4>1. CASE k = i
        BY <1>1, <2>3, <3>1, <4>1
      <4>2. CASE k < i
        <5>1. k \in 1 .. i - 1
          BY <1>3, <4>2
        <5>2. la[k] = lb[k]
          BY <1>1, <5>1
        <5> QED BY ONLY <3>1, <5>2, SMTT(30)
      <4> QED BY <1>3, <1>5, <4>1, <4>2
    <3> QED BY ONLY <3>1, <3>2, SMTT(30)
  <2> QED BY <2>1, <2>3 DEF LabelsBefore
<1> QED BY <1>3, <1>4, <1>5

LEMMA LabelsTotal ==
  ASSUME NEW la \in Seq(Nat), NEW lb \in Seq(Nat), la # lb
  PROVE  LabelsBefore(la, lb) \/ LabelsBefore(lb, la)
<1> DEFINE Same(j) == j \in DOMAIN la /\ j \in DOMAIN lb /\ la[j] = lb[j]
           Out(j)  == j \notin DOMAIN la /\ j \notin DOMAIN lb
           D == {j \in Nat : j >= 1 /\ ~Same(j) /\ ~Out(j)}
<1>1. DOMAIN la = 1 .. Len(la) /\ DOMAIN lb = 1 .. Len(lb) /\ Len(la) \in Nat /\ Len(lb) \in Nat
  BY LabelsPlaces
<1>2. D # {}
  <2> SUFFICES ASSUME \A j \in Nat : j >= 1 => Same(j) \/ Out(j) PROVE FALSE
    OBVIOUS
  <2>1. Len(la) >= 1 => Len(la) <= Len(lb)
    BY <1>1
  <2>2. Len(lb) >= 1 => Len(lb) <= Len(la)
    BY <1>1
  <2>3. Len(la) = Len(lb)
    <3>1. Len(la) \in Nat /\ Len(lb) \in Nat
      BY <1>1
    <3> QED BY ONLY <2>1, <2>2, <3>1
  <2>4. \A j \in 1 .. Len(la) : la[j] = lb[j]
    BY <1>1
  <2> QED BY <2>3, <2>4, SameSequence
<1>3. PICK i \in D : \A y \in D : i <= y
  BY <1>2, LeastOne
<1>4. i \in Nat /\ i >= 1 /\ ~Same(i) /\ ~Out(i)
  BY <1>3
<1>5. ASSUME NEW j \in 1 .. i - 1 PROVE Same(j)
  <2>1. j \in Nat /\ j >= 1 /\ j < i
    BY <1>4
  <2>2. j \notin D
    BY <1>3, <1>4, <2>1
  <2>3. Same(j) \/ Out(j)
    BY <2>1, <2>2
  <2>4. ~Out(j)
    BY <1>1, <1>4, <2>1
  <2> QED BY <2>3, <2>4
<1> HIDE DEF D
<1>6. \A j \in 1 .. i - 1 : j \in DOMAIN la /\ j \in DOMAIN lb /\ la[j] = lb[j]
  BY <1>5
<1>7. CASE i \notin DOMAIN lb
  <2>1. i \in DOMAIN la
    BY <1>4, <1>7
  <2> QED BY <1>6, <1>7, <2>1 DEF LabelsBefore
<1>8. CASE i \notin DOMAIN la
  <2>1. i \in DOMAIN lb
    BY <1>4, <1>8
  <2> QED BY <1>6, <1>8, <2>1 DEF LabelsBefore
<1>9. CASE i \in DOMAIN la /\ i \in DOMAIN lb
  <2>1. la[i] \in Nat /\ lb[i] \in Nat /\ la[i] # lb[i]
    BY <1>4, <1>9, LabelsPlaces
  <2>2. la[i] < lb[i] \/ lb[i] < la[i]
    BY ONLY <2>1
  <2> QED BY <1>6, <1>9, <2>2 DEF LabelsBefore
<1> QED BY <1>7, <1>8, <1>9

LEMMA LabelsType ==
  ASSUME NEW h \in Host
  PROVE  /\ Labels(h) \in Seq(Nat)
         /\ LabelCount(h) \in Nat
         /\ h.wild \in BOOLEAN /\ h.name \in Name /\ h.name \in Seq(Nat)
         /\ h = [wild |-> h.wild, name |-> h.name]
BY DEF Labels, LabelCount, Host, Name

LEMMA WithoutLast ==
  ASSUME NEW s \in Seq(Nat), NEW u \in Seq(Nat), Append(s, 0) = Append(u, 0)
  PROVE  s = u
<1>1. /\ Len(Append(s, 0)) = Len(s) + 1 /\ Len(Append(u, 0)) = Len(u) + 1
      /\ Len(s) \in Nat /\ Len(u) \in Nat
  OBVIOUS
<1>2. Len(s) = Len(u)
  BY ONLY <1>1, Append(s, 0) = Append(u, 0)
<1>3. ASSUME NEW i \in 1 .. Len(s) PROVE s[i] = u[i]
  <2>1. s[i] = Append(s, 0)[i]
    OBVIOUS
  <2>2. u[i] = Append(u, 0)[i]
    BY <1>2
  <2> QED BY <2>1, <2>2
<1> QED BY <1>2, <1>3, SameSequence

LEMMA LabelsTell ==
  ASSUME NEW a \in Host, NEW b \in Host, a.wild = b.wild, Labels(a) = Labels(b)
  PROVE  a = b
<1>1. a.name \in Seq(Nat) /\ b.name \in Seq(Nat)
  BY LabelsType
<1>2. a.name = b.name
  <2>1. CASE a.wild
    <3>1. Append(a.name, 0) = Append(b.name, 0)
      BY <2>1 DEF Labels
    <3> QED BY ONLY <1>1, <3>1, WithoutLast
  <2>2. CASE ~a.wild
    BY <2>2 DEF Labels
  <2> QED BY <2>1, <2>2
<1> QED BY <1>2, LabelsType

(* OrderedBefore is a strict total order on hosts.                         *)
LEMMA HostsOrdered ==
  /\ \A a \in Host : ~OrderedBefore(a, a)
  /\ \A a, b \in Host : a # b => OrderedBefore(a, b) \/ OrderedBefore(b, a)
  /\ \A a, b, c \in Host : OrderedBefore(a, b) /\ OrderedBefore(b, c) => OrderedBefore(a, c)
<1>1. ASSUME NEW a \in Host PROVE ~OrderedBefore(a, a)
  BY LabelsType, LabelsIrreflexive DEF OrderedBefore, CanonicalBefore
<1>2. ASSUME NEW a \in Host, NEW b \in Host, a # b PROVE OrderedBefore(a, b) \/ OrderedBefore(b, a)
  <2> DEFINE n == LabelCount(a)  m == LabelCount(b)
  <2>1. a.wild \in BOOLEAN /\ b.wild \in BOOLEAN /\ n \in Nat /\ m \in Nat
    BY LabelsType
  <2>2. a.wild = b.wild => LabelsBefore(Labels(a), Labels(b)) \/ LabelsBefore(Labels(b), Labels(a))
    BY <1>2, LabelsTell, LabelsType, LabelsTotal
  <2>3. /\ OrderedBefore(a, b) = (IF a.wild # b.wild THEN b.wild
               ELSE IF a.wild /\ n # m THEN n > m ELSE LabelsBefore(Labels(a), Labels(b)))
        /\ OrderedBefore(b, a) = (IF b.wild # a.wild THEN a.wild
               ELSE IF b.wild /\ m # n THEN m > n ELSE LabelsBefore(Labels(b), Labels(a)))
    BY DEF OrderedBefore, CanonicalBefore
  <2> HIDE DEF n, m
  <2>4. n # m => n > m \/ m > n
    BY ONLY <2>1
  <2> QED BY <2>1, <2>2, <2>3, <2>4
<1>3. ASSUME NEW a \in Host, NEW b \in Host, NEW c \in Host, OrderedBefore(a, b), OrderedBefore(b, c)
      PROVE  OrderedBefore(a, c)
  <2> DEFINE N(h) == LabelCount(h)
  <2>1. /\ a.wild \in BOOLEAN /\ b.wild \in BOOLEAN /\ c.wild \in BOOLEAN
        /\ N(a) \in Nat /\ N(b) \in Nat /\ N(c) \in Nat
    BY LabelsType
  <2>2. LabelsBefore(Labels(a), Labels(b)) /\ LabelsBefore(Labels(b), Labels(c))
          => LabelsBefore(Labels(a), Labels(c))
    BY LabelsType, LabelsTransitive
  <2> HIDE DEF N
  <2>3. ASSUME NEW x \in Host, NEW y \in Host
        PROVE  OrderedBefore(x, y) = (IF x.wild # y.wild THEN y.wild
                 ELSE IF x.wild /\ N(x) # N(y) THEN N(x) > N(y)
                 ELSE LabelsBefore(Labels(x), Labels(y)))
    BY DEF OrderedBefore, CanonicalBefore, N
  <2>4. CASE a.wild # b.wild
    BY <1>3, <2>1, <2>3, <2>4
  <2>5. CASE b.wild # c.wild
    BY <1>3, <2>1, <2>3, <2>5
  <2>6. CASE a.wild = b.wild /\ b.wild = c.wild
    <3>1. CASE ~a.wild
      BY <1>3, <2>2, <2>3, <2>6, <3>1
    <3>2. CASE a.wild
      <4>1. N(a) > N(b) \/ (N(a) = N(b) /\ LabelsBefore(Labels(a), Labels(b)))
        BY <1>3, <2>3, <2>6, <3>2
      <4>2. N(b) > N(c) \/ (N(b) = N(c) /\ LabelsBefore(Labels(b), Labels(c)))
        BY <1>3, <2>3, <2>6, <3>2
      <4>3. N(a) > N(c) \/ (N(a) = N(c) /\ LabelsBefore(Labels(a), Labels(c)))
        BY <2>1, <2>2, <4>1, <4>2
      <4> QED BY <2>1, <2>3, <2>6, <3>2, <4>3
    <3> QED BY <3>1, <3>2
  <2> QED BY <2>4, <2>5, <2>6
<1> QED BY <1>1, <1>2, <1>3

(* The library's facts in the form they are used here.                     *)
LEMMA SubsetSize ==
  ASSUME NEW S, IsFiniteSet(S), NEW T \in SUBSET S
  PROVE  /\ IsFiniteSet(T) /\ Cardinality(T) \in Nat /\ Cardinality(S) \in Nat
         /\ Cardinality(T) <= Cardinality(S)
         /\ (Cardinality(S) = Cardinality(T) => S = T)
<1>1. IsFiniteSet(T) /\ Cardinality(T) <= Cardinality(S) /\ (Cardinality(S) = Cardinality(T) => S = T)
  BY FS_Subset, Zenon
<1>2. Cardinality(T) \in Nat /\ Cardinality(S) \in Nat
  BY <1>1, FS_CardinalityType, Zenon
<1> QED BY <1>1, <1>2

LEMMA IntervalSize ==
  ASSUME NEW n \in Nat
  PROVE  IsFiniteSet(1 .. n) /\ IsFiniteSet(0 .. n - 1) /\ Cardinality(0 .. n - 1) = n
<1>1. 0 \in Int /\ 1 \in Int /\ n \in Int /\ n - 1 \in Int
  OBVIOUS
<1>2. /\ IsFiniteSet(1 .. n) /\ IsFiniteSet(0 .. n - 1)
      /\ Cardinality(0 .. n - 1) = IF 0 > n - 1 THEN 0 ELSE (n - 1) - 0 + 1
  BY <1>1, FS_Interval, Zenon
<1>3. (IF 0 > n - 1 THEN 0 ELSE (n - 1) - 0 + 1) = n
  OBVIOUS
<1> QED BY <1>2, <1>3

LEMMA OntoBySize ==
  ASSUME NEW S, NEW T, NEW f \in [S -> T], IsFiniteSet(T), Cardinality(S) = Cardinality(T),
         \A a, b \in S : f[a] = f[b] => a = b
  PROVE  \A t \in T : \E s \in S : f[s] = t
<1>1. f \in Injection(S, T)
  BY DEF Injection, IsInjective
<1>2. f \in Surjection(S, T)
  BY <1>1, FS_Injection, Zenon
<1> QED BY <1>2 DEF Surjection

ClaimSet == (DOMAIN Groups) \X HostSet

LEMMA ClaimsFinite == IsFiniteSet(ClaimSet)
<1>1. IsFiniteSet(DOMAIN Groups) /\ IsFiniteSet(HostSet)
  BY CatalogAssumption, IntervalSize
<1>2. IsFiniteSet((DOMAIN Groups) \X HostSet)
  BY <1>1, FS_Product, Zenon
<1> QED BY <1>2 DEF ClaimSet

LEMMA ClaimType ==
  ASSUME NEW c \in ClaimSet
  PROVE  c[1] \in Nat /\ c[1] \in DOMAIN Groups /\ c[2] \in HostSet /\ c[2] \in Host /\ c = <<c[1], c[2]>>
BY CatalogAssumption DEF ClaimSet

(* Earlier is a strict total order on claims.                              *)
LEMMA ClaimsOrdered ==
  /\ \A c \in ClaimSet : ~Earlier(c, c)
  /\ \A c, d \in ClaimSet : c # d => Earlier(c, d) \/ Earlier(d, c)
  /\ \A c, d, e \in ClaimSet : Earlier(c, d) /\ Earlier(d, e) => Earlier(c, e)
<1>1. ASSUME NEW c \in ClaimSet PROVE ~Earlier(c, c)
  BY ClaimType, HostsOrdered DEF Earlier
<1>2. ASSUME NEW c \in ClaimSet, NEW d \in ClaimSet, c # d PROVE Earlier(c, d) \/ Earlier(d, c)
  <2>1. CASE c[2] # d[2]
    BY <2>1, ClaimType, HostsOrdered DEF Earlier
  <2>2. CASE c[2] = d[2]
    <3>1. c[1] \in Nat /\ d[1] \in Nat /\ c[1] # d[1]
      BY <1>2, <2>2, ClaimType
    <3>2. c[1] < d[1] \/ d[1] < c[1]
      BY ONLY <3>1
    <3> QED BY <2>2, <3>2 DEF Earlier
  <2> QED BY <2>1, <2>2
<1>3. ASSUME NEW c \in ClaimSet, NEW d \in ClaimSet, NEW e \in ClaimSet, Earlier(c, d), Earlier(d, e)
      PROVE  Earlier(c, e)
  <2>1. OrderedBefore(c[2], d[2]) \/ (c[2] = d[2] /\ c[1] < d[1])
    BY <1>3 DEF Earlier
  <2>2. OrderedBefore(d[2], e[2]) \/ (d[2] = e[2] /\ d[1] < e[1])
    BY <1>3 DEF Earlier
  <2>3. c[1] \in Nat /\ d[1] \in Nat /\ e[1] \in Nat
    BY ClaimType
  <2>4. c[1] < d[1] /\ d[1] < e[1] => c[1] < e[1]
    BY ONLY <2>3
  <2>5. OrderedBefore(c[2], d[2]) /\ OrderedBefore(d[2], e[2]) => OrderedBefore(c[2], e[2])
    BY ClaimType, HostsOrdered
  <2> QED BY <2>1, <2>2, <2>4, <2>5 DEF Earlier
<1> QED BY <1>1, <1>2, <1>3

(* A claim's position is the number of those before it: no two share one,  *)
(* and each is taken.                                                      *)
LEMMA Positions ==
  ASSUME NEW mine \in SUBSET ClaimSet
  PROVE  /\ Cardinality(mine) \in Nat
         /\ \A c \in mine : Position(mine, c) \in 0 .. Cardinality(mine) - 1
         /\ \A c, d \in mine : Earlier(c, d) => Position(mine, c) < Position(mine, d)
         /\ \A i \in 1 .. Cardinality(mine) : \E c \in mine : Position(mine, c) = i - 1
<1> DEFINE n == Cardinality(mine)
           B(c) == {d \in mine : Earlier(d, c)}
           P(c) == Position(mine, c)
<1>1. IsFiniteSet(mine) /\ n \in Nat
  BY ClaimsFinite, SubsetSize
<1>2. ASSUME NEW c \in mine PROVE IsFiniteSet(B(c)) /\ P(c) = Cardinality(B(c)) /\ P(c) \in Nat
  <2>1. B(c) \in SUBSET mine
    OBVIOUS
  <2>2. IsFiniteSet(B(c)) /\ Cardinality(B(c)) \in Nat
    BY <1>1, <2>1, SubsetSize
  <2> QED BY <2>2 DEF Position
<1>3. ASSUME NEW c \in mine PROVE P(c) \in 0 .. n - 1
  <2>1. B(c) \in SUBSET mine /\ c \notin B(c)
    BY ClaimsOrdered
  <2>2. Cardinality(B(c)) <= n /\ (n = Cardinality(B(c)) => mine = B(c))
    BY <1>1, <2>1, SubsetSize
  <2>3. P(c) # n
    BY <1>2, <2>1, <2>2
  <2>4. P(c) <= n /\ P(c) \in Nat
    BY <1>2, <2>2
  <2> HIDE DEF P, n
  <2> QED BY ONLY <1>1, <2>3, <2>4
<1>4. ASSUME NEW c \in mine, NEW d \in mine, Earlier(c, d) PROVE P(c) < P(d)
  <2>1. B(c) \in SUBSET B(d)
    BY <1>4, ClaimsOrdered
  <2>2. c \in B(d) /\ c \notin B(c)
    BY <1>4, ClaimsOrdered
  <2>3. Cardinality(B(c)) <= Cardinality(B(d)) /\ (Cardinality(B(d)) = Cardinality(B(c)) => B(d) = B(c))
    BY <1>2, <2>1, SubsetSize
  <2>4. P(c) <= P(d) /\ P(c) # P(d) /\ P(c) \in Nat /\ P(d) \in Nat
    BY <1>2, <2>2, <2>3
  <2> HIDE DEF P
  <2> QED BY ONLY <2>4
<1>5. \A i \in 1 .. n : \E c \in mine : P(c) = i - 1
  <2> DEFINE f == [c \in mine |-> P(c)]
             T == 0 .. n - 1
  <2>1. f \in [mine -> T]
    BY <1>3
  <2>2. ASSUME NEW c \in mine, NEW d \in mine, f[c] = f[d] PROVE c = d
    <3>1. P(c) = P(d)
      BY <2>2
    <3>2. P(c) < P(d) \/ P(d) < P(c) \/ c = d
      BY <1>4, ClaimsOrdered
    <3>3. P(c) \in Nat /\ P(d) \in Nat
      BY <1>2
    <3> HIDE DEF P
    <3> QED BY ONLY <3>1, <3>2, <3>3
  <2>3. \A x \in T : \E c \in mine : f[c] = x
    <3>1. IsFiniteSet(T) /\ Cardinality(T) = n
      BY <1>1, IntervalSize
    <3> HIDE DEF f, T
    <3> QED BY <2>1, <2>2, <3>1, OntoBySize
  <2>4. ASSUME NEW i \in 1 .. n PROVE \E c \in mine : P(c) = i - 1
    <3>1. i - 1 \in T
      BY <1>1
    <3>2. PICK c \in mine : f[c] = i - 1
      BY <2>3, <3>1
    <3> QED BY <3>2
  <2> QED BY <2>4
<1> QED BY <1>1, <1>3, <1>4, <1>5

(* The rules of a tunnel are the hosts claimed, none before one that       *)
(* should precede it.                                                      *)
LEMMA OrderHostsIs ==
  ASSUME NEW mine \in SUBSET ClaimSet
  PROVE  /\ DOMAIN OrderHosts(mine) = 1 .. Cardinality(mine)
         /\ Cardinality(mine) \in Nat
         /\ ToSet(OrderHosts(mine)) = {c[2] : c \in mine}
         /\ \A i, j \in DOMAIN OrderHosts(mine) :
              i < j => ~OrderedBefore(OrderHosts(mine)[j], OrderHosts(mine)[i])
<1> DEFINE n == Cardinality(mine)
           at(i) == CHOOSE c \in mine : Position(mine, c) = i - 1
           hosts == OrderHosts(mine)
<1>1. n \in Nat /\ \A c \in mine : Position(mine, c) \in 0 .. n - 1
  BY Positions
<1>2. DOMAIN hosts = 1 .. n /\ \A i \in 1 .. n : hosts[i] = at(i)[2]
  BY DEF OrderHosts
<1>3. ASSUME NEW i \in 1 .. n PROVE at(i) \in mine /\ Position(mine, at(i)) = i - 1
  BY Positions
<1> HIDE DEF at, hosts
<1>4. ASSUME NEW c \in mine PROVE \E i \in 1 .. n : at(i) = c
  <2> DEFINE i == Position(mine, c) + 1
  <2>1. i \in 1 .. n /\ Position(mine, c) = i - 1
    BY <1>1
  <2>2. at(i) \in mine /\ Position(mine, at(i)) = i - 1
    BY <1>3, <2>1
  <2>3. ~Earlier(at(i), c) /\ ~Earlier(c, at(i))
    BY <1>1, <2>1, <2>2, Positions
  <2> QED BY <2>1, <2>2, <2>3, ClaimsOrdered
<1>5. ToSet(hosts) = {c[2] : c \in mine}
  BY <1>2, <1>3, <1>4 DEF ToSet
<1>6. ASSUME NEW i \in 1 .. n, NEW j \in 1 .. n, i < j PROVE ~OrderedBefore(hosts[j], hosts[i])
  <2>1. ~(j - 1 < i - 1)
    BY <1>6
  <2>2. ~Earlier(at(j), at(i))
    BY <1>3, <2>1, Positions
  <2> QED BY <1>2, <2>2 DEF Earlier
<1> QED BY <1>1, <1>2, <1>5, <1>6 DEF hosts

-----------------------------------------------------------------------------
(* The tunnels that Derive returns. *)

Catalogs == [GroupSet -> SUBSET HostSet]

LEMMA ClaimedIs ==
  ASSUME NEW cl \in Catalogs
  PROVE  /\ Claimed(cl) \in SUBSET ClaimSet
         /\ \A g \in GroupSet : \A h \in cl[g] :
              h \in HostSet /\ \E c \in Claimed(cl) : c[2] = h /\ Groups[c[1]] = g
         /\ \A c \in Claimed(cl) : Groups[c[1]] \in GroupSet /\ c[2] \in cl[Groups[c[1]]]
<1>1. Claimed(cl) \in SUBSET ClaimSet
  BY DEF Claimed, ClaimSet
<1>2. ASSUME NEW g \in GroupSet, NEW h \in cl[g]
      PROVE  h \in HostSet /\ \E c \in Claimed(cl) : c[2] = h /\ Groups[c[1]] = g
  <2>1. h \in HostSet
    BY DEF Catalogs
  <2>2. PICK i \in DOMAIN Groups : Groups[i] = g
    BY DEF GroupSet, ToSet
  <2>3. <<i, h>> \in Claimed(cl)
    BY <2>1, <2>2 DEF Claimed
  <2> QED BY <2>1, <2>2, <2>3
<1>3. ASSUME NEW c \in Claimed(cl) PROVE Groups[c[1]] \in GroupSet /\ c[2] \in cl[Groups[c[1]]]
  BY DEF Claimed, GroupSet, ToSet
<1> QED BY <1>1, <1>2, <1>3

(* The claims a tunnel serves.                                             *)
Mine(r, cs, cl, t) == {c \in Claimed(cl) : Key(r, cs, c) = TunnelKey(t)}

LEMMA TunnelIs ==
  ASSUME NEW r, NEW cs, NEW cl \in Catalogs, NEW t \in DerivedTunnels(r, cs, cl)
  PROVE  /\ t.hosts = OrderHosts(Mine(r, cs, cl, t))
         /\ t.zones = {ZoneOf(Managed(r), h) : h \in ToSet(t.hosts)}
         /\ t.elsewhere = ToSet(t.hosts) \cap r.elsewhere
         /\ t = TunnelFor(r, cs, Claimed(cl), TunnelKey(t))
         /\ Mine(r, cs, cl, t) \in SUBSET ClaimSet
         /\ Mine(r, cs, cl, t) # {}
<1>1. PICK c \in Claimed(cl) : t = TunnelFor(r, cs, Claimed(cl), Key(r, cs, c))
  BY DEF DerivedTunnels
<1> DEFINE k == Key(r, cs, c)
<1>2. TunnelKey(t) = k
  <2>1. k = <<k[1], k[2]>>
    BY DEF Key
  <2>2. t.cluster = k[1] /\ t.account = k[2]
    BY <1>1 DEF TunnelFor
  <2> QED BY <2>1, <2>2 DEF TunnelKey
<1>3. /\ t.hosts = OrderHosts({d \in Claimed(cl) : Key(r, cs, d) = k})
      /\ t.zones = {ZoneOf(Managed(r), h) : h \in ToSet(t.hosts)}
      /\ t.elsewhere = ToSet(t.hosts) \cap r.elsewhere
  BY <1>1 DEF TunnelFor
<1>4. c \in Mine(r, cs, cl, t)
  BY <1>2 DEF Mine
<1>5. Mine(r, cs, cl, t) \in SUBSET ClaimSet
  BY ClaimedIs DEF Mine
<1> QED BY <1>1, <1>2, <1>3, <1>4, <1>5 DEF Mine

(* What a tunnel's rules are, whoever lists them.                          *)
LEMMA RulesOf ==
  ASSUME NEW r, NEW cs, NEW cl \in Catalogs, NEW t \in DerivedTunnels(r, cs, cl)
  PROVE  /\ \E n \in Nat : DOMAIN t.hosts = 1 .. n
         /\ \A i, j \in DOMAIN t.hosts : i < j => ~OrderedBefore(t.hosts[j], t.hosts[i])
         /\ \A i \in DOMAIN t.hosts : t.hosts[i] \in ToSet(t.hosts)
         /\ ToSet(t.hosts) \subseteq HostSet /\ HostSet \subseteq Host
         /\ \E h \in HostSet : h \in ToSet(t.hosts)
         /\ \A h \in ToSet(t.hosts) : \E g \in GroupSet :
              h \in cl[g] /\ t.cluster = cs[g] /\ t.account = AccountOf(r, h)
<1> DEFINE mine == Mine(r, cs, cl, t)
<1>1. mine \in SUBSET ClaimSet /\ mine # {} /\ t.hosts = OrderHosts(mine)
  BY TunnelIs
<1>2. /\ DOMAIN t.hosts = 1 .. Cardinality(mine) /\ Cardinality(mine) \in Nat
      /\ ToSet(t.hosts) = {c[2] : c \in mine}
      /\ \A i, j \in DOMAIN t.hosts : i < j => ~OrderedBefore(t.hosts[j], t.hosts[i])
  BY <1>1, OrderHostsIs
<1>3. \A c \in mine : c[2] \in HostSet
  BY <1>1, ClaimType
<1>4. \A i \in DOMAIN t.hosts : t.hosts[i] \in ToSet(t.hosts)
  BY DEF ToSet
<1>5. ASSUME NEW h \in ToSet(t.hosts)
      PROVE  \E g \in GroupSet : h \in cl[g] /\ t.cluster = cs[g] /\ t.account = AccountOf(r, h)
  <2>1. PICK c \in mine : c[2] = h
    BY <1>2
  <2>2. c \in Claimed(cl) /\ <<cs[Groups[c[1]]], AccountOf(r, h)>> = <<t.cluster, t.account>>
    BY <2>1 DEF Mine, Key, TunnelKey
  <2>3. Groups[c[1]] \in GroupSet /\ h \in cl[Groups[c[1]]]
    BY <2>1, <2>2, ClaimedIs
  <2> QED BY <2>2, <2>3
<1> QED BY <1>1, <1>2, <1>3, <1>4, <1>5, CatalogAssumption

LEMMA EveryClaimServed ==
  ASSUME NEW r, NEW cs, NEW cl \in Catalogs, NEW g \in GroupSet, NEW h \in cl[g]
  PROVE  \E t \in DerivedTunnels(r, cs, cl) :
           h \in ToSet(t.hosts) /\ t.cluster = cs[g] /\ t.account = AccountOf(r, h)
<1>1. PICK c \in Claimed(cl) : c[2] = h /\ Groups[c[1]] = g
  BY ClaimedIs
<1> DEFINE k == Key(r, cs, c)
           t == TunnelFor(r, cs, Claimed(cl), k)
<1>2. t \in DerivedTunnels(r, cs, cl)
  BY DEF DerivedTunnels
<1>3. t.cluster = k[1] /\ t.account = k[2] /\ k = <<cs[g], AccountOf(r, h)>>
  BY <1>1 DEF TunnelFor, Key
<1>4. c \in Mine(r, cs, cl, t)
  BY <1>3 DEF Mine, TunnelKey
<1> HIDE DEF t
<1>5. h \in ToSet(t.hosts)
  <2>1. ToSet(t.hosts) = {d[2] : d \in Mine(r, cs, cl, t)}
    BY <1>2, TunnelIs, OrderHostsIs
  <2> QED BY <1>1, <1>4, <2>1
<1> QED BY <1>2, <1>3, <1>5

LEMMA TunnelByKey ==
  ASSUME NEW r, NEW cs, NEW cl \in Catalogs,
         NEW t \in DerivedTunnels(r, cs, cl), NEW u \in DerivedTunnels(r, cs, cl),
         TunnelKey(t) = TunnelKey(u)
  PROVE  t = u
BY TunnelIs

-----------------------------------------------------------------------------
(* What Load accepts. *)

Passes(r, cs, cl) ==
  /\ LoadConfig(r, cs, cl).tunnels = DerivedTunnels(r, cs, cl)
  /\ LoadConfig(r, cs, cl).waf = [z \in r.waf |-> WafHosts(r, cl, z)]
  /\ ~Unplaced(r, cl) /\ ~ProxiedWildcard(r, cl)
  /\ \A t \in DerivedTunnels(r, cs, cl) : ~Inconsistent(r, t)
  /\ ~MovedUnserved(r, DerivedTunnels(r, cs, cl))
  /\ ~RecordTaken(r, DerivedTunnels(r, cs, cl))
  /\ ~DeclaredTwice(DerivedTunnels(r, cs, cl))
  /\ ~Shadowed(DerivedTunnels(r, cs, cl))

LEMMA AcceptedIs ==
  ASSUME NEW r, NEW cs, NEW cl, LoadConfig(r, cs, cl).why = "none"
  PROVE  Passes(r, cs, cl)
<1> DEFINE ts == DerivedTunnels(r, cs, cl)  why == WhyRefused(r, cl, ts)
<1>1. why = "none"
  BY DEF LoadConfig, Refused
<1>2. LoadConfig(r, cs, cl) = [why |-> why, tunnels |-> ts,
            waf   |-> [z \in r.waf |-> WafHosts(r, cl, z)],
            cache |-> [z \in r.cache |-> CacheHosts(r, cl, z)]]
  BY <1>1 DEF LoadConfig
<1>3. /\ ~Unplaced(r, cl) /\ ~ProxiedWildcard(r, cl)
      /\ \A t \in ts : ~Inconsistent(r, t)
      /\ ~MovedUnserved(r, ts) /\ ~RecordTaken(r, ts)
      /\ ~DeclaredTwice(ts) /\ ~Shadowed(ts)
  <2> HIDE DEF ts
  <2> QED BY <1>1 DEF WhyRefused
<1> HIDE DEF ts
<1> QED BY <1>1, <1>2, <1>3 DEF Passes, ts

LEMMA RefusedHasNothing ==
  ASSUME NEW r, NEW cs, NEW cl, LoadConfig(r, cs, cl).why # "none"
  PROVE  LoadConfig(r, cs, cl).tunnels = {}
BY DEF LoadConfig, Refused

(* A host that is not unplaced lies in a managed zone.                     *)
LEMMA Placed ==
  ASSUME NEW r, ZonesNamed(r), NEW cl \in Catalogs, ~Unplaced(r, cl),
         NEW g \in GroupSet, NEW h \in cl[g]
  PROVE  LET z == ZoneOf(Managed(r), h)
         IN  /\ h \in Host /\ z \in Managed(r) /\ z # NoZone /\ InZone(h, z)
             /\ \A y \in Managed(r) : InZone(h, y) => IsPrefix(y, z)
             /\ r.owner[z] \in Listed[g] /\ AccountOf(r, h) = r.owner[z]
<1> DEFINE z == ZoneOf(Managed(r), h)
<1>1. h \in Host
  BY ClaimedIs, CatalogAssumption
<1>2. Managed(r) \in SUBSET (Name \ {NoZone}) /\ Managed(r) \in SUBSET Name
  BY DEF ZonesNamed, Managed
<1>3. z # NoZone /\ r.owner[z] \in Listed[g] /\ AccountOf(r, h) = r.owner[z]
  BY DEF Unplaced, AccountOf
<1>4. PICK y \in Managed(r) : InZone(h, y)
  BY <1>1, <1>2, <1>3, NoZoneIs
<1> QED BY <1>1, <1>2, <1>3, <1>4, ZoneOfIs

(* Where the hosts of an accepted tunnel lie, and where their records go.  *)
LEMMA AcceptedTunnel ==
  ASSUME NEW r, ZonesNamed(r), NEW cs, NEW cl \in Catalogs, LoadConfig(r, cs, cl).why = "none",
         NEW t \in LoadConfig(r, cs, cl).tunnels
  PROVE  /\ t \in DerivedTunnels(r, cs, cl)
         /\ t.zones \subseteq Managed(r)
         /\ \A z \in t.zones : z \in Name /\ z # NoZone /\ r.owner[z] = t.account
         /\ \A h \in ToSet(t.hosts) :
              /\ h \in Host /\ h \in HostSet
              /\ ZoneOf(Managed(r), h) \in t.zones
              /\ InZone(h, ZoneOf(Managed(r), h))
              /\ ZoneOf(t.zones, h) = ZoneOf(Managed(r), h)
              /\ RecordZone(t, h) = ZoneOf(Managed(r), h)
         /\ DNSNames(t) \subseteq ToSet(t.hosts)
<1>1. /\ t \in DerivedTunnels(r, cs, cl) /\ ~Unplaced(r, cl) /\ ~Inconsistent(r, t)
  <2>1. Passes(r, cs, cl)
    BY AcceptedIs, Zenon
  <2> QED BY <2>1 DEF Passes
<1>2. Managed(r) \in SUBSET (Name \ {NoZone})
  BY DEF ZonesNamed, Managed
<1>3. \A h \in ToSet(t.hosts) : \E g \in GroupSet : h \in cl[g]
  BY <1>1, RulesOf, SMTT(30)
<1>4. t.zones = {ZoneOf(Managed(r), h) : h \in ToSet(t.hosts)}
  BY <1>1, TunnelIs
<1>5. ASSUME NEW h \in ToSet(t.hosts)
      PROVE  /\ h \in Host /\ h \in HostSet /\ ZoneOf(Managed(r), h) \in Managed(r)
             /\ InZone(h, ZoneOf(Managed(r), h)) /\ ZoneOf(Managed(r), h) \in t.zones
  BY <1>1, <1>3, <1>4, Placed, RulesOf
<1>6. t.zones \in SUBSET Managed(r)
  BY <1>4, <1>5
<1>7. \A z \in t.zones : r.owner[z] = t.account
  BY <1>1 DEF Inconsistent
<1>8. ASSUME NEW h \in ToSet(t.hosts)
      PROVE  ZoneOf(t.zones, h) = ZoneOf(Managed(r), h) /\ RecordZone(t, h) = ZoneOf(Managed(r), h)
  <2>1. ZoneOf(t.zones, h) = ZoneOf(Managed(r), h)
    BY <1>2, <1>5, <1>6, ZoneOfAmong
  <2>2. RecordZone(t, h) = ZoneOf(Managed(r), h)
    BY <1>5, <2>1 DEF RecordZone
  <2> QED BY <2>1, <2>2
<1> QED BY <1>1, <1>2, <1>5, <1>6, <1>7, <1>8 DEF DNSNames

(* The first rule that matches.                                            *)
LEMMA FirstMatch ==
  ASSUME NEW r, NEW cs, NEW cl \in Catalogs, NEW t \in DerivedTunnels(r, cs, cl), NEW n,
         NEW i \in DOMAIN t.hosts, Matches(t.hosts[i], n)
  PROVE  LET f == Min({j \in DOMAIN t.hosts : Matches(t.hosts[j], n)})
         IN  /\ f \in DOMAIN t.hosts /\ Matches(t.hosts[f], n) /\ f <= i
             /\ f # i => ~OrderedBefore(t.hosts[i], t.hosts[f])
             /\ t.hosts[f] \in ToSet(t.hosts) /\ t.hosts[f] \in Host
<1> DEFINE M == {j \in DOMAIN t.hosts : Matches(t.hosts[j], n)}  f == Min(M)
<1>1. PICK m \in Nat : DOMAIN t.hosts = 1 .. m
  BY RulesOf
<1>2. M \in SUBSET Nat /\ i \in M
  BY <1>1
<1>3. \E x \in M : \A y \in M : x <= y
  BY <1>2, LeastOne
<1>4. f \in M /\ \A y \in M : f <= y
  BY <1>3 DEF Min
<1> HIDE DEF f
<1>5. f \in DOMAIN t.hosts /\ Matches(t.hosts[f], n) /\ f <= i /\ f \in Nat /\ i \in Nat
  BY <1>2, <1>4
<1> HIDE DEF M
<1>6. f # i => f < i
  BY <1>5
<1>7. f # i => ~OrderedBefore(t.hosts[i], t.hosts[f])
  BY <1>5, <1>6, RulesOf
<1>8. t.hosts[f] \in ToSet(t.hosts) /\ t.hosts[f] \in Host
  BY <1>5, RulesOf
<1> QED BY <1>5, <1>7, <1>8 DEF f, M

(* The rule that answers is the most specific of its tunnel.               *)
LEMMA MostSpecificHere ==
  ASSUME claims \in Catalogs PROVE MostSpecificRule
<1> SUFFICES ASSUME NEW t \in DerivedTunnels(registry, cluster, claims), NEW n \in Names,
                    NEW i \in {j \in DOMAIN t.hosts : Matches(t.hosts[j], n)}
             PROVE  LET first == t.hosts[Min({j \in DOMAIN t.hosts : Matches(t.hosts[j], n)})]
                    IN  IF t.hosts[i].wild
                        THEN first.wild => Len(t.hosts[i].name) <= Len(first.name)
                        ELSE first = t.hosts[i]
  BY DEF MostSpecificRule
<1> DEFINE f == Min({j \in DOMAIN t.hosts : Matches(t.hosts[j], n)})
           h == t.hosts[i]  g == t.hosts[f]
<1>1. /\ Matches(g, n) /\ Matches(h, n) /\ (f # i => ~OrderedBefore(h, g)) /\ g \in Host
  BY FirstMatch, SMTT(30)
<1>2. h \in Host
  BY RulesOf
<1>3. f = i => h = g
  OBVIOUS
<1> HIDE DEF f, h, g
<1>4. /\ Len(h.name) \in Nat /\ Len(g.name) \in Nat /\ h.wild \in BOOLEAN /\ g.wild \in BOOLEAN
      /\ h = [wild |-> h.wild, name |-> h.name] /\ g = [wild |-> g.wild, name |-> g.name]
  BY <1>1, <1>2, LabelsType
<1>5. CASE h.wild
  <2>1. ASSUME g.wild, ~(Len(h.name) <= Len(g.name)) PROVE FALSE
    <3>1. LabelCount(h) = Len(h.name) + 1 /\ LabelCount(g) = Len(g.name) + 1
      BY <1>5, <2>1 DEF LabelCount
    <3>2. LabelCount(h) > LabelCount(g) /\ LabelCount(h) # LabelCount(g) /\ h # g
      BY <1>4, <2>1, <3>1
    <3>3. OrderedBefore(h, g)
      BY <1>5, <2>1, <3>2 DEF OrderedBefore
    <3> QED BY <1>1, <1>3, <3>2, <3>3
  <2> QED BY <1>5, <2>1 DEF f, h, g
<1>6. CASE ~h.wild
  <2>1. ~g.wild
    <3> SUFFICES ASSUME g.wild PROVE FALSE
      BY <1>4
    <3>1. OrderedBefore(h, g) /\ h # g
      BY <1>6 DEF OrderedBefore
    <3> QED BY <1>1, <1>3, <3>1
  <2>2. g = h
    BY <1>1, <1>4, <1>6, <2>1 DEF Matches
  <2> QED BY <1>6, <2>2 DEF f, h, g
<1> QED BY <1>4, <1>5, <1>6

(* A host of an accepted catalog is served by exactly one tunnel.          *)
LEMMA RightTunnelHere ==
  ASSUME claims \in Catalogs, ZonesNamed(registry), config = LoadConfig(registry, cluster, claims)
  PROVE  RightTunnel
<1> SUFFICES ASSUME config.why = "none", NEW g \in GroupSet, NEW h \in claims[g]
             PROVE  \E t \in config.tunnels, z \in Managed(registry) :
                      /\ h \in ToSet(t.hosts) /\ t.cluster = cluster[g]
                      /\ InZone(h, z)
                      /\ \A y \in Managed(registry) : InZone(h, y) => IsPrefix(y, z)
                      /\ t.account = registry.owner[z] /\ t.account \in Listed[g]
                      /\ h \in DNSNames(t) => RecordZone(t, h) = z
                      /\ \A u \in config.tunnels \ {t} : h \notin ToSet(u.hosts)
  BY DEF RightTunnel, Accepted
<1> DEFINE z == ZoneOf(Managed(registry), h)
           ts == DerivedTunnels(registry, cluster, claims)
<1>1. config.tunnels = ts /\ ~Unplaced(registry, claims) /\ ~DeclaredTwice(ts)
  <2>1. Passes(registry, cluster, claims)
    BY AcceptedIs, Zenon
  <2> QED BY <2>1 DEF Passes
<1>2. PICK t \in ts : h \in ToSet(t.hosts) /\ t.cluster = cluster[g] /\ t.account = AccountOf(registry, h)
  BY EveryClaimServed
<1>3. /\ z \in Managed(registry) /\ InZone(h, z)
      /\ \A y \in Managed(registry) : InZone(h, y) => IsPrefix(y, z)
      /\ registry.owner[z] \in Listed[g] /\ AccountOf(registry, h) = registry.owner[z]
  BY <1>1, Placed
<1>4. RecordZone(t, h) = z
  BY <1>1, <1>2, AcceptedTunnel
<1>5. ASSUME NEW u \in ts, u # t, h \in ToSet(u.hosts) PROVE FALSE
  <2>1. PICK i \in DOMAIN t.hosts : t.hosts[i] = h
    BY <1>2 DEF ToSet
  <2>2. PICK j \in DOMAIN u.hosts : u.hosts[j] = h
    BY <1>5 DEF ToSet
  <2>3. <<t, i>> # <<u, j>>
    BY <1>5
  <2> HIDE DEF ts
  <2> QED BY <1>1, <2>1, <2>2, <2>3 DEF DeclaredTwice
<1> HIDE DEF z, ts
<1> QED BY <1>1, <1>2, <1>3, <1>4, <1>5

(* What a tunnel answers in a zone with the managed WAF the WAF covers.    *)
LEMMA WafCoversHere ==
  ASSUME claims \in Catalogs, ZonesNamed(registry), config = LoadConfig(registry, cluster, claims)
  PROVE  WafCoversWhatIsServed
<1> SUFFICES ASSUME NEW t \in config.tunnels, NEW n \in Names,
                    NEW i \in DOMAIN t.hosts, Matches(t.hosts[i], n),
                    NEW zone \in registry.waf,
                    zone = ZoneOf(Managed(registry), [wild |-> FALSE, name |-> n]),
                    zone = ZoneOf(t.zones, t.hosts[Min({j \in DOMAIN t.hosts : Matches(t.hosts[j], n)})])
             PROVE  \/ [wild |-> FALSE, name |-> n] \in config.waf[zone]
                    \/ t.hosts[Min({j \in DOMAIN t.hosts : Matches(t.hosts[j], n)})] \in registry.wafOff
  BY DEF WafCoversWhatIsServed
<1> DEFINE rule == t.hosts[Min({j \in DOMAIN t.hosts : Matches(t.hosts[j], n)})]
           ts == DerivedTunnels(registry, cluster, claims)
<1>1. LoadConfig(registry, cluster, claims).why = "none"
  <2>1. LoadConfig(registry, cluster, claims).tunnels # {}
    OBVIOUS
  <2> QED BY <2>1, RefusedHasNothing, Zenon
<1>2. /\ t \in ts /\ ~ProxiedWildcard(registry, claims)
      /\ config.waf[zone] = WafHosts(registry, claims, zone)
  <2>1. Passes(registry, cluster, claims)
    BY <1>1, AcceptedIs, Zenon
  <2> QED BY <2>1 DEF Passes
<1>3. rule \in ToSet(t.hosts) /\ rule \in Host /\ Matches(rule, n)
  BY <1>2, FirstMatch
<1> HIDE DEF rule
<1>4. ZoneOf(Managed(registry), rule) = zone
  <2>1. t \in LoadConfig(registry, cluster, claims).tunnels
    OBVIOUS
  <2>2. zone = ZoneOf(t.zones, rule)
    BY DEF rule
  <2>3. ZoneOf(t.zones, rule) = ZoneOf(Managed(registry), rule)
    BY <1>1, <1>3, <2>1, AcceptedTunnel
  <2> QED BY <2>2, <2>3
<1>5. rule \in UNION {claims[g] : g \in GroupSet}
  <2>1. \E g \in GroupSet : rule \in claims[g]
    BY <1>2, <1>3, RulesOf
  <2> QED BY <2>1
<1>6. rule \in registry.wafOff \/ rule \in WafHosts(registry, claims, zone)
  BY <1>4, <1>5 DEF WafHosts
<1>7. rule \in registry.wafOff \/ ~rule.wild
  BY <1>2, <1>6 DEF ProxiedWildcard
<1>8. ~rule.wild => rule = [wild |-> FALSE, name |-> n]
  BY <1>3 DEF Matches, Host
<1> QED BY <1>2, <1>6, <1>7, <1>8 DEF rule

-----------------------------------------------------------------------------
(* The inductive invariant. *)

(* The configuration in use is what Load returns for registry and catalog. *)
Derived ==
  /\ registry \in Registries \cup Deployed
  /\ claims \in Catalogs
  /\ config = LoadConfig(registry, cluster, claims)

(* Prototypes were written from a registry whose presets could be built.   *)
ProtoInv ==
  /\ DOMAIN prototypes = DOMAIN CompanyOf
  /\ \A a \in DOMAIN CompanyOf : prototypes[a] # NoRegistry =>
       prototypes[a] \in Deployed /\ Presets[prototypes[a]][a] # {}

Known(z) == \E r \in Deployed : z \in Zones(r)

(* Whose a resource is: no two stacks ever have the same one.              *)
Belongs(s, x) ==
  \/ /\ x.kind \in {"settings", "waf", "aop", "bots", "limits", "record"} /\ x.key = NoKey
     /\ Known(x.zone) /\ s = <<"zone", CompanyOf[AccountOfZone(x.zone)]>>
  \/ /\ x.kind \in {"tunnel", "ingress", "cname"} /\ x.key # NoKey
     /\ s = <<"services", CompanyOf[x.key[2]]>>
     /\ x.kind = "cname" => Known(x.zone) /\ AccountOfZone(x.zone) = x.key[2]

IsFcn(f) == f = [x \in DOMAIN f |-> f[x]]

IsUpdate(u) ==
  u = [on |-> u.on, why |-> u.why, want |-> u.want, grants |-> u.grants, todo |-> u.todo,
       cover |-> u.cover, names |-> u.names, refused |-> u.refused, head |-> u.head,
       fresh |-> u.fresh, excused |-> u.excused]

StackInv ==
  /\ IsFcn(stack) /\ DOMAIN stack = Stacks
  /\ \A s \in Stacks : IsFcn(stack[s]) /\ \A x \in DOMAIN stack[s] : Belongs(s, x)

IsRecord(x) == x.kind \in {"record", "cname"}
SameName(x, y) == x.zone = y.zone /\ x.host = y.host

(* An update under way: what it wants is its stack's own, what it no       *)
(* longer has to write is written, it knows every record its configuration *)
(* declares, one per name, and with fresh tokens it lacks nothing but what *)
(* Load leaves to the apply.                                               *)
Underway(s) ==
  /\ IsFcn(up[s].want) /\ \A x \in DOMAIN up[s].want : Belongs(s, x)
  /\ up[s].todo \subseteq DOMAIN up[s].want
  /\ \A x \in DOMAIN up[s].want \ up[s].todo :
       x \in DOMAIN stack[s] /\ stack[s][x] = up[s].want[x]
  /\ \A x, y \in up[s].names : SameName(x, y) => x = y
  /\ \A x \in DOMAIN up[s].want : IsRecord(x) => x \in up[s].names
  /\ up[s].fresh => /\ up[s].refused => up[s].excused
                    /\ \A x \in DOMAIN up[s].want : Granted(s, x)
  /\ up[s].head => Deploying /\ Accepted
  /\ up[s].head /\ ~up[s].refused => up[s].want = Declares(s, registry, config)

Ending(s) ==
  /\ up[s].why = "denied" => ~up[s].fresh
  /\ up[s].why = "refused" /\ up[s].fresh => up[s].excused
  /\ up[s].why = "clash" => up[s].excused

UpInv ==
  /\ IsFcn(up) /\ DOMAIN up = Stacks
  /\ \A s \in Stacks : /\ IsUpdate(up[s]) /\ Ending(s)
                       /\ up[s].on => Underway(s)

(* A current stack is what the configuration declares.                     *)
CurrentInv ==
  \A s \in current : /\ s \in Stacks /\ ~up[s].on /\ Deploying /\ Accepted
                     /\ stack[s] = Declares(s, registry, config)

(* What protects a record that an update of the services stack will write. *)
Protected(c, x) ==
  LET zone == <<"zone", c>>  services == <<"services", c>>
      waf  == Resource("waf", NoKey, x.zone, NoHost)
      aop  == Resource("aop", NoKey, x.zone, NoHost)
  IN  /\ <<x.zone, x.host>> \in up[services].cover =>
           waf \in DOMAIN stack[zone] /\ x.host \in stack[zone][waf]
      /\ up[services].want[x] = "origin" => aop \in DOMAIN stack[zone]

OrderedInv ==
  \A c \in ordered \cap Companies : up[<<"services", c>>].on =>
    /\ ~up[<<"zone", c>>].on
    /\ \A x \in DOMAIN up[<<"services", c>>].want : x.kind = "cname" => Protected(c, x)

RunInv    == StackInv /\ UpInv /\ CurrentInv /\ OrderedInv
EstateInv == Derived /\ ProtoInv /\ RunInv

-----------------------------------------------------------------------------
(* What every step keeps: registry, catalog and prototypes. *)

LEMMA RegistryNamed ==
  ASSUME registry \in Registries \cup Deployed PROVE ZonesNamed(registry)
BY RegistriesAssumption, EstateAssumption

LEMMA DerivedInit ==
  ASSUME SInit PROVE Derived
<1>1. registry \in Registries /\ config = LoadConfig(registry, cluster, claims)
  BY DEF SInit
<1>2. claims \in Catalogs
  <2>1. CASE Deploying
    <3>1. \E st \in Starts : claims = st[1]
      BY <2>1 DEF SInit
    <3> QED BY <3>1, EstateAssumption DEF Catalogs
  <2>2. CASE ~Deploying
    <3>1. claims = [g \in GroupSet |-> {}]
      BY <2>2 DEF SInit
    <3> QED BY <3>1 DEF Catalogs
  <2> QED BY <2>1, <2>2
<1> QED BY <1>1, <1>2 DEF Derived

(* The steps that leave registry and catalog alone.                        *)
LEMMA Steps ==
  ASSUME [SNext]_<<vars, svars>>
  PROVE  \/ EditCatalog
         \/ EditRegistry
         \/ \E a \in DOMAIN CompanyOf : DeployPrototypes(a)
         \/ \E s \in Stacks : Deploy(s)
         \/ \E s \in Stacks : Finish(s)
         \/ \E s \in Stacks : Stop(s)
         \/ \E s \in Stacks : \E x \in up[s].todo : Write(s, x)
         \/ \E s \in Stacks : \E x \in up[s].todo : Denied(s, x)
         \/ \E s \in Stacks : \E x \in up[s].todo : Clash(s, x)
         \/ \E s \in Stacks : \E x \in DOMAIN stack[s] : Delete(s, x)
         \/ UNCHANGED <<vars, svars>>
BY DEF SNext, Update

LEMMA Edits ==
  ASSUME Derived, EditCatalog \/ EditRegistry PROVE Derived'
<1>1. CASE EditCatalog
  <2>1. PICK g \in GroupSet, h \in HostSet : AddHost(g, h) \/ RemoveHost(g, h)
    BY <1>1, EstateAssumption DEF EditCatalog
  <2>2. claims' \in Catalogs
    BY <2>1 DEF AddHost, RemoveHost, Load, Derived, Catalogs
  <2>3. UNCHANGED <<registry, cluster>> /\ config' = LoadConfig(registry, cluster, claims')
    BY <2>1 DEF AddHost, RemoveHost, Load
  <2> QED BY <2>2, <2>3 DEF Derived
<1>2. CASE EditRegistry
  BY <1>2 DEF EditRegistry, Derived
<1> QED BY <1>1, <1>2

LEMMA DerivedNext ==
  ASSUME Derived, [SNext]_<<vars, svars>> PROVE Derived'
<1>1. \/ EditCatalog \/ EditRegistry \/ UNCHANGED vars
  BY Steps DEF DeployPrototypes, Deploy, Finish, Stop, Write, Denied, Clash, Delete, vars
<1>2. CASE UNCHANGED vars
  BY <1>2 DEF vars, Derived
<1> QED BY <1>1, <1>2, Edits

LEMMA DerivedAlways == SSpec => []Derived
<1>1. SInit => Derived
  BY DerivedInit
<1>2. Derived /\ [SNext]_<<vars, svars>> => Derived'
  BY DerivedNext
<1> QED BY <1>1, <1>2, PTL DEF SSpec

(* Whatever the catalog lists, and whatever the registry, the first rule   *)
(* of a tunnel that matches a request is the most specific one: the order  *)
(* of edgespec.OrderHosts, which Derive gives the ingress of every tunnel. *)
THEOREM MostSpecificRuleHolds == SSpec => []MostSpecificRule
<1>1. Derived => MostSpecificRule
  BY MostSpecificHere DEF Derived
<1> QED BY <1>1, DerivedAlways, PTL

(* Load accepts a catalog only when each host it lists is a rule of exactly *)
(* one tunnel: of its group's cluster, of the account of the closest managed *)
(* zone around it, which its record goes to (edgespec.Derive, config.Load). *)
(* Zones kept for their security.txt are not managed: a host in one goes to *)
(* the managed zone that encloses it, if there is one.                      *)
THEOREM RightTunnelHolds == SSpec => []RightTunnel
<1>1. Derived => RightTunnel
  BY RightTunnelHere, RegistryNamed DEF Derived
<1> QED BY <1>1, DerivedAlways, PTL

(* What a tunnel answers in a zone with the managed WAF is covered by it    *)
(* unless its rule opted out (config.deriveWAF and the refused wildcards).  *)
THEOREM WafCoversHolds == SSpec => []WafCoversWhatIsServed
<1>1. Derived => WafCoversWhatIsServed
  BY WafCoversHere, RegistryNamed DEF Derived
<1> QED BY <1>1, DerivedAlways, PTL

-----------------------------------------------------------------------------
(* What presets grant. *)

LEMMA OnZonesIs ==
  ASSUME NEW G, NEW Z, NEW g
  PROVE  /\ g \in OnZones(G, Z) => g[1] \in G /\ g[2][1] = "zone" /\ g[2][2] \in Z
         /\ \A n \in G, z \in Z : <<n, <<"zone", z>>>> \in OnZones(G, Z)
BY DEF OnZones

LEMMA OnAccountIs ==
  ASSUME NEW G, NEW a, NEW g
  PROVE  /\ g \in OnAccount(G, a) => g[2][1] = "account"
         /\ \A n \in G : <<n, <<"account", a>>>> \in OnAccount(G, a)
BY DEF OnAccount

LEMMA OnBucketIs ==
  ASSUME NEW G, NEW a, NEW b, NEW g \in OnBucket(G, a, b) PROVE g[2][1] = "bucket"
BY DEF OnBucket

(* A row that validates grants on its account's zones only.                *)
LEMMA GrantsInside ==
  ASSUME NEW r, NEW row, validateRow(r, row), NEW g \in Grants(r, row), g[2][1] = "zone"
  PROVE  /\ r.owner[g[2][2]] = row.account
         /\ g[2][2] \in r.held =>
              row.kind \in {"insights", "insights-admin"} \/ g[1] = "Zone Settings Write"
<1> DEFINE zones == Covered(r, row)  managed == zones \ r.held
<1>1. row.kind \in Kinds
  BY DEF validateRow
<1>2. row.kind \in ZonedKinds => \A z \in zones : r.owner[z] = row.account
  BY DEF validateRow, validateZones, Covered, zonesOf
<1>3. \A z \in row.waf \cup row.bots \cup row.connector \cup row.dnsOnly :
        z \notin r.held /\ r.owner[z] = row.account
  BY DEF validateRow, validateLists, zonesOf
<1> HIDE DEF zones
<1>4. CASE row.kind = "zone"
  <2>1. g \in ZonePolicies(managed)
               \cup OnZones({"Zone WAF Write"}, row.waf)
               \cup OnZones({"Bot Management Write"}, row.bots)
               \cup OnZones({"Cloud Connector Write"}, row.connector)
               \cup OnZones({"DNS Write"}, row.dnsOnly)
               \cup OnZones({"Zone Settings Write"}, zones \cap r.held)
    BY <1>4 DEF Grants, zones
  <2>2. \/ g[2][2] \in managed
        \/ g[2][2] \in row.waf \cup row.bots \cup row.connector \cup row.dnsOnly
        \/ g[2][2] \in zones /\ g[1] = "Zone Settings Write"
    <3>1. \/ \E G : g \in OnZones(G, managed) \/ g \in OnZones(G, row.waf)
               \/ g \in OnZones(G, row.bots) \/ g \in OnZones(G, row.connector)
               \/ g \in OnZones(G, row.dnsOnly)
          \/ g \in OnZones({"Zone Settings Write"}, zones \cap r.held)
      BY <2>1, Zenon DEF ZonePolicies
    <3>2. ASSUME NEW G, NEW Z, g \in OnZones(G, Z) PROVE g[1] \in G /\ g[2][2] \in Z
      BY <3>2, OnZonesIs
    <3>3. CASE g \in OnZones({"Zone Settings Write"}, zones \cap r.held)
      <4>1. g[1] \in {"Zone Settings Write"} /\ g[2][2] \in zones \cap r.held
        BY <3>2, <3>3, Zenon
      <4> QED BY <4>1
    <3>4. CASE \E G : g \in OnZones(G, managed) \/ g \in OnZones(G, row.waf)
               \/ g \in OnZones(G, row.bots) \/ g \in OnZones(G, row.connector)
               \/ g \in OnZones(G, row.dnsOnly)
      BY <3>2, <3>4
    <3> QED BY <3>1, <3>3, <3>4
  <2> QED BY <1>2, <1>3, <1>4, <2>2 DEF ZonedKinds
<1>5. CASE row.kind \in DNSKinds
  <2>1. g \in StatusPolicies(row.account, managed) \/ g \in OnZones({"DNS Write"}, managed)
    BY <1>5 DEF Grants, zones, DNSKinds
  <2>2. g[2][2] \in managed
    BY <2>1, OnZonesIs, OnAccountIs DEF StatusPolicies
  <2> QED BY <1>2, <1>5, <2>2 DEF ZonedKinds
<1>6. CASE row.kind \in {"insights", "insights-admin"}
  <2>1. \/ \E G : g \in OnAccount(G, row.account)
        \/ \E G : g \in OnZones(G, zones)
    BY <1>6 DEF Grants, zones
  <2>2. g[2][2] \in zones
    BY <2>1, OnZonesIs, OnAccountIs
  <2> QED BY <1>2, <1>6, <2>2 DEF ZonedKinds
<1>7. CASE row.kind \in BucketKinds \cup {"r2-admin"}
  <2>1. \/ \E G : g \in OnAccount(G, row.account)
        \/ \E G : g \in OnBucket(G, row.account, row.bucket)
    BY <1>7 DEF Grants, BucketKinds
  <2> QED BY <2>1, OnAccountIs, OnBucketIs
<1> QED BY <1>1, <1>4, <1>5, <1>6, <1>7 DEF Kinds, ZonedKinds

(* What ForAccount returns, when it is not refused.                        *)
LEMMA PresetIs ==
  ASSUME NEW r \in Deployed, NEW a \in DOMAIN CompanyOf, Presets[r][a] # {}
  PROVE  /\ ~PendingZone(r, a)
         /\ \A p \in Presets[r][a] : \E row \in EstateRows(r, a) :
              /\ p = [name |-> PresetName(row), grants |-> Grants(r, row)]
              /\ row.account = a /\ validateRow(r, row)
         /\ \A row \in EstateRows(r, a) : row.account = a =>
              /\ [name |-> PresetName(row), grants |-> Grants(r, row)] \in Presets[r][a]
              /\ validateRow(r, row)
<1> DEFINE mine == {row \in EstateRows(r, a) : row.account = a}
<1>1. Presets[r][a] = ForAccount(r, EstateRows(r, a), a)
  BY DEF Presets
<1> HIDE DEF Presets
<1>2. ~PendingZone(r, a) /\ Validate(r, mine)
  BY <1>1 DEF ForAccount
<1>3. Presets[r][a] = {[name |-> PresetName(row), grants |-> Grants(r, row)] : row \in mine}
  BY <1>1 DEF ForAccount
<1>4. \A row \in mine : validateRow(r, row)
  BY <1>2 DEF Validate
<1> QED BY <1>2, <1>3, <1>4

LEMMA ProtoInit ==
  ASSUME SInit PROVE ProtoInv
<1>1. PICK old \in IF Deploying /\ Accepted
                 THEN {o \in Founded :
                         /\ \A a \in DOMAIN CompanyOf : CompanyOf[a] \in o => Presets[registry][a] # {}
                         /\ \A s \in Stacks : s[2] \in o => ~CutShort(s, registry, config)}
                 ELSE {{}} :
        prototypes = [a \in DOMAIN CompanyOf |-> IF CompanyOf[a] \in old THEN registry ELSE NoRegistry]
  BY DEF SInit
<1> QED BY <1>1 DEF ProtoInv, Deploying

LEMMA ProtoNext ==
  ASSUME ProtoInv, [SNext]_<<vars, svars>> PROVE ProtoInv'
<1>1. \/ \E a \in DOMAIN CompanyOf : DeployPrototypes(a)
      \/ UNCHANGED prototypes
  BY Steps DEF EditCatalog, EditRegistry, Edited, Deploy, Finish, Stop, Write, Denied,
               Clash, Delete, svars
<1>2. ASSUME NEW a \in DOMAIN CompanyOf, DeployPrototypes(a) PROVE ProtoInv'
  BY <1>2 DEF DeployPrototypes, Deploying, ProtoInv
<1>3. CASE UNCHANGED prototypes
  BY <1>3 DEF ProtoInv
<1> QED BY <1>1, <1>2, <1>3

(* Whatever the registries and however they were edited, the presets of an *)
(* account reach no zone of another one, and a zone managed for its        *)
(* security.txt only by no writing grant but that of its settings          *)
(* (presets.validateZones, validateLists and build).                       *)
THEOREM PresetsStayInsideHolds == SSpec => []PresetsStayInside
<1>1. SInit => ProtoInv
  BY ProtoInit
<1>2. ProtoInv /\ [SNext]_<<vars, svars>> => ProtoInv'
  BY ProtoNext
<1>3. ProtoInv => PresetsStayInside
  <2> SUFFICES ASSUME ProtoInv, NEW a \in DOMAIN CompanyOf, prototypes[a] # NoRegistry,
                      NEW p \in Presets[prototypes[a]][a],
                      NEW g \in p.grants, g[2][1] = "zone"
               PROVE  /\ prototypes[a].owner[g[2][2]] = a
                      /\ g[2][2] \in prototypes[a].held =>
                           p.name[2] \in {"insights", "insights-admin"} \/ g[1] = "Zone Settings Write"
    BY DEF PresetsStayInside, ProtoInv
  <2>1. prototypes[a] \in Deployed /\ Presets[prototypes[a]][a] # {}
    BY DEF ProtoInv
  <2>2. PICK row : /\ p = [name |-> PresetName(row), grants |-> Grants(prototypes[a], row)]
                   /\ row.account = a /\ validateRow(prototypes[a], row)
    BY <2>1, PresetIs
  <2>3. p.name[2] = row.kind /\ p.grants = Grants(prototypes[a], row)
    BY <2>2 DEF PresetName
  <2>4. /\ prototypes[a].owner[g[2][2]] = row.account
        /\ g[2][2] \in prototypes[a].held =>
             row.kind \in {"insights", "insights-admin"} \/ g[1] = "Zone Settings Write"
    <3>1. validateRow(prototypes[a], row) /\ g \in Grants(prototypes[a], row) /\ g[2][1] = "zone"
      BY <2>2, <2>3
    <3> QED BY ONLY <3>1, GrantsInside, ZenonT(40)
  <2>5. row.account = a
    BY <2>2
  <2> QED BY ONLY <2>3, <2>4, <2>5, ZenonT(40)
<1> QED BY <1>1, <1>2, <1>3, PTL DEF SSpec

-----------------------------------------------------------------------------
(* Whose the resources of a configuration are. *)

LEMMA ResourceIs ==
  ASSUME NEW k, NEW y, NEW z, NEW h
  PROVE  /\ Resource(k, y, z, h).kind = k /\ Resource(k, y, z, h).key = y
         /\ Resource(k, y, z, h).zone = z /\ Resource(k, y, z, h).host = h
BY DEF Resource

LEMMA AccountOfZoneIs ==
  ASSUME NEW r \in Deployed, NEW z \in Zones(r)
  PROVE  /\ AccountOfZone(z) = r.owner[z] /\ r.owner[z] \in DOMAIN CompanyOf
         /\ CompanyOf[r.owner[z]] \in Companies /\ Known(z)
<1>1. r.owner[z] \in DOMAIN CompanyOf
  BY EstateAssumption
<1>2. \A a \in DOMAIN CompanyOf : (\E q \in Deployed : z \in Zones(q) /\ q.owner[z] = a) <=> a = r.owner[z]
  BY <1>1, EstateAssumption
<1>3. AccountOfZone(z) = r.owner[z]
  BY <1>1, <1>2 DEF AccountOfZone
<1> QED BY <1>1, <1>3 DEF Companies, Range, Known

LEMMA MergeIs ==
  ASSUME NEW fs
  PROVE  /\ IsFcn(Merge(fs)) /\ \A x : x \in DOMAIN Merge(fs) <=> \E f \in fs : x \in DOMAIN f
         /\ \A x \in DOMAIN Merge(fs) : \E f \in fs : x \in DOMAIN f /\ Merge(fs)[x] = f[x]
<1> DEFINE S == UNION {DOMAIN f : f \in fs}  v(x) == (CHOOSE f \in fs : x \in DOMAIN f)[x]
<1>1. Merge(fs) = [x \in S |-> v(x)]
  BY DEF Merge
<1>2. \A x : x \in S <=> \E f \in fs : x \in DOMAIN f
  OBVIOUS
<1>3. \A x \in S : \E f \in fs : x \in DOMAIN f /\ v(x) = f[x]
  BY <1>2
<1> HIDE DEF S, v
<1> QED BY <1>1, <1>2, <1>3 DEF IsFcn

(* The resources of a zone, and of a tunnel.                               *)
OfZone(r, z, x) ==
  \/ x = Resource("settings", NoKey, z, NoHost)
  \/ z \in r.waf /\ x = Resource("waf", NoKey, z, NoHost)
  \/ ActiveOrigins(r, z) # {} /\ x = Resource("aop", NoKey, z, NoHost)
  \/ z \in r.bots /\ x = Resource("bots", NoKey, z, NoHost)
  \/ z \in r.limits /\ x = Resource("limits", NoKey, z, NoHost)
  \/ \E rec \in r.records : rec.zone = z /\ x = Resource("record", NoKey, z, rec.host)

OfTunnel(t, x) ==
  \/ x = Resource("tunnel", TunnelKey(t), NoZone, NoHost)
  \/ x = Resource("ingress", TunnelKey(t), NoZone, NoHost)
  \/ \E h \in DNSNames(t) : x = Resource("cname", TunnelKey(t), RecordZone(t, h), h)

LEMMA ZoneDeclares ==
  ASSUME NEW r, NEW cfg, NEW z
  PROVE  /\ \A x : x \in DOMAIN ZoneArgs(r, cfg, z) <=> OfZone(r, z, x)
         /\ \A x \in DOMAIN ZoneArgs(r, cfg, z) :
              /\ x.zone = z
              /\ x.kind = "waf" => ZoneArgs(r, cfg, z)[x] = cfg.waf[z]
<1> DEFINE of(kind, host) == Resource(kind, NoKey, z, host)
           S == {of("settings", NoHost)} \cup {of("waf", NoHost) : y \in {z} \cap r.waf}
               \cup {of("aop", NoHost) : h \in ActiveOrigins(r, z)}
               \cup {of("bots", NoHost) : y \in {z} \cap r.bots}
               \cup {of("limits", NoHost) : y \in {z} \cap r.limits}
               \cup {of("record", rec.host) : rec \in {y \in r.records : y.zone = z}}
<1>1. ZoneArgs(r, cfg, z) = [x \in S |-> IF x.kind = "waf" THEN cfg.waf[z] ELSE TRUE]
  BY DEF ZoneArgs
<1>2. \A x : x \in S <=> OfZone(r, z, x)
  BY DEF OfZone
<1>3. \A x : OfZone(r, z, x) => x.zone = z
  BY ResourceIs DEF OfZone
<1> HIDE DEF S
<1> QED BY <1>1, <1>2, <1>3

LEMMA TunnelDeclares ==
  ASSUME NEW r, NEW t
  PROVE  /\ \A x : x \in DOMAIN TunnelNew(r, t) <=> OfTunnel(t, x)
         /\ \A x \in DOMAIN TunnelNew(r, t) :
              /\ x.kind = "ingress" => TunnelNew(r, t)[x] = t.hosts
              /\ x.kind = "cname" => TunnelNew(r, t)[x] = originCNAMEs(r, x.host)
<1> DEFINE of(kind, zone, host) == Resource(kind, TunnelKey(t), zone, host)
           a == tunnelArgs(t)
           S == {of("tunnel", NoZone, NoHost), of("ingress", NoZone, NoHost)}
               \cup {of("cname", RecordZone(t, h), h) : h \in a.names}
           v(x) == CASE x.kind = "tunnel"  -> TRUE
                     [] x.kind = "ingress" -> a.ingress
                     [] x.kind = "cname"   -> originCNAMEs(r, x.host)
<1>1. TunnelNew(r, t) = [x \in S |-> v(x)]
  BY DEF TunnelNew
<1>2. a.ingress = t.hosts /\ a.names = DNSNames(t)
  BY DEF tunnelArgs
<1>3. \A x : x \in S <=> OfTunnel(t, x)
  BY <1>2 DEF OfTunnel
<1>4. \A x : (x.kind = "ingress" => v(x) = t.hosts) /\ (x.kind = "cname" => v(x) = originCNAMEs(r, x.host))
  <2> TAKE x
  <2>1. ASSUME x.kind = "ingress" PROVE v(x) = t.hosts
    BY <1>2, <2>1
  <2>2. ASSUME x.kind = "cname" PROVE v(x) = originCNAMEs(r, x.host)
    BY <2>2
  <2> QED BY <2>1, <2>2
<1> HIDE DEF S, v
<1> QED BY <1>1, <1>3, <1>4

(* What the stacks declare: the resources of their zones and of their      *)
(* tunnels, and with which values.                                         *)
LEMMA ZoneParts ==
  ASSUME NEW r, NEW cfg, NEW c
  PROVE  \A p : p \in Parts(<<"zone", c>>, r, cfg) <=> \E z \in ZonesOf(r, c) : p = deployZone(r, cfg, z)
<1>1. <<"zone", c>>[1] = "zone" /\ <<"zone", c>>[2] = c
  OBVIOUS
<1>2. Parts(<<"zone", c>>, r, cfg) = {deployZone(r, cfg, z) : z \in ZonesOf(r, c)}
  BY <1>1 DEF Parts
<1> QED BY <1>2

LEMMA ServicesParts ==
  ASSUME NEW r, NEW cfg, NEW c
  PROVE  \A p : p \in Parts(<<"services", c>>, r, cfg) <=> \E t \in TunnelsOf(cfg, c) : p = DeployTunnel(r, c, t)
<1>1. <<"services", c>>[1] # "zone" /\ <<"services", c>>[2] = c
  OBVIOUS
<1>2. Parts(<<"services", c>>, r, cfg) = {DeployTunnel(r, c, t) : t \in TunnelsOf(cfg, c)}
  BY <1>1 DEF Parts
<1> QED BY <1>2

LEMMA ZoneStackDeclares ==
  ASSUME NEW r, NEW cfg, NEW c
  PROVE  /\ \A x : x \in DOMAIN Declares(<<"zone", c>>, r, cfg)
                    <=> \E z \in ZonesOf(r, c) : OfZone(r, z, x)
         /\ \A x \in DOMAIN Declares(<<"zone", c>>, r, cfg) :
              x.kind = "waf" => Declares(<<"zone", c>>, r, cfg)[x] = cfg.waf[x.zone]
<1> DEFINE fs == {p.wants : p \in Parts(<<"zone", c>>, r, cfg)}
<1>1. \A f : f \in fs <=> \E z \in ZonesOf(r, c) : f = ZoneArgs(r, cfg, z)
  <2>1. \A z : deployZone(r, cfg, z).wants = ZoneArgs(r, cfg, z)
    BY DEF deployZone
  <2>2. ASSUME NEW f \in fs PROVE \E z \in ZonesOf(r, c) : f = ZoneArgs(r, cfg, z)
    BY <2>1, ZoneParts
  <2>3. ASSUME NEW z \in ZonesOf(r, c) PROVE ZoneArgs(r, cfg, z) \in fs
    <3>1. deployZone(r, cfg, z) \in Parts(<<"zone", c>>, r, cfg)
      BY ZoneParts
    <3>2. deployZone(r, cfg, z).wants \in fs
      BY <3>1
    <3> QED BY <2>1, <3>2
  <2> QED BY <2>2, <2>3
<1>2. Declares(<<"zone", c>>, r, cfg) = Merge(fs)
  BY DEF Declares
<1> HIDE DEF fs
<1>3. \A x : x \in DOMAIN Merge(fs) <=> \E z \in ZonesOf(r, c) : x \in DOMAIN ZoneArgs(r, cfg, z)
  <2>1. \A x : x \in DOMAIN Merge(fs) <=> \E f \in fs : x \in DOMAIN f
    BY MergeIs
  <2> QED BY <1>1, <2>1
<1>4. ASSUME NEW x \in DOMAIN Merge(fs), x.kind = "waf" PROVE Merge(fs)[x] = cfg.waf[x.zone]
  <2>1. PICK f \in fs : x \in DOMAIN f /\ Merge(fs)[x] = f[x]
    BY MergeIs
  <2>2. PICK z \in ZonesOf(r, c) : f = ZoneArgs(r, cfg, z)
    BY <1>1
  <2> QED BY <1>4, <2>1, <2>2, ZoneDeclares
<1> QED BY <1>2, <1>3, <1>4, ZoneDeclares

LEMMA ServicesStackDeclares ==
  ASSUME NEW r, NEW cfg, NEW c
  PROVE  /\ \A x : x \in DOMAIN Declares(<<"services", c>>, r, cfg)
                    <=> \E t \in TunnelsOf(cfg, c) : OfTunnel(t, x)
         /\ \A x \in DOMAIN Declares(<<"services", c>>, r, cfg) : \E t \in TunnelsOf(cfg, c) :
              OfTunnel(t, x) /\ Declares(<<"services", c>>, r, cfg)[x] = TunnelNew(r, t)[x]
<1> DEFINE fs == {p.wants : p \in Parts(<<"services", c>>, r, cfg)}
<1>1. \A f : f \in fs <=> \E t \in TunnelsOf(cfg, c) : f = TunnelNew(r, t)
  <2>1. \A t : DeployTunnel(r, c, t).wants = TunnelNew(r, t)
    BY DEF DeployTunnel
  <2>2. ASSUME NEW f \in fs PROVE \E t \in TunnelsOf(cfg, c) : f = TunnelNew(r, t)
    BY <2>1, ServicesParts
  <2>3. ASSUME NEW t \in TunnelsOf(cfg, c) PROVE TunnelNew(r, t) \in fs
    <3>1. DeployTunnel(r, c, t) \in Parts(<<"services", c>>, r, cfg)
      BY ServicesParts
    <3>2. DeployTunnel(r, c, t).wants \in fs
      BY <3>1
    <3> QED BY <2>1, <3>2
  <2> QED BY <2>2, <2>3
<1>2. Declares(<<"services", c>>, r, cfg) = Merge(fs)
  BY DEF Declares
<1> HIDE DEF fs
<1>3. \A x : x \in DOMAIN Merge(fs) <=> \E f \in fs : x \in DOMAIN f
  BY MergeIs
<1>4. \A x \in DOMAIN Merge(fs) : \E f \in fs : x \in DOMAIN f /\ Merge(fs)[x] = f[x]
  BY MergeIs
<1> QED BY <1>1, <1>2, <1>3, <1>4, TunnelDeclares

LEMMA StackKinds == \A s \in Stacks : \E c \in Companies : s = <<"zone", c>> \/ s = <<"services", c>>
BY DEF Stacks

(* A configuration that Load accepts, of a registry that is deployed.      *)
Loaded(r, cfg) ==
  /\ r \in Deployed /\ cfg.why = "none"
  /\ \E cs, cl : cl \in Catalogs /\ cfg = LoadConfig(r, cs, cl)

LEMMA LoadedIs ==
  ASSUME Derived, Deploying, Accepted PROVE Loaded(registry, config)
BY DEF Derived, Deploying, Accepted, Loaded

LEMMA LoadedTunnel ==
  ASSUME NEW r, NEW cfg, Loaded(r, cfg), NEW t \in cfg.tunnels
  PROVE  /\ t.account \in DOMAIN CompanyOf /\ CompanyOf[t.account] \in Companies
         /\ \A z \in t.zones : /\ z \in Managed(r) /\ z \in Zones(r) /\ z # NoZone
                               /\ r.owner[z] = t.account /\ AccountOfZone(z) = t.account /\ Known(z)
         /\ \A h \in ToSet(t.hosts) : /\ RecordZone(t, h) = ZoneOf(Managed(r), h)
                                      /\ ZoneOf(t.zones, h) = ZoneOf(Managed(r), h)
                                      /\ ZoneOf(Managed(r), h) \in t.zones
         /\ \A h : h \in DNSNames(t) <=> h \in ToSet(t.hosts) /\ h \notin r.elsewhere
<1>1. PICK cs, cl : cl \in Catalogs /\ cfg = LoadConfig(r, cs, cl)
  BY DEF Loaded
<1>2. r \in Deployed /\ LoadConfig(r, cs, cl).why = "none" /\ ZonesNamed(r)
  BY <1>1, EstateAssumption DEF Loaded
<1>3. t \in LoadConfig(r, cs, cl).tunnels
  BY <1>1
<1>4. /\ t \in DerivedTunnels(r, cs, cl) /\ t.zones \subseteq Managed(r)
      /\ \A z \in t.zones : z # NoZone /\ r.owner[z] = t.account
      /\ \A h \in ToSet(t.hosts) : /\ RecordZone(t, h) = ZoneOf(Managed(r), h)
                                   /\ ZoneOf(t.zones, h) = ZoneOf(Managed(r), h)
                                   /\ ZoneOf(Managed(r), h) \in t.zones
  BY <1>1, <1>2, <1>3, AcceptedTunnel
<1>5. \A z \in t.zones : z \in Zones(r) /\ AccountOfZone(z) = t.account /\ Known(z)
                         /\ t.account \in DOMAIN CompanyOf /\ CompanyOf[t.account] \in Companies
  BY <1>2, <1>4, AccountOfZoneIs DEF Managed
<1>6. \E z : z \in t.zones
  BY <1>1, <1>4, RulesOf
<1>7. t.elsewhere = ToSet(t.hosts) \cap r.elsewhere
  BY <1>1, <1>4, TunnelIs
<1> QED BY <1>4, <1>5, <1>6, <1>7 DEF DNSNames

LEMMA LoadedKey ==
  ASSUME NEW r, NEW cfg, Loaded(r, cfg), NEW t \in cfg.tunnels, NEW u \in cfg.tunnels,
         TunnelKey(t) = TunnelKey(u)
  PROVE  t = u
<1>1. PICK cs, cl : cl \in Catalogs /\ cfg = LoadConfig(r, cs, cl)
  BY DEF Loaded
<1>2. LoadConfig(r, cs, cl).why = "none"
  BY <1>1 DEF Loaded
<1>3. cfg.tunnels = DerivedTunnels(r, cs, cl)
  <2>1. Passes(r, cs, cl)
    BY <1>2, AcceptedIs, Zenon
  <2> QED BY <1>1, <2>1 DEF Passes
<1> QED BY <1>1, <1>3, TunnelByKey

(* A host has one tunnel, and no record beside the tunnel's.               *)
LEMMA LoadedOnce ==
  ASSUME NEW r, NEW cfg, Loaded(r, cfg)
  PROVE  /\ \A t, u \in cfg.tunnels : \A h : h \in ToSet(t.hosts) /\ h \in ToSet(u.hosts) => t = u
         /\ \A rec \in r.records, t \in cfg.tunnels :
              ~ (rec.host \in DNSNames(t) /\ RecordZone(t, rec.host) = rec.zone)
         /\ \A t \in cfg.tunnels : ~Shadowed({t})
<1>1. PICK cs, cl : cl \in Catalogs /\ cfg = LoadConfig(r, cs, cl)
  BY DEF Loaded
<1>2. LoadConfig(r, cs, cl).why = "none"
  BY <1>1 DEF Loaded
<1> DEFINE ts == DerivedTunnels(r, cs, cl)
<1>3. cfg.tunnels = ts /\ ~DeclaredTwice(ts) /\ ~RecordTaken(r, ts) /\ ~Shadowed(ts)
  <2>1. Passes(r, cs, cl)
    BY <1>2, AcceptedIs, Zenon
  <2> QED BY <1>1, <2>1 DEF Passes
<1> HIDE DEF ts
<1>4. ASSUME NEW t \in ts, NEW u \in ts, NEW h, h \in ToSet(t.hosts), h \in ToSet(u.hosts), t # u
      PROVE  FALSE
  <2>1. PICK i \in DOMAIN t.hosts : t.hosts[i] = h
    BY <1>4 DEF ToSet
  <2>2. PICK j \in DOMAIN u.hosts : u.hosts[j] = h
    BY <1>4 DEF ToSet
  <2>3. <<t, i>> # <<u, j>>
    BY <1>4
  <2> QED BY <1>3, <2>1, <2>2, <2>3 DEF DeclaredTwice
<1>5. ASSUME NEW rec \in r.records, NEW t \in ts, rec.host \in DNSNames(t), RecordZone(t, rec.host) = rec.zone
      PROVE  FALSE
  <2>1. ZoneOf(t.zones, rec.host) = rec.zone
    BY <1>3, <1>5, LoadedTunnel
  <2> QED BY <1>3, <1>5, <2>1 DEF RecordTaken, OwnsRecord
<1>6. ASSUME NEW t \in ts, Shadowed({t}) PROVE FALSE
  BY <1>3, <1>6 DEF Shadowed
<1> QED BY <1>3, <1>4, <1>5, <1>6

LEMMA DeclaredBelongs ==
  ASSUME NEW r, NEW cfg, Loaded(r, cfg), NEW s \in Stacks, NEW x \in DOMAIN Declares(s, r, cfg)
  PROVE  Belongs(s, x)
<1>1. PICK c \in Companies : s = <<"zone", c>> \/ s = <<"services", c>>
  BY StackKinds
<1>2. CASE s = <<"zone", c>>
  <2>1. PICK z \in ZonesOf(r, c) : OfZone(r, z, x)
    BY <1>2, ZoneStackDeclares
  <2>2. z \in Zones(r) /\ CompanyOf[r.owner[z]] = c /\ r \in Deployed
    BY DEF ZonesOf, Managed, Loaded
  <2>3. CompanyOf[AccountOfZone(z)] = c /\ Known(z)
    BY <2>2, AccountOfZoneIs
  <2>4. x.kind \in {"settings", "waf", "aop", "bots", "limits", "record"} /\ x.key = NoKey /\ x.zone = z
    BY <2>1, ResourceIs DEF OfZone
  <2> QED BY <1>2, <2>3, <2>4 DEF Belongs
<1>3. CASE s = <<"services", c>>
  <2>1. PICK t \in TunnelsOf(cfg, c) : OfTunnel(t, x)
    BY <1>3, ServicesStackDeclares
  <2>2. t \in cfg.tunnels /\ CompanyOf[t.account] = c
    BY DEF TunnelsOf
  <2>3. x.key = TunnelKey(t) /\ x.kind \in {"tunnel", "ingress", "cname"}
        /\ (x.kind = "cname" => \E h \in DNSNames(t) : x.zone = RecordZone(t, h))
    BY <2>1, ResourceIs DEF OfTunnel
  <2>4. TunnelKey(t) # NoKey /\ TunnelKey(t)[2] = t.account
    BY DEF TunnelKey, NoKey
  <2>5. \A h \in DNSNames(t) : AccountOfZone(RecordZone(t, h)) = t.account /\ Known(RecordZone(t, h))
    BY <2>2, LoadedTunnel
  <2> QED BY <1>3, <2>2, <2>3, <2>4, <2>5 DEF Belongs
<1> QED BY <1>1, <1>2, <1>3

(* One resource belongs to one stack.                                      *)
LEMMA OneStack ==
  ASSUME NEW s, NEW o, NEW x, Belongs(s, x), Belongs(o, x) PROVE s = o
BY DEF Belongs

(* The records that one configuration declares, whatever the stack.        *)
LEMMA DeclaredRecord ==
  ASSUME NEW r, NEW cfg, Loaded(r, cfg), NEW s \in Stacks, NEW x \in DOMAIN Declares(s, r, cfg), IsRecord(x)
  PROVE  \/ \E rec \in r.records : x = Resource("record", NoKey, rec.zone, rec.host)
         \/ \E t \in cfg.tunnels : \E h \in DNSNames(t) :
              x = Resource("cname", TunnelKey(t), RecordZone(t, h), h)
<1>1. PICK c \in Companies : s = <<"zone", c>> \/ s = <<"services", c>>
  BY StackKinds
<1>2. CASE s = <<"zone", c>>
  <2>1. PICK z \in ZonesOf(r, c) : OfZone(r, z, x)
    BY <1>2, ZoneStackDeclares
  <2> QED BY <2>1, ResourceIs DEF OfZone, IsRecord
<1>3. CASE s = <<"services", c>>
  <2>1. PICK t \in TunnelsOf(cfg, c) : OfTunnel(t, x)
    BY <1>3, ServicesStackDeclares
  <2> QED BY <2>1, ResourceIs DEF OfTunnel, IsRecord, TunnelsOf
<1> QED BY <1>1, <1>2, <1>3

LEMMA DeclaredOnce ==
  ASSUME NEW r, NEW cfg, Loaded(r, cfg), NEW s \in Stacks, NEW o \in Stacks,
         NEW x \in DOMAIN Declares(s, r, cfg), NEW y \in DOMAIN Declares(o, r, cfg),
         IsRecord(x), IsRecord(y), SameName(x, y)
  PROVE  x = y
<1> DEFINE AsRecord(u) == \E rec \in r.records : u = Resource("record", NoKey, rec.zone, rec.host)
           AsName(u) == \E t \in cfg.tunnels : \E h \in DNSNames(t) :
                          u = Resource("cname", TunnelKey(t), RecordZone(t, h), h)
<1>1. AsRecord(x) \/ AsName(x)
  BY DeclaredRecord
<1>2. AsRecord(y) \/ AsName(y)
  BY DeclaredRecord
<1>3. x.zone = y.zone /\ x.host = y.host
  BY DEF SameName
<1>4. ASSUME NEW u, NEW v, AsRecord(u), AsName(v), u.zone = v.zone, u.host = v.host PROVE FALSE
  <2>1. PICK rec \in r.records : u = Resource("record", NoKey, rec.zone, rec.host)
    BY <1>4
  <2>2. PICK t \in cfg.tunnels : \E h \in DNSNames(t) : v = Resource("cname", TunnelKey(t), RecordZone(t, h), h)
    BY <1>4
  <2>3. rec.host \in DNSNames(t) /\ rec.zone = RecordZone(t, rec.host)
    BY <1>4, <2>1, <2>2, ResourceIs
  <2> QED BY <2>3, LoadedOnce
<1>5. CASE AsRecord(x) /\ AsRecord(y)
  <2>1. PICK p \in r.records : x = Resource("record", NoKey, p.zone, p.host)
    BY <1>5
  <2>2. PICK q \in r.records : y = Resource("record", NoKey, q.zone, q.host)
    BY <1>5
  <2> QED BY <1>3, <2>1, <2>2, ResourceIs
<1>6. CASE AsName(x) /\ AsName(y)
  <2>1. PICK t \in cfg.tunnels : \E h \in DNSNames(t) : x = Resource("cname", TunnelKey(t), RecordZone(t, h), h)
    BY <1>6
  <2>2. PICK u \in cfg.tunnels : \E k \in DNSNames(u) : y = Resource("cname", TunnelKey(u), RecordZone(u, k), k)
    BY <1>6
  <2>3. /\ x = Resource("cname", TunnelKey(t), RecordZone(t, x.host), x.host) /\ x.host \in DNSNames(t)
        /\ y = Resource("cname", TunnelKey(u), RecordZone(u, x.host), x.host) /\ x.host \in DNSNames(u)
    BY <1>3, <2>1, <2>2, ResourceIs
  <2>4. x.host \in ToSet(t.hosts) /\ x.host \in ToSet(u.hosts)
    BY <2>3, LoadedTunnel
  <2>5. t = u
    BY <2>4, LoadedOnce
  <2> QED BY <2>3, <2>5
<1> HIDE DEF AsRecord, AsName
<1> QED BY <1>1, <1>2, <1>3, <1>4, <1>5, <1>6

-----------------------------------------------------------------------------
(* What a token of the registry in use lets an update do. *)

LEMMA RowFields ==
  ASSUME NEW a, NEW k
  PROVE  /\ Row(a, k).account = a /\ Row(a, k).kind = k /\ Row(a, k).zones = {} /\ Row(a, k).waf = {}
         /\ \A w, b : LET row == [Row(a, k) EXCEPT !.waf = w, !.bots = b]
                      IN  row.account = a /\ row.kind = k /\ row.zones = {} /\ row.waf = w /\ row.bots = b
         /\ \A b : LET row == [Row(a, k) EXCEPT !.bucket = b]
                   IN  row.account = a /\ row.kind = k /\ row.zones = {} /\ row.waf = {}
BY DEF Row

WafZonesOf(r, a) == {z \in r.waf \cup r.limits : r.owner[z] = a}
BotZonesOf(r, a) == {z \in r.bots : r.owner[z] = a}

LEMMA RowsOf ==
  ASSUME NEW r, NEW a
  PROVE  /\ \A row \in EstateRows(r, a) :
              /\ row.account = a
              /\ row.kind = "services" => row.zones = {}
              /\ row.kind = "zone" =>
                   row.zones = {} /\ row.waf = WafZonesOf(r, a) /\ row.bots = BotZonesOf(r, a)
         /\ \E row \in EstateRows(r, a) : row.kind = "services"
         /\ \E row \in EstateRows(r, a) : row.kind = "zone"
<1> DEFINE zoneRow == [Row(a, "zone") EXCEPT !.waf = WafZonesOf(r, a), !.bots = BotZonesOf(r, a)]
           bucketRow(k) == [Row(a, k) EXCEPT !.bucket = k]
<1>1. EstateRows(r, a) = {Row(a, "status"), Row(a, "r2-admin"), Row(a, "services"), zoneRow}
                           \cup {Row(a, k) : k \in {"dns", "insights", "insights-admin"}}
                           \cup {bucketRow(k) : k \in BucketKinds}
  BY DEF EstateRows, StandardRows, WafZonesOf, BotZonesOf
<1>2. /\ zoneRow.account = a /\ zoneRow.kind = "zone" /\ zoneRow.zones = {}
      /\ zoneRow.waf = WafZonesOf(r, a) /\ zoneRow.bots = BotZonesOf(r, a)
  BY RowFields
<1>3. \A k \in BucketKinds : bucketRow(k).account = a /\ bucketRow(k).kind = k /\ k \notin {"services", "zone"}
  BY RowFields DEF BucketKinds
<1>4. \A k : Row(a, k).account = a /\ Row(a, k).kind = k /\ Row(a, k).zones = {}
  BY RowFields
<1> HIDE DEF zoneRow, bucketRow
<1>5. ASSUME NEW row \in EstateRows(r, a)
      PROVE  /\ row.account = a
             /\ row.kind = "services" => row.zones = {}
             /\ row.kind = "zone" =>
                  row.zones = {} /\ row.waf = WafZonesOf(r, a) /\ row.bots = BotZonesOf(r, a)
  <2>1. \/ row = zoneRow
        \/ \E k \in {"status", "r2-admin", "services", "dns", "insights", "insights-admin"} : row = Row(a, k)
        \/ \E k \in BucketKinds : row = bucketRow(k)
    BY <1>1
  <2> QED BY <1>2, <1>3, <1>4, <2>1
<1>6. Row(a, "services") \in EstateRows(r, a) /\ zoneRow \in EstateRows(r, a)
  BY <1>1
<1> QED BY <1>2, <1>4, <1>5, <1>6

ZoneGroups == {"DNS Write", "SSL and Certificates Write", "Zone Settings Write",
               "Cache Settings Write", "Config Settings Write"}

(* What the tokens of the zone and the services stack grant.               *)
LEMMA Tokens ==
  ASSUME NEW r \in Deployed, NEW a \in DOMAIN CompanyOf, Presets[r][a] # {}
  PROVE  /\ \A z \in zonesOf(r, a) \ r.held : \A n \in ZoneGroups :
              <<n, <<"zone", z>>>> \in TokenGrants(r, a, "zone")
         /\ \A z \in WafZonesOf(r, a) : <<"Zone WAF Write", <<"zone", z>>>> \in TokenGrants(r, a, "zone")
         /\ \A z \in BotZonesOf(r, a) : <<"Bot Management Write", <<"zone", z>>>> \in TokenGrants(r, a, "zone")
         /\ \A z \in zonesOf(r, a) \ r.held : <<"DNS Write", <<"zone", z>>>> \in TokenGrants(r, a, "services")
         /\ <<"Cloudflare Tunnel Write", <<"account", a>>>> \in TokenGrants(r, a, "services")
<1> DEFINE managed == zonesOf(r, a) \ r.held
<1>1. ASSUME NEW kind \in {"zone", "services"}
      PROVE  \E row \in EstateRows(r, a) : row.kind = kind /\ TokenGrants(r, a, kind) = Grants(r, row)
  <2>1. \E p \in Presets[r][a] : p.name[2] = kind
    <3>1. PICK row \in EstateRows(r, a) : row.kind = kind /\ row.account = a
      BY RowsOf
    <3>2. [name |-> PresetName(row), grants |-> Grants(r, row)] \in Presets[r][a]
      BY <3>1, PresetIs
    <3>3. [name |-> PresetName(row), grants |-> Grants(r, row)].name[2] = kind
      BY <3>1 DEF PresetName
    <3> QED BY <3>2, <3>3
  <2>2. PICK p \in Presets[r][a] : p.name[2] = kind /\ TokenGrants(r, a, kind) = p.grants
    BY <2>1 DEF TokenGrants
  <2>3. PICK row \in EstateRows(r, a) : p = [name |-> PresetName(row), grants |-> Grants(r, row)]
    BY PresetIs
  <2>4. p.name[2] = row.kind /\ p.grants = Grants(r, row)
    BY <2>3 DEF PresetName
  <2> QED BY <2>2, <2>4
<1>2. PICK row \in EstateRows(r, a) : row.kind = "zone" /\ TokenGrants(r, a, "zone") = Grants(r, row)
  BY <1>1
<1>3. Covered(r, row) = zonesOf(r, a) /\ row.waf = WafZonesOf(r, a) /\ row.bots = BotZonesOf(r, a)
  BY <1>2, RowsOf DEF Covered
<1>4. Grants(r, row) = ZonePolicies(managed)
               \cup OnZones({"Zone WAF Write"}, row.waf)
               \cup OnZones({"Bot Management Write"}, row.bots)
               \cup OnZones({"Cloud Connector Write"}, row.connector)
               \cup OnZones({"DNS Write"}, row.dnsOnly)
               \cup OnZones({"Zone Settings Write"}, zonesOf(r, a) \cap r.held)
  BY <1>2, <1>3 DEF Grants
<1>5. OnZones(ZoneGroups, managed) \subseteq Grants(r, row)
      /\ OnZones({"Zone WAF Write"}, WafZonesOf(r, a)) \subseteq Grants(r, row)
      /\ OnZones({"Bot Management Write"}, BotZonesOf(r, a)) \subseteq Grants(r, row)
  BY <1>3, <1>4, Zenon DEF ZonePolicies, ZoneGroups
<1>6. PICK own \in EstateRows(r, a) : own.kind = "services" /\ TokenGrants(r, a, "services") = Grants(r, own)
  BY <1>1
<1>7. Covered(r, own) = zonesOf(r, a) /\ own.account = a
  BY <1>6, RowsOf DEF Covered
<1>8. Grants(r, own) = OnAccount({"Cloudflare Tunnel Write"}, a) \cup OnZones({"DNS Write"}, managed)
  BY <1>6, <1>7 DEF Grants, StatusPolicies
<1> HIDE DEF managed
<1>9. ASSUME NEW G, NEW Z, NEW n \in G, NEW z \in Z PROVE <<n, <<"zone", z>>>> \in OnZones(G, Z)
  BY OnZonesIs
<1>10. \A z \in managed : \A n \in ZoneGroups : <<n, <<"zone", z>>>> \in Grants(r, row)
  BY <1>5, <1>9
<1>11. \A z \in WafZonesOf(r, a) : <<"Zone WAF Write", <<"zone", z>>>> \in Grants(r, row)
  BY <1>5, <1>9
<1>12. \A z \in managed : <<"DNS Write", <<"zone", z>>>> \in Grants(r, own)
  BY <1>8, <1>9
<1>13. <<"Cloudflare Tunnel Write", <<"account", a>>>> \in Grants(r, own)
  BY <1>8, OnAccountIs
<1>14. \A z \in BotZonesOf(r, a) : <<"Bot Management Write", <<"zone", z>>>> \in Grants(r, row)
  BY <1>5, <1>9
<1> QED BY <1>2, <1>6, <1>10, <1>11, <1>12, <1>13, <1>14 DEF managed

(* A token that grants each group on a thing grants all of them on it.     *)
LEMMA GrantsWithin ==
  ASSUME NEW G, NEW v, NEW T
  PROVE  /\ (\A n \in G : <<n, <<"zone", v>>>> \in T) => OnZones(G, {v}) \subseteq T
         /\ (\A n \in G : <<n, <<"account", v>>>> \in T) => OnAccount(G, v) \subseteq T
BY DEF OnZones, OnAccount

OwnerOf(x) == IF x.key = NoKey THEN AccountOfZone(x.zone) ELSE x.key[2]

(* The tokens of a company's accounts, of the registry in use, grant all   *)
(* that its stacks write.                                                  *)
LEMMA TokensSuffice ==
  ASSUME NEW r, NEW cfg, Loaded(r, cfg), NEW s \in Stacks, NEW x \in DOMAIN Declares(s, r, cfg),
         \A a \in AccountsOf(s[2]) : Presets[r][a] # {}
  PROVE  OwnerOf(x) \in AccountsOf(s[2]) /\ Needs(x) \subseteq TokenGrants(r, OwnerOf(x), s[1])
<1>0. r \in Deployed
  BY DEF Loaded
<1>1. PICK c \in Companies : s = <<"zone", c>> \/ s = <<"services", c>>
  BY StackKinds
<1>2. CASE s = <<"zone", c>>
  <2>1. PICK z \in ZonesOf(r, c) : OfZone(r, z, x)
    BY <1>2, ZoneStackDeclares
  <2> DEFINE a == r.owner[z]
  <2>2. z \in Zones(r) /\ CompanyOf[a] = c /\ z \in zonesOf(r, a) \ r.held
    BY DEF ZonesOf, Managed, zonesOf, Zones
  <2>3. x.key = NoKey /\ x.zone = z
    BY <2>1, ResourceIs DEF OfZone
  <2>4. OwnerOf(x) = a /\ a \in AccountsOf(c) /\ a \in DOMAIN CompanyOf
    BY <1>0, <2>2, <2>3, AccountOfZoneIs DEF OwnerOf, AccountsOf
  <2>5. Presets[r][a] # {}
    BY <1>2, <2>4
  <2> DEFINE T == TokenGrants(r, a, "zone")
  <2>6. /\ \A n \in ZoneGroups : <<n, <<"zone", z>>>> \in T
        /\ z \in r.waf \cup r.limits => <<"Zone WAF Write", <<"zone", z>>>> \in T
        /\ z \in r.bots => <<"Bot Management Write", <<"zone", z>>>> \in T
    BY <1>0, <2>2, <2>4, <2>5, Tokens DEF WafZonesOf, BotZonesOf
  <2> HIDE DEF T
  <2>7. \/ \E G \in SUBSET ZoneGroups : Needs(x) = OnZones(G, {z})
        \/ z \in r.waf \cup r.limits /\ Needs(x) = OnZones({"Zone WAF Write"}, {z})
        \/ z \in r.bots /\ Needs(x) = OnZones({"Bot Management Write"}, {z})
    <3>1. CASE x.kind = "settings"
      <4> DEFINE G == {"Zone Settings Write", "SSL and Certificates Write", "Cache Settings Write",
                       "Config Settings Write"}
      <4>1. Needs(x) = OnZones(G, {z})
        BY <2>3, <3>1 DEF Needs
      <4>2. G \in SUBSET ZoneGroups
        BY DEF ZoneGroups
      <4> HIDE DEF G
      <4> QED BY <4>1, <4>2
    <3>2. CASE x.kind \in {"waf", "limits"}
      <4>1. z \in r.waf \cup r.limits
        BY <2>1, <3>2, ResourceIs DEF OfZone
      <4> QED BY <2>3, <3>2, <4>1 DEF Needs
    <3>6. CASE x.kind = "bots"
      <4>1. z \in r.bots
        BY <2>1, <3>6, ResourceIs DEF OfZone
      <4> QED BY <2>3, <3>6, <4>1 DEF Needs
    <3>3. CASE x.kind = "aop"
      <4>1. Needs(x) = OnZones({"Zone Settings Write"}, {z})
        BY <2>3, <3>3 DEF Needs
      <4>2. {"Zone Settings Write"} \in SUBSET ZoneGroups
        BY DEF ZoneGroups
      <4> QED BY <4>1, <4>2
    <3>4. CASE x.kind = "record"
      <4>1. Needs(x) = OnZones({"DNS Write"}, {z})
        BY <2>3, <3>4 DEF Needs
      <4>2. {"DNS Write"} \in SUBSET ZoneGroups
        BY DEF ZoneGroups
      <4> QED BY <4>1, <4>2
    <3>5. x.kind \in {"settings", "waf", "aop", "bots", "limits", "record"}
      BY <2>1, ResourceIs DEF OfZone
    <3> QED BY <3>1, <3>2, <3>3, <3>4, <3>5, <3>6
  <2>8. ASSUME \E G \in SUBSET ZoneGroups : Needs(x) = OnZones(G, {z}) PROVE Needs(x) \subseteq T
    <3>1. PICK G \in SUBSET ZoneGroups : Needs(x) = OnZones(G, {z})
      BY <2>8
    <3>2. \A n \in G : <<n, <<"zone", z>>>> \in T
      BY <2>6
    <3>3. OnZones(G, {z}) \subseteq T
      BY <3>2, GrantsWithin, Zenon
    <3> QED BY <3>1, <3>3
  <2>9. ASSUME z \in r.waf \cup r.limits, Needs(x) = OnZones({"Zone WAF Write"}, {z})
        PROVE  Needs(x) \subseteq T
    <3>1. \A n \in {"Zone WAF Write"} : <<n, <<"zone", z>>>> \in T
      BY <2>6, <2>9
    <3>2. OnZones({"Zone WAF Write"}, {z}) \subseteq T
      BY <3>1, GrantsWithin, Zenon
    <3> QED BY <2>9, <3>2, Zenon
  <2>10. ASSUME z \in r.bots, Needs(x) = OnZones({"Bot Management Write"}, {z})
         PROVE  Needs(x) \subseteq T
    <3>1. \A n \in {"Bot Management Write"} : <<n, <<"zone", z>>>> \in T
      BY <2>6, <2>10
    <3>2. OnZones({"Bot Management Write"}, {z}) \subseteq T
      BY <3>1, GrantsWithin, Zenon
    <3> QED BY <2>10, <3>2, Zenon
  <2>11. Needs(x) \subseteq T
    BY <2>7, <2>8, <2>9, <2>10, Zenon
  <2> QED BY <1>2, <2>4, <2>11 DEF T
<1>3. CASE s = <<"services", c>>
  <2>1. PICK t \in TunnelsOf(cfg, c) : OfTunnel(t, x)
    BY <1>3, ServicesStackDeclares
  <2> DEFINE a == t.account
  <2>2. t \in cfg.tunnels /\ CompanyOf[a] = c
    BY DEF TunnelsOf
  <2>3. a \in DOMAIN CompanyOf /\ a \in AccountsOf(c) /\ Presets[r][a] # {}
    BY <1>3, <2>2, LoadedTunnel DEF AccountsOf
  <2>4. x.key = TunnelKey(t) /\ TunnelKey(t) # NoKey /\ TunnelKey(t)[2] = a
    <3>1. x.key = TunnelKey(t)
      BY <2>1, ResourceIs DEF OfTunnel
    <3> QED BY <3>1 DEF TunnelKey, NoKey
  <2>5. OwnerOf(x) = a
    BY <2>4 DEF OwnerOf
  <2> DEFINE T == TokenGrants(r, a, "services")
  <2>6. /\ \A z \in zonesOf(r, a) \ r.held : <<"DNS Write", <<"zone", z>>>> \in T
        /\ <<"Cloudflare Tunnel Write", <<"account", a>>>> \in T
    BY <1>0, <2>3, Tokens
  <2> HIDE DEF T
  <2>7. ASSUME x.kind = "cname" PROVE Needs(x) \subseteq T
    <3>1. PICK h \in DNSNames(t) : x.zone = RecordZone(t, h)
      BY <2>1, <2>7, ResourceIs DEF OfTunnel
    <3>2. x.zone \in zonesOf(r, a) \ r.held
      <4>1. x.zone \in t.zones
        BY <2>2, <3>1, LoadedTunnel
      <4>2. x.zone \in Managed(r) /\ r.owner[x.zone] = a
        BY <2>2, <4>1, LoadedTunnel
      <4> QED BY <4>2 DEF zonesOf, Zones, Managed
    <3>3. Needs(x) = OnZones({"DNS Write"}, {x.zone})
      BY <2>7 DEF Needs
    <3>4. <<"DNS Write", <<"zone", x.zone>>>> \in T
      BY <2>6, <3>2
    <3>5. \A n \in {"DNS Write"} : <<n, <<"zone", x.zone>>>> \in T
      BY <3>4
    <3>6. OnZones({"DNS Write"}, {x.zone}) \subseteq T
      BY <3>5, GrantsWithin, Zenon
    <3> QED BY <3>3, <3>6, Zenon
  <2>8. ASSUME x.kind \in {"tunnel", "ingress"} PROVE Needs(x) \subseteq T
    <3>1. Needs(x) = OnAccount({"Cloudflare Tunnel Write"}, a)
      BY <2>4, <2>8 DEF Needs
    <3>2. \A n \in {"Cloudflare Tunnel Write"} : <<n, <<"account", a>>>> \in T
      BY <2>6
    <3>3. OnAccount({"Cloudflare Tunnel Write"}, a) \subseteq T
      BY <3>2, GrantsWithin, Zenon
    <3> QED BY <3>1, <3>3, Zenon
  <2>9. x.kind \in {"tunnel", "ingress", "cname"}
    BY <2>1, ResourceIs DEF OfTunnel
  <2> QED BY <1>3, <2>3, <2>5, <2>7, <2>8, <2>9 DEF T
<1> QED BY <1>1, <1>2, <1>3

(* With them no part of a program is refused but for what Load leaves to   *)
(* the apply.                                                              *)
LEMMA NoneRefused ==
  ASSUME NEW r, NEW cfg, Loaded(r, cfg), NEW s \in Stacks,
         \A a \in AccountsOf(s[2]) : Presets[r][a] # {},
         NEW p \in Parts(s, r, cfg), p.refused
  PROVE  LeftToApply(s, r, cfg)
<1>0. r \in Deployed
  BY DEF Loaded
<1>1. PICK c \in Companies : s = <<"zone", c>> \/ s = <<"services", c>>
  BY StackKinds
<1>2. ASSUME NEW z, z \in zonesOf(r, r.owner[z]), CompanyOf[r.owner[z]] = c PROVE z \notin r.pending
  <2>1. r.owner[z] \in AccountsOf(c) /\ r.owner[z] \in DOMAIN CompanyOf
    BY <1>0, <1>2, AccountOfZoneIs DEF zonesOf, Zones, AccountsOf
  <2> QED BY <1>0, <1>1, <1>2, <2>1, PresetIs DEF PendingZone
<1>3. CASE s = <<"zone", c>>
  <2>1. PICK z \in ZonesOf(r, c) : p = deployZone(r, cfg, z)
    BY <1>3, ZoneParts
  <2>2. z \in zonesOf(r, r.owner[z]) /\ CompanyOf[r.owner[z]] = c
    BY DEF ZonesOf, Managed, zonesOf, Zones
  <2>3. p.refused = (z \in r.pending \cup UnfitZones(r, cfg) \/ z \in r.sharedRef)
    BY <2>1 DEF deployZone
  <2>4. z \in UnfitZones(r, cfg) \cup r.sharedRef
    BY <1>2, <2>2, <2>3
  <2> QED BY <1>3, <2>4 DEF LeftToApply
<1>4. CASE s = <<"services", c>>
  <2>1. PICK t \in TunnelsOf(cfg, c) : p = DeployTunnel(r, c, t)
    BY <1>4, ServicesParts
  <2>2. t \in cfg.tunnels /\ CompanyOf[t.account] = c
    BY DEF TunnelsOf
  <2>3. ASSUME NEW z \in t.zones PROVE z \in ZonesOf(r, c) /\ r.owner[z] = t.account /\ z \notin r.pending
    <3>1. z \in Managed(r) /\ z \in Zones(r) /\ r.owner[z] = t.account
      BY <2>2, LoadedTunnel
    <3>2. z \in zonesOf(r, r.owner[z]) /\ CompanyOf[r.owner[z]] = c
      BY <2>2, <3>1 DEF zonesOf, Zones
    <3> QED BY <1>2, <2>2, <3>1, <3>2 DEF ZonesOf
  <2>4. \A h \in ToSet(t.hosts) : ZoneOf(t.zones, h) # NoZone
    BY <2>2, LoadedTunnel
  <2>5. ~Shadowed({t})
    BY <2>2, LoadedOnce
  <2>6. ~TunnelRefused(r, c, t)
    BY <2>3, <2>4, <2>5 DEF TunnelRefused
  <2>7. p.refused = TunnelRefused(r, c, t)
    BY <2>1 DEF DeployTunnel
  <2> QED BY <2>6, <2>7
<1> QED BY <1>1, <1>3, <1>4

-----------------------------------------------------------------------------
(* How the steps leave what they do not touch. *)

LEMMA SetUp ==
  ASSUME UpInv, NEW s \in Stacks, NEW u, up' = [up EXCEPT ![s] = u]
  PROVE  /\ IsFcn(up)' /\ DOMAIN up' = Stacks /\ up'[s] = u
         /\ \A o \in Stacks : o # s => up'[o] = up[o]
<1>1. IsFcn(up) /\ DOMAIN up = Stacks
  BY DEF UpInv
<1> QED BY <1>1 DEF IsFcn

LEMMA SameUnderway ==
  ASSUME NEW s, Underway(s), up'[s] = up[s], stack'[s] = stack[s], UNCHANGED <<registry, config>>
  PROVE  Underway(s)'
BY DEF Underway, Granted, Deploying, Accepted

LEMMA SameEnding ==
  ASSUME NEW s, Ending(s), up'[s] = up[s] PROVE Ending(s)'
BY DEF Ending

(* One field of an update set.                                             *)
LEMMA FreshIs ==
  ASSUME NEW a, NEW b, NEW c, NEW d, NEW e, NEW f, NEW g, NEW h, NEW i, NEW j, NEW k, NEW v
  PROVE  [[on |-> a, why |-> b, want |-> c, grants |-> d, todo |-> e, cover |-> f,
           names |-> g, refused |-> h, head |-> i, fresh |-> j, excused |-> k] EXCEPT !.fresh = v]
         = [on |-> a, why |-> b, want |-> c, grants |-> d, todo |-> e, cover |-> f,
            names |-> g, refused |-> h, head |-> i, fresh |-> v, excused |-> k]
OBVIOUS

LEMMA ExcusedIs ==
  ASSUME NEW a, NEW b, NEW c, NEW d, NEW e, NEW f, NEW g, NEW h, NEW i, NEW j, NEW k, NEW v
  PROVE  [[on |-> a, why |-> b, want |-> c, grants |-> d, todo |-> e, cover |-> f,
           names |-> g, refused |-> h, head |-> i, fresh |-> j, excused |-> k] EXCEPT !.excused = v]
         = [on |-> a, why |-> b, want |-> c, grants |-> d, todo |-> e, cover |-> f,
            names |-> g, refused |-> h, head |-> i, fresh |-> j, excused |-> v]
OBVIOUS

LEMMA TodoIs ==
  ASSUME NEW u, IsUpdate(u), NEW v
  PROVE  LET w == [u EXCEPT !.todo = v]
         IN  /\ IsUpdate(w) /\ w.todo = v
             /\ w.on = u.on /\ w.why = u.why /\ w.want = u.want /\ w.grants = u.grants
             /\ w.cover = u.cover /\ w.names = u.names /\ w.refused = u.refused
             /\ w.head = u.head /\ w.fresh = u.fresh /\ w.excused = u.excused
<1> DEFINE w == [u EXCEPT !.todo = v]
<1>1. w = [[on |-> u.on, why |-> u.why, want |-> u.want, grants |-> u.grants, todo |-> u.todo,
            cover |-> u.cover, names |-> u.names, refused |-> u.refused, head |-> u.head,
            fresh |-> u.fresh, excused |-> u.excused] EXCEPT !.todo = v]
  BY Zenon DEF IsUpdate
<1> HIDE DEF w
<1>2. w = [on |-> u.on, why |-> u.why, want |-> u.want, grants |-> u.grants, todo |-> v,
           cover |-> u.cover, names |-> u.names, refused |-> u.refused, head |-> u.head,
           fresh |-> u.fresh, excused |-> u.excused]
  BY <1>1
<1>3. /\ IsUpdate(w) /\ w.todo = v
      /\ w.on = u.on /\ w.why = u.why /\ w.want = u.want /\ w.grants = u.grants
      /\ w.cover = u.cover /\ w.names = u.names /\ w.refused = u.refused
      /\ w.head = u.head /\ w.fresh = u.fresh /\ w.excused = u.excused
  BY <1>2 DEF IsUpdate
<1> QED BY <1>3, Zenon DEF w

LEMMA HeadIs ==
  ASSUME NEW u, IsUpdate(u)
  PROVE  LET w == [u EXCEPT !.head = FALSE]
         IN  /\ IsUpdate(w) /\ w.head = FALSE
             /\ w.on = u.on /\ w.why = u.why /\ w.want = u.want /\ w.grants = u.grants
             /\ w.todo = u.todo /\ w.cover = u.cover /\ w.names = u.names /\ w.refused = u.refused
             /\ w.fresh = u.fresh /\ w.excused = u.excused
<1> DEFINE w == [u EXCEPT !.head = FALSE]
<1>1. w = [[on |-> u.on, why |-> u.why, want |-> u.want, grants |-> u.grants, todo |-> u.todo,
            cover |-> u.cover, names |-> u.names, refused |-> u.refused, head |-> u.head,
            fresh |-> u.fresh, excused |-> u.excused] EXCEPT !.head = FALSE]
  BY Zenon DEF IsUpdate
<1> HIDE DEF w
<1>2. w = [on |-> u.on, why |-> u.why, want |-> u.want, grants |-> u.grants, todo |-> u.todo,
           cover |-> u.cover, names |-> u.names, refused |-> u.refused, head |-> FALSE,
           fresh |-> u.fresh, excused |-> u.excused]
  BY <1>1
<1>3. /\ IsUpdate(w) /\ w.head = FALSE
      /\ w.on = u.on /\ w.why = u.why /\ w.want = u.want /\ w.grants = u.grants
      /\ w.todo = u.todo /\ w.cover = u.cover /\ w.names = u.names /\ w.refused = u.refused
      /\ w.fresh = u.fresh /\ w.excused = u.excused
  BY <1>2 DEF IsUpdate
<1> QED BY <1>3, Zenon DEF w

(* What an update ends with.                                               *)
LEMMA EndIs ==
  ASSUME UpInv, NEW s \in Stacks, NEW why, NEW excused, End(s, why, excused)
  PROVE  /\ IsFcn(up)' /\ DOMAIN up' = Stacks
         /\ \A o \in Stacks : o # s => up'[o] = up[o]
         /\ IsUpdate(up'[s]) /\ up'[s].on = FALSE /\ up'[s].why = why /\ up'[s].todo = {}
         /\ up'[s].fresh = up[s].fresh /\ up'[s].excused = excused
<1> DEFINE e == Ended(why)
           v == [e EXCEPT !.fresh = up[s].fresh]
           u == [v EXCEPT !.excused = excused]
<1>1. e = [on |-> FALSE, why |-> why, want |-> Nothing, grants |-> <<>>, todo |-> {}, cover |-> {},
           names |-> {}, refused |-> FALSE, head |-> FALSE, fresh |-> FALSE, excused |-> FALSE]
  BY Zenon DEF Ended
<1>2. up' = [up EXCEPT ![s] = u]
  BY DEF End
<1>3. v = [e EXCEPT !.fresh = up[s].fresh]
  OBVIOUS
<1>4. u = [v EXCEPT !.excused = excused]
  OBVIOUS
<1> HIDE DEF e, v, u
<1>5. v = [on |-> FALSE, why |-> why, want |-> Nothing, grants |-> <<>>, todo |-> {}, cover |-> {},
           names |-> {}, refused |-> FALSE, head |-> FALSE, fresh |-> up[s].fresh, excused |-> FALSE]
  BY <1>1, <1>3, FreshIs, Zenon
<1>6. u = [on |-> FALSE, why |-> why, want |-> Nothing, grants |-> <<>>, todo |-> {}, cover |-> {},
           names |-> {}, refused |-> FALSE, head |-> FALSE, fresh |-> up[s].fresh, excused |-> excused]
  BY <1>4, <1>5, ExcusedIs, Zenon
<1>7. /\ IsUpdate(u) /\ u.on = FALSE /\ u.why = why /\ u.todo = {}
      /\ u.fresh = up[s].fresh /\ u.excused = excused
  BY <1>6 DEF IsUpdate
<1> QED BY <1>2, <1>7, SetUp

(* What an ending says of the update, and what becomes current with it.    *)
Truly(s, why, excused) ==
  /\ why = "denied" => ~up[s].fresh
  /\ why = "refused" /\ up[s].fresh => excused
  /\ why = "clash" => excused

NowCurrent(s) ==
  \/ current' = current
  \/ /\ current' = current \cup {s}
     /\ Deploying /\ Accepted /\ stack[s] = Declares(s, registry, config)

(* The steps that end an update.                                           *)
LEMMA EndKeeps ==
  ASSUME RunInv, NEW s \in Stacks, NEW why, NEW excused, End(s, why, excused),
         UNCHANGED <<registry, config, stack, ordered>>,
         Truly(s, why, excused), NowCurrent(s)
  PROVE  RunInv'
<1>1. StackInv /\ UpInv /\ CurrentInv /\ OrderedInv
  BY DEF RunInv
<1>2. /\ IsFcn(up)' /\ DOMAIN up' = Stacks
      /\ \A o \in Stacks : o # s => up'[o] = up[o]
      /\ IsUpdate(up'[s]) /\ up'[s].on = FALSE /\ up'[s].why = why
      /\ up'[s].fresh = up[s].fresh /\ up'[s].excused = excused
  BY <1>1, EndIs
<1>3. StackInv'
  <2>1. stack' = stack
    OBVIOUS
  <2> QED BY ONLY <1>1, <2>1, Zenon DEF StackInv, IsFcn, Stacks, Companies, Belongs, Known
<1>4. UpInv'
  <2>1. Ending(s)'
    BY <1>2 DEF Ending, Truly
  <2>2. ASSUME NEW o \in Stacks, o # s
        PROVE  IsUpdate(up'[o]) /\ Ending(o)' /\ (up'[o].on => Underway(o)')
    <3>1. IsUpdate(up[o]) /\ Ending(o) /\ (up[o].on => Underway(o))
      BY <1>1 DEF UpInv
    <3> QED BY <1>2, <2>2, <3>1, SameUnderway, SameEnding
  <2> QED BY <1>2, <2>1, <2>2 DEF UpInv
<1>5. CurrentInv'
  <2> SUFFICES ASSUME NEW o \in current'
               PROVE  /\ o \in Stacks /\ ~up'[o].on /\ Deploying' /\ Accepted'
                      /\ stack'[o] = Declares(o, registry', config')
    BY DEF CurrentInv
  <2>1. (Deploying' <=> Deploying) /\ (Accepted' <=> Accepted)
    BY DEF Deploying, Accepted
  <2>2. CASE o \in current
    <3>1. /\ o \in Stacks /\ ~up[o].on /\ Deploying /\ Accepted
          /\ stack[o] = Declares(o, registry, config)
      BY <1>1, <2>2 DEF CurrentInv
    <3> QED BY <1>2, <2>1, <3>1
  <2>3. CASE o = s /\ s \notin current
    <3>1. Deploying /\ Accepted /\ stack[s] = Declares(s, registry, config)
      BY <2>3 DEF NowCurrent
    <3> QED BY <1>2, <2>1, <2>3, <3>1
  <2>4. o \in current \/ o = s
    BY DEF NowCurrent
  <2> QED BY <2>2, <2>3, <2>4
<1>6. OrderedInv'
  <2> SUFFICES ASSUME NEW c \in ordered \cap Companies, up'[<<"services", c>>].on
               PROVE  /\ ~up'[<<"zone", c>>].on
                      /\ \A x \in DOMAIN up'[<<"services", c>>].want : x.kind = "cname" => Protected(c, x)'
    BY DEF OrderedInv
  <2>1. <<"services", c>> \in Stacks /\ <<"zone", c>> \in Stacks
    BY DEF Stacks
  <2>2. <<"services", c>> # s /\ up'[<<"services", c>>] = up[<<"services", c>>]
    BY <1>2, <2>1
  <2>3. ~up'[<<"zone", c>>].on
    BY <1>1, <1>2, <2>1, <2>2 DEF OrderedInv
  <2>4. \A x \in DOMAIN up[<<"services", c>>].want : x.kind = "cname" => Protected(c, x)
    BY <1>1, <2>2 DEF OrderedInv
  <2> QED BY <2>2, <2>3, <2>4 DEF Protected
<1> QED BY <1>3, <1>4, <1>5, <1>6 DEF RunInv

(* Edits: every update under way is behind, none is current.               *)
LEMMA EditKeeps ==
  ASSUME RunInv, Edited PROVE RunInv'
<1>1. StackInv /\ UpInv /\ CurrentInv /\ OrderedInv
  BY DEF RunInv
<1>2. /\ current' = {} /\ stack' = stack /\ ordered' = ordered
      /\ up' = [s \in Stacks |-> [up[s] EXCEPT !.head = FALSE]]
  BY DEF Edited
<1>3. ASSUME NEW s \in Stacks
      PROVE  /\ IsUpdate(up'[s]) /\ up'[s].head = FALSE
             /\ up'[s].on = up[s].on /\ up'[s].why = up[s].why /\ up'[s].want = up[s].want
             /\ up'[s].grants = up[s].grants /\ up'[s].todo = up[s].todo
             /\ up'[s].cover = up[s].cover /\ up'[s].names = up[s].names
             /\ up'[s].refused = up[s].refused /\ up'[s].fresh = up[s].fresh
             /\ up'[s].excused = up[s].excused
  <2>1. IsUpdate(up[s])
    BY <1>1 DEF UpInv
  <2> DEFINE w == [up[s] EXCEPT !.head = FALSE]
  <2>2. up'[s] = w
    BY <1>2
  <2>3. /\ IsUpdate(w) /\ w.head = FALSE
        /\ w.on = up[s].on /\ w.why = up[s].why /\ w.want = up[s].want /\ w.grants = up[s].grants
        /\ w.todo = up[s].todo /\ w.cover = up[s].cover /\ w.names = up[s].names
        /\ w.refused = up[s].refused /\ w.fresh = up[s].fresh /\ w.excused = up[s].excused
    BY <2>1, HeadIs, Zenon
  <2> HIDE DEF w
  <2> QED BY <2>2, <2>3
<1>4. IsFcn(up)' /\ DOMAIN up' = Stacks
  <2> DEFINE v(s) == [up[s] EXCEPT !.head = FALSE]
  <2>1. up' = [s \in Stacks |-> v(s)]
    BY <1>2
  <2> HIDE DEF v
  <2> QED BY <2>1 DEF IsFcn
<1>5. StackInv'
  BY ONLY <1>1, <1>2, Zenon DEF StackInv, IsFcn, Stacks, Companies, Belongs, Known
<1>6. UpInv'
  <2> SUFFICES ASSUME NEW s \in Stacks
               PROVE  Ending(s)' /\ (up'[s].on => Underway(s)')
    BY <1>3, <1>4 DEF UpInv
  <2>1. Ending(s) /\ (up[s].on => Underway(s))
    BY <1>1 DEF UpInv
  <2>2. Ending(s)'
    BY <1>3, <2>1 DEF Ending
  <2>3. ASSUME Underway(s) PROVE Underway(s)'
    <3>1. \A x : Granted(s, x)' <=> Granted(s, x)
      BY <1>3 DEF Granted
    <3>2. up'[s].fresh => /\ up'[s].refused => up'[s].excused
                          /\ \A x \in DOMAIN up'[s].want : Granted(s, x)'
      BY <1>3, <2>3, <3>1 DEF Underway
    <3>3. /\ IsFcn(up'[s].want) /\ (\A x \in DOMAIN up'[s].want : Belongs(s, x))
          /\ up'[s].todo \subseteq DOMAIN up'[s].want
          /\ (\A x, y \in up'[s].names : SameName(x, y) => x = y)
          /\ (\A x \in DOMAIN up'[s].want : IsRecord(x) => x \in up'[s].names)
      BY <1>3, <2>3 DEF Underway
    <3>4. \A x \in DOMAIN up'[s].want \ up'[s].todo :
            x \in DOMAIN stack'[s] /\ stack'[s][x] = up'[s].want[x]
      <4>1. \A x \in DOMAIN up[s].want \ up[s].todo :
              x \in DOMAIN stack[s] /\ stack[s][x] = up[s].want[x]
        BY <2>3 DEF Underway
      <4>2. stack' = stack /\ up'[s].want = up[s].want /\ up'[s].todo = up[s].todo
        BY <1>2, <1>3
      <4> QED BY ONLY <4>1, <4>2, ZenonT(40)
    <3>5. ~up'[s].head
      BY <1>3
    <3> QED BY <3>2, <3>3, <3>4, <3>5 DEF Underway
  <2> QED BY <1>3, <2>1, <2>2, <2>3
<1>7. CurrentInv'
  BY <1>2 DEF CurrentInv
<1>8. OrderedInv'
  <2> SUFFICES ASSUME NEW c \in ordered \cap Companies, up'[<<"services", c>>].on
               PROVE  /\ ~up'[<<"zone", c>>].on
                      /\ \A x \in DOMAIN up'[<<"services", c>>].want : x.kind = "cname" => Protected(c, x)'
    BY <1>2 DEF OrderedInv
  <2>1. <<"services", c>> \in Stacks /\ <<"zone", c>> \in Stacks
    BY DEF Stacks
  <2>2. /\ up[<<"services", c>>].on /\ up'[<<"zone", c>>].on = up[<<"zone", c>>].on
        /\ up'[<<"services", c>>].want = up[<<"services", c>>].want
        /\ up'[<<"services", c>>].cover = up[<<"services", c>>].cover
    BY <1>3, <2>1
  <2>3. /\ ~up[<<"zone", c>>].on
        /\ \A x \in DOMAIN up[<<"services", c>>].want : x.kind = "cname" => Protected(c, x)
    BY <1>1, <2>2 DEF OrderedInv
  <2> QED BY <1>2, <2>2, <2>3 DEF Protected
<1> QED BY <1>5, <1>6, <1>7, <1>8 DEF RunInv

(* Nothing of the stacks changes.                                          *)
LEMMA IdleKeeps ==
  ASSUME RunInv, UNCHANGED <<registry, config, stack, up, current, ordered>> PROVE RunInv'
<1>1. StackInv'
  <2>1. StackInv /\ stack' = stack
    BY DEF RunInv
  <2> QED BY ONLY <2>1, Zenon DEF StackInv, IsFcn, Stacks, Companies, Belongs, Known
<1>2. UpInv'
  <2>1. UpInv /\ up' = up
    BY DEF RunInv
  <2>2. ASSUME NEW s \in Stacks PROVE IsUpdate(up'[s]) /\ Ending(s)' /\ (up'[s].on => Underway(s)')
    <3>1. IsUpdate(up[s]) /\ Ending(s) /\ (up[s].on => Underway(s))
      BY <2>1 DEF UpInv
    <3> QED BY <2>1, <3>1, SameUnderway, SameEnding
  <2>3. IsFcn(up)' /\ DOMAIN up' = Stacks
    BY <2>1 DEF UpInv, IsFcn
  <2> QED BY <2>2, <2>3 DEF UpInv
<1>3. CurrentInv'
  BY DEF RunInv, CurrentInv, Deploying, Accepted
<1>4. OrderedInv'
  BY DEF RunInv, OrderedInv, Protected
<1> QED BY <1>1, <1>2, <1>3, <1>4 DEF RunInv

(* An edit of the catalog while no registry is deployed: nothing runs.     *)
LEMMA NothingRuns ==
  ASSUME RunInv, ~Deploying, registry' = registry, UNCHANGED svars PROVE RunInv'
<1>1. StackInv /\ UpInv /\ CurrentInv /\ OrderedInv
  BY DEF RunInv
<1>2. UNCHANGED <<stack, up, current, ordered>>
  BY DEF svars
<1>3. StackInv'
  BY ONLY <1>1, <1>2, Zenon DEF StackInv, IsFcn, Stacks, Companies, Belongs, Known
<1>4. CurrentInv' /\ current = {}
  BY <1>1, <1>2 DEF CurrentInv
<1>5. UpInv'
  <2>1. ASSUME NEW s \in Stacks PROVE IsUpdate(up'[s]) /\ Ending(s)' /\ (up'[s].on => Underway(s)')
    <3>1. IsUpdate(up[s]) /\ Ending(s) /\ (up[s].on => Underway(s))
      BY <1>1 DEF UpInv
    <3>2. ASSUME Underway(s) PROVE Underway(s)'
      BY <1>2, <3>2 DEF Underway, Granted
    <3> QED BY <1>2, <3>1, <3>2, SameEnding
  <2>2. IsFcn(up)' /\ DOMAIN up' = Stacks
    BY <1>1, <1>2 DEF UpInv, IsFcn
  <2> QED BY <2>1, <2>2 DEF UpInv
<1>6. OrderedInv'
  BY <1>1, <1>2 DEF OrderedInv, Protected
<1> QED BY <1>3, <1>4, <1>5, <1>6 DEF RunInv

(* Write and Delete: one resource of a stack whose update is under way.    *)
LEMMA StackStepKeeps ==
  ASSUME RunInv, NEW s \in Stacks, up[s].on, UNCHANGED <<registry, config, current, ordered>>,
         NEW f, IsFcn(f), \A x \in DOMAIN f : Belongs(s, x), stack' = [stack EXCEPT ![s] = f],
         IsFcn(up)', DOMAIN up' = Stacks, \A o \in Stacks : o # s => up'[o] = up[o],
         IsUpdate(up'[s]), up'[s].on, Ending(s)', Underway(s)',
         up'[s].want = up[s].want, up'[s].cover = up[s].cover
  PROVE  RunInv'
<1>1. StackInv /\ UpInv /\ CurrentInv /\ OrderedInv
  BY DEF RunInv
<1>2. stack'[s] = f /\ (\A o \in Stacks : o # s => stack'[o] = stack[o]) /\ DOMAIN stack' = Stacks
  BY <1>1 DEF StackInv, IsFcn
<1>3. StackInv'
  <2>1. IsFcn(stack)'
    BY <1>1 DEF StackInv, IsFcn
  <2>2. ASSUME NEW o \in Stacks PROVE IsFcn(stack'[o]) /\ \A x \in DOMAIN stack'[o] : Belongs(o, x)
    <3>1. CASE o = s
      BY <1>2, <3>1
    <3>2. CASE o # s
      BY <1>1, <1>2, <3>2 DEF StackInv
    <3> QED BY <3>1, <3>2
  <2> QED BY <1>2, <2>1, <2>2 DEF StackInv
<1>4. UpInv'
  <2>1. ASSUME NEW o \in Stacks, o # s
        PROVE  IsUpdate(up'[o]) /\ Ending(o)' /\ (up'[o].on => Underway(o)')
    <3>1. IsUpdate(up[o]) /\ Ending(o) /\ (up[o].on => Underway(o))
      BY <1>1 DEF UpInv
    <3> QED BY <1>2, <2>1, <3>1, SameUnderway, SameEnding
  <2> QED BY <2>1 DEF UpInv
<1>5. CurrentInv'
  <2> SUFFICES ASSUME NEW o \in current
               PROVE  /\ o \in Stacks /\ ~up'[o].on /\ Deploying' /\ Accepted'
                      /\ stack'[o] = Declares(o, registry', config')
    BY DEF CurrentInv
  <2>1. /\ o \in Stacks /\ ~up[o].on /\ Deploying /\ Accepted
        /\ stack[o] = Declares(o, registry, config)
    BY <1>1 DEF CurrentInv
  <2> QED BY <1>2, <2>1 DEF Deploying, Accepted
<1>6. OrderedInv'
  <2> SUFFICES ASSUME NEW c \in ordered \cap Companies, up'[<<"services", c>>].on
               PROVE  /\ ~up'[<<"zone", c>>].on
                      /\ \A x \in DOMAIN up'[<<"services", c>>].want : x.kind = "cname" => Protected(c, x)'
    BY DEF OrderedInv
  <2> DEFINE services == <<"services", c>>  zone == <<"zone", c>>
  <2>1. services \in Stacks /\ zone \in Stacks /\ zone # services
    BY DEF Stacks
  <2>2. /\ up[services].on /\ up'[services].want = up[services].want
        /\ up'[services].cover = up[services].cover
    BY <2>1
  <2>3. /\ ~up[zone].on
        /\ \A x \in DOMAIN up[services].want : x.kind = "cname" => Protected(c, x)
    BY <1>1, <2>2 DEF OrderedInv
  <2>4. zone # s /\ up'[zone] = up[zone] /\ stack'[zone] = stack[zone]
    BY <1>2, <2>1, <2>3
  <2> QED BY <2>2, <2>3, <2>4 DEF Protected
<1> QED BY <1>3, <1>4, <1>5, <1>6 DEF RunInv

LEMMA WithIs ==
  ASSUME NEW f, NEW x, NEW v
  PROVE  /\ IsFcn(With(f, x, v)) /\ DOMAIN With(f, x, v) = {x} \cup DOMAIN f
         /\ With(f, x, v)[x] = v
         /\ \A y \in DOMAIN f : y # x => With(f, x, v)[y] = f[y]
BY DEF With, IsFcn

LEMMA RestrictIs ==
  ASSUME NEW f, NEW S
  PROVE  /\ IsFcn(Restrict(f, S)) /\ DOMAIN Restrict(f, S) = S
         /\ \A y \in S : Restrict(f, S)[y] = f[y]
BY DEF Restrict, IsFcn

LEMMA WriteKeeps ==
  ASSUME RunInv, NEW s \in Stacks, NEW x \in up[s].todo, Write(s, x) PROVE RunInv'
<1>1. StackInv /\ UpInv
  BY DEF RunInv
<1>2. up[s].on /\ Underway(s) /\ Ending(s) /\ IsUpdate(up[s])
  BY <1>1 DEF Write, Ready, UpInv
<1> DEFINE f == With(stack[s], x, up[s].want[x])
           u == [up[s] EXCEPT !.todo = up[s].todo \ {x}]
<1>3. UNCHANGED <<registry, config, current, ordered>>
  BY DEF Write, vars
<1>4. stack' = [stack EXCEPT ![s] = f]
  BY DEF Write
<1>5. up' = [up EXCEPT ![s] = u]
  BY Zenon DEF Write
<1>6. /\ IsUpdate(u) /\ u.todo = up[s].todo \ {x}
      /\ u.on = up[s].on /\ u.why = up[s].why /\ u.want = up[s].want /\ u.grants = up[s].grants
      /\ u.cover = up[s].cover /\ u.names = up[s].names /\ u.refused = up[s].refused
      /\ u.head = up[s].head /\ u.fresh = up[s].fresh /\ u.excused = up[s].excused
  BY <1>2, TodoIs, Zenon
<1> HIDE DEF u
<1>7. IsFcn(up)' /\ DOMAIN up' = Stacks /\ up'[s] = u /\ \A o \in Stacks : o # s => up'[o] = up[o]
  BY <1>1, <1>5, SetUp
<1>8. /\ IsFcn(f) /\ DOMAIN f = {x} \cup DOMAIN stack[s] /\ f[x] = up[s].want[x]
      /\ \A y \in DOMAIN stack[s] : y # x => f[y] = stack[s][y]
  <2> DEFINE g == stack[s]  v == up[s].want[x]
  <2>1. f = With(g, x, v)
    OBVIOUS
  <2> HIDE DEF g, v, f
  <2>2. /\ IsFcn(f) /\ DOMAIN f = {x} \cup DOMAIN g /\ f[x] = v
        /\ \A y \in DOMAIN g : y # x => f[y] = g[y]
    BY ONLY <2>1 DEF With, IsFcn
  <2> QED BY <2>2 DEF g, v
<1> HIDE DEF f
<1>9. \A y \in DOMAIN f : Belongs(s, y)
  BY <1>1, <1>2, <1>8 DEF StackInv, Underway
<1>10. stack'[s] = f
  BY <1>1, <1>4 DEF StackInv, IsFcn
<1>11. Ending(s)'
  BY <1>2, <1>6, <1>7 DEF Ending
<1>12. Underway(s)'
  <2>1. \A y \in DOMAIN u.want \ u.todo : y \in DOMAIN f /\ f[y] = u.want[y]
    BY <1>2, <1>6, <1>8 DEF Underway
  <2>2. u.fresh => /\ u.refused => u.excused
                   /\ \A y \in DOMAIN u.want : Needs(y) \subseteq u.grants[OwnerOf(y)]
    BY <1>2, <1>6 DEF Underway, Granted, OwnerOf
  <2>3. u.head => Deploying' /\ Accepted'
    BY <1>2, <1>3, <1>6 DEF Underway, Deploying, Accepted
  <2>4. u.head /\ ~u.refused => u.want = Declares(s, registry', config')
    BY <1>2, <1>3, <1>6 DEF Underway
  <2>5. /\ IsFcn(u.want) /\ (\A y \in DOMAIN u.want : Belongs(s, y)) /\ u.todo \subseteq DOMAIN u.want
        /\ (\A y, z \in u.names : SameName(y, z) => y = z)
        /\ (\A y \in DOMAIN u.want : IsRecord(y) => y \in u.names)
    BY <1>2, <1>6 DEF Underway
  <2>6. \A y \in DOMAIN u.want : Granted(s, y)' <=> Needs(y) \subseteq u.grants[OwnerOf(y)]
    BY <1>7 DEF Granted, OwnerOf
  <2> QED BY <1>7, <1>10, <2>1, <2>2, <2>3, <2>4, <2>5, <2>6 DEF Underway
<1> QED BY <1>2, <1>3, <1>4, <1>6, <1>7, <1>8, <1>9, <1>11, <1>12, StackStepKeeps

LEMMA DeleteKeeps ==
  ASSUME RunInv, NEW s \in Stacks, NEW x \in DOMAIN stack[s], Delete(s, x) PROVE RunInv'
<1>1. StackInv /\ UpInv
  BY DEF RunInv
<1>2. up[s].on /\ Underway(s) /\ Ending(s) /\ IsUpdate(up[s]) /\ x \notin DOMAIN up[s].want
  BY <1>1 DEF Delete, UpInv
<1> DEFINE f == Restrict(stack[s], DOMAIN stack[s] \ {x})
<1>3. UNCHANGED <<registry, config, up, current, ordered>>
  BY DEF Delete, vars
<1>4. stack' = [stack EXCEPT ![s] = f]
  BY DEF Delete
<1>5. /\ IsFcn(f) /\ DOMAIN f = DOMAIN stack[s] \ {x} /\ \A y \in DOMAIN f : f[y] = stack[s][y]
  BY RestrictIs
<1> HIDE DEF f
<1>6. \A y \in DOMAIN f : Belongs(s, y)
  BY <1>1, <1>5 DEF StackInv
<1>7. stack'[s] = f
  BY <1>1, <1>4 DEF StackInv, IsFcn
<1>8. Underway(s)'
  BY <1>2, <1>3, <1>5, <1>7 DEF Underway, Granted, Deploying, Accepted
<1>9. Ending(s)' /\ IsFcn(up)' /\ DOMAIN up' = Stacks
  BY <1>1, <1>2, <1>3, SameEnding DEF UpInv, IsFcn
<1> QED BY <1>2, <1>3, <1>4, <1>5, <1>6, <1>8, <1>9, StackStepKeeps

-----------------------------------------------------------------------------
(* An update that begins. *)

LEMMA SomeDeclared ==
  ASSUME NEW r, NEW cfg, NEW s, NEW d \in Outcomes(s, r, cfg)
  PROVE  /\ d \subseteq DOMAIN Declares(s, r, cfg) /\ IsFcn(Declares(s, r, cfg))
         /\ ~CutShort(s, r, cfg) => d = DOMAIN Declares(s, r, cfg)
<1> DEFINE all == {p.wants : p \in Parts(s, r, cfg)}
<1>1. Declares(s, r, cfg) = Merge(all)
  BY DEF Declares
<1>2. \A p \in Parts(s, r, cfg) : p.before \subseteq DOMAIN p.wants
  <2>1. ASSUME NEW z PROVE deployZone(r, cfg, z).before \subseteq DOMAIN deployZone(r, cfg, z).wants
    BY DEF deployZone
  <2>2. ASSUME NEW t PROVE DeployTunnel(r, s[2], t).before \subseteq DOMAIN DeployTunnel(r, s[2], t).wants
    BY DEF DeployTunnel
  <2> QED BY <2>1, <2>2 DEF Parts
<1>3. \A p \in Parts(s, r, cfg) : p.wants \in all
  OBVIOUS
<1> HIDE DEF all
<1>4. \A x : x \in DOMAIN Merge(all) <=> \E f \in all : x \in DOMAIN f
  BY MergeIs
<1>5. UNION {p.before : p \in Parts(s, r, cfg)} \subseteq DOMAIN Declares(s, r, cfg)
  BY <1>1, <1>2, <1>3, <1>4
<1> QED BY <1>1, <1>5, MergeIs DEF Outcomes

(* The DNS record of a host: its zone, and where it leads.                 *)
LEMMA NameIs ==
  ASSUME NEW r, NEW cfg, Loaded(r, cfg), NEW c, NEW t \in TunnelsOf(cfg, c),
         NEW x \in DOMAIN TunnelNew(r, t), x.kind = "cname"
  PROVE  /\ x.host \in DNSNames(t) /\ x.key = TunnelKey(t)
         /\ x.zone = ZoneOf(Managed(r), x.host) /\ x.zone \in ZonesOf(r, c)
         /\ TunnelNew(r, t)[x] = "origin" <=> x.host \in ActiveOrigins(r, x.zone)
<1>1. OfTunnel(t, x) /\ TunnelNew(r, t)[x] = originCNAMEs(r, x.host)
  BY TunnelDeclares
<1>2. PICK h \in DNSNames(t) : x = Resource("cname", TunnelKey(t), RecordZone(t, h), h)
  BY <1>1, ResourceIs DEF OfTunnel
<1>3. x.host = h /\ x.key = TunnelKey(t) /\ x.zone = RecordZone(t, h)
  BY <1>2, ResourceIs
<1>4. t \in cfg.tunnels /\ CompanyOf[t.account] = c
  BY DEF TunnelsOf
<1>5. /\ RecordZone(t, h) = ZoneOf(Managed(r), h) /\ RecordZone(t, h) \in Managed(r)
      /\ r.owner[RecordZone(t, h)] = t.account
  BY <1>4, LoadedTunnel
<1> QED BY <1>1, <1>3, <1>4, <1>5 DEF ZonesOf, originCNAMEs

(* A company whose zone stack is current protects the names of any part of *)
(* its services stack.                                                     *)
LEMMA ZoneFirst ==
  ASSUME NEW r, NEW cfg, Loaded(r, cfg), NEW c, NEW t \in TunnelsOf(cfg, c),
         NEW x \in DOMAIN TunnelNew(r, t), x.kind = "cname"
  PROVE  /\ <<x.zone, x.host>> \in {p \in r.waf \X HostSet : p[2] \in cfg.waf[p[1]]} =>
              LET waf == Resource("waf", NoKey, x.zone, NoHost)
              IN  /\ waf \in DOMAIN Declares(<<"zone", c>>, r, cfg)
                  /\ x.host \in Declares(<<"zone", c>>, r, cfg)[waf]
         /\ TunnelNew(r, t)[x] = "origin" =>
              Resource("aop", NoKey, x.zone, NoHost) \in DOMAIN Declares(<<"zone", c>>, r, cfg)
<1>1. x.zone \in ZonesOf(r, c) /\ (TunnelNew(r, t)[x] = "origin" => ActiveOrigins(r, x.zone) # {})
  BY NameIs
<1> DEFINE waf == Resource("waf", NoKey, x.zone, NoHost)
           aop == Resource("aop", NoKey, x.zone, NoHost)
           d   == Declares(<<"zone", c>>, r, cfg)
<1>2. waf.kind = "waf" /\ waf.zone = x.zone
  BY ResourceIs
<1>3. x.zone \in r.waf => OfZone(r, x.zone, waf)
  BY DEF OfZone
<1>4. TunnelNew(r, t)[x] = "origin" => OfZone(r, x.zone, aop)
  BY <1>1 DEF OfZone
<1> HIDE DEF waf, aop
<1>5. x.zone \in r.waf => waf \in DOMAIN d /\ d[waf] = cfg.waf[x.zone]
  BY <1>1, <1>2, <1>3, ZoneStackDeclares
<1>6. TunnelNew(r, t)[x] = "origin" => aop \in DOMAIN d
  BY <1>1, <1>4, ZoneStackDeclares
<1> HIDE DEF d
<1>7. <<x.zone, x.host>> \in {p \in r.waf \X HostSet : p[2] \in cfg.waf[p[1]]} =>
        x.zone \in r.waf /\ x.host \in cfg.waf[x.zone]
  OBVIOUS
<1> QED BY <1>5, <1>6, <1>7 DEF waf, aop, d

LEMMA DeployKeeps ==
  ASSUME Derived, ProtoInv, RunInv, NEW s \in Stacks, Deploy(s) PROVE RunInv'
<1>1. StackInv /\ UpInv /\ CurrentInv /\ OrderedInv
  BY DEF RunInv
<1> DEFINE r == registry  cfg == config
           all == Declares(s, r, cfg)
           cut == CutShort(s, r, cfg)
           left == LeftToApply(s, r, cfg)
           want(d) == Restrict(all, d)
           grants == [a \in AccountsOf(s[2]) |-> TokenGrants(prototypes[a], a, s[1])]
           names == {x \in UNION {DOMAIN Declares(o, r, cfg) : o \in Stacks} : x.kind \in {"record", "cname"}}
           cover == {p \in r.waf \X HostSet : p[2] \in cfg.waf[p[1]]}
           fresh == \A a \in AccountsOf(s[2]) : prototypes[a] = r
           update(d) ==
             [on |-> TRUE, why |-> "running", want |-> want(d), grants |-> grants,
              todo |-> Differing(s, want(d)), cover |-> cover, names |-> names,
              refused |-> cut, head |-> TRUE, fresh |-> fresh, excused |-> left]
<1>2. /\ Deploying /\ Accepted /\ ~up[s].on
      /\ \A a \in AccountsOf(s[2]) : prototypes[a] # NoRegistry
      /\ UNCHANGED <<registry, config, stack>> /\ current' = current \ {s}
  BY DEF Deploy, vars
<1>3. ordered' = IF \/ s[1] = "services" /\ (<<"zone", s[2]>> \notin current \/ up[<<"zone", s[2]>>].on)
                    \/ s[1] = "zone" /\ up[<<"services", s[2]>>].on
                 THEN ordered \ {s[2]} ELSE ordered
  BY DEF Deploy
<1>4. PICK d \in Outcomes(s, r, cfg) : up' = [up EXCEPT ![s] = update(d)]
  BY Zenon DEF Deploy
<1>5. d \subseteq DOMAIN all /\ IsFcn(all) /\ (~cut => d = DOMAIN all)
  BY SomeDeclared
<1>6. Loaded(r, cfg)
  BY <1>2, LoadedIs
<1> DEFINE w == want(d)  u == update(d)
<1>7. /\ IsUpdate(u) /\ u.on = TRUE /\ u.why = "running" /\ u.want = w /\ u.grants = grants
      /\ u.todo = Differing(s, w) /\ u.cover = cover /\ u.names = names
      /\ u.refused = cut /\ u.head = TRUE /\ u.fresh = fresh /\ u.excused = left
  <2> HIDE DEF want, grants, names, cover, fresh, cut, left
  <2> QED BY DEF IsUpdate
<1>8. /\ IsFcn(w)
      /\ \A x \in DOMAIN w : x \in DOMAIN Declares(s, r, cfg) /\ w[x] = Declares(s, r, cfg)[x]
      /\ ~cut => w = Declares(s, r, cfg)
  <2> HIDE DEF cut, all
  <2>1. IsFcn(w) /\ DOMAIN w = d /\ \A x \in d : w[x] = all[x]
    BY RestrictIs
  <2>2. ~cut => w = all
    BY <1>5, <2>1 DEF IsFcn
  <2> QED BY <1>5, <2>1, <2>2 DEF all
<1>9. up' = [up EXCEPT ![s] = u]
  BY <1>4
<1> HIDE DEF update, want, u, w
<1>10. IsFcn(up)' /\ DOMAIN up' = Stacks /\ up'[s] = u /\ \A o \in Stacks : o # s => up'[o] = up[o]
  BY <1>1, <1>9, SetUp
<1>11. \A x, y \in names : SameName(x, y) => x = y
  BY <1>6, DeclaredOnce DEF IsRecord
<1>12. \A x \in DOMAIN w : IsRecord(x) => x \in names
  BY <1>8 DEF IsRecord
<1>13. \A x \in DOMAIN w : Belongs(s, x)
  BY <1>6, <1>8, DeclaredBelongs
<1>14. fresh => (cut => left) /\ \A x \in DOMAIN w : Needs(x) \subseteq grants[OwnerOf(x)]
  <2> SUFFICES ASSUME fresh
               PROVE  (cut => left) /\ \A x \in DOMAIN w : Needs(x) \subseteq grants[OwnerOf(x)]
    OBVIOUS
  <2>1. \A a \in AccountsOf(s[2]) : prototypes[a] = r /\ Presets[r][a] # {}
    BY <1>2 DEF ProtoInv, AccountsOf
  <2>2. cut => left
    <3>1. ASSUME NEW p \in Parts(s, r, cfg), p.refused PROVE left
      BY <1>6, <2>1, <3>1, NoneRefused
    <3>2. NameTwice(s, r, cfg) => left
      BY DEF LeftToApply
    <3> HIDE DEF left
    <3> QED BY <3>1, <3>2 DEF CutShort
  <2>3. ASSUME NEW x \in DOMAIN w PROVE Needs(x) \subseteq grants[OwnerOf(x)]
    <3>1. OwnerOf(x) \in AccountsOf(s[2]) /\ Needs(x) \subseteq TokenGrants(r, OwnerOf(x), s[1])
      BY <1>6, <1>8, <2>1, TokensSuffice
    <3>2. grants[OwnerOf(x)] = TokenGrants(r, OwnerOf(x), s[1])
      BY <2>1, <3>1
    <3> QED BY <3>1, <3>2
  <2> QED BY <2>2, <2>3
<1> DEFINE zoneStack == <<"zone", s[2]>>
<1>15. s[1] = "services" /\ s[2] \in ordered' =>
         \A x \in DOMAIN w : x.kind = "cname" =>
           LET waf == Resource("waf", NoKey, x.zone, NoHost)
               aop == Resource("aop", NoKey, x.zone, NoHost)
           IN  /\ <<x.zone, x.host>> \in cover => waf \in DOMAIN stack[zoneStack] /\ x.host \in stack[zoneStack][waf]
               /\ w[x] = "origin" => aop \in DOMAIN stack[zoneStack]
  <2> SUFFICES ASSUME s[1] = "services", s[2] \in ordered', NEW x \in DOMAIN w, x.kind = "cname"
               PROVE  LET waf == Resource("waf", NoKey, x.zone, NoHost)
                          aop == Resource("aop", NoKey, x.zone, NoHost)
                      IN  /\ <<x.zone, x.host>> \in cover =>
                               waf \in DOMAIN stack[zoneStack] /\ x.host \in stack[zoneStack][waf]
                          /\ w[x] = "origin" => aop \in DOMAIN stack[zoneStack]
    OBVIOUS
  <2>1. s = <<"services", s[2]>>
    BY DEF Stacks
  <2>2. stack[zoneStack] = Declares(zoneStack, r, cfg)
    BY <1>1, <1>3 DEF CurrentInv
  <2>3. PICK t \in TunnelsOf(cfg, s[2]) : OfTunnel(t, x) /\ w[x] = TunnelNew(r, t)[x]
    BY <1>8, <2>1, ServicesStackDeclares
  <2>4. x \in DOMAIN TunnelNew(r, t)
    BY <2>3, TunnelDeclares
  <2> HIDE DEF cover
  <2> QED BY <1>6, <2>2, <2>3, <2>4, ZoneFirst DEF cover
<1>16. Ending(s)'
  BY <1>7, <1>10 DEF Ending
<1>17. Underway(s)'
  <2>1. Deploying' /\ Accepted'
    BY <1>2 DEF Deploying, Accepted
  <2>2. \A x : Granted(s, x)' <=> Needs(x) \subseteq u.grants[OwnerOf(x)]
    BY <1>10 DEF Granted, OwnerOf
  <2>3. u.todo \subseteq DOMAIN w /\ \A x \in DOMAIN w \ u.todo : x \in DOMAIN stack[s] /\ stack[s][x] = w[x]
    BY <1>7 DEF Differing
  <2>4. ~u.refused => u.want = Declares(s, registry', config')
    BY <1>2, <1>5, <1>7, <1>8
  <2> HIDE DEF grants, names, fresh, cut, left, all, r, cfg
  <2> QED BY <1>2, <1>7, <1>8, <1>10, <1>11, <1>12, <1>13, <1>14, <2>1, <2>2, <2>3, <2>4 DEF Underway
<1>18. StackInv'
  BY ONLY <1>1, <1>2, Zenon DEF StackInv, IsFcn, Stacks, Companies, Belongs, Known
<1>19. UpInv'
  <2>1. ASSUME NEW o \in Stacks, o # s
        PROVE  IsUpdate(up'[o]) /\ Ending(o)' /\ (up'[o].on => Underway(o)')
    <3>1. IsUpdate(up[o]) /\ Ending(o) /\ (up[o].on => Underway(o))
      BY <1>1 DEF UpInv
    <3> QED BY <1>2, <1>10, <2>1, <3>1, SameUnderway, SameEnding
  <2> QED BY <1>7, <1>10, <1>16, <1>17, <2>1 DEF UpInv
<1>20. CurrentInv'
  BY <1>1, <1>2, <1>10 DEF CurrentInv, Deploying, Accepted
<1>21. OrderedInv'
  <2> SUFFICES ASSUME NEW c \in ordered' \cap Companies, up'[<<"services", c>>].on
               PROVE  /\ ~up'[<<"zone", c>>].on
                      /\ \A x \in DOMAIN up'[<<"services", c>>].want : x.kind = "cname" => Protected(c, x)'
    BY DEF OrderedInv
  <2> DEFINE services == <<"services", c>>  zone == <<"zone", c>>
  <2>1. services \in Stacks /\ zone \in Stacks /\ zone # services /\ c \in ordered
    BY <1>3 DEF Stacks
  <2>2. CASE s = services
    <3>1. s[1] = "services" /\ s[2] = c /\ zone = zoneStack
      BY <2>2
    <3>2. zone \in current /\ ~up[zone].on
      BY <1>3, <3>1
    <3>3. up'[zone] = up[zone] /\ up'[services] = u
      BY <1>10, <2>1, <2>2
    <3>4. \A x \in DOMAIN w : x.kind = "cname" => Protected(c, x)'
      BY <1>2, <1>7, <1>15, <3>1, <3>3 DEF Protected
    <3> QED BY <1>7, <3>2, <3>3, <3>4
  <2>3. CASE s # services
    <3>1. up'[services] = up[services] /\ up[services].on
      BY <1>10, <2>1, <2>3
    <3>2. s # zone
      BY <1>3, <3>1
    <3>3. up'[zone] = up[zone]
      BY <1>10, <2>1, <3>2
    <3>4. ~up[zone].on /\ \A x \in DOMAIN up[services].want : x.kind = "cname" => Protected(c, x)
      BY <1>1, <2>1, <3>1 DEF OrderedInv
    <3> QED BY <1>2, <3>1, <3>3, <3>4 DEF Protected
  <2> QED BY <2>2, <2>3
<1> QED BY <1>18, <1>19, <1>20, <1>21 DEF RunInv

-----------------------------------------------------------------------------
(* How updates end. *)

LEMMA DeniedKeeps ==
  ASSUME RunInv, NEW s \in Stacks, NEW x \in up[s].todo, Denied(s, x) PROVE RunInv'
<1>1. up[s].on /\ ~Granted(s, x) /\ End(s, "denied", FALSE)
      /\ UNCHANGED <<registry, config, stack, ordered>> /\ current' = current
  BY DEF Denied, Ready, vars
<1>2. Underway(s)
  BY <1>1 DEF RunInv, UpInv
<1>3. ~up[s].fresh
  BY <1>1, <1>2 DEF Underway
<1>4. Truly(s, "denied", FALSE) /\ NowCurrent(s)
  BY <1>1, <1>3 DEF Truly, NowCurrent
<1> QED BY <1>1, <1>4, EndKeeps, Zenon

LEMMA ClashKeeps ==
  ASSUME RunInv, NEW s \in Stacks, NEW x \in up[s].todo, Clash(s, x) PROVE RunInv'
<1> DEFINE excused == InTheWay(s, x) \cap up[s].names = {}
<1>1. up[s].on /\ InTheWay(s, x) # {} /\ End(s, "clash", excused)
      /\ UNCHANGED <<registry, config, stack, ordered>> /\ current' = current
  BY DEF Clash, Ready, vars
<1>2. Underway(s) /\ StackInv
  BY <1>1 DEF RunInv, UpInv
<1>3. IsRecord(x) /\ x \notin DOMAIN stack[s] /\ InTheWay(s, x) = RecordsOf(x.zone, x.host)
  BY <1>1 DEF InTheWay, IsRecord
<1>4. x \in DOMAIN up[s].want /\ x \in up[s].names /\ Belongs(s, x)
  BY <1>2, <1>3 DEF Underway
<1>5. ASSUME NEW y \in InTheWay(s, x), y \in up[s].names PROVE FALSE
  <2>1. y \in Written /\ SameName(x, y)
    BY <1>3, <1>5 DEF RecordsOf, SameName
  <2>2. y = x
    BY <1>2, <1>4, <1>5, <2>1 DEF Underway
  <2>3. PICK o \in Stacks : x \in DOMAIN stack[o]
    BY <2>1, <2>2 DEF Written
  <2>4. o = s
    BY <1>2, <1>4, <2>3, OneStack DEF StackInv
  <2> QED BY <1>3, <2>3, <2>4
<1>6. excused
  BY <1>5
<1> HIDE DEF excused
<1>7. Truly(s, "clash", excused) /\ NowCurrent(s)
  BY <1>1, <1>6 DEF Truly, NowCurrent
<1> QED BY <1>1, <1>7, EndKeeps, Zenon

LEMMA StopKeeps ==
  ASSUME RunInv, NEW s \in Stacks, Stop(s) PROVE RunInv'
<1>1. End(s, "stopped", FALSE) /\ UNCHANGED <<registry, config, stack, ordered>> /\ current' = current
  BY DEF Stop, vars
<1>2. Truly(s, "stopped", FALSE) /\ NowCurrent(s)
  BY <1>1 DEF Truly, NowCurrent
<1> QED BY <1>1, <1>2, EndKeeps, Zenon

LEMMA FinishKeeps ==
  ASSUME RunInv, NEW s \in Stacks, Finish(s) PROVE RunInv'
<1>1. up[s].on /\ up[s].todo = {} /\ UNCHANGED <<registry, config, stack, ordered>>
  BY DEF Finish, vars
<1>2. Underway(s) /\ StackInv
  BY <1>1 DEF RunInv, UpInv
<1>3. CASE up[s].refused
  <2>1. End(s, "refused", up[s].excused) /\ current' = current
    BY <1>3 DEF Finish
  <2>2. up[s].fresh => up[s].excused
    BY <1>2, <1>3 DEF Underway
  <2>3. Truly(s, "refused", up[s].excused) /\ NowCurrent(s)
    BY <2>1, <2>2 DEF Truly, NowCurrent
  <2> QED BY <1>1, <2>1, <2>3, EndKeeps, Zenon
<1>4. CASE ~up[s].refused
  <2>1. /\ DOMAIN stack[s] \subseteq DOMAIN up[s].want /\ End(s, "done", FALSE)
        /\ current' = IF up[s].head THEN current \cup {s} ELSE current
    BY <1>4 DEF Finish
  <2>2. up[s].head => Deploying /\ Accepted /\ stack[s] = Declares(s, registry, config)
    <3> SUFFICES ASSUME up[s].head PROVE Deploying /\ Accepted /\ stack[s] = Declares(s, registry, config)
      OBVIOUS
    <3>1. Deploying /\ Accepted /\ up[s].want = Declares(s, registry, config)
      BY <1>2, <1>4 DEF Underway
    <3>2. IsFcn(stack[s]) /\ IsFcn(up[s].want)
      BY <1>2 DEF StackInv, Underway
    <3>3. /\ \A x \in DOMAIN up[s].want : x \in DOMAIN stack[s] /\ stack[s][x] = up[s].want[x]
          /\ DOMAIN stack[s] = DOMAIN up[s].want
      BY <1>1, <1>2, <2>1 DEF Underway
    <3>4. stack[s] = up[s].want
      BY <3>2, <3>3 DEF IsFcn
    <3> QED BY <3>1, <3>4
  <2>3. Truly(s, "done", FALSE) /\ NowCurrent(s)
    BY <2>1, <2>2 DEF Truly, NowCurrent
  <2> QED BY <1>1, <2>1, <2>3, EndKeeps, Zenon
<1> QED BY <1>3, <1>4

-----------------------------------------------------------------------------
(* The invariant. *)

LEMMA EstateInit ==
  ASSUME SInit PROVE EstateInv
<1>1. Derived /\ ProtoInv
  BY DerivedInit, ProtoInit
<1>2. PICK old \in IF Deploying /\ Accepted
                   THEN {o \in Founded :
                           /\ \A a \in DOMAIN CompanyOf : CompanyOf[a] \in o => Presets[registry][a] # {}
                           /\ \A s \in Stacks : s[2] \in o => ~CutShort(s, registry, config)}
                   ELSE {{}} :
        stack = [s \in Stacks |-> IF s[2] \in old THEN Declares(s, registry, config) ELSE Nothing]
  BY DEF SInit
<1>3. up = [s \in Stacks |-> Ended("never run")] /\ current = {}
  BY DEF SInit
<1>4. StackInv
  <2>1. ASSUME NEW s \in Stacks PROVE IsFcn(stack[s]) /\ \A x \in DOMAIN stack[s] : Belongs(s, x)
    <3>1. CASE s[2] \in old
      <4>1. Loaded(registry, config)
        BY <1>1, <1>2, <3>1, LoadedIs
      <4>2. stack[s] = Declares(s, registry, config)
        BY <1>2, <3>1
      <4> QED BY <4>1, <4>2, MergeIs, DeclaredBelongs DEF Declares
    <3>2. CASE s[2] \notin old
      <4>1. stack[s] = Nothing
        BY <1>2, <3>2
      <4> QED BY <4>1 DEF Nothing, IsFcn
    <3> QED BY <3>1, <3>2
  <2>2. IsFcn(stack) /\ DOMAIN stack = Stacks
    BY <1>2 DEF IsFcn
  <2> QED BY <2>1, <2>2 DEF StackInv
<1>5. ASSUME NEW s \in Stacks PROVE IsUpdate(up[s]) /\ up[s].on = FALSE /\ up[s].why = "never run"
  BY <1>3 DEF Ended, IsUpdate
<1>6. UpInv
  BY <1>3, <1>5 DEF UpInv, IsFcn, Ending
<1>7. CurrentInv /\ OrderedInv
  <2>1. \A c \in Companies : <<"services", c>> \in Stacks
    BY DEF Stacks
  <2> QED BY <1>3, <1>5, <2>1 DEF CurrentInv, OrderedInv
<1> QED BY <1>1, <1>4, <1>6, <1>7 DEF EstateInv, RunInv

LEMMA EstateNext ==
  ASSUME EstateInv, [SNext]_<<vars, svars>> PROVE EstateInv'
<1>1. Derived /\ ProtoInv /\ RunInv
  BY DEF EstateInv
<1>2. Derived' /\ ProtoInv'
  BY <1>1, DerivedNext, ProtoNext
<1>3. ASSUME EditCatalog PROVE RunInv'
  <2>1. CASE Deploying
    BY <1>1, <1>3, <2>1, EditKeeps DEF EditCatalog
  <2>2. CASE ~Deploying
    <3>1. UNCHANGED svars
      BY <1>3, <2>2 DEF EditCatalog
    <3>2. registry' = registry
      BY <1>3 DEF EditCatalog, AddHost, RemoveHost, Load
    <3> QED BY <1>1, <2>2, <3>1, <3>2, NothingRuns
  <2> QED BY <2>1, <2>2
<1>4. ASSUME EditRegistry PROVE RunInv'
  BY <1>1, <1>4, EditKeeps DEF EditRegistry
<1>5. ASSUME NEW a \in DOMAIN CompanyOf, DeployPrototypes(a) PROVE RunInv'
  BY <1>1, <1>5, IdleKeeps DEF DeployPrototypes, vars
<1>6. ASSUME UNCHANGED <<vars, svars>> PROVE RunInv'
  BY <1>1, <1>6, IdleKeeps DEF vars, svars
<1>7. ASSUME NEW s \in Stacks, Deploy(s) PROVE RunInv'
  BY <1>1, <1>7, DeployKeeps
<1>8. ASSUME NEW s \in Stacks, Finish(s) PROVE RunInv'
  BY <1>1, <1>8, FinishKeeps
<1>9. ASSUME NEW s \in Stacks, Stop(s) PROVE RunInv'
  BY <1>1, <1>9, StopKeeps
<1>10. ASSUME NEW s \in Stacks, NEW x \in up[s].todo, Write(s, x) \/ Denied(s, x) \/ Clash(s, x)
       PROVE  RunInv'
  BY <1>1, <1>10, WriteKeeps, DeniedKeeps, ClashKeeps
<1>11. ASSUME NEW s \in Stacks, NEW x \in DOMAIN stack[s], Delete(s, x) PROVE RunInv'
  BY <1>1, <1>11, DeleteKeeps
<1>12. RunInv'
  BY <1>3, <1>4, <1>5, <1>6, <1>7, <1>8, <1>9, <1>10, <1>11, Steps
<1> QED BY <1>2, <1>12 DEF EstateInv

(* What every reachable state of the estate satisfies, on which the        *)
(* theorems below rest: what a stack holds, or an update is about to       *)
(* write, is its own, comes from an accepted configuration, and stays      *)
(* protected (zonestack.Deploy, services.Deploy, under the engine).        *)
THEOREM EstateInvariant == SSpec => []EstateInv
<1>1. SInit => EstateInv
  BY EstateInit
<1>2. EstateInv /\ [SNext]_<<vars, svars>> => EstateInv'
  BY EstateNext
<1> QED BY <1>1, <1>2, PTL DEF SSpec

(* A token minted from the prototypes of the registry an update runs with  *)
(* is never denied: presets.build grants, kind by kind, what zone.New and  *)
(* tunnel.New register, for every zone of every account. The zones that    *)
(* need Zone WAF Write or Bot Management Write are named in the zone row by *)
(* the estate, which is assumed to name all of them (EstateRows).          *)
THEOREM NeverDeniedHolds == SSpec => []NeverDenied
<1>1. EstateInv => NeverDenied
  BY DEF EstateInv, RunInv, UpInv, Ending, NeverDenied
<1> QED BY <1>1, EstateInvariant, PTL

(* With such tokens a program that zonestack.Deploy, services.Deploy or    *)
(* tunnel.New refuses half way has a zone whose blocks Zone.Contributions  *)
(* or zone.New does not take, or two resources of one name: config.Load and *)
(* the presets refuse every other reason, as a zone without an id, a tunnel *)
(* cut off from its zone, and a rule that another one shadows.             *)
THEOREM NeverHalfDoneHolds == SSpec => []NeverHalfDone
<1>1. EstateInv => NeverHalfDone
  BY DEF EstateInv, RunInv, UpInv, Ending, NeverHalfDone
<1> QED BY <1>1, EstateInvariant, PTL

(* Only a record left from an earlier configuration is ever in the way of  *)
(* another: Load's refusals keep the records of one configuration apart.   *)
THEOREM ClashIsLeftoverHolds == SSpec => []ClashIsLeftover
<1>1. EstateInv => ClashIsLeftover
  BY DEF EstateInv, RunInv, UpInv, Ending, ClashIsLeftover
<1> QED BY <1>1, EstateInvariant, PTL

(* Only Write changes what a record of a services stack leads to.          *)
LEMMA OnlyWrites ==
  ASSUME EstateInv, [SNext]_<<vars, svars>>, NEW s \in Stacks, NEW x \in DOMAIN stack'[s],
         x \notin DOMAIN stack[s] \/ stack'[s][x] # stack[s][x]
  PROVE  Write(s, x) /\ x \in up[s].todo
<1>1. IsFcn(stack) /\ DOMAIN stack = Stacks
  BY DEF EstateInv, RunInv, StackInv
<1>2. stack' # stack
  OBVIOUS
<1>3. \/ \E o \in Stacks : \E y \in up[o].todo : Write(o, y)
      \/ \E o \in Stacks : \E y \in DOMAIN stack[o] : Delete(o, y)
  BY <1>2, Steps DEF EditCatalog, EditRegistry, Edited, DeployPrototypes, Deploy, Finish, Stop,
                     Denied, Clash, svars
<1>4. ASSUME NEW o \in Stacks, NEW y \in DOMAIN stack[o], Delete(o, y) PROVE FALSE
  <2> DEFINE f == Restrict(stack[o], DOMAIN stack[o] \ {y})
  <2>1. stack' = [stack EXCEPT ![o] = f]
    BY <1>4 DEF Delete
  <2>2. DOMAIN f = DOMAIN stack[o] \ {y} /\ \A z \in DOMAIN f : f[z] = stack[o][z]
    BY RestrictIs
  <2> HIDE DEF f
  <2> QED BY <1>1, <2>1, <2>2
<1>5. ASSUME NEW o \in Stacks, NEW y \in up[o].todo, Write(o, y) PROVE Write(s, x) /\ x \in up[s].todo
  <2> DEFINE g == stack[o]  v == up[o].want[y]  f == With(g, y, v)
  <2>1. stack' = [stack EXCEPT ![o] = f]
    BY <1>5 DEF Write
  <2> HIDE DEF g, v
  <2>2. DOMAIN f = {y} \cup DOMAIN g /\ \A z \in DOMAIN g : z # y => f[z] = g[z]
    BY ONLY DEF With
  <2> HIDE DEF f
  <2>3. o = s /\ x = y
    BY <1>1, <2>1, <2>2 DEF g
  <2> QED BY <1>5, <2>3
<1> QED BY <1>3, <1>4, <1>5

(* A company that applies its zone stack first never makes a name lead     *)
(* anywhere before it is protected there: services.Deploy after            *)
(* zonestack.Deploy, whatever was left half done before, and edits         *)
(* included.                                                               *)
THEOREM ProtectedFirstHolds == SSpec => ProtectedFirst
<1>1. ASSUME EstateInv, [SNext]_<<vars, svars>>
      PROVE  \A s \in Stacks : \A x \in DOMAIN stack'[s] :
               (/\ x.kind = "cname" /\ s[2] \in ordered
                /\ x \notin DOMAIN stack[s] \/ stack'[s][x] # stack[s][x])
                 => /\ <<x.zone, x.host>> \in up[s].cover => WafCovers(x.zone, x.host)
                    /\ stack'[s][x] = "origin" => OriginPulls(x.zone)
  <2> SUFFICES ASSUME NEW s \in Stacks, NEW x \in DOMAIN stack'[s], x.kind = "cname", s[2] \in ordered,
                      x \notin DOMAIN stack[s] \/ stack'[s][x] # stack[s][x]
               PROVE  /\ <<x.zone, x.host>> \in up[s].cover => WafCovers(x.zone, x.host)
                      /\ stack'[s][x] = "origin" => OriginPulls(x.zone)
    OBVIOUS
  <2>1. Write(s, x) /\ x \in up[s].todo
    BY <1>1, OnlyWrites
  <2>2. StackInv /\ UpInv /\ OrderedInv
    BY <1>1 DEF EstateInv, RunInv
  <2>3. up[s].on /\ Underway(s)
    BY <2>1, <2>2 DEF Write, Ready, UpInv
  <2>4. x \in DOMAIN up[s].want /\ Belongs(s, x)
    BY <2>1, <2>3 DEF Underway
  <2>5. s = <<"services", s[2]>> /\ s[2] \in Companies
    BY <2>4 DEF Belongs, Stacks
  <2>6. Protected(s[2], x)
    BY <2>2, <2>3, <2>4, <2>5 DEF OrderedInv
  <2>7. stack'[s][x] = up[s].want[x]
    <3> DEFINE g == stack[s]  v == up[s].want[x]  f == With(g, x, v)
    <3>1. stack' = [stack EXCEPT ![s] = f] /\ DOMAIN stack = Stacks
      BY <2>1, <2>2 DEF Write, StackInv
    <3>2. f[x] = v
      BY DEF With
    <3> HIDE DEF f
    <3> QED BY <3>1, <3>2
  <2>8. <<"zone", s[2]>> \in Stacks
    BY <2>5 DEF Stacks
  <2>9. <<x.zone, x.host>> \in up[s].cover => WafCovers(x.zone, x.host)
    BY <2>5, <2>6, <2>8 DEF Protected, WafCovers
  <2>10. stack'[s][x] = "origin" => OriginPulls(x.zone)
    BY <2>5, <2>6, <2>7, <2>8 DEF Protected, OriginPulls, Written
  <2> QED BY <2>9, <2>10
<1>2. EstateInv /\ [SNext]_<<vars, svars>> =>
        [\A s \in Stacks : \A x \in DOMAIN stack'[s] :
           (/\ x.kind = "cname" /\ s[2] \in ordered
            /\ x \notin DOMAIN stack[s] \/ stack'[s][x] # stack[s][x])
             => /\ <<x.zone, x.host>> \in up[s].cover => WafCovers(x.zone, x.host)
                /\ stack'[s][x] = "origin" => OriginPulls(x.zone)]_<<vars, svars>>
  BY <1>1
<1> QED BY <1>2, EstateInvariant, PTL DEF SSpec, ProtectedFirst

-----------------------------------------------------------------------------
(* What both stacks of a company put in place. *)

LEMMA OneOrNone ==
  ASSUME NEW S, \A x, y \in S : x = y
  PROVE  (S = {} /\ Cardinality(S) = 0) \/ \E x \in S : S = {x} /\ Cardinality(S) = 1
<1>1. CASE S = {}
  BY <1>1, FS_EmptySet
<1>2. CASE S # {}
  <2>1. PICK x : x \in S
    BY <1>2
  <2>2. S = {x}
    BY <2>1
  <2>3. Cardinality({x}) = 1
    BY FS_Singleton, Zenon
  <2> QED BY <2>1, <2>2, <2>3
<1> QED BY <1>1, <1>2

(* The stack of anything that concerns a zone.                             *)
LEMMA StackOfZone ==
  ASSUME StackInv, NEW r \in Deployed, NEW c, NEW z \in ZonesOf(r, c),
         NEW o \in Stacks, NEW x \in DOMAIN stack[o], x.zone = z
  PROVE  /\ x.kind \in {"record", "waf", "aop"} => o = <<"zone", c>>
         /\ x.kind = "cname" => o = <<"services", c>>
<1>1. z \in Zones(r) /\ CompanyOf[r.owner[z]] = c
  BY DEF ZonesOf, Managed
<1>2. CompanyOf[AccountOfZone(z)] = c
  BY <1>1, AccountOfZoneIs
<1>3. Belongs(o, x)
  BY DEF StackInv
<1> QED BY <1>2, <1>3 DEF Belongs

(* The records of a name, when both stacks hold what is declared.          *)
LEMMA RecordsAre ==
  ASSUME StackInv, NEW r, NEW cfg, Loaded(r, cfg), NEW c \in Companies, NEW z \in ZonesOf(r, c), NEW h,
         stack[<<"zone", c>>] = Declares(<<"zone", c>>, r, cfg),
         stack[<<"services", c>>] = Declares(<<"services", c>>, r, cfg)
  PROVE  \A x : x \in RecordsOf(z, h) <=>
           \/ /\ \E rec \in r.records : rec.zone = z /\ rec.host = h
              /\ x = Resource("record", NoKey, z, h)
           \/ \E t \in cfg.tunnels :
                /\ h \in ToSet(t.hosts) /\ h \notin r.elsewhere /\ ZoneOf(Managed(r), h) = z
                /\ x = Resource("cname", TunnelKey(t), z, h)
<1>0. <<"zone", c>> \in Stacks /\ <<"services", c>> \in Stacks /\ r \in Deployed
  BY DEF Stacks, Loaded
<1>1. ASSUME NEW x \in RecordsOf(z, h)
      PROVE  \/ /\ \E rec \in r.records : rec.zone = z /\ rec.host = h
                /\ x = Resource("record", NoKey, z, h)
             \/ \E t \in cfg.tunnels :
                  /\ h \in ToSet(t.hosts) /\ h \notin r.elsewhere /\ ZoneOf(Managed(r), h) = z
                  /\ x = Resource("cname", TunnelKey(t), z, h)
  <2>1. x.kind \in {"record", "cname"} /\ x.zone = z /\ x.host = h /\ x \in Written
    BY DEF RecordsOf
  <2>2. PICK o \in Stacks : x \in DOMAIN stack[o]
    BY <2>1 DEF Written
  <2>3. o \in {<<"zone", c>>, <<"services", c>>}
    BY <1>0, <2>1, <2>2, StackOfZone
  <2>4. x \in DOMAIN Declares(o, r, cfg) /\ IsRecord(x)
    BY <2>1, <2>2, <2>3 DEF IsRecord
  <2>5. \/ \E rec \in r.records : x = Resource("record", NoKey, rec.zone, rec.host)
        \/ \E t \in cfg.tunnels : \E k \in DNSNames(t) : x = Resource("cname", TunnelKey(t), RecordZone(t, k), k)
    BY <2>4, DeclaredRecord
  <2>6. CASE \E rec \in r.records : x = Resource("record", NoKey, rec.zone, rec.host)
    BY <2>1, <2>6, ResourceIs
  <2>7. CASE \E t \in cfg.tunnels : \E k \in DNSNames(t) : x = Resource("cname", TunnelKey(t), RecordZone(t, k), k)
    <3>1. PICK t \in cfg.tunnels : \E k \in DNSNames(t) : x = Resource("cname", TunnelKey(t), RecordZone(t, k), k)
      BY <2>7
    <3>2. x = Resource("cname", TunnelKey(t), z, h) /\ h \in DNSNames(t) /\ RecordZone(t, h) = z
      BY <2>1, <3>1, ResourceIs
    <3>3. h \in ToSet(t.hosts) /\ h \notin r.elsewhere /\ ZoneOf(Managed(r), h) = z
      BY <3>2, LoadedTunnel
    <3> QED BY <3>2, <3>3
  <2> QED BY <2>5, <2>6, <2>7
<1>2. ASSUME NEW rec \in r.records, rec.zone = z, rec.host = h
      PROVE  Resource("record", NoKey, z, h) \in RecordsOf(z, h)
  <2> DEFINE x == Resource("record", NoKey, z, h)
  <2>1. OfZone(r, z, x)
    BY <1>2 DEF OfZone
  <2>2. x.kind = "record" /\ x.zone = z /\ x.host = h
    BY ResourceIs
  <2> HIDE DEF x
  <2>3. x \in DOMAIN stack[<<"zone", c>>]
    BY <2>1, ZoneStackDeclares
  <2>4. x \in Written
    BY <1>0, <2>3 DEF Written
  <2> QED BY <2>2, <2>4 DEF RecordsOf, x
<1>3. ASSUME NEW t \in cfg.tunnels, h \in ToSet(t.hosts), h \notin r.elsewhere, ZoneOf(Managed(r), h) = z
      PROVE  Resource("cname", TunnelKey(t), z, h) \in RecordsOf(z, h)
  <2> DEFINE x == Resource("cname", TunnelKey(t), z, h)
  <2>1. h \in DNSNames(t) /\ RecordZone(t, h) = z /\ r.owner[z] = t.account
    BY <1>3, LoadedTunnel
  <2>2. t \in TunnelsOf(cfg, c)
    BY <2>1 DEF TunnelsOf, ZonesOf
  <2>3. OfTunnel(t, x)
    BY <2>1 DEF OfTunnel
  <2>4. x.kind = "cname" /\ x.zone = z /\ x.host = h
    BY ResourceIs
  <2> HIDE DEF x
  <2>5. x \in DOMAIN stack[<<"services", c>>]
    BY <2>2, <2>3, ServicesStackDeclares
  <2>6. x \in Written
    BY <1>0, <2>5 DEF Written
  <2> QED BY <2>4, <2>6 DEF RecordsOf, x
<1> QED BY <1>1, <1>2, <1>3

(* The rules and the records of a host in the stack of its services.       *)
LEMMA ServicesHold ==
  ASSUME NEW r, NEW cfg, Loaded(r, cfg), NEW c \in Companies,
         stack[<<"services", c>>] = Declares(<<"services", c>>, r, cfg),
         NEW t \in TunnelsOf(cfg, c)
  PROVE  /\ stack[<<"services", c>>][Resource("ingress", TunnelKey(t), NoZone, NoHost)] = t.hosts
         /\ \A z, h : h \in DNSNames(t) /\ RecordZone(t, h) = z =>
              (stack[<<"services", c>>][Resource("cname", TunnelKey(t), z, h)] = "origin"
                 <=> h \in ActiveOrigins(r, z))
<1> DEFINE d == Declares(<<"services", c>>, r, cfg)
<1>1. ASSUME NEW x, OfTunnel(t, x) PROVE d[x] = TunnelNew(r, t)[x] /\ x \in DOMAIN TunnelNew(r, t)
  <2>1. PICK u \in TunnelsOf(cfg, c) : OfTunnel(u, x) /\ d[x] = TunnelNew(r, u)[x]
    BY <1>1, ServicesStackDeclares
  <2>2. x.key = TunnelKey(t) /\ x.key = TunnelKey(u)
    BY <1>1, <2>1, ResourceIs DEF OfTunnel
  <2>3. t \in cfg.tunnels /\ u \in cfg.tunnels
    BY DEF TunnelsOf
  <2>4. t = u
    BY <2>2, <2>3, LoadedKey
  <2> QED BY <1>1, <2>1, <2>4, TunnelDeclares
<1> HIDE DEF d
<1>2. d[Resource("ingress", TunnelKey(t), NoZone, NoHost)] = t.hosts
  <2> DEFINE x == Resource("ingress", TunnelKey(t), NoZone, NoHost)
  <2>1. OfTunnel(t, x) /\ x.kind = "ingress"
    BY ResourceIs DEF OfTunnel
  <2> HIDE DEF x
  <2>2. d[x] = t.hosts
    BY <1>1, <2>1, TunnelDeclares
  <2> QED BY <2>2 DEF x
<1>3. ASSUME NEW z, NEW h, h \in DNSNames(t), RecordZone(t, h) = z
      PROVE  d[Resource("cname", TunnelKey(t), z, h)] = "origin" <=> h \in ActiveOrigins(r, z)
  <2> DEFINE x == Resource("cname", TunnelKey(t), z, h)
  <2>1. OfTunnel(t, x) /\ x.kind = "cname" /\ x.host = h /\ x.zone = z
    BY <1>3, ResourceIs DEF OfTunnel
  <2> HIDE DEF x
  <2>2. d[x] = TunnelNew(r, t)[x] /\ x \in DOMAIN TunnelNew(r, t)
    BY <1>1, <2>1
  <2>3. d[x] = "origin" <=> h \in ActiveOrigins(r, z)
    BY <2>1, <2>2, NameIs
  <2> QED BY <2>3 DEF x
<1> QED BY <1>2, <1>3 DEF d

LEMMA AppliedHere ==
  ASSUME EstateInv, NEW c \in Companies, {<<"zone", c>>, <<"services", c>>} \subseteq current,
         NEW z \in ZonesOf(registry, c), NEW h \in HostSet
  PROVE  LET mine == {t \in config.tunnels : h \in ToSet(t.hosts) /\ ZoneOf(Managed(registry), h) = z}
             own  == {t \in mine : h \notin registry.elsewhere}
             recs == {x \in registry.records : x.zone = z /\ x.host = h}
         IN  /\ Cardinality(RecordsOf(z, h)) = Cardinality(own) + Cardinality(recs)
             /\ \A t \in mine :
                  /\ h \in ToSet(stack[<<"services", c>>][Resource("ingress", TunnelKey(t), NoZone, NoHost)])
                  /\ t \in own => \E x \in RecordsOf(z, h) :
                       /\ x.key = TunnelKey(t)
                       /\ stack[<<"services", c>>][x] = "origin"
                            <=> \E m \in registry.moved : m.zone = z /\ m.host = h
             /\ WafCovers(z, h) <=> z \in registry.waf /\ h \in config.waf[z]
             /\ OriginPulls(z) <=> \E m \in registry.moved : m.zone = z
<1> DEFINE r == registry  cfg == config
           zone == <<"zone", c>>  services == <<"services", c>>
           mine == {t \in cfg.tunnels : h \in ToSet(t.hosts) /\ ZoneOf(Managed(r), h) = z}
           own  == {t \in mine : h \notin r.elsewhere}
           recs == {x \in r.records : x.zone = z /\ x.host = h}
           R == RecordsOf(z, h)
<1>1. /\ StackInv /\ zone \in Stacks /\ services \in Stacks
      /\ stack[zone] = Declares(zone, r, cfg) /\ stack[services] = Declares(services, r, cfg)
      /\ Loaded(r, cfg) /\ r \in Deployed
  <2>1. StackInv /\ CurrentInv /\ Derived
    BY DEF EstateInv, RunInv
  <2>2. zone \in current /\ services \in current
    OBVIOUS
  <2>3. Deploying /\ Accepted
    BY <2>1, <2>2 DEF CurrentInv
  <2> QED BY <2>1, <2>2, <2>3, LoadedIs DEF CurrentInv, Loaded
<1>2. \A x : x \in R <=>
        \/ (\E rec \in r.records : rec.zone = z /\ rec.host = h) /\ x = Resource("record", NoKey, z, h)
        \/ \E t \in cfg.tunnels :
             /\ h \in ToSet(t.hosts) /\ h \notin r.elsewhere /\ ZoneOf(Managed(r), h) = z
             /\ x = Resource("cname", TunnelKey(t), z, h)
  BY <1>1, RecordsAre
<1> HIDE DEF R
<1>3. \A t \in mine : t \in TunnelsOf(cfg, c)
  BY <1>1, LoadedTunnel DEF TunnelsOf, ZonesOf
<1>4. \A t \in own : h \in DNSNames(t) /\ RecordZone(t, h) = z
  BY <1>1, LoadedTunnel
<1>5. recs # {} => own = {}
  <2> SUFFICES ASSUME NEW rec \in recs, NEW t \in own PROVE FALSE
    OBVIOUS
  <2>1. rec \in r.records /\ t \in cfg.tunnels /\ rec.host \in DNSNames(t) /\ RecordZone(t, rec.host) = rec.zone
    BY <1>4
  <2> QED BY <1>1, <2>1, LoadedOnce
<1>6. /\ (recs = {} /\ Cardinality(recs) = 0) \/ \E x \in recs : recs = {x} /\ Cardinality(recs) = 1
      /\ (own = {} /\ Cardinality(own) = 0) \/ \E t \in own : own = {t} /\ Cardinality(own) = 1
  <2>1. \A x, y \in recs : x = y
    BY <1>1, EstateAssumption
  <2>2. \A t, u \in own : t = u
    BY <1>1, LoadedOnce
  <2> HIDE DEF recs, own
  <2> QED BY <2>1, <2>2, OneOrNone
<1>7. Cardinality(R) = Cardinality(own) + Cardinality(recs)
  <2>1. CASE recs # {}
    <3>1. R = {Resource("record", NoKey, z, h)}
      BY <1>2, <1>5, <2>1
    <3>2. Cardinality(R) = 1
      BY <3>1, FS_Singleton
    <3> HIDE DEF recs, own
    <3>3. Cardinality(recs) = 1 /\ Cardinality(own) = 0
      BY <1>5, <1>6, <2>1
    <3> QED BY <3>2, <3>3
  <2>2. CASE recs = {} /\ own # {}
    <3>1. PICK t \in own : own = {t} /\ Cardinality(own) = 1
      BY <1>6, <2>2
    <3>2. R = {Resource("cname", TunnelKey(t), z, h)}
      <4>1. \A u \in cfg.tunnels : h \in ToSet(u.hosts) /\ h \notin r.elsewhere /\ ZoneOf(Managed(r), h) = z
              => u = t
        BY <3>1
      <4>2. ~ \E rec \in r.records : rec.zone = z /\ rec.host = h
        BY <2>2
      <4> QED BY <1>2, <4>1, <4>2
    <3>3. Cardinality(R) = 1
      BY <3>2, FS_Singleton
    <3> HIDE DEF recs, own
    <3>4. Cardinality(recs) = 0
      BY <1>6, <2>2
    <3> QED BY <3>1, <3>3, <3>4
  <2>3. CASE recs = {} /\ own = {}
    <3>1. R = {}
      BY <1>2, <2>3
    <3>2. Cardinality(R) = 0
      BY <3>1, FS_EmptySet
    <3> HIDE DEF recs, own
    <3> QED BY <1>6, <2>3, <3>2
  <2> QED BY <2>1, <2>2, <2>3
<1>8. ASSUME NEW t \in mine
      PROVE  /\ h \in ToSet(stack[services][Resource("ingress", TunnelKey(t), NoZone, NoHost)])
             /\ t \in own => \E x \in R :
                  /\ x.key = TunnelKey(t)
                  /\ stack[services][x] = "origin" <=> \E m \in r.moved : m.zone = z /\ m.host = h
  <2>1. stack[services][Resource("ingress", TunnelKey(t), NoZone, NoHost)] = t.hosts
    BY <1>1, <1>3, ServicesHold
  <2>2. ASSUME t \in own
        PROVE  \E x \in R :
                 /\ x.key = TunnelKey(t)
                 /\ stack[services][x] = "origin" <=> \E m \in r.moved : m.zone = z /\ m.host = h
    <3> DEFINE x == Resource("cname", TunnelKey(t), z, h)
    <3>1. x \in R /\ x.key = TunnelKey(t)
      BY <1>2, <2>2, ResourceIs
    <3>2. stack[services][x] = "origin" <=> h \in ActiveOrigins(r, z)
      BY <1>1, <1>3, <1>4, <2>2, ServicesHold
    <3> HIDE DEF x
    <3>3. h \in ActiveOrigins(r, z) <=> \E m \in r.moved : m.zone = z /\ m.host = h
      BY DEF ActiveOrigins
    <3> QED BY <3>1, <3>2, <3>3
  <2> QED BY <2>1, <2>2
<1>9. WafCovers(z, h) <=> z \in r.waf /\ h \in cfg.waf[z]
  <2> DEFINE waf == Resource("waf", NoKey, z, NoHost)
  <2>1. waf.kind = "waf" /\ waf.zone = z
    BY ResourceIs
  <2>2. WafCovers(z, h) <=> \E s \in Stacks : waf \in DOMAIN stack[s] /\ h \in stack[s][waf]
    BY DEF WafCovers
  <2>3. OfZone(r, z, waf) <=> z \in r.waf
    BY ResourceIs DEF OfZone
  <2> HIDE DEF waf
  <2>4. \A s \in Stacks : waf \in DOMAIN stack[s] => s = zone
    BY <1>1, <2>1, StackOfZone
  <2>5. waf \in DOMAIN stack[zone] <=> z \in r.waf
    <3>1. \A y \in ZonesOf(r, c) : OfZone(r, y, waf) => y = z
      BY <2>1, ResourceIs DEF OfZone
    <3> QED BY <1>1, <2>3, <3>1, ZoneStackDeclares
  <2>6. waf \in DOMAIN stack[zone] => stack[zone][waf] = cfg.waf[z]
    BY <1>1, <2>1, ZoneStackDeclares
  <2> QED BY <1>1, <2>2, <2>4, <2>5, <2>6
<1>10. OriginPulls(z) <=> \E m \in r.moved : m.zone = z
  <2> DEFINE aop == Resource("aop", NoKey, z, NoHost)
  <2>1. aop.kind = "aop" /\ aop.zone = z
    BY ResourceIs
  <2>2. OriginPulls(z) <=> \E s \in Stacks : aop \in DOMAIN stack[s]
    BY DEF OriginPulls, Written
  <2>3. OfZone(r, z, aop) <=> ActiveOrigins(r, z) # {}
    BY ResourceIs DEF OfZone
  <2> HIDE DEF aop
  <2>4. \A s \in Stacks : aop \in DOMAIN stack[s] => s = zone
    BY <1>1, <2>1, StackOfZone
  <2>5. aop \in DOMAIN stack[zone] <=> ActiveOrigins(r, z) # {}
    <3>1. \A y \in ZonesOf(r, c) : OfZone(r, y, aop) => y = z
      BY <2>1, ResourceIs DEF OfZone
    <3> QED BY <1>1, <2>3, <3>1, ZoneStackDeclares
  <2>6. ActiveOrigins(r, z) # {} <=> \E m \in r.moved : m.zone = z
    BY DEF ActiveOrigins
  <2> QED BY <1>1, <2>2, <2>4, <2>5, <2>6
<1> HIDE DEF mine, own, recs
<1> QED BY <1>7, <1>8, <1>9, <1>10 DEF mine, own, recs, R, r, cfg, services

(* Once both stacks of a company have applied the configuration as it is,  *)
(* whatever failed before, a host has one record, in its zone, that leads  *)
(* to its tunnel or origin, where it is a rule, names no longer listed     *)
(* have none, and the zone is protected as declared.                       *)
THEOREM AppliedMatchesHolds == SSpec => []AppliedMatches
<1>1. EstateInv => AppliedMatches
  BY AppliedHere DEF AppliedMatches
<1> QED BY <1>1, EstateInvariant, PTL


-----------------------------------------------------------------------------
(* Type correctness. *)

(* What STypeOK says beyond EstateInv.                                     *)
Typed ==
  /\ cluster \in Clusters /\ ordered \subseteq Companies
  /\ \A s \in Stacks : up[s].todo \subseteq DOMAIN up[s].want

LEMMA TypedInit ==
  ASSUME SInit PROVE Typed
<1>1. cluster \in Clusters
  <2>1. CASE Deploying
    <3>1. \E st \in Starts : cluster = st[2]
      BY <2>1 DEF SInit
    <3> QED BY <3>1, EstateAssumption
  <2>2. CASE ~Deploying
    BY <2>2 DEF SInit
  <2> QED BY <2>1, <2>2
<1>2. ordered = Companies /\ \A s \in Stacks : up[s].todo = {}
  BY DEF SInit, Ended
<1> QED BY <1>1, <1>2 DEF Typed

(* The steps of an update, and what they leave to write.                   *)
LEMMA TypedUp ==
  ASSUME Typed, EstateInv, NEW s \in Stacks, NEW u, up' = [up EXCEPT ![s] = u],
         u.todo \subseteq DOMAIN u.want, UNCHANGED cluster, ordered' \subseteq ordered
  PROVE  Typed'
<1>1. UpInv
  BY DEF EstateInv, RunInv
<1>2. up'[s] = u /\ \A o \in Stacks : o # s => up'[o] = up[o]
  BY <1>1, SetUp
<1> QED BY <1>2 DEF Typed

LEMMA TypedNext ==
  ASSUME Typed, EstateInv, [SNext]_<<vars, svars>> PROVE Typed'
<1>1. UpInv
  BY DEF EstateInv, RunInv
<1>2. ASSUME NEW s \in Stacks, NEW why, NEW excused, End(s, why, excused),
             UNCHANGED <<cluster, ordered>>
      PROVE  Typed'
  <2>1. up'[s].todo = {} /\ \A o \in Stacks : o # s => up'[o] = up[o]
    BY <1>1, <1>2, EndIs
  <2> QED BY <1>2, <2>1 DEF Typed
<1>3. ASSUME EditCatalog \/ EditRegistry, Edited PROVE Typed'
  <2>1. UNCHANGED <<cluster, ordered>>
    BY <1>3 DEF EditCatalog, EditRegistry, AddHost, RemoveHost, Load, Edited
  <2>2. ASSUME NEW s \in Stacks PROVE up'[s].todo = up[s].todo /\ up'[s].want = up[s].want
    <3> DEFINE w == [up[s] EXCEPT !.head = FALSE]
    <3>1. up'[s] = w
      BY <1>3 DEF Edited
    <3>2. IsUpdate(up[s])
      BY <1>1 DEF UpInv
    <3> QED BY <3>1, <3>2, HeadIs
  <2> QED BY <2>1, <2>2 DEF Typed
<1>4. ASSUME EditCatalog, ~Deploying PROVE Typed'
  <2>1. UNCHANGED svars /\ UNCHANGED cluster
    BY <1>4 DEF EditCatalog, AddHost, RemoveHost, Load
  <2> QED BY <2>1 DEF Typed, svars
<1>5. ASSUME NEW a \in DOMAIN CompanyOf, DeployPrototypes(a) PROVE Typed'
  BY <1>5 DEF DeployPrototypes, vars, Typed
<1>6. ASSUME NEW s \in Stacks, Deploy(s) PROVE Typed'
  <2> DEFINE all == Declares(s, registry, config)
             cut == CutShort(s, registry, config)
             left == LeftToApply(s, registry, config)
             want(d) == Restrict(all, d)
             grants == [a \in AccountsOf(s[2]) |-> TokenGrants(prototypes[a], a, s[1])]
             names == {x \in UNION {DOMAIN Declares(o, registry, config) : o \in Stacks} :
                         x.kind \in {"record", "cname"}}
             cover == {p \in registry.waf \X HostSet : p[2] \in config.waf[p[1]]}
             fresh == \A a \in AccountsOf(s[2]) : prototypes[a] = registry
             update(d) ==
               [on |-> TRUE, why |-> "running", want |-> want(d), grants |-> grants,
                todo |-> Differing(s, want(d)), cover |-> cover, names |-> names,
                refused |-> cut, head |-> TRUE, fresh |-> fresh, excused |-> left]
  <2>1. PICK d \in Outcomes(s, registry, config) : up' = [up EXCEPT ![s] = update(d)]
    BY <1>6, Zenon DEF Deploy
  <2> HIDE DEF want, grants, names, cover, fresh, cut, left, all
  <2>2. update(d).todo \subseteq DOMAIN update(d).want
    BY DEF Differing
  <2>3. UNCHANGED cluster /\ ordered' \subseteq ordered
    BY <1>6 DEF Deploy, vars
  <2> HIDE DEF update
  <2> QED BY <2>1, <2>2, <2>3, TypedUp
<1>7. ASSUME NEW s \in Stacks, NEW x \in up[s].todo, Write(s, x) PROVE Typed'
  <2> DEFINE u == [up[s] EXCEPT !.todo = up[s].todo \ {x}]
  <2>1. up' = [up EXCEPT ![s] = u] /\ UNCHANGED <<cluster, ordered>>
    BY <1>7 DEF Write, vars
  <2>2. u.todo = up[s].todo \ {x} /\ u.want = up[s].want
    BY <1>1, TodoIs DEF UpInv
  <2>3. u.todo \subseteq DOMAIN u.want
    BY <2>2 DEF Typed
  <2> HIDE DEF u
  <2> QED BY <2>1, <2>3, TypedUp
<1>8. ASSUME NEW s \in Stacks, Finish(s) PROVE Typed'
  BY <1>2, <1>8 DEF Finish, vars
<1>9. ASSUME NEW s \in Stacks, Stop(s) PROVE Typed'
  BY <1>2, <1>9 DEF Stop, vars
<1>10. ASSUME NEW s \in Stacks, NEW x \in up[s].todo, Denied(s, x) PROVE Typed'
  BY <1>2, <1>10 DEF Denied, vars
<1>11. ASSUME NEW s \in Stacks, NEW x \in up[s].todo, Clash(s, x) PROVE Typed'
  BY <1>2, <1>11 DEF Clash, vars
<1>12. ASSUME NEW s \in Stacks, NEW x \in DOMAIN stack[s], Delete(s, x) PROVE Typed'
  BY <1>12 DEF Delete, vars, Typed
<1>13. CASE EditCatalog \/ EditRegistry
  BY <1>3, <1>4, <1>13 DEF EditCatalog, EditRegistry
<1>14. CASE UNCHANGED <<vars, svars>>
  BY <1>14 DEF vars, svars, Typed
<1> QED BY <1>5, <1>6, <1>7, <1>8, <1>9, <1>10, <1>11, <1>12, <1>13, <1>14, Steps

LEMMA TypedIs ==
  ASSUME Typed, EstateInv PROVE STypeOK
<1>1. Derived /\ ProtoInv /\ CurrentInv
  BY DEF EstateInv, RunInv
<1>2. config = LoadConfig(registry, cluster, claims) /\ claims \in Catalogs
  BY <1>1 DEF Derived
<1>3. config.why \in {"legacy", "unplaced", "waf", "no tunnel", "inconsistent",
                      "moved", "record", "twice", "shadowed", "none"}
  <2> DEFINE why == WhyRefused(registry, claims, DerivedTunnels(registry, cluster, claims))
  <2>1. config.why = why
    BY <1>2 DEF LoadConfig, Refused
  <2> QED BY <2>1 DEF WhyRefused
<1>4. ASSUME NEW t \in config.tunnels
      PROVE  /\ ToSet(t.hosts) \subseteq HostSet /\ t.zones \subseteq Zones(registry)
             /\ t.elsewhere \subseteq ToSet(t.hosts)
  <2>1. LoadConfig(registry, cluster, claims).why = "none"
    BY <1>2, RefusedHasNothing
  <2>2. ZonesNamed(registry)
    BY <1>1, RegistryNamed DEF Derived
  <2>3. /\ t \in DerivedTunnels(registry, cluster, claims)
        /\ t.zones \subseteq Managed(registry)
        /\ \A h \in ToSet(t.hosts) : h \in HostSet
    BY <1>2, <2>1, <2>2, AcceptedTunnel
  <2>4. t.elsewhere \subseteq ToSet(t.hosts)
    BY <1>2, <2>3, TunnelIs
  <2> QED BY <2>3, <2>4 DEF Managed
<1>5. TypeOK
  BY <1>2, <1>3, <1>4 DEF TypeOK, Typed, Catalogs
<1>6. registry \in Registries \cup Deployed
  BY <1>1 DEF Derived
<1>7. \A a \in DOMAIN prototypes : prototypes[a] \in Deployed \cup {NoRegistry}
  BY <1>1 DEF ProtoInv
<1>8. current \subseteq Stacks
  BY <1>1 DEF CurrentInv
<1> QED BY <1>5, <1>6, <1>7, <1>8 DEF STypeOK, Typed

(* Registry, catalog and configuration, prototypes, stacks and updates keep *)
(* their types: what config.Load returns, and what the stacks' updates have *)
(* still to write, is always of what was declared.                          *)
THEOREM TypeCorrect == SSpec => []STypeOK
<1>1. SInit => Typed
  BY TypedInit
<1>2. Typed /\ EstateInv /\ [SNext]_<<vars, svars>> => Typed'
  BY TypedNext
<1>3. Typed /\ EstateInv => STypeOK
  BY TypedIs
<1> QED BY <1>1, <1>2, <1>3, EstateInvariant, PTL DEF SSpec
=============================================================================
