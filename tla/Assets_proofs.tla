--------------------------- MODULE Assets_proofs ---------------------------
(***************************************************************************)
(* Proofs about the asset universe, for every table size, every set of     *)
(* contracts and users, wherever their probes start, and any length of run.*)
(***************************************************************************)
EXTENDS Assets, Sums_proofs, SequenceTheorems

IssuanceRecord == [type : {"issuance"}, id : Ids, name : Names]
HoldingRecord ==
  [type : {"ownership", "possession"}, id : Ids, mgmt : Slots, ref : Index, shares : Nat]
AnyRecord == {Hole} \cup IssuanceRecord \cup HoldingRecord

(***************************************************************************)
(* Probing.                                                                *)
(***************************************************************************)

\* The k-th index of a probe, and whether a probe comes to i before a hole.
Probed(s, k) == (s + k) % Capacity
Reaches(t, s, i) ==
  \E k \in Index : Probed(s, k) = i /\ \A j \in 0 .. k - 1 : t[Probed(s, j)] # Hole

Roomy(t) == \E h \in Index : t[h] = Hole

LEMMA CapacityIsPositive == Capacity \in Nat /\ 0 < Capacity /\ Index = 0 .. Capacity - 1
BY AssetConstants DEF Index

LEMMA SlotsAreNat == Slots \subseteq Nat \ {0} /\ QX \in Slots
BY AssetConstants

LEMMA ProbedIs ==
  ASSUME NEW s \in Index, NEW k \in Index
  PROVE  /\ Probed(s, k) = IF s + k < Capacity THEN s + k ELSE s + k - Capacity
         /\ Probed(s, k) \in Index
BY CapacityIsPositive DEF Probed

\* A probe comes to every index, ...
LEMMA ProbedEverywhere ==
  ASSUME NEW s \in Index, NEW i \in Index
  PROVE  \E k \in Index : Probed(s, k) = i
<1>0. Capacity \in Nat /\ s \in 0 .. Capacity - 1 /\ i \in 0 .. Capacity - 1
  BY CapacityIsPositive
<1>1. CASE s <= i
  <2>1. i - s \in Index
    BY <1>0, <1>1, CapacityIsPositive
  <2>2. Probed(s, i - s) = i
    BY <1>0, <2>1, ProbedIs
  <2> QED
    BY <2>1, <2>2
<1>2. CASE ~(s <= i)
  <2>1. i + Capacity - s \in Index
    BY <1>0, <1>2, CapacityIsPositive
  <2>2. Probed(s, i + Capacity - s) = i
    BY <1>0, <2>1, ProbedIs
  <2> QED
    BY <2>1, <2>2
<1> QED
  BY <1>1, <1>2

\* ... and once.
LEMMA ProbedOnce ==
  ASSUME NEW s \in Index, NEW k \in Index, NEW j \in Index, Probed(s, k) = Probed(s, j)
  PROVE  k = j
<1>1. /\ Capacity \in Nat /\ s \in 0 .. Capacity - 1
      /\ k \in 0 .. Capacity - 1 /\ j \in 0 .. Capacity - 1
  BY CapacityIsPositive
<1>2. Probed(s, k) = IF s + k < Capacity THEN s + k ELSE s + k - Capacity
  BY ProbedIs
<1>3. Probed(s, j) = IF s + j < Capacity THEN s + j ELSE s + j - Capacity
  BY ProbedIs
<1>4. (IF s + k < Capacity THEN s + k ELSE s + k - Capacity)
        = (IF s + j < Capacity THEN s + j ELSE s + j - Capacity)
  BY <1>2, <1>3, Zenon
<1>5. CASE s + k < Capacity
  BY ONLY <1>1, <1>4, <1>5
<1>6. CASE ~(s + k < Capacity)
  BY ONLY <1>1, <1>4, <1>6
<1> QED
  BY <1>5, <1>6

LEMMA StartsInTable == \A id \in Ids : StartOf(id) \in Index
<1> SUFFICES ASSUME NEW id \in Ids PROVE StartOf(id) \in Index
  OBVIOUS
<1>1. CASE id \in Users
  BY <1>1, AssetConstants DEF StartOf
<1>2. CASE id \notin Users
  <2>1. id \in Slots \/ id = 0
    BY <1>2 DEF Ids, Nobody
  <2>2. CASE id \in Slots
    <3>1. id \in Nat
      BY <2>2, SlotsAreNat
    <3> QED
      BY <1>2, <3>1, CapacityIsPositive DEF StartOf
  <2>3. CASE id = 0
    BY <1>2, <2>3, CapacityIsPositive DEF StartOf
  <2> QED
    BY <2>1, <2>2, <2>3
<1> QED
  BY <1>1, <1>2

\* A nonempty set of indices has a least one.
LEMMA LeastIndex ==
  ASSUME NEW S \in SUBSET Index, S # {}
  PROVE  \E m \in S : \A k \in S : m <= k
<1> SUFFICES ASSUME ~\E m \in S : \A k \in S : m <= k PROVE FALSE
  OBVIOUS
<1>0. S \subseteq Nat
  BY CapacityIsPositive
<1> DEFINE Q == {n \in Nat : \A k \in S : n < k}
<1>1. \A n \in Nat : (\A k \in S : n <= k) => n \in Q
  BY <1>0
<1>2. 0 \in Q
  BY <1>0, <1>1
<1>3. \A n \in Q : n + 1 \in Q
  BY <1>0, <1>1
<1>4. Q = Nat
  <2> HIDE DEF Q
  <2>1. Q \in SUBSET Nat
    BY DEF Q
  <2> QED BY <1>2, <1>3, <2>1, NatSetInduction
<1>5. PICK k \in S : TRUE
  OBVIOUS
<1> QED
  BY <1>0, <1>4, <1>5

\* Where a probe ends, in a table with a hole: at what it looks for or at a hole,
\* with no hole before it, and at what it looks for if it comes to any of it.
ProbeEnds(t, s, sought, p) ==
  /\ p \in Index /\ (p \in sought \/ t[p] = Hole)
  /\ Reaches(t, s, p)
  /\ \A i \in sought : Reaches(t, s, i) => p \in sought

LEMMA ProbeSound ==
  ASSUME NEW t, Roomy(t), NEW s \in Index, NEW sought
  PROVE  ProbeEnds(t, s, sought, Probe(t, s, sought))
<1> DEFINE Stops(k) == t[Probed(s, k)] = Hole \/ Probed(s, k) \in sought
           S == {k \in Index : Stops(k)}
           First(k) == Stops(k) /\ \A j \in 0 .. k - 1 : ~Stops(j)
<1>1. S # {}
  BY ProbedEverywhere DEF Roomy
<1>2. PICK m \in S : \A k \in S : m <= k
  BY <1>1, LeastIndex
<1>3. m \in Index /\ First(m)
  BY <1>2, CapacityIsPositive
<1>4. Probe(t, s, sought) = Probed(s, CHOOSE k \in Index : First(k))
  BY DEF Probe, Probed
<1> DEFINE k == CHOOSE k \in Index : First(k)
<1>5. k \in Index /\ First(k)
  BY <1>3
<1> HIDE DEF k
<1>6. Reaches(t, s, Probed(s, k))
  BY <1>5 DEF Reaches
<1>7. ASSUME NEW i \in sought, Reaches(t, s, i) PROVE Probed(s, k) \in sought
  <2>1. PICK n \in Index : Probed(s, n) = i /\ \A j \in 0 .. n - 1 : t[Probed(s, j)] # Hole
    BY <1>7 DEF Reaches
  <2>2. k <= n
    BY <1>5, <2>1, CapacityIsPositive
  <2>3. CASE k = n
    BY <2>1, <2>3
  <2>4. CASE k < n
    BY <1>5, <2>1, <2>4, CapacityIsPositive
  <2> QED
    BY <2>2, <2>3, <2>4, CapacityIsPositive, <1>5
<1> QED
  BY <1>4, <1>5, <1>6, <1>7, ProbedIs DEF ProbeEnds, k

(***************************************************************************)
(* A universe: a table whose records are where a probe for them ends and   *)
(* are there once, and lists that hold each child once.                    *)
(***************************************************************************)

Linked(t) ==
  \A i \in Index :
    /\ t[i].type = "ownership" => t[t[i].ref].type = "issuance"
    /\ t[i].type = "possession" => t[t[i].ref].type = "ownership"

Reachable(t) == \A i \in Index : t[i] # Hole => Reaches(t, StartOf(t[i].id), i)

SameKey(r, q) ==
  /\ r.type = q.type /\ r.id = q.id
  /\ IF r.type = "issuance" THEN r.name = q.name ELSE r.mgmt = q.mgmt /\ r.ref = q.ref

Unique(t) == \A i \in Index, j \in Index : t[i] # Hole /\ t[j] # Hole /\ SameKey(t[i], t[j]) => i = j

IsTable(t) == t \in [Index -> AnyRecord] /\ Linked(t) /\ Reachable(t) /\ Unique(t)

\* Which records belong to a parent, of which type.
BelongsTo(t, parent, i) ==
  IF parent = Root THEN t[i].type = "issuance"
  ELSE t[i].type \in {"ownership", "possession"} /\ t[i].ref = parent

Once(s) == \A j \in DOMAIN s, k \in DOMAIN s : s[j] = s[k] => j = k

Parents == Index \cup {Root}
IsChildren(t, c) ==
  /\ c \in [Parents -> Seq(Index)]
  /\ \A parent \in Parents : Once(c[parent])
  /\ \A parent \in Parents, i \in Index : i \in ToSet(c[parent]) <=> BelongsTo(t, parent, i)

IsUniverse(u) == DOMAIN u = {"t", "c"} /\ IsTable(u.t) /\ IsChildren(u.t, u.c)

LEMMA RecordCases ==
  ASSUME NEW r \in AnyRecord
  PROVE  \/ r = Hole /\ r.type = "hole"
         \/ r \in IssuanceRecord /\ r # Hole /\ r.type = "issuance" /\ r.id \in Ids /\ r.name \in Names
         \/ /\ r \in HoldingRecord /\ r # Hole /\ r.type \in {"ownership", "possession"}
            /\ r.id \in Ids /\ r.mgmt \in Slots /\ r.ref \in Index /\ r.shares \in Nat
BY DEF AnyRecord, IssuanceRecord, HoldingRecord, Hole

LEMMA RootIsNoIndex == Root \notin Index /\ NoIndex \notin Index /\ NoIndex # Root
BY CapacityIsPositive DEF Root, NoIndex

(***************************************************************************)
(* Lookups in a table.                                                     *)
(***************************************************************************)

\* i is the issuance of a name by an issuer.
IsIssuance(t, issuer, name, i) ==
  i \in Index /\ t[i].type = "issuance" /\ t[i].id = issuer /\ t[i].name = name

LEMMA IssuanceFound ==
  ASSUME NEW t, IsTable(t), Roomy(t), NEW issuer \in Ids, NEW name, NEW i,
         IsIssuance(t, issuer, name, i)
  PROVE  IssuanceIndex(t, issuer, name) = i
<1> DEFINE sought == {j \in Index : t[j].type = "issuance" /\ t[j].name = name /\ t[j].id = issuer}
           p == Probe(t, StartOf(issuer), sought)
<1>1. ProbeEnds(t, StartOf(issuer), sought, p)
  BY StartsInTable, ProbeSound
<1>2. i \in Index /\ i \in sought /\ t[i] # Hole /\ t[i].id = issuer
  BY DEF IsIssuance, Hole
<1>3. Reaches(t, StartOf(issuer), i)
  BY <1>2 DEF IsTable, Reachable
<1> HIDE DEF p
<1>4. p \in sought /\ p \in Index
  BY <1>1, <1>2, <1>3 DEF ProbeEnds
<1>5. t[p] # Hole /\ SameKey(t[p], t[i])
  BY <1>2, <1>4 DEF SameKey, Hole, IsIssuance
<1>6. p = i
  BY <1>2, <1>4, <1>5 DEF IsTable, Unique
<1>7. IssuanceIndex(t, issuer, name) = Found(t, p)
  BY DEF IssuanceIndex, p
<1> QED
  BY <1>2, <1>6, <1>7 DEF Found

LEMMA IssuanceSought ==
  ASSUME NEW t, IsTable(t), Roomy(t), NEW issuer \in Ids, NEW name
  PROVE  \/ IsIssuance(t, issuer, name, IssuanceIndex(t, issuer, name))
         \/ IssuanceIndex(t, issuer, name) = NoIndex /\ \A i : ~IsIssuance(t, issuer, name, i)
<1>1. CASE \E i : IsIssuance(t, issuer, name, i)
  BY <1>1, IssuanceFound
<1>2. CASE \A i : ~IsIssuance(t, issuer, name, i)
  <2> DEFINE sought == {j \in Index : t[j].type = "issuance" /\ t[j].name = name /\ t[j].id = issuer}
             p == Probe(t, StartOf(issuer), sought)
  <2>1. ProbeEnds(t, StartOf(issuer), sought, p)
    BY StartsInTable, ProbeSound
  <2>2. sought = {}
    BY <1>2 DEF IsIssuance
  <2>3. IssuanceIndex(t, issuer, name) = Found(t, p)
    BY DEF IssuanceIndex
  <2> HIDE DEF p
  <2>4. t[p] = Hole
    BY <2>1, <2>2 DEF ProbeEnds
  <2> QED
    BY <1>2, <2>3, <2>4 DEF Found
<1> QED
  BY <1>1, <1>2

\* Where the holding of id is, or the hole it would go into.
PlaceIs(t, type, id, mgmt, ref, p) ==
  /\ p \in Index /\ Reaches(t, StartOf(id), p)
  /\ \/ IsHolding(t[p], type, id, mgmt, ref)
     \/ t[p] = Hole /\ \A j \in Index : ~IsHolding(t[j], type, id, mgmt, ref)

LEMMA PlaceSought ==
  ASSUME NEW t, IsTable(t), Roomy(t), NEW type \in {"ownership", "possession"},
         NEW id \in Ids, NEW mgmt, NEW ref
  PROVE  PlaceIs(t, type, id, mgmt, ref, PlaceOf(t, type, id, mgmt, ref))
<1> DEFINE sought == {j \in Index : IsHolding(t[j], type, id, mgmt, ref)}
<1>0. PlaceOf(t, type, id, mgmt, ref) = Probe(t, StartOf(id), sought)
  BY DEF PlaceOf
<1> DEFINE p == Probe(t, StartOf(id), sought)
<1>1. ProbeEnds(t, StartOf(id), sought, p)
  BY StartsInTable, ProbeSound
<1> HIDE DEF p
<1>2. ASSUME NEW j \in sought PROVE p \in sought
  <2>1. t[j] # Hole /\ t[j].id = id
    BY DEF IsHolding, Hole
  <2>2. Reaches(t, StartOf(id), j)
    BY <2>1 DEF IsTable, Reachable
  <2> QED
    BY <1>1, <2>2 DEF ProbeEnds
<1> QED
  BY <1>0, <1>1, <1>2 DEF ProbeEnds, PlaceIs, p

LEMMA PlaceFound ==
  ASSUME NEW t, IsTable(t), Roomy(t), NEW type \in {"ownership", "possession"},
         NEW id \in Ids, NEW mgmt, NEW ref,
         NEW i \in Index, IsHolding(t[i], type, id, mgmt, ref)
  PROVE  PlaceOf(t, type, id, mgmt, ref) = i
<1> DEFINE p == PlaceOf(t, type, id, mgmt, ref)
<1>1. PlaceIs(t, type, id, mgmt, ref, p)
  BY PlaceSought
<1> HIDE DEF p
<1>2. p \in Index /\ t[p] # Hole /\ t[i] # Hole /\ SameKey(t[p], t[i])
  BY <1>1 DEF PlaceIs, IsHolding, Hole, SameKey
<1> QED
  BY <1>2 DEF IsTable, Unique, p

\* A hole found from where the probes of an id start.
LEMMA HoleFound ==
  ASSUME NEW t, Roomy(t), NEW s \in Index
  PROVE  FirstHole(t, s) \in Index /\ t[FirstHole(t, s)] = Hole /\ Reaches(t, s, FirstHole(t, s))
<1> DEFINE p == Probe(t, s, {})
<1>1. ProbeEnds(t, s, {}, p)
  BY ProbeSound
<1> HIDE DEF p
<1> QED
  BY <1>1 DEF ProbeEnds, FirstHole, p

(***************************************************************************)
(* Changing a universe.                                                    *)
(***************************************************************************)

\* Filling holes hides nothing.
LEMMA ReachesStays ==
  ASSUME NEW t, NEW t2, \A j \in Index : t[j] # Hole => t2[j] # Hole,
         NEW s \in Index, NEW i, Reaches(t, s, i)
  PROVE  Reaches(t2, s, i)
<1>1. PICK k \in Index : Probed(s, k) = i /\ \A j \in 0 .. k - 1 : t[Probed(s, j)] # Hole
  BY DEF Reaches
<1>2. \A j \in 0 .. k - 1 : Probed(s, j) \in Index
  <2>1. \A j \in 0 .. k - 1 : j \in Index
    BY CapacityIsPositive
  <2> QED
    BY <2>1, ProbedIs
<1> QED
  BY <1>1, <1>2 DEF Reaches

\* A probe that goes on behind a record comes to where a probe from there comes.
LEMMA ReachesOn ==
  ASSUME NEW t, NEW s \in Index, NEW i \in Index, Reaches(t, s, i), t[i] # Hole,
         NEW o, Reaches(t, (i + 1) % Capacity, o)
  PROVE  Reaches(t, s, o)
<1> DEFINE s2 == (i + 1) % Capacity
<1>0. /\ Capacity \in Nat /\ 0 < Capacity /\ Index = 0 .. Capacity - 1
      /\ s \in 0 .. Capacity - 1 /\ i \in 0 .. Capacity - 1
  BY CapacityIsPositive
<1>1. PICK k \in Index : Probed(s, k) = i /\ \A j \in 0 .. k - 1 : t[Probed(s, j)] # Hole
  BY DEF Reaches
<1>2. PICK m \in Index : Probed(s2, m) = o /\ \A j \in 0 .. m - 1 : t[Probed(s2, j)] # Hole
  BY DEF Reaches
<1>3. s2 \in Index /\ s2 = IF i + 1 < Capacity THEN i + 1 ELSE 0
  <2>1. CASE i + 1 < Capacity
    BY <1>0, <2>1
  <2>2. CASE i + 1 = Capacity
    <3>1. Capacity % Capacity = 0
      BY <1>0
    <3> QED
      BY <1>0, <2>2, <3>1
  <2> QED
    BY <1>0, <2>1, <2>2
<1>4. i = IF s + k < Capacity THEN s + k ELSE s + k - Capacity
  BY <1>1, ProbedIs
<1> HIDE DEF s2
<1>5. ASSUME NEW j \in Index, k + 1 + j \in Index PROVE Probed(s, k + 1 + j) = Probed(s2, j)
  <2>1. Probed(s2, j) = IF s2 + j < Capacity THEN s2 + j ELSE s2 + j - Capacity
    BY <1>3, ProbedIs
  <2>2. Probed(s, k + 1 + j) = IF s + (k + 1 + j) < Capacity THEN s + (k + 1 + j)
                               ELSE s + (k + 1 + j) - Capacity
    BY <1>5, ProbedIs
  <2>3. k \in 0 .. Capacity - 1 /\ j \in 0 .. Capacity - 1 /\ k + 1 + j \in 0 .. Capacity - 1
    BY <1>0, <1>5
  <2>4. CASE s + k < Capacity
    BY ONLY <1>0, <1>3, <1>4, <2>1, <2>2, <2>3, <2>4
  <2>5. CASE ~(s + k < Capacity)
    BY ONLY <1>0, <1>3, <1>4, <2>1, <2>2, <2>3, <2>5
  <2> QED
    BY <2>4, <2>5
<1>6. CASE k + 1 + m < Capacity
  <2>1. k + 1 + m \in Index
    BY <1>0, <1>6
  <2>2. ASSUME NEW j \in 0 .. k + m PROVE t[Probed(s, j)] # Hole
    <3>1. CASE j < k
      BY <1>0, <1>1, <3>1
    <3>2. CASE j = k
      BY <1>1, <3>2
    <3>3. CASE k < j
      <4> DEFINE n == j - k - 1
      <4>1. n \in Index /\ n \in 0 .. m - 1 /\ k + 1 + n = j /\ k + 1 + n \in Index
        BY <1>0, <1>6, <3>3
      <4> HIDE DEF n
      <4>2. Probed(s, k + 1 + n) = Probed(s2, n)
        BY <1>5, <4>1
      <4> QED
        BY <1>2, <4>1, <4>2
    <3> QED
      BY <3>1, <3>2, <3>3, <1>0
  <2>3. 0 .. (k + 1 + m) - 1 = 0 .. k + m
    BY <1>0
  <2> QED
    BY <1>2, <1>5, <2>1, <2>2, <2>3 DEF Reaches
<1>7. CASE ~(k + 1 + m < Capacity)
  <2> DEFINE n == k + 1 + m - Capacity
  <2>0. k \in 0 .. Capacity - 1 /\ m \in 0 .. Capacity - 1
    BY <1>0
  <2>1. n \in Index /\ n <= k
    BY <1>0, <1>7, <2>0
  <2>2. Probed(s, n) = o
    <3>1. o = IF s2 + m < Capacity THEN s2 + m ELSE s2 + m - Capacity
      BY <1>2, <1>3, ProbedIs
    <3>2. Probed(s, n) = IF s + n < Capacity THEN s + n ELSE s + n - Capacity
      BY <2>1, ProbedIs
    <3>3. CASE s + k < Capacity
      BY ONLY <1>0, <1>3, <1>4, <1>7, <2>0, <2>1, <3>1, <3>2, <3>3
    <3>4. CASE ~(s + k < Capacity)
      BY ONLY <1>0, <1>3, <1>4, <1>7, <2>0, <2>1, <3>1, <3>2, <3>4
    <3> QED
      BY <3>3, <3>4
  <2>3. \A j \in 0 .. n - 1 : t[Probed(s, j)] # Hole
    BY <1>0, <1>1, <2>0, <2>1
  <2> QED
    BY <2>1, <2>2, <2>3 DEF Reaches
<1> QED
  BY <1>6, <1>7

\* Prepending a new element to a list.
LEMMA Prepended ==
  ASSUME NEW s \in Seq(Index), NEW i \in Index, i \notin ToSet(s), Once(s)
  PROVE  /\ <<i>> \o s \in Seq(Index) /\ Once(<<i>> \o s)
         /\ ToSet(<<i>> \o s) = ToSet(s) \cup {i}
<1> DEFINE e == <<i>>
           r == e \o s
<1>0. e \in Seq(Index) /\ Len(e) = 1 /\ e[1] = i
  OBVIOUS
<1> HIDE DEF e
<1>1. /\ r \in Seq(Index) /\ Len(r) = 1 + Len(s)
      /\ \A j \in 1 .. 1 + Len(s) : r[j] = IF j <= 1 THEN e[j] ELSE s[j - 1]
  <2>1. /\ r \in Seq(Index) /\ Len(r) = Len(e) + Len(s)
        /\ \A j \in 1 .. Len(e) + Len(s) : r[j] = IF j <= Len(e) THEN e[j] ELSE s[j - Len(e)]
    BY <1>0, ConcatProperties
  <2> HIDE DEF r
  <2> QED
    BY <1>0, <2>1
<1>2. Len(s) \in Nat /\ DOMAIN s = 1 .. Len(s) /\ DOMAIN r = 1 .. 1 + Len(s)
  BY <1>1, LenProperties
<1> HIDE DEF r
<1>3. r[1] = i
  BY <1>0, <1>1, <1>2
<1>4. \A j \in 1 .. Len(s) : r[j + 1] = s[j] /\ s[j] # i
  BY <1>1, <1>2, SMTT(30) DEF ToSet
<1>5. \A j \in DOMAIN r : j = 1 \/ (j - 1 \in DOMAIN s /\ r[j] = s[j - 1] /\ s[j - 1] # i)
  BY <1>1, <1>2 DEF ToSet
<1>6. Once(r)
  <2> SUFFICES ASSUME NEW j \in DOMAIN r, NEW k \in DOMAIN r, r[j] = r[k] PROVE j = k
    BY DEF Once
  <2>1. CASE j = 1 \/ k = 1
    BY <2>1, <1>3, <1>5
  <2>2. CASE j # 1 /\ k # 1
    <3>1. j - 1 \in DOMAIN s /\ k - 1 \in DOMAIN s /\ s[j - 1] = s[k - 1]
      BY <2>2, <1>5
    <3>2. j - 1 = k - 1
      BY <3>1 DEF Once
    <3> QED
      BY <3>2, <1>2
  <2> QED
    BY <2>1, <2>2
<1>7. ToSet(r) = ToSet(s) \cup {i}
  <2>1. \A x \in ToSet(r) : x \in ToSet(s) \cup {i}
    BY <1>3, <1>5 DEF ToSet
  <2>2. \A j \in DOMAIN s : j + 1 \in DOMAIN r /\ r[j + 1] = s[j]
    BY <1>2, <1>4
  <2>3. \A x \in ToSet(s) : x \in ToSet(r)
    BY <2>2 DEF ToSet
  <2>4. i \in ToSet(r)
    BY <1>2, <1>3 DEF ToSet
  <2> QED
    BY <2>1, <2>3, <2>4
<1> QED
  BY <1>1, <1>6, <1>7 DEF r, e

\* A record that may be put into the hole i, as a child of parent.
IsNewRecord(t, i, r, parent) ==
  /\ i \in Index /\ t[i] = Hole
  /\ r \in AnyRecord /\ r # Hole
  /\ Reaches(t, StartOf(r.id), i)
  /\ \A j \in Index : t[j] # Hole => ~SameKey(t[j], r)
  /\ \/ r.type = "issuance" /\ parent = Root
     \/ r.type = "ownership" /\ parent = r.ref /\ t[parent].type = "issuance"
     \/ r.type = "possession" /\ parent = r.ref /\ t[parent].type = "ownership"

LEMMA NothingBelongsToHole ==
  ASSUME NEW t, IsTable(t), NEW i \in Index, t[i] = Hole, NEW j \in Index
  PROVE  ~BelongsTo(t, i, j) /\ \A parent : ~BelongsTo(t, parent, i)
<1>1. t[i].type = "hole" /\ i # Root
  BY RootIsNoIndex DEF Hole
<1> QED
  BY <1>1 DEF BelongsTo, IsTable, Linked

LEMMA TablePut ==
  ASSUME NEW t, IsTable(t), NEW i, NEW r, NEW parent, IsNewRecord(t, i, r, parent)
  PROVE  IsTable([t EXCEPT ![i] = r])
<1> DEFINE t2 == [t EXCEPT ![i] = r]
<1>1. i \in Index /\ t[i] = Hole /\ r \in AnyRecord /\ r # Hole /\ r.type # "hole"
  BY RecordCases DEF IsNewRecord
<1>2. t2 \in [Index -> AnyRecord] /\ t2[i] = r /\ \A j \in Index : j # i => t2[j] = t[j]
  BY <1>1 DEF IsTable
<1> HIDE DEF t2
<1>3. \A j \in Index : t[j] # Hole => t2[j] # Hole
  BY <1>1, <1>2
<1>4. Linked(t2)
  <2> SUFFICES ASSUME NEW j \in Index
               PROVE  /\ t2[j].type = "ownership" => t2[t2[j].ref].type = "issuance"
                      /\ t2[j].type = "possession" => t2[t2[j].ref].type = "ownership"
    BY DEF Linked
  <2>1. CASE j = i
    <3>1. CASE r.type = "issuance"
      BY <2>1, <3>1, <1>2
    <3>2. CASE r.type # "issuance"
      <4>1. r.ref \in Index
        BY <3>2, <1>1, RecordCases
      <4>2. r.ref # i
        BY <1>1, <3>2 DEF IsNewRecord, Hole
      <4> QED
        BY <2>1, <3>2, <4>1, <4>2, <1>2 DEF IsNewRecord
    <3> QED
      BY <3>1, <3>2
  <2>2. CASE j # i
    <3>1. t2[j] = t[j]
      BY <2>2, <1>2
    <3>2. t[j].type \in {"ownership", "possession"} => t[j].ref \in Index
      BY RecordCases DEF IsTable
    <3>3. t[j].type \in {"ownership", "possession"} => t[j].ref # i
      BY <1>1 DEF IsTable, Linked, Hole
    <3>4. t[j].type \in {"ownership", "possession"} => t2[t[j].ref] = t[t[j].ref]
      BY <3>2, <3>3, <1>2
    <3> QED
      BY <3>1, <3>4 DEF IsTable, Linked
  <2> QED
    BY <2>1, <2>2
<1>5. Reachable(t2)
  <2> SUFFICES ASSUME NEW j \in Index, t2[j] # Hole PROVE Reaches(t2, StartOf(t2[j].id), j)
    BY DEF Reachable
  <2>1. t2[j].id \in Ids
    BY <1>2, RecordCases
  <2>2. Reaches(t, StartOf(t2[j].id), j)
    BY <1>2 DEF IsTable, Reachable, IsNewRecord
  <2> QED
    BY <1>3, <2>1, <2>2, StartsInTable, ReachesStays
<1>6. Unique(t2)
  <2> SUFFICES ASSUME NEW j \in Index, NEW k \in Index, t2[j] # Hole, t2[k] # Hole,
                      SameKey(t2[j], t2[k])
               PROVE  j = k
    BY DEF Unique
  <2>1. CASE j # i /\ k # i
    BY <2>1, <1>2 DEF IsTable, Unique
  <2>2. CASE j # i /\ k = i
    BY <2>2, <1>2 DEF IsNewRecord
  <2>3. CASE j = i /\ k # i
    <3>1. SameKey(t[k], r)
      BY <2>3, <1>2 DEF SameKey
    <3> QED
      BY <2>3, <3>1, <1>2 DEF IsNewRecord
  <2> QED
    BY <2>1, <2>2, <2>3
<1> QED
  BY <1>2, <1>4, <1>5, <1>6 DEF IsTable, t2

LEMMA ChildrenPut ==
  ASSUME NEW t, IsTable(t), NEW c, IsChildren(t, c),
         NEW i, NEW r, NEW parent, IsNewRecord(t, i, r, parent)
  PROVE  IsChildren([t EXCEPT ![i] = r], [c EXCEPT ![parent] = <<i>> \o @])
<1> DEFINE t2 == [t EXCEPT ![i] = r]
           c2 == [c EXCEPT ![parent] = <<i>> \o c[parent]]
<1>1. i \in Index /\ t[i] = Hole /\ r \in AnyRecord /\ r # Hole /\ r.type # "hole"
  BY RecordCases DEF IsNewRecord
<1>2. t2[i] = r /\ \A j \in Index : j # i => t2[j] = t[j]
  BY <1>1 DEF IsTable
<1>3. parent \in Parents
  BY <1>1, RecordCases DEF IsNewRecord, Parents
<1>4. c2 \in [Parents -> Seq(Index)] /\ c2[parent] = <<i>> \o c[parent]
      /\ \A q \in Parents : q # parent => c2[q] = c[q]
  BY <1>1, <1>3, Prepended, NothingBelongsToHole DEF IsChildren
<1>5. /\ Once(<<i>> \o c[parent])
      /\ ToSet(<<i>> \o c[parent]) = ToSet(c[parent]) \cup {i}
  <2>1. i \notin ToSet(c[parent])
    BY <1>1, <1>3, NothingBelongsToHole DEF IsChildren
  <2>2. c[parent] \in Seq(Index) /\ Once(c[parent])
    BY <1>3 DEF IsChildren
  <2> QED
    BY <1>1, <2>1, <2>2, Prepended
<1>6. \A q \in Parents : BelongsTo(t2, q, i) <=> q = parent
  <2> SUFFICES ASSUME NEW q \in Parents PROVE BelongsTo(t2, q, i) <=> q = parent
    OBVIOUS
  <2>1. CASE r.type = "issuance"
    BY <2>1, <1>2 DEF BelongsTo, IsNewRecord
  <2>2. CASE r.type # "issuance"
    <3>1. r.type \in {"ownership", "possession"} /\ parent = r.ref /\ r.ref \in Index
      BY <2>2, <1>1, RecordCases DEF IsNewRecord
    <3> QED
      BY <2>2, <3>1, <1>2, RootIsNoIndex DEF BelongsTo
  <2> QED
    BY <2>1, <2>2
<1>7. \A q \in Parents, j \in Index : j # i => (BelongsTo(t2, q, j) <=> BelongsTo(t, q, j))
  BY <1>2 DEF BelongsTo
<1>8. \A q \in Parents : i \notin ToSet(c[q])
  BY <1>1, NothingBelongsToHole DEF IsChildren
<1> HIDE DEF t2, c2
<1>9. \A q \in Parents : Once(c2[q])
  BY <1>4, <1>5 DEF IsChildren
<1>10. \A q \in Parents, j \in Index : j \in ToSet(c2[q]) <=> BelongsTo(t2, q, j)
  <2> SUFFICES ASSUME NEW q \in Parents, NEW j \in Index
               PROVE  j \in ToSet(c2[q]) <=> BelongsTo(t2, q, j)
    OBVIOUS
  <2>1. CASE j = i
    <3>1. i \in ToSet(c2[q]) <=> q = parent
      BY <1>4, <1>5, <1>8
    <3> QED
      BY <2>1, <3>1, <1>6
  <2>2. CASE j # i
    <3>1. j \in ToSet(c2[q]) <=> j \in ToSet(c[q])
      BY <2>2, <1>4, <1>5
    <3> QED
      BY <2>2, <3>1, <1>7 DEF IsChildren
  <2> QED
    BY <2>1, <2>2
<1> QED
  BY <1>4, <1>9, <1>10 DEF IsChildren, t2, c2

LEMMA PutKeeps ==
  ASSUME NEW u, IsUniverse(u), NEW i, NEW r, NEW parent, IsNewRecord(u.t, i, r, parent)
  PROVE  IsUniverse(Put(u, i, r, parent))
BY TablePut, ChildrenPut DEF IsUniverse, Put

\* The shares of a holding change.
WithShares(t, i, n) == [t EXCEPT ![i].shares = n]

LEMMA HoldingWithShares ==
  ASSUME NEW r \in HoldingRecord, NEW n \in Nat
  PROVE  /\ [r EXCEPT !.shares = n] \in HoldingRecord /\ [r EXCEPT !.shares = n].shares = n
         /\ [r EXCEPT !.shares = n].type = r.type /\ [r EXCEPT !.shares = n].id = r.id
         /\ [r EXCEPT !.shares = n].mgmt = r.mgmt /\ [r EXCEPT !.shares = n].ref = r.ref
BY DEF HoldingRecord

\* Two tables that differ in shares only.
SameButShares(t, t2) ==
  /\ t2 \in [Index -> AnyRecord]
  /\ \A j \in Index :
       /\ t2[j].type = t[j].type
       /\ t[j].type # "hole" => t2[j].id = t[j].id
       /\ t[j].type = "issuance" => t2[j] = t[j]
       /\ t[j].type \in {"ownership", "possession"} => t2[j].mgmt = t[j].mgmt /\ t2[j].ref = t[j].ref

LEMMA SharesChanged ==
  ASSUME NEW u, IsUniverse(u), NEW t2, SameButShares(u.t, t2)
  PROVE  IsTable(t2) /\ IsChildren(t2, u.c)
<1> DEFINE t == u.t
<1>0. IsTable(t) /\ IsChildren(t, u.c) /\ t2 \in [Index -> AnyRecord] /\ t \in [Index -> AnyRecord]
  BY DEF IsUniverse, SameButShares, IsTable
<1> HIDE DEF t
<1>1. \A j \in Index : /\ t[j].type = "hole" <=> t[j] = Hole
                       /\ t2[j].type = "hole" <=> t2[j] = Hole
                       /\ t[j] # Hole => t[j].id \in Ids
                       /\ t[j].type \in {"ownership", "possession"} => t[j].ref \in Index
                       /\ t[j].type \in {"hole", "issuance", "ownership", "possession"}
  BY <1>0, RecordCases DEF Hole
<1>2. \A j \in Index :
        /\ t2[j].type = t[j].type
        /\ t[j].type # "hole" => t2[j].id = t[j].id
        /\ t[j].type = "issuance" => t2[j] = t[j]
        /\ t[j].type \in {"ownership", "possession"} => t2[j].mgmt = t[j].mgmt /\ t2[j].ref = t[j].ref
  BY DEF SameButShares, t
<1>3. Linked(t2)
  BY <1>0, <1>1, <1>2 DEF IsTable, Linked
<1>4. Reachable(t2)
  <2> SUFFICES ASSUME NEW j \in Index, t2[j] # Hole PROVE Reaches(t2, StartOf(t2[j].id), j)
    BY DEF Reachable
  <2>1. t[j] # Hole /\ t2[j].id = t[j].id /\ t[j].id \in Ids
    BY <1>1, <1>2
  <2>2. Reaches(t, StartOf(t[j].id), j)
    BY <1>0, <2>1 DEF IsTable, Reachable
  <2>3. \A k \in Index : t[k] # Hole => t2[k] # Hole
    BY <1>1, <1>2
  <2> QED
    BY <2>1, <2>2, <2>3, StartsInTable, ReachesStays
<1>5. Unique(t2)
  <2> SUFFICES ASSUME NEW j \in Index, NEW k \in Index, t2[j] # Hole, t2[k] # Hole,
                      SameKey(t2[j], t2[k])
               PROVE  j = k
    BY DEF Unique
  <2>1. t[j] # Hole /\ t[k] # Hole
    BY <1>1, <1>2
  <2>2. SameKey(t[j], t[k])
    BY <1>1, <1>2, <2>1 DEF SameKey
  <2> QED
    BY <1>0, <2>1, <2>2 DEF IsTable, Unique
<1>7. \A q \in Parents, j \in Index : BelongsTo(t2, q, j) <=> BelongsTo(t, q, j)
  BY <1>1, <1>2 DEF BelongsTo
<1> QED
  BY <1>0, <1>3, <1>4, <1>5, <1>7 DEF IsTable, IsChildren

(***************************************************************************)
(* Debits, credits and moves.                                              *)
(***************************************************************************)

LEMMA WithSharesKeeps ==
  ASSUME NEW u, IsUniverse(u), NEW i \in Index, u.t[i].type \in {"ownership", "possession"}, NEW n \in Nat
  PROVE  /\ SameButShares(u.t, WithShares(u.t, i, n))
         /\ WithShares(u.t, i, n)[i] = [u.t[i] EXCEPT !.shares = n]
         /\ WithShares(u.t, i, n)[i].shares = n
         /\ \A j \in Index : j # i => WithShares(u.t, i, n)[j] = u.t[j]
<1> DEFINE t == u.t
           t2 == WithShares(t, i, n)
<1>1. t \in [Index -> AnyRecord]
  BY DEF IsUniverse, IsTable
<1> HIDE DEF t
<1>2. t[i] \in HoldingRecord
  BY <1>1, RecordCases DEF t
<1>3. t2[i] = [t[i] EXCEPT !.shares = n] /\ \A j \in Index : j # i => t2[j] = t[j]
  BY <1>1 DEF WithShares
<1>4. t2[i] \in HoldingRecord /\ t2[i].type = t[i].type /\ t2[i].id = t[i].id
      /\ t2[i].mgmt = t[i].mgmt /\ t2[i].ref = t[i].ref /\ t2[i].shares = n
  BY <1>2, <1>3, HoldingWithShares
<1>5. t2 \in [Index -> AnyRecord]
  <2>1. [t[i] EXCEPT !.shares = n] \in AnyRecord
    BY <1>3, <1>4 DEF AnyRecord
  <2> QED
    BY <1>1, <2>1 DEF WithShares
<1>6. t[i].type # "issuance"
  BY <1>2 DEF HoldingRecord
<1> HIDE DEF t2
<1>7. SameButShares(t, t2)
  BY <1>3, <1>4, <1>5, <1>6 DEF SameButShares
<1> QED
  BY <1>3, <1>4, <1>7 DEF t, t2

LEMMA DebitKeeps ==
  ASSUME NEW u, IsUniverse(u), NEW i \in Index, u.t[i].type \in {"ownership", "possession"},
         NEW n \in Nat, n <= u.t[i].shares
  PROVE  /\ IsUniverse(Debit(u, i, n)) /\ Debit(u, i, n).c = u.c
         /\ Debit(u, i, n).t = WithShares(u.t, i, u.t[i].shares - n)
         /\ u.t[i].shares - n \in Nat
         /\ SameButShares(u.t, Debit(u, i, n).t)
<1>1. u.t[i] \in AnyRecord
  BY DEF IsUniverse, IsTable
<1>2. u.t[i].shares \in Nat
  BY <1>1, RecordCases
<1>3. u.t[i].shares - n \in Nat
  BY <1>2
<1> DEFINE t2 == WithShares(u.t, i, u.t[i].shares - n)
<1>4. Debit(u, i, n).t = t2 /\ Debit(u, i, n).c = u.c /\ DOMAIN Debit(u, i, n) = {"t", "c"}
  BY DEF Debit, WithShares, IsUniverse, IsTable
<1>5. SameButShares(u.t, t2)
  BY <1>3, WithSharesKeeps
<1>6. IsTable(t2) /\ IsChildren(t2, u.c)
  BY <1>5, SharesChanged
<1> HIDE DEF t2
<1> QED
  BY <1>3, <1>4, <1>5, <1>6 DEF IsUniverse, t2

\* What a credit does, where p is the place of the holding.
Credited(u, u2, type, id, mgmt, parent, n, p) ==
  /\ p \in Index
  /\ \/ /\ IsHolding(u.t[p], type, id, mgmt, parent)
        /\ u2.t = WithShares(u.t, p, u.t[p].shares + n) /\ u2.c = u.c
        /\ u.t[p].shares + n \in Nat /\ SameButShares(u.t, u2.t)
     \/ /\ u.t[p] = Hole /\ \A j \in Index : ~IsHolding(u.t[j], type, id, mgmt, parent)
        /\ u2.t = [u.t EXCEPT ![p] = Holding(type, id, mgmt, parent, n)]

LEMMA CreditKeeps ==
  ASSUME NEW u, IsUniverse(u), Roomy(u.t), NEW type, NEW id \in Ids, NEW mgmt \in Slots,
         NEW parent \in Index, NEW n \in Nat,
         \/ type = "ownership" /\ u.t[parent].type = "issuance"
         \/ type = "possession" /\ u.t[parent].type = "ownership"
  PROVE  /\ IsUniverse(Credit(u, type, id, mgmt, parent, n))
         /\ Credited(u, Credit(u, type, id, mgmt, parent, n), type, id, mgmt, parent, n,
                     PlaceOf(u.t, type, id, mgmt, parent))
<1> DEFINE p == PlaceOf(u.t, type, id, mgmt, parent)
           u2 == Credit(u, type, id, mgmt, parent, n)
           r == Holding(type, id, mgmt, parent, n)
<1>0. type \in {"ownership", "possession"} /\ IsTable(u.t) /\ u.t \in [Index -> AnyRecord]
  BY DEF IsUniverse, IsTable
<1>1. PlaceIs(u.t, type, id, mgmt, parent, p)
  BY <1>0, PlaceSought
<1>2. u2 = IF u.t[p] = Hole THEN Put(u, p, r, parent)
           ELSE [u EXCEPT !.t[p].shares = @ + n]
  BY DEF Credit
<1> HIDE DEF p, u2, r
<1>3. p \in Index
  BY <1>1 DEF PlaceIs
<1>4. CASE u.t[p] = Hole
  <2>1. r \in AnyRecord /\ r.type = type /\ r.id = id /\ r.mgmt = mgmt /\ r.ref = parent /\ r # Hole
    <3>1. r = [type |-> type, id |-> id, mgmt |-> mgmt, ref |-> parent, shares |-> n]
      BY DEF r, Holding
    <3>2. r \in HoldingRecord
      BY <1>0, <3>1 DEF HoldingRecord
    <3>3. r.type # "hole"
      BY <1>0, <3>1
    <3> QED
      BY <3>1, <3>2, <3>3 DEF AnyRecord, Hole
  <2>2. \A j \in Index : ~IsHolding(u.t[j], type, id, mgmt, parent)
    BY <1>0, <1>1, <1>4 DEF PlaceIs, IsHolding, Hole
  <2>3. \A j \in Index : u.t[j] # Hole => ~SameKey(u.t[j], r)
    BY <1>0, <2>1, <2>2 DEF SameKey, IsHolding
  <2>4. IsNewRecord(u.t, p, r, parent)
    BY <1>1, <1>3, <1>4, <2>1, <2>3 DEF IsNewRecord, PlaceIs
  <2>5. IsUniverse(u2)
    BY <1>2, <1>4, <2>4, PutKeeps
  <2>6. u2.t = [u.t EXCEPT ![p] = r]
    BY <1>2, <1>4 DEF Put
  <2> QED
    BY <1>3, <1>4, <2>2, <2>5, <2>6 DEF Credited, u2, p, r
<1>5. CASE u.t[p] # Hole
  <2>1. IsHolding(u.t[p], type, id, mgmt, parent)
    BY <1>1, <1>5 DEF PlaceIs
  <2>2. u.t[p].type \in {"ownership", "possession"} /\ u.t[p].shares + n \in Nat
    <3>1. u.t[p].type \in {"ownership", "possession"}
      BY <1>0, <2>1 DEF IsHolding
    <3>2. u.t[p].shares \in Nat
      BY <1>0, <1>3, <3>1, RecordCases
    <3> QED
      BY <3>1, <3>2
  <2> DEFINE t2 == WithShares(u.t, p, u.t[p].shares + n)
  <2>3. u2.t = t2 /\ u2.c = u.c /\ DOMAIN u2 = {"t", "c"}
    BY <1>2, <1>3, <1>5, <1>0 DEF WithShares, IsUniverse
  <2>4. SameButShares(u.t, t2)
    BY <1>3, <2>2, WithSharesKeeps
  <2>5. IsTable(t2) /\ IsChildren(t2, u.c)
    BY <2>4, SharesChanged
  <2> HIDE DEF t2
  <2>6. IsUniverse(u2)
    BY <2>3, <2>5 DEF IsUniverse
  <2>7. Credited(u, u2, type, id, mgmt, parent, n, p)
    BY <1>3, <2>1, <2>2, <2>3, <2>4 DEF Credited, t2
  <2> QED
    BY <2>6, <2>7 DEF u2, p
<1> QED
  BY <1>4, <1>5

\* A credit makes no room.
LEMMA FullStaysFull ==
  ASSUME NEW u, IsUniverse(u), ~Roomy(u.t), NEW type \in {"ownership", "possession"}, NEW id, NEW mgmt,
         NEW parent, NEW n
  PROVE  ~Roomy(Credit(u, type, id, mgmt, parent, n).t)
<1> DEFINE p == PlaceOf(u.t, type, id, mgmt, parent)
           u2 == Credit(u, type, id, mgmt, parent, n)
           r == Holding(type, id, mgmt, parent, n)
           r2 == [u.t[p] EXCEPT !.shares = u.t[p].shares + n]
<1>0. u.t \in [Index -> AnyRecord] /\ \A j \in Index : u.t[j] # Hole
  BY DEF IsUniverse, IsTable, Roomy
<1>1. u2 = IF u.t[p] = Hole THEN Put(u, p, r, parent)
           ELSE [u EXCEPT !.t[p].shares = @ + n]
  BY DEF Credit
<1>2. r # Hole
  BY DEF Holding, Hole
<1>3. p \in Index => r2 # Hole
  <2>1. ASSUME p \in Index PROVE r2.type = u.t[p].type /\ u.t[p].type # "hole"
    BY <1>0, <2>1, RecordCases DEF IssuanceRecord, HoldingRecord
  <2> QED
    BY <2>1 DEF Hole
<1>4. \/ u2.t = [u.t EXCEPT ![p] = r] \/ u2.t = [u.t EXCEPT ![p] = r2]
  BY <1>1 DEF Put, IsUniverse
<1> HIDE DEF p, u2, r, r2
<1>5. \A j \in Index : u2.t[j] # Hole
  BY <1>0, <1>2, <1>3, <1>4
<1> QED
  BY <1>5 DEF Roomy, u2

\* Every ownership has one possession, of the same owner, manager and shares.
Paired(t) ==
  /\ \A p \in Index : t[p].type = "possession" =>
       LET o == t[p].ref IN
       t[p].id = t[o].id /\ t[p].mgmt = t[o].mgmt /\ t[p].shares = t[o].shares
  /\ \A o \in Index : t[o].type = "ownership" =>
       \E p \in Index : t[p].type = "possession" /\ t[p].ref = o

\* A holding that can be moved: an ownership and its possession.
IsSource(t, from) ==
  /\ from.own \in Index /\ t[from.own].type = "ownership"
  /\ from.pos \in Index /\ t[from.pos].type = "possession" /\ t[from.pos].ref = from.own

\* What a move to owner and mgmt does to the table: nothing, as the source is the
\* destination; or the destination, o and p, gets the shares; or it is new.
Merges(t, t2, from, o, p, n, owner, mgmt) ==
  /\ IsHolding(t[o], "ownership", owner, mgmt, t[from.own].ref) /\ o # from.own
  /\ IsHolding(t[p], "possession", owner, mgmt, o) /\ p # from.pos
  /\ SameButShares(t, t2)
  /\ t2[from.own].shares = t[from.own].shares - n /\ t2[from.pos].shares = t[from.pos].shares - n
  /\ t2[o].shares = t[o].shares + n /\ t2[p].shares = t[p].shares + n
  /\ \A j \in Index \ {from.own, from.pos, o, p} : t2[j] = t[j]

Opens(t, t2, from, o, p, n, owner, mgmt) ==
  /\ t[o] = Hole /\ t[p] = Hole /\ o # p
  /\ \A j \in Index : ~IsHolding(t[j], "ownership", owner, mgmt, t[from.own].ref)
  /\ \A j \in {from.own, from.pos} :
       t2[j] = [t[j] EXCEPT !.shares = t[j].shares - n]
  /\ t2[o] = Holding("ownership", owner, mgmt, t[from.own].ref, n)
  /\ t2[p] = Holding("possession", owner, mgmt, o, n)
  /\ \A j \in Index \ {from.own, from.pos, o, p} : t2[j] = t[j]

Moved(t, t2, from, n, owner, mgmt) ==
  \/ t2 = t /\ t[from.own].id = owner /\ t[from.own].mgmt = mgmt
  \/ \E o \in Index, p \in Index :
       Merges(t, t2, from, o, p, n, owner, mgmt) \/ Opens(t, t2, from, o, p, n, owner, mgmt)

LEMMA SharesOfHolding ==
  ASSUME NEW t, t \in [Index -> AnyRecord], NEW i \in Index, t[i].type \in {"ownership", "possession"}
  PROVE  /\ t[i] \in HoldingRecord /\ t[i].shares \in Nat /\ t[i].ref \in Index
         /\ t[i].id \in Ids /\ t[i].mgmt \in Slots /\ t[i] # Hole
BY RecordCases

\* Two changes of shares one after the other.
LEMMA WithSharesTwice ==
  ASSUME NEW t, t \in [Index -> AnyRecord], NEW i \in Index, t[i].type \in {"ownership", "possession"},
         NEW n \in Nat, NEW m
  PROVE  WithShares(WithShares(t, i, n), i, m) = WithShares(t, i, m)
BY SharesOfHolding DEF WithShares, HoldingRecord

LEMMA WithSharesSame ==
  ASSUME NEW t, t \in [Index -> AnyRecord], NEW i \in Index, t[i].type \in {"ownership", "possession"}
  PROVE  WithShares(t, i, t[i].shares) = t
<1>1. t[i] \in HoldingRecord
  BY SharesOfHolding
<1>2. [t[i] EXCEPT !.shares = t[i].shares] = t[i]
  BY <1>1 DEF HoldingRecord
<1> QED
  BY <1>2 DEF WithShares

LEMMA WithSharesElse ==
  ASSUME NEW t, t \in [Index -> AnyRecord], NEW i, NEW n
  PROVE  \A j \in Index : j # i => WithShares(t, i, n)[j] = t[j]
BY DEF WithShares

LEMMA WithSharesAt ==
  ASSUME NEW t, t \in [Index -> AnyRecord], NEW i \in Index, t[i].type \in {"ownership", "possession"},
         NEW n \in Nat
  PROVE  WithShares(t, i, n)[i].shares = n
<1>1. WithShares(t, i, n)[i] = [t[i] EXCEPT !.shares = n]
  BY DEF WithShares
<1> QED
  BY <1>1, SharesOfHolding, HoldingWithShares

\* The four steps of a move.
LEMMA MoveSteps ==
  ASSUME NEW u, IsUniverse(u), Roomy(u.t), Paired(u.t), NEW from, IsSource(u.t, from),
         NEW n \in Nat, n <= u.t[from.pos].shares, NEW owner \in Ids, NEW mgmt \in Slots,
         Roomy(Move(u, from, owner, owner, mgmt, mgmt, n).t)
  PROVE  \E u1, u2, u3, o, p :
           LET u4 == Move(u, from, owner, owner, mgmt, mgmt, n)
               i == u.t[from.own].ref
           IN /\ IsUniverse(u1) /\ IsUniverse(u2) /\ IsUniverse(u3) /\ IsUniverse(u4)
              /\ i \in Index /\ u.t[i].type = "issuance"
              /\ SameButShares(u.t, u1.t) /\ u1.c = u.c
              /\ u1.t = WithShares(u.t, from.own, u.t[from.own].shares - n)
              /\ Credited(u1, u2, "ownership", owner, mgmt, i, n, o)
              /\ SameButShares(u2.t, u3.t) /\ u3.c = u2.c
              /\ u3.t = WithShares(u2.t, from.pos, u2.t[from.pos].shares - n)
              /\ Credited(u3, u4, "possession", owner, mgmt, o, n, p)
              /\ from.pos # o /\ u2.t[from.pos] = u.t[from.pos]
              /\ u2.t[o].type = "ownership"
<1> DEFINE t == u.t
           i == t[from.own].ref
           u1 == Debit(u, from.own, n)
           u2 == Credit(u1, "ownership", owner, mgmt, i, n)
           o == PlaceOf(u1.t, "ownership", owner, mgmt, i)
           u3 == Debit(u2, from.pos, n)
           u4 == Credit(u3, "possession", owner, mgmt, PlaceOf(u2.t, "ownership", owner, mgmt, i), n)
           p == PlaceOf(u3.t, "possession", owner, mgmt, o)
<1>0. u4 = Move(u, from, owner, owner, mgmt, mgmt, n)
  BY DEF Move
<1>1. IsTable(t) /\ t \in [Index -> AnyRecord]
  BY DEF IsUniverse, IsTable
<1>2. /\ from.own \in Index /\ t[from.own].type = "ownership"
      /\ from.pos \in Index /\ t[from.pos].type = "possession" /\ t[from.pos].ref = from.own
      /\ from.pos # from.own
  BY DEF IsSource
<1>3. i \in Index /\ t[i].type = "issuance" /\ n <= t[from.own].shares
      /\ t[from.own].shares \in Nat /\ t[from.pos].shares \in Nat /\ i # from.own
  BY <1>1, <1>2, SharesOfHolding DEF IsTable, Linked, Paired
<1>4. /\ IsUniverse(u1) /\ u1.c = u.c
      /\ u1.t = WithShares(t, from.own, t[from.own].shares - n)
      /\ t[from.own].shares - n \in Nat /\ SameButShares(t, u1.t)
  BY <1>2, <1>3, DebitKeeps
<1>5. \A j \in Index : j # from.own => u1.t[j] = t[j]
  BY <1>1, <1>4, WithSharesElse
<1>6. Roomy(u1.t)
  <2>1. PICK h \in Index : t[h] = Hole
    BY DEF Roomy
  <2>2. h # from.own
    BY <1>2, <2>1 DEF Hole
  <2> QED
    BY <1>5, <2>1, <2>2 DEF Roomy
<1> HIDE DEF u1
<1>7. u1.t[i].type = "issuance"
  BY <1>3, <1>5
<1>8. IsUniverse(u2) /\ Credited(u1, u2, "ownership", owner, mgmt, i, n, o)
  BY <1>3, <1>4, <1>6, <1>7, CreditKeeps
<1>10. o \in Index /\ from.pos # o /\ u2.t[from.pos] = u1.t[from.pos]
       /\ IsHolding(u2.t[o], "ownership", owner, mgmt, i)
  <2> HIDE DEF u2, o
  <2>0. o \in Index /\ u1.t[from.pos].type = "possession" /\ u1.t \in [Index -> AnyRecord]
    BY <1>2, <1>4, <1>5, <1>8 DEF Credited, IsUniverse, IsTable
  <2>1. CASE /\ IsHolding(u1.t[o], "ownership", owner, mgmt, i)
             /\ u2.t = WithShares(u1.t, o, u1.t[o].shares + n) /\ u2.c = u1.c
             /\ u1.t[o].shares + n \in Nat /\ SameButShares(u1.t, u2.t)
    <3>1. u1.t[o].type = "ownership" /\ o # from.pos
      BY <2>0, <2>1 DEF IsHolding
    <3>2. \A j \in Index : j # o => u2.t[j] = u1.t[j]
      BY <2>0, <2>1, WithSharesElse
    <3>3. IsHolding(u2.t[o], "ownership", owner, mgmt, i)
      BY <2>0, <2>1, <3>1 DEF SameButShares, IsHolding
    <3> QED
      BY <1>2, <2>0, <3>1, <3>2, <3>3
  <2>2. CASE u1.t[o] = Hole /\ u2.t = [u1.t EXCEPT ![o] = Holding("ownership", owner, mgmt, i, n)]
    <3>1. o # from.pos
      BY <2>0, <2>2 DEF Hole
    <3>2. u2.t[o] = Holding("ownership", owner, mgmt, i, n)
      BY <2>0, <2>2
    <3>3. IsHolding(u2.t[o], "ownership", owner, mgmt, i)
      BY <3>2 DEF Holding, IsHolding
    <3>4. u2.t[from.pos] = u1.t[from.pos]
      BY <1>2, <2>0, <2>2, <3>1
    <3> QED
      BY <2>0, <3>1, <3>3, <3>4
  <2> QED
    BY <1>8, <2>1, <2>2 DEF Credited
<1>11. u2.t[from.pos] = t[from.pos]
  BY <1>2, <1>5, <1>10
<1>12. /\ IsUniverse(u3) /\ u3.c = u2.c
       /\ u3.t = WithShares(u2.t, from.pos, u2.t[from.pos].shares - n)
       /\ SameButShares(u2.t, u3.t)
  <2> HIDE DEF u2
  <2> QED
    BY <1>2, <1>3, <1>8, <1>11, DebitKeeps
<1> HIDE DEF u3
<1>13. Roomy(u3.t)
  <2>1. u4 = Credit(u3, "possession", owner, mgmt, PlaceOf(u2.t, "ownership", owner, mgmt, i), n)
    OBVIOUS
  <2>2. Roomy(u4.t)
    BY <1>0
  <2> HIDE DEF u4, u2
  <2> QED
    BY <1>12, <2>1, <2>2, FullStaysFull
<1>14. Roomy(u2.t)
  <2> HIDE DEF u2
  <2>1. PICK h \in Index : u3.t[h] = Hole
    BY <1>13 DEF Roomy
  <2>2. u3.t[h].type = "hole"
    BY <2>1 DEF Hole
  <2>3. u2.t[h].type = "hole"
    BY <1>12, <2>2 DEF SameButShares
  <2>4. u2.t[h] \in AnyRecord
    BY <1>8 DEF IsUniverse, IsTable
  <2> QED
    BY <2>3, <2>4, RecordCases DEF Roomy
<1> HIDE DEF u2
<1>15. PlaceOf(u2.t, "ownership", owner, mgmt, i) = o
  <2> HIDE DEF o
  <2> QED
    BY <1>8, <1>10, <1>14, PlaceFound DEF IsUniverse
<1> HIDE DEF o
<1>16. u4 = Credit(u3, "possession", owner, mgmt, o, n)
  BY <1>15
<1>17. u3.t[o].type = "ownership" /\ u2.t[o].type = "ownership"
  BY <1>10, <1>12 DEF SameButShares, IsHolding
<1> HIDE DEF u4
<1>18. IsUniverse(u4) /\ Credited(u3, u4, "possession", owner, mgmt, o, n, p)
  BY <1>10, <1>12, <1>13, <1>16, <1>17, CreditKeeps
<1> HIDE DEF p, i
<1> QED
  BY <1>0, <1>3, <1>4, <1>8, <1>10, <1>11, <1>12, <1>17, <1>18 DEF i

LEMMA SameAgain ==
  ASSUME NEW t, NEW t2, NEW t3, SameButShares(t, t2), SameButShares(t2, t3)
  PROVE  SameButShares(t, t3)
<1> SUFFICES ASSUME NEW j \in Index
             PROVE  /\ t3[j].type = t[j].type
                    /\ t[j].type # "hole" => t3[j].id = t[j].id
                    /\ t[j].type = "issuance" => t3[j] = t[j]
                    /\ t[j].type \in {"ownership", "possession"} => t3[j].mgmt = t[j].mgmt /\ t3[j].ref = t[j].ref
  BY DEF SameButShares
<1> QED
  BY DEF SameButShares

LEMMA SameHolding ==
  ASSUME NEW t, NEW t2, SameButShares(t, t2), NEW j \in Index, NEW type \in {"ownership", "possession"},
         NEW id, NEW mgmt, NEW ref
  PROVE  IsHolding(t2[j], type, id, mgmt, ref) <=> IsHolding(t[j], type, id, mgmt, ref)
BY DEF SameButShares, IsHolding

LEMMA SameHoles ==
  ASSUME NEW t, t \in [Index -> AnyRecord], NEW t2, SameButShares(t, t2), NEW j \in Index
  PROVE  t2[j] = Hole <=> t[j] = Hole
<1>1. t2[j] \in AnyRecord /\ t[j] \in AnyRecord /\ t2[j].type = t[j].type
  BY DEF SameButShares
<1> QED
  BY <1>1, RecordCases

\* A move keeps a universe, and does to its table what Moved says.
LEMMA MoveSound ==
  ASSUME NEW u, IsUniverse(u), Roomy(u.t), Paired(u.t), NEW from, IsSource(u.t, from),
         NEW n \in Nat, n <= u.t[from.pos].shares, NEW owner \in Ids, NEW mgmt \in Slots,
         Roomy(Move(u, from, owner, owner, mgmt, mgmt, n).t)
  PROVE  /\ IsUniverse(Move(u, from, owner, owner, mgmt, mgmt, n))
         /\ Moved(u.t, Move(u, from, owner, owner, mgmt, mgmt, n).t, from, n, owner, mgmt)
<1> DEFINE t == u.t
           u4 == Move(u, from, owner, owner, mgmt, mgmt, n)
           i == t[from.own].ref
<1>1. PICK u1, u2, u3, o, p :
           /\ IsUniverse(u1) /\ IsUniverse(u2) /\ IsUniverse(u3) /\ IsUniverse(u4)
           /\ i \in Index /\ t[i].type = "issuance"
           /\ SameButShares(t, u1.t) /\ u1.c = u.c
           /\ u1.t = WithShares(t, from.own, t[from.own].shares - n)
           /\ Credited(u1, u2, "ownership", owner, mgmt, i, n, o)
           /\ SameButShares(u2.t, u3.t) /\ u3.c = u2.c
           /\ u3.t = WithShares(u2.t, from.pos, u2.t[from.pos].shares - n)
           /\ Credited(u3, u4, "possession", owner, mgmt, o, n, p)
           /\ from.pos # o /\ u2.t[from.pos] = t[from.pos]
           /\ u2.t[o].type = "ownership"
  BY MoveSteps
<1> HIDE DEF u4
<1> DEFINE own == from.own
           pos == from.pos
           t1 == u1.t
           t2 == u2.t
           t3 == u3.t
           t4 == u4.t
<1>2. /\ t \in [Index -> AnyRecord] /\ IsTable(t)
      /\ t1 \in [Index -> AnyRecord] /\ t2 \in [Index -> AnyRecord]
      /\ t3 \in [Index -> AnyRecord] /\ IsTable(t3) /\ t4 \in [Index -> AnyRecord]
  BY <1>1 DEF IsUniverse, IsTable
<1>3. /\ own \in Index /\ t[own].type = "ownership" /\ t[own].shares \in Nat
      /\ pos \in Index /\ t[pos].type = "possession" /\ t[pos].shares \in Nat /\ t[pos].ref = own
      /\ t[pos].id = t[own].id /\ t[pos].mgmt = t[own].mgmt /\ t[pos].shares = t[own].shares
      /\ own # pos
  BY <1>2, SharesOfHolding DEF IsSource, Paired
<1>4. o \in Index /\ p \in Index
  BY <1>1 DEF Credited
<1>5. /\ SameButShares(t, t1) /\ SameButShares(t2, t3) /\ pos # o /\ t2[pos] = t[pos]
      /\ t1 = WithShares(t, own, t[own].shares - n)
      /\ t3 = WithShares(t2, pos, t[pos].shares - n)
      /\ t[own].shares - n \in Nat /\ t[pos].shares - n \in Nat
  BY <1>1, <1>3
<1>6. /\ \A j \in Index : j # own => t1[j] = t[j]
      /\ t1[own] = [t[own] EXCEPT !.shares = t[own].shares - n]
  BY <1>2, <1>3, <1>5, WithSharesElse DEF WithShares
<1>7. /\ \A j \in Index : j # pos => t3[j] = t2[j]
      /\ t3[pos] = [t[pos] EXCEPT !.shares = t[pos].shares - n]
  BY <1>2, <1>3, <1>5, WithSharesElse DEF WithShares
<1>8. t1[own].shares = t[own].shares - n /\ t3[pos].shares = t[pos].shares - n
  <2> DEFINE a == t[own].shares - n
             b == t[pos].shares - n
  <2>1. a \in Nat /\ b \in Nat /\ t1 = WithShares(t, own, a) /\ t3 = WithShares(t2, pos, b)
    BY <1>5
  <2> HIDE DEF a, b
  <2>2. t1[own].shares = a
    BY <1>2, <1>3, <2>1, WithSharesAt
  <2>3. t3[pos].shares = b
    <3>1. t2[pos].type = "possession"
      BY <1>3, <1>5
    <3>2. /\ t2 \in [Index -> AnyRecord] /\ pos \in Index /\ b \in Nat
          /\ t2[pos].type \in {"ownership", "possession"} /\ t3 = WithShares(t2, pos, b)
      BY <1>2, <1>3, <2>1, <3>1
    <3> HIDE DEF t2, t3, pos
    <3> QED
      BY ONLY <3>2, WithSharesAt
  <2> QED
    BY <2>2, <2>3 DEF a, b
<1>9. \/ /\ IsHolding(t1[o], "ownership", owner, mgmt, i)
         /\ t2 = WithShares(t1, o, t1[o].shares + n)
         /\ t1[o].shares + n \in Nat /\ SameButShares(t1, t2)
      \/ /\ t1[o] = Hole /\ \A j \in Index : ~IsHolding(t1[j], "ownership", owner, mgmt, i)
         /\ t2 = [t1 EXCEPT ![o] = Holding("ownership", owner, mgmt, i, n)]
  BY <1>1 DEF Credited
<1>10. \/ /\ IsHolding(t3[p], "possession", owner, mgmt, o)
          /\ t4 = WithShares(t3, p, t3[p].shares + n)
          /\ t3[p].shares + n \in Nat /\ SameButShares(t3, t4)
       \/ /\ t3[p] = Hole /\ \A j \in Index : ~IsHolding(t3[j], "possession", owner, mgmt, o)
          /\ t4 = [t3 EXCEPT ![p] = Holding("possession", owner, mgmt, o, n)]
  BY <1>1 DEF Credited
<1>11. IsUniverse(u4)
  BY <1>1
<1> SUFFICES Moved(t, t4, from, n, owner, mgmt)
  BY <1>11 DEF u4
<1> HIDE DEF t, t1, t2, t3, t4, i
<1>12. ASSUME NEW q \in Index, IsHolding(t3[q], "possession", owner, mgmt, o)
       PROVE  /\ p = q /\ t4 = WithShares(t3, p, t3[p].shares + n)
              /\ t3[p].shares + n \in Nat /\ SameButShares(t3, t4)
  <2>1. /\ IsHolding(t3[p], "possession", owner, mgmt, o) /\ t4 = WithShares(t3, p, t3[p].shares + n)
        /\ t3[p].shares + n \in Nat /\ SameButShares(t3, t4)
    BY <1>10, <1>12
  <2>2. t3[p] # Hole /\ t3[q] # Hole /\ SameKey(t3[p], t3[q])
    BY <2>1, <1>12 DEF IsHolding, Hole, SameKey
  <2>3. p = q
    BY <1>2, <1>4, <2>2 DEF IsTable, Unique
  <2> QED
    BY <2>1, <2>3
<1>13. CASE /\ IsHolding(t1[o], "ownership", owner, mgmt, i)
            /\ t2 = WithShares(t1, o, t1[o].shares + n)
            /\ t1[o].shares + n \in Nat /\ SameButShares(t1, t2)
  <2>1. IsHolding(t[o], "ownership", owner, mgmt, i) /\ SameButShares(t, t2)
    BY <1>4, <1>5, <1>13, SameHolding, SameAgain
  <2>2. SameButShares(t, t3)
    BY <1>5, <2>1, SameAgain
  <2>3. CASE o = own
    <3>1. IsHolding(t[pos], "possession", owner, mgmt, o)
      BY <1>3, <2>1, <2>3 DEF IsHolding
    <3>2. IsHolding(t3[pos], "possession", owner, mgmt, o)
      BY <1>3, <2>2, <3>1, SameHolding
    <3>3. p = pos /\ t4 = WithShares(t3, pos, t3[pos].shares + n)
      BY <1>3, <1>12, <3>2
    <3>4. t2 = t
      <4>1. t1[o].shares + n = t[own].shares
        BY <1>3, <1>8, <2>3
      <4> DEFINE a == t[own].shares - n
      <4>2. a \in Nat /\ t1 = WithShares(t, own, a)
        BY <1>5
      <4>3. t2 = WithShares(t1, own, t[own].shares)
        BY <1>13, <2>3, <4>1
      <4> HIDE DEF a
      <4>4. t2 = WithShares(t, own, t[own].shares)
        BY <1>2, <1>3, <4>2, <4>3, WithSharesTwice
      <4> QED
        BY <1>2, <1>3, <4>4, WithSharesSame
    <3>5. t4 = t
      <4>1. t3[pos].shares + n = t[pos].shares
        BY <1>3, <1>8
      <4> DEFINE b == t[pos].shares - n
      <4>2. b \in Nat /\ t3 = WithShares(t, pos, b)
        BY <1>5, <3>4
      <4>3. t4 = WithShares(t3, pos, t[pos].shares)
        BY <3>3, <4>1
      <4> HIDE DEF b
      <4>4. t4 = WithShares(t, pos, t[pos].shares)
        BY <1>2, <1>3, <4>2, <4>3, WithSharesTwice
      <4> QED
        BY <1>2, <1>3, <4>4, WithSharesSame
    <3>6. t[own].id = owner /\ t[own].mgmt = mgmt
      BY <2>1, <2>3 DEF IsHolding
    <3> QED
      BY <3>5, <3>6 DEF Moved
  <2>4. CASE o # own
    <3>1. PICK q \in Index : t[q].type = "possession" /\ t[q].ref = o
      BY <1>4, <2>1 DEF IsHolding, Paired, t
    <3>2. IsHolding(t[q], "possession", owner, mgmt, o)
      BY <2>1, <3>1 DEF IsHolding, Paired, t
    <3>3. q # pos /\ q # own /\ q # o
      BY <1>3, <2>1, <2>4, <3>1 DEF IsHolding
    <3>4. IsHolding(t3[q], "possession", owner, mgmt, o)
      BY <2>2, <3>2, SameHolding
    <3>5. /\ p = q /\ t4 = WithShares(t3, p, t3[p].shares + n)
          /\ t3[p].shares + n \in Nat /\ SameButShares(t3, t4)
      BY <1>12, <3>4
    <3>6. SameButShares(t, t4)
      BY <2>2, <3>5, SameAgain
    <3>7. /\ \A j \in Index : j # o => t2[j] = t1[j]
          /\ t2[o].shares = t1[o].shares + n
      <4>1. t1[o].type \in {"ownership", "possession"}
        BY <1>13 DEF IsHolding
      <4> DEFINE m == t1[o].shares + n
      <4>2. m \in Nat /\ t2 = WithShares(t1, o, m)
        BY <1>13
      <4>3. \A j \in Index : j # o => t2[j] = t1[j]
        BY <1>2, <4>2, WithSharesElse
      <4> HIDE DEF m
      <4>4. t2[o].shares = m
        BY <1>2, <1>4, <4>1, <4>2, WithSharesAt
      <4> QED
        BY <4>3, <4>4 DEF m
    <3>8. /\ \A j \in Index : j # q => t4[j] = t3[j]
          /\ t4[q].shares = t3[q].shares + n
      <4>1. t3[q].type \in {"ownership", "possession"}
        BY <3>4 DEF IsHolding
      <4> DEFINE m == t3[q].shares + n
      <4>2. m \in Nat /\ t4 = WithShares(t3, q, m)
        BY <3>5
      <4>3. \A j \in Index : j # q => t4[j] = t3[j]
        BY <1>2, <4>2, WithSharesElse
      <4> HIDE DEF m
      <4>4. t4[q].shares = m
        BY <1>2, <4>1, <4>2, WithSharesAt
      <4> QED
        BY <4>3, <4>4 DEF m
    <3>9. /\ t4[own].shares = t[own].shares - n
          /\ t4[pos].shares = t[pos].shares - n
          /\ t4[o].shares = t[o].shares + n
          /\ t4[q].shares = t[q].shares + n
      <4>1. t4[own] = t1[own]
        BY <1>3, <1>7, <2>4, <3>3, <3>7, <3>8
      <4>2. t4[pos] = t3[pos]
        BY <1>3, <3>3, <3>8
      <4>3. t4[o].shares = t1[o].shares + n /\ t1[o] = t[o]
        <5>1. t4[o] = t3[o]
          BY <1>4, <3>3, <3>8
        <5>2. t3[o] = t2[o]
          BY <1>4, <1>5, <1>7
        <5>3. t1[o] = t[o]
          BY <1>4, <1>6, <2>4
        <5> QED
          BY <3>7, <5>1, <5>2, <5>3
      <4>4. t3[q] = t[q]
        BY <1>6, <1>7, <3>3, <3>7
      <4> QED
        BY <1>8, <3>8, <4>1, <4>2, <4>3, <4>4
    <3>10. \A j \in Index \ {own, pos, o, q} : t4[j] = t[j]
      BY <1>6, <1>7, <3>7, <3>8
    <3>11. Merges(t, t4, from, o, q, n, owner, mgmt)
      BY <2>1, <2>4, <3>2, <3>3, <3>6, <3>9, <3>10 DEF Merges, i
    <3> QED
      BY <1>4, <3>11 DEF Moved
  <2> QED
    BY <2>3, <2>4
<1>14. CASE /\ t1[o] = Hole /\ \A j \in Index : ~IsHolding(t1[j], "ownership", owner, mgmt, i)
            /\ t2 = [t1 EXCEPT ![o] = Holding("ownership", owner, mgmt, i, n)]
  <2>1. t[o] = Hole /\ \A j \in Index : ~IsHolding(t[j], "ownership", owner, mgmt, i)
    <3>1. t[o] = Hole
      BY <1>2, <1>4, <1>5, <1>14, SameHoles
    <3>2. \A j \in Index : ~IsHolding(t[j], "ownership", owner, mgmt, i)
      BY <1>5, <1>14, SameHolding
    <3> QED
      BY <3>1, <3>2
  <2>2. o # own /\ t2[o] = Holding("ownership", owner, mgmt, i, n) /\ \A j \in Index : j # o => t2[j] = t1[j]
    BY <1>2, <1>3, <1>4, <1>14, <2>1 DEF Hole
  <2>3. t3[o] = Holding("ownership", owner, mgmt, i, n)
    BY <1>4, <1>5, <1>7, <2>2
  <2>4. ~IsHolding(t3[p], "possession", owner, mgmt, o)
    <3> SUFFICES ASSUME IsHolding(t3[p], "possession", owner, mgmt, o) PROVE FALSE
      OBVIOUS
    <3>1. p # o
      BY <2>3 DEF Holding, IsHolding
    <3>2. IsHolding(t2[p], "possession", owner, mgmt, o)
      BY <1>4, <1>5, SameHolding
    <3>3. IsHolding(t[p], "possession", owner, mgmt, o)
      BY <1>4, <1>5, <2>2, <3>1, <3>2, SameHolding
    <3> QED
      BY <1>2, <1>4, <2>1, <3>3 DEF IsTable, Linked, IsHolding, Hole
  <2>5. t3[p] = Hole /\ t4 = [t3 EXCEPT ![p] = Holding("possession", owner, mgmt, o, n)]
    BY <1>10, <2>4
  <2>6. p # pos /\ p # o /\ t[p] = Hole
    <3>1. p # o
      BY <2>3, <2>5 DEF Holding, Hole
    <3>2. t2[p] = Hole
      BY <1>2, <1>4, <1>5, <2>5, SameHoles
    <3>3. t[p] = Hole
      BY <1>2, <1>4, <1>5, <2>2, <3>1, <3>2, SameHoles
    <3> QED
      BY <1>3, <3>1, <3>3 DEF Hole
  <2>7. p # own
    BY <1>3, <2>6 DEF Hole
  <2>8. t4[p] = Holding("possession", owner, mgmt, o, n) /\ \A j \in Index : j # p => t4[j] = t3[j]
    BY <1>2, <1>4, <2>5
  <2>9. /\ t4[own] = [t[own] EXCEPT !.shares = t[own].shares - n]
        /\ t4[pos] = [t[pos] EXCEPT !.shares = t[pos].shares - n]
        /\ t4[o] = Holding("ownership", owner, mgmt, i, n)
        /\ \A j \in Index \ {own, pos, o, p} : t4[j] = t[j]
    BY <1>3, <1>4, <1>5, <1>6, <1>7, <2>2, <2>3, <2>6, <2>7, <2>8
  <2>10. Opens(t, t4, from, o, p, n, owner, mgmt)
    BY <2>1, <2>6, <2>8, <2>9 DEF Opens, i
  <2> QED
    BY <1>4, <2>10 DEF Moved
<1> QED
  BY <1>9, <1>13, <1>14

(***************************************************************************)
(* What adds up.                                                           *)
(***************************************************************************)

\* The shares of an issuance's ownerships, and those of its possessions that a
\* contract manages, by index; every other index counts nothing.
Owned(t, i) ==
  [j \in Index |-> IF t[j].type = "ownership" /\ t[j].ref = i THEN t[j].shares ELSE 0]
Handled(t, i, slot) ==
  [j \in Index |-> IF t[j].type = "possession" /\ t[j].mgmt = slot /\ t[t[j].ref].ref = i
                   THEN t[j].shares ELSE 0]

OwnedTotal(t, i) == Total(Owned(t, i), Index)
HandledTotal(t, i, slot) == Total(Handled(t, i, slot), Index)

LEMMA IndexFinite == IsFiniteSet(Index)
BY CapacityIsPositive, FS_Interval

LEMMA OwnedNat ==
  ASSUME NEW t, t \in [Index -> AnyRecord], NEW i, NEW j \in Index
  PROVE  Owned(t, i)[j] \in Nat
BY SharesOfHolding DEF Owned

LEMMA HandledNat ==
  ASSUME NEW t, t \in [Index -> AnyRecord], NEW i, NEW slot, NEW j \in Index
  PROVE  Handled(t, i, slot)[j] \in Nat
BY SharesOfHolding DEF Handled

\* The issuances of two tables are the same.
SameIssuances(t, t2) ==
  \A j \in Index : (t[j].type = "issuance" \/ t2[j].type = "issuance") => t2[j] = t[j]

LEMMA MovedIssuances ==
  ASSUME NEW t, t \in [Index -> AnyRecord], NEW t2, NEW from, IsSource(t, from), NEW n, NEW owner,
         NEW mgmt, Moved(t, t2, from, n, owner, mgmt)
  PROVE  SameIssuances(t, t2)
<1>1. CASE t2 = t
  BY <1>1 DEF SameIssuances
<1>2. ASSUME NEW o \in Index, NEW p \in Index, Merges(t, t2, from, o, p, n, owner, mgmt)
      PROVE  SameIssuances(t, t2)
  BY <1>2 DEF Merges, SameButShares, SameIssuances
<1>3. ASSUME NEW o \in Index, NEW p \in Index, Opens(t, t2, from, o, p, n, owner, mgmt)
      PROVE  SameIssuances(t, t2)
  <2>1. \A j \in {from.own, from.pos} : t2[j].type # "issuance" /\ t[j].type # "issuance"
    <3>1. /\ t[from.own] \in HoldingRecord /\ t[from.pos] \in HoldingRecord
          /\ t[from.own].type # "issuance" /\ t[from.pos].type # "issuance"
      BY SharesOfHolding DEF IsSource
    <3>2. /\ t2[from.own] = [t[from.own] EXCEPT !.shares = t[from.own].shares - n]
          /\ t2[from.pos] = [t[from.pos] EXCEPT !.shares = t[from.pos].shares - n]
      BY <1>3 DEF Opens
    <3>3. t2[from.own].type = t[from.own].type /\ t2[from.pos].type = t[from.pos].type
      BY <3>1, <3>2 DEF HoldingRecord
    <3> QED
      BY <3>1, <3>3
  <2>2. t[o].type # "issuance" /\ t[p].type # "issuance"
    BY <1>3 DEF Opens, Hole
  <2>3. t2[o].type # "issuance" /\ t2[p].type # "issuance"
    BY <1>3 DEF Opens, Holding
  <2> QED
    BY <1>3, <2>1, <2>2, <2>3 DEF Opens, SameIssuances
<1> QED
  BY <1>1, <1>2, <1>3 DEF Moved

\* A source, and what becomes of it, as holdings.
LEMMA SourceTypes ==
  ASSUME NEW t, t \in [Index -> AnyRecord], Paired(t), NEW from, IsSource(t, from)
  PROVE  /\ t[from.own] \in HoldingRecord /\ t[from.pos] \in HoldingRecord
         /\ t[from.own].shares \in Nat /\ t[from.pos].shares = t[from.own].shares
         /\ t[from.pos].id = t[from.own].id /\ t[from.pos].mgmt = t[from.own].mgmt
         /\ t[from.pos].ref = from.own
         /\ from.own \in Index /\ from.pos \in Index /\ from.own # from.pos
         /\ t[from.own].type = "ownership" /\ t[from.pos].type = "possession"
<1>1. t[from.own].type \in {"ownership", "possession"} /\ t[from.pos].type \in {"ownership", "possession"}
  BY DEF IsSource
<1> QED
  BY <1>1, SharesOfHolding DEF IsSource, Paired

LEMMA LessShares ==
  ASSUME NEW r \in HoldingRecord, NEW n \in Nat
  PROVE  LET q == [r EXCEPT !.shares = r.shares - n] IN
         /\ q.type = r.type /\ q.id = r.id /\ q.mgmt = r.mgmt /\ q.ref = r.ref
         /\ q.shares = r.shares - n
BY DEF HoldingRecord

LEMMA MovedOwned ==
  ASSUME NEW t, t \in [Index -> AnyRecord], NEW t2, t2 \in [Index -> AnyRecord], Paired(t),
         NEW from, IsSource(t, from), NEW n \in Nat, NEW owner,
         NEW mgmt, Moved(t, t2, from, n, owner, mgmt), NEW i
  PROVE  OwnedTotal(t2, i) = OwnedTotal(t, i)
<1> DEFINE f == Owned(t, i)
           g == Owned(t2, i)
           own == from.own
           pos == from.pos
<1>0. \A j \in Index : f[j] \in Int /\ g[j] \in Int
  BY OwnedNat
<1>1. CASE t2 = t
  BY <1>1
<1>2. ASSUME NEW o \in Index, NEW p \in Index,
             Merges(t, t2, from, o, p, n, owner, mgmt) \/ Opens(t, t2, from, o, p, n, owner, mgmt)
      PROVE  Total(g, Index) = Total(f, Index)
  <2>0. /\ own \in Index /\ pos \in Index /\ own # pos
        /\ t[own].type = "ownership" /\ t[pos].type = "possession" /\ t[own].shares \in Nat
    BY SourceTypes
  <2>1. /\ t2[own].type = "ownership" /\ t2[own].ref = t[own].ref /\ t2[own].shares = t[own].shares - n
        /\ t2[pos].type = "possession"
    <3>1. CASE Merges(t, t2, from, o, p, n, owner, mgmt)
      BY <2>0, <3>1 DEF Merges, SameButShares
    <3>2. CASE Opens(t, t2, from, o, p, n, owner, mgmt)
      <4>1. /\ t2[own] = [t[own] EXCEPT !.shares = t[own].shares - n]
            /\ t2[pos] = [t[pos] EXCEPT !.shares = t[pos].shares - n]
        BY <3>2 DEF Opens
      <4> QED
        BY <2>0, <4>1, SourceTypes, LessShares
    <3> QED
      BY <1>2, <3>1, <3>2
  <2>2. /\ f[o] \in Int /\ o # own
        /\ t2[o].type = "ownership" /\ t2[o].ref = t[own].ref
        /\ t[own].ref = i => g[o] = f[o] + n
        /\ t[own].ref # i => g[o] = 0 /\ f[o] = 0
    <3>1. CASE Merges(t, t2, from, o, p, n, owner, mgmt)
      <4>1. /\ t[o].type = "ownership" /\ t[o].ref = t[own].ref /\ o # own
            /\ t2[o].type = "ownership" /\ t2[o].ref = t[o].ref /\ t2[o].shares = t[o].shares + n
        BY <3>1 DEF Merges, SameButShares, IsHolding
      <4> QED
        BY <4>1, <1>0 DEF Owned
    <3>2. CASE Opens(t, t2, from, o, p, n, owner, mgmt)
      <4>1. /\ t[o].type = "hole" /\ o # own
            /\ t2[o].type = "ownership" /\ t2[o].ref = t[own].ref /\ t2[o].shares = n
        BY <2>0, <3>2 DEF Opens, Hole, Holding
      <4> QED
        BY <4>1, <1>0 DEF Owned
    <3> QED
      BY <1>2, <3>1, <3>2
  <2>3. f[p] = 0 /\ g[p] = 0 /\ f[pos] = 0 /\ g[pos] = 0
    <3>1. t[p].type # "ownership" /\ t2[p].type # "ownership"
      BY <1>2 DEF Merges, Opens, SameButShares, IsHolding, Hole, Holding
    <3> QED
      BY <2>0, <2>1, <3>1 DEF Owned
  <2>4. \A j \in Index : j \notin {own, pos, o, p} => t2[j] = t[j]
    BY <1>2 DEF Merges, Opens
  <2>5. \A j \in Index : j \notin {own, pos, o, p} => g[j] = f[j]
    BY <2>4 DEF Owned
  <2>6. \A j \in Index : j # own /\ j # o => g[j] = f[j]
    BY <2>3, <2>5
  <2>7. CASE t[own].ref = i
    <3>1. g[own] = f[own] - n /\ g[o] = f[o] + n
      BY <2>0, <2>1, <2>2, <2>7 DEF Owned
    <3> HIDE DEF f, g
    <3> QED
      BY <1>0, <2>0, <2>2, <2>6, <3>1, IndexFinite, TotalMoved
  <2>8. CASE t[own].ref # i
    <3>1. g[own] = f[own] /\ g[o] = f[o]
      BY <2>0, <2>1, <2>2, <2>8 DEF Owned
    <3> HIDE DEF f, g
    <3>2. \A j \in Index : f[j] = g[j]
      BY <2>6, <3>1
    <3> QED
      BY <3>2, IndexFinite, TotalAgrees
  <2> QED
    BY <2>7, <2>8
<1> QED
  BY <1>1, <1>2 DEF Moved, OwnedTotal

\* What a move leaves of the records that were there: all but the shares.
LEMMA MovedKeeps ==
  ASSUME NEW t, t \in [Index -> AnyRecord], NEW t2, Paired(t),
         NEW from, IsSource(t, from), NEW n \in Nat, NEW owner, NEW mgmt,
         Moved(t, t2, from, n, owner, mgmt), NEW j \in Index, t[j].type \in {"ownership", "possession"}
  PROVE  t2[j].type = t[j].type /\ t2[j].id = t[j].id /\ t2[j].mgmt = t[j].mgmt /\ t2[j].ref = t[j].ref
<1>1. CASE t2 = t
  BY <1>1
<1>2. ASSUME NEW o \in Index, NEW p \in Index, Merges(t, t2, from, o, p, n, owner, mgmt)
      PROVE  t2[j].type = t[j].type /\ t2[j].id = t[j].id /\ t2[j].mgmt = t[j].mgmt /\ t2[j].ref = t[j].ref
  BY <1>2 DEF Merges, SameButShares
<1>3. ASSUME NEW o \in Index, NEW p \in Index, Opens(t, t2, from, o, p, n, owner, mgmt)
      PROVE  t2[j].type = t[j].type /\ t2[j].id = t[j].id /\ t2[j].mgmt = t[j].mgmt /\ t2[j].ref = t[j].ref
  <2>1. j # o /\ j # p
    BY <1>3 DEF Opens, Hole
  <2>2. CASE j \in {from.own, from.pos}
    <3>1. t2[j] = [t[j] EXCEPT !.shares = t[j].shares - n]
      BY <1>3, <2>2 DEF Opens
    <3> QED
      BY <3>1, SharesOfHolding, LessShares
  <2>3. CASE j \notin {from.own, from.pos}
    BY <1>3, <2>1, <2>3 DEF Opens
  <2> QED
    BY <2>2, <2>3
<1> QED
  BY <1>1, <1>2, <1>3 DEF Moved

\* The shares after a move that is not onto itself, with o and p as the destination.
Lands(t, t2, from, o, p, n, owner, mgmt) ==
  /\ t2[from.own].shares = t[from.own].shares - n
  /\ t2[from.pos].shares = t[from.pos].shares - n
  /\ o # from.own /\ p # from.pos /\ o # p /\ p # from.own /\ o # from.pos
  /\ IsHolding(t2[o], "ownership", owner, mgmt, t[from.own].ref)
  /\ IsHolding(t2[p], "possession", owner, mgmt, o)
  /\ t2[o].shares = t2[p].shares
  /\ \/ /\ t[o].type = "ownership" /\ t[p].type = "possession" /\ t[p].ref = o
        /\ t2[p].shares = t[p].shares + n /\ t[p].shares \in Nat
     \/ t[o] = Hole /\ t[p] = Hole /\ t2[p].shares = n
  /\ \A j \in Index \ {from.own, from.pos, o, p} : t2[j] = t[j]

LEMMA MovedShares ==
  ASSUME NEW t, t \in [Index -> AnyRecord], NEW t2, t2 \in [Index -> AnyRecord], Linked(t), Paired(t),
         NEW from, IsSource(t, from), NEW n \in Nat, NEW owner, NEW mgmt,
         NEW o \in Index, NEW p \in Index,
         Merges(t, t2, from, o, p, n, owner, mgmt) \/ Opens(t, t2, from, o, p, n, owner, mgmt)
  PROVE  Lands(t, t2, from, o, p, n, owner, mgmt)
<1>0. /\ from.own \in Index /\ from.pos \in Index /\ from.own # from.pos
      /\ t[from.own] \in HoldingRecord /\ t[from.pos] \in HoldingRecord
      /\ t[from.own].type = "ownership" /\ t[from.pos].type = "possession"
      /\ t[from.pos].ref = from.own
  BY SourceTypes
<1>1. CASE Merges(t, t2, from, o, p, n, owner, mgmt)
  <2>1. /\ t[o].type = "ownership" /\ t[p].type = "possession" /\ t[p].ref = o
        /\ t[p].shares = t[o].shares /\ t[p].shares \in Nat
        /\ t2[p].shares = t[p].shares + n /\ t2[o].shares = t[o].shares + n
    BY <1>1, SharesOfHolding DEF Merges, IsHolding, Paired
  <2>2. IsHolding(t2[o], "ownership", owner, mgmt, t[from.own].ref) /\ IsHolding(t2[p], "possession", owner, mgmt, o)
    BY <1>1 DEF Merges, SameButShares, IsHolding
  <2>3. o # from.own /\ p # from.pos /\ o # p /\ p # from.own /\ o # from.pos
    BY <1>0, <1>1, <2>1 DEF Merges
  <2> QED
    BY <1>1, <2>1, <2>2, <2>3 DEF Merges, Lands
<1>2. CASE Opens(t, t2, from, o, p, n, owner, mgmt)
  <2>1. /\ t2[from.own] = [t[from.own] EXCEPT !.shares = t[from.own].shares - n]
        /\ t2[from.pos] = [t[from.pos] EXCEPT !.shares = t[from.pos].shares - n]
    BY <1>2 DEF Opens
  <2>2. t2[from.own].shares = t[from.own].shares - n /\ t2[from.pos].shares = t[from.pos].shares - n
    BY <1>0, <2>1, LessShares
  <2>3. o # from.own /\ p # from.pos /\ o # p /\ p # from.own /\ o # from.pos
    BY <1>0, <1>2 DEF Opens, Hole
  <2>4. /\ IsHolding(t2[o], "ownership", owner, mgmt, t[from.own].ref)
        /\ IsHolding(t2[p], "possession", owner, mgmt, o)
        /\ t2[o].shares = n /\ t2[p].shares = n
    BY <1>2 DEF Opens, IsHolding, Holding
  <2> QED
    BY <1>2, <2>2, <2>3, <2>4 DEF Opens, Lands
<1> QED
  BY <1>1, <1>2

LEMMA MovedPaired ==
  ASSUME NEW t, t \in [Index -> AnyRecord], NEW t2, t2 \in [Index -> AnyRecord], Linked(t), Unique(t), Paired(t),
         NEW from, IsSource(t, from), NEW n \in Nat, NEW owner, NEW mgmt,
         Moved(t, t2, from, n, owner, mgmt)
  PROVE  Paired(t2)
<1>1. CASE t2 = t
  BY <1>1
<1>2. ASSUME NEW o \in Index, NEW p \in Index,
             Merges(t, t2, from, o, p, n, owner, mgmt) \/ Opens(t, t2, from, o, p, n, owner, mgmt)
      PROVE  Paired(t2)
  <2> DEFINE own == from.own
             pos == from.pos
  <2>0. /\ own \in Index /\ pos \in Index /\ own # pos
        /\ t[own].type = "ownership" /\ t[pos].type = "possession" /\ t[pos].ref = own
        /\ t[pos].shares = t[own].shares
    BY SourceTypes
  <2>1. /\ t2[own].shares = t[own].shares - n /\ t2[pos].shares = t[pos].shares - n
        /\ o # own /\ p # pos /\ o # p /\ p # own /\ o # pos
        /\ IsHolding(t2[o], "ownership", owner, mgmt, t[own].ref)
        /\ IsHolding(t2[p], "possession", owner, mgmt, o)
        /\ t2[o].shares = t2[p].shares
        /\ \/ t[o].type = "ownership" /\ t[p].type = "possession" /\ t[p].ref = o
           \/ t[o] = Hole /\ t[p] = Hole
        /\ \A j \in Index \ {own, pos, o, p} : t2[j] = t[j]
    <3>1. Lands(t, t2, from, o, p, n, owner, mgmt)
      BY <1>2, MovedShares
    <3> QED
      BY <3>1 DEF Lands
  <2>2. Moved(t, t2, from, n, owner, mgmt)
    OBVIOUS
  <2>3. ASSUME NEW q \in Index, t2[q].type = "possession"
        PROVE  /\ t2[q].ref \in Index
               /\ t2[q].id = t2[t2[q].ref].id /\ t2[q].mgmt = t2[t2[q].ref].mgmt
               /\ t2[q].shares = t2[t2[q].ref].shares
    <3>0. t2[q].ref \in Index
      BY <2>3, SharesOfHolding
    <3>1. CASE q = p
      BY <2>1, <3>0, <3>1 DEF IsHolding
    <3>2. CASE q # p
      <4>1. t[q].type = "possession" /\ q # o /\ q # own
        <5>1. q # o /\ q # own
          BY <2>0, <2>1, <2>2, <2>3, MovedKeeps DEF IsHolding
        <5> QED
          BY <2>0, <2>1, <2>3, <3>2, <5>1
      <4>2. t2[q].id = t[q].id /\ t2[q].mgmt = t[q].mgmt /\ t2[q].ref = t[q].ref
        BY <2>2, <4>1, MovedKeeps
      <4> DEFINE r == t[q].ref
      <4>3. r \in Index /\ t[r].type = "ownership" /\ t[q].id = t[r].id /\ t[q].mgmt = t[r].mgmt
            /\ t[q].shares = t[r].shares
        BY <4>1, SharesOfHolding DEF Linked, Paired
      <4>4. t2[r].id = t[r].id /\ t2[r].mgmt = t[r].mgmt
        BY <2>2, <4>3, MovedKeeps
      <4>5. q # p /\ r # p /\ r # pos
        BY <2>0, <2>1, <3>2, <4>3 DEF Hole
      <4>6. ASSUME NEW q2 \in Index, t[q2].type = "possession", t[q2].ref = r PROVE q2 = q
        <5>1. SameKey(t[q2], t[q]) /\ t[q2] # Hole /\ t[q] # Hole
          BY <4>1, <4>3, <4>6 DEF SameKey, Paired, Hole
        <5> QED
          BY <5>1 DEF Unique
      <4>7. CASE q = pos
        BY <2>0, <2>1, <4>2, <4>3, <4>4, <4>7
      <4>8. CASE q # pos
        <5>1. r # own
          BY <2>0, <4>6, <4>8
        <5>2. r # o
          BY <2>1, <3>2, <4>3, <4>6 DEF Hole
        <5>3. t2[q] = t[q] /\ t2[r] = t[r]
          BY <2>1, <4>1, <4>3, <4>5, <4>8, <5>1, <5>2
        <5> QED
          BY <4>3, <5>3
      <4> QED
        BY <4>7, <4>8
    <3> QED
      BY <3>1, <3>2
  <2>4. ASSUME NEW r \in Index, t2[r].type = "ownership"
        PROVE  \E q \in Index : t2[q].type = "possession" /\ t2[q].ref = r
    <3>1. CASE r = o
      BY <2>1, <3>1 DEF IsHolding
    <3>2. CASE r # o
      <4>1. t[r].type = "ownership"
        <5>1. r # p
          BY <2>1, <2>4 DEF IsHolding
        <5>2. CASE r \in {own, pos}
          BY <2>0, <2>2, <2>4, <5>2, MovedKeeps
        <5>3. CASE r \notin {own, pos}
          BY <2>1, <2>4, <3>2, <5>1, <5>3
        <5> QED
          BY <5>2, <5>3
      <4>2. PICK q \in Index : t[q].type = "possession" /\ t[q].ref = r
        BY <4>1 DEF Paired
      <4>3. t2[q].type = "possession" /\ t2[q].ref = r
        BY <2>2, <4>2, MovedKeeps
      <4> QED
        BY <4>3
    <3> QED
      BY <3>1, <3>2
  <2> QED
    BY <2>3, <2>4 DEF Paired
<1> QED
  BY <1>1, <1>2 DEF Moved

\* The shares of an issuance that a contract manages, after a move.
LEMMA MovedHandled ==
  ASSUME NEW t, t \in [Index -> AnyRecord], NEW t2, t2 \in [Index -> AnyRecord], Linked(t), Paired(t),
         NEW from, IsSource(t, from), NEW n \in Nat, NEW owner, NEW mgmt,
         Moved(t, t2, from, n, owner, mgmt), NEW i, NEW slot
  PROVE  \/ HandledTotal(t2, i, slot) = HandledTotal(t, i, slot)
         \/ /\ i = t[from.own].ref /\ t[from.own].mgmt # mgmt
            /\ \/ slot = t[from.own].mgmt /\ HandledTotal(t2, i, slot) = HandledTotal(t, i, slot) - n
               \/ slot = mgmt /\ HandledTotal(t2, i, slot) = HandledTotal(t, i, slot) + n
<1> DEFINE f == Handled(t, i, slot)
           g == Handled(t2, i, slot)
           own == from.own
           pos == from.pos
<1>0. \A j \in Index : f[j] \in Int /\ g[j] \in Int
  BY HandledNat
<1>1. CASE t2 = t
  BY <1>1
<1>2. ASSUME NEW o \in Index, NEW p \in Index,
             Merges(t, t2, from, o, p, n, owner, mgmt) \/ Opens(t, t2, from, o, p, n, owner, mgmt)
      PROVE  \/ Total(g, Index) = Total(f, Index)
             \/ /\ i = t[own].ref /\ t[own].mgmt # mgmt
                /\ \/ slot = t[own].mgmt /\ Total(g, Index) = Total(f, Index) - n
                   \/ slot = mgmt /\ Total(g, Index) = Total(f, Index) + n
  <2>0. /\ own \in Index /\ pos \in Index /\ own # pos
        /\ t[own].type = "ownership" /\ t[pos].type = "possession" /\ t[pos].ref = own
        /\ t[pos].mgmt = t[own].mgmt /\ t[pos].shares \in Nat
    BY SourceTypes
  <2>1. /\ t2[own].shares = t[own].shares - n /\ t2[pos].shares = t[pos].shares - n
        /\ o # own /\ p # pos /\ o # p /\ p # own /\ o # pos
        /\ IsHolding(t2[o], "ownership", owner, mgmt, t[own].ref)
        /\ IsHolding(t2[p], "possession", owner, mgmt, o)
        /\ \/ /\ t[o].type = "ownership" /\ t[p].type = "possession" /\ t[p].ref = o
              /\ t2[p].shares = t[p].shares + n /\ t[p].shares \in Nat
           \/ t[o] = Hole /\ t[p] = Hole /\ t2[p].shares = n
        /\ \A j \in Index \ {own, pos, o, p} : t2[j] = t[j]
    <3>1. Lands(t, t2, from, o, p, n, owner, mgmt)
      BY <1>2, MovedShares
    <3> QED
      BY <3>1 DEF Lands
  <2>2. Moved(t, t2, from, n, owner, mgmt)
    OBVIOUS
  <2>3. \A j \in Index : t[j].type = "possession" =>
          t2[j].type = "possession" /\ t2[j].mgmt = t[j].mgmt /\ t2[j].ref = t[j].ref
          /\ t2[t[j].ref].ref = t[t[j].ref].ref
    <3> SUFFICES ASSUME NEW j \in Index, t[j].type = "possession"
                 PROVE  t2[j].type = "possession" /\ t2[j].mgmt = t[j].mgmt /\ t2[j].ref = t[j].ref
                        /\ t2[t[j].ref].ref = t[t[j].ref].ref
      OBVIOUS
    <3>1. t[j].ref \in Index /\ t[t[j].ref].type = "ownership"
      BY SharesOfHolding DEF Linked
    <3>2. t2[j].type = "possession" /\ t2[j].mgmt = t[j].mgmt /\ t2[j].ref = t[j].ref
      BY <2>2, MovedKeeps
    <3>3. t2[t[j].ref].ref = t[t[j].ref].ref
      BY <2>2, <3>1, MovedKeeps
    <3> QED
      BY <3>2, <3>3
  <2>4. /\ f[own] = 0 /\ g[own] = 0 /\ f[o] = 0 /\ g[o] = 0
    <3>1. t2[own].type = "ownership" /\ t2[o].type = "ownership" /\ t[o].type # "possession"
      BY <2>0, <2>1, <2>2, MovedKeeps DEF IsHolding, Hole
    <3> QED
      BY <2>0, <3>1 DEF Handled
  <2>5. \A j \in Index : j # pos /\ j # p => g[j] = f[j]
    <3> SUFFICES ASSUME NEW j \in Index, j \notin {own, pos, o, p} PROVE g[j] = f[j]
      BY <2>4
    <3>1. t2[j] = t[j]
      BY <2>1
    <3> QED
      BY <2>3, <3>1 DEF Handled
  <2>6. /\ t2[own].ref = t[own].ref /\ t2[o].ref = t[own].ref
        /\ t2[pos].type = "possession" /\ t2[pos].ref = own /\ t2[pos].mgmt = t[own].mgmt
        /\ t2[p].type = "possession" /\ t2[p].ref = o /\ t2[p].mgmt = mgmt
    BY <2>0, <2>1, <2>2, MovedKeeps DEF IsHolding
  <2>7. IF slot = t[own].mgmt /\ i = t[own].ref THEN g[pos] = f[pos] - n ELSE g[pos] = f[pos]
    BY <2>0, <2>1, <2>6 DEF Handled
  <2>8. IF slot = mgmt /\ i = t[own].ref THEN g[p] = f[p] + n ELSE g[p] = f[p]
    <3>1. CASE /\ t[o].type = "ownership" /\ t[p].type = "possession" /\ t[p].ref = o
               /\ t2[p].shares = t[p].shares + n /\ t[p].shares \in Nat
      <4>1. t[p].mgmt = mgmt /\ t[o].ref = t[own].ref
        BY <2>3, <2>6, <3>1
      <4> QED
        BY <2>6, <3>1, <4>1 DEF Handled
    <3>2. CASE t[o] = Hole /\ t[p] = Hole /\ t2[p].shares = n
      <4>1. f[p] = 0
        BY <3>2 DEF Handled, Hole
      <4> QED
        BY <2>6, <3>2, <4>1 DEF Handled
    <3> QED
      BY <2>1, <3>1, <3>2
  <2> HIDE DEF f, g
  <2>9. \A j \in Index : f[j] \in Int /\ g[j] \in Int
    BY <1>0
  <2>10. CASE ~(i = t[own].ref /\ (slot = t[own].mgmt \/ slot = mgmt))
    <3>1. \A j \in Index : f[j] = g[j]
      BY <2>5, <2>7, <2>8, <2>10
    <3> QED
      BY <3>1, IndexFinite, TotalAgrees
  <2>11. CASE i = t[own].ref /\ slot = t[own].mgmt /\ slot = mgmt
    <3>1. \A j \in Index : j # pos /\ j # p => g[j] = f[j]
      BY <2>5
    <3>2. g[pos] = f[pos] - n /\ g[p] = f[p] + n /\ pos # p
      BY <2>1, <2>7, <2>8, <2>11
    <3> QED
      BY <2>0, <2>9, <3>1, <3>2, IndexFinite, TotalMoved
  <2>12. CASE i = t[own].ref /\ slot = t[own].mgmt /\ slot # mgmt
    <3>1. g[pos] = f[pos] - n /\ g[p] = f[p]
      BY <2>7, <2>8, <2>12
    <3>2. Total(g, Index) = Total(f, Index) - f[pos] + g[pos]
      BY <2>0, <2>5, <2>9, <3>1, IndexFinite, TotalUpdate
    <3>3. Total(f, Index) \in Int
      BY <2>9, IndexFinite, TotalInt
    <3> QED
      BY <2>0, <2>9, <2>12, <3>1, <3>2, <3>3
  <2>13. CASE i = t[own].ref /\ slot # t[own].mgmt /\ slot = mgmt
    <3>1. g[pos] = f[pos] /\ g[p] = f[p] + n
      BY <2>7, <2>8, <2>13
    <3>2. Total(g, Index) = Total(f, Index) - f[p] + g[p]
      BY <2>0, <2>5, <2>9, <3>1, IndexFinite, TotalUpdate
    <3>3. Total(f, Index) \in Int
      BY <2>9, IndexFinite, TotalInt
    <3> QED
      BY <2>0, <2>9, <2>13, <3>1, <3>2, <3>3
  <2> QED
    BY <2>10, <2>11, <2>12, <2>13
<1> QED
  BY <1>1, <1>2 DEF Moved, HandledTotal

\* An ownership has one possession.
LEMMA OnePossession ==
  ASSUME NEW t, IsTable(t), Paired(t), NEW p \in Index, NEW q \in Index,
         t[p].type = "possession", t[q].type = "possession", t[p].ref = t[q].ref
  PROVE  p = q
<1>1. SameKey(t[p], t[q]) /\ t[p] # Hole /\ t[q] # Hole
  BY DEF SameKey, Paired, Hole
<1> QED
  BY <1>1 DEF IsTable, Unique

(***************************************************************************)
(* Burning.                                                                *)
(***************************************************************************)

\* An ownership and its possession lose n shares.
Burned(t, t2, from, n) ==
  /\ SameButShares(t, t2)
  /\ t2[from.own].shares = t[from.own].shares - n /\ t2[from.pos].shares = t[from.pos].shares - n
  /\ \A j \in Index \ {from.own, from.pos} : t2[j] = t[j]

LEMMA BurnSound ==
  ASSUME NEW u, IsUniverse(u), Paired(u.t), NEW from, IsSource(u.t, from), NEW n \in Nat,
         n <= u.t[from.pos].shares
  PROVE  /\ IsUniverse(Debit(Debit(u, from.own, n), from.pos, n))
         /\ Burned(u.t, Debit(Debit(u, from.own, n), from.pos, n).t, from, n)
<1> DEFINE t == u.t
           own == from.own
           pos == from.pos
           u1 == Debit(u, own, n)
           u2 == Debit(u1, pos, n)
<1>0. t \in [Index -> AnyRecord]
  BY DEF IsUniverse, IsTable
<1>1. /\ own \in Index /\ pos \in Index /\ own # pos
      /\ t[own].type = "ownership" /\ t[pos].type = "possession"
      /\ t[own].shares \in Nat /\ t[pos].shares = t[own].shares
  BY <1>0, SourceTypes
<1>2. /\ IsUniverse(u1) /\ u1.t = WithShares(t, own, t[own].shares - n)
      /\ t[own].shares - n \in Nat /\ SameButShares(t, u1.t)
  BY <1>1, DebitKeeps
<1>3. u1.t[own].shares = t[own].shares - n /\ \A j \in Index : j # own => u1.t[j] = t[j]
  <2> DEFINE m == t[own].shares - n
  <2>1. m \in Nat
    BY <1>2
  <2>2. u1.t = WithShares(t, own, m)
    BY <1>2
  <2> HIDE DEF m, u1
  <2>3. u1.t[own].shares = m
    BY <1>0, <1>1, <2>1, <2>2, WithSharesAt
  <2>4. \A j \in Index : j # own => u1.t[j] = t[j]
    BY <1>0, <2>2, WithSharesElse
  <2> QED
    BY <2>3, <2>4 DEF m
<1> HIDE DEF u1
<1>4. u1.t[pos] = t[pos] /\ u1.t \in [Index -> AnyRecord]
  BY <1>1, <1>2, <1>3 DEF IsUniverse, IsTable
<1>5. /\ IsUniverse(u2) /\ u2.t = WithShares(u1.t, pos, u1.t[pos].shares - n)
      /\ u1.t[pos].shares - n \in Nat /\ SameButShares(u1.t, u2.t)
  BY <1>1, <1>2, <1>4, DebitKeeps
<1>6. u2.t[pos].shares = t[pos].shares - n /\ \A j \in Index : j # pos => u2.t[j] = u1.t[j]
  <2> DEFINE m == t[pos].shares - n
  <2>1. m \in Nat
    BY <1>4, <1>5
  <2>2. u2.t = WithShares(u1.t, pos, m)
    BY <1>4, <1>5
  <2> HIDE DEF m, u2
  <2>3. u2.t[pos].shares = m
    BY <1>1, <1>4, <2>1, <2>2, WithSharesAt
  <2>4. \A j \in Index : j # pos => u2.t[j] = u1.t[j]
    BY <1>4, <2>2, WithSharesElse
  <2> QED
    BY <2>3, <2>4 DEF m
<1> HIDE DEF u2
<1>7. SameButShares(t, u2.t)
  BY <1>2, <1>5, SameAgain
<1>8. Burned(t, u2.t, from, n)
  BY <1>1, <1>3, <1>6, <1>7 DEF Burned
<1> QED
  BY <1>5, <1>8 DEF u1, u2

LEMMA BurnedKeeps ==
  ASSUME NEW t, IsTable(t), NEW t2, Paired(t), NEW from, IsSource(t, from), NEW n \in Nat,
         Burned(t, t2, from, n)
  PROVE  /\ Paired(t2)
         /\ OwnedTotal(t2, t[from.own].ref) = OwnedTotal(t, t[from.own].ref) - n
         /\ \A i : i # t[from.own].ref => OwnedTotal(t2, i) = OwnedTotal(t, i)
         /\ n = 0 => \A i, slot : HandledTotal(t2, i, slot) = HandledTotal(t, i, slot)
<1> DEFINE own == from.own
           pos == from.pos
<1>0. t \in [Index -> AnyRecord] /\ t2 \in [Index -> AnyRecord] /\ Linked(t)
  BY DEF IsTable, Burned, SameButShares
<1>1. /\ own \in Index /\ pos \in Index /\ own # pos
      /\ t[own].type = "ownership" /\ t[pos].type = "possession" /\ t[pos].ref = own
      /\ t[own].shares \in Nat /\ t[pos].shares = t[own].shares
  BY <1>0, SourceTypes
<1>2. \A j \in Index :
        /\ t2[j].type = t[j].type
        /\ t[j].type # "hole" => t2[j].id = t[j].id
        /\ t[j].type \in {"ownership", "possession"} => t2[j].mgmt = t[j].mgmt /\ t2[j].ref = t[j].ref
  BY DEF Burned, SameButShares
<1>3. /\ t2[own].shares = t[own].shares - n /\ t2[pos].shares = t[pos].shares - n
      /\ \A j \in Index : j # own /\ j # pos => t2[j] = t[j]
  BY DEF Burned
<1>4. Paired(t2)
  <2>1. ASSUME NEW q \in Index, t2[q].type = "possession"
        PROVE  t2[q].id = t2[t2[q].ref].id /\ t2[q].mgmt = t2[t2[q].ref].mgmt
               /\ t2[q].shares = t2[t2[q].ref].shares
    <3> DEFINE r == t[q].ref
    <3>1. /\ t[q].type = "possession" /\ r \in Index /\ t[r].type = "ownership"
          /\ t[q].id = t[r].id /\ t[q].mgmt = t[r].mgmt /\ t[q].shares = t[r].shares
      BY <1>0, <1>2, <2>1, SharesOfHolding DEF Linked, Paired
    <3>2. /\ t2[q].ref = r /\ t2[q].id = t[q].id /\ t2[q].mgmt = t[q].mgmt
          /\ t2[r].id = t[r].id /\ t2[r].mgmt = t[r].mgmt
      BY <1>2, <3>1
    <3>3. q = pos <=> r = own
      BY <1>1, <3>1, OnePossession
    <3>4. t2[q].shares = t2[r].shares
      BY <1>1, <1>3, <3>1, <3>3
    <3> QED
      BY <3>1, <3>2, <3>4
  <2>2. ASSUME NEW r \in Index, t2[r].type = "ownership"
        PROVE  \E q \in Index : t2[q].type = "possession" /\ t2[q].ref = r
    BY <1>2, <2>2 DEF Paired
  <2> QED
    BY <2>1, <2>2 DEF Paired
<1>5. OwnedTotal(t2, t[own].ref) = OwnedTotal(t, t[own].ref) - n
  <2> DEFINE f == Owned(t, t[own].ref)
             g == Owned(t2, t[own].ref)
  <2>1. \A j \in Index : f[j] \in Int /\ g[j] \in Int
    BY <1>0, OwnedNat
  <2>2. \A j \in Index : j # own => g[j] = f[j]
    BY <1>1, <1>2, <1>3 DEF Owned
  <2>3. g[own] = f[own] - n
    BY <1>1, <1>2, <1>3 DEF Owned
  <2> HIDE DEF f, g
  <2>4. Total(g, Index) = Total(f, Index) - f[own] + g[own] /\ Total(f, Index) \in Int
    BY <1>1, <2>1, <2>2, IndexFinite, TotalUpdate, TotalInt
  <2>5. Total(g, Index) = Total(f, Index) - n
    BY <1>1, <2>1, <2>3, <2>4
  <2> QED
    BY <2>5 DEF OwnedTotal, f, g
<1>6. ASSUME NEW i, i # t[own].ref PROVE OwnedTotal(t2, i) = OwnedTotal(t, i)
  <2>1. \A j \in Index : Owned(t2, i)[j] = Owned(t, i)[j]
    BY <1>1, <1>2, <1>3, <1>6 DEF Owned
  <2> QED
    BY <2>1, IndexFinite, TotalAgrees DEF OwnedTotal
<1>7. ASSUME n = 0, NEW i, NEW slot PROVE HandledTotal(t2, i, slot) = HandledTotal(t, i, slot)
  <2>1. \A j \in Index : t[j].type = "possession" => t2[j].shares = t[j].shares
    BY <1>1, <1>3, <1>7
  <2>2. \A j \in Index : t[j].type = "possession" =>
          t[j].ref \in Index /\ t[t[j].ref].type = "ownership"
    BY <1>0, SharesOfHolding DEF Linked
  <2>3. \A j \in Index : Handled(t2, i, slot)[j] = Handled(t, i, slot)[j]
    BY <1>2, <2>1, <2>2 DEF Handled
  <2> QED
    BY <2>3, IndexFinite, TotalAgrees DEF HandledTotal
<1> QED
  BY <1>4, <1>5, <1>6, <1>7

(***************************************************************************)
(* Issuing.                                                                *)
(***************************************************************************)

UsedIn(t) == {j \in Index : t[j] # Hole}

LEMMA UsedFinite == \A t : IsFiniteSet(UsedIn(t)) /\ Cardinality(UsedIn(t)) \in Nat
BY IndexFinite, FS_Subset, FS_CardinalityType DEF UsedIn

LEMMA RoomIsLeft ==
  ASSUME NEW t, Cardinality(UsedIn(t)) < Capacity
  PROVE  Roomy(t)
<1> SUFFICES ASSUME ~Roomy(t) PROVE FALSE
  OBVIOUS
<1>1. UsedIn(t) = Index
  BY DEF Roomy, UsedIn
<1>2. Cardinality(0 .. Capacity - 1) = Capacity
  <2>1. Capacity \in Nat /\ 0 \in Int /\ Capacity - 1 \in Int /\ 0 <= Capacity - 1
    BY CapacityIsPositive
  <2>2. Cardinality(0 .. Capacity - 1) = IF 0 > Capacity - 1 THEN 0 ELSE (Capacity - 1) - 0 + 1
    BY <2>1, FS_Interval
  <2> QED
    BY <2>1, <2>2
<1> QED
  BY <1>1, <1>2, CapacityIsPositive

LEMMA UsedAfterPut ==
  ASSUME NEW t, t \in [Index -> AnyRecord], NEW i \in Index, t[i] = Hole, NEW r, r # Hole
  PROVE  Cardinality(UsedIn([t EXCEPT ![i] = r])) = Cardinality(UsedIn(t)) + 1
<1>1. UsedIn([t EXCEPT ![i] = r]) = UsedIn(t) \cup {i} /\ i \notin UsedIn(t)
  BY DEF UsedIn
<1> QED
  BY <1>1, UsedFinite, FS_AddElement

\* What issuing does to a table: an issuance, its ownership and its possession are
\* put into three holes.
Founded(t, t2, i, o, p, issuer, name, shares, slot) ==
  /\ i \in Index /\ o \in Index /\ p \in Index /\ i # o /\ o # p /\ p # i
  /\ t[i] = Hole /\ t[o] = Hole /\ t[p] = Hole
  /\ t2[i] = Issuance(issuer, name)
  /\ t2[o] = Holding("ownership", issuer, slot, i, shares)
  /\ t2[p] = Holding("possession", issuer, slot, o, shares)
  /\ \A j \in Index \ {i, o, p} : t2[j] = t[j]

LEMMA NewRecords ==
  ASSUME NEW id \in Ids, NEW name \in Names, NEW mgmt \in Slots, NEW ref \in Index, NEW n \in Nat,
         NEW type \in {"ownership", "possession"}
  PROVE  /\ Issuance(id, name) \in AnyRecord /\ Issuance(id, name) # Hole
         /\ Issuance(id, name).type = "issuance" /\ Issuance(id, name).id = id
         /\ Issuance(id, name).name = name
         /\ Holding(type, id, mgmt, ref, n) \in AnyRecord /\ Holding(type, id, mgmt, ref, n) # Hole
         /\ Holding(type, id, mgmt, ref, n).type = type /\ Holding(type, id, mgmt, ref, n).id = id
         /\ Holding(type, id, mgmt, ref, n).mgmt = mgmt /\ Holding(type, id, mgmt, ref, n).ref = ref
         /\ Holding(type, id, mgmt, ref, n).shares = n
<1>1. Issuance(id, name) \in IssuanceRecord /\ Issuance(id, name).type = "issuance"
  BY DEF Issuance, IssuanceRecord
<1>2. Holding(type, id, mgmt, ref, n) \in HoldingRecord /\ Holding(type, id, mgmt, ref, n).type = type
  BY DEF Holding, HoldingRecord
<1>3. Hole.type = "hole"
  BY DEF Hole
<1>4. Issuance(id, name) # Hole /\ Holding(type, id, mgmt, ref, n) # Hole
  BY <1>1, <1>2, <1>3
<1>5. Issuance(id, name).id = id /\ Issuance(id, name).name = name
  BY DEF Issuance
<1>6. /\ Holding(type, id, mgmt, ref, n).id = id /\ Holding(type, id, mgmt, ref, n).mgmt = mgmt
      /\ Holding(type, id, mgmt, ref, n).ref = ref /\ Holding(type, id, mgmt, ref, n).shares = n
  BY DEF Holding
<1> QED
  BY <1>1, <1>2, <1>4, <1>5, <1>6 DEF AnyRecord

LEMMA NextIndex == \A i \in Index : (i + 1) % Capacity \in Index
BY CapacityIsPositive

LEMMA IssueSound ==
  ASSUME NEW u, IsUniverse(u), Cardinality(UsedIn(u.t)) + 3 <= MaxRecords,
         NEW issuer \in Ids, NEW name \in Names, NEW shares \in Nat, NEW slot \in Slots,
         \A j : ~IsIssuance(u.t, issuer, name, j)
  PROVE  /\ IsUniverse(Issued(u, issuer, name, shares, slot))
         /\ Cardinality(UsedIn(Issued(u, issuer, name, shares, slot).t)) = Cardinality(UsedIn(u.t)) + 3
         /\ \E i, o, p : Founded(u.t, Issued(u, issuer, name, shares, slot).t, i, o, p,
                                 issuer, name, shares, slot)
<1> DEFINE t  == u.t
           i  == FirstHole(t, StartOf(issuer))
           ri == Issuance(issuer, name)
           u1 == Put(u, i, ri, Root)
           o  == FirstHole(u1.t, (i + 1) % Capacity)
           ro == Holding("ownership", issuer, slot, i, shares)
           u2 == Put(u1, o, ro, i)
           p  == FirstHole(u2.t, (o + 1) % Capacity)
           rp == Holding("possession", issuer, slot, o, shares)
           u3 == Put(u2, p, rp, o)
           c  == Cardinality(UsedIn(t))
<1>0. Issued(u, issuer, name, shares, slot) = u3
  BY DEF Issued
<1>1. IsTable(t) /\ t \in [Index -> AnyRecord] /\ StartOf(issuer) \in Index
  BY StartsInTable DEF IsUniverse, IsTable
<1>2. c \in Nat /\ c + 3 < Capacity /\ Capacity \in Nat
  BY UsedFinite, AssetConstants
<1> HIDE DEF t, c
<1>3. Roomy(t)
  BY <1>2, RoomIsLeft DEF c
<1>4. i \in Index /\ t[i] = Hole /\ Reaches(t, StartOf(issuer), i)
  BY <1>1, <1>3, HoleFound
<1> HIDE DEF i
<1>5. /\ ri \in AnyRecord /\ ri # Hole /\ ri.type = "issuance" /\ ri.id = issuer /\ ri.name = name
      /\ ro \in AnyRecord /\ ro # Hole /\ ro.type = "ownership" /\ ro.id = issuer /\ ro.ref = i
  BY <1>4, NewRecords
<1> HIDE DEF ri, ro
<1>6. \A j \in Index : t[j] # Hole => ~SameKey(t[j], ri)
  <2> SUFFICES ASSUME NEW j \in Index, SameKey(t[j], ri) PROVE FALSE
    OBVIOUS
  <2>1. IsIssuance(t, issuer, name, j)
    BY <1>5 DEF SameKey, IsIssuance
  <2> QED
    BY <2>1 DEF t
<1>7. IsNewRecord(t, i, ri, Root)
  BY <1>4, <1>5, <1>6 DEF IsNewRecord
<1>8. IsUniverse(u1) /\ u1.t = [t EXCEPT ![i] = ri]
  BY <1>7, PutKeeps DEF Put, t
<1> HIDE DEF u1
<1> DEFINE t1 == u1.t
<1>9. IsTable(t1) /\ t1 \in [Index -> AnyRecord]
  BY <1>8 DEF IsUniverse, IsTable
<1>10. t1[i] = ri /\ \A j \in Index : j # i => t1[j] = t[j]
  BY <1>1, <1>4, <1>8
<1>11. Cardinality(UsedIn(t1)) = c + 1
  <2>1. Cardinality(UsedIn([t EXCEPT ![i] = ri])) = Cardinality(UsedIn(t)) + 1
    BY <1>1, <1>4, <1>5, UsedAfterPut
  <2> QED
    BY <1>8, <2>1 DEF c
<1>12. Roomy(t1)
  BY <1>2, <1>11, RoomIsLeft
<1>13. (i + 1) % Capacity \in Index
  BY <1>4, NextIndex
<1> HIDE DEF t1
<1>14. o \in Index /\ t1[o] = Hole /\ Reaches(t1, (i + 1) % Capacity, o)
  BY <1>12, <1>13, HoleFound DEF t1
<1> HIDE DEF o
<1>15. Reaches(t1, StartOf(issuer), i)
  BY <1>1, <1>4, <1>5, <1>10, ReachesStays
<1>16. Reaches(t1, StartOf(issuer), o)
  BY <1>1, <1>4, <1>5, <1>10, <1>14, <1>15, ReachesOn
<1>17. \A j \in Index : t1[j] # Hole => ~SameKey(t1[j], ro)
  <2> SUFFICES ASSUME NEW j \in Index, SameKey(t1[j], ro) PROVE FALSE
    OBVIOUS
  <2>1. t1[j].type = "ownership" /\ t1[j].ref = i
    BY <1>5 DEF SameKey
  <2>2. j # i
    BY <1>5, <1>10, <2>1
  <2>3. BelongsTo(t, i, j)
    BY <1>4, <1>10, <2>1, <2>2, RootIsNoIndex DEF BelongsTo
  <2> QED
    BY <1>1, <1>4, <2>3, NothingBelongsToHole
<1>18. IsNewRecord(t1, o, ro, i)
  BY <1>5, <1>10, <1>14, <1>16, <1>17 DEF IsNewRecord
<1>19. IsUniverse(u2) /\ u2.t = [t1 EXCEPT ![o] = ro]
  BY <1>8, <1>18, PutKeeps DEF Put, t1
<1> HIDE DEF u2
<1> DEFINE t2 == u2.t
<1>20. IsTable(t2) /\ t2 \in [Index -> AnyRecord]
  BY <1>19 DEF IsUniverse, IsTable
<1>21. t2[o] = ro /\ \A j \in Index : j # o => t2[j] = t1[j]
  BY <1>9, <1>14, <1>19
<1>22. Cardinality(UsedIn(t2)) = c + 2
  <2>1. Cardinality(UsedIn([t1 EXCEPT ![o] = ro])) = Cardinality(UsedIn(t1)) + 1
    BY <1>5, <1>9, <1>14, UsedAfterPut
  <2>2. Cardinality(UsedIn(t2)) = Cardinality(UsedIn(t1)) + 1
    BY <1>19, <2>1
  <2> HIDE DEF t2
  <2> QED
    BY <1>2, <1>11, <2>2
<1>23. Roomy(t2)
  BY <1>2, <1>22, RoomIsLeft
<1>24. (o + 1) % Capacity \in Index
  BY <1>14, NextIndex
<1> HIDE DEF t2
<1>25. p \in Index /\ t2[p] = Hole /\ Reaches(t2, (o + 1) % Capacity, p)
  BY <1>23, <1>24, HoleFound DEF t2
<1> HIDE DEF p
<1>26. Reaches(t2, StartOf(issuer), o)
  BY <1>1, <1>5, <1>14, <1>16, <1>21, ReachesStays
<1>27. Reaches(t2, StartOf(issuer), p)
  BY <1>1, <1>5, <1>14, <1>21, <1>25, <1>26, ReachesOn
<1>28. /\ rp \in AnyRecord /\ rp # Hole /\ rp.type = "possession" /\ rp.id = issuer /\ rp.ref = o
  BY <1>14, NewRecords
<1> HIDE DEF rp
<1>29. \A j \in Index : t2[j] # Hole => ~SameKey(t2[j], rp)
  <2> SUFFICES ASSUME NEW j \in Index, SameKey(t2[j], rp) PROVE FALSE
    OBVIOUS
  <2>1. t2[j].type = "possession" /\ t2[j].ref = o
    BY <1>28 DEF SameKey
  <2>2. j # o
    BY <1>5, <1>21, <2>1
  <2>3. BelongsTo(t1, o, j)
    BY <1>14, <1>21, <2>1, <2>2, RootIsNoIndex DEF BelongsTo
  <2> QED
    BY <1>9, <1>14, <2>3, NothingBelongsToHole
<1>30. IsNewRecord(t2, p, rp, o)
  BY <1>5, <1>21, <1>25, <1>27, <1>28, <1>29 DEF IsNewRecord
<1>31. IsUniverse(u3) /\ u3.t = [t2 EXCEPT ![p] = rp]
  BY <1>19, <1>30, PutKeeps DEF Put, t2
<1> HIDE DEF u3
<1>32. Cardinality(UsedIn(u3.t)) = c + 3
  <2>1. Cardinality(UsedIn([t2 EXCEPT ![p] = rp])) = Cardinality(UsedIn(t2)) + 1
    BY <1>20, <1>25, <1>28, UsedAfterPut DEF t2
  <2>2. Cardinality(UsedIn(u3.t)) = Cardinality(UsedIn(t2)) + 1
    BY <1>31, <2>1
  <2> QED
    BY <1>2, <1>22, <2>2
<1>33. i # o /\ o # p /\ p # i
  BY <1>4, <1>5, <1>10, <1>14, <1>21, <1>25
<1>34. u3.t[p] = rp /\ \A j \in Index : j # p => u3.t[j] = t2[j]
  BY <1>20, <1>25, <1>31 DEF t2
<1>35. Founded(t, u3.t, i, o, p, issuer, name, shares, slot)
  BY <1>4, <1>10, <1>14, <1>21, <1>25, <1>33, <1>34 DEF Founded, ri, ro, rp
<1> QED
  BY <1>0, <1>31, <1>32, <1>35 DEF t, c

\* What a new issuance leaves of the others, and what it has.
LEMMA FoundedKeeps ==
  ASSUME NEW t, NEW t2, NEW i, NEW o, NEW p, NEW issuer, NEW name, NEW shares, NEW slot,
         Founded(t, t2, i, o, p, issuer, name, shares, slot),
         IsTable(t), IsTable(t2), Paired(t), shares \in Nat
  PROVE  /\ Paired(t2)
         /\ OwnedTotal(t2, i) = shares
         /\ \A j : j # i => OwnedTotal(t2, j) = OwnedTotal(t, j)
         /\ \A j, s : j # i => HandledTotal(t2, j, s) = HandledTotal(t, j, s)
<1>0. t \in [Index -> AnyRecord] /\ t2 \in [Index -> AnyRecord] /\ Linked(t)
  BY DEF IsTable
<1>1. /\ i \in Index /\ o \in Index /\ p \in Index /\ i # o /\ o # p /\ p # i
      /\ t[i].type = "hole" /\ t[o].type = "hole" /\ t[p].type = "hole"
      /\ t2[i].type = "issuance"
      /\ t2[o].type = "ownership" /\ t2[o].id = issuer /\ t2[o].mgmt = slot /\ t2[o].ref = i
      /\ t2[o].shares = shares
      /\ t2[p].type = "possession" /\ t2[p].id = issuer /\ t2[p].mgmt = slot /\ t2[p].ref = o
      /\ t2[p].shares = shares
      /\ \A j \in Index \ {i, o, p} : t2[j] = t[j]
  BY DEF Founded, Holding, Issuance, Hole
<1>2. \A j \in Index : t[j].type \in {"ownership", "possession"} =>
        /\ t2[j] = t[j] /\ t[j].ref \in Index /\ t[j].ref \notin {i, o, p}
        /\ t[t[j].ref].type \in {"issuance", "ownership"}
        /\ t2[t[j].ref] = t[t[j].ref]
  <2> SUFFICES ASSUME NEW j \in Index, t[j].type \in {"ownership", "possession"}
               PROVE  /\ t2[j] = t[j] /\ t[j].ref \in Index /\ t[j].ref \notin {i, o, p}
                      /\ t[t[j].ref].type \in {"issuance", "ownership"}
                      /\ t2[t[j].ref] = t[t[j].ref]
    OBVIOUS
  <2>1. t2[j] = t[j] /\ t[j].ref \in Index
    BY <1>0, <1>1, SharesOfHolding
  <2>2. t[t[j].ref].type \in {"issuance", "ownership"}
    BY <1>0 DEF Linked
  <2>3. t[j].ref \notin {i, o, p}
    BY <1>1, <2>2
  <2> QED
    BY <1>1, <2>1, <2>2, <2>3
<1>3. Paired(t2)
  <2>1. ASSUME NEW q \in Index, t2[q].type = "possession"
        PROVE  t2[q].id = t2[t2[q].ref].id /\ t2[q].mgmt = t2[t2[q].ref].mgmt
               /\ t2[q].shares = t2[t2[q].ref].shares
    <3>1. CASE q = p
      BY <1>1, <3>1
    <3>2. CASE q # p
      <4>1. t[q].type = "possession"
        BY <1>1, <2>1, <3>2
      <4> QED
        BY <1>2, <4>1 DEF Paired
    <3> QED
      BY <3>1, <3>2
  <2>2. ASSUME NEW r \in Index, t2[r].type = "ownership"
        PROVE  \E q \in Index : t2[q].type = "possession" /\ t2[q].ref = r
    <3>1. CASE r = o
      BY <1>1, <3>1
    <3>2. CASE r # o
      <4>1. t[r].type = "ownership"
        BY <1>1, <2>2, <3>2
      <4>2. PICK q \in Index : t[q].type = "possession" /\ t[q].ref = r
        BY <4>1 DEF Paired
      <4> QED
        BY <1>2, <4>2
    <3> QED
      BY <3>1, <3>2
  <2> QED
    BY <2>1, <2>2 DEF Paired
<1>4. OwnedTotal(t2, i) = shares
  <2> DEFINE f == Owned(t, i)
             g == Owned(t2, i)
  <2>1. \A j \in Index : f[j] = 0
    BY <1>1, <1>2 DEF Owned
  <2>2. \A j \in Index : j # o => g[j] = f[j]
    BY <1>1, <2>1 DEF Owned
  <2>3. g[o] = shares
    BY <1>1 DEF Owned
  <2> HIDE DEF f, g
  <2>4. Total(f, Index) = 0
    <3>1. Total(f, Index) = Cardinality(Index) * 0
      BY <2>1, IndexFinite, TotalOfConstant
    <3>2. Cardinality(Index) \in Nat
      BY IndexFinite, FS_CardinalityType
    <3> QED
      BY <3>1, <3>2
  <2>5. \A j \in Index : f[j] \in Int /\ g[j] \in Int
    BY <2>1, <2>2, <2>3
  <2>6. Total(g, Index) = Total(f, Index) - f[o] + g[o]
    BY <1>1, <2>2, <2>5, IndexFinite, TotalUpdate
  <2> QED
    BY <1>1, <2>1, <2>3, <2>4, <2>6 DEF OwnedTotal, f, g
<1>5. ASSUME NEW j, j # i PROVE OwnedTotal(t2, j) = OwnedTotal(t, j)
  <2>1. \A k \in Index : Owned(t2, j)[k] = Owned(t, j)[k]
    BY <1>1, <1>5 DEF Owned
  <2> QED
    BY <2>1, IndexFinite, TotalAgrees DEF OwnedTotal
<1>6. ASSUME NEW j, NEW s, j # i PROVE HandledTotal(t2, j, s) = HandledTotal(t, j, s)
  <2>1. \A k \in Index : Handled(t2, j, s)[k] = Handled(t, j, s)[k]
    BY <1>1, <1>2, <1>6 DEF Handled
  <2> QED
    BY <2>1, IndexFinite, TotalAgrees DEF HandledTotal
<1> QED
  BY <1>3, <1>4, <1>5, <1>6

(***************************************************************************)
(* The searches for what a contract manages for an owner.                  *)
(***************************************************************************)

\* A walk by id comes to all children of the id.
LEMMA AllChildrenProbed ==
  ASSUME NEW t, IsTable(t), Roomy(t), NEW type \in {"ownership", "possession"}, NEW parent, NEW id \in Ids
  PROVE  ProbedChildren(t, type, parent, id)
           = {c \in Index : t[c].type = type /\ t[c].ref = parent /\ t[c].id = id}
<1> DEFINE s == StartOf(id)
           H == {k \in Index : t[Probed(s, k)] = Hole}
           hole == Min(H)
           Mine(c) == t[c].type = type /\ t[c].ref = parent /\ t[c].id = id
<1>0. s \in Index
  BY StartsInTable
<1> HIDE DEF s
<1>1. ProbedChildren(t, type, parent, id)
        = {Probed(s, k) : k \in {k \in 0 .. hole - 1 : Mine(Probed(s, k))}}
  BY DEF ProbedChildren, Probed, s
<1>2. hole \in H /\ \A k \in H : hole <= k
  <2>1. PICK h \in Index : t[h] = Hole
    BY DEF Roomy
  <2>2. PICK k \in Index : Probed(s, k) = h
    BY <1>0, ProbedEverywhere
  <2>3. H # {} /\ H \in SUBSET Index
    BY <2>1, <2>2
  <2> HIDE DEF H
  <2>4. \E m \in H : \A x \in H : m <= x
    BY <2>3, LeastIndex
  <2> QED
    BY <2>4 DEF Min
<1> HIDE DEF hole
<1>3. hole \in 0 .. Capacity - 1 /\ Capacity \in Nat
  BY <1>2, CapacityIsPositive
<1>4. ASSUME NEW k \in 0 .. hole - 1 PROVE Probed(s, k) \in Index
  <2>1. k \in Index
    BY <1>3, CapacityIsPositive
  <2> QED
    BY <1>0, <2>1, ProbedIs
<1>5. ASSUME NEW c \in Index, Mine(c)
      PROVE  \E k \in 0 .. hole - 1 : Probed(s, k) = c
  <2>1. t[c] # Hole /\ t[c].id = id
    BY <1>5 DEF Hole
  <2>2. Reaches(t, s, c)
    BY <2>1 DEF IsTable, Reachable, s
  <2>3. PICK k \in Index : Probed(s, k) = c /\ \A j \in 0 .. k - 1 : t[Probed(s, j)] # Hole
    BY <2>2 DEF Reaches
  <2>4. t[Probed(s, hole)] = Hole
    BY <1>2
  <2>5. k \in Nat /\ hole \in Nat /\ k # hole
    BY <1>3, <2>1, <2>3, <2>4, CapacityIsPositive
  <2>6. ~(hole < k)
    BY <2>3, <2>4, <2>5
  <2> QED
    BY <2>3, <2>5, <2>6
<1> HIDE DEF Mine
<1>6. {Probed(s, k) : k \in {k \in 0 .. hole - 1 : Mine(Probed(s, k))}} = {c \in Index : Mine(c)}
  BY <1>4, <1>5
<1> QED
  BY <1>1, <1>6 DEF Mine

NoHolding == [own |-> NoIndex, pos |-> NoIndex]

\* The shares of issuance i that slot manages for an owner are at from.
IsHeld(t, i, owner, slot, from) ==
  /\ from = [own |-> from.own, pos |-> from.pos]
  /\ from.own \in Index /\ IsHolding(t[from.own], "ownership", owner, slot, i)
  /\ from.pos \in Index /\ IsHolding(t[from.pos], "possession", owner, slot, from.own)

LEMMA HeldIsSource ==
  ASSUME NEW t, NEW i, NEW owner, NEW slot, NEW from, IsHeld(t, i, owner, slot, from)
  PROVE  IsSource(t, from) /\ from # NoHolding /\ from.own # NoIndex
         /\ t[from.own].ref = i /\ t[from.own].mgmt = slot /\ t[from.pos].mgmt = slot
         /\ t[from.own].id = owner /\ t[from.pos].id = owner
<1>1. from.own \in Index /\ from.own # NoIndex
  BY RootIsNoIndex DEF IsHeld
<1>2. NoHolding.own = NoIndex
  BY DEF NoHolding
<1> QED
  BY <1>1, <1>2 DEF IsHeld, IsSource, IsHolding

\* An ownership of the slot has its possession, managed by the slot too.
LEMMA OwnershipIsHeld ==
  ASSUME NEW t, IsTable(t), Paired(t), NEW i, NEW owner, NEW slot, NEW o \in Index,
         IsHolding(t[o], "ownership", owner, slot, i)
  PROVE  \E p \in Index : IsHeld(t, i, owner, slot, [own |-> o, pos |-> p])
<1>1. PICK p \in Index : t[p].type = "possession" /\ t[p].ref = o
  BY DEF Paired, IsHolding
<1>2. IsHolding(t[p], "possession", owner, slot, o)
  BY <1>1 DEF Paired, IsHolding
<1> QED
  BY <1>1, <1>2 DEF IsHeld

\* All three searches find what is held, ...
LEMMA HeldFound ==
  ASSUME NEW t, IsTable(t), Roomy(t), Paired(t), NEW issuer \in Ids, NEW name, NEW owner \in Ids,
         NEW slot, NEW i, IsIssuance(t, issuer, name, i), NEW from, IsHeld(t, i, owner, slot, from)
  PROVE  /\ NumberOfPossessedShares(t, issuer, name, owner, slot, slot) = t[from.pos].shares
         /\ HeldBy(t, issuer, name, owner, slot) = from
         /\ RightsHeldBy(t, issuer, name, owner, slot) = from
<1> DEFINE own == from.own
           pos == from.pos
<1>0. /\ own \in Index /\ IsHolding(t[own], "ownership", owner, slot, i)
      /\ pos \in Index /\ IsHolding(t[pos], "possession", owner, slot, own)
      /\ t[own] # Hole /\ t[pos] # Hole /\ from = [own |-> own, pos |-> pos]
      /\ i # NoIndex /\ own # NoIndex /\ pos # NoIndex
  BY RootIsNoIndex DEF IsHeld, IsHolding, Hole, IsIssuance
<1>1. IssuanceIndex(t, issuer, name) = i
  BY IssuanceFound
<1>2. Found(t, PlaceOf(t, "ownership", owner, slot, i)) = own
  BY <1>0, PlaceFound DEF Found
<1>3. Found(t, PlaceOf(t, "possession", owner, slot, own)) = pos
  BY <1>0, PlaceFound DEF Found
<1>4. NumberOfPossessedShares(t, issuer, name, owner, slot, slot) = t[pos].shares
  BY <1>0, <1>1, <1>2, <1>3 DEF NumberOfPossessedShares
<1>5. HeldBy(t, issuer, name, owner, slot) = from
  <2> DEFINE sought == {q \in Index : t[q].type = "possession" /\ t[q].ref = own /\ t[q].id = owner}
             p == Probe(t, StartOf(owner), sought)
  <2>1. pos \in sought /\ Reaches(t, StartOf(owner), pos)
    BY <1>0 DEF IsHolding, IsTable, Reachable
  <2>2. ProbeEnds(t, StartOf(owner), sought, p)
    BY StartsInTable, ProbeSound
  <2> HIDE DEF p
  <2>3. p \in sought
    BY <2>1, <2>2 DEF ProbeEnds
  <2>4. p = pos
    BY <2>1, <2>3, OnePossession
  <2>5. Found(t, p) = pos /\ t[pos].mgmt = slot
    BY <1>0, <2>4 DEF Found, IsHolding
  <2>6. HeldBy(t, issuer, name, owner, slot)
          = IF i = NoIndex \/ own = NoIndex \/ pos = NoIndex \/ (pos # NoIndex /\ t[pos].mgmt # slot)
            THEN [own |-> NoIndex, pos |-> NoIndex] ELSE [own |-> own, pos |-> pos]
    BY <1>1, <1>2, <2>5 DEF HeldBy, p
  <2> QED
    BY <1>0, <2>5, <2>6
<1>6. RightsHeldBy(t, issuer, name, owner, slot) = from
  <2> DEFINE owned == {o \in ProbedChildren(t, "ownership", i, owner) : t[o].mgmt = slot}
             pairs == {[own |-> o, pos |-> p] : o \in owned,
                         p \in UNION {ProbedChildren(t, "possession", o, owner) : o \in owned}}
             right == {q \in pairs : t[q.pos].ref = q.own /\ t[q.pos].mgmt = slot}
  <2>0. RightsHeldBy(t, issuer, name, owner, slot)
          = IF i = NoIndex \/ right = {} THEN [own |-> NoIndex, pos |-> NoIndex]
            ELSE CHOOSE q \in right : TRUE
    BY <1>1 DEF RightsHeldBy
  <2>1. owned = {own}
    <3>1. owned = {c \in Index : IsHolding(t[c], "ownership", owner, slot, i)}
      BY AllChildrenProbed DEF IsHolding
    <3>2. ASSUME NEW c \in Index, IsHolding(t[c], "ownership", owner, slot, i) PROVE c = own
      <4>1. t[c] # Hole /\ SameKey(t[c], t[own])
        BY <1>0, <3>2 DEF SameKey, IsHolding, Hole
      <4> QED
        BY <1>0, <4>1 DEF IsTable, Unique
    <3> HIDE DEF owned
    <3> QED
      BY <1>0, <3>1, <3>2
  <2> HIDE DEF owned
  <2>2. ProbedChildren(t, "possession", own, owner) = {pos}
    <3>1. ProbedChildren(t, "possession", own, owner)
            = {c \in Index : t[c].type = "possession" /\ t[c].ref = own /\ t[c].id = owner}
      BY AllChildrenProbed
    <3>2. ASSUME NEW c \in Index, t[c].type = "possession", t[c].ref = own PROVE c = pos
      BY <1>0, <3>2, OnePossession DEF IsHolding
    <3>3. t[pos].type = "possession" /\ t[pos].ref = own /\ t[pos].id = owner
      BY <1>0 DEF IsHolding
    <3> QED
      BY <1>0, <3>1, <3>2, <3>3
  <2>3. pairs = {from}
    BY <1>0, <2>1, <2>2
  <2> HIDE DEF pairs
  <2>4. right = {from}
    BY <1>0, <2>3 DEF IsHolding
  <2> HIDE DEF right
  <2> QED
    BY <1>0, <2>0, <2>4
<1> QED
  BY <1>4, <1>5, <1>6

\* ... and nothing else.
LEMMA NothingFound ==
  ASSUME NEW t, IsTable(t), Roomy(t), Paired(t), NEW issuer \in Ids, NEW name, NEW owner \in Ids, NEW slot,
         \A i, from : IsIssuance(t, issuer, name, i) => ~IsHeld(t, i, owner, slot, from)
  PROVE  /\ NumberOfPossessedShares(t, issuer, name, owner, slot, slot) = 0
         /\ HeldBy(t, issuer, name, owner, slot) = NoHolding
         /\ RightsHeldBy(t, issuer, name, owner, slot) = NoHolding
<1> DEFINE i == IssuanceIndex(t, issuer, name)
<1>1. CASE i = NoIndex
  <2>1. NumberOfPossessedShares(t, issuer, name, owner, slot, slot) = 0
    BY <1>1 DEF NumberOfPossessedShares
  <2>2. HeldBy(t, issuer, name, owner, slot) = NoHolding
    BY <1>1 DEF HeldBy, NoHolding
  <2>3. RightsHeldBy(t, issuer, name, owner, slot) = NoHolding
    BY <1>1 DEF RightsHeldBy, NoHolding
  <2> QED
    BY <2>1, <2>2, <2>3
<1>2. CASE IsIssuance(t, issuer, name, i)
  <2>0. \A o \in Index : ~IsHolding(t[o], "ownership", owner, slot, i)
    BY <1>2, OwnershipIsHeld
  <2> DEFINE o == PlaceOf(t, "ownership", owner, slot, i)
  <2>1. PlaceIs(t, "ownership", owner, slot, i, o)
    BY PlaceSought
  <2> HIDE DEF o
  <2>2. Found(t, o) = NoIndex
    BY <2>0, <2>1 DEF PlaceIs, Found
  <2>3. NumberOfPossessedShares(t, issuer, name, owner, slot, slot) = 0
    BY <2>2 DEF NumberOfPossessedShares, o
  <2>4. HeldBy(t, issuer, name, owner, slot) = NoHolding
    BY <2>2 DEF HeldBy, NoHolding, o
  <2>5. {c \in ProbedChildren(t, "ownership", i, owner) : t[c].mgmt = slot} = {}
    <3>1. ProbedChildren(t, "ownership", i, owner)
            = {c \in Index : t[c].type = "ownership" /\ t[c].ref = i /\ t[c].id = owner}
      BY AllChildrenProbed
    <3> QED
      BY <2>0, <3>1 DEF IsHolding
  <2> DEFINE owned == {c \in ProbedChildren(t, "ownership", i, owner) : t[c].mgmt = slot}
             pairs == {[own |-> c, pos |-> p] : c \in owned,
                         p \in UNION {ProbedChildren(t, "possession", c, owner) : c \in owned}}
             right == {q \in pairs : t[q.pos].ref = q.own /\ t[q.pos].mgmt = slot}
  <2>6. RightsHeldBy(t, issuer, name, owner, slot)
          = IF i = NoIndex \/ right = {} THEN [own |-> NoIndex, pos |-> NoIndex]
            ELSE CHOOSE q \in right : TRUE
    BY DEF RightsHeldBy
  <2>7. owned = {}
    BY <2>5
  <2> HIDE DEF owned
  <2>8. right = {}
    BY <2>7
  <2> HIDE DEF right
  <2>9. RightsHeldBy(t, issuer, name, owner, slot) = NoHolding
    BY <2>6, <2>8 DEF NoHolding
  <2> QED
    BY <2>3, <2>4, <2>9
<1> QED
  BY <1>1, <1>2, IssuanceSought

(***************************************************************************)
(* The inductive invariant.                                                *)
(***************************************************************************)

\* What is outstanding of an asset is what its ownerships add up to.
Balanced(t, out) ==
  /\ out \in [Assets -> Nat]
  /\ \A a \in Assets :
       /\ \A i \in Index : IsIssuance(t, a[1], a[2], i) => out[a] = OwnedTotal(t, i)
       /\ (\A i \in Index : ~IsIssuance(t, a[1], a[2], i)) => out[a] = 0

\* A contract has the name of an asset, or none.
Named(assetNames) == assetNames \in [Slots -> Names \cup {NoName}]

Sound(u, out, assetNames) ==
  /\ IsUniverse(u) /\ Paired(u.t) /\ Cardinality(UsedIn(u.t)) <= MaxRecords
  /\ Balanced(u.t, out) /\ Named(assetNames)

RightsFrame ==
  [caller : Slots, other : Slots, releases : BOOLEAN, issuer : Ids, name : Names, owner : Ids,
   shares : Nat, offered : Nat, fee : Nat, stage : {"pre", "fee", "called", "post"}]
PayoutFrame == [stage : {"called", "dividend"}, unpaid : Seq([id : Ids, amount : Nat])]

\* A callback of a transfer of rights may pay dividends, and a callback of a payment
\* may ask for rights, in vain; nothing goes deeper.
Nested(fs) ==
  /\ fs \in Seq(RightsFrame \cup PayoutFrame) /\ Len(fs) <= 2
  /\ \A k \in DOMAIN fs : ~IsPayout(fs[k]) => fs[k].other # fs[k].caller
  /\ Len(fs) = 2 =>
       \/ fs[1].stage \in {"pre", "post"} /\ ~IsPayout(fs[1]) /\ IsPayout(fs[2])
       \/ fs[1].stage \in {"fee", "dividend"} /\ ~IsPayout(fs[2]) /\ fs[2].stage = "pre"

UnpaidTotal(fs) == Total([k \in DOMAIN fs |-> Unpaid(fs[k])], DOMAIN fs)

Accounted(e, fs, lost) ==
  /\ e \in [Ids -> Nat] /\ lost \in Int
  /\ Total(e, Ids) + UnpaidTotal(fs) + lost = Cardinality(Slots) * Endowment

AssetsInv ==
  /\ Sound(Now, outstanding, contractAssetNames)
  /\ Nested(frames)
  /\ Accounted(energy, frames, vanished)

LEMMA SameIssuancesFound ==
  ASSUME NEW t, NEW t2, SameIssuances(t, t2), NEW issuer, NEW name, NEW i
  PROVE  IsIssuance(t2, issuer, name, i) <=> IsIssuance(t, issuer, name, i)
BY DEF SameIssuances, IsIssuance

LEMMA RoomInSound ==
  ASSUME NEW t, Cardinality(UsedIn(t)) <= MaxRecords
  PROVE  Roomy(t)
<1>1. Cardinality(UsedIn(t)) \in Nat /\ MaxRecords < Capacity /\ MaxRecords \in Nat /\ Capacity \in Nat
  BY UsedFinite, AssetConstants
<1>2. Cardinality(UsedIn(t)) < Capacity
  BY <1>1
<1> QED
  BY <1>2, RoomIsLeft

(***************************************************************************)
(* The steps of the universe.                                              *)
(***************************************************************************)

LEMMA MoveStep ==
  ASSUME NEW u, NEW out, NEW assetNames, Sound(u, out, assetNames), NEW from, IsSource(u.t, from),
         NEW n \in Nat, n <= u.t[from.pos].shares, NEW owner \in Ids, NEW mgmt \in Slots,
         Cardinality(UsedIn(Move(u, from, owner, owner, mgmt, mgmt, n).t)) <= MaxRecords
  PROVE  /\ Sound(Move(u, from, owner, owner, mgmt, mgmt, n), out, assetNames)
         /\ Moved(u.t, Move(u, from, owner, owner, mgmt, mgmt, n).t, from, n, owner, mgmt)
<1> DEFINE u2 == Move(u, from, owner, owner, mgmt, mgmt, n)
           t == u.t
           t2 == u2.t
<1>1. IsUniverse(u) /\ Paired(u.t) /\ Roomy(u.t) /\ Roomy(u2.t)
  BY RoomInSound DEF Sound
<1>2. IsUniverse(u2) /\ Moved(t, t2, from, n, owner, mgmt)
  BY <1>1, MoveSound
<1> HIDE DEF u2
<1>3. /\ t \in [Index -> AnyRecord] /\ t2 \in [Index -> AnyRecord]
      /\ Linked(t) /\ Unique(t)
  BY <1>1, <1>2 DEF IsUniverse, IsTable
<1>4. Paired(t2)
  BY <1>1, <1>2, <1>3, MovedPaired
<1>5. SameIssuances(t, t2)
  BY <1>2, <1>3, MovedIssuances
<1>6. \A i \in Index : OwnedTotal(t2, i) = OwnedTotal(t, i)
  BY <1>1, <1>2, <1>3, MovedOwned
<1>7. Balanced(t2, out)
  <2>1. Balanced(t, out)
    BY DEF Sound
  <2> QED
    BY <1>5, <1>6, <2>1, SameIssuancesFound DEF Balanced
<1>8. Named(assetNames)
  BY DEF Sound
<1> QED
  BY <1>2, <1>4, <1>7, <1>8 DEF Sound, u2

\* An issuance is the issuance of one asset, and an asset has one.
LEMMA OneIssuance ==
  ASSUME NEW t, IsTable(t), NEW issuer, NEW name, NEW i, IsIssuance(t, issuer, name, i)
  PROVE  /\ \A j : IsIssuance(t, issuer, name, j) => j = i
         /\ \A a, b : IsIssuance(t, a, b, i) => a = issuer /\ b = name
<1>1. ASSUME NEW j, IsIssuance(t, issuer, name, j) PROVE j = i
  <2>1. t[i] # Hole /\ t[j] # Hole /\ SameKey(t[i], t[j]) /\ i \in Index /\ j \in Index
    BY <1>1 DEF IsIssuance, SameKey, Hole
  <2> QED
    BY <2>1 DEF IsTable, Unique
<1> QED
  BY <1>1 DEF IsIssuance

LEMMA BurnStep ==
  ASSUME NEW u, NEW out, NEW assetNames, Sound(u, out, assetNames), NEW from, IsSource(u.t, from),
         NEW n \in Nat, n <= u.t[from.pos].shares, NEW issuer \in Ids,
         NEW name \in Names, IsIssuance(u.t, issuer, name, u.t[from.own].ref)
  PROVE  Sound(Debit(Debit(u, from.own, n), from.pos, n),
               [out EXCEPT ![<<issuer, name>>] = @ - n], assetNames)
<1> DEFINE u2 == Debit(Debit(u, from.own, n), from.pos, n)
           t == u.t
           t2 == u2.t
           i == t[from.own].ref
           a == <<issuer, name>>
           out2 == [out EXCEPT ![a] = out[a] - n]
<1>1. IsUniverse(u) /\ Paired(u.t) /\ IsTable(t) /\ Balanced(t, out) /\ Named(assetNames)
  BY DEF Sound, IsUniverse
<1>2. IsUniverse(u2) /\ Burned(t, t2, from, n)
  BY <1>1, BurnSound
<1> HIDE DEF u2
<1>3. /\ Paired(t2)
      /\ OwnedTotal(t2, i) = OwnedTotal(t, i) - n
      /\ \A j : j # i => OwnedTotal(t2, j) = OwnedTotal(t, j)
  BY <1>1, <1>2, BurnedKeeps
<1>4. UsedIn(t2) = UsedIn(t)
  BY <1>1, <1>2, SameHoles DEF UsedIn, Burned, IsTable
<1>5. SameIssuances(t, t2)
  BY <1>2 DEF Burned, SameButShares, SameIssuances
<1>6. a \in Assets /\ IsIssuance(t, a[1], a[2], i) /\ i \in Index
  BY DEF Assets, IsIssuance
<1>7. out[a] = OwnedTotal(t, i) /\ out \in [Assets -> Nat]
  BY <1>1, <1>6 DEF Balanced
<1>8. OwnedTotal(t2, i) \in Nat
  BY <1>2, OwnedNat, IndexFinite, TotalNat DEF OwnedTotal, IsUniverse, IsTable
<1> HIDE DEF i, a
<1>9. out2 \in [Assets -> Nat] /\ out2[a] = OwnedTotal(t2, i) /\ \A b \in Assets : b # a => out2[b] = out[b]
  BY <1>3, <1>6, <1>7, <1>8
<1> HIDE DEF out2
<1>10. Balanced(t2, out2)
  <2> SUFFICES ASSUME NEW b \in Assets
               PROVE  /\ \A j \in Index : IsIssuance(t2, b[1], b[2], j) => out2[b] = OwnedTotal(t2, j)
                      /\ (\A j \in Index : ~IsIssuance(t2, b[1], b[2], j)) => out2[b] = 0
    BY <1>9 DEF Balanced
  <2>1. \A j : IsIssuance(t2, b[1], b[2], j) <=> IsIssuance(t, b[1], b[2], j)
    BY <1>5, SameIssuancesFound
  <2>2. CASE b = a
    <3>1. \A j : IsIssuance(t, a[1], a[2], j) => j = i
      BY <1>1, <1>6, OneIssuance
    <3> QED
      BY <1>6, <1>9, <2>1, <2>2, <3>1
  <2>3. CASE b # a
    <3>1. ~IsIssuance(t, b[1], b[2], i)
      <4>1. b = <<b[1], b[2]>> /\ a = <<a[1], a[2]>>
        BY DEF Assets, a
      <4> QED
        BY <1>1, <1>6, <2>3, <4>1, OneIssuance
    <3>2. /\ \A j \in Index : IsIssuance(t, b[1], b[2], j) => out[b] = OwnedTotal(t, j)
          /\ (\A j \in Index : ~IsIssuance(t, b[1], b[2], j)) => out[b] = 0
      BY <1>1 DEF Balanced
    <3> QED
      BY <1>3, <1>9, <2>1, <2>3, <3>1, <3>2
  <2> QED
    BY <2>2, <2>3
<1>11. Named(assetNames)
  BY <1>1
<1> QED
  BY <1>2, <1>3, <1>4, <1>10, <1>11 DEF Sound, u2, out2, a

LEMMA IssueStep ==
  ASSUME NEW u, NEW out, NEW assetNames, Sound(u, out, assetNames), Cardinality(UsedIn(u.t)) + 3 <= MaxRecords,
         NEW issuer \in Ids, NEW name \in Names, NEW n \in Nat, NEW slot \in Slots,
         \A j : ~IsIssuance(u.t, issuer, name, j)
  PROVE  /\ Sound(Issued(u, issuer, name, n, slot), [out EXCEPT ![<<issuer, name>>] = n], assetNames)
         /\ Cardinality(UsedIn(Issued(u, issuer, name, n, slot).t)) = Cardinality(UsedIn(u.t)) + 3
         /\ \E i, o, p : Founded(u.t, Issued(u, issuer, name, n, slot).t, i, o, p, issuer, name, n, slot)
<1> DEFINE u2 == Issued(u, issuer, name, n, slot)
           t == u.t
           t2 == u2.t
           a == <<issuer, name>>
           out2 == [out EXCEPT ![a] = n]
<1>1. IsUniverse(u) /\ Paired(t) /\ IsTable(t) /\ Balanced(t, out) /\ Named(assetNames)
  BY DEF Sound, IsUniverse
<1>2. /\ IsUniverse(u2) /\ Cardinality(UsedIn(t2)) = Cardinality(UsedIn(t)) + 3
      /\ \E i, o, p : Founded(t, t2, i, o, p, issuer, name, n, slot)
  BY <1>1, IssueSound
<1> HIDE DEF u2
<1>3. PICK i, o, p : Founded(t, t2, i, o, p, issuer, name, n, slot)
  BY <1>2
<1>4. IsTable(t2)
  BY <1>2 DEF IsUniverse
<1>5. /\ Paired(t2) /\ OwnedTotal(t2, i) = n
      /\ \A j : j # i => OwnedTotal(t2, j) = OwnedTotal(t, j)
  <2> HIDE DEF t, t2
  <2> QED
    BY <1>1, <1>3, <1>4, FoundedKeeps
<1>6. i \in Index /\ t[i].type = "hole" /\ IsIssuance(t2, issuer, name, i)
  BY <1>3 DEF Founded, Issuance, IsIssuance, Hole
<1>7. \A b, c, j : j # i => (IsIssuance(t2, b, c, j) <=> IsIssuance(t, b, c, j))
  BY <1>3 DEF Founded, Holding, Hole, IsIssuance
<1>8. \A b, c : ~IsIssuance(t, b, c, i)
  BY <1>6 DEF IsIssuance
<1>9. a \in Assets /\ a[1] = issuer /\ a[2] = name
  BY DEF Assets
<1> HIDE DEF a
<1>10. out2 \in [Assets -> Nat] /\ out2[a] = n /\ \A b \in Assets : b # a => out2[b] = out[b]
  BY <1>1, <1>9 DEF Balanced
<1> HIDE DEF out2
<1>11. Balanced(t2, out2)
  <2> SUFFICES ASSUME NEW b \in Assets
               PROVE  /\ \A j \in Index : IsIssuance(t2, b[1], b[2], j) => out2[b] = OwnedTotal(t2, j)
                      /\ (\A j \in Index : ~IsIssuance(t2, b[1], b[2], j)) => out2[b] = 0
    BY <1>10 DEF Balanced
  <2>1. CASE b = a
    <3>1. \A j : IsIssuance(t2, issuer, name, j) => j = i
      BY <1>4, <1>6, OneIssuance
    <3> QED
      BY <1>5, <1>6, <1>9, <1>10, <2>1, <3>1
  <2>2. CASE b # a
    <3>1. ~IsIssuance(t2, b[1], b[2], i)
      <4>1. b = <<b[1], b[2]>> /\ a = <<a[1], a[2]>>
        BY DEF Assets, a
      <4> QED
        BY <1>4, <1>6, <1>9, <2>2, <4>1, OneIssuance
    <3>2. /\ \A j \in Index : IsIssuance(t, b[1], b[2], j) => out[b] = OwnedTotal(t, j)
          /\ (\A j \in Index : ~IsIssuance(t, b[1], b[2], j)) => out[b] = 0
      BY <1>1 DEF Balanced
    <3>3. \A j : IsIssuance(t2, b[1], b[2], j) <=> IsIssuance(t, b[1], b[2], j)
      BY <1>7, <1>8, <3>1
    <3> QED
      BY <1>5, <1>8, <1>10, <2>2, <3>2, <3>3
  <2> QED
    BY <2>1, <2>2
<1>12. Named(assetNames)
  BY <1>1
<1>13. Cardinality(UsedIn(t2)) <= MaxRecords
  BY <1>2
<1> QED
  BY <1>2, <1>5, <1>11, <1>12, <1>13 DEF Sound, u2, out2, a

\* What a search finds can be moved.
LEMMA HeldBySource ==
  ASSUME NEW t, IsTable(t), Roomy(t), Paired(t), NEW issuer \in Ids, NEW name, NEW owner \in Ids, NEW slot,
         HeldBy(t, issuer, name, owner, slot).own # NoIndex
  PROVE  \E i : /\ IsIssuance(t, issuer, name, i)
                /\ IsHeld(t, i, owner, slot, HeldBy(t, issuer, name, owner, slot))
<1>1. PICK i, from : IsIssuance(t, issuer, name, i) /\ IsHeld(t, i, owner, slot, from)
  <2> SUFFICES ASSUME \A i, from : IsIssuance(t, issuer, name, i) => ~IsHeld(t, i, owner, slot, from)
               PROVE  FALSE
    OBVIOUS
  <2>1. HeldBy(t, issuer, name, owner, slot) = NoHolding
    BY NothingFound
  <2> QED
    BY <2>1 DEF NoHolding
<1> QED
  BY <1>1, HeldFound

LEMMA RightsHeldBySource ==
  ASSUME NEW t, IsTable(t), Roomy(t), Paired(t), NEW issuer \in Ids, NEW name, NEW owner \in Ids, NEW slot,
         RightsHeldBy(t, issuer, name, owner, slot).own # NoIndex
  PROVE  \E i : /\ IsIssuance(t, issuer, name, i)
                /\ IsHeld(t, i, owner, slot, RightsHeldBy(t, issuer, name, owner, slot))
<1>1. PICK i, from : IsIssuance(t, issuer, name, i) /\ IsHeld(t, i, owner, slot, from)
  <2> SUFFICES ASSUME \A i, from : IsIssuance(t, issuer, name, i) => ~IsHeld(t, i, owner, slot, from)
               PROVE  FALSE
    OBVIOUS
  <2>1. RightsHeldBy(t, issuer, name, owner, slot) = NoHolding
    BY NothingFound
  <2> QED
    BY <2>1 DEF NoHolding
<1> QED
  BY <1>1, HeldFound

(***************************************************************************)
(* The steps of the system, as they change the universe.                   *)
(***************************************************************************)

After == [t |-> table', c |-> children']

\* The universe stays sound and keeps its issuances, and no manager of shares that
\* stay outstanding changes.
Kept == \A b, c, j : IsIssuance(table, b, c, j) => IsIssuance(table', b, c, j)
GoesOn ==
  /\ Sound(After, outstanding', contractAssetNames') /\ Kept
  /\ outstanding' = outstanding =>
       \A j, s : table[j].type = "issuance" /\ j \in Index =>
         HandledTotal(table', j, s) = HandledTotal(table, j, s)

LEMMA SoundNow ==
  ASSUME Sound(Now, outstanding, contractAssetNames)
  PROVE  /\ IsUniverse(Now) /\ IsTable(table) /\ table \in [Index -> AnyRecord] /\ Roomy(table)
         /\ Paired(table) /\ Linked(table) /\ IsChildren(table, children)
         /\ Cardinality(UsedIn(table)) <= MaxRecords
<1>1. Now.t = table /\ Now.c = children
  BY DEF Now
<1> QED
  BY <1>1, RoomInSound DEF Sound, IsUniverse, IsTable

LEMMA SoundAfter ==
  ASSUME NEW u, NEW out, NEW assetNames, Sound(u, out, assetNames), Becomes(u)
  PROVE  Sound(After, out, assetNames) /\ table' = u.t
<1>1. After.t = u.t /\ After.c = u.c /\ DOMAIN After = {"t", "c"}
  BY DEF After, Becomes
<1>2. IsUniverse(After)
  BY <1>1 DEF Sound, IsUniverse
<1> QED
  BY <1>1, <1>2 DEF Sound, Becomes

LEMMA BecomesRoom ==
  ASSUME NEW u, Becomes(u)
  PROVE  Cardinality(UsedIn(u.t)) <= MaxRecords
BY DEF Becomes, UsedIn

LEMMA TransferStep ==
  ASSUME AssetsInv, NEW slot \in Slots, NEW issuer \in Ids, NEW name \in Names, NEW owner \in Ids,
         NEW n \in Nat, NEW newOwner \in Ids, TransferShares(slot, issuer, name, owner, n, newOwner)
  PROVE  GoesOn
<1> DEFINE from == HeldBy(table, issuer, name, owner, slot)
           u == Move(Now, from, newOwner, newOwner, slot, slot, n)
<1>0. Now.t = table
  BY DEF Now
<1>1. Sound(Now, outstanding, contractAssetNames)
  BY DEF AssetsInv
<1>2. from.own # NoIndex /\ table[from.pos].shares >= n
  BY DEF TransferShares
<1>3. PICK i : IsIssuance(table, issuer, name, i) /\ IsHeld(table, i, owner, slot, from)
  BY <1>1, <1>2, SoundNow, HeldBySource
<1>4. IsSource(table, from) /\ table[from.own].mgmt = slot /\ table[from.pos].mgmt = slot
  BY <1>3, HeldIsSource
<1>5. Becomes(u) /\ UNCHANGED <<contractAssetNames, outstanding>>
  BY <1>4 DEF TransferShares
<1> HIDE DEF from
<1>6. n <= table[from.pos].shares
  <2>1. table[from.pos].shares \in Nat
    BY <1>1, <1>4, SoundNow, SourceTypes
  <2> QED
    BY <1>2, <2>1
<1>7. Sound(u, outstanding, contractAssetNames) /\ Moved(table, u.t, from, n, newOwner, slot)
  BY <1>0, <1>1, <1>4, <1>5, <1>6, BecomesRoom, MoveStep
<1> HIDE DEF u
<1>8. Sound(After, outstanding, contractAssetNames) /\ table' = u.t
  BY <1>5, <1>7, SoundAfter
<1>9. SameIssuances(table, u.t)
  BY <1>1, <1>4, <1>7, SoundNow, MovedIssuances
<1>10. u.t \in [Index -> AnyRecord]
  BY <1>7 DEF Sound, IsUniverse, IsTable
<1>11. ASSUME NEW j, NEW s PROVE HandledTotal(u.t, j, s) = HandledTotal(table, j, s)
  BY <1>1, <1>4, <1>7, <1>10, SoundNow, MovedHandled
<1>12. Kept
  BY <1>8, <1>9, SameIssuancesFound DEF Kept
<1> QED
  BY <1>5, <1>8, <1>11, <1>12 DEF GoesOn

LEMMA BurnSharesStep ==
  ASSUME AssetsInv, NEW slot \in Slots, NEW issuer \in Ids, NEW name \in Names, NEW owner \in Ids,
         NEW n \in Nat, BurnShares(slot, issuer, name, owner, n)
  PROVE  GoesOn
<1> DEFINE from == HeldBy(table, issuer, name, owner, slot)
           u == Debit(Debit(Now, from.own, n), from.pos, n)
           out2 == [outstanding EXCEPT ![<<issuer, name>>] = @ - n]
<1>0. Now.t = table
  BY DEF Now
<1>1. Sound(Now, outstanding, contractAssetNames)
  BY DEF AssetsInv
<1>2. /\ from.own # NoIndex /\ table[from.pos].shares >= n /\ issuer # Nobody
      /\ Becomes(u) /\ outstanding' = out2 /\ UNCHANGED contractAssetNames
  BY DEF BurnShares
<1>3. PICK i : IsIssuance(table, issuer, name, i) /\ IsHeld(table, i, owner, slot, from)
  BY <1>1, <1>2, SoundNow, HeldBySource
<1>4. IsSource(table, from) /\ table[from.own].ref = i
  BY <1>3, HeldIsSource
<1> HIDE DEF from
<1>6. n <= table[from.pos].shares
  <2>1. table[from.pos].shares \in Nat
    BY <1>1, <1>4, SoundNow, SourceTypes
  <2> QED
    BY <1>2, <2>1
<1>7. Sound(u, out2, contractAssetNames)
  BY <1>0, <1>1, <1>2, <1>3, <1>4, <1>6, BurnStep
<1>8. Burned(table, u.t, from, n)
  BY <1>0, <1>1, <1>4, <1>6, SoundNow, BurnSound
<1>9. n = 0 => \A j, s : HandledTotal(u.t, j, s) = HandledTotal(table, j, s)
  BY <1>1, <1>4, <1>8, SoundNow, BurnedKeeps
<1> HIDE DEF u
<1>10. Sound(After, out2, contractAssetNames) /\ table' = u.t
  BY <1>2, <1>7, SoundAfter
<1>11. Kept
  <2>1. SameIssuances(table, u.t)
    BY <1>8 DEF Burned, SameButShares, SameIssuances
  <2> QED
    BY <1>10, <2>1, SameIssuancesFound DEF Kept
<1>12. out2 = outstanding => n = 0
  <2>1. outstanding \in [Assets -> Nat] /\ <<issuer, name>> \in Assets
    BY <1>1 DEF Sound, Balanced, Assets
  <2>2. out2[<<issuer, name>>] = outstanding[<<issuer, name>>] - n
    BY <2>1
  <2>3. outstanding[<<issuer, name>>] \in Nat
    BY <2>1
  <2> HIDE DEF out2
  <2> QED
    BY <2>2, <2>3
<1> QED
  BY <1>2, <1>9, <1>10, <1>11, <1>12 DEF GoesOn

\* An issuance that is new to issueAssetRaw is not in the table.
LEMMA NotIssued ==
  ASSUME NEW t, IsTable(t), Roomy(t), NEW issuer \in Ids, NEW name, ~AlreadyIssued(t, issuer, name)
  PROVE  \A j : ~IsIssuance(t, issuer, name, j)
<1> DEFINE sought == {i \in Index : /\ t[i].type = "issuance" /\ t[i].name = name
                                    /\ Low(t[i].id) = Low(issuer)}
           p == Probe(t, StartOf(issuer), sought)
<1> SUFFICES ASSUME NEW j, IsIssuance(t, issuer, name, j) PROVE FALSE
  OBVIOUS
<1>1. t[p] = Hole
  BY DEF AlreadyIssued
<1>2. ProbeEnds(t, StartOf(issuer), sought, p)
  BY StartsInTable, ProbeSound
<1> HIDE DEF p
<1>3. j \in sought /\ t[j] # Hole /\ t[j].id = issuer /\ j \in Index
  BY DEF IsIssuance, Hole
<1>4. Reaches(t, StartOf(issuer), j)
  BY <1>3 DEF IsTable, Reachable
<1>5. p \in sought
  BY <1>2, <1>3, <1>4 DEF ProbeEnds
<1> QED
  BY <1>1, <1>5 DEF Hole

LEMMA RoomForRecords ==
  ASSUME NEW n, RoomFor(n)
  PROVE  Cardinality(UsedIn(Now.t)) + n <= MaxRecords
BY DEF RoomFor, UsedIn, Now

LEMMA FoundedKept ==
  ASSUME NEW t, NEW t2, NEW i, NEW o, NEW p, NEW issuer, NEW name, NEW shares, NEW slot,
         Founded(t, t2, i, o, p, issuer, name, shares, slot)
  PROVE  /\ \A b, c, j : IsIssuance(t, b, c, j) => IsIssuance(t2, b, c, j) /\ j # i
         /\ IsIssuance(t2, issuer, name, i)
         /\ IsHeld(t2, i, issuer, slot, [own |-> o, pos |-> p]) /\ t2[p].shares = shares
<1>1. t[i].type = "hole" /\ t[o].type = "hole" /\ t[p].type = "hole"
  BY DEF Founded, Hole
<1>2. IsIssuance(t2, issuer, name, i)
  BY DEF Founded, IsIssuance, Issuance
<1>3. IsHeld(t2, i, issuer, slot, [own |-> o, pos |-> p]) /\ t2[p].shares = shares
  BY DEF Founded, IsHeld, IsHolding, Holding
<1>4. \A b, c, j : IsIssuance(t, b, c, j) => IsIssuance(t2, b, c, j) /\ j # i
  BY <1>1 DEF Founded, IsIssuance
<1> QED
  BY <1>2, <1>3, <1>4

LEMMA IssueAssetStep ==
  ASSUME AssetsInv, NEW slot \in Slots, NEW issuer \in Ids, NEW name \in Names, NEW n \in Nat,
         IssueAsset(slot, issuer, name, n)
  PROVE  GoesOn
<1> DEFINE u == Issued(Now, issuer, name, n, slot)
           out2 == [outstanding EXCEPT ![<<issuer, name>>] = n]
<1>0. Now.t = table
  BY DEF Now
<1>1. Sound(Now, outstanding, contractAssetNames) /\ IsTable(table) /\ Roomy(table) /\ Paired(table)
  BY SoundNow DEF AssetsInv
<1>2. /\ RoomFor(3) /\ issuer # Nobody /\ ~AlreadyIssued(table, issuer, name)
      /\ Becomes(u) /\ outstanding' = out2 /\ UNCHANGED contractAssetNames
  BY DEF IssueAsset
<1>3. \A j : ~IsIssuance(table, issuer, name, j)
  BY <1>1, <1>2, NotIssued
<1>4. /\ Sound(u, out2, contractAssetNames)
      /\ \E i, o, p : Founded(table, u.t, i, o, p, issuer, name, n, slot)
  BY <1>0, <1>1, <1>2, <1>3, RoomForRecords, IssueStep
<1> HIDE DEF u, out2
<1>5. PICK i, o, p : Founded(table, u.t, i, o, p, issuer, name, n, slot)
  BY <1>4
<1>6. Sound(After, out2, contractAssetNames) /\ table' = u.t
  BY <1>2, <1>4, SoundAfter
<1>7. \A b, c, j : IsIssuance(table, b, c, j) => IsIssuance(u.t, b, c, j) /\ j # i
  BY <1>5, FoundedKept
<1>8. IsTable(u.t)
  BY <1>4 DEF Sound, IsUniverse
<1>9. \A j, s : j # i => HandledTotal(u.t, j, s) = HandledTotal(table, j, s)
  BY <1>1, <1>5, <1>8, FoundedKeeps
<1>10. \A j \in Index : table[j].type = "issuance" => j # i
  BY <1>7 DEF IsIssuance
<1> QED
  BY <1>2, <1>6, <1>7, <1>9, <1>10 DEF GoesOn, Kept

\* A contract gets the name of an asset, of one that is not issued too.
LEMMA NameGiven ==
  ASSUME NEW u, NEW out, NEW assetNames, Sound(u, out, assetNames), NEW slot, NEW name \in Names
  PROVE  Sound(u, out, [assetNames EXCEPT ![slot] = name])
<1>1. Named(assetNames)
  BY DEF Sound
<1>2. Named([assetNames EXCEPT ![slot] = name])
  BY <1>1 DEF Named
<1> QED
  BY <1>2 DEF Sound

LEMMA NameStep ==
  ASSUME AssetsInv, NEW slot \in Slots, NEW name \in Names, SetContractAssetName(slot, name)
  PROVE  GoesOn
<1>1. Sound(Now, outstanding, contractAssetNames)
  BY DEF AssetsInv
<1>2. /\ contractAssetNames' = [contractAssetNames EXCEPT ![slot] = name]
      /\ table' = table /\ children' = children /\ outstanding' = outstanding
  BY DEF SetContractAssetName, universe
<1>3. Sound(Now, outstanding, [contractAssetNames EXCEPT ![slot] = name])
  BY <1>1, NameGiven
<1>4. After = Now
  BY <1>2 DEF After, Now
<1> QED
  BY <1>2, <1>3, <1>4 DEF GoesOn, Kept

LEMMA MintStep ==
  ASSUME AssetsInv, NEW slot \in Slots, NEW name \in Names, NEW holder \in Ids,
         NEW shares \in Mints, MintDeployShares(slot, name, holder, shares)
  PROVE  GoesOn
<1> DEFINE names2 == [contractAssetNames EXCEPT ![slot] = name]
           out2 == [outstanding EXCEPT ![<<Nobody, name>>] = shares]
<1>0. Now.t = table /\ Nobody \in Ids /\ QX \in Slots /\ shares \in Nat /\ shares # 0
  BY AssetConstants DEF Now, Ids
<1>1. Sound(Now, outstanding, contractAssetNames) /\ IsTable(table) /\ Roomy(table) /\ Paired(table)
  BY SoundNow DEF AssetsInv
<1>2. contractAssetNames' = names2
  BY DEF MintDeployShares
<1>3. CASE IssuanceIndex(table, Nobody, name) # NoIndex
  <2>1. table' = table /\ children' = children /\ outstanding' = outstanding
    BY <1>3 DEF MintDeployShares, universe
  <2>2. Sound(Now, outstanding, names2)
    BY <1>1, NameGiven
  <2>3. After = Now
    BY <2>1 DEF After, Now
  <2> QED
    BY <1>2, <2>1, <2>2, <2>3 DEF GoesOn, Kept
<1>4. CASE IssuanceIndex(table, Nobody, name) = NoIndex
  <2> DEFINE u == Issued(Now, Nobody, name, shares, QX)
             from == HeldBy(u.t, Nobody, name, Nobody, QX)
             u2 == Move(u, from, holder, holder, QX, QX, shares)
  <2>1. RoomFor(5) /\ Becomes(u2) /\ outstanding' = out2
    BY <1>4 DEF MintDeployShares
  <2>2. \A j : ~IsIssuance(table, Nobody, name, j)
    <3> SUFFICES ASSUME NEW j, IsIssuance(table, Nobody, name, j) PROVE FALSE
      OBVIOUS
    <3>1. IssuanceIndex(table, Nobody, name) = j /\ j \in Index
      BY <1>0, <1>1, IssuanceFound DEF IsIssuance
    <3> QED
      BY <1>4, <3>1, RootIsNoIndex
  <2>3. Cardinality(UsedIn(Now.t)) + 3 <= MaxRecords /\ Cardinality(UsedIn(Now.t)) + 3 < Capacity
    <3>1. Cardinality(UsedIn(Now.t)) + 5 <= MaxRecords /\ Cardinality(UsedIn(Now.t)) \in Nat
      BY <2>1, RoomForRecords, UsedFinite
    <3> QED
      BY <3>1, AssetConstants
  <2>4. /\ Sound(u, out2, contractAssetNames)
        /\ \E i, o, p : Founded(table, u.t, i, o, p, Nobody, name, shares, QX)
    BY <1>0, <1>1, <2>2, <2>3, IssueStep
  <2> HIDE DEF u
  <2>5. PICK i, o, p : Founded(table, u.t, i, o, p, Nobody, name, shares, QX)
    BY <2>4
  <2>6. IsUniverse(u) /\ IsTable(u.t) /\ Paired(u.t) /\ Roomy(u.t) /\ u.t \in [Index -> AnyRecord]
    BY <2>4, RoomInSound DEF Sound, IsUniverse, IsTable
  <2>7. /\ IsIssuance(u.t, Nobody, name, i)
        /\ IsHeld(u.t, i, Nobody, QX, [own |-> o, pos |-> p]) /\ u.t[p].shares = shares
        /\ \A b, c, j : IsIssuance(table, b, c, j) => IsIssuance(u.t, b, c, j)
    BY <2>5, FoundedKept
  <2>8. from = [own |-> o, pos |-> p]
    BY <1>0, <2>6, <2>7, HeldFound
  <2> HIDE DEF from
  <2>9. IsSource(u.t, from) /\ u.t[from.pos].shares = shares
    BY <2>7, <2>8, HeldIsSource
  <2>10. shares <= u.t[from.pos].shares
    BY <1>0, <2>9
  <2>11. Sound(u2, out2, contractAssetNames) /\ Moved(u.t, u2.t, from, shares, holder, QX)
    BY <1>0, <2>1, <2>4, <2>9, <2>10, BecomesRoom, MoveStep
  <2> HIDE DEF u2
  <2>12. SameIssuances(u.t, u2.t)
    BY <2>6, <2>9, <2>11, MovedIssuances
  <2>13. Sound(u2, out2, names2)
    BY <2>11, NameGiven
  <2>14. Sound(After, out2, names2) /\ table' = u2.t
    BY <2>1, <2>13, SoundAfter
  <2>15. Kept
    BY <2>7, <2>12, <2>14, SameIssuancesFound DEF Kept
  <2>16. out2 # outstanding
    <3>1. outstanding \in [Assets -> Nat] /\ <<Nobody, name>> \in Assets
      BY <1>0, <1>1 DEF Sound, Balanced, Assets
    <3>2. outstanding[<<Nobody, name>>] = 0
      <4>1. Balanced(table, outstanding)
        BY <1>0, <1>1 DEF Sound
      <4> QED
        BY <2>2, <3>1, <4>1 DEF Balanced
    <3> QED
      BY <1>0, <3>1, <3>2
  <2> QED
    BY <1>2, <2>1, <2>14, <2>15, <2>16 DEF GoesOn
<1> QED
  BY <1>3, <1>4

(***************************************************************************)
(* The stack of calls.                                                     *)
(***************************************************************************)

LEMMA TopFrame ==
  ASSUME Nested(frames), frames # << >>
  PROVE  /\ Len(frames) \in Nat /\ Len(frames) \in DOMAIN frames /\ DOMAIN frames = 1 .. Len(frames)
         /\ Len(frames) = 1 \/ Len(frames) = 2
         /\ IsPayout(Top) => Top \in PayoutFrame
         /\ ~IsPayout(Top) => Top \in RightsFrame /\ Top.other # Top.caller
<1>1. frames \in Seq(RightsFrame \cup PayoutFrame) /\ Len(frames) <= 2
  BY DEF Nested
<1>2. Len(frames) \in Nat /\ DOMAIN frames = 1 .. Len(frames) /\ Len(frames) # 0
  BY <1>1, LenProperties, EmptySeq
<1>3. Len(frames) \in DOMAIN frames /\ (Len(frames) = 1 \/ Len(frames) = 2)
  BY <1>1, <1>2
<1>4. Top \in RightsFrame \cup PayoutFrame
  BY <1>1, <1>2, <1>3, ElementOfSeq DEF Top
<1>5. Top \in RightsFrame => ~IsPayout(Top)
  BY DEF IsPayout, RightsFrame
<1>6. Top \in PayoutFrame => IsPayout(Top)
  BY DEF IsPayout, PayoutFrame
<1>7. ~IsPayout(Top) => Top.other # Top.caller
  BY <1>3 DEF Nested, Top
<1> QED
  BY <1>2, <1>3, <1>4, <1>5, <1>6, <1>7

\* What moving rights changes: the two managers' shares of the asset.
RightsGoOn ==
  /\ Sound(After, outstanding, contractAssetNames) /\ Kept
  /\ UNCHANGED <<outstanding, contractAssetNames, energy, vanished>>
  /\ \A j, s : j \in Index /\ table[j].type = "issuance" =>
       \/ HandledTotal(table', j, s) = HandledTotal(table, j, s)
       \/ /\ IsIssuance(table, Top.issuer, Top.name, j)
          /\ \/ s = From(Top) /\ HandledTotal(table', j, s) = HandledTotal(table, j, s) - Top.shares
             \/ s = To(Top) /\ HandledTotal(table', j, s) = HandledTotal(table, j, s) + Top.shares

LEMMA MoveRightsStep ==
  ASSUME AssetsInv, MoveRights
  PROVE  RightsGoOn
<1> DEFINE f == Top
           from == RightsHeldBy(table, f.issuer, f.name, f.owner, From(f))
           u == Move(Now, from, table[from.own].id, table[from.pos].id, To(f), To(f), f.shares)
           held == from.own # NoIndex /\ table[from.own].shares >= f.shares
                                      /\ table[from.pos].shares >= f.shares
<1>0. Now.t = table
  BY DEF Now
<1>1. Sound(Now, outstanding, contractAssetNames) /\ IsTable(table) /\ Roomy(table) /\ Paired(table)
      /\ Linked(table) /\ table \in [Index -> AnyRecord]
  BY SoundNow DEF AssetsInv
<1>2. /\ frames # << >> /\ ~IsPayout(f)
      /\ UNCHANGED <<outstanding, contractAssetNames, energy, vanished>>
      /\ held => Becomes(u)
      /\ ~held => UNCHANGED <<table, children>>
  BY DEF MoveRights, money
<1>3. f \in RightsFrame
  BY <1>2, TopFrame DEF AssetsInv
<1>4. /\ f.issuer \in Ids /\ f.owner \in Ids /\ f.shares \in Nat
      /\ From(f) \in Slots /\ To(f) \in Slots
  BY <1>3 DEF RightsFrame, From, To
<1>5. CASE ~held
  <2>1. table' = table /\ After = Now
    BY <1>2, <1>5 DEF After, Now
  <2> QED
    BY <1>1, <1>2, <2>1 DEF RightsGoOn, Kept
<1>6. CASE held
  <2> HIDE DEF f
  <2>1. PICK i : IsIssuance(table, f.issuer, f.name, i) /\ IsHeld(table, i, f.owner, From(f), from)
    BY <1>1, <1>4, <1>6, RightsHeldBySource
  <2>2. /\ IsSource(table, from) /\ table[from.own].mgmt = From(f) /\ table[from.own].ref = i
        /\ table[from.own].id = f.owner /\ table[from.pos].id = f.owner
    BY <2>1, HeldIsSource
  <2>3. f.shares <= table[from.pos].shares
    <3>1. table[from.pos].shares \in Nat
      BY <1>1, <2>2, SourceTypes
    <3> QED
      BY <1>4, <1>6, <3>1
  <2> HIDE DEF from
  <2> DEFINE owner == f.owner
             mgmt == To(f)
             n == f.shares
  <2>4. owner \in Ids /\ mgmt \in Slots /\ n \in Nat /\ n <= table[from.pos].shares
    BY <1>4, <2>3
  <2>5. u = Move(Now, from, owner, owner, mgmt, mgmt, n)
    BY <2>2
  <2> HIDE DEF owner, mgmt, n
  <2>6. Becomes(u) /\ Cardinality(UsedIn(u.t)) <= MaxRecords
    BY <1>2, <1>6, BecomesRoom
  <2>7. Sound(u, outstanding, contractAssetNames) /\ Moved(table, u.t, from, n, owner, mgmt)
    BY <1>0, <1>1, <2>2, <2>4, <2>5, <2>6, MoveStep
  <2> HIDE DEF u
  <2>8. Sound(After, outstanding, contractAssetNames) /\ table' = u.t
    BY <2>6, <2>7, SoundAfter
  <2>9. Kept
    <3>1. SameIssuances(table, u.t)
      BY <1>1, <2>2, <2>7, MovedIssuances
    <3> QED
      BY <2>8, <3>1, SameIssuancesFound DEF Kept
  <2>10. u.t \in [Index -> AnyRecord]
    BY <2>7 DEF Sound, IsUniverse, IsTable
  <2>11. ASSUME NEW j, NEW s
         PROVE  \/ HandledTotal(u.t, j, s) = HandledTotal(table, j, s)
                \/ /\ j = i
                   /\ \/ s = From(f) /\ HandledTotal(u.t, j, s) = HandledTotal(table, j, s) - n
                      \/ s = mgmt /\ HandledTotal(u.t, j, s) = HandledTotal(table, j, s) + n
    BY <1>1, <2>2, <2>4, <2>7, <2>10, MovedHandled
  <2> QED
    BY <1>2, <2>1, <2>8, <2>9, <2>11 DEF RightsGoOn, f, n, mgmt
<1> QED
  BY <1>5, <1>6

(***************************************************************************)
(* Dividends that are not paid yet.                                        *)
(***************************************************************************)

Credits == [id : Ids, amount : Nat]
Frames == RightsFrame \cup PayoutFrame

AmountTotal(s) == Total([k \in DOMAIN s |-> s[k].amount], DOMAIN s)

LEMMA AmountsNat ==
  ASSUME NEW s \in Seq(Credits)
  PROVE  AmountTotal(s) \in Nat
<1> DEFINE D == DOMAIN s
           f == [k \in D |-> s[k].amount]
<1>1. Len(s) \in Nat /\ D = 1 .. Len(s) /\ IsFiniteSet(1 .. Len(s))
  BY LenProperties, FS_Interval
<1>2. \A k \in D : s[k] \in Credits
  BY <1>1, ElementOfSeq
<1>3. \A k \in D : f[k] \in Nat
  BY <1>2 DEF Credits
<1> HIDE DEF f, D
<1>4. Total(f, D) \in Nat
  BY <1>1, <1>3, TotalNat
<1> QED
  BY <1>4 DEF AmountTotal, f, D

\* The first of them is paid.
LEMMA AmountsTail ==
  ASSUME NEW s \in Seq(Credits), s # << >>
  PROVE  /\ Head(s) \in Credits /\ Tail(s) \in Seq(Credits)
         /\ AmountTotal(s) = Head(s).amount + AmountTotal(Tail(s))
<1> DEFINE n == Len(s)
           r == Tail(s)
           D == 1 .. n
           R == 2 .. n
           f == [k \in D |-> s[k].amount]
           g == [k \in 1 .. n - 1 |-> r[k].amount]
           h == [k \in R |-> k - 1]
<1>1. n \in Nat /\ n >= 1 /\ DOMAIN s = D /\ Head(s) = s[1]
  BY LenProperties, EmptySeq
<1>2. /\ Head(s) \in Credits /\ r \in Seq(Credits) /\ Len(r) = n - 1
      /\ \A i \in 1 .. Len(r) : r[i] = s[i + 1]
  BY HeadTailProperties
<1> HIDE DEF r, n
<1>3. DOMAIN r = 1 .. n - 1 /\ \A i \in 1 .. n - 1 : r[i] = s[i + 1]
  BY <1>2, LenProperties
<1>4. \A k \in D : s[k] \in Credits
  BY <1>1, ElementOfSeq DEF n
<1>5. \A k \in D : f[k] \in Int
  BY <1>4 DEF Credits
<1>6. IsFiniteSet(D) /\ IsFiniteSet(R) /\ 1 \in D /\ D \ {1} = R
  <2>1. D \ {1} = R /\ 1 \in D
    BY <1>1
  <2>2. IsFiniteSet(1 .. n)
    BY <1>1, FS_Interval
  <2> QED
    BY <2>1, <2>2, FS_Subset
<1>7. Total(f, D) = f[1] + Total(f, R)
  <2> HIDE DEF f, D, R
  <2> QED
    BY <1>5, <1>6, TotalSplit
<1> DEFINE T == 1 .. n - 1
<1>8. \A y \in T : \E x \in R : h[x] = y
  <2>1. ASSUME NEW y \in T PROVE y + 1 \in R /\ h[y + 1] = y
    BY <1>1
  <2> HIDE DEF h, R
  <2> QED
    BY <2>1
<1>9. \A x \in R : f[x] \in Int /\ h[x] \in T /\ g[h[x]] = f[x]
  <2> SUFFICES ASSUME NEW x \in R PROVE f[x] \in Int /\ h[x] \in T /\ g[h[x]] = f[x]
    OBVIOUS
  <2>1. h[x] = x - 1 /\ x - 1 \in T /\ (x - 1) + 1 = x /\ x \in D
    BY <1>1
  <2>2. r[x - 1] = s[x]
    BY <1>3, <2>1
  <2> QED
    BY <1>5, <2>1, <2>2
<1>10. \A x \in R, y \in R : h[x] = h[y] => x = y
  BY <1>1
<1>11. Total(g, T) = Total(f, R)
  <2> HIDE DEF f, g, h, R, T
  <2> QED
    BY <1>6, <1>8, <1>9, <1>10, TotalImage
<1>12. f[1] = Head(s).amount
  BY <1>1, <1>6
<1>13. AmountTotal(s) = Total(f, D)
  BY <1>1 DEF AmountTotal
<1>14. AmountTotal(r) = Total(g, 1 .. n - 1)
  BY <1>3 DEF AmountTotal
<1> HIDE DEF f, g, h, D, R
<1>15. AmountTotal(s) = Head(s).amount + AmountTotal(r)
  BY <1>7, <1>11, <1>12, <1>13, <1>14
<1> QED
  BY <1>2, <1>15 DEF r

LEMMA UnpaidOf ==
  /\ \A f \in RightsFrame : Unpaid(f) = 0
  /\ \A f \in PayoutFrame : Unpaid(f) = AmountTotal(f.unpaid) /\ f.unpaid \in Seq(Credits)
  /\ \A f \in Frames : Unpaid(f) \in Nat
<1>1. \A f \in RightsFrame : Unpaid(f) = 0
  BY DEF RightsFrame, Unpaid, IsPayout
<1>2. \A f \in PayoutFrame : Unpaid(f) = AmountTotal(f.unpaid) /\ f.unpaid \in Seq(Credits)
  BY DEF PayoutFrame, Unpaid, IsPayout, AmountTotal, Credits
<1> QED
  BY <1>1, <1>2, AmountsNat DEF Frames

LEMMA FramesTotalled ==
  ASSUME NEW fs \in Seq(Frames)
  PROVE  /\ Len(fs) \in Nat /\ DOMAIN fs = 1 .. Len(fs) /\ IsFiniteSet(1 .. Len(fs))
         /\ \A k \in 1 .. Len(fs) : Unpaid(fs[k]) \in Nat
         /\ UnpaidTotal(fs) = Total([k \in 1 .. Len(fs) |-> Unpaid(fs[k])], 1 .. Len(fs))
         /\ UnpaidTotal(fs) \in Nat
<1>1. Len(fs) \in Nat /\ DOMAIN fs = 1 .. Len(fs) /\ IsFiniteSet(1 .. Len(fs))
  BY LenProperties, FS_Interval
<1>2. \A k \in 1 .. Len(fs) : Unpaid(fs[k]) \in Nat
  BY ElementOfSeq, UnpaidOf
<1>3. UnpaidTotal(fs) = Total([k \in 1 .. Len(fs) |-> Unpaid(fs[k])], 1 .. Len(fs))
  BY <1>1 DEF UnpaidTotal
<1> DEFINE f == [k \in 1 .. Len(fs) |-> Unpaid(fs[k])]
<1>4. \A k \in 1 .. Len(fs) : f[k] \in Nat
  BY <1>2
<1> HIDE DEF f
<1>5. Total(f, 1 .. Len(fs)) \in Nat
  BY <1>1, <1>4, TotalNat
<1> QED
  BY <1>1, <1>2, <1>3, <1>5 DEF f

LEMMA FramesReplaced ==
  ASSUME NEW fs \in Seq(Frames), fs # << >>, NEW f \in Frames
  PROVE  /\ [fs EXCEPT ![Len(fs)] = f] \in Seq(Frames)
         /\ Len([fs EXCEPT ![Len(fs)] = f]) = Len(fs)
         /\ UnpaidTotal([fs EXCEPT ![Len(fs)] = f])
              = UnpaidTotal(fs) - Unpaid(fs[Len(fs)]) + Unpaid(f)
<1> DEFINE n == Len(fs)
           gs == [fs EXCEPT ![n] = f]
           v == [k \in 1 .. n |-> Unpaid(fs[k])]
           w == [k \in 1 .. n |-> Unpaid(gs[k])]
<1>0. n \in Nat /\ n \in 1 .. n /\ DOMAIN fs = 1 .. n
  BY LenProperties, EmptySeq
<1>1. gs \in Seq(Frames) /\ Len(gs) = n /\ \A j \in 1 .. n : gs[j] = IF j = n THEN f ELSE fs[j]
  BY <1>0, ExceptSeq
<1> HIDE DEF gs
<1>2. UnpaidTotal(fs) = Total(v, 1 .. n) /\ UnpaidTotal(gs) = Total(w, 1 .. n) /\ IsFiniteSet(1 .. n)
  BY <1>1, FramesTotalled
<1>3. \A k \in 1 .. n : v[k] \in Int /\ w[k] \in Int
  <2>1. \A k \in 1 .. n : Unpaid(fs[k]) \in Nat /\ Unpaid(gs[k]) \in Nat
    BY <1>1, FramesTotalled
  <2> QED
    BY <2>1
<1>4. \A k \in 1 .. n : k # n => w[k] = v[k]
  BY <1>1
<1>5. w[n] = Unpaid(f) /\ v[n] = Unpaid(fs[n])
  BY <1>0, <1>1
<1> HIDE DEF v, w, n
<1>6. Total(w, 1 .. n) = Total(v, 1 .. n) - v[n] + w[n]
  BY <1>0, <1>2, <1>3, <1>4, TotalUpdate, SMTT(30)
<1> QED
  BY <1>1, <1>2, <1>5, <1>6 DEF gs, n

LEMMA FramesAppended ==
  ASSUME NEW fs \in Seq(Frames), NEW f \in Frames
  PROVE  /\ Append(fs, f) \in Seq(Frames) /\ Len(Append(fs, f)) = Len(fs) + 1
         /\ \A k \in 1 .. Len(fs) : Append(fs, f)[k] = fs[k]
         /\ Append(fs, f)[Len(fs) + 1] = f
         /\ UnpaidTotal(Append(fs, f)) = UnpaidTotal(fs) + Unpaid(f)
<1> DEFINE n == Len(fs)
           gs == Append(fs, f)
           v == [k \in 1 .. n |-> Unpaid(fs[k])]
           w == [k \in 1 .. n + 1 |-> Unpaid(gs[k])]
<1>0. n \in Nat /\ DOMAIN fs = 1 .. n
  BY LenProperties
<1>1. /\ gs \in Seq(Frames) /\ Len(gs) = n + 1 /\ gs[n + 1] = f
      /\ \A k \in 1 .. n : gs[k] = fs[k]
  BY <1>0
<1> HIDE DEF gs
<1>2. UnpaidTotal(fs) = Total(v, 1 .. n) /\ IsFiniteSet(1 .. n)
  BY FramesTotalled
<1>3. UnpaidTotal(gs) = Total(w, 1 .. n + 1)
  <2>1. UnpaidTotal(gs) = Total([k \in 1 .. Len(gs) |-> Unpaid(gs[k])], 1 .. Len(gs))
    BY <1>1, FramesTotalled
  <2> QED
    BY <1>1, <2>1
<1>4. \A k \in 1 .. n + 1 : w[k] \in Int
  <2>1. \A k \in 1 .. Len(gs) : Unpaid(gs[k]) \in Nat
    BY <1>1, FramesTotalled
  <2> QED
    BY <1>1, <2>1
<1>5. w[n + 1] = Unpaid(f) /\ \A k \in 1 .. n : w[k] = v[k]
  BY <1>0, <1>1
<1>6. 1 .. n + 1 = (1 .. n) \cup {n + 1} /\ n + 1 \notin 1 .. n
  BY <1>0
<1> HIDE DEF v, w
<1> DEFINE m == n + 1
<1>7. /\ m \notin 1 .. n /\ \A k \in (1 .. n) \cup {m} : w[k] \in Int
      /\ UnpaidTotal(gs) = Total(w, (1 .. n) \cup {m}) /\ w[m] = Unpaid(f)
  BY <1>3, <1>4, <1>5, <1>6
<1> HIDE DEF m, n
<1>8. Total(w, (1 .. n) \cup {m}) = Total(w, 1 .. n) + w[m]
  BY <1>2, <1>7, TotalAdd
<1>9. Total(w, 1 .. n) = Total(v, 1 .. n)
  <2> DEFINE S == 1 .. n
  <2>1. IsFiniteSet(S) /\ \A k \in S : w[k] = v[k]
    BY <1>2, <1>5
  <2> HIDE DEF S
  <2>2. Total(w, S) = Total(v, S)
    BY ONLY <2>1, TotalAgrees
  <2> QED
    BY <2>2 DEF S
<1> QED
  BY <1>1, <1>2, <1>7, <1>8, <1>9 DEF gs, n

LEMMA FramesReturned ==
  ASSUME NEW fs \in Seq(Frames), fs # << >>
  PROVE  /\ SubSeq(fs, 1, Len(fs) - 1) \in Seq(Frames)
         /\ Len(SubSeq(fs, 1, Len(fs) - 1)) = Len(fs) - 1
         /\ \A k \in 1 .. Len(fs) - 1 : SubSeq(fs, 1, Len(fs) - 1)[k] = fs[k]
         /\ UnpaidTotal(SubSeq(fs, 1, Len(fs) - 1)) = UnpaidTotal(fs) - Unpaid(fs[Len(fs)])
<1> DEFINE n == Len(fs)
           m == n - 1
           gs == SubSeq(fs, 1, m)
           f == fs[n]
<1>0. n \in Nat /\ n \in 1 .. n /\ m \in Nat /\ n = m + 1
  BY LenProperties, EmptySeq
<1>1. \A k \in 1 .. n : fs[k] \in Frames
  BY ElementOfSeq
<1> HIDE DEF n, m, gs
<1>2. \A k \in 1 .. m : fs[k] \in Frames
  BY <1>0, <1>1
<1>3. /\ gs \in Seq(Frames) /\ Len(gs) = m
      /\ \A k \in 1 .. m : gs[k] = fs[k]
  <2>1. /\ gs \in Seq(Frames) /\ Len(gs) = IF 1 <= m THEN m - 1 + 1 ELSE 0
        /\ \A k \in 1 .. m - 1 + 1 : gs[k] = fs[1 + k - 1]
    BY <1>0, <1>2, SubSeqProperties DEF gs
  <2> QED
    BY <1>0, <2>1
<1>4. Append(gs, f) = fs
  <2>1. f \in Frames
    BY <1>0, <1>1
  <2>2. /\ Append(gs, f) \in Seq(Frames) /\ Len(Append(gs, f)) = n
        /\ \A k \in 1 .. m : Append(gs, f)[k] = fs[k]
        /\ Append(gs, f)[n] = f
    BY <1>0, <1>3, <2>1, FramesAppended
  <2>3. \A k \in 1 .. n : Append(gs, f)[k] = fs[k]
    BY <1>0, <2>2
  <2> QED
    BY <2>2, <2>3, SeqEqual DEF n
<1>5. f \in Frames
  BY <1>0, <1>1
<1> HIDE DEF f
<1>6. UnpaidTotal(fs) = UnpaidTotal(gs) + Unpaid(f)
  <2>1. UnpaidTotal(Append(gs, f)) = UnpaidTotal(gs) + Unpaid(f)
    BY <1>3, <1>5, FramesAppended
  <2> QED
    BY <1>4, <2>1
<1>7. UnpaidTotal(gs) \in Nat /\ Unpaid(f) \in Nat
  BY <1>3, <1>5, FramesTotalled, UnpaidOf
<1>8. UnpaidTotal(gs) = UnpaidTotal(fs) - Unpaid(f)
  BY <1>6, <1>7
<1> QED
  BY <1>3, <1>8 DEF gs, f, m, n

(***************************************************************************)
(* The steps of the system, as they change the stack and the money.        *)
(***************************************************************************)

MoneyGoesOn == Nested(frames') /\ Accounted(energy', frames', vanished')

LEMMA IdsFinite == IsFiniteSet(Ids)
<1>1. IsFiniteSet(Users) /\ IsFiniteSet(Slots) /\ IsFiniteSet({Nobody})
  BY AssetConstants, FS_Singleton
<1> QED
  BY <1>1, FS_Union DEF Ids

\* Money comes and goes.
LEMMA Paid ==
  ASSUME NEW e \in [Ids -> Nat], NEW id \in Ids, NEW n \in Nat
  PROVE  /\ [e EXCEPT ![id] = e[id] + n] \in [Ids -> Nat]
         /\ Total([e EXCEPT ![id] = e[id] + n], Ids) = Total(e, Ids) + n
<1> DEFINE g == [e EXCEPT ![id] = e[id] + n]
<1>1. g \in [Ids -> Nat] /\ g[id] = e[id] + n /\ \A x \in Ids : x # id => g[x] = e[x]
  OBVIOUS
<1> HIDE DEF g
<1>2. \A x \in Ids : e[x] \in Int /\ g[x] \in Int
  BY <1>1
<1>3. Total(g, Ids) = Total(e, Ids) - e[id] + g[id] /\ Total(e, Ids) \in Int
  BY <1>1, <1>2, IdsFinite, TotalUpdate, TotalInt
<1>4. e[id] \in Nat
  OBVIOUS
<1>5. Total(g, Ids) = Total(e, Ids) + n
  BY <1>1, <1>3, <1>4
<1> QED
  BY <1>1, <1>5 DEF g

LEMMA Charged ==
  ASSUME NEW e \in [Ids -> Nat], NEW id \in Ids, NEW n \in Nat, n <= e[id]
  PROVE  /\ [e EXCEPT ![id] = e[id] - n] \in [Ids -> Nat]
         /\ Total([e EXCEPT ![id] = e[id] - n], Ids) = Total(e, Ids) - n
<1> DEFINE g == [e EXCEPT ![id] = e[id] - n]
<1>0. e[id] - n \in Nat
  OBVIOUS
<1>1. g \in [Ids -> Nat] /\ g[id] = e[id] - n /\ \A x \in Ids : x # id => g[x] = e[x]
  BY <1>0
<1> HIDE DEF g
<1>2. \A x \in Ids : e[x] \in Int /\ g[x] \in Int
  BY <1>1
<1>3. Total(g, Ids) = Total(e, Ids) - e[id] + g[id] /\ Total(e, Ids) \in Int
  BY <1>1, <1>2, IdsFinite, TotalUpdate, TotalInt
<1>4. e[id] \in Nat
  OBVIOUS
<1>5. Total(g, Ids) = Total(e, Ids) - n
  BY <1>1, <1>3, <1>4
<1> QED
  BY <1>1, <1>5 DEF g

LEMMA FeePaid ==
  ASSUME NEW e \in [Ids -> Nat], NEW g \in [Ids -> Nat], NEW a \in Ids, NEW b \in Ids, NEW n \in Nat,
         a # b, n <= e[a], g[a] = e[a] - n, g[b] = e[b] + n,
         \A x \in Ids : x # a /\ x # b => g[x] = e[x]
  PROVE  Total(g, Ids) = Total(e, Ids)
<1>1. \A x \in Ids : e[x] \in Int /\ g[x] \in Int
  OBVIOUS
<1> QED
  BY <1>1, IdsFinite, TotalMoved

LEMMA NestedFrames == \A fs : Nested(fs) => fs \in Seq(Frames) /\ Len(fs) \in Nat /\ DOMAIN fs = 1 .. Len(fs)
BY LenProperties DEF Nested, Frames

LEMMA NestedReturn ==
  ASSUME NEW fs, Nested(fs), fs # << >>
  PROVE  Nested(SubSeq(fs, 1, Len(fs) - 1))
<1> DEFINE gs == SubSeq(fs, 1, Len(fs) - 1)
           n == Len(fs)
<1>1. fs \in Seq(Frames) /\ n \in Nat /\ DOMAIN fs = 1 .. n /\ n <= 2
  BY NestedFrames DEF Nested
<1>2. /\ gs \in Seq(Frames) /\ Len(gs) = n - 1
      /\ \A k \in 1 .. n - 1 : gs[k] = fs[k]
  BY <1>1, FramesReturned
<1> HIDE DEF gs
<1>3. DOMAIN gs = 1 .. n - 1
  BY <1>2, LenProperties
<1> HIDE DEF n
<1>4. \A k \in DOMAIN gs : ~IsPayout(gs[k]) => gs[k].other # gs[k].caller
  <2> SUFFICES ASSUME NEW k \in DOMAIN gs, ~IsPayout(gs[k]) PROVE gs[k].other # gs[k].caller
    OBVIOUS
  <2>1. k \in DOMAIN fs /\ gs[k] = fs[k]
    BY <1>1, <1>2, <1>3
  <2> QED
    BY <2>1 DEF Nested
<1> QED
  BY <1>1, <1>2, <1>4 DEF Nested, Frames, gs, n

LEMMA NestedReplace ==
  ASSUME NEW fs, Nested(fs), fs # << >>, NEW f \in Frames, ~IsPayout(f) => f.other # f.caller,
         Len(fs) = 1 \/ (IsPayout(fs[Len(fs)]) /\ IsPayout(f))
  PROVE  Nested([fs EXCEPT ![Len(fs)] = f])
<1> DEFINE gs == [fs EXCEPT ![Len(fs)] = f]
           n == Len(fs)
<1>1. fs \in Seq(Frames) /\ n \in Nat /\ DOMAIN fs = 1 .. n /\ n <= 2
  BY NestedFrames DEF Nested
<1>2. n # 0
  BY <1>1, EmptySeq
<1>3. gs \in Seq(Frames) /\ Len(gs) = n /\ \A j \in 1 .. n : gs[j] = IF j = n THEN f ELSE fs[j]
  BY <1>1, <1>2, ExceptSeq
<1> HIDE DEF gs
<1>4. DOMAIN gs = 1 .. n
  BY <1>3, LenProperties
<1> HIDE DEF n
<1>5. \A k \in DOMAIN gs : ~IsPayout(gs[k]) => gs[k].other # gs[k].caller
  <2> SUFFICES ASSUME NEW k \in DOMAIN gs, ~IsPayout(gs[k]) PROVE gs[k].other # gs[k].caller
    OBVIOUS
  <2>1. k \in DOMAIN fs /\ gs[k] = IF k = n THEN f ELSE fs[k]
    BY <1>1, <1>3, <1>4
  <2> QED
    BY <2>1 DEF Nested
<1>6. ASSUME n = 2 PROVE gs[1].stage \in {"pre", "post"} /\ ~IsPayout(gs[1]) /\ IsPayout(gs[2])
  <2>1. gs[1] = fs[1] /\ gs[2] = f
    BY <1>3, <1>6
  <2>2. IsPayout(fs[2]) /\ IsPayout(f)
    BY <1>6 DEF n
  <2>3. fs[1].stage \in {"pre", "post"} /\ ~IsPayout(fs[1])
    BY <1>6, <2>2 DEF Nested, n
  <2> QED
    BY <2>1, <2>2, <2>3
<1> QED
  BY <1>1, <1>3, <1>5, <1>6 DEF Nested, Frames, gs, n

LEMMA NestedAppend ==
  ASSUME NEW fs, Nested(fs), Len(fs) <= 1, NEW f \in Frames, ~IsPayout(f) => f.other # f.caller,
         fs # << >> => \/ fs[1].stage \in {"pre", "post"} /\ ~IsPayout(fs[1]) /\ IsPayout(f)
                       \/ fs[1].stage \in {"fee", "dividend"} /\ ~IsPayout(f) /\ f.stage = "pre"
  PROVE  Nested(Append(fs, f))
<1> DEFINE gs == Append(fs, f)
           n == Len(fs)
<1>1. fs \in Seq(Frames) /\ n \in Nat /\ DOMAIN fs = 1 .. n /\ n <= 1
  BY NestedFrames
<1>2. gs \in Seq(Frames) /\ Len(gs) = n + 1 /\ gs[n + 1] = f /\ \A k \in 1 .. n : gs[k] = fs[k]
  BY <1>1, FramesAppended
<1> HIDE DEF gs
<1>3. DOMAIN gs = 1 .. n + 1
  BY <1>2, LenProperties
<1>4. \A k \in DOMAIN gs : ~IsPayout(gs[k]) => gs[k].other # gs[k].caller
  <2> SUFFICES ASSUME NEW k \in DOMAIN gs, ~IsPayout(gs[k]) PROVE gs[k].other # gs[k].caller
    OBVIOUS
  <2>1. CASE k = n + 1
    BY <1>2, <2>1
  <2>2. CASE k # n + 1
    <3>1. k \in DOMAIN fs /\ gs[k] = fs[k]
      BY <1>1, <1>2, <1>3, <2>2
    <3> QED
      BY <3>1 DEF Nested
  <2> QED
    BY <2>1, <2>2
<1>5. ASSUME n + 1 = 2
      PROVE  \/ gs[1].stage \in {"pre", "post"} /\ ~IsPayout(gs[1]) /\ IsPayout(gs[2])
             \/ gs[1].stage \in {"fee", "dividend"} /\ ~IsPayout(gs[2]) /\ gs[2].stage = "pre"
  <2>1. n = 1 /\ fs # << >>
    BY <1>1, <1>5
  <2>2. gs[1] = fs[1] /\ gs[2] = f
    BY <1>2, <2>1
  <2> QED
    BY <2>1, <2>2
<1> HIDE DEF n
<1> QED
  BY <1>1, <1>2, <1>4, <1>5 DEF Nested, Frames, gs, n

\* Which frames are on top of others.
LEMMA TopStage ==
  ASSUME Nested(frames), frames # << >>
  PROVE  /\ Top.stage \in {"pre", "fee", "post"} => ~IsPayout(Top)
         /\ Top.stage = "dividend" => IsPayout(Top)
         /\ ~IsPayout(Top) /\ (Top.stage # "pre" \/ ~InIncomingTransfer) => Len(frames) = 1
         /\ Top \in Frames /\ Top = frames[Len(frames)]
<1>1. /\ Len(frames) \in DOMAIN frames /\ DOMAIN frames = 1 .. Len(frames)
      /\ Len(frames) = 1 \/ Len(frames) = 2
      /\ IsPayout(Top) => Top \in PayoutFrame
      /\ ~IsPayout(Top) => Top \in RightsFrame
  BY TopFrame
<1>2. IsPayout(Top) => Top.stage \in {"called", "dividend"}
  BY <1>1 DEF PayoutFrame
<1>3. ~IsPayout(Top) => Top.stage \in {"pre", "fee", "called", "post"}
  BY <1>1 DEF RightsFrame
<1>4. ASSUME ~IsPayout(Top), Len(frames) = 2 PROVE Top.stage = "pre" /\ InIncomingTransfer
  <2>1. frames[1].stage \in {"fee", "dividend"} /\ frames[2].stage = "pre"
    BY <1>4 DEF Nested, Top
  <2>2. 1 \in DOMAIN frames
    BY <1>1, <1>4
  <2> QED
    BY <1>4, <2>1, <2>2 DEF Top, InIncomingTransfer
<1>5. Top = frames[Len(frames)] /\ Top \in Frames
  BY <1>1 DEF Top, Frames
<1> QED
  BY <1>1, <1>2, <1>3, <1>4, <1>5

LEMMA ReturnStep ==
  ASSUME AssetsInv, frames # << >>, Unpaid(Top) = 0, Return, UNCHANGED <<energy, vanished>>
  PROVE  MoneyGoesOn
<1>1. Nested(frames) /\ frames \in Seq(Frames) /\ Accounted(energy, frames, vanished)
  BY NestedFrames DEF AssetsInv
<1>2. Nested(frames')
  BY <1>1, NestedReturn DEF Return
<1>3. UnpaidTotal(frames') = UnpaidTotal(frames)
  <2>1. UnpaidTotal(SubSeq(frames, 1, Len(frames) - 1)) = UnpaidTotal(frames) - 0
    BY <1>1, FramesReturned DEF Top
  <2>2. UnpaidTotal(frames) \in Nat
    BY <1>1, FramesTotalled
  <2> QED
    BY <2>1, <2>2 DEF Return
<1> QED
  BY <1>1, <1>2, <1>3 DEF MoneyGoesOn, Accounted

\* The top frame changes without a payment of what it owes.
LEMMA ReplaceStep ==
  ASSUME AssetsInv, frames # << >>, NEW f \in Frames, ReplaceTop(f), Unpaid(f) = Unpaid(Top),
         ~IsPayout(f) => f.other # f.caller,
         Len(frames) = 1 \/ (IsPayout(Top) /\ IsPayout(f)),
         UNCHANGED vanished, energy' \in [Ids -> Nat], Total(energy', Ids) = Total(energy, Ids)
  PROVE  MoneyGoesOn
<1>1. Nested(frames) /\ frames \in Seq(Frames) /\ Accounted(energy, frames, vanished)
  BY NestedFrames DEF AssetsInv
<1>2. Nested(frames')
  BY <1>1, NestedReplace DEF ReplaceTop, Top
<1>3. UnpaidTotal(frames') = UnpaidTotal(frames)
  <2>1. UnpaidTotal([frames EXCEPT ![Len(frames)] = f]) = UnpaidTotal(frames) - Unpaid(Top) + Unpaid(f)
    BY <1>1, FramesReplaced DEF Top
  <2>2. UnpaidTotal(frames) \in Nat /\ Unpaid(f) \in Nat
    BY <1>1, FramesTotalled, UnpaidOf
  <2> QED
    BY <2>1, <2>2 DEF ReplaceTop
<1> QED
  BY <1>1, <1>2, <1>3 DEF MoneyGoesOn, Accounted

LEMMA RestagedFrame ==
  ASSUME NEW f \in RightsFrame, f.other # f.caller, NEW stage \in {"pre", "fee", "called", "post"},
         NEW fee \in Nat
  PROVE  /\ [f EXCEPT !.stage = stage] \in RightsFrame
         /\ [f EXCEPT !.stage = stage].other # [f EXCEPT !.stage = stage].caller
         /\ [f EXCEPT !.stage = stage, !.fee = fee] \in RightsFrame
         /\ [f EXCEPT !.stage = stage, !.fee = fee].other # [f EXCEPT !.stage = stage, !.fee = fee].caller
BY DEF RightsFrame

\* The top frame of a transfer of rights goes to another stage.
LEMMA RestageStep ==
  ASSUME AssetsInv, frames # << >>, ~IsPayout(Top), Len(frames) = 1,
         NEW f \in RightsFrame, f.other # f.caller, ReplaceTop(f),
         UNCHANGED vanished, energy' \in [Ids -> Nat], Total(energy', Ids) = Total(energy, Ids)
  PROVE  MoneyGoesOn
<1>1. Top \in RightsFrame
  BY TopFrame DEF AssetsInv
<1>2. Unpaid(f) = Unpaid(Top)
  BY <1>1, UnpaidOf
<1>3. f \in Frames
  BY DEF Frames
<1> QED
  BY <1>2, <1>3, ReplaceStep

LEMMA RefuseRightsStep == AssetsInv /\ RefuseRights => MoneyGoesOn
<1> SUFFICES ASSUME AssetsInv, RefuseRights PROVE MoneyGoesOn
  OBVIOUS
<1>1. frames # << >> /\ Top.stage = "pre" /\ Return /\ UNCHANGED <<energy, vanished>>
  BY DEF RefuseRights, money
<1>2. Top \in RightsFrame
  BY <1>1, TopStage, TopFrame DEF AssetsInv
<1>3. Unpaid(Top) = 0
  BY <1>2, UnpaidOf
<1> QED
  BY <1>1, <1>3, ReturnStep

LEMMA AllowRightsStep ==
  ASSUME AssetsInv, NEW fee \in Nat, AllowRights(fee)
  PROVE  MoneyGoesOn
<1>1. frames # << >> /\ Top.stage = "pre" /\ vanished' = vanished
  BY DEF AllowRights
<1>2. Top \in RightsFrame /\ ~IsPayout(Top) /\ Top.other # Top.caller
  BY <1>1, TopStage, TopFrame DEF AssetsInv
<1>3. Unpaid(Top) = 0 /\ energy \in [Ids -> Nat]
  BY <1>2, UnpaidOf DEF AssetsInv, Accounted
<1>4. CASE FeeRefused(Top, fee)
  <2>1. Return /\ UNCHANGED energy
    BY <1>4 DEF AllowRights
  <2> QED
    BY <1>1, <1>3, <2>1, ReturnStep
<1>5. CASE ~FeeRefused(Top, fee)
  <2>1. Len(frames) = 1 /\ ~(energy[Top.caller] < fee)
    BY <1>1, <1>2, <1>5, TopStage DEF FeeRefused, AssetsInv
  <2>2. Top.caller \in Ids /\ Top.other \in Ids
    BY <1>2 DEF RightsFrame, Ids
  <2>3. fee <= energy[Top.caller]
    BY <1>3, <2>1, <2>2
  <2>4. energy' = [energy EXCEPT ![Top.caller] = energy[Top.caller] - fee, ![Top.other] = energy[Top.other] + fee]
    BY <1>2, <1>5 DEF AllowRights, PayFee
  <2>5. energy' \in [Ids -> Nat] /\ Total(energy', Ids) = Total(energy, Ids)
    <3> DEFINE a == Top.caller
               b == Top.other
               g == [energy EXCEPT ![a] = energy[a] - fee, ![b] = energy[b] + fee]
    <3>1. a \in Ids /\ b \in Ids /\ a # b /\ fee <= energy[a] /\ energy' = g
      BY <1>2, <2>2, <2>3, <2>4
    <3> HIDE DEF a, b
    <3>2. energy[a] - fee \in Nat /\ energy[b] + fee \in Nat
      BY <1>3, <3>1
    <3>3. /\ g \in [Ids -> Nat] /\ g[a] = energy[a] - fee /\ g[b] = energy[b] + fee
          /\ \A x \in Ids : x # a /\ x # b => g[x] = energy[x]
      BY <1>3, <3>1, <3>2
    <3> HIDE DEF g
    <3>4. Total(g, Ids) = Total(energy, Ids)
      BY <1>3, <3>1, <3>3, FeePaid
    <3> QED
      BY <3>1, <3>3, <3>4
  <2>6. \E f \in RightsFrame : f.other # f.caller /\ ReplaceTop(f)
    <3>1. \/ ReplaceTop([Top EXCEPT !.stage = "fee", !.fee = fee])
          \/ ReplaceTop([Top EXCEPT !.stage = "called", !.fee = fee])
      BY <1>5 DEF AllowRights
    <3> DEFINE a == [Top EXCEPT !.stage = "fee", !.fee = fee]
               b == [Top EXCEPT !.stage = "called", !.fee = fee]
    <3>2. a \in RightsFrame /\ a.other # a.caller /\ b \in RightsFrame /\ b.other # b.caller
      BY <1>2, RestagedFrame
    <3>3. ReplaceTop(a) \/ ReplaceTop(b)
      BY <3>1
    <3> HIDE DEF a, b
    <3> QED
      BY <3>2, <3>3
  <2> QED
    BY <1>1, <1>2, <2>1, <2>5, <2>6, RestageStep
<1> QED
  BY <1>4, <1>5

LEMMA CallbackSteps ==
  ASSUME AssetsInv, FeeCallbackReturns \/ PostCallbackReturns
  PROVE  MoneyGoesOn
<1>1. frames # << >> /\ Top.stage \in {"fee", "post"} /\ UNCHANGED <<energy, vanished>>
  BY DEF FeeCallbackReturns, PostCallbackReturns, money
<1>2. Top \in RightsFrame /\ ~IsPayout(Top) /\ Top.other # Top.caller /\ Len(frames) = 1
  BY <1>1, TopStage, TopFrame DEF AssetsInv
<1>3. energy' \in [Ids -> Nat] /\ Total(energy', Ids) = Total(energy, Ids)
  BY <1>1 DEF AssetsInv, Accounted
<1>4. CASE FeeCallbackReturns
  <2> DEFINE f == [Top EXCEPT !.stage = "called"]
  <2>1. f \in RightsFrame /\ f.other # f.caller
    BY <1>2, RestagedFrame
  <2>2. ReplaceTop(f)
    BY <1>4 DEF FeeCallbackReturns
  <2> HIDE DEF f
  <2> QED
    BY <1>1, <1>2, <1>3, <2>1, <2>2, RestageStep
<1>5. CASE PostCallbackReturns
  <2>1. Return /\ Unpaid(Top) = 0
    BY <1>2, <1>5, UnpaidOf DEF PostCallbackReturns
  <2> QED
    BY <1>1, <2>1, ReturnStep
<1> QED
  BY <1>4, <1>5

LEMMA RightsMovedStep == AssetsInv /\ MoveRights => MoneyGoesOn /\ Len(frames) = 1
<1> SUFFICES ASSUME AssetsInv, MoveRights PROVE MoneyGoesOn /\ Len(frames) = 1
  OBVIOUS
<1>1. /\ frames # << >> /\ ~IsPayout(Top) /\ Top.stage = "called" /\ UNCHANGED <<energy, vanished>>
      /\ ReplaceTop([Top EXCEPT !.stage = "post"]) \/ Return
  BY DEF MoveRights, money
<1>2. Top \in RightsFrame /\ Top.other # Top.caller /\ Len(frames) = 1
  BY <1>1, TopStage, TopFrame DEF AssetsInv
<1>3. energy' \in [Ids -> Nat] /\ Total(energy', Ids) = Total(energy, Ids)
  BY <1>1 DEF AssetsInv, Accounted
<1>4. CASE Return
  <2>1. Unpaid(Top) = 0
    BY <1>2, UnpaidOf
  <2> QED
    BY <1>1, <1>2, <1>4, <2>1, ReturnStep
<1>5. CASE ReplaceTop([Top EXCEPT !.stage = "post"])
  <2> DEFINE f == [Top EXCEPT !.stage = "post"]
  <2>1. f \in RightsFrame /\ f.other # f.caller
    BY <1>2, RestagedFrame
  <2>2. ReplaceTop(f)
    BY <1>5
  <2> HIDE DEF f
  <2> QED
    BY <1>1, <1>2, <1>3, <2>1, <2>2, RestageStep
<1> QED
  BY <1>1, <1>4, <1>5

LEMMA PayDividendStep == AssetsInv /\ PayDividend => MoneyGoesOn
<1> SUFFICES ASSUME AssetsInv, PayDividend PROVE MoneyGoesOn
  OBVIOUS
<1> DEFINE next == Head(Top.unpaid)
           rest == Tail(Top.unpaid)
           a == [stage |-> "dividend", unpaid |-> rest]
           b == [stage |-> "called", unpaid |-> rest]
<1>1. /\ frames # << >> /\ IsPayout(Top) /\ Top.unpaid # << >> /\ vanished' = vanished
      /\ energy' = [energy EXCEPT ![next.id] = energy[next.id] + next.amount]
      /\ ReplaceTop(a) \/ ReplaceTop(b)
  BY DEF PayDividend
<1>2. Top \in PayoutFrame
  BY <1>1, TopFrame DEF AssetsInv
<1>3. /\ Top.unpaid \in Seq(Credits) /\ Unpaid(Top) = AmountTotal(Top.unpaid)
  BY <1>2, UnpaidOf
<1>4. /\ next \in Credits /\ rest \in Seq(Credits)
      /\ AmountTotal(Top.unpaid) = next.amount + AmountTotal(rest)
  BY <1>1, <1>3, AmountsTail
<1> HIDE DEF next, rest
<1>5. next.id \in Ids /\ next.amount \in Nat
  BY <1>4 DEF Credits
<1>6. /\ a \in PayoutFrame /\ b \in PayoutFrame /\ IsPayout(a) /\ IsPayout(b)
      /\ a.unpaid = rest /\ b.unpaid = rest
  BY <1>4 DEF PayoutFrame, IsPayout, Credits
<1>7. PICK f \in PayoutFrame : IsPayout(f) /\ f.unpaid = rest /\ ReplaceTop(f)
  <2> HIDE DEF a, b
  <2> QED
    BY <1>1, <1>6
<1>8. /\ Nested(frames) /\ frames \in Seq(Frames) /\ f \in Frames
      /\ Accounted(energy, frames, vanished)
  BY NestedFrames DEF AssetsInv, Frames
<1>9. Nested(frames')
  <2>1. Len(frames) = 1 \/ (IsPayout(frames[Len(frames)]) /\ IsPayout(f))
    BY <1>1, <1>7 DEF Top
  <2> QED
    BY <1>1, <1>7, <1>8, <2>1, NestedReplace DEF ReplaceTop
<1>10. UnpaidTotal(frames') = UnpaidTotal(frames) - Unpaid(Top) + Unpaid(f)
  BY <1>1, <1>7, <1>8, FramesReplaced DEF ReplaceTop, Top
<1>11. Unpaid(f) = AmountTotal(rest) /\ Unpaid(f) \in Nat /\ Unpaid(Top) = next.amount + AmountTotal(rest)
  BY <1>3, <1>4, <1>7, <1>8, UnpaidOf
<1>12. /\ energy' \in [Ids -> Nat] /\ Total(energy', Ids) = Total(energy, Ids) + next.amount
  <2> DEFINE id == next.id
             n == next.amount
  <2>1. id \in Ids /\ n \in Nat /\ energy \in [Ids -> Nat] /\ energy' = [energy EXCEPT ![id] = energy[id] + n]
    BY <1>1, <1>5, <1>8 DEF Accounted
  <2> HIDE DEF id, n
  <2>2. energy' \in [Ids -> Nat] /\ Total(energy', Ids) = Total(energy, Ids) + n
    BY <2>1, Paid
  <2> QED
    BY <2>2 DEF n
<1>13. /\ UnpaidTotal(frames) \in Nat /\ vanished \in Int
       /\ Total(energy, Ids) + UnpaidTotal(frames) + vanished = Cardinality(Slots) * Endowment
       /\ Total(energy, Ids) \in Int
  <2>1. \A x \in Ids : energy[x] \in Int
    BY <1>8 DEF Accounted
  <2> QED
    BY <1>8, <2>1, FramesTotalled, IdsFinite, TotalInt DEF Accounted
<1>14. Total(energy', Ids) + UnpaidTotal(frames') + vanished'
         = Total(energy, Ids) + UnpaidTotal(frames) + vanished
  <2> DEFINE e == Total(energy, Ids)
             e2 == Total(energy', Ids)
             w == UnpaidTotal(frames)
             w2 == UnpaidTotal(frames')
             n == next.amount
             x == Unpaid(f)
             y == Unpaid(Top)
  <2>1. /\ e \in Int /\ w \in Nat /\ vanished \in Int /\ n \in Nat /\ x \in Nat
        /\ e2 = e + n /\ w2 = w - y + x /\ y = n + x
    BY <1>5, <1>10, <1>11, <1>12, <1>13
  <2> HIDE DEF e, e2, w, w2, n, x, y
  <2>2. e2 + w2 + vanished = e + w + vanished
    BY <2>1
  <2> QED
    BY <1>1, <2>2 DEF e, e2, w, w2
<1>15. Total(energy', Ids) + UnpaidTotal(frames') + vanished' = Cardinality(Slots) * Endowment
  BY <1>13, <1>14, Zenon
<1> QED
  BY <1>1, <1>9, <1>12, <1>13, <1>15 DEF MoneyGoesOn, Accounted

LEMMA DividendCallbackStep == AssetsInv /\ DividendCallbackReturns => MoneyGoesOn
<1> SUFFICES ASSUME AssetsInv, DividendCallbackReturns PROVE MoneyGoesOn
  OBVIOUS
<1> DEFINE f == [Top EXCEPT !.stage = "called"]
<1>1. frames # << >> /\ Top.stage = "dividend" /\ ReplaceTop(f) /\ UNCHANGED <<energy, vanished>>
  BY DEF DividendCallbackReturns, money
<1>2. Top \in PayoutFrame /\ IsPayout(Top)
  BY <1>1, TopStage, TopFrame DEF AssetsInv
<1>3. f \in PayoutFrame /\ f.unpaid = Top.unpaid /\ IsPayout(f)
  BY <1>2 DEF PayoutFrame, IsPayout
<1> HIDE DEF f
<1>4. Unpaid(f) = Unpaid(Top) /\ f \in Frames
  BY <1>2, <1>3, UnpaidOf DEF Frames
<1>5. energy' \in [Ids -> Nat] /\ Total(energy', Ids) = Total(energy, Ids)
  BY <1>1 DEF AssetsInv, Accounted
<1> QED
  BY <1>1, <1>2, <1>3, <1>4, <1>5, ReplaceStep

LEMMA EndPayoutStep == AssetsInv /\ EndPayout => MoneyGoesOn
<1> SUFFICES ASSUME AssetsInv, EndPayout PROVE MoneyGoesOn
  OBVIOUS
<1>1. frames # << >> /\ IsPayout(Top) /\ Top.unpaid = << >> /\ Return /\ UNCHANGED <<energy, vanished>>
  BY DEF EndPayout, money
<1>2. Top \in PayoutFrame
  BY <1>1, TopFrame DEF AssetsInv
<1>3. Unpaid(Top) = AmountTotal(<< >>)
  BY <1>1, <1>2, UnpaidOf
<1>4. AmountTotal(<< >>) = 0
  <2>1. DOMAIN << >> = {}
    OBVIOUS
  <2> QED
    BY <2>1, TotalOfNothing DEF AmountTotal
<1> QED
  BY <1>1, <1>3, <1>4, ReturnStep

LEMMA AskForRightsStep ==
  ASSUME AssetsInv, NEW caller \in Slots, NEW other \in Slots, NEW releases \in BOOLEAN,
         NEW issuer \in Ids, NEW name \in Names, NEW owner \in Ids, NEW shares \in Nat, NEW offered \in Nat,
         AskForRights(caller, other, releases, issuer, name, owner, shares, offered)
  PROVE  MoneyGoesOn
<1> DEFINE f == [caller |-> caller, other |-> other, releases |-> releases,
                 issuer |-> issuer, name |-> name, owner |-> owner, shares |-> shares,
                 offered |-> offered, fee |-> 0, stage |-> "pre"]
<1>1. /\ CodeRuns /\ ~RightsCallbackRuns /\ other # caller /\ frames' = Append(frames, f)
      /\ UNCHANGED <<energy, vanished>>
  BY DEF AskForRights, money
<1>2. f \in RightsFrame /\ f.other # f.caller /\ f.stage = "pre" /\ ~IsPayout(f)
  BY <1>1 DEF RightsFrame, IsPayout
<1> HIDE DEF f
<1>3. f \in Frames /\ Unpaid(f) = 0
  BY <1>2, UnpaidOf DEF Frames
<1>4. /\ Nested(frames) /\ frames \in Seq(Frames) /\ Accounted(energy, frames, vanished)
      /\ Len(frames) \in Nat /\ DOMAIN frames = 1 .. Len(frames) /\ Len(frames) <= 2
  BY NestedFrames DEF AssetsInv, Nested
<1>5. \A k \in 1 .. Len(frames) : frames[k].stage \notin {"pre", "post"}
  BY <1>1, <1>4 DEF RightsCallbackRuns
<1>6. Len(frames) <= 1
  <2> SUFFICES ASSUME Len(frames) = 2 PROVE FALSE
    BY <1>4
  <2>1. frames[1].stage \in {"pre", "post"} \/ frames[2].stage = "pre"
    BY <1>4 DEF Nested
  <2> QED
    BY <1>5, <2>1
<1>7. ASSUME frames # << >> PROVE frames[1].stage \in {"fee", "dividend"}
  <2>1. Len(frames) = 1
    BY <1>4, <1>6, <1>7, EmptySeq
  <2>2. Top = frames[1] /\ Top \in Frames /\ Top.stage # "called"
    BY <1>1, <1>4, <1>7, <2>1, TopStage DEF CodeRuns, Top
  <2>3. Top.stage \in {"pre", "fee", "called", "post", "dividend"}
    BY <2>2 DEF Frames, RightsFrame, PayoutFrame
  <2> QED
    BY <1>5, <2>1, <2>2, <2>3
<1>8. Nested(frames')
  BY <1>1, <1>2, <1>3, <1>4, <1>6, <1>7, NestedAppend
<1>9. UnpaidTotal(frames') = UnpaidTotal(frames)
  <2>1. UnpaidTotal(Append(frames, f)) = UnpaidTotal(frames) + 0
    BY <1>3, <1>4, FramesAppended
  <2>2. UnpaidTotal(frames) \in Nat
    BY <1>4, FramesTotalled
  <2> QED
    BY <1>1, <2>1, <2>2
<1> QED
  BY <1>1, <1>4, <1>8, <1>9 DEF MoneyGoesOn, Accounted

(***************************************************************************)
(* The possessions that a dividend is paid to.                             *)
(***************************************************************************)

LEMMA SingleIs ==
  ASSUME NEW s \in Seq(Index), Len(s) = 1
  PROVE  s[1] \in Index /\ s = [j \in 1 .. 1 |-> s[1]]
<1>1. s \in [1 .. Len(s) -> Index]
  BY LenProperties
<1>2. s \in [1 .. 1 -> Index] /\ 1 \in 1 .. 1
  BY <1>1
<1> QED
  BY <1>2

LEMMA SingleAppended ==
  ASSUME NEW b \in Seq(Index), NEW d \in Seq(Index), NEW m \in Nat, Len(b) = m, Len(d) = 1
  PROVE  /\ b \o d \in Seq(Index) /\ Len(b \o d) = m + 1
         /\ (b \o d)[m + 1] = d[1] /\ \A j \in 1 .. m : (b \o d)[j] = b[j]
<1>1. /\ b \o d \in Seq(Index) /\ Len(b \o d) = m + 1
      /\ \A j \in 1 .. m + 1 : (b \o d)[j] = IF j <= m THEN b[j] ELSE d[j - m]
  <2>1. /\ b \o d \in Seq(Index) /\ Len(b \o d) = Len(b) + Len(d)
        /\ \A j \in 1 .. Len(b) + Len(d) : (b \o d)[j] = IF j <= Len(b) THEN b[j] ELSE d[j - Len(b)]
    BY ConcatProperties, Zenon
  <2> QED
    BY <2>1
<1>2. m + 1 \in 1 .. m + 1 /\ ~(m + 1 <= m) /\ (m + 1) - m = 1
  OBVIOUS
<1>3. (b \o d)[m + 1] = d[1]
  BY <1>1, <1>2
<1>4. \A j \in 1 .. m : j \in 1 .. m + 1 /\ j <= m
  OBVIOUS
<1> QED
  BY <1>1, <1>3, <1>4

\* A list of lists of one element, flattened.
LEMMA SinglesFlattened ==
  ASSUME NEW ss \in Seq(Seq(Index)), \A k \in 1 .. Len(ss) : Len(ss[k]) = 1
  PROVE  /\ Len(FlattenSeq(ss)) = Len(ss) /\ DOMAIN FlattenSeq(ss) = 1 .. Len(ss)
         /\ \A k \in 1 .. Len(ss) : FlattenSeq(ss)[k] = ss[k][1]
<1> DEFINE n == Len(ss)
           D == 1 .. n
           Body(f, i) == IF i = 1 THEN ss[i] ELSE f[i - 1] \o ss[i]
           Solves(f) == f = [i \in D |-> Body(f, i)]
           flat == CHOOSE f : Solves(f)
           Heads(i) == [k \in 1 .. i |-> ss[k][1]]
           w == [i \in D |-> Heads(i)]
<1>1. n \in Nat /\ DOMAIN ss = D
  BY LenProperties
<1>2. CASE n = 0
  BY <1>1, <1>2 DEF FlattenSeq
<1>3. CASE n # 0
  <2>0. FlattenSeq(ss) = flat[n]
    BY <1>3 DEF FlattenSeq
  <2>1. \A k \in D : ss[k] \in Seq(Index) /\ ss[k][1] \in Index /\ ss[k] = [j \in 1 .. 1 |-> ss[k][1]]
    <3> SUFFICES ASSUME NEW k \in D
                 PROVE  ss[k] \in Seq(Index) /\ ss[k][1] \in Index /\ ss[k] = [j \in 1 .. 1 |-> ss[k][1]]
      OBVIOUS
    <3>1. ss[k] \in Seq(Index) /\ Len(ss[k]) = 1
      BY ElementOfSeq
    <3> QED
      BY <3>1, SingleIs
  <2>2. \A i \in D : Heads(i) \in Seq(Index) /\ Len(Heads(i)) = i /\ DOMAIN Heads(i) = 1 .. i
    <3> SUFFICES ASSUME NEW i \in D
                 PROVE  Heads(i) \in Seq(Index) /\ Len(Heads(i)) = i /\ DOMAIN Heads(i) = 1 .. i
      OBVIOUS
    <3>1. \A k \in 1 .. i : k \in D
      BY <1>1
    <3>2. Heads(i) \in [1 .. i -> Index] /\ i \in Nat
      BY <1>1, <2>1, <3>1
    <3> HIDE DEF Heads
    <3>3. \A k \in 1 .. i : Heads(i)[k] \in Index
      BY <3>2
    <3> QED
      BY <3>2, <3>3, IsASeq, LenProperties
  <2>3. Heads(1) = ss[1]
    BY <1>1, <1>3, <2>1
  <2>4. ASSUME NEW i \in D, i # 1 PROVE Heads(i) = Heads(i - 1) \o ss[i]
    <3>1. i - 1 \in D /\ i \in Nat
      BY <1>1, <2>4
    <3>2. /\ Heads(i) \in Seq(Index) /\ Len(Heads(i)) = i
          /\ Heads(i - 1) \in Seq(Index) /\ Len(Heads(i - 1)) = i - 1
          /\ ss[i] \in Seq(Index) /\ Len(ss[i]) = 1
      BY <2>1, <2>2, <3>1
    <3> DEFINE a == Heads(i)
               b == Heads(i - 1)
               c == b \o ss[i]
    <3>3. /\ c \in Seq(Index) /\ Len(c) = i /\ c[i] = ss[i][1]
          /\ \A j \in 1 .. i - 1 : c[j] = b[j]
      <4> DEFINE d == ss[i]
                 m == i - 1
      <4>1. /\ b \in Seq(Index) /\ Len(b) = m /\ d \in Seq(Index) /\ Len(d) = 1 /\ m \in Nat
            /\ m + 1 = i
        BY <3>1, <3>2
      <4> HIDE DEF b, d, m
      <4>2. /\ b \o d \in Seq(Index) /\ Len(b \o d) = m + 1
            /\ (b \o d)[m + 1] = d[1] /\ \A j \in 1 .. m : (b \o d)[j] = b[j]
        BY <4>1, SingleAppended
      <4> QED
        BY <4>1, <4>2 DEF d, m
    <3>4. \A j \in 1 .. i : a[j] = c[j]
      <4> SUFFICES ASSUME NEW j \in 1 .. i PROVE a[j] = c[j]
        OBVIOUS
      <4>1. a[j] = ss[j][1]
        OBVIOUS
      <4>2. CASE j = i
        BY <3>3, <4>1, <4>2
      <4>3. CASE j # i
        <5>1. j \in 1 .. i - 1 /\ c[j] = b[j]
          BY <3>1, <3>3, <4>3
        <5> QED
          BY <4>1, <5>1
      <4> QED
        BY <4>2, <4>3
    <3> HIDE DEF a, b, c
    <3>5. a = c
      BY <3>2, <3>3, <3>4, SeqEqual DEF a
    <3> QED
      BY <3>5 DEF a, b, c
  <2>5. Solves(w)
    <3>1. \A i \in D : w[i] = Body(w, i)
      <4> SUFFICES ASSUME NEW i \in D PROVE w[i] = Body(w, i)
        OBVIOUS
      <4>1. i # 1 => i - 1 \in D
        BY <1>1
      <4> HIDE DEF Heads
      <4> QED
        BY <2>3, <2>4, <4>1
    <3>2. w = [i \in D |-> w[i]]
      OBVIOUS
    <3> HIDE DEF w, Body
    <3> QED
      BY <3>1, <3>2
  <2>6. Solves(flat)
    <3> HIDE DEF Solves, w
    <3> QED
      BY <2>5
  <2>7. \A i \in D : flat[i] = Body(flat, i)
    BY <2>6
  <2> HIDE DEF flat
  <2> DEFINE Q == {m \in Nat : m + 1 \in D => flat[m + 1] = Heads(m + 1)}
  <2>8. Q = Nat
    <3>1. 0 \in Q
      <4>1. 1 \in D /\ flat[1] = ss[1]
        BY <1>1, <1>3, <2>7
      <4> HIDE DEF Heads
      <4> QED
        BY <2>3, <4>1
    <3>2. ASSUME NEW m \in Q PROVE m + 1 \in Q
      <4> SUFFICES ASSUME m + 1 + 1 \in D PROVE flat[m + 1 + 1] = Heads(m + 1 + 1)
        OBVIOUS
      <4> DEFINE i == m + 1 + 1
      <4>1. i \in D /\ i # 1 /\ i - 1 \in D /\ i - 1 = m + 1
        BY <1>1
      <4> HIDE DEF Heads, i
      <4>2. flat[i - 1] = Heads(i - 1)
        BY <4>1
      <4>3. flat[i] = Heads(i)
        BY <2>4, <2>7, <4>1, <4>2
      <4> QED
        BY <4>3 DEF i
    <3> HIDE DEF Q
    <3>3. Q \in SUBSET Nat
      BY DEF Q
    <3> QED
      BY <3>1, <3>2, <3>3, NatSetInduction
  <2>9. flat[n] = Heads(n)
    <3>1. n - 1 \in Nat /\ (n - 1) + 1 = n /\ n \in D
      BY <1>1, <1>3
    <3> HIDE DEF Heads
    <3> QED
      BY <2>8, <3>1
  <2>10. n \in D
    BY <1>1, <1>3
  <2> QED
    BY <2>0, <2>2, <2>9, <2>10
<1> QED
  BY <1>2, <1>3

\* An ownership has one possession, and lists it.
LEMMA OneListed ==
  ASSUME Sound(Now, outstanding, contractAssetNames), NEW o \in Index, table[o].type = "ownership"
  PROVE  /\ children[o] \in Seq(Index) /\ Len(children[o]) = 1 /\ children[o][1] \in Index
         /\ table[children[o][1]].type = "possession" /\ table[children[o][1]].ref = o
<1> DEFINE s == children[o]
<1>1. IsTable(table) /\ Paired(table) /\ Linked(table) /\ IsChildren(table, children)
  BY SoundNow
<1>2. o \in Parents /\ o # Root
  BY RootIsNoIndex DEF Parents
<1>3. s \in Seq(Index) /\ Once(s) /\ \A i \in Index : i \in ToSet(s) <=> BelongsTo(table, o, i)
  BY <1>1, <1>2 DEF IsChildren
<1> HIDE DEF s
<1>4. Len(s) \in Nat /\ DOMAIN s = 1 .. Len(s) /\ \A k \in 1 .. Len(s) : s[k] \in Index
  BY <1>3, LenProperties, ElementOfSeq
<1>5. \A k \in 1 .. Len(s) : table[s[k]].type = "possession" /\ table[s[k]].ref = o
  <2> SUFFICES ASSUME NEW k \in 1 .. Len(s) PROVE table[s[k]].type = "possession" /\ table[s[k]].ref = o
    OBVIOUS
  <2>1. s[k] \in Index /\ s[k] \in ToSet(s)
    BY <1>4 DEF ToSet
  <2>2. table[s[k]].type \in {"ownership", "possession"} /\ table[s[k]].ref = o
    BY <1>2, <1>3, <2>1 DEF BelongsTo
  <2>3. table[s[k]].type # "ownership"
    BY <1>1, <2>1, <2>2 DEF Linked
  <2> QED
    BY <2>2, <2>3
<1>6. PICK p \in Index : table[p].type = "possession" /\ table[p].ref = o
  BY <1>1 DEF Paired
<1>7. p \in ToSet(s)
  BY <1>2, <1>3, <1>6 DEF BelongsTo
<1>8. Len(s) >= 1
  BY <1>4, <1>7 DEF ToSet
<1>9. Len(s) <= 1
  <2> SUFFICES ASSUME 2 \in 1 .. Len(s), 1 \in 1 .. Len(s) PROVE FALSE
    BY <1>4
  <2>1. s[1] = s[2]
    BY <1>1, <1>4, <1>5, OnePossession
  <2> QED
    BY <1>3, <1>4, <2>1 DEF Once
<1>10. Len(s) = 1 /\ 1 \in 1 .. Len(s)
  BY <1>4, <1>8, <1>9
<1>11. s[1] \in Index /\ table[s[1]].type = "possession" /\ table[s[1]].ref = o
  BY <1>4, <1>5, <1>10
<1> QED
  BY <1>3, <1>10, <1>11 DEF s

Listed(i) == FlattenSeq([k \in DOMAIN children[i] |-> children[children[i][k]]])

\* The lists lead to the possession of every ownership.
LEMMA PossessionsListed ==
  ASSUME Sound(Now, outstanding, contractAssetNames), NEW i \in Index, table[i].type = "issuance"
  PROVE  /\ children[i] \in Seq(Index) /\ Once(children[i])
         /\ \A k \in DOMAIN children[i] :
              /\ children[i][k] \in Index
              /\ table[children[i][k]].type = "ownership" /\ table[children[i][k]].ref = i
         /\ \A o \in Index : table[o].type = "ownership" /\ table[o].ref = i =>
              \E k \in DOMAIN children[i] : children[i][k] = o
         /\ DOMAIN Listed(i) = DOMAIN children[i]
         /\ \A k \in DOMAIN children[i] :
              /\ Listed(i)[k] \in Index /\ table[Listed(i)[k]].type = "possession"
              /\ table[Listed(i)[k]].ref = children[i][k]
<1> DEFINE c == children[i]
           D == 1 .. Len(c)
<1>1. IsTable(table) /\ Paired(table) /\ Linked(table) /\ IsChildren(table, children)
  BY SoundNow
<1>2. i \in Parents /\ i # Root
  BY RootIsNoIndex DEF Parents
<1>3. c \in Seq(Index) /\ Once(c) /\ \A j \in Index : j \in ToSet(c) <=> BelongsTo(table, i, j)
  BY <1>1, <1>2 DEF IsChildren
<1>4. Len(c) \in Nat /\ DOMAIN c = D /\ \A k \in D : c[k] \in Index
  <2> HIDE DEF c
  <2> QED
    BY <1>3, LenProperties, ElementOfSeq
<1>5. \A k \in D : table[c[k]].type = "ownership" /\ table[c[k]].ref = i
  <2> SUFFICES ASSUME NEW k \in D PROVE table[c[k]].type = "ownership" /\ table[c[k]].ref = i
    OBVIOUS
  <2> HIDE DEF c
  <2>1. c[k] \in Index /\ c[k] \in ToSet(c)
    BY <1>4 DEF ToSet
  <2>2. table[c[k]].type \in {"ownership", "possession"} /\ table[c[k]].ref = i
    BY <1>2, <1>3, <2>1 DEF BelongsTo
  <2>3. table[c[k]].type # "possession"
    BY <1>1, <2>1, <2>2 DEF Linked
  <2> QED
    BY <2>2, <2>3
<1>6. ASSUME NEW o \in Index, table[o].type = "ownership", table[o].ref = i
      PROVE  \E k \in D : c[k] = o
  <2>1. o \in ToSet(c)
    BY <1>2, <1>3, <1>6 DEF BelongsTo
  <2> QED
    BY <1>4, <2>1 DEF ToSet
<1> DEFINE ss == [k \in DOMAIN c |-> children[c[k]]]
<1>7. \A k \in D : /\ ss[k] = children[c[k]] /\ ss[k] \in Seq(Index) /\ Len(ss[k]) = 1
                   /\ ss[k][1] \in Index /\ table[ss[k][1]].type = "possession"
                   /\ table[ss[k][1]].ref = c[k]
  <2> SUFFICES ASSUME NEW k \in D
               PROVE  /\ ss[k] = children[c[k]] /\ ss[k] \in Seq(Index) /\ Len(ss[k]) = 1
                      /\ ss[k][1] \in Index /\ table[ss[k][1]].type = "possession"
                      /\ table[ss[k][1]].ref = c[k]
    OBVIOUS
  <2>1. ss[k] = children[c[k]] /\ c[k] \in Index /\ table[c[k]].type = "ownership"
    BY <1>4, <1>5
  <2> HIDE DEF c, ss
  <2> QED
    BY <2>1, OneListed
<1>8. ss \in Seq(Seq(Index)) /\ Len(ss) = Len(c)
  <2>1. ss = [k \in 1 .. Len(c) |-> ss[k]]
    BY <1>4
  <2> HIDE DEF c, ss
  <2>2. ss \in [1 .. Len(c) -> Seq(Index)]
    BY <1>7, <2>1
  <2> QED
    BY <1>4, <2>2
<1>9. Listed(i) = FlattenSeq(ss)
  BY DEF Listed
<1> HIDE DEF ss, c
<1>10. /\ DOMAIN FlattenSeq(ss) = 1 .. Len(ss)
       /\ \A k \in 1 .. Len(ss) : FlattenSeq(ss)[k] = ss[k][1]
  BY <1>7, <1>8, SinglesFlattened
<1>11. /\ DOMAIN Listed(i) = D
       /\ \A k \in D : /\ Listed(i)[k] \in Index /\ table[Listed(i)[k]].type = "possession"
                        /\ table[Listed(i)[k]].ref = c[k]
  BY ONLY <1>7, <1>8, <1>9, <1>10
<1>12. \A o \in Index : table[o].type = "ownership" /\ table[o].ref = i => \E k \in D : c[k] = o
  BY <1>6
<1> QED
  BY <1>3, <1>4, <1>5, <1>11, <1>12 DEF c

Credit1(p) == [id |-> table[p].id, amount |-> table[p].shares]

\* What a dividend of one for every share comes to.
LEMMA DividendTotal ==
  ASSUME Sound(Now, outstanding, contractAssetNames), NEW i \in Index, table[i].type = "issuance"
  PROVE  /\ [k \in DOMAIN Listed(i) |-> Credit1(Listed(i)[k])] \in Seq(Credits)
         /\ AmountTotal([k \in DOMAIN Listed(i) |-> Credit1(Listed(i)[k])]) = OwnedTotal(table, i)
<1> DEFINE all == Listed(i)
           c == children[i]
           D == DOMAIN c
           s == [k \in DOMAIN all |-> Credit1(all[k])]
           f == [k \in D |-> s[k].amount]
           T == {o \in Index : table[o].type = "ownership" /\ table[o].ref = i}
           g == Owned(table, i)
<1>1. /\ IsTable(table) /\ Paired(table) /\ Linked(table) /\ IsChildren(table, children)
      /\ table \in [Index -> AnyRecord]
  BY SoundNow
<1>2. /\ c \in Seq(Index) /\ Once(c) /\ DOMAIN all = D
      /\ \A k \in D : c[k] \in T
      /\ \A o \in T : \E k \in D : c[k] = o
      /\ \A k \in D : all[k] \in Index /\ table[all[k]].type = "possession" /\ table[all[k]].ref = c[k]
  BY PossessionsListed
<1> HIDE DEF all, c
<1>3. Len(c) \in Nat /\ D = 1 .. Len(c) /\ IsFiniteSet(D)
  BY <1>2, LenProperties, FS_Interval
<1>4. \A k \in D : s[k] \in Credits /\ s[k].amount = table[c[k]].shares /\ s[k].amount \in Nat
  <2> SUFFICES ASSUME NEW k \in D
               PROVE  s[k] \in Credits /\ s[k].amount = table[c[k]].shares /\ s[k].amount \in Nat
    OBVIOUS
  <2>1. all[k] \in Index /\ table[all[k]].type = "possession" /\ table[all[k]].ref = c[k]
    BY <1>2
  <2>2. table[all[k]].id \in Ids /\ table[all[k]].shares \in Nat
    BY <1>1, <2>1, RecordCases
  <2>3. table[all[k]].shares = table[c[k]].shares
    BY <1>1, <2>1 DEF Paired
  <2>4. s[k] = [id |-> table[all[k]].id, amount |-> table[all[k]].shares]
    BY <1>2 DEF Credit1
  <2> QED
    BY <2>2, <2>3, <2>4 DEF Credits
<1>5. s \in Seq(Credits) /\ DOMAIN s = D
  <2>1. s = [k \in 1 .. Len(c) |-> s[k]] /\ DOMAIN s = D
    BY <1>2, <1>3
  <2> HIDE DEF s
  <2>2. s \in [1 .. Len(c) -> Credits]
    BY <1>3, <1>4, <2>1
  <2> QED
    BY <1>3, <2>1, <2>2
<1>6. AmountTotal(s) = Total(f, D)
  BY <1>5 DEF AmountTotal
<1>7. Total(g, T) = Total(f, D)
  <2>1. \A k \in D : f[k] \in Int /\ c[k] \in T /\ g[c[k]] = f[k]
    BY <1>2, <1>4 DEF Owned
  <2>2. \A j \in D, k \in D : c[j] = c[k] => j = k
    BY <1>2 DEF Once
  <2> HIDE DEF f, g, T, D
  <2> QED
    BY <1>2, <1>3, <2>1, <2>2, TotalImage, SMTT(30)
<1>8. Total(g, Index) = Total(g, T)
  <2>1. T \subseteq Index /\ \A j \in Index : j \notin T => g[j] = 0
    BY DEF Owned
  <2>2. \A j \in Index : g[j] \in Int
    BY <1>1, OwnedNat
  <2> HIDE DEF T, g
  <2> QED
    BY <2>1, <2>2, IndexFinite, TotalOfPart
<1> QED
  BY <1>5, <1>6, <1>7, <1>8 DEF OwnedTotal, all, c

CreditsFor(all) == [k \in DOMAIN all |-> Credit1(all[k])]

\* What is owed for the shares of a contract.
LEMMA OwedForShares ==
  ASSUME Sound(Now, outstanding, contractAssetNames), NEW slot \in Slots
  PROVE  /\ CreditsFor(Possessions(Nobody, contractAssetNames[slot])) \in Seq(Credits)
         /\ AmountTotal(CreditsFor(Possessions(Nobody, contractAssetNames[slot])))
              = SharesOf(slot)
         /\ SharesOf(slot) \in Nat
<1> DEFINE name == contractAssetNames[slot]
           all == Possessions(Nobody, name)
<1>1. /\ IsTable(table) /\ table \in [Index -> AnyRecord] /\ Roomy(table)
      /\ Balanced(table, outstanding) /\ Named(contractAssetNames)
  BY SoundNow DEF Sound, Now
<1>2. Nobody \in Ids /\ name \in Names \cup {NoName}
  BY <1>1 DEF Ids, Named
<1>3. ASSUME \A i : ~IsIssuance(table, Nobody, name, i), SharesOf(slot) = 0
      PROVE  /\ CreditsFor(all) \in Seq(Credits) /\ AmountTotal(CreditsFor(all)) = SharesOf(slot)
             /\ SharesOf(slot) \in Nat
  <2>1. IssuanceIndex(table, Nobody, name) = NoIndex
    BY <1>1, <1>2, <1>3, IssuanceSought
  <2>2. all = << >>
    BY <2>1 DEF Possessions
  <2> HIDE DEF all
  <2>3. CreditsFor(all) = << >>
    BY <2>2 DEF CreditsFor
  <2>4. AmountTotal(<< >>) = 0
    BY TotalOfNothing DEF AmountTotal
  <2>5. << >> \in Seq(Credits)
    BY EmptySeq
  <2> QED
    BY <1>3, <2>3, <2>4, <2>5
<1>4. CASE name = NoName
  <2>1. \A i : ~IsIssuance(table, Nobody, name, i)
    <3> SUFFICES ASSUME NEW i, IsIssuance(table, Nobody, NoName, i) PROVE FALSE
      BY <1>4
    <3>1. table[i] \in AnyRecord /\ table[i].type = "issuance" /\ table[i].name = NoName
      BY <1>1 DEF IsIssuance
    <3> QED
      BY <3>1, RecordCases, AssetConstants
  <2>2. SharesOf(slot) = 0
    BY <1>4 DEF SharesOf
  <2> HIDE DEF all
  <2> QED
    BY <1>3, <2>1, <2>2 DEF all
<1>5. CASE name # NoName
  <2>1. name \in Names /\ SharesOf(slot) = outstanding[<<Nobody, name>>]
    BY <1>2, <1>5 DEF SharesOf
  <2> HIDE DEF name
  <2> DEFINE a == <<Nobody, name>>
  <2>2. a[1] = Nobody /\ a[2] = name /\ a \in Assets
    BY <1>2, <2>1 DEF Assets
  <2> HIDE DEF a
  <2>3. /\ \A i \in Index : IsIssuance(table, Nobody, name, i) => outstanding[a] = OwnedTotal(table, i)
        /\ (\A i \in Index : ~IsIssuance(table, Nobody, name, i)) => outstanding[a] = 0
        /\ outstanding[a] \in Nat
    BY <1>1, <2>2 DEF Balanced
  <2>4. SharesOf(slot) = outstanding[a]
    BY <2>1 DEF a
  <2>5. CASE \E i \in Index : IsIssuance(table, Nobody, name, i)
    <3>1. PICK i \in Index : IsIssuance(table, Nobody, name, i)
      BY <2>5
    <3>2. IssuanceIndex(table, Nobody, name) = i /\ i # NoIndex /\ table[i].type = "issuance"
      BY <1>1, <1>2, <3>1, IssuanceFound, RootIsNoIndex DEF IsIssuance
    <3>3. Possessions(Nobody, name) = Listed(i)
      BY <3>2 DEF Possessions, Listed
    <3>4. CreditsFor(Listed(i)) \in Seq(Credits) /\ AmountTotal(CreditsFor(Listed(i))) = OwnedTotal(table, i)
      BY <3>2, DividendTotal DEF CreditsFor
    <3> QED
      BY <2>3, <2>4, <3>1, <3>3, <3>4 DEF name
  <2>6. CASE ~\E i \in Index : IsIssuance(table, Nobody, name, i)
    <3>1. \A i : ~IsIssuance(table, Nobody, name, i)
      BY <1>1, <2>6 DEF IsIssuance
    <3> QED
      BY <1>3, <2>3, <2>4, <2>6, <3>1 DEF name
  <2> QED
    BY <2>5, <2>6
<1> QED
  BY <1>4, <1>5

LEMMA DistributeStep ==
  ASSUME AssetsInv, NEW slot \in Slots, DistributeDividends(slot)
  PROVE  MoneyGoesOn
<1> DEFINE name == contractAssetNames[slot]
           credits == CreditsFor(Possessions(Nobody, name))
           f == [stage |-> "called", unpaid |-> credits]
<1>1. /\ CodeRuns /\ ~InIncomingTransfer /\ energy[slot] >= CommitteeSize
      /\ energy' = [energy EXCEPT ![slot] = energy[slot] - CommitteeSize]
      /\ vanished' = vanished + CommitteeSize - SharesOf(slot)
      /\ frames' = Append(frames, f)
  BY DEF DistributeDividends, CreditsFor, Credit1
<1>2. credits \in Seq(Credits) /\ AmountTotal(credits) = SharesOf(slot) /\ SharesOf(slot) \in Nat
  BY OwedForShares DEF AssetsInv
<1> HIDE DEF credits
<1>3. f \in PayoutFrame /\ f \in Frames /\ IsPayout(f) /\ f.unpaid = credits
  BY <1>2 DEF PayoutFrame, Frames, IsPayout, Credits
<1> HIDE DEF f
<1>4. Unpaid(f) = SharesOf(slot)
  BY <1>2, <1>3, UnpaidOf
<1>5. /\ Nested(frames) /\ frames \in Seq(Frames) /\ Accounted(energy, frames, vanished)
      /\ Len(frames) \in Nat /\ DOMAIN frames = 1 .. Len(frames) /\ Len(frames) <= 2
  BY NestedFrames DEF AssetsInv, Nested
<1>6. \A k \in 1 .. Len(frames) : frames[k].stage \notin {"fee", "dividend"}
  BY <1>1, <1>5 DEF InIncomingTransfer
<1>7. ASSUME frames # << >> PROVE Len(frames) = 1 /\ frames[1].stage \in {"pre", "post"} /\ ~IsPayout(frames[1])
  <2>1. Len(frames) \in 1 .. Len(frames) /\ Len(frames) # 0
    BY <1>5, <1>7, EmptySeq
  <2>2. Top \in Frames /\ Top = frames[Len(frames)] /\ Top.stage # "called"
    BY <1>1, <1>5, <1>7, TopStage DEF CodeRuns
  <2>3. Top.stage \in {"pre", "fee", "called", "post", "dividend"}
    BY <2>2 DEF Frames, RightsFrame, PayoutFrame
  <2>4. Top.stage \in {"pre", "post"}
    BY <1>6, <2>1, <2>2, <2>3
  <2>5. ~IsPayout(Top)
    BY <1>5, <1>7, <2>4, TopStage
  <2>6. Len(frames) = 1
    BY <1>1, <1>5, <1>7, <2>5, TopStage
  <2> QED
    BY <2>2, <2>4, <2>5, <2>6
<1>8. Nested(frames')
  <2>1. Len(frames) <= 1
    BY <1>5, <1>7, EmptySeq
  <2> QED
    BY <1>1, <1>3, <1>5, <1>7, <2>1, NestedAppend
<1>9. UnpaidTotal(frames') = UnpaidTotal(frames) + Unpaid(f) /\ UnpaidTotal(frames) \in Nat
  BY <1>1, <1>3, <1>5, FramesAppended, FramesTotalled
<1>10. /\ energy' \in [Ids -> Nat] /\ Total(energy', Ids) = Total(energy, Ids) - CommitteeSize
       /\ Total(energy, Ids) \in Nat
  <2>1. slot \in Ids /\ CommitteeSize \in Nat /\ energy \in [Ids -> Nat]
    BY <1>5, AssetConstants DEF Ids, Accounted
  <2>2. CommitteeSize <= energy[slot]
    BY <1>1, <2>1
  <2>3. Total(energy, Ids) \in Nat
    BY <2>1, IdsFinite, TotalNat
  <2> QED
    BY <1>1, <2>1, <2>2, <2>3, Charged
<1>11. vanished \in Int /\ CommitteeSize \in Nat
       /\ Total(energy, Ids) + UnpaidTotal(frames) + vanished = Cardinality(Slots) * Endowment
  BY <1>5, AssetConstants DEF Accounted
<1>12. vanished' \in Int
       /\ Total(energy', Ids) + UnpaidTotal(frames') + vanished' = Cardinality(Slots) * Endowment
  <2> DEFINE e == Total(energy, Ids)
             v == UnpaidTotal(frames)
             whole == Cardinality(Slots) * Endowment
  <2>1. e \in Nat /\ v \in Nat /\ e + v + vanished = whole
    BY <1>9, <1>10, <1>11
  <2>2. Total(energy', Ids) = e - CommitteeSize /\ UnpaidTotal(frames') = v + Unpaid(f)
    BY <1>9, <1>10
  <2> HIDE DEF e, v, whole
  <2>3. vanished' = vanished + CommitteeSize - Unpaid(f) /\ Unpaid(f) \in Nat
    BY <1>1, <1>2, <1>4
  <2>4. (e - CommitteeSize) + (v + Unpaid(f)) + (vanished + CommitteeSize - Unpaid(f)) = whole
    BY <1>11, <2>1, <2>3
  <2> QED
    BY <1>11, <2>2, <2>3, <2>4 DEF whole
<1> QED
  BY <1>8, <1>10, <1>12 DEF MoneyGoesOn, Accounted

(***************************************************************************)
(* The invariant.                                                          *)
(***************************************************************************)

LEMMA NothingUsed == UsedIn([i \in Index |-> Hole]) = {}
BY DEF UsedIn

LEMMA AssetsInit == Init => AssetsInv
<1> SUFFICES ASSUME Init PROVE AssetsInv
  OBVIOUS
<1>1. /\ table = [i \in Index |-> Hole] /\ children = [i \in Index \cup {Root} |-> << >>]
      /\ contractAssetNames = [s \in Slots |-> NoName]
      /\ energy = [id \in Ids |-> IF id \in Slots THEN Endowment ELSE 0]
      /\ frames = << >> /\ outstanding = [a \in Ids \X Names |-> 0] /\ vanished = 0
  BY DEF Init
<1>2. Now.t = table /\ Now.c = children /\ DOMAIN Now = {"t", "c"}
  BY DEF Now
<1>3. \A i \in Index : table[i] = Hole /\ table[i].type = "hole"
  BY <1>1 DEF Hole
<1>4. IsTable(table)
  <2>1. table \in [Index -> AnyRecord]
    BY <1>1 DEF AnyRecord
  <2> QED
    BY <1>3, <2>1 DEF IsTable, Linked, Reachable, Unique
<1>5. IsChildren(table, children)
  <2>1. \A parent \in Parents : children[parent] = << >> /\ ToSet(children[parent]) = {} /\ Once(children[parent])
    BY <1>1 DEF Parents, ToSet, Once
  <2>2. \A parent \in Parents, i \in Index : ~BelongsTo(table, parent, i)
    BY <1>3 DEF BelongsTo
  <2>3. children \in [Parents -> Seq(Index)]
    BY <1>1, EmptySeq DEF Parents
  <2> QED
    BY <2>1, <2>2, <2>3 DEF IsChildren
<1>6. Paired(table)
  BY <1>3 DEF Paired
<1>7. Cardinality(UsedIn(table)) <= MaxRecords
  <2>1. Cardinality(UsedIn(table)) = 0
    BY <1>1, NothingUsed, FS_EmptySet
  <2> QED
    BY <2>1, AssetConstants
<1>8. Balanced(table, outstanding)
  <2>1. \A a \in Assets, i \in Index : ~IsIssuance(table, a[1], a[2], i)
    BY <1>3 DEF IsIssuance
  <2> QED
    BY <1>1, <2>1 DEF Balanced, Assets
<1>9. Named(contractAssetNames)
  BY <1>1 DEF Named
<1>10. Nested(frames)
  BY <1>1, EmptySeq DEF Nested
<1>11. energy \in [Ids -> Nat] /\ vanished \in Int
  BY <1>1, AssetConstants
<1>12. UnpaidTotal(frames) = 0
  BY <1>1, TotalOfNothing DEF UnpaidTotal
<1>13. Total(energy, Ids) = Cardinality(Slots) * Endowment
  <2> DEFINE Rest == Ids \ Slots
  <2>1. /\ IsFiniteSet(Slots) /\ IsFiniteSet(Rest) /\ Slots \cap Rest = {} /\ Slots \cup Rest = Ids
    BY IdsFinite, FS_Subset, AssetConstants DEF Ids
  <2>2. \A id \in Slots \cup Rest : energy[id] \in Int
    BY <1>11, <2>1
  <2>3. \A id \in Slots : energy[id] = Endowment
    BY <1>1 DEF Ids
  <2>4. \A id \in Rest : energy[id] = 0
    BY <1>1
  <2>5. Endowment \in Int /\ Cardinality(Slots) \in Nat /\ Cardinality(Rest) \in Nat
    BY <2>1, FS_CardinalityType, AssetConstants
  <2> HIDE DEF Rest
  <2>6. Total(energy, Slots \cup Rest) = Total(energy, Slots) + Total(energy, Rest)
    BY <2>1, <2>2, TotalUnion
  <2>7. Total(energy, Slots) = Cardinality(Slots) * Endowment
    BY <2>1, <2>3, <2>5, TotalOfConstant
  <2>8. Total(energy, Rest) = Cardinality(Rest) * 0
    BY <2>1, <2>4, TotalOfConstant
  <2>9. Total(energy, Slots) \in Int
    BY <2>1, <2>2, TotalInt
  <2>10. Total(energy, Ids) = Total(energy, Slots) + Total(energy, Rest)
    BY <2>1, <2>6
  <2>11. Total(energy, Rest) = 0
    BY <2>5, <2>8
  <2> QED
    BY ONLY <2>7, <2>9, <2>10, <2>11
<1>14. Accounted(energy, frames, vanished)
  <2>1. Cardinality(Slots) * Endowment + 0 + 0 = Cardinality(Slots) * Endowment
    <3>1. Cardinality(Slots) \in Nat /\ Endowment \in Nat
      BY FS_CardinalityType, AssetConstants
    <3> QED
      BY <3>1
  <2> QED
    BY <1>1, <1>11, <1>12, <1>13, <2>1 DEF Accounted
<1> QED
  BY <1>2, <1>4, <1>5, <1>6, <1>7, <1>8, <1>9, <1>10, <1>14 DEF AssetsInv, Sound, IsUniverse

LEMMA UniverseStays ==
  ASSUME AssetsInv, UNCHANGED <<contractAssetNames, universe>>
  PROVE  GoesOn
<1>1. table' = table /\ children' = children /\ outstanding' = outstanding
      /\ contractAssetNames' = contractAssetNames
  BY DEF universe
<1>2. After = Now
  BY <1>1 DEF After, Now
<1> QED
  BY <1>1, <1>2 DEF AssetsInv, GoesOn, Kept

LEMMA MoneyStays ==
  ASSUME AssetsInv, UNCHANGED <<money, frames>>
  PROVE  MoneyGoesOn
<1>1. energy' = energy /\ vanished' = vanished /\ frames' = frames
  BY DEF money
<1> QED
  BY <1>1 DEF AssetsInv, MoneyGoesOn

LEMMA InvariantAfter ==
  ASSUME Sound(After, outstanding', contractAssetNames'), MoneyGoesOn
  PROVE  AssetsInv'
BY DEF After, Now, MoneyGoesOn, AssetsInv

\* No step changes who manages what, but one that moves rights as agreed.
AsAgreed(j, s) ==
  \/ HandledTotal(table', j, s) = HandledTotal(table, j, s)
  \/ /\ Len(frames) = 1 /\ Top.stage = "called" /\ IsIssuance(table, Top.issuer, Top.name, j)
     /\ \/ s = From(Top) /\ HandledTotal(table', j, s) = HandledTotal(table, j, s) - Top.shares
        \/ s = To(Top) /\ HandledTotal(table', j, s) = HandledTotal(table, j, s) + Top.shares
Steps ==
  /\ AssetsInv' /\ Sound(After, outstanding', contractAssetNames') /\ Kept
  /\ outstanding' = outstanding => \A j \in Index, s \in Slots : table[j].type = "issuance" => AsAgreed(j, s)

LEMMA GoesOnSteps == ASSUME GoesOn, MoneyGoesOn PROVE Steps
BY InvariantAfter DEF GoesOn, Steps, AsAgreed

LEMMA OwnershipIs ==
  ASSUME AssetsInv, NEW o \in OfType("ownership")
  PROVE  table[o].id \in Ids /\ table[table[o].ref].id \in Ids /\ table[table[o].ref].name \in Names
<1>1. Linked(table) /\ table \in [Index -> AnyRecord]
  BY SoundNow DEF AssetsInv
<1>2. o \in Index /\ table[o].type = "ownership"
  BY DEF OfType, Used
<1>3. table[o].id \in Ids /\ table[o].ref \in Index /\ table[table[o].ref].type = "issuance"
  BY <1>1, <1>2, RecordCases DEF Linked
<1> QED
  BY <1>1, <1>3, RecordCases

LEMMA StepTaken ==
  ASSUME AssetsInv, Next
  PROVE  Steps
<1> USE AssetConstants
<1>1. ASSUME NEW slot \in Slots, NEW issuer \in Ids, NEW name \in Names, NEW n \in Supplies,
             IssueAsset(slot, issuer, name, n)
      PROVE  Steps
  <2>1. n \in Nat /\ UNCHANGED <<money, frames>>
    BY <1>1 DEF IssueAsset
  <2> QED
    BY <1>1, <2>1, IssueAssetStep, MoneyStays, GoesOnSteps
<1>2. ASSUME NEW slot \in Slots, NEW name \in Names, NEW holder \in Receivers, NEW n \in Mints,
             MintDeployShares(slot, name, holder, n)
      PROVE  Steps
  <2>1. holder \in Ids /\ UNCHANGED <<money, frames>>
    BY <1>2 DEF MintDeployShares, Ids
  <2> QED
    BY <1>2, <2>1, MintStep, MoneyStays, GoesOnSteps
<1>3. ASSUME NEW slot \in Slots, NEW o \in OfType("ownership"), NEW n \in Amounts,
             UseShares(slot, table[table[o].ref].id, table[table[o].ref].name, table[o].id, n)
      PROVE  Steps
  <2> DEFINE issuer == table[table[o].ref].id
             name == table[table[o].ref].name
             owner == table[o].id
  <2>1. issuer \in Ids /\ name \in Names /\ owner \in Ids /\ n \in Nat
    BY OwnershipIs
  <2>2. UseShares(slot, issuer, name, owner, n)
    BY <1>3
  <2> HIDE DEF issuer, name, owner
  <2>3. ASSUME NEW newOwner \in Receivers, TransferShares(slot, issuer, name, owner, n, newOwner) PROVE Steps
    <3>1. newOwner \in Ids /\ UNCHANGED <<money, frames>>
      BY <2>3 DEF TransferShares, Ids
    <3> QED
      BY <2>1, <2>3, <3>1, TransferStep, MoneyStays, GoesOnSteps
  <2>4. ASSUME BurnShares(slot, issuer, name, owner, n) PROVE Steps
    <3>1. UNCHANGED <<money, frames>>
      BY <2>4 DEF BurnShares
    <3> QED
      BY <2>1, <2>4, <3>1, BurnSharesStep, MoneyStays, GoesOnSteps
  <2>5. ASSUME NEW other \in Slots, NEW releases \in BOOLEAN, NEW fee \in Fees,
               AskForRights(slot, other, releases, issuer, name, owner, n, fee)
        PROVE  Steps
    <3>1. fee \in Nat /\ UNCHANGED <<contractAssetNames, universe>>
      BY <2>5 DEF AskForRights
    <3> QED
      BY <2>1, <2>5, <3>1, AskForRightsStep, UniverseStays, GoesOnSteps
  <2> QED
    BY <2>2, <2>3, <2>4, <2>5 DEF UseShares
<1>4. ASSUME RefuseRights PROVE Steps
  BY <1>4, RefuseRightsStep, UniverseStays, GoesOnSteps DEF RefuseRights
<1>5. ASSUME NEW fee \in Fees \cup {0}, AllowRights(fee) PROVE Steps
  <2>1. fee \in Nat /\ UNCHANGED <<contractAssetNames, universe>>
    BY <1>5 DEF AllowRights
  <2> QED
    BY <1>5, <2>1, AllowRightsStep, UniverseStays, GoesOnSteps
<1>6. ASSUME FeeCallbackReturns \/ PostCallbackReturns PROVE Steps
  <2>1. UNCHANGED <<contractAssetNames, universe>>
    BY <1>6 DEF FeeCallbackReturns, PostCallbackReturns
  <2> QED
    BY <1>6, <2>1, CallbackSteps, UniverseStays, GoesOnSteps
<1>7. ASSUME MoveRights PROVE Steps
  <2>1. RightsGoOn /\ MoneyGoesOn /\ Len(frames) = 1
    BY <1>7, MoveRightsStep, RightsMovedStep
  <2>2. Sound(After, outstanding', contractAssetNames')
    BY <2>1 DEF RightsGoOn
  <2>3. Top.stage = "called"
    BY <1>7 DEF MoveRights
  <2>4. \A j \in Index, s \in Slots : table[j].type = "issuance" => AsAgreed(j, s)
    BY <2>1, <2>3 DEF RightsGoOn, AsAgreed
  <2> QED
    BY <2>1, <2>2, <2>4, InvariantAfter DEF Steps, RightsGoOn
<1>8. ASSUME NEW slot \in Slots, DistributeDividends(slot) PROVE Steps
  <2>1. UNCHANGED <<contractAssetNames, universe>>
    BY <1>8 DEF DistributeDividends
  <2> QED
    BY <1>8, <2>1, DistributeStep, UniverseStays, GoesOnSteps
<1>9. ASSUME PayDividend PROVE Steps
  <2>1. UNCHANGED <<contractAssetNames, universe>>
    BY <1>9 DEF PayDividend
  <2> QED
    BY <1>9, <2>1, PayDividendStep, UniverseStays, GoesOnSteps
<1>10. ASSUME DividendCallbackReturns PROVE Steps
  <2>1. UNCHANGED <<contractAssetNames, universe>>
    BY <1>10 DEF DividendCallbackReturns
  <2> QED
    BY <1>10, <2>1, DividendCallbackStep, UniverseStays, GoesOnSteps
<1>11. ASSUME EndPayout PROVE Steps
  <2>1. UNCHANGED <<contractAssetNames, universe>>
    BY <1>11 DEF EndPayout
  <2> QED
    BY <1>11, <2>1, EndPayoutStep, UniverseStays, GoesOnSteps
<1>12. ASSUME NEW slot \in Fixtures, NEW name \in Names, SetContractAssetName(slot, name) PROVE Steps
  <2>1. slot \in Slots /\ UNCHANGED <<money, frames>>
    BY <1>12 DEF SetContractAssetName
  <2> QED
    BY <1>12, <2>1, NameStep, MoneyStays, GoesOnSteps
<1> QED
  BY <1>1, <1>2, <1>3, <1>4, <1>5, <1>6, <1>7, <1>8, <1>9, <1>10, <1>11, <1>12 DEF Next

LEMMA StepOrStutter == AssetsInv /\ [Next]_vars => Steps
<1> SUFFICES ASSUME AssetsInv, [Next]_vars PROVE Steps
  OBVIOUS
<1>1. CASE Next
  BY <1>1, StepTaken
<1>2. CASE UNCHANGED vars
  <2>1. UNCHANGED <<contractAssetNames, universe>> /\ UNCHANGED <<money, frames>>
    BY <1>2 DEF vars, universe, money
  <2> QED
    BY <2>1, UniverseStays, MoneyStays, GoesOnSteps
<1> QED
  BY <1>1, <1>2

LEMMA AssetsInvariant == Spec => []AssetsInv
<1>1. AssetsInv /\ [Next]_vars => AssetsInv'
  BY StepOrStutter DEF Steps
<1> QED
  BY <1>1, AssetsInit, PTL DEF Spec

(***************************************************************************)
(* What the invariant says of the lookups, the shares and the money.       *)
(***************************************************************************)

LEMMA UsedIs == Used = UsedIn(table) /\ \A type : OfType(type) = {i \in UsedIn(table) : table[i].type = type}
BY DEF Used, UsedIn, OfType

LEMMA TypedIs ==
  ASSUME AssetsInv, NEW type \in {"issuance", "ownership", "possession"}
  PROVE  OfType(type) = {i \in Index : table[i].type = type}
<1>1. \A i \in Index : table[i].type = type => table[i] # Hole
  BY DEF Hole
<1> QED
  BY <1>1 DEF OfType, Used

LEMMA TypesFollow == AssetsInv => TypeOK
<1> SUFFICES ASSUME AssetsInv PROVE TypeOK
  OBVIOUS
<1>1. /\ table \in [Index -> AnyRecord] /\ IsChildren(table, children)
      /\ Cardinality(UsedIn(table)) <= MaxRecords
  BY SoundNow DEF AssetsInv
<1>2. ASSUME NEW i \in Used
      PROVE IF table[i].type = "issuance" THEN table[i] \in [type : {"issuance"}, id : Ids, name : Names]
            ELSE table[i] \in [type : {"ownership", "possession"}, id : Ids, mgmt : Slots,
                               ref : Index, shares : Nat]
  <2>1. i \in Index /\ table[i] # Hole /\ table[i] \in AnyRecord
    BY <1>1 DEF Used
  <2> QED
    BY <2>1, RecordCases DEF IssuanceRecord, HoldingRecord
<1>3. children \in [Index \cup {Root} -> Seq(Index)]
  BY <1>1 DEF IsChildren, Parents
<1>4. contractAssetNames \in [Slots -> Names \cup {NoName}] /\ outstanding \in [Assets -> Nat]
  BY DEF AssetsInv, Sound, Balanced, Named
<1>5. energy \in [Ids -> Nat] /\ vanished \in Int /\ Len(frames) <= 2
  BY DEF AssetsInv, Accounted, Nested
<1> QED
  BY <1>1, <1>2, <1>3, <1>4, <1>5, UsedIs DEF TypeOK

LEMMA RecordsFollow == AssetsInv => RecordsAreFound
<1> SUFFICES ASSUME AssetsInv, NEW i \in Used
             PROVE  i = IF table[i].type = "issuance" THEN IssuanceIndex(table, table[i].id, table[i].name)
                        ELSE PlaceOf(table, table[i].type, table[i].id, table[i].mgmt, table[i].ref)
  BY DEF RecordsAreFound
<1>1. IsTable(table) /\ Roomy(table) /\ i \in Index /\ table[i] # Hole /\ table[i] \in AnyRecord
  BY SoundNow DEF AssetsInv, Used
<1>2. CASE table[i].type = "issuance"
  <2>1. table[i].id \in Ids /\ IsIssuance(table, table[i].id, table[i].name, i)
    BY <1>1, <1>2, RecordCases DEF IsIssuance
  <2> QED
    BY <1>1, <1>2, <2>1, IssuanceFound
<1>3. CASE table[i].type # "issuance"
  <2>1. table[i].type \in {"ownership", "possession"} /\ table[i].id \in Ids
    BY <1>1, <1>3, RecordCases
  <2>2. IsHolding(table[i], table[i].type, table[i].id, table[i].mgmt, table[i].ref)
    BY DEF IsHolding
  <2> QED
    BY <1>1, <1>3, <2>1, <2>2, PlaceFound
<1> QED
  BY <1>2, <1>3

\* A list that holds each element once is as long as the set it lists.
LEMMA OnceIsCounted ==
  ASSUME NEW s \in Seq(Index), Once(s)
  PROVE  Len(s) = Cardinality(ToSet(s))
<1> DEFINE D == 1 .. Len(s)
           T == ToSet(s)
           f == [k \in D |-> 1]
           g == [i \in T |-> 1]
<1>1. Len(s) \in Nat /\ DOMAIN s = D
  BY LenProperties
<1>2. IsFiniteSet(D) /\ Cardinality(D) = Len(s)
  <2> DEFINE n == Len(s)
  <2>1. n \in Nat /\ n = IF n < 1 THEN 0 ELSE n - 1 + 1
    BY <1>1
  <2> HIDE DEF n
  <2>2. IsFiniteSet(1 .. n) /\ Cardinality(1 .. n) = IF 1 > n THEN 0 ELSE n - 1 + 1
    BY <2>1, FS_Interval
  <2>3. (IF 1 > n THEN 0 ELSE n - 1 + 1) = n
    BY <2>1
  <2> QED
    BY <2>2, <2>3 DEF n
<1>3. \A k \in D : f[k] \in Int /\ s[k] \in T /\ g[s[k]] = f[k]
  BY <1>1 DEF ToSet
<1>4. \A j \in D, k \in D : s[j] = s[k] => j = k
  BY <1>1 DEF Once
<1>5. \A i \in T : \E k \in D : s[k] = i
  BY <1>1 DEF ToSet
<1>6. IsFiniteSet(T)
  <2>1. T \subseteq Index
    BY <1>1, ElementOfSeq DEF ToSet
  <2> QED
    BY <2>1, IndexFinite, FS_Subset
<1>7. \A k \in D : f[k] = 1
  OBVIOUS
<1>8. \A i \in T : g[i] = 1
  OBVIOUS
<1> HIDE DEF f, g, T, D
<1>9. Total(g, T) = Total(f, D)
  BY <1>2, <1>3, <1>4, <1>5, TotalImage
<1>10. Total(f, D) = Cardinality(D) * 1 /\ Total(g, T) = Cardinality(T) * 1
  BY <1>2, <1>6, <1>7, <1>8, TotalOfConstant
<1>11. Cardinality(D) \in Nat /\ Cardinality(T) \in Nat
  BY <1>2, <1>6, FS_CardinalityType
<1>12. Cardinality(D) = Cardinality(T)
  BY ONLY <1>9, <1>10, <1>11
<1> QED
  BY <1>2, <1>12 DEF T

LEMMA WalksFollow == AssetsInv => WalksAgree
<1> SUFFICES ASSUME AssetsInv PROVE WalksAgree
  OBVIOUS
<1>1. IsTable(table) /\ Roomy(table) /\ Linked(table) /\ IsChildren(table, children)
  BY SoundNow DEF AssetsInv
<1>2. \A parent \in Parents : /\ children[parent] \in Seq(Index) /\ Once(children[parent])
                              /\ ListedChildren(parent) = {i \in Index : BelongsTo(table, parent, i)}
  <2> SUFFICES ASSUME NEW parent \in Parents
               PROVE  /\ children[parent] \in Seq(Index) /\ Once(children[parent])
                      /\ ListedChildren(parent) = {i \in Index : BelongsTo(table, parent, i)}
    OBVIOUS
  <2> DEFINE s == children[parent]
  <2>1. s \in Seq(Index) /\ Once(s) /\ \A i \in Index : i \in ToSet(s) <=> BelongsTo(table, parent, i)
    BY <1>1 DEF IsChildren
  <2> HIDE DEF s
  <2>2. ToSet(s) \subseteq Index
    BY <2>1, LenProperties, ElementOfSeq DEF ToSet
  <2> QED
    BY <2>1, <2>2 DEF ListedChildren, s
<1>3. ListedChildren(Root) = OfType("issuance")
  BY <1>2, TypedIs DEF Parents, BelongsTo
<1>4. ASSUME NEW parent \in OfType("issuance") \cup OfType("ownership"),
             NEW type, type = IF table[parent].type = "issuance" THEN "ownership" ELSE "possession"
      PROVE  /\ ListedChildren(parent) = ChildrenOf(type, parent)
             /\ Len(children[parent]) = Cardinality(ListedChildren(parent))
             /\ \A id \in Ids : ProbedChildren(table, type, parent, id)
                                  = {c \in ListedChildren(parent) : table[c].id = id}
  <2>1. /\ parent \in Index /\ parent \in Parents /\ parent # Root
        /\ table[parent].type \in {"issuance", "ownership"} /\ type \in {"ownership", "possession"}
    BY <1>4, TypedIs, RootIsNoIndex DEF Parents
  <2>2. \A i \in Index : BelongsTo(table, parent, i) <=> table[i].type = type /\ table[i].ref = parent
    BY <1>1, <1>4, <2>1 DEF BelongsTo, Linked
  <2>3. ListedChildren(parent) = {i \in Index : table[i].type = type /\ table[i].ref = parent}
    BY <1>2, <2>1, <2>2
  <2>4. ChildrenOf(type, parent) = {i \in Index : table[i].type = type /\ table[i].ref = parent}
    BY <2>1, TypedIs DEF ChildrenOf
  <2>5. Len(children[parent]) = Cardinality(ListedChildren(parent))
    BY <1>2, <2>1, OnceIsCounted DEF ListedChildren
  <2>6. ASSUME NEW id \in Ids
        PROVE  ProbedChildren(table, type, parent, id) = {c \in ListedChildren(parent) : table[c].id = id}
    BY <1>1, <2>1, <2>3, AllChildrenProbed
  <2> QED
    BY <2>3, <2>4, <2>5, <2>6
<1> QED
  BY <1>3, <1>4 DEF WalksAgree

LEMMA SearchesFollow == AssetsInv => SearchesAgree
<1> SUFFICES ASSUME AssetsInv, NEW a \in IssuedAssets, NEW owner \in Ids, NEW slot \in Slots
    PROVE  /\ NumberOfPossessedShares(table, a[1], a[2], owner, slot, slot) > 0 =>
                HeldBy(table, a[1], a[2], owner, slot).own # NoIndex
           /\ HeldBy(table, a[1], a[2], owner, slot).own # NoIndex =>
                table[HeldBy(table, a[1], a[2], owner, slot).pos].shares
                  = NumberOfPossessedShares(table, a[1], a[2], owner, slot, slot)
           /\ HeldBy(table, a[1], a[2], owner, slot) = RightsHeldBy(table, a[1], a[2], owner, slot)
  BY DEF SearchesAgree
<1>1. IsTable(table) /\ Roomy(table) /\ Paired(table) /\ table \in [Index -> AnyRecord]
  BY SoundNow DEF AssetsInv
<1> DEFINE issuer == a[1]
           name == a[2]
<1>2. issuer \in Ids
  <2>1. PICK i \in OfType("issuance") : a = <<table[i].id, table[i].name>>
    BY DEF IssuedAssets
  <2>2. i \in Index /\ table[i].type = "issuance"
    BY TypedIs
  <2> QED
    BY <1>1, <2>1, <2>2, RecordCases
<1> HIDE DEF issuer, name
<1> DEFINE n == NumberOfPossessedShares(table, issuer, name, owner, slot, slot)
           h == HeldBy(table, issuer, name, owner, slot)
           r == RightsHeldBy(table, issuer, name, owner, slot)
<1>3. CASE \E i, from : IsIssuance(table, issuer, name, i) /\ IsHeld(table, i, owner, slot, from)
  <2>1. PICK i, from : IsIssuance(table, issuer, name, i) /\ IsHeld(table, i, owner, slot, from)
    BY <1>3
  <2>2. n = table[from.pos].shares /\ h = from /\ r = from
    BY <1>1, <1>2, <2>1, HeldFound
  <2>3. from.own # NoIndex
    BY <2>1, HeldIsSource
  <2> HIDE DEF n, h, r
  <2> QED
    BY <2>2, <2>3 DEF n, h, r, issuer, name
<1>4. CASE ~\E i, from : IsIssuance(table, issuer, name, i) /\ IsHeld(table, i, owner, slot, from)
  <2>1. n = 0 /\ h = NoHolding /\ r = NoHolding
    BY <1>1, <1>2, <1>4, NothingFound
  <2>2. NoHolding.own = NoIndex
    BY DEF NoHolding
  <2> HIDE DEF n, h, r
  <2>3. ~(n > 0) /\ h.own = NoIndex /\ h = r
    BY <2>1, <2>2
  <2> QED
    BY <2>3 DEF n, h, r, issuer, name
<1> QED
  BY <1>3, <1>4

\* LookupsAgree, of every table size and wherever the probes start: however the
\* records came about, probing for a key, walking a parent's children and
\* searching what a contract manages find the same records.
THEOREM AllLookupsAgree == Spec => []LookupsAgree
<1>1. AssetsInv => LookupsAgree
  BY TypesFollow, RecordsFollow, WalksFollow, SearchesFollow DEF LookupsAgree
<1> QED
  BY <1>1, AssetsInvariant, PTL

\* The sums of the properties are the sums of the invariant.
LEMMA SharesOfOwnerships ==
  ASSUME AssetsInv, NEW i
  PROVE  SharesIn(ChildrenOf("ownership", i)) = OwnedTotal(table, i)
<1> DEFINE T == {o \in Index : table[o].type = "ownership" /\ table[o].ref = i}
           f == [o \in T |-> table[o].shares]
           g == Owned(table, i)
<1>1. table \in [Index -> AnyRecord]
  BY SoundNow DEF AssetsInv
<1>2. ChildrenOf("ownership", i) = T
  BY TypedIs DEF ChildrenOf
<1>3. /\ T \subseteq Index /\ IsFiniteSet(T) /\ \A o \in T : g[o] = f[o]
      /\ \A o \in Index : o \notin T => g[o] = 0
  BY IndexFinite, FS_Subset DEF Owned
<1>4. \A o \in Index : g[o] \in Int
  BY <1>1, OwnedNat
<1>5. SharesIn(T) = Total(f, T)
  BY DEF SharesIn
<1> HIDE DEF T, f, g
<1>6. Total(g, T) = Total(f, T)
  BY <1>3, TotalAgrees
<1>7. Total(g, Index) = Total(g, T)
  BY <1>3, <1>4, IndexFinite, TotalOfPart
<1> QED
  BY <1>2, <1>5, <1>6, <1>7 DEF OwnedTotal, g

LEMMA SharesOfManager ==
  ASSUME AssetsInv, NEW a, NEW slot
  PROVE  Managed(a, slot) = HandledTotal(table, IssuanceIndex(table, a[1], a[2]), slot)
<1> DEFINE i == IssuanceIndex(table, a[1], a[2])
           T == {p \in OfType("possession") : table[p].mgmt = slot /\ table[table[p].ref].ref = i}
           f == [p \in T |-> table[p].shares]
           g == Handled(table, i, slot)
<1>1. table \in [Index -> AnyRecord]
  BY SoundNow DEF AssetsInv
<1>2. Managed(a, slot) = SharesIn(T)
  BY DEF Managed
<1> HIDE DEF i
<1>3. T = {p \in Index : table[p].type = "possession" /\ table[p].mgmt = slot /\ table[table[p].ref].ref = i}
  BY TypedIs
<1>4. /\ T \subseteq Index /\ IsFiniteSet(T) /\ \A p \in T : g[p] = f[p]
      /\ \A p \in Index : p \notin T => g[p] = 0
  BY <1>3, IndexFinite, FS_Subset DEF Handled
<1>5. \A p \in Index : g[p] \in Int
  BY <1>1, HandledNat
<1>6. SharesIn(T) = Total(f, T)
  BY DEF SharesIn
<1> HIDE DEF T, f, g
<1>7. Total(g, T) = Total(f, T)
  BY <1>4, TotalAgrees
<1>8. Total(g, Index) = Total(g, T)
  BY <1>4, <1>5, IndexFinite, TotalOfPart
<1> QED
  BY <1>2, <1>6, <1>7, <1>8 DEF HandledTotal, g, i

LEMMA ConservedFollows == AssetsInv => SharesConserved
<1> SUFFICES ASSUME AssetsInv PROVE SharesConserved
  OBVIOUS
<1>1. /\ IsTable(table) /\ Roomy(table) /\ Paired(table) /\ table \in [Index -> AnyRecord]
      /\ Balanced(table, outstanding)
  BY SoundNow DEF AssetsInv, Sound, Now
<1>2. ASSUME NEW a \in Assets
      PROVE  outstanding[a] = IF IssuanceIndex(table, a[1], a[2]) = NoIndex THEN 0
                              ELSE SharesIn(ChildrenOf("ownership", IssuanceIndex(table, a[1], a[2])))
  <2> DEFINE i == IssuanceIndex(table, a[1], a[2])
  <2>1. a[1] \in Ids
    BY DEF Assets
  <2>2. \/ IsIssuance(table, a[1], a[2], i)
        \/ i = NoIndex /\ \A j : ~IsIssuance(table, a[1], a[2], j)
    BY <1>1, <2>1, IssuanceSought
  <2> HIDE DEF i
  <2>3. CASE IsIssuance(table, a[1], a[2], i)
    <3>1. i \in Index /\ i # NoIndex
      BY <2>3, RootIsNoIndex DEF IsIssuance
    <3>2. outstanding[a] = OwnedTotal(table, i)
      BY <1>1, <2>3, <3>1 DEF Balanced
    <3> QED
      BY <3>1, <3>2, SharesOfOwnerships DEF i
  <2>4. CASE i = NoIndex /\ \A j : ~IsIssuance(table, a[1], a[2], j)
    <3>1. outstanding[a] = 0
      BY <1>1, <2>4 DEF Balanced
    <3> QED
      BY <2>4, <3>1 DEF i
  <2> QED
    BY <2>2, <2>3, <2>4
<1>3. ASSUME NEW o \in OfType("ownership")
      PROVE  table[o].shares = SharesIn(ChildrenOf("possession", o))
  <2>1. o \in Index /\ table[o].type = "ownership"
    BY <1>3, TypedIs
  <2>2. PICK p \in Index : table[p].type = "possession" /\ table[p].ref = o
    BY <1>1, <2>1 DEF Paired
  <2>3. ChildrenOf("possession", o) = {p}
    <3>1. \A q \in ChildrenOf("possession", o) : q = p
      BY <1>1, <2>2, TypedIs, OnePossession DEF ChildrenOf
    <3>2. p \in ChildrenOf("possession", o)
      BY <2>2, TypedIs DEF ChildrenOf
    <3> QED
      BY <3>1, <3>2
  <2> DEFINE f == [q \in {p} |-> table[q].shares]
  <2>4. SharesIn({p}) = Total(f, {p})
    BY DEF SharesIn
  <2>5. f[p] = table[p].shares /\ table[p].shares \in Nat
    BY <1>1, <2>2, RecordCases
  <2>6. Total(f, {p}) = f[p]
    <3> HIDE DEF f
    <3>1. /\ p \notin {} /\ {} \cup {p} = {p} /\ IsFiniteSet({})
          /\ \A x \in {} \cup {p} : f[x] \in Int
      BY <2>5, FS_EmptySet
    <3>2. Total(f, {} \cup {p}) = Total(f, {}) + f[p]
      BY <3>1, TotalAdd
    <3> QED
      BY <2>5, <3>1, <3>2, TotalOfNothing
  <2>7. table[p].shares = table[o].shares
    BY <1>1, <2>2 DEF Paired
  <2> QED
    BY <2>3, <2>4, <2>5, <2>6, <2>7
<1> QED
  BY <1>2, <1>3 DEF SharesConserved

\* SharesConserved: whatever is issued, moved, burned and handed over, also onto
\* itself and in the middle of a callback, the ownerships of an asset add up to
\* what was issued and not burned, and the possessions to their ownership.
THEOREM SharesStayConserved == Spec => []SharesConserved
BY ConservedFollows, AssetsInvariant, PTL

\* MoneyConserved: a dividend is debited at once and credited one possessor at a
\* time, with calls of contracts in between: it reaches every outstanding share
\* once, and no money is lost or made but the difference between the committee's
\* number and the shares there are.
THEOREM MoneyStaysConserved == Spec => []MoneyConserved
<1>1. AssetsInv => MoneyConserved
  BY DEF AssetsInv, Accounted, UnpaidTotal, MoneyConserved
<1> QED
  BY <1>1, AssetsInvariant, PTL

(***************************************************************************)
(* Who manages the shares.                                                 *)
(***************************************************************************)

ManagedIs ==
  /\ IsTable(table) /\ Roomy(table)
  /\ \A a, slot : Managed(a, slot) = HandledTotal(table, IssuanceIndex(table, a[1], a[2]), slot)

LEMMA ManagedFollows == AssetsInv => ManagedIs
BY SoundNow, SharesOfManager DEF AssetsInv, ManagedIs

MovesAsAgreed ==
  table' # table /\ outstanding' = outstanding =>
    \A a \in IssuedAssets, slot \in Slots :
      Managed(a, slot)' # Managed(a, slot) =>
        /\ Len(frames) = 1 /\ Top.stage = "called" /\ a = <<Top.issuer, Top.name>>
        /\ \/ slot = From(Top) /\ Managed(a, slot)' = Managed(a, slot) - Top.shares
           \/ slot = To(Top) /\ Managed(a, slot)' = Managed(a, slot) + Top.shares

LEMMA MovesFollow ==
  ASSUME AssetsInv, Steps, ManagedIs, ManagedIs'
  PROVE  MovesAsAgreed
<1> SUFFICES ASSUME NEW a \in IssuedAssets, NEW slot \in Slots,
                    outstanding' = outstanding, Managed(a, slot)' # Managed(a, slot)
    PROVE  /\ Len(frames) = 1 /\ Top.stage = "called" /\ a = <<Top.issuer, Top.name>>
           /\ \/ slot = From(Top) /\ Managed(a, slot)' = Managed(a, slot) - Top.shares
              \/ slot = To(Top) /\ Managed(a, slot)' = Managed(a, slot) + Top.shares
  BY DEF MovesAsAgreed
<1>1. PICK i \in OfType("issuance") : a = <<table[i].id, table[i].name>>
  BY DEF IssuedAssets
<1>2. i \in Index /\ table[i].type = "issuance"
  BY <1>1, TypedIs
<1>3. /\ IsTable(table) /\ Roomy(table) /\ IsTable(table') /\ Roomy(table')
      /\ Managed(a, slot) = HandledTotal(table, IssuanceIndex(table, a[1], a[2]), slot)
      /\ Managed(a, slot)' = HandledTotal(table', IssuanceIndex(table', a[1], a[2]), slot)
  BY DEF ManagedIs
<1>4. IsIssuance(table, a[1], a[2], i) /\ IsIssuance(table', a[1], a[2], i) /\ a[1] \in Ids
  <2>1. table[i].id \in Ids
    BY <1>2, <1>3, RecordCases DEF IsTable
  <2>2. IsIssuance(table, a[1], a[2], i)
    BY <1>1, <1>2 DEF IsIssuance
  <2> QED
    BY <1>1, <2>1, <2>2 DEF Steps, Kept
<1>5. IssuanceIndex(table, a[1], a[2]) = i /\ IssuanceIndex(table', a[1], a[2]) = i
  BY <1>3, <1>4, IssuanceFound
<1>6. AsAgreed(i, slot)
  BY <1>2 DEF Steps
<1>7. IsIssuance(table, Top.issuer, Top.name, i) => a = <<Top.issuer, Top.name>>
  BY <1>1 DEF IsIssuance
<1> QED
  BY <1>3, <1>5, <1>6, <1>7 DEF AsAgreed

\* RightsMoveAsAgreed: shares that stay outstanding change their manager only in
\* the one call that agreed on them with the other contract, by the number agreed
\* on, and never while another call waits for a callback.
THEOREM RightsMoveOnlyAsAgreed == Spec => RightsMoveAsAgreed
<1>1. AssetsInv /\ ManagedIs /\ ManagedIs' /\ [Next]_vars => MovesAsAgreed
  BY StepOrStutter, MovesFollow
<1>2. RightsMoveAsAgreed <=> [][MovesAsAgreed]_vars
  BY DEF RightsMoveAsAgreed, MovesAsAgreed
<1> QED
  BY <1>1, <1>2, ManagedFollows, AssetsInvariant, PTL DEF Spec
=============================================================================
