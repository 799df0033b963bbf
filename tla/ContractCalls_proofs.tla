------------------------ MODULE ContractCalls_proofs ------------------------
EXTENDS ContractCalls, Sums_proofs

(***************************************************************************)
(* What ContractCalls checks on small instances, for every number of       *)
(* contracts, call buffers, callers and units of money and time.           *)
(*                                                                         *)
(* Money and time are sums over contracts and over the frames of a stack:  *)
(* Sums_proofs says what one changed entry, one pushed frame or one        *)
(* unwinding does to such a sum.  The bound of the stack rests on Shape:   *)
(* notices, proposals and callbacks of rights do not nest, between them    *)
(* calls go down in the index, a notification stays on its contract, and   *)
(* no call but a callback of rights is entered with Buffers calls open.    *)
(***************************************************************************)

(***************************************************************************)
(* The shape of the stack.  Each conjunct of Fits is about a frame and     *)
(* the ones below it, so that it survives what happens above.              *)
(***************************************************************************)

IsCall(f) == f.via \in {"invoke", "function"} \/ InCallback(f)

Proposes(f) == f.via = "proposal" \/ f.next = "proposal"
MovesRights(f) == f.via \in {"pre", "post"}

\* The calls that ask for a buffer, the notices of their rewards among them.
IsDeep(f) == f.via \in {"invoke", "function"} \/ f.next = "invoke" \/ Proposes(f)

\* Calls of a lower index only, and the notices of their rewards.
Descends(f) == f.via \in {"invoke", "function"} \/ f.next = "invoke"

\* What leads to no contract with a higher index.
Falls(f) == Descends(f) \/ f.via = "notification"

CallsBelow(st, i) == {j \in 1 .. i - 1 : IsCall(st[j])}

Follows == {"transaction", "procedure", "invoke", "proposal", "post"}

Fits(st, i) ==
  /\ (st[i].via \in Roots \/ st[i].next \in {"transaction", "procedure"}) => i = 1
  /\ st[i].via = "pre" => i > 1
  /\ st[i].next # "none" => st[i].via = "notice" /\ st[i].next \in Follows
  /\ st[i].via = "notice" => \A j \in 1 .. i - 1 : st[j].via # "notice"
  /\ Proposes(st[i]) => \A j \in 1 .. i - 1 : ~Proposes(st[j])
  /\ (MovesRights(st[i]) \/ st[i].next = "post") => \A j \in 1 .. i - 1 : ~MovesRights(st[j])
  /\ IsDeep(st[i]) => Cardinality(CallsBelow(st, i)) < Buffers
  /\ st[i].via = "notification" => i > 1 /\ st[i].slot = st[i - 1].slot
  /\ \A j \in 1 .. i - 1 : (\A k \in j + 1 .. i - 1 : Falls(st[k])) =>
       /\ Descends(st[i]) => st[i].slot < st[j].slot
       /\ Falls(st[i]) => st[i].slot <= st[j].slot

Shape(st) == \A i \in 1 .. Len(st) : Fits(st, i)

\* Neither of a contract out of service may be what its notice announces.
RunsErrored == {"procedure", "query", "delivery", "notification", "invoke", "function"}
AsksForReserve == {"transaction", "procedure", "hook", "invoke", "function"}

DormantIsCalledBack(f) ==
  ReserveOk(f.slot) \/ (f.via \notin AsksForReserve /\ f.next \notin AsksForReserve)

DormantNow == \A i \in DOMAIN frames : DormantIsCalledBack(frames[i])

-----------------------------------------------------------------------------

\* A set of numbers has a least one.
LEMMA MinIsLeast ==
  ASSUME NEW S \in SUBSET Nat, S # {}
  PROVE  Sets!Min(S) \in S /\ \A x \in S : Sets!Min(S) <= x
<1>1. PICK m \in S : \A k \in S : ~ (<<k, m>> \in OpToRel(<, Nat))
  BY NatLessThanWellFounded, WFMin, Zenon
<1>2. ASSUME NEW k \in S PROVE m <= k
  <2>1. ~(k < m)
    BY <1>1, Zenon DEF OpToRel
  <2> QED
    BY ONLY <2>1, S \in SUBSET Nat, m \in S, k \in S
<1> QED
  BY <1>2 DEF Sets!Min

\* A set of numbers with a bound has a greatest one.
LEMMA MaxIsGreatest ==
  ASSUME NEW n \in Nat, NEW S \in SUBSET (0 .. n), S # {}
  PROVE  Sets!Max(S) \in S /\ \A x \in S : x <= Sets!Max(S)
<1> DEFINE T == {n - x : x \in S}
           m == Sets!Min(T)
<1>1. T \in SUBSET Nat /\ T # {}
  <2>1. ASSUME NEW x \in S PROVE n - x \in Nat
    OBVIOUS
  <2> QED
    BY <2>1, Zenon
<1>2. m \in T /\ \A x \in T : m <= x
  <2> HIDE DEF T
  <2> QED BY <1>1, MinIsLeast
<1> HIDE DEF m
<1>3. PICK y \in S : m = n - y
  BY <1>2
<1>4. ASSUME NEW x \in S PROVE x <= y
  <2>1. m <= n - x
    BY <1>2
  <2>2. x \in Nat /\ y \in Nat
    OBVIOUS
  <2> QED
    BY <1>3, <2>1, <2>2
<1> QED
  BY <1>4 DEF Sets!Max

-----------------------------------------------------------------------------

\* Whether a frame fits is a matter of it and the ones below.
LEMMA FitsBelow ==
  ASSUME NEW st, NEW ts, NEW i \in Nat \ {0}, \A k \in 1 .. i : st[k] = ts[k], Fits(st, i)
  PROVE  Fits(ts, i)
<1>1. CallsBelow(ts, i) = CallsBelow(st, i)
  BY DEF CallsBelow
<1>2. st[i] = ts[i] /\ \A k \in 1 .. i - 1 : st[k] = ts[k]
  OBVIOUS
<1>3. \A j \in 1 .. i - 1 : (\A k \in j + 1 .. i - 1 : Falls(ts[k])) =>
        /\ Descends(ts[i]) => ts[i].slot < ts[j].slot
        /\ Falls(ts[i]) => ts[i].slot <= ts[j].slot
  BY <1>2 DEF Fits
<1>4. ts[i].via = "notification" => i > 1 /\ ts[i].slot = ts[i - 1].slot
  <2>1. i > 1 => i - 1 \in 1 .. i - 1
    OBVIOUS
  <2> QED
    BY <1>2, <2>1 DEF Fits
<1> QED
  BY <1>1, <1>2, <1>3, <1>4 DEF Fits

LEMMA PartOf ==
  ASSUME NEW st \in Seq(Frames), NEW k \in 0 .. Len(st)
  PROVE  /\ SubSeq(st, 1, k) \in Seq(Frames) /\ Len(SubSeq(st, 1, k)) = k
         /\ \A i \in 1 .. k : SubSeq(st, 1, k)[i] = st[i]
OBVIOUS

LEMMA ShapeOfPart ==
  ASSUME NEW st \in Seq(Frames), Shape(st), NEW k \in 0 .. Len(st)
  PROVE  SubSeq(st, 1, k) \in Seq(Frames) /\ Shape(SubSeq(st, 1, k))
<1> DEFINE ts == SubSeq(st, 1, k)
<1>1. ts \in Seq(Frames) /\ Len(ts) = k /\ \A i \in 1 .. k : ts[i] = st[i]
  OBVIOUS
<1> HIDE DEF ts
<1>2. ASSUME NEW i \in 1 .. k PROVE Fits(ts, i)
  <2>1. Fits(st, i)
    BY DEF Shape
  <2> QED
    BY <1>1, <2>1, FitsBelow
<1>3. Shape(ts)
  BY <1>1, <1>2 DEF Shape
<1> QED
  BY <1>1, <1>3 DEF ts

LEMMA ShapeOfPush ==
  ASSUME NEW st \in Seq(Frames), Shape(st), NEW f \in Frames,
         Fits(Append(st, f), Len(st) + 1)
  PROVE  Append(st, f) \in Seq(Frames) /\ Shape(Append(st, f))
<1> DEFINE ts == Append(st, f)
           n == Len(st)
<1>1. ts \in Seq(Frames) /\ Len(ts) = n + 1 /\ n \in Nat /\ \A i \in 1 .. n : ts[i] = st[i]
  OBVIOUS
<1>0. Fits(ts, n + 1)
  OBVIOUS
<1> HIDE DEF ts, n
<1>2. ASSUME NEW i \in 1 .. n PROVE Fits(ts, i)
  <2>1. Fits(st, i)
    BY DEF Shape, n
  <2> QED
    BY <1>1, <2>1, FitsBelow
<1>3. Shape(ts)
  BY <1>0, <1>1, <1>2 DEF Shape
<1> QED
  BY <1>1, <1>3 DEF ts

\* What a frame has to satisfy to be put on a stack.
LEMMA PushFits ==
  ASSUME NEW st \in Seq(Frames), NEW f \in Frames,
         (f.via \in Roots \/ f.next \in {"transaction", "procedure"}) => st = << >>,
         f.via \in {"pre", "notification"} => st # << >>,
         f.next # "none" => f.via = "notice" /\ f.next \in Follows,
         f.via = "notice" => \A j \in 1 .. Len(st) : st[j].via # "notice",
         Proposes(f) => \A j \in 1 .. Len(st) : ~Proposes(st[j]),
         (MovesRights(f) \/ f.next = "post") => \A j \in 1 .. Len(st) : ~MovesRights(st[j]),
         IsDeep(f) => Cardinality(CallsBelow(st, Len(st) + 1)) < Buffers,
         f.via = "notification" => f.slot = st[Len(st)].slot,
         \A j \in 1 .. Len(st) : (\A k \in j + 1 .. Len(st) : Falls(st[k])) =>
           /\ Descends(f) => f.slot < st[j].slot
           /\ Falls(f) => f.slot <= st[j].slot
  PROVE  Fits(Append(st, f), Len(st) + 1)
<1> DEFINE ts == Append(st, f)
           n == Len(st)
<1>1. n \in Nat /\ ts[n + 1] = f /\ \A i \in 1 .. n : ts[i] = st[i]
  OBVIOUS
<1>2. st = << >> <=> n = 0
  OBVIOUS
<1> HIDE DEF ts
<1>3. (n + 1) - 1 = n
  BY <1>1
<1>4. CallsBelow(ts, n + 1) = CallsBelow(st, n + 1)
  BY <1>1 DEF CallsBelow
<1>5. \A j \in 1 .. n : (\A k \in j + 1 .. n : Falls(ts[k])) =>
        /\ Descends(f) => f.slot < ts[j].slot
        /\ Falls(f) => f.slot <= ts[j].slot
  BY <1>1
<1>6. (f.via = "notice" => \A j \in 1 .. n : ts[j].via # "notice")
      /\ (Proposes(f) => \A j \in 1 .. n : ~Proposes(ts[j]))
      /\ (MovesRights(f) \/ f.next = "post" => \A j \in 1 .. n : ~MovesRights(ts[j]))
  BY <1>1
<1>7. f.via \in {"pre", "notification"} => n + 1 > 1 /\ n \in 1 .. n
  BY <1>1, <1>2
<1>8. f.via = "notification" => f.slot = ts[n].slot
  BY <1>1, <1>7
<1>9. (f.via \in Roots \/ f.next \in {"transaction", "procedure"}) => n + 1 = 1
  BY <1>2
<1> HIDE DEF n
<1>10. IsDeep(f) => Cardinality(CallsBelow(ts, n + 1)) < Buffers
  BY <1>4 DEF n
<1>11. Fits(ts, n + 1)
  BY <1>1, <1>3, <1>5, <1>6, <1>7, <1>8, <1>9, <1>10 DEF Fits
<1> QED
  BY <1>11 DEF ts, n

\* What is below the top of a stack is below every frame the top falls from.
LEMMA BelowTheTop ==
  ASSUME NEW st \in Seq(Frames), Shape(st), st # << >>, NEW s \in Slots, s <= st[Len(st)].slot,
         NEW j \in 1 .. Len(st), \A k \in j + 1 .. Len(st) : Falls(st[k])
  PROVE  s <= st[j].slot /\ (s < st[Len(st)].slot => s < st[j].slot)
<1> DEFINE n == Len(st)
<1>1. n \in 1 .. Len(st) /\ n \in Nat
  OBVIOUS
<1>2. CASE j = n
  BY <1>2
<1>3. CASE j # n
  <2>1. Falls(st[n]) /\ j \in 1 .. n - 1 /\ \A k \in j + 1 .. n - 1 : Falls(st[k])
    BY <1>1, <1>3
  <2>2. Fits(st, n)
    BY <1>1 DEF Shape
  <2>3. st[n].slot <= st[j].slot
    BY <2>1, <2>2 DEF Fits
  <2>4. st[n].slot \in Nat /\ st[j].slot \in Nat /\ s \in Nat
    <3>1. st[n] \in Frames /\ st[j] \in Frames
      BY <1>1
    <3> QED
      BY <3>1, CallConstants DEF Frames
  <2> QED
    BY <2>3, <2>4
<1> QED
  BY <1>2, <1>3

\* The depths the code counts, as statements about the frames.
LEMMA Depths ==
  ASSUME frames \in Seq(Frames)
  PROVE  /\ PitDepth \in Nat /\ CallDepth \in Nat
         /\ PitDepth = 0 => \A j \in 1 .. Len(frames) : frames[j].via # "notice"
         /\ CallDepth = Cardinality(CallsBelow(frames, Len(frames) + 1))
<1> DEFINE P == {i \in DOMAIN frames : frames[i].via = "notice"}
           C == {i \in DOMAIN frames : IsCall(frames[i])}
<1>1. Len(frames) \in Nat /\ DOMAIN frames = 1 .. Len(frames)
  OBVIOUS
<1>2. IsFiniteSet(DOMAIN frames)
  BY <1>1, FS_Interval
<1>3. IsFiniteSet(P) /\ IsFiniteSet(C)
  BY <1>2, FS_Subset
<1>4. PitDepth = Cardinality(P) /\ CallDepth = Cardinality(C)
  BY DEF PitDepth, CallDepth, IsCall
<1>5. C = CallsBelow(frames, Len(frames) + 1)
  BY <1>1 DEF CallsBelow
<1>6. PitDepth = 0 => P = {}
  BY <1>3, <1>4, FS_EmptySet
<1> QED
  BY <1>1, <1>3, <1>4, <1>5, <1>6, FS_CardinalityType

-----------------------------------------------------------------------------

LEMMA IdsAreFinite == IsFiniteSet(Ids)
BY CallConstants, FS_Union DEF Ids

\* A transfer moves energy and makes none, also from an account to itself.
LEMMA MovedEnergy ==
  ASSUME balance \in [Ids -> Nat], NEW from \in Ids, NEW to \in Ids, NEW amount \in Nat,
         amount <= balance[from]
  PROVE  /\ Moved(from, to, amount) \in [Ids -> Nat]
         /\ Total(Moved(from, to, amount), Ids) = Total(balance, Ids)
<1> DEFINE g == Moved(from, to, amount)
<1>1. /\ g \in [Ids -> Nat]
      /\ \A x \in Ids : x # from /\ x # to => g[x] = balance[x]
      /\ from = to => g[from] = balance[from]
      /\ from # to => g[from] = balance[from] - amount /\ g[to] = balance[to] + amount
  BY DEF Moved
<1> HIDE DEF g
<1>2. \A x \in Ids : balance[x] \in Int /\ g[x] \in Int
  BY <1>1
<1>3. Total(g, Ids) = Total(balance, Ids)
  BY <1>1, <1>2, IdsAreFinite, TotalMoved
<1> QED
  BY <1>1, <1>3 DEF g

-----------------------------------------------------------------------------

\* The time a stack's frames hold of a contract.
HeldTimeOf(st) == [i \in DOMAIN st |-> st[i].saved + 1]
OfSlot(st, s) == {i \in DOMAIN st : st[i].slot = s}
Held(st, s) == Total(HeldTimeOf(st), OfSlot(st, s))

LEMMA HeldIsFinite ==
  ASSUME NEW st \in Seq(Frames), NEW s
  PROVE  /\ IsFiniteSet(DOMAIN st) /\ IsFiniteSet(OfSlot(st, s))
         /\ \A i \in DOMAIN st : HeldTimeOf(st)[i] \in Nat
         /\ Held(st, s) \in Nat
<1>1. Len(st) \in Nat /\ DOMAIN st = 1 .. Len(st)
  OBVIOUS
<1>2. IsFiniteSet(DOMAIN st)
  BY <1>1, FS_Interval
<1>3. OfSlot(st, s) \in SUBSET DOMAIN st
  BY DEF OfSlot
<1>4. IsFiniteSet(OfSlot(st, s))
  BY <1>2, <1>3, FS_Subset
<1>5. ASSUME NEW i \in DOMAIN st PROVE HeldTimeOf(st)[i] \in Nat
  <2>1. st[i] \in Frames
    OBVIOUS
  <2> QED
    BY <2>1 DEF Frames, HeldTimeOf
<1>6. Held(st, s) \in Nat
  BY <1>3, <1>4, <1>5, TotalNat DEF Held
<1> QED
  BY <1>2, <1>4, <1>5, <1>6

LEMMA HeldOfPush ==
  ASSUME NEW st \in Seq(Frames), NEW f \in Frames, NEW s
  PROVE  Held(Append(st, f), s) = Held(st, s) + (IF f.slot = s THEN f.saved + 1 ELSE 0)
<1> DEFINE ts == Append(st, f)
           n == Len(st)
           S == OfSlot(st, s)
<1>1. /\ ts \in Seq(Frames) /\ n \in Nat /\ DOMAIN st = 1 .. n /\ DOMAIN ts = 1 .. n + 1
      /\ ts[n + 1] = f /\ \A i \in 1 .. n : ts[i] = st[i]
  OBVIOUS
<1> HIDE DEF ts, n
<1>2. /\ \A i \in 1 .. n : HeldTimeOf(ts)[i] = HeldTimeOf(st)[i]
      /\ HeldTimeOf(ts)[n + 1] = f.saved + 1
  BY <1>1 DEF HeldTimeOf
<1>3. S \in SUBSET (1 .. n) /\ IsFiniteSet(S) /\ n + 1 \notin S
  <2>1. IsFiniteSet(S)
    BY HeldIsFinite
  <2>2. S \in SUBSET (1 .. n)
    BY <1>1 DEF OfSlot
  <2> HIDE DEF S
  <2> QED
    BY <1>1, <2>1, <2>2
<1>4. Total(HeldTimeOf(ts), S) = Held(st, s)
  BY <1>2, <1>3, TotalAgrees DEF Held
<1>5. \A i \in 1 .. n + 1 : HeldTimeOf(ts)[i] \in Int
  BY <1>1, HeldIsFinite
<1>6. CASE f.slot = s
  <2>1. OfSlot(ts, s) = S \cup {n + 1}
    BY <1>1, <1>6 DEF OfSlot
  <2>2. Held(ts, s) = Total(HeldTimeOf(ts), S) + HeldTimeOf(ts)[n + 1]
    BY <1>1, <1>3, <1>5, <2>1, TotalAdd DEF Held
  <2> QED
    BY <1>2, <1>4, <1>6, <2>2 DEF ts
<1>7. CASE f.slot # s
  <2>1. OfSlot(ts, s) = S
    BY <1>1, <1>7 DEF OfSlot
  <2>2. Held(ts, s) = Held(st, s)
    BY <1>4, <2>1 DEF Held
  <2>3. Held(st, s) \in Nat
    BY HeldIsFinite
  <2> QED
    BY <1>7, <2>2, <2>3 DEF ts
<1> QED
  BY <1>6, <1>7

\* A stack is its top on what is below.
LEMMA TopOnTheRest ==
  ASSUME NEW st \in Seq(Frames), st # << >>
  PROVE  /\ SubSeq(st, 1, Len(st) - 1) \in Seq(Frames)
         /\ Len(st) \in DOMAIN st /\ st[Len(st)] \in Frames
         /\ st = Append(SubSeq(st, 1, Len(st) - 1), st[Len(st)])
<1> DEFINE n == Len(st)
           below == SubSeq(st, 1, n - 1)
           ts == Append(below, st[n])
<1>1. n \in Nat \ {0} /\ n \in DOMAIN st
  OBVIOUS
<1>2. st[n] \in Frames
  BY <1>1
<1>3. below \in Seq(Frames) /\ Len(below) = n - 1 /\ \A i \in 1 .. n - 1 : below[i] = st[i]
  BY <1>1
<1> HIDE DEF below
<1>4. ts \in Seq(Frames) /\ Len(ts) = n /\ \A i \in 1 .. n : ts[i] = st[i]
  BY <1>1, <1>2, <1>3
<1> HIDE DEF ts
<1>5. st = ts
  BY <1>1, <1>4
<1> QED
  BY <1>1, <1>2, <1>3, <1>5 DEF below, ts

\* Leaving the frames from one on gives up what they hold.
LEMMA HeldOfPart ==
  ASSUME NEW st \in Seq(Frames), NEW from \in DOMAIN st, NEW s
  PROVE  Held(st, s) = Held(SubSeq(st, 1, from - 1), s)
                         + Total(HeldTimeOf(st), {i \in from .. Len(st) : st[i].slot = s})
<1> DEFINE ts == SubSeq(st, 1, from - 1)
           n == Len(st)
           A == OfSlot(ts, s)
           B == {i \in from .. n : st[i].slot = s}
<1>1. /\ n \in Nat /\ from \in 1 .. n /\ DOMAIN st = 1 .. n
      /\ ts \in Seq(Frames) /\ DOMAIN ts = 1 .. from - 1
      /\ \A i \in 1 .. from - 1 : ts[i] = st[i]
  OBVIOUS
<1> HIDE DEF ts, n
<1>2. OfSlot(st, s) = A \cup B /\ A \cap B = {}
  BY <1>1 DEF OfSlot
<1>3. IsFiniteSet(A) /\ IsFiniteSet(OfSlot(st, s)) /\ B \in SUBSET OfSlot(st, s)
  BY <1>1, <1>2, HeldIsFinite
<1>4. IsFiniteSet(B)
  BY <1>3, FS_Subset
<1>5. \A i \in A \cup B : HeldTimeOf(st)[i] \in Int
  <2>1. A \cup B \subseteq DOMAIN st
    BY <1>2 DEF OfSlot
  <2>2. \A i \in DOMAIN st : HeldTimeOf(st)[i] \in Nat
    BY HeldIsFinite
  <2> QED
    BY ONLY <2>1, <2>2
<1>6. Total(HeldTimeOf(st), A) = Held(ts, s)
  <2>1. ASSUME NEW i \in A PROVE HeldTimeOf(st)[i] = HeldTimeOf(ts)[i]
    BY <1>1 DEF OfSlot, HeldTimeOf
  <2> QED
    BY <1>3, <2>1, TotalAgrees DEF Held
<1>7. Held(st, s) = Total(HeldTimeOf(st), A) + Total(HeldTimeOf(st), B)
  BY <1>2, <1>3, <1>4, <1>5, TotalUnion DEF Held
<1> QED
  BY <1>6, <1>7 DEF ts, n

-----------------------------------------------------------------------------

MeterPairs == [cost : [Slots -> Nat], worked : [Slots -> Nat]]

\* A contract's time that no frame and no meter holds.
Settled(m, st, s) == m.worked[s] - m.cost[s] - Held(st, s)

\* The step leaves a well-formed stack and meters, and settles no time.
Carries(st, m) ==
  /\ frames' \in Seq(Frames) /\ Meters' \in MeterPairs
  /\ \A s \in Slots : Settled(Meters, frames, s)' = Settled(m, st, s)

LEMMA TopIsFrame ==
  ASSUME TypeOK, frames # << >>
  PROVE  /\ Top \in Frames /\ Top.slot \in Slots /\ Top.slot \in Ids
         /\ Len(frames) \in DOMAIN frames /\ Len(frames) \in Nat
<1>1. frames \in Seq(Frames)
  BY DEF TypeOK
<1>2. Top \in Frames /\ Len(frames) \in DOMAIN frames
  BY <1>1, TopOnTheRest DEF Top
<1> QED
  BY <1>1, <1>2 DEF Frames, Ids

LEMMA MetersAreNumbers ==
  ASSUME TypeOK
  PROVE  Meters \in MeterPairs /\ (frames # << >> => Weighed \in MeterPairs)
<1>1. cost \in [Slots -> Nat] /\ worked \in [Slots -> Nat]
  BY DEF TypeOK
<1>2. Meters \in MeterPairs
  BY <1>1 DEF Meters, MeterPairs
<1>3. ASSUME frames # << >> PROVE Weighed \in MeterPairs
  <2>1. Top.slot \in Slots
    BY <1>3, TopIsFrame
  <2> QED
    BY <1>1, <2>1 DEF Weighed, MeterPairs
<1> QED
  BY <1>2, <1>3

\* Weighing a call runs the meter and the clock alike.
LEMMA WeighedSettlesNothing ==
  ASSUME TypeOK, frames # << >>, NEW s \in Slots
  PROVE  Settled(Weighed, frames, s) = Settled(Meters, frames, s)
<1>1. cost \in [Slots -> Nat] /\ worked \in [Slots -> Nat] /\ frames \in Seq(Frames)
  BY DEF TypeOK
<1>2. Top.slot \in Slots
  BY TopIsFrame
<1>3. Weighed.worked[s] - Weighed.cost[s] = Meters.worked[s] - Meters.cost[s]
  BY <1>1, <1>2 DEF Weighed, Meters
<1> QED
  BY <1>3 DEF Settled

LEMMA StayCarries ==
  ASSUME NEW st \in Seq(Frames), NEW m \in MeterPairs, Stay(st, m)
  PROVE  Carries(st, m)
<1>1. Meters' = m
  BY DEF Stay, Meters, MeterPairs
<1>2. frames' = st
  BY DEF Stay
<1>3. ASSUME NEW s \in Slots PROVE Settled(Meters, frames, s)' = Settled(m, st, s)
  BY <1>1, <1>2 DEF Settled
<1> QED
  BY <1>1, <1>2, <1>3 DEF Carries

LEMMA EnterCarries ==
  ASSUME NEW st \in Seq(Frames), NEW m \in MeterPairs, NEW s \in Slots,
         NEW via \in Vias, NEW next \in Vias \cup {"none"}, Enter(st, m, s, via, next)
  PROVE  Carries(st, m)
<1> DEFINE f == [slot |-> s, via |-> via, next |-> next, saved |-> m.cost[s]]
<1>1. m.cost \in [Slots -> Nat] /\ m.worked \in [Slots -> Nat]
  BY DEF MeterPairs
<1>2. f \in Frames /\ f.slot = s /\ f.saved = m.cost[s]
  BY <1>1 DEF Frames
<1>3. frames' = Append(st, f)
  BY DEF Enter
<1> HIDE DEF f
<1>4. frames' \in Seq(Frames)
  BY <1>2, <1>3
<1>5. cost' = [m.cost EXCEPT ![s] = 0] /\ worked' = [m.worked EXCEPT ![s] = @ + 1]
  BY DEF Enter
<1>6. Meters' \in MeterPairs
  BY <1>1, <1>5 DEF Meters, MeterPairs
<1>7. ASSUME NEW t \in Slots PROVE Settled(Meters, frames, t)' = Settled(m, st, t)
  <2>1. Held(frames', t) = Held(st, t) + (IF s = t THEN m.cost[s] + 1 ELSE 0)
    BY <1>2, <1>3, HeldOfPush
  <2>2. Held(st, t) \in Nat /\ m.cost[t] \in Nat /\ m.worked[t] \in Nat
    BY <1>1, HeldIsFinite
  <2>3. /\ cost'[t] = IF s = t THEN 0 ELSE m.cost[t]
        /\ worked'[t] = IF s = t THEN m.worked[t] + 1 ELSE m.worked[t]
    BY <1>1, <1>5
  <2>4. worked'[t] - cost'[t] - Held(frames', t) = m.worked[t] - m.cost[t] - Held(st, t)
    <3>1. CASE s = t
      <4>1. Held(frames', t) = Held(st, t) + (m.cost[t] + 1) /\ cost'[t] = 0 /\ worked'[t] = m.worked[t] + 1
        BY <2>1, <2>3, <3>1
      <4> DEFINE h == Held(st, t)
                 c == m.cost[t]
                 w == m.worked[t]
      <4>2. h \in Nat /\ c \in Nat /\ w \in Nat
        BY <2>2
      <4> HIDE DEF h, c, w
      <4>3. (w + 1) - 0 - (h + (c + 1)) = w - c - h
        BY ONLY <4>2
      <4> QED
        BY ONLY <4>1, <4>3 DEF h, c, w
    <3>2. CASE s # t
      BY ONLY <2>1, <2>2, <2>3, <3>2
    <3> QED
      BY <3>1, <3>2
  <2> QED
    BY <2>4 DEF Settled, Meters
<1> QED
  BY <1>4, <1>6, <1>7 DEF Carries

LEMMA EnterPaidCarries ==
  ASSUME NEW st \in Seq(Frames), NEW m \in MeterPairs, NEW s \in Slots, NEW amount,
         NEW via \in Vias, EnterPaid(st, m, s, amount, via)
  PROVE  Carries(st, m)
BY EnterCarries DEF EnterPaid, Vias

\* The calls of a running contract settle nothing either.
LEMMA CallCarries ==
  ASSUME TypeOK, frames # << >>, Carries(frames, Weighed)
  PROVE  Carries(frames, Meters)
BY WeighedSettlesNothing DEF Carries

-----------------------------------------------------------------------------
(***************************************************************************)
(* Types, energy and time, action by action.                               *)
(***************************************************************************)

Energy == Total(balance, Ids) + burned

\* What every step but the end of a frame keeps.
Conserves == TypeOK' /\ Carries(frames, Meters) /\ Energy' = Energy

LEMMA CarriesTypes ==
  ASSUME NEW st, NEW m, Carries(st, m)
  PROVE  frames' \in Seq(Frames) /\ cost' \in [Slots -> Nat] /\ worked' \in [Slots -> Nat]
BY DEF Carries, MeterPairs, Meters

LEMMA SameStackCarries ==
  ASSUME TypeOK, UNCHANGED <<frames, cost, worked>>
  PROVE  Carries(frames, Meters)
<1>1. frames \in Seq(Frames)
  BY DEF TypeOK
<1>2. Stay(frames, Meters)
  BY DEF Stay, Meters
<1> QED
  BY <1>1, <1>2, MetersAreNumbers, StayCarries

LEMMA CountedTypes == ASSUME TypeOK, Counted PROVE calls' \in 0 .. MaxCalls
BY CallConstants DEF TypeOK, Counted

\* The refund takes back what it gave.
LEMMA ReturnedIsSame ==
  ASSUME TypeOK, NEW u \in Users, NEW d \in Slots, NEW amount \in Nat, amount <= balance[u]
  PROVE  Returned(u, d, amount) = balance
<1>1. u \in Ids /\ d \in Ids /\ u # d /\ balance \in [Ids -> Nat]
  BY CallConstants DEF Ids, TypeOK
<1> DEFINE m == Moved(u, d, amount)
           r == Returned(u, d, amount)
<1>2. /\ m \in [Ids -> Nat] /\ m[u] = balance[u] - amount /\ m[d] = balance[d] + amount
      /\ \A x \in Ids : x # u /\ x # d => m[x] = balance[x]
  BY <1>1 DEF Moved
<1>3. r = [[m EXCEPT ![d] = @ - amount] EXCEPT ![u] = @ + amount]
  BY DEF Returned
<1> HIDE DEF m, r
<1>4. DOMAIN r = Ids /\ \A x \in Ids : r[x] = balance[x]
  BY <1>1, <1>2, <1>3
<1>5. r = [x \in Ids |-> r[x]] /\ balance = [x \in Ids |-> balance[x]]
  BY <1>1, <1>2, <1>3
<1>6. r = balance
  BY <1>4, <1>5
<1> QED
  BY <1>6 DEF r

LEMMA RewardsAreNumbers == ASSUME NEW amount \in Rewards PROVE amount \in Nat
BY CallConstants DEF Rewards

LEMMA RefundConserves ==
  ASSUME TypeOK, NEW u \in Users, NEW d \in Slots, NEW amount \in Rewards,
         RefundTransaction(u, d, amount)
  PROVE  Conserves /\ balance' = balance
<1>1. amount \in Nat /\ u \in Ids /\ balance \in [Ids -> Nat]
  BY RewardsAreNumbers DEF Ids, TypeOK
<1>2. balance' = balance
  BY <1>1, ReturnedIsSame DEF RefundTransaction
<1>3. UNCHANGED <<feeVars, contractErrors, nodeVars, frames, meterVars, terminalFault, burned, passed>>
  BY DEF RefundTransaction
<1>4. Carries(frames, Meters)
  BY <1>3, SameStackCarries DEF meterVars
<1>5. calls' \in 0 .. MaxCalls
  BY CountedTypes DEF RefundTransaction
<1>6. TypeOK'
  BY ONLY TypeOK, <1>2, <1>3, <1>5 DEF TypeOK, feeVars, nodeVars, meterVars
<1>7. Energy' = Energy
  BY <1>2, <1>3 DEF Energy
<1> QED
  BY <1>2, <1>4, <1>6, <1>7 DEF Conserves

\* A transaction that a contract takes.
LEMMA TransactionConserves ==
  ASSUME TypeOK, NEW u \in Users, NEW d \in Slots, NEW amount \in Rewards,
         \/ ProcedureTransaction(u, d, amount) \/ PlainTransaction(u, d, amount)
         \/ DirectProcedure(u, d, amount)
  PROVE  Conserves
<1>0. amount \in Nat /\ u \in Ids /\ d \in Ids /\ balance \in [Ids -> Nat] /\ frames \in Seq(Frames)
  BY RewardsAreNumbers DEF Ids, TypeOK
<1>1. /\ Counted /\ frames = << >> /\ amount <= balance[u] /\ balance' = Moved(u, d, amount)
      /\ UNCHANGED <<feeVars, contractErrors, nodeVars, unpaid, terminalFault, burned, passed>>
  BY <1>0 DEF ProcedureTransaction, PlainTransaction, DirectProcedure, Idle
<1>2. /\ balance' \in [Ids -> Nat] /\ Total(balance', Ids) = Total(balance, Ids)
  BY <1>0, <1>1, MovedEnergy
<1>3. Carries(frames, Meters)
  <2>1. CASE ProcedureTransaction(u, d, amount) \/ DirectProcedure(u, d, amount)
    <3>1. PICK via \in {"transaction", "procedure"} : EnterPaid(<< >>, Meters, d, amount, via)
      BY <2>1 DEF ProcedureTransaction, DirectProcedure
    <3>2. via \in Vias
      BY DEF Vias, Roots
    <3> QED
      BY <1>0, <1>1, <3>1, <3>2, MetersAreNumbers, EnterPaidCarries
  <2>2. CASE PlainTransaction(u, d, amount)
    BY <1>0, <1>1, <2>2, MetersAreNumbers, EnterCarries, StayCarries DEF PlainTransaction, Vias
  <2> QED
    BY <2>1, <2>2
<1>4. frames' \in Seq(Frames) /\ cost' \in [Slots -> Nat] /\ worked' \in [Slots -> Nat]
  BY <1>3, CarriesTypes
<1>5. calls' \in 0 .. MaxCalls
  BY <1>1, CountedTypes
<1>6. TypeOK'
  BY ONLY TypeOK, <1>1, <1>2, <1>4, <1>5 DEF TypeOK, feeVars, nodeVars
<1>7. Energy' = Energy
  BY <1>1, <1>2 DEF Energy
<1> QED
  BY <1>3, <1>6, <1>7 DEF Conserves

LEMMA EnterTickConserves ==
  ASSUME TypeOK, EnterTick
  PROVE  /\ Conserves /\ UNCHANGED <<balance, burned>>
         /\ \A s \in Slots : /\ executionTime'[s] + charged'[s] = executionTime[s] + charged[s]
                             /\ reserve'[s] + charged'[s] = reserve[s] + charged[s]
                             /\ credited'[s] = credited[s] /\ unpaid'[s] = unpaid[s]
<1>1. /\ UNCHANGED <<balance, failed, credited, contractErrors, haltOnContractFault, frames,
                     meterVars, terminalFault, calls, burned, passed>>
      /\ hooks' \subseteq (TickPhases \cup EpochPhases) \X Hooked
      /\ currentTick < MaxTick /\ currentTick' = currentTick + 1
  BY DEF EnterTick, TickPhases
<1>2. /\ currentTick \in 0 .. MaxTick /\ executionTime \in [Slots -> Nat]
      /\ charged \in [Slots -> Nat] /\ reserve \in [Slots -> Int] /\ settledPhaseNumber \in Int
  BY DEF TypeOK
<1>3. currentTick' \in 0 .. MaxTick
  BY <1>1, <1>2, CallConstants
<1>4. /\ executionTime' \in [Slots -> Nat] /\ charged' \in [Slots -> Nat]
      /\ reserve' \in [Slots -> Int] /\ settledPhaseNumber' \in Int
      /\ \A s \in Slots : /\ executionTime'[s] + charged'[s] = executionTime[s] + charged[s]
                          /\ reserve'[s] + charged'[s] = reserve[s] + charged[s]
  <2>1. CASE Settles(currentTick + 1)
    <3>1. /\ settledPhaseNumber' = PhaseNumber(currentTick + 1)
          /\ reserve' = [s \in Slots |-> reserve[s] - executionTime[s]]
          /\ charged' = [s \in Slots |-> charged[s] + executionTime[s]]
          /\ executionTime' = [s \in Slots |-> 0]
      BY <2>1 DEF EnterTick, Deducted
    <3>2. PhaseNumber(currentTick + 1) \in Int
      BY <1>2, CallConstants DEF PhaseNumber
    <3> QED
      BY <1>2, <3>1, <3>2
  <2>2. CASE ~Settles(currentTick + 1)
    <3>1. UNCHANGED <<settledPhaseNumber, reserve, charged, executionTime>>
      BY <2>2 DEF EnterTick
    <3> QED
      BY <1>2, <3>1
  <2> QED
    BY <2>1, <2>2
<1>5. TypeOK'
  BY ONLY TypeOK, <1>1, <1>3, <1>4 DEF TypeOK, meterVars
<1>6. Carries(frames, Meters)
  BY <1>1, SameStackCarries DEF meterVars
<1>7. Energy' = Energy
  BY <1>1 DEF Energy
<1> QED
  BY <1>1, <1>4, <1>5, <1>6, <1>7 DEF Conserves, meterVars

LEMMA StartPhaseConserves ==
  ASSUME TypeOK, NEW phase \in EpochPhases \cup {"END_TICK"}, StartPhase(phase)
  PROVE  Conserves
<1>1. /\ UNCHANGED <<balance, feeVars, contractErrors, currentTick, haltOnContractFault, frames,
                     meterVars, terminalFault, burned, passed>>
      /\ hooks' = {phase} \X Hooked /\ Counted
  BY DEF StartPhase
<1>2. hooks' \subseteq (TickPhases \cup EpochPhases) \X Hooked
  BY <1>1 DEF TickPhases
<1>3. calls' \in 0 .. MaxCalls
  BY <1>1, CountedTypes
<1>4. TypeOK'
  BY ONLY TypeOK, <1>1, <1>2, <1>3 DEF TypeOK, feeVars, meterVars
<1>5. Carries(frames, Meters)
  BY <1>1, SameStackCarries DEF meterVars
<1>6. Energy' = Energy
  BY <1>1 DEF Energy
<1> QED
  BY <1>4, <1>5, <1>6 DEF Conserves

LEMMA HookIsOfSlot ==
  ASSUME TypeOK, NEW h \in hooks
  PROVE  h[1] \in TickPhases \cup EpochPhases /\ h[2] \in Slots
BY CallConstants DEF TypeOK

LEMMA VisitHookConserves ==
  ASSUME TypeOK, NEW phase, NEW s \in Slots, VisitHook(phase, s)
  PROVE  Conserves
<1>1. /\ frames = << >> /\ hooks' \subseteq hooks
      /\ UNCHANGED <<balance, feeVars, contractErrors, currentTick, haltOnContractFault, unpaid,
                     terminalFault, calls, burned, passed>>
  BY DEF VisitHook
<1>2. frames \in Seq(Frames)
  BY DEF TypeOK
<1>3. \/ Stay(frames, Meters)
      \/ \E via \in {"hook", "epoch"} : Enter(<< >>, Meters, s, via, "none")
  BY DEF VisitHook
<1>4. Carries(frames, Meters)
  BY <1>1, <1>2, <1>3, MetersAreNumbers, EnterCarries, StayCarries DEF Vias, Roots
<1>5. frames' \in Seq(Frames) /\ cost' \in [Slots -> Nat] /\ worked' \in [Slots -> Nat]
  BY <1>4, CarriesTypes
<1>6. TypeOK'
  BY ONLY TypeOK, <1>1, <1>5 DEF TypeOK, feeVars
<1>7. Energy' = Energy
  BY <1>1 DEF Energy
<1> QED
  BY <1>4, <1>6, <1>7 DEF Conserves

\* Queries and delivered notifications.
LEMMA UngatedConserves ==
  ASSUME TypeOK, NEW s \in Slots, NEW via \in {"query", "delivery"}, Ungated(s, via)
  PROVE  Conserves
<1>1. /\ frames = << >> /\ Counted /\ Enter(<< >>, Meters, s, via, "none")
      /\ UNCHANGED <<balance, feeVars, contractErrors, nodeVars, unpaid, terminalFault, burned, passed>>
  BY DEF Ungated, Idle
<1>2. via \in Vias /\ frames \in Seq(Frames)
  BY DEF TypeOK, Vias, Roots
<1>3. Carries(frames, Meters)
  BY <1>1, <1>2, MetersAreNumbers, EnterCarries
<1>4. frames' \in Seq(Frames) /\ cost' \in [Slots -> Nat] /\ worked' \in [Slots -> Nat]
  BY <1>3, CarriesTypes
<1>5. calls' \in 0 .. MaxCalls
  BY <1>1, CountedTypes
<1>6. TypeOK'
  BY ONLY TypeOK, <1>1, <1>4, <1>5 DEF TypeOK, feeVars, nodeVars
<1>7. Energy' = Energy
  BY <1>1 DEF Energy
<1> QED
  BY <1>3, <1>6, <1>7 DEF Conserves

LEMMA SetReserveConserves ==
  ASSUME TypeOK, NEW s \in Slots, SetReserve(s, DefaultReserve) \/ FailIpo(s)
  PROVE  /\ Conserves
         /\ UNCHANGED <<balance, burned, executionTime, charged, unpaid>>
         /\ \A t \in Slots : credited'[t] - reserve'[t] = IF t = s THEN charged[t]
                                                          ELSE credited[t] - reserve[t]
<1>1. /\ Counted
      /\ UNCHANGED <<balance, executionTime, settledPhaseNumber, charged, contractErrors, nodeVars,
                     frames, meterVars, terminalFault, burned, passed>>
      /\ failed' \subseteq failed \cup {s}
  BY DEF SetReserve, FailIpo
<1>2. PICK n \in Nat : /\ reserve' = [reserve EXCEPT ![s] = n]
                       /\ credited' = [credited EXCEPT ![s] = n + charged[s]]
  <2>1. charged[s] \in Nat /\ 0 + charged[s] = charged[s]
    BY DEF TypeOK
  <2> QED
    BY <2>1, CallConstants DEF SetReserve, FailIpo
<1>3. reserve \in [Slots -> Int] /\ credited \in [Slots -> Int] /\ charged \in [Slots -> Nat]
      /\ failed \subseteq Slots
  BY DEF TypeOK
<1>4. reserve' \in [Slots -> Int] /\ credited' \in [Slots -> Int] /\ failed' \subseteq Slots
  BY <1>1, <1>2, <1>3
<1>5. calls' \in 0 .. MaxCalls
  BY <1>1, CountedTypes
<1>6. TypeOK'
  BY ONLY TypeOK, <1>1, <1>4, <1>5 DEF TypeOK, nodeVars, meterVars
<1>7. Carries(frames, Meters)
  BY <1>1, SameStackCarries DEF meterVars
<1>8. Energy' = Energy
  BY <1>1 DEF Energy
<1>9. ASSUME NEW t \in Slots
      PROVE  credited'[t] - reserve'[t] = IF t = s THEN charged[t] ELSE credited[t] - reserve[t]
  BY <1>2, <1>3
<1> QED
  BY <1>1, <1>6, <1>7, <1>8, <1>9 DEF Conserves, meterVars

LEMMA AmountsAreNumbers == ASSUME NEW amount \in Amounts PROVE amount \in Nat
BY CallConstants

\* What the calls of a running contract have in common.
LEMMA CallTypes ==
  ASSUME TypeOK, Calls
  PROVE  /\ frames # << >> /\ frames \in Seq(Frames) /\ Weighed \in MeterPairs
         /\ Top.slot \in Slots /\ Top.slot \in Ids
         /\ balance \in [Ids -> Nat] /\ calls' \in 0 .. MaxCalls
         /\ UNCHANGED <<contractErrors, nodeVars, unpaid, terminalFault, passed>>
<1>1. Counted /\ frames # << >>
      /\ UNCHANGED <<contractErrors, nodeVars, unpaid, terminalFault, passed>>
  BY DEF Calls, Running
<1>2. frames \in Seq(Frames) /\ balance \in [Ids -> Nat]
  BY DEF TypeOK
<1> QED
  BY <1>1, <1>2, CountedTypes, MetersAreNumbers, TopIsFrame

\* A call that moves an amount at most, and burns none.
LEMMA PayingConserves ==
  ASSUME TypeOK, Calls, UNCHANGED <<feeVars, burned>>, Carries(frames, Weighed),
         \/ UNCHANGED balance
         \/ \E to \in Ids, amount \in Nat : /\ amount <= balance[Top.slot]
                                            /\ balance' = Moved(Top.slot, to, amount)
  PROVE  Conserves
<1>1. /\ frames # << >> /\ Top.slot \in Ids /\ balance \in [Ids -> Nat] /\ calls' \in 0 .. MaxCalls
      /\ UNCHANGED <<contractErrors, nodeVars, unpaid, terminalFault, passed>>
  BY CallTypes
<1>2. balance' \in [Ids -> Nat] /\ Total(balance', Ids) = Total(balance, Ids)
  <2>1. CASE UNCHANGED balance
    BY <1>1, <2>1
  <2>2. ASSUME NEW to \in Ids, NEW amount \in Nat, amount <= balance[Top.slot],
               balance' = Moved(Top.slot, to, amount)
        PROVE  balance' \in [Ids -> Nat] /\ Total(balance', Ids) = Total(balance, Ids)
    BY <1>1, <2>2, MovedEnergy
  <2> QED
    BY <2>1, <2>2
<1>3. Carries(frames, Meters)
  BY <1>1, CallCarries
<1>4. frames' \in Seq(Frames) /\ cost' \in [Slots -> Nat] /\ worked' \in [Slots -> Nat]
  BY <1>3, CarriesTypes
<1>5. TypeOK'
  BY ONLY TypeOK, UNCHANGED <<feeVars, burned>>, <1>1, <1>2, <1>4 DEF TypeOK, feeVars, nodeVars
<1>6. Energy' = Energy
  BY <1>2 DEF Energy
<1> QED
  BY <1>3, <1>5, <1>6 DEF Conserves

LEMMA TransferConserves ==
  ASSUME TypeOK, NEW d \in Ids, NEW amount \in Amounts, Transfer(d, amount)
  PROVE  Conserves
<1>1. Calls /\ UNCHANGED <<feeVars, burned>> /\ amount \in Nat
  BY AmountsAreNumbers DEF Transfer, Mutates
<1>2. frames \in Seq(Frames) /\ Weighed \in MeterPairs /\ Top.slot \in Ids /\ balance \in [Ids -> Nat]
  BY <1>1, CallTypes
<1>3. CASE TransferRefused(Top.slot, d, amount)
  <2>1. Stay(frames, Weighed) /\ UNCHANGED balance
    BY <1>3 DEF Transfer
  <2> QED
    BY <1>1, <1>2, <2>1, StayCarries, PayingConserves
<1>4. CASE ~TransferRefused(Top.slot, d, amount)
  <2>1. amount <= balance[Top.slot]
    BY <1>1, <1>2, <1>4 DEF TransferRefused
  <2>2. balance' = Moved(Top.slot, d, amount)
    BY <1>4 DEF Transfer
  <2>3. Carries(frames, Weighed)
    <3>1. CASE IsNotified(d, amount)
      <4>1. Enter(frames, Weighed, d, "notice", "none") /\ d \in Slots
        BY <1>4, <3>1, CallConstants DEF Transfer, IsNotified
      <4> QED
        BY <1>2, <4>1, EnterCarries DEF Vias
    <3>2. CASE ~IsNotified(d, amount)
      <4>1. Stay(frames, Weighed)
        BY <1>4, <3>2 DEF Transfer
      <4> QED
        BY <1>2, <4>1, StayCarries
    <3> QED
      BY <3>1, <3>2
  <2> QED
    BY <1>1, <2>1, <2>2, <2>3, PayingConserves
<1> QED
  BY <1>3, <1>4

\* What is burned leaves an account for the count of what was burned.
LEMMA EnergyBurned ==
  ASSUME TypeOK, NEW a \in Ids, NEW amount \in Nat, amount <= balance[a],
         balance' = [balance EXCEPT ![a] = @ - amount], burned' = burned + amount
  PROVE  balance' \in [Ids -> Nat] /\ burned' \in Nat /\ Energy' = Energy
<1>1. balance \in [Ids -> Nat] /\ burned \in Nat
  BY DEF TypeOK
<1>2. /\ balance' \in [Ids -> Nat] /\ balance'[a] = balance[a] - amount
      /\ \A x \in Ids : x # a => balance'[x] = balance[x]
  BY <1>1
<1>3. \A x \in Ids : balance[x] \in Int /\ balance'[x] \in Int
  BY <1>1, <1>2
<1>4. Total(balance', Ids) = Total(balance, Ids) - balance[a] + balance'[a]
  BY ONLY a \in Ids, <1>2, <1>3, IdsAreFinite, TotalUpdate
<1>5. Total(balance, Ids) \in Int
  BY <1>3, IdsAreFinite, TotalInt
<1> QED
  BY <1>1, <1>2, <1>3, <1>4, <1>5 DEF Energy

\* burn.
LEMMA BurnConserves ==
  ASSUME TypeOK, NEW target \in Slots, NEW amount \in Amounts, Burn(target, amount)
  PROVE  /\ Conserves /\ UNCHANGED <<executionTime, charged, unpaid, failed>>
         /\ \A t \in Slots : /\ credited'[t] - reserve'[t] = credited[t] - reserve[t]
                             /\ reserve[t] <= reserve'[t]
<1>1. /\ Calls /\ Stay(frames, Weighed)
      /\ UNCHANGED <<failed, executionTime, settledPhaseNumber, charged>> /\ amount \in Nat
  BY AmountsAreNumbers DEF Burn, Mutates
<1>2. /\ frames # << >> /\ frames \in Seq(Frames) /\ Weighed \in MeterPairs
      /\ Top.slot \in Ids /\ balance \in [Ids -> Nat] /\ calls' \in 0 .. MaxCalls
      /\ UNCHANGED <<contractErrors, nodeVars, unpaid, terminalFault, passed>>
  BY <1>1, CallTypes
<1>3. reserve \in [Slots -> Int] /\ credited \in [Slots -> Int] /\ burned \in Nat
  BY DEF TypeOK
<1>4. Carries(frames, Meters)
  BY <1>1, <1>2, StayCarries, CallCarries
<1>5. frames' \in Seq(Frames) /\ cost' \in [Slots -> Nat] /\ worked' \in [Slots -> Nat]
  BY <1>4, CarriesTypes
<1>6. /\ balance' \in [Ids -> Nat] /\ burned' \in Nat /\ reserve' \in [Slots -> Int]
      /\ credited' \in [Slots -> Int] /\ Energy' = Energy
      /\ \A t \in Slots : /\ credited'[t] - reserve'[t] = credited[t] - reserve[t]
                          /\ reserve[t] <= reserve'[t]
  <2>1. CASE target \in failed \/ balance[Top.slot] < amount
    <3>1. UNCHANGED <<balance, burned, reserve, credited>>
      BY <2>1 DEF Burn
    <3> QED
      BY <1>2, <1>3, <3>1 DEF Energy
  <2>2. CASE ~(target \in failed \/ balance[Top.slot] < amount)
    <3>1. /\ balance' = [balance EXCEPT ![Top.slot] = @ - amount]
          /\ burned' = burned + amount
          /\ reserve' = [reserve EXCEPT ![target] = @ + amount]
          /\ credited' = [credited EXCEPT ![target] = @ + amount]
      BY <2>2 DEF Burn
    <3>2. amount <= balance[Top.slot]
      BY <1>1, <1>2, <2>2
    <3>3. balance' \in [Ids -> Nat] /\ burned' \in Nat /\ Energy' = Energy
      BY <1>1, <1>2, <3>1, <3>2, EnergyBurned
    <3> QED
      BY <1>1, <1>3, <3>1, <3>3
  <2> QED
    BY <2>1, <2>2
<1>7. TypeOK'
  BY ONLY TypeOK, <1>1, <1>2, <1>5, <1>6 DEF TypeOK, nodeVars
<1> QED
  BY <1>1, <1>2, <1>4, <1>6, <1>7 DEF Conserves

LEMMA RewardIsCovered ==
  ASSUME TypeOK, Calls, NEW reward \in Rewards
  PROVE  PaidReward(reward) \in Nat /\ PaidReward(reward) <= balance[Top.slot]
<1>1. balance[Top.slot] \in Nat /\ reward \in Nat
  BY CallTypes, RewardsAreNumbers
<1> QED
  BY <1>1 DEF PaidReward

LEMMA InvokeConserves ==
  ASSUME TypeOK, NEW callee \in Slots, NEW reward \in Rewards,
         InvokeProcedure(callee, reward) \/ SetShareholderProposal(callee, reward)
  PROVE  Conserves
<1>1. Calls /\ UNCHANGED <<feeVars, burned>> /\ callee \in Ids
  BY DEF InvokeProcedure, SetShareholderProposal, Mutates, Ids
<1>2. frames \in Seq(Frames) /\ Weighed \in MeterPairs
  BY <1>1, CallTypes
<1>3. PaidReward(reward) \in Nat /\ PaidReward(reward) <= balance[Top.slot]
  BY <1>1, RewardIsCovered
<1>4. \/ Stay(frames, Weighed) /\ UNCHANGED balance
      \/ /\ balance' = Moved(Top.slot, callee, PaidReward(reward))
         /\ EnterPaid(frames, Weighed, callee, PaidReward(reward), "invoke")
      \/ /\ balance' = Moved(Top.slot, callee, PaidReward(reward))
         /\ EnterPaid(frames, Weighed, callee, PaidReward(reward), "proposal")
  BY DEF InvokeProcedure, SetShareholderProposal
<1>5. Carries(frames, Weighed)
  BY <1>2, <1>4, StayCarries, EnterPaidCarries DEF Vias
<1> QED
  BY <1>1, <1>3, <1>4, <1>5, PayingConserves

LEMMA FunctionConserves ==
  ASSUME TypeOK, NEW callee \in Slots, CallFunction(callee)
  PROVE  Conserves
<1>1. Calls /\ UNCHANGED <<balance, feeVars, burned>>
  BY DEF CallFunction
<1>2. frames \in Seq(Frames) /\ Weighed \in MeterPairs
  BY <1>1, CallTypes
<1>3. Carries(frames, Weighed)
  BY <1>2, StayCarries, EnterCarries DEF CallFunction, Vias
<1> QED
  BY <1>1, <1>3, PayingConserves

\* The caller's own notification, or nothing, on top of a call of an oracle.
LEMMA NotificationCarries ==
  ASSUME TypeOK, Calls, Stay(frames, Weighed) \/ Notification
  PROVE  Carries(frames, Weighed)
<1>1. frames \in Seq(Frames) /\ Weighed \in MeterPairs /\ Top.slot \in Slots
  BY CallTypes
<1> QED
  BY <1>1, StayCarries, EnterCarries DEF Notification, Vias

LEMMA RightsConserves ==
  ASSUME TypeOK, NEW callee \in Slots, MoveRights(callee)
  PROVE  Conserves
<1>1. Calls /\ UNCHANGED <<balance, feeVars, burned>>
  BY DEF MoveRights, Mutates
<1>2. frames \in Seq(Frames) /\ Weighed \in MeterPairs
  BY <1>1, CallTypes
<1>3. Carries(frames, Weighed)
  BY <1>2, StayCarries, EnterCarries DEF MoveRights, Vias
<1> QED
  BY <1>1, <1>3, PayingConserves

LEMMA OracleRefusedConserves ==
  ASSUME TypeOK, OracleRefused
  PROVE  Conserves
<1>1. Calls /\ UNCHANGED <<balance, feeVars, burned>>
  BY DEF OracleRefused, Mutates
<1>2. Carries(frames, Weighed)
  BY <1>1, NotificationCarries DEF OracleRefused
<1> QED
  BY <1>1, <1>2, PayingConserves

\* An oracle's fee is burned, for nobody's reserve.
LEMMA OracleStartedConserves ==
  ASSUME TypeOK, NEW fee \in Amounts, OracleStarted(fee)
  PROVE  Conserves
<1> DEFINE a == Top.slot
<1>1. /\ Calls /\ UNCHANGED feeVars /\ fee \in Nat
      /\ balance[a] >= fee /\ balance' = [balance EXCEPT ![a] = @ - fee] /\ burned' = burned + fee
  BY AmountsAreNumbers DEF OracleStarted, Mutates
<1>2. /\ frames # << >> /\ a \in Ids /\ balance \in [Ids -> Nat] /\ calls' \in 0 .. MaxCalls
      /\ UNCHANGED <<contractErrors, nodeVars, unpaid, terminalFault, passed>>
  BY <1>1, CallTypes
<1>3. Carries(frames, Meters)
  BY <1>1, <1>2, NotificationCarries, CallCarries DEF OracleStarted
<1>4. frames' \in Seq(Frames) /\ cost' \in [Slots -> Nat] /\ worked' \in [Slots -> Nat]
  BY <1>3, CarriesTypes
<1> HIDE DEF a
<1>5. fee <= balance[a] /\ burned \in Nat
  BY <1>1, <1>2 DEF TypeOK
<1>6. /\ balance' \in [Ids -> Nat] /\ burned' \in Nat /\ Energy' = Energy
  BY <1>1, <1>2, <1>5, EnergyBurned
<1>7. TypeOK'
  BY ONLY TypeOK, <1>1, <1>2, <1>4, <1>6 DEF TypeOK, feeVars, nodeVars
<1> QED
  BY <1>3, <1>6, <1>7 DEF Conserves

\* A frame that ends settles its own time, once.
LEMMA EndSettles ==
  ASSUME TypeOK, Ends, Carries(Below, MetersBelow), balance' \in [Ids -> Nat]
  PROVE  /\ TypeOK' /\ UNCHANGED <<burned, reserve, credited, charged>>
         /\ \A s \in Slots :
              Settled(Meters, frames, s)' - (executionTime'[s] + unpaid'[s])
                = Settled(Meters, frames, s) - (executionTime[s] + unpaid[s])
<1> DEFINE f == Top
           below == Below
           time == 1 + cost[f.slot]
           m == MetersBelow
<1>1. /\ frames # << >> /\ frames \in Seq(Frames)
      /\ UNCHANGED <<reserve, failed, settledPhaseNumber, credited, charged, contractErrors,
                     nodeVars, terminalFault, calls, burned, passed>>
  BY DEF Ends, Running, TypeOK
<1>2. /\ cost \in [Slots -> Nat] /\ worked \in [Slots -> Nat]
      /\ executionTime \in [Slots -> Nat] /\ unpaid \in [Slots -> Nat]
  BY DEF TypeOK
<1>3. /\ below \in Seq(Frames) /\ f \in Frames /\ frames = Append(below, f)
  BY <1>1, TopOnTheRest DEF Top, Below
<1>4. f.slot \in Slots /\ f.saved \in Nat
  BY <1>3 DEF Frames
<1>5. IF IsFunction(f)
      THEN /\ unpaid' = [unpaid EXCEPT ![f.slot] = @ + time]
           /\ UNCHANGED executionTime
      ELSE /\ executionTime' = [executionTime EXCEPT ![f.slot] = @ + time]
           /\ UNCHANGED unpaid
  BY DEF Ends, Accrue
<1>6. m = [cost |-> [cost EXCEPT ![f.slot] = f.saved], worked |-> worked]
  BY DEF MetersBelow, Restored, Meters
<1>8. Carries(below, m)
  OBVIOUS
<1> HIDE DEF f, below, m
<1>9. frames' \in Seq(Frames) /\ cost' \in [Slots -> Nat] /\ worked' \in [Slots -> Nat]
  BY <1>8, CarriesTypes
<1>10. /\ executionTime' \in [Slots -> Nat] /\ unpaid' \in [Slots -> Nat]
       /\ \A s \in Slots : executionTime'[s] + unpaid'[s] =
            executionTime[s] + unpaid[s] + (IF f.slot = s THEN time ELSE 0)
  <2>1. time \in Nat
    BY <1>2, <1>4
  <2> HIDE DEF time
  <2>2. CASE IsFunction(f)
    BY <1>2, <1>4, <1>5, <2>1, <2>2
  <2>3. CASE ~IsFunction(f)
    BY <1>2, <1>4, <1>5, <2>1, <2>3
  <2> QED
    BY <2>2, <2>3
<1>11. TypeOK'
  BY ONLY TypeOK, balance' \in [Ids -> Nat], <1>1, <1>9, <1>10 DEF TypeOK, nodeVars
<1>12. ASSUME NEW s \in Slots
       PROVE  Settled(Meters, frames, s)' - (executionTime'[s] + unpaid'[s])
                = Settled(Meters, frames, s) - (executionTime[s] + unpaid[s])
  <2>1. Held(frames, s) = Held(below, s) + (IF f.slot = s THEN f.saved + 1 ELSE 0)
    BY <1>3, HeldOfPush
  <2>2. Held(below, s) \in Nat
    BY <1>3, HeldIsFinite
  <2>3. Settled(Meters, frames, s)' = Settled(m, below, s)
    BY <1>8 DEF Carries
  <2>4. /\ m.cost[s] = IF f.slot = s THEN f.saved ELSE cost[s]
        /\ m.worked[s] = worked[s]
    BY <1>2, <1>4, <1>6
  <2>5. Settled(m, below, s) = Settled(Meters, frames, s) + (IF f.slot = s THEN time ELSE 0)
    <3>1. cost[s] \in Nat /\ worked[s] \in Nat /\ f.saved \in Nat
      BY <1>2, <1>4
    <3>2. Meters.cost[s] = cost[s] /\ Meters.worked[s] = worked[s]
      BY DEF Meters
    <3> QED
      BY <2>1, <2>2, <2>4, <3>1, <3>2 DEF Settled
  <2>6. /\ Settled(Meters, frames, s) \in Int /\ (IF f.slot = s THEN time ELSE 0) \in Nat
        /\ executionTime[s] \in Nat /\ unpaid[s] \in Nat
    <3>1. Held(frames, s) \in Nat /\ cost[s] \in Nat /\ worked[s] \in Nat
      BY <1>1, <1>2, HeldIsFinite
    <3> QED
      BY <1>2, <1>4, <3>1 DEF Settled, Meters
  <2> HIDE DEF time
  <2> QED
    BY <1>10, <2>3, <2>5, <2>6
<1> QED
  BY <1>1, <1>11, <1>12

\* The stack below the top, and the meters as they were when the top was entered.
LEMMA BelowTypes ==
  ASSUME TypeOK, frames # << >>
  PROVE  Below \in Seq(Frames) /\ MetersBelow \in MeterPairs
<1>1. frames \in Seq(Frames) /\ cost \in [Slots -> Nat] /\ worked \in [Slots -> Nat]
  BY DEF TypeOK
<1>2. Below \in Seq(Frames) /\ Top \in Frames
  BY <1>1, TopOnTheRest DEF Below, Top
<1>3. Top.slot \in Slots /\ Top.saved \in Nat
  BY <1>2 DEF Frames
<1>4. MetersBelow = [cost |-> [cost EXCEPT ![Top.slot] = Top.saved], worked |-> worked]
  BY DEF MetersBelow, Restored, Meters
<1>5. MetersBelow \in MeterPairs
  BY <1>1, <1>3, <1>4 DEF MeterPairs
<1> QED
  BY <1>2, <1>5

LEMMA ReturnSettles ==
  ASSUME TypeOK, Return
  PROVE  /\ TypeOK' /\ Energy' = Energy /\ UNCHANGED <<reserve, credited, charged>>
         /\ \A s \in Slots :
              Settled(Meters, frames, s)' - (executionTime'[s] + unpaid'[s])
                = Settled(Meters, frames, s) - (executionTime[s] + unpaid[s])
<1>1. frames # << >> /\ Ends /\ UNCHANGED balance
  BY DEF Return, Ends, Running
<1>2. Below \in Seq(Frames) /\ MetersBelow \in MeterPairs
  BY <1>1, BelowTypes
<1>3. Top.slot \in Slots /\ Top.next \in Vias \cup {"none"}
  BY <1>1, TopIsFrame DEF Frames
<1>4. \/ Stay(Below, MetersBelow)
      \/ Top.next \in Vias /\ Enter(Below, MetersBelow, Top.slot, Top.next, "none")
  BY <1>3 DEF Return
<1>5. Carries(Below, MetersBelow)
  BY <1>2, <1>3, <1>4, StayCarries, EnterCarries
<1>6. balance' \in [Ids -> Nat]
  BY <1>1 DEF TypeOK
<1> QED
  BY <1>1, <1>5, <1>6, EndSettles DEF Energy

\* Whoever asks for rights is on the stack below the one that is asked.
LEMMA AskerIsFrame ==
  ASSUME TypeOK, Shape(frames), frames # << >>, Top.via = "pre"
  PROVE  frames[Len(frames) - 1].slot \in Slots
<1>1. frames \in Seq(Frames) /\ Len(frames) \in 1 .. Len(frames) /\ Len(frames) \in Nat
  BY DEF TypeOK
<1>2. Len(frames) > 1
  BY <1>1 DEF Shape, Fits, Top
<1>3. frames[Len(frames) - 1] \in Frames
  BY <1>1, <1>2
<1> QED
  BY <1>3 DEF Frames

LEMMA AgreeSettles ==
  ASSUME TypeOK, Shape(frames), NEW fee \in Rewards, Agree(fee)
  PROVE  /\ TypeOK' /\ Energy' = Energy /\ UNCHANGED <<reserve, credited, charged>>
         /\ \A s \in Slots :
              Settled(Meters, frames, s)' - (executionTime'[s] + unpaid'[s])
                = Settled(Meters, frames, s) - (executionTime[s] + unpaid[s])
<1> DEFINE caller == frames[Len(frames) - 1].slot
<1>1. /\ frames # << >> /\ Ends /\ Top.via = "pre"
      /\ ~TransferRefused(caller, Top.slot, fee) /\ balance' = Moved(caller, Top.slot, fee)
      /\ \/ EnterPaid(Below, MetersBelow, Top.slot, fee, "post")
         \/ Stay(Below, MetersBelow)
  BY DEF Agree, Ends, Running
<1>2. Below \in Seq(Frames) /\ MetersBelow \in MeterPairs
  BY <1>1, BelowTypes
<1>3. caller \in Slots /\ caller \in Ids
  BY <1>1, AskerIsFrame DEF Ids
<1> HIDE DEF caller
<1>4. Top.slot \in Slots /\ Top.slot \in Ids /\ fee \in Nat /\ balance \in [Ids -> Nat]
  BY <1>1, TopIsFrame, RewardsAreNumbers DEF TypeOK
<1>5. fee <= balance[caller]
  BY <1>1, <1>3, <1>4 DEF TransferRefused
<1>6. balance' \in [Ids -> Nat] /\ Total(balance', Ids) = Total(balance, Ids)
  BY <1>1, <1>3, <1>4, <1>5, MovedEnergy
<1>7. Carries(Below, MetersBelow)
  BY <1>1, <1>2, <1>4, StayCarries, EnterPaidCarries DEF Vias
<1> QED
  BY <1>1, <1>6, <1>7, EndSettles DEF Energy

\* Frames that are left with an error give their time up, once.
LEMMA UnwindSettles ==
  ASSUME TypeOK, NEW from \in DOMAIN frames, Unwind(from), UNCHANGED worked
  PROVE  /\ frames' \in Seq(Frames) /\ cost' \in [Slots -> Nat] /\ unpaid' \in [Slots -> Nat]
         /\ \A s \in Slots : Settled(Meters, frames, s)' - unpaid'[s]
                               = Settled(Meters, frames, s) - unpaid[s]
<1> DEFINE n == Len(frames)
           popped == from .. n
           below == SubSeq(frames, 1, from - 1)
           restored(s) == IF FramesOf(s, popped) = {} THEN cost[s]
                          ELSE frames[Sets!Min(FramesOf(s, popped))].saved
           held(s) == Total(HeldTime, FramesOf(s, popped))
<1>1. /\ cost \in [Slots -> Nat] /\ worked \in [Slots -> Nat]
      /\ unpaid \in [Slots -> Nat] /\ frames \in Seq(Frames)
  BY DEF TypeOK
<1>2. /\ frames' = below
      /\ cost' = [s \in Slots |-> restored(s)]
      /\ unpaid' = [s \in Slots |-> unpaid[s] + cost[s] + held(s) - restored(s)]
  BY DEF Unwind
<1>3. n \in Nat /\ from \in 1 .. n /\ popped \in SUBSET DOMAIN frames /\ popped \in SUBSET Nat
  BY <1>1
<1>4. HeldTime = HeldTimeOf(frames)
  BY DEF HeldTime, HeldTimeOf
<1>5. ASSUME NEW s \in Slots
      PROVE  /\ restored(s) \in Nat /\ held(s) \in Nat /\ restored(s) <= cost[s] + held(s)
             /\ Held(frames, s) = Held(below, s) + held(s)
  <2> DEFINE S == FramesOf(s, popped)
  <2>1. S \in SUBSET DOMAIN frames /\ S \in SUBSET Nat
    BY <1>3 DEF FramesOf
  <2>2. IsFiniteSet(S)
    BY <1>1, <2>1, HeldIsFinite, FS_Subset
  <2>3. \A i \in S : HeldTime[i] \in Nat
    <3>1. \A i \in DOMAIN frames : HeldTimeOf(frames)[i] \in Nat
      BY <1>1, HeldIsFinite
    <3> QED
      BY <1>4, <2>1, <3>1
  <2>4. held(s) \in Nat
    BY <2>2, <2>3, TotalNat
  <2>5. Held(frames, s) = Held(below, s) + held(s)
    BY <1>1, <1>4, HeldOfPart DEF FramesOf
  <2>6. cost[s] \in Nat
    BY <1>1
  <2>7. CASE S = {}
    BY <2>4, <2>5, <2>6, <2>7
  <2>8. CASE S # {}
    <3> DEFINE i == Sets!Min(S)
    <3>1. i \in S
      BY <2>1, <2>8, MinIsLeast
    <3>2. restored(s) = frames[i].saved
      BY <2>8
    <3> HIDE DEF i
    <3>3. frames[i] \in Frames /\ i \in DOMAIN frames
      BY <1>1, <2>1, <3>1
    <3>4. frames[i].saved \in Nat /\ HeldTime[i] = frames[i].saved + 1
      BY <3>3 DEF Frames, HeldTime
    <3>5. HeldTime[i] <= held(s)
      BY <2>2, <2>3, <3>1, TotalBounds
    <3> HIDE DEF restored, held
    <3> QED
      BY <2>4, <2>5, <2>6, <3>2, <3>4, <3>5
  <2> QED
    BY <2>7, <2>8
<1> HIDE DEF restored, held
<1>6. below \in Seq(Frames)
  BY <1>1, <1>3
<1>7. frames' \in Seq(Frames)
  BY <1>2, <1>6
<1>8. cost' \in [Slots -> Nat]
  BY <1>2, <1>5
<1>9. unpaid' \in [Slots -> Nat]
  <2>1. ASSUME NEW s \in Slots PROVE unpaid[s] + cost[s] + held(s) - restored(s) \in Nat
    <3>1. unpaid[s] \in Nat /\ cost[s] \in Nat
      BY <1>1
    <3> QED
      BY <1>5, <3>1
  <2> QED
    BY <1>2, <2>1
<1>10. ASSUME NEW s \in Slots
       PROVE  Settled(Meters, frames, s)' - unpaid'[s] = Settled(Meters, frames, s) - unpaid[s]
  <2>1. /\ cost'[s] = restored(s) /\ worked'[s] = worked[s]
        /\ unpaid'[s] = unpaid[s] + cost[s] + held(s) - restored(s)
    BY <1>2
  <2>2. Held(frames', s) = Held(below, s)
    BY <1>2
  <2>3. Held(below, s) \in Nat
    BY <1>6, HeldIsFinite
  <2>4. unpaid[s] \in Nat /\ cost[s] \in Nat /\ worked[s] \in Nat
    BY <1>1
  <2>5. restored(s) \in Nat /\ held(s) \in Nat /\ Held(frames, s) = Held(below, s) + held(s)
    BY <1>5
  <2>6. worked'[s] - cost'[s] - Held(frames', s) - unpaid'[s]
          = worked[s] - cost[s] - Held(frames, s) - unpaid[s]
    BY <2>1, <2>2, <2>3, <2>4, <2>5
  <2> QED
    BY <2>6 DEF Settled, Meters
<1> QED
  BY <1>7, <1>8, <1>9, <1>10

LEMMA TrapSettles ==
  ASSUME TypeOK, TrapCaught \/ \E aborts \in BOOLEAN : Fail(aborts)
  PROVE  /\ TypeOK' /\ UNCHANGED <<balance, burned, reserve, credited, charged, executionTime>>
         /\ \A s \in Slots : Settled(Meters, frames, s)' - unpaid'[s]
                               = Settled(Meters, frames, s) - unpaid[s]
<1>1. /\ frames # << >> /\ frames \in Seq(Frames)
      /\ UNCHANGED <<balance, feeVars, currentTick, haltOnContractFault, worked, calls, burned>>
  BY DEF TrapCaught, Fail, Running, nodeVars, TypeOK
<1>2. Top.slot \in Slots /\ Len(frames) \in Nat /\ Len(frames) \in DOMAIN frames
      /\ DOMAIN frames = 1 .. Len(frames)
  BY <1>1, TopIsFrame
<1>3. PICK from \in DOMAIN frames : Unwind(from)
  <2>1. CASE TrapCaught
    <3>1. Catchers \in SUBSET (0 .. Len(frames)) /\ Catchers \subseteq DOMAIN frames
      BY <1>1, <1>2 DEF Catchers
    <3>2. Sets!Max(Catchers) \in DOMAIN frames
      BY <1>2, <2>1, <3>1, MaxIsGreatest DEF TrapCaught
    <3> QED
      BY <2>1, <3>2 DEF TrapCaught
  <2>2. ASSUME NEW aborts \in BOOLEAN, Fail(aborts)
        PROVE  \E from \in DOMAIN frames : Unwind(from)
    <3>1. Unwind(1)
      BY <2>2 DEF Fail
    <3>2. 1 \in DOMAIN frames
      BY <1>2
    <3> QED
      BY <3>1, <3>2
  <2> QED
    BY <2>1, <2>2
<1>4. /\ frames' \in Seq(Frames) /\ cost' \in [Slots -> Nat] /\ unpaid' \in [Slots -> Nat]
      /\ \A s \in Slots : Settled(Meters, frames, s)' - unpaid'[s]
                            = Settled(Meters, frames, s) - unpaid[s]
  BY <1>1, <1>3, UnwindSettles
<1>5. /\ contractErrors' \subseteq Slots /\ passed' \subseteq Slots
      /\ terminalFault' \in BOOLEAN /\ hooks' \subseteq hooks
  <2>1. CASE TrapCaught
    BY <2>1 DEF TrapCaught, TypeOK, nodeVars
  <2>2. ASSUME NEW aborts \in BOOLEAN, Fail(aborts)
        PROVE  /\ contractErrors' \subseteq Slots /\ passed' \subseteq Slots
               /\ terminalFault' \in BOOLEAN /\ hooks' \subseteq hooks
    <3>1. PassedThrough \subseteq Slots
      <4>1. \A i \in DOMAIN frames : frames[i] \in Frames
        BY <1>1
      <4>2. \A i \in DOMAIN frames : frames[i].slot \in Slots
        BY <4>1 DEF Frames
      <4> QED
        BY <4>2 DEF PassedThrough
    <3>2. Noted \subseteq Slots
      BY <1>2 DEF Noted
    <3>3. /\ hooks' = {}
          /\ terminalFault' = ((haltOnContractFault /\ frames[1].via # "query") \/ Catchers # {})
          /\ IF haltOnContractFault THEN UNCHANGED <<contractErrors, passed>>
             ELSE /\ contractErrors' = contractErrors \cup Noted
                  /\ passed' = passed \cup PassedThrough
      BY <2>2 DEF Fail
    <3>4. contractErrors \subseteq Slots /\ passed \subseteq Slots
      BY DEF TypeOK
    <3>5. terminalFault' \in BOOLEAN
      BY <3>3, Zenon
    <3> QED
      BY <3>1, <3>2, <3>3, <3>4, <3>5
  <2> QED
    BY <2>1, <2>2
<1>6. TypeOK'
  BY ONLY TypeOK, <1>1, <1>4, <1>5 DEF TypeOK, feeVars
<1> QED
  BY <1>1, <1>4, <1>6 DEF feeVars

-----------------------------------------------------------------------------

\* TimeIsChargedOnce, with the time of the stack as Held states it.
LEMMA TimeStatement ==
  TimeIsChargedOnce <=>
    \A s \in Slots : /\ reserve[s] = credited[s] - charged[s]
                     /\ worked[s] = executionTime[s] + charged[s] + unpaid[s] + cost[s]
                                      + Held(frames, s)
BY DEF TimeIsChargedOnce, ReserveIsExplained, Held, HeldTimeOf, HeldTime, OfSlot, FramesOf

\* The time no frame holds is accumulated, charged or given up.
Books(s) == Settled(Meters, frames, s) = executionTime[s] + charged[s] + unpaid[s]

LEMMA TimeIsBooked ==
  ASSUME TypeOK
  PROVE  TimeIsChargedOnce <=> \A s \in Slots : reserve[s] = credited[s] - charged[s] /\ Books(s)
<1>1. ASSUME NEW s \in Slots
      PROVE  Books(s) <=> worked[s] = executionTime[s] + charged[s] + unpaid[s] + cost[s]
                                        + Held(frames, s)
  <2>1. frames \in Seq(Frames)
    BY DEF TypeOK
  <2>2. /\ executionTime[s] \in Nat /\ charged[s] \in Nat /\ unpaid[s] \in Nat
        /\ cost[s] \in Nat /\ worked[s] \in Nat
    BY DEF TypeOK
  <2>3. Held(frames, s) \in Nat
    BY <2>1, HeldIsFinite
  <2>4. Meters.cost[s] = cost[s] /\ Meters.worked[s] = worked[s]
    BY DEF Meters
  <2> QED
    BY <2>2, <2>3, <2>4 DEF Books, Settled
<1> QED
  BY <1>1, TimeStatement

\* The type invariant, the energy and the time through a step of any kind.
LEMMA ConservesTime ==
  ASSUME TypeOK, Conserves, TimeIsChargedOnce,
         \A s \in Slots : /\ executionTime'[s] + charged'[s] + unpaid'[s]
                               = executionTime[s] + charged[s] + unpaid[s]
                          /\ reserve'[s] = credited'[s] - charged'[s]
  PROVE  TimeIsChargedOnce'
<1>1. ASSUME NEW s \in Slots PROVE Books(s)'
  <2>1. Books(s)
    BY TimeIsBooked
  <2>2. Settled(Meters, frames, s)' = Settled(Meters, frames, s)
    BY DEF Conserves, Carries
  <2> QED
    BY <2>1, <2>2 DEF Books
<1>2. TypeOK'
  BY DEF Conserves
<1>3. (TimeIsChargedOnce <=> \A s \in Slots : reserve[s] = credited[s] - charged[s] /\ Books(s))'
  BY <1>2, TimeIsBooked, PTL
<1> QED
  BY <1>1, <1>3

Booked == TypeOK /\ EnergyConserved /\ TimeIsChargedOnce

LEMMA EnergyStatement == EnergyConserved <=> Energy = Cardinality(Ids) * Endowment
BY DEF EnergyConserved, Energy

\* A step that touches neither reserves nor the time of the phase.
LEMMA QuietKeepsBooks ==
  ASSUME Booked, Conserves, UNCHANGED <<feeVars, unpaid>>
  PROVE  Booked'
<1>1. EnergyConserved'
  BY EnergyStatement DEF Booked, Conserves, EnergyConserved, Energy
<1>2. ASSUME NEW s \in Slots PROVE reserve[s] = credited[s] - charged[s]
  BY TimeIsBooked DEF Booked
<1>3. TimeIsChargedOnce'
  <2>1. ASSUME NEW s \in Slots
        PROVE  /\ executionTime'[s] + charged'[s] + unpaid'[s]
                    = executionTime[s] + charged[s] + unpaid[s]
               /\ reserve'[s] = credited'[s] - charged'[s]
    BY <1>2 DEF feeVars
  <2> QED
    BY <2>1, ConservesTime DEF Booked
<1> QED
  BY <1>1, <1>3 DEF Booked, Conserves

\* A frame's end settles time with the phase, or with what nobody pays.
LEMMA EndKeepsBooks ==
  ASSUME Booked, TypeOK', Energy' = Energy, UNCHANGED <<reserve, credited, charged>>,
         \A s \in Slots : Settled(Meters, frames, s)' - (executionTime'[s] + unpaid'[s])
                            = Settled(Meters, frames, s) - (executionTime[s] + unpaid[s])
  PROVE  Booked'
<1>1. EnergyConserved'
  BY DEF Booked, EnergyConserved, Energy
<1>2. ASSUME NEW s \in Slots
      PROVE  reserve'[s] = credited'[s] - charged'[s] /\ Books(s)'
  <2>1. reserve[s] = credited[s] - charged[s] /\ Books(s)
    BY TimeIsBooked DEF Booked
  <2>2. /\ executionTime[s] \in Nat /\ unpaid[s] \in Nat /\ charged[s] \in Nat
        /\ executionTime'[s] \in Nat /\ unpaid'[s] \in Nat
    BY DEF Booked, TypeOK
  <2>3. Settled(Meters, frames, s) = executionTime[s] + charged[s] + unpaid[s]
    BY <2>1 DEF Books
  <2>4. Settled(Meters, frames, s)' \in Int
    <3>1. cost'[s] \in Nat /\ worked'[s] \in Nat /\ frames' \in Seq(Frames)
      BY DEF TypeOK
    <3>2. Held(frames', s) \in Nat
      BY <3>1, HeldIsFinite
    <3> QED
      BY <3>1, <3>2 DEF Settled, Meters
  <2>5. Settled(Meters, frames, s)' = executionTime'[s] + charged[s] + unpaid'[s]
    BY <2>2, <2>3, <2>4
  <2> QED
    BY <2>1, <2>5 DEF Books
<1>3. (TimeIsChargedOnce <=> \A s \in Slots : reserve[s] = credited[s] - charged[s] /\ Books(s))'
  BY TimeIsBooked, PTL
<1> QED
  BY <1>1, <1>2, <1>3 DEF Booked

LEMMA BooksStep == Booked /\ Shape(frames) /\ [Next]_vars => Booked'
<1> SUFFICES ASSUME Booked, Shape(frames), [Next]_vars PROVE Booked'
  OBVIOUS
<1>0. TypeOK
  BY DEF Booked
<1>1. ASSUME NEW u \in Users, NEW d \in Slots, NEW amount \in Rewards,
             \/ ProcedureTransaction(u, d, amount) \/ PlainTransaction(u, d, amount)
             \/ RefundTransaction(u, d, amount) \/ DirectProcedure(u, d, amount)
      PROVE  Booked'
  <2>1. UNCHANGED <<feeVars, unpaid>>
    BY <1>1 DEF ProcedureTransaction, PlainTransaction, RefundTransaction, DirectProcedure, meterVars
  <2> QED
    BY <1>0, <1>1, <2>1, RefundConserves, TransactionConserves, QuietKeepsBooks
<1>2. CASE EnterTick
  <2>1. /\ Conserves /\ UNCHANGED <<balance, burned>>
        /\ \A s \in Slots : /\ executionTime'[s] + charged'[s] = executionTime[s] + charged[s]
                            /\ reserve'[s] + charged'[s] = reserve[s] + charged[s]
                            /\ credited'[s] = credited[s] /\ unpaid'[s] = unpaid[s]
    BY <1>0, <1>2, EnterTickConserves
  <2>2. ASSUME NEW s \in Slots
        PROVE  /\ executionTime'[s] + charged'[s] + unpaid'[s]
                    = executionTime[s] + charged[s] + unpaid[s]
               /\ reserve'[s] = credited'[s] - charged'[s]
    <3>1. reserve[s] = credited[s] - charged[s]
      BY <1>0, TimeIsBooked DEF Booked
    <3>2. /\ reserve[s] \in Int /\ reserve'[s] \in Int /\ credited[s] \in Int
          /\ charged[s] \in Nat /\ charged'[s] \in Nat
      BY <2>1 DEF Booked, Conserves, TypeOK
    <3> QED
      BY <2>1, <3>1, <3>2
  <2> QED
    BY <1>0, <2>1, <2>2, ConservesTime DEF Booked, Conserves, EnergyConserved
<1>3. ASSUME NEW h \in hooks, VisitHook(h[1], h[2]) PROVE Booked'
  <2>1. UNCHANGED <<feeVars, unpaid>>
    BY <1>3 DEF VisitHook
  <2>2. Conserves
    BY <1>0, <1>3, HookIsOfSlot, VisitHookConserves
  <2> QED
    BY <2>1, <2>2, QuietKeepsBooks
<1>4. ASSUME NEW s \in Slots, SetReserve(s, DefaultReserve) \/ FailIpo(s) PROVE Booked'
  <2>1. /\ Conserves /\ UNCHANGED <<balance, burned, executionTime, charged, unpaid>>
        /\ \A t \in Slots : credited'[t] - reserve'[t] = IF t = s THEN charged[t]
                                                         ELSE credited[t] - reserve[t]
    BY <1>0, <1>4, SetReserveConserves
  <2>2. ASSUME NEW t \in Slots
        PROVE  /\ executionTime'[t] + charged'[t] + unpaid'[t]
                    = executionTime[t] + charged[t] + unpaid[t]
               /\ reserve'[t] = credited'[t] - charged'[t]
    <3>1. reserve[t] = credited[t] - charged[t]
      BY <1>0, TimeIsBooked DEF Booked
    <3>2. /\ reserve[t] \in Int /\ reserve'[t] \in Int /\ credited[t] \in Int
          /\ credited'[t] \in Int /\ charged[t] \in Nat
      BY <2>1 DEF Booked, Conserves, TypeOK
    <3> QED
      BY <2>1, <3>1, <3>2
  <2> QED
    BY <1>0, <2>1, <2>2, ConservesTime DEF Booked, Conserves, EnergyConserved
<1>5. ASSUME NEW d \in Ids, NEW amount \in Amounts, Transfer(d, amount) PROVE Booked'
  <2>1. UNCHANGED <<feeVars, unpaid>>
    BY <1>5 DEF Transfer, Mutates, Calls
  <2> QED
    BY <1>0, <1>5, <2>1, TransferConserves, QuietKeepsBooks
<1>6. ASSUME NEW target \in Slots, NEW amount \in Amounts, Burn(target, amount) PROVE Booked'
  <2>1. /\ Conserves /\ UNCHANGED <<executionTime, charged, unpaid>>
        /\ \A t \in Slots : credited'[t] - reserve'[t] = credited[t] - reserve[t]
    BY <1>0, <1>6, BurnConserves
  <2>2. ASSUME NEW t \in Slots
        PROVE  /\ executionTime'[t] + charged'[t] + unpaid'[t]
                    = executionTime[t] + charged[t] + unpaid[t]
               /\ reserve'[t] = credited'[t] - charged'[t]
    <3>1. reserve[t] = credited[t] - charged[t]
      BY <1>0, TimeIsBooked DEF Booked
    <3>2. /\ reserve[t] \in Int /\ reserve'[t] \in Int /\ credited[t] \in Int
          /\ credited'[t] \in Int /\ charged[t] \in Nat
      BY <2>1 DEF Booked, Conserves, TypeOK
    <3> QED
      BY <2>1, <3>1, <3>2
  <2>3. EnergyConserved'
    BY <2>1 DEF Booked, Conserves, EnergyConserved, Energy
  <2> QED
    BY <1>0, <2>1, <2>2, <2>3, ConservesTime DEF Booked, Conserves
<1>7. ASSUME NEW callee \in Slots, NEW reward \in Rewards,
             InvokeProcedure(callee, reward) \/ SetShareholderProposal(callee, reward)
      PROVE  Booked'
  <2>1. UNCHANGED <<feeVars, unpaid>>
    BY <1>7 DEF InvokeProcedure, SetShareholderProposal, Mutates, Calls
  <2> QED
    BY <1>0, <1>7, <2>1, InvokeConserves, QuietKeepsBooks
<1>8. ASSUME NEW callee \in Slots, CallFunction(callee) PROVE Booked'
  <2>1. UNCHANGED <<feeVars, unpaid>>
    BY <1>8 DEF CallFunction, Calls
  <2> QED
    BY <1>0, <1>8, <2>1, FunctionConserves, QuietKeepsBooks
<1>9. CASE Return \/ \E fee \in Rewards : Agree(fee)
  BY <1>0, <1>9, ReturnSettles, AgreeSettles, EndKeepsBooks
<1>10. CASE TrapCaught \/ \E aborts \in BOOLEAN : Fail(aborts)
  <2>1. /\ TypeOK' /\ UNCHANGED <<balance, burned, reserve, credited, charged, executionTime>>
        /\ \A s \in Slots : Settled(Meters, frames, s)' - unpaid'[s]
                              = Settled(Meters, frames, s) - unpaid[s]
    BY <1>0, <1>10, TrapSettles
  <2>2. ASSUME NEW s \in Slots
        PROVE  Settled(Meters, frames, s)' - (executionTime'[s] + unpaid'[s])
                 = Settled(Meters, frames, s) - (executionTime[s] + unpaid[s])
    <3>1. /\ executionTime[s] \in Nat /\ unpaid[s] \in Nat /\ unpaid'[s] \in Nat
          /\ cost[s] \in Nat /\ worked[s] \in Nat /\ cost'[s] \in Nat /\ worked'[s] \in Nat
      BY <1>0, <2>1 DEF TypeOK
    <3>2. Held(frames, s) \in Nat /\ Held(frames', s) \in Nat
      BY <1>0, <2>1, HeldIsFinite DEF TypeOK
    <3>3. Settled(Meters, frames, s) \in Int /\ Settled(Meters, frames, s)' \in Int
      BY <3>1, <3>2 DEF Settled, Meters
    <3>4. executionTime'[s] = executionTime[s]
      BY <2>1
    <3>5. Settled(Meters, frames, s)' - unpaid'[s] = Settled(Meters, frames, s) - unpaid[s]
      BY <2>1
    <3> QED
      BY <3>1, <3>3, <3>4, <3>5
  <2>3. Energy' = Energy
    BY <2>1 DEF Energy
  <2> QED
    BY <2>1, <2>2, <2>3, EndKeepsBooks
<1>11. CASE UNCHANGED vars
  <2>1. Booked <=> Booked'
    BY <1>11 DEF vars, feeVars, nodeVars, meterVars, Booked, TypeOK, EnergyConserved,
       TimeIsChargedOnce, ReserveIsExplained, HeldTime, FramesOf
  <2> QED
    BY <2>1
<1>12. ASSUME NEW phase \in EpochPhases \cup {"END_TICK"}, StartPhase(phase) PROVE Booked'
  <2>1. UNCHANGED <<feeVars, unpaid>>
    BY <1>12 DEF StartPhase, meterVars
  <2> QED
    BY <1>0, <1>12, <2>1, StartPhaseConserves, QuietKeepsBooks
<1>13. ASSUME NEW s \in Slots, Query(s) \/ DeliverNotification(s) PROVE Booked'
  <2>1. PICK via \in {"query", "delivery"} : Ungated(s, via)
    BY <1>13 DEF Query, DeliverNotification
  <2>2. UNCHANGED <<feeVars, unpaid>>
    BY <2>1 DEF Ungated
  <2> QED
    BY <1>0, <2>1, <2>2, UngatedConserves, QuietKeepsBooks
<1>14. ASSUME NEW callee \in Slots, MoveRights(callee) PROVE Booked'
  <2>1. UNCHANGED <<feeVars, unpaid>>
    BY <1>14 DEF MoveRights, Mutates, Calls
  <2> QED
    BY <1>0, <1>14, <2>1, RightsConserves, QuietKeepsBooks
<1>15. CASE OracleRefused
  <2>1. UNCHANGED <<feeVars, unpaid>>
    BY <1>15 DEF OracleRefused, Mutates, Calls
  <2> QED
    BY <1>0, <1>15, <2>1, OracleRefusedConserves, QuietKeepsBooks
<1>16. ASSUME NEW fee \in Amounts, OracleStarted(fee) PROVE Booked'
  <2>1. UNCHANGED <<feeVars, unpaid>>
    BY <1>16 DEF OracleStarted, Mutates, Calls
  <2> QED
    BY <1>0, <1>16, <2>1, OracleStartedConserves, QuietKeepsBooks
<1> QED
  BY <1>1, <1>2, <1>3, <1>4, <1>5, <1>6, <1>7, <1>8, <1>9, <1>10, <1>11, <1>12, <1>13, <1>14,
     <1>15, <1>16 DEF Next

LEMMA BooksInit == Init => Booked
<1> SUFFICES ASSUME Init PROVE Booked
  OBVIOUS
<1>1. Slots \subseteq Ids /\ \A s \in Slots : DefaultReserve \in Int
  BY CallConstants DEF Ids
<1>2. TypeOK
  <2>1. /\ balance \in [Ids -> Nat] /\ burned \in Nat
        /\ reserve \in [Slots -> Int] /\ credited \in [Slots -> Int] /\ charged \in [Slots -> Nat]
        /\ executionTime \in [Slots -> Nat] /\ cost \in [Slots -> Nat]
        /\ worked \in [Slots -> Nat] /\ unpaid \in [Slots -> Nat]
    BY <1>1, CallConstants DEF Init
  <2>2. currentTick \in 0 .. MaxTick /\ calls \in 0 .. MaxCalls /\ settledPhaseNumber \in Int
    BY CallConstants DEF Init
  <2>3. terminalFault \in BOOLEAN /\ haltOnContractFault \in BOOLEAN
    BY Zenon DEF Init
  <2>4. /\ failed \subseteq Slots /\ contractErrors \subseteq Slots /\ passed \subseteq Slots
        /\ hooks \subseteq (TickPhases \cup EpochPhases) \X Hooked /\ frames \in Seq(Frames)
    BY DEF Init
  <2> QED
    BY ONLY <2>1, <2>2, <2>3, <2>4 DEF TypeOK
<1>3. EnergyConserved
  <2>1. Endowment \in Int /\ \A x \in Ids : balance[x] = Endowment
    BY CallConstants DEF Init
  <2>2. Total(balance, Ids) = Cardinality(Ids) * Endowment
    BY <2>1, IdsAreFinite, TotalOfConstant
  <2>3. burned = 0 /\ Cardinality(Ids) * Endowment \in Int
    BY <2>1, IdsAreFinite, FS_CardinalityType DEF Init
  <2> QED
    BY <2>2, <2>3 DEF EnergyConserved
<1>4. TimeIsChargedOnce
  <2>1. ASSUME NEW s \in Slots PROVE Held(frames, s) = 0
    <3>1. OfSlot(frames, s) = {}
      BY DEF Init, OfSlot
    <3> QED
      BY <3>1, TotalOfNothing DEF Held
  <2>2. \A s \in Slots : /\ reserve[s] = DefaultReserve /\ credited[s] = DefaultReserve
                         /\ charged[s] = 0 /\ worked[s] = 0 /\ executionTime[s] = 0
                         /\ unpaid[s] = 0 /\ cost[s] = 0
    BY DEF Init
  <2>3. DefaultReserve \in Int
    BY CallConstants
  <2> QED
    BY <2>1, <2>2, <2>3, TimeStatement
<1> QED
  BY <1>2, <1>3, <1>4 DEF Booked

-----------------------------------------------------------------------------
(***************************************************************************)
(* The shape of the stack, action by action.                               *)
(***************************************************************************)

LEMMA CallDepthIsCalls ==
  ASSUME TypeOK, ~DepthExhausted
  PROVE  Cardinality(CallsBelow(frames, Len(frames) + 1)) < Buffers
<1>1. frames \in Seq(Frames)
  BY DEF TypeOK
<1>2. CallDepth \in Nat /\ CallDepth = Cardinality(CallsBelow(frames, Len(frames) + 1))
  BY <1>1, Depths
<1> QED
  BY <1>2, CallConstants DEF DepthExhausted

\* Nobody else is being told of a transfer when somebody is.
LEMMA NoNoticeBelow ==
  ASSUME TypeOK, ~(PitDepth > 0)
  PROVE  \A j \in 1 .. Len(frames) : frames[j].via # "notice"
<1>1. frames \in Seq(Frames)
  BY DEF TypeOK
<1>2. PitDepth \in Nat /\ (PitDepth = 0 => \A j \in 1 .. Len(frames) : frames[j].via # "notice")
  BY <1>1, Depths
<1> QED
  BY <1>2

\* What s has to satisfy to be entered on top of a stack.
Fitting(st, s, via, next) ==
  /\ (via \in Roots \/ next \in {"transaction", "procedure"}) => st = << >>
  /\ via \in {"pre", "notification"} => st # << >>
  /\ next # "none" => via = "notice" /\ next \in Follows
  /\ via = "notice" => \A j \in 1 .. Len(st) : st[j].via # "notice"
  /\ "proposal" \in {via, next} => \A j \in 1 .. Len(st) : ~Proposes(st[j])
  /\ (via \in {"pre", "post"} \/ next = "post") => \A j \in 1 .. Len(st) : ~MovesRights(st[j])
  /\ (via \in {"invoke", "function", "proposal"} \/ next \in {"invoke", "proposal"}) =>
       Cardinality(CallsBelow(st, Len(st) + 1)) < Buffers
  /\ via = "notification" => s = st[Len(st)].slot
  /\ \A j \in 1 .. Len(st) : (\A k \in j + 1 .. Len(st) : Falls(st[k])) =>
       /\ (via \in {"invoke", "function"} \/ next = "invoke") => s < st[j].slot
       /\ (via \in {"invoke", "function", "notification"} \/ next = "invoke") => s <= st[j].slot

LEMMA EnterShape ==
  ASSUME NEW st \in Seq(Frames), NEW m \in MeterPairs, NEW s \in Slots,
         NEW via \in Vias, NEW next \in Vias \cup {"none"}, Enter(st, m, s, via, next), Shape(st),
         Fitting(st, s, via, next)
  PROVE  Shape(frames')
<1> DEFINE f == [slot |-> s, via |-> via, next |-> next, saved |-> m.cost[s]]
<1>1. f \in Frames /\ f.slot = s /\ f.via = via /\ f.next = next
  BY DEF MeterPairs, Frames
<1>2. frames' = Append(st, f)
  BY DEF Enter
<1> HIDE DEF f
<1>3. /\ Proposes(f) => "proposal" \in {via, next}
      /\ MovesRights(f) => via \in {"pre", "post"}
      /\ IsDeep(f) => (via \in {"invoke", "function", "proposal"} \/ next \in {"invoke", "proposal"})
      /\ Descends(f) => (via \in {"invoke", "function"} \/ next = "invoke")
      /\ Falls(f) => (via \in {"invoke", "function", "notification"} \/ next = "invoke")
  BY <1>1 DEF Proposes, MovesRights, IsDeep, Descends, Falls
<1>4. Fits(Append(st, f), Len(st) + 1)
  <2>1. (f.via \in Roots \/ f.next \in {"transaction", "procedure"}) => st = << >>
    BY <1>1 DEF Fitting
  <2>2. f.via \in {"pre", "notification"} => st # << >>
    BY <1>1 DEF Fitting
  <2>3. f.next # "none" => f.via = "notice" /\ f.next \in Follows
    BY <1>1 DEF Fitting
  <2>4. f.via = "notice" => \A j \in 1 .. Len(st) : st[j].via # "notice"
    BY <1>1 DEF Fitting
  <2>5. Proposes(f) => \A j \in 1 .. Len(st) : ~Proposes(st[j])
    BY <1>3 DEF Fitting
  <2>6. (MovesRights(f) \/ f.next = "post") => \A j \in 1 .. Len(st) : ~MovesRights(st[j])
    BY <1>1, <1>3 DEF Fitting
  <2>7. IsDeep(f) => Cardinality(CallsBelow(st, Len(st) + 1)) < Buffers
    BY <1>3 DEF Fitting
  <2>8. f.via = "notification" => f.slot = st[Len(st)].slot
    BY <1>1 DEF Fitting
  <2>9. \A j \in 1 .. Len(st) : (\A k \in j + 1 .. Len(st) : Falls(st[k])) =>
          /\ Descends(f) => f.slot < st[j].slot
          /\ Falls(f) => f.slot <= st[j].slot
    BY <1>1, <1>3 DEF Fitting
  <2> QED
    BY <1>1, <2>1, <2>2, <2>3, <2>4, <2>5, <2>6, <2>7, <2>8, <2>9, PushFits
<1>5. Shape(Append(st, f))
  BY <1>1, <1>4, ShapeOfPush
<1> QED
  BY <1>2, <1>5

LEMMA EmptyShape == << >> \in Seq(Frames) /\ Shape(<< >>)
BY DEF Shape

\* A stack starts with a root, or the notice of one.
LEMMA StartShape ==
  ASSUME TypeOK, NEW s \in Slots, NEW via \in Roots \cup {"notice"},
         NEW next \in {"none", "transaction", "procedure"}, next # "none" => via = "notice",
         Enter(<< >>, Meters, s, via, next)
  PROVE  Shape(frames')
<1>1. Meters \in MeterPairs
  BY MetersAreNumbers
<1>2. via \in Vias /\ next \in Vias \cup {"none"}
  BY DEF Vias, Roots
<1>3. 1 .. Len(<< >>) = {}
  OBVIOUS
<1>4. Fitting(<< >>, s, via, next)
  BY <1>3 DEF Fitting, Follows, Roots
<1> QED
  BY <1>1, <1>2, <1>4, EmptyShape, EnterShape

\* What a running contract opens: the notice of a transfer, a call within its depth
\* of a contract with a lower index, the only proposal or callback of rights, or its
\* own notification.
LEMMA CallShape ==
  ASSUME TypeOK, Shape(frames), Calls, NEW s \in Slots,
         NEW via \in {"notice", "invoke", "function", "proposal", "pre", "notification"},
         NEW next \in {"none", "invoke", "proposal"}, next # "none" => via = "notice",
         Enter(frames, Weighed, s, via, next),
         via = "notice" => ~(PitDepth > 0),
         via \in {"invoke", "function", "proposal"} \/ next # "none" => ~DepthExhausted,
         (via \in {"invoke", "function"} \/ next = "invoke") => s < Top.slot,
         via = "notification" => s = Top.slot,
         via = "pre" => ~InRights,
         "proposal" \in {via, next} => ~InProposal
  PROVE  Shape(frames')
<1>1. frames # << >> /\ frames \in Seq(Frames) /\ Weighed \in MeterPairs
  BY CallTypes
<1>2. via \in Vias /\ next \in Vias \cup {"none"}
  BY DEF Vias
<1>3. via = "notice" => \A j \in 1 .. Len(frames) : frames[j].via # "notice"
  BY NoNoticeBelow
<1>4. "proposal" \in {via, next} => \A j \in 1 .. Len(frames) : ~Proposes(frames[j])
  BY <1>1 DEF InProposal, Proposes
<1>5. via = "pre" => \A j \in 1 .. Len(frames) : ~MovesRights(frames[j])
  BY <1>1 DEF InRights, MovesRights
<1>6. (via \in {"invoke", "function", "proposal"} \/ next \in {"invoke", "proposal"}) =>
        Cardinality(CallsBelow(frames, Len(frames) + 1)) < Buffers
  BY CallDepthIsCalls
<1>7. s \in Nat /\ Top.slot \in Nat
  BY CallTypes, CallConstants
<1>8. \A j \in 1 .. Len(frames) : (\A k \in j + 1 .. Len(frames) : Falls(frames[k])) =>
        /\ (via \in {"invoke", "function"} \/ next = "invoke") => s < frames[j].slot
        /\ (via \in {"invoke", "function", "notification"} \/ next = "invoke") => s <= frames[j].slot
  <2> SUFFICES ASSUME NEW j \in 1 .. Len(frames), \A k \in j + 1 .. Len(frames) : Falls(frames[k]),
                      via \in {"invoke", "function", "notification"} \/ next = "invoke"
               PROVE  /\ (via \in {"invoke", "function"} \/ next = "invoke") => s < frames[j].slot
                      /\ s <= frames[j].slot
    OBVIOUS
  <2>1. s <= Top.slot /\ ((via \in {"invoke", "function"} \/ next = "invoke") => s < Top.slot)
    BY <1>7
  <2> QED
    BY <1>1, <2>1, BelowTheTop DEF Top
<1>9. /\ via \notin Roots /\ next \notin {"transaction", "procedure", "post"} /\ via # "post"
      /\ next # "none" => next \in Follows
  BY DEF Roots, Follows
<1>10. via = "notification" => s = frames[Len(frames)].slot
  BY DEF Top
<1>11. Fitting(frames, s, via, next)
  BY <1>1, <1>3, <1>4, <1>5, <1>6, <1>8, <1>9, <1>10 DEF Fitting
<1> QED
  BY <1>1, <1>2, <1>11, EnterShape

\* What follows a notice takes the notice's place.
LEMMA ReturnShape ==
  ASSUME TypeOK, Shape(frames), Return
  PROVE  Shape(frames')
<1> DEFINE f == Top
           n == Len(frames)
           below == Below
           m == MetersBelow
<1>1. frames # << >> /\ frames \in Seq(Frames) /\ n \in DOMAIN frames
  BY TopIsFrame DEF Return, Ends, Running, TypeOK
<1>2. f \in Frames /\ f = frames[n] /\ n \in 1 .. Len(frames) /\ n \in Nat
  BY <1>1, TopIsFrame DEF Top
<1>3. f.slot \in Slots /\ f.next \in Vias \cup {"none"}
  BY <1>2 DEF Frames
<1>4. below \in Seq(Frames) /\ Shape(below)
  BY <1>1, <1>2, ShapeOfPart DEF Below
<1>5. Stay(below, m) \/ (f.next # "none" /\ Enter(below, m, f.slot, f.next, "none"))
  BY DEF Return
<1>6. m \in MeterPairs
  BY <1>1, BelowTypes
<1>7. CASE Stay(below, m)
  BY <1>4, <1>7 DEF Stay
<1>8. CASE f.next # "none" /\ Enter(below, m, f.slot, f.next, "none")
  <2>1. Fits(frames, n)
    BY <1>2 DEF Shape
  <2>2. f.next \in Follows /\ f.via = "notice"
    BY <1>2, <1>8, <2>1 DEF Fits
  <2>3. Len(below) = n - 1 /\ \A i \in 1 .. n - 1 : below[i] = frames[i]
    <3>1. n - 1 \in 0 .. Len(frames)
      BY <1>2
    <3>2. below = SubSeq(frames, 1, n - 1)
      BY DEF Below
    <3> HIDE DEF n, below
    <3> QED
      BY <1>1, <3>1, <3>2, PartOf
  <2>4. Len(below) + 1 = n
    BY <1>2, <2>3
  <2>5. CallsBelow(below, n) = CallsBelow(frames, n)
    BY <2>3 DEF CallsBelow
  <2>6. f.next \in {"transaction", "procedure"} => below = << >>
    <3>1. f.next \in {"transaction", "procedure"} => n = 1
      BY <1>2, <2>1 DEF Fits
    <3>2. n = 1 => Len(below) = 0
      BY <2>3
    <3> HIDE DEF below, n
    <3> QED
      BY <1>4, <3>1, <3>2
  <2>7. f.next = "proposal" => \A j \in 1 .. n - 1 : ~Proposes(below[j])
    BY <1>2, <2>1, <2>3 DEF Fits, Proposes
  <2>8. f.next = "post" => \A j \in 1 .. n - 1 : ~MovesRights(below[j])
    BY <1>2, <2>1, <2>3 DEF Fits
  <2>9. f.next \in {"invoke", "proposal"} => Cardinality(CallsBelow(below, n)) < Buffers
    BY <1>2, <2>1, <2>5 DEF Fits, IsDeep, Proposes
  <2>10. \A j \in 1 .. n - 1 : (\A k \in j + 1 .. n - 1 : Falls(below[k])) =>
           (f.next = "invoke" => f.slot < below[j].slot /\ f.slot <= below[j].slot)
    <3>1. \A j \in 1 .. n - 1 : (\A k \in j + 1 .. n - 1 : Falls(frames[k])) =>
            (f.next = "invoke" => f.slot < frames[j].slot /\ f.slot <= frames[j].slot)
      BY <1>2, <2>1 DEF Fits, Descends, Falls
    <3>2. \A j \in 1 .. n - 1 : \A k \in j + 1 .. n - 1 : k \in 1 .. n - 1
      BY <1>2
    <3> HIDE DEF below, f, n
    <3>3. ASSUME NEW j \in 1 .. n - 1, \A k \in j + 1 .. n - 1 : Falls(below[k])
          PROVE  \A k \in j + 1 .. n - 1 : Falls(frames[k])
      BY <2>3, <3>2, <3>3
    <3> QED
      BY <2>3, <3>1, <3>3
  <2>11. /\ f.next \in Vias /\ f.next # "none"
         /\ f.next \in Roots => f.next \in {"transaction", "procedure"}
         /\ f.next \notin {"pre", "notification", "notice", "function"}
    BY <2>2 DEF Vias, Roots, Follows
  <2> HIDE DEF f, n, below, m
  <2>12. Fitting(below, f.slot, f.next, "none")
    BY <2>3, <2>4, <2>6, <2>7, <2>8, <2>9, <2>10, <2>11 DEF Fitting
  <2> QED
    BY <1>3, <1>4, <1>6, <1>8, <2>11, <2>12, EnterShape
<1> QED
  BY <1>5, <1>7, <1>8

\* What follows an agreement takes the place of the one that was asked.
LEMMA AgreeShape ==
  ASSUME TypeOK, Shape(frames), NEW fee \in Rewards, Agree(fee)
  PROVE  Shape(frames')
<1> DEFINE n == Len(frames)
           caller == frames[n - 1].slot
<1>1. /\ frames # << >> /\ Top.via = "pre" /\ ~TransferRefused(caller, Top.slot, fee)
      /\ EnterPaid(Below, MetersBelow, Top.slot, fee, "post") \/ Stay(Below, MetersBelow)
  BY DEF Agree, Ends, Running
<1>2. frames \in Seq(Frames) /\ n \in 1 .. Len(frames) /\ n \in Nat /\ Top = frames[n]
  BY <1>1, TopIsFrame DEF TypeOK, Top
<1>3. Top.slot \in Slots
  BY <1>1, TopIsFrame
<1>4. Below \in Seq(Frames) /\ Shape(Below)
  BY <1>2, ShapeOfPart DEF Below
<1>5. MetersBelow \in MeterPairs
  BY <1>1, BelowTypes
<1>6. Len(Below) = n - 1 /\ \A i \in 1 .. n - 1 : Below[i] = frames[i]
  <2>1. n - 1 \in 0 .. Len(frames)
    BY <1>2
  <2> HIDE DEF n
  <2>2. Below = SubSeq(frames, 1, n - 1)
    BY DEF Below, n
  <2> QED
    BY <1>2, <2>1, <2>2, PartOf
<1>7. \A j \in 1 .. n - 1 : ~MovesRights(Below[j])
  <2>1. Fits(frames, n)
    BY <1>2 DEF Shape
  <2> QED
    BY <1>1, <1>2, <1>6, <2>1 DEF Fits, MovesRights
<1>8. \A j \in 1 .. n - 1 : Below[j].via # "notice"
  <2>1. ~(PitDepth > 0)
    BY <1>1, <1>3 DEF TransferRefused
  <2> QED
    BY <1>2, <1>6, <2>1, NoNoticeBelow
<1> HIDE DEF n, caller
<1>9. CASE Stay(Below, MetersBelow)
  BY <1>4, <1>9 DEF Stay
<1>10. CASE Enter(Below, MetersBelow, Top.slot, "notice", "post")
  <2>1. Fitting(Below, Top.slot, "notice", "post")
    BY <1>6, <1>7, <1>8 DEF Fitting, Roots, Follows
  <2>2. "notice" \in Vias /\ "post" \in Vias \cup {"none"}
    BY DEF Vias
  <2> QED
    BY <1>3, <1>4, <1>5, <1>10, <2>1, <2>2, EnterShape
<1>11. CASE Enter(Below, MetersBelow, Top.slot, "post", "none")
  <2>1. Fitting(Below, Top.slot, "post", "none")
    BY <1>6, <1>7 DEF Fitting, Roots
  <2>2. "post" \in Vias /\ "none" \in Vias \cup {"none"}
    BY DEF Vias
  <2> QED
    BY <1>3, <1>4, <1>5, <1>11, <2>1, <2>2, EnterShape
<1> QED
  BY <1>1, <1>9, <1>10, <1>11 DEF EnterPaid

LEMMA UnwindShape ==
  ASSUME TypeOK, Shape(frames), NEW from \in DOMAIN frames, Unwind(from)
  PROVE  Shape(frames')
<1>1. frames \in Seq(Frames)
  BY DEF TypeOK
<1>2. from - 1 \in 0 .. Len(frames)
  BY <1>1
<1>3. frames' = SubSeq(frames, 1, from - 1)
  BY DEF Unwind
<1> QED
  BY <1>1, <1>2, <1>3, ShapeOfPart

\* A trap is caught somewhere on the stack.
LEMMA CatcherIsFrame ==
  ASSUME TypeOK, TrapCaught
  PROVE  Sets!Max(Catchers) \in DOMAIN frames /\ Unwind(Sets!Max(Catchers))
<1>1. frames \in Seq(Frames) /\ Catchers # {} /\ Unwind(Sets!Max(Catchers))
  BY DEF TypeOK, TrapCaught
<1>2. Len(frames) \in Nat /\ Catchers \in SUBSET (0 .. Len(frames)) /\ Catchers \subseteq DOMAIN frames
  BY <1>1 DEF Catchers
<1>3. Sets!Max(Catchers) \in Catchers
  BY <1>1, <1>2, MaxIsGreatest
<1> QED
  BY <1>1, <1>2, <1>3

-----------------------------------------------------------------------------
(***************************************************************************)
(* Which contracts may be on the stack, action by action.                  *)
(***************************************************************************)

Serves(f) ==
  /\ ContractErrorOf(f.slot) => f.via \in RunsErrored
  /\ DormantIsCalledBack(f)

AllServe(st) == \A i \in DOMAIN st : Serves(st[i])

\* No contract on the stack is put out of service while it is there.
Unharmed == /\ UNCHANGED <<contractErrors, failed>>
            /\ \A s \in Slots : reserve[s] <= reserve'[s]

LEMMA ServesOn ==
  ASSUME TypeOK, TypeOK', Unharmed, NEW f \in Frames, Serves(f)
  PROVE  Serves(f)'
<1>1. f.slot \in Slots
  BY DEF Frames
<1>2. reserve[f.slot] \in Int /\ reserve'[f.slot] \in Int /\ reserve[f.slot] <= reserve'[f.slot]
  BY <1>1 DEF TypeOK, Unharmed
<1>3. ReserveOk(f.slot) => ReserveOk(f.slot)'
  BY <1>2 DEF ReserveOk
<1>4. ContractErrorOf(f.slot)' <=> ContractErrorOf(f.slot)
  BY DEF Unharmed, ContractErrorOf
<1> QED
  BY <1>3, <1>4 DEF Serves, DormantIsCalledBack

LEMMA StackServes ==
  ASSUME TypeOK, TypeOK', Unharmed, NEW st \in Seq(Frames), AllServe(st), frames' = st
  PROVE  AllServe(frames)'
<1>1. ASSUME NEW i \in DOMAIN st PROVE Serves(st[i])'
  <2>1. st[i] \in Frames /\ Serves(st[i])
    BY DEF AllServe
  <2> QED
    BY <2>1, ServesOn
<1> QED
  BY <1>1 DEF AllServe

LEMMA PartServes ==
  ASSUME NEW st \in Seq(Frames), AllServe(st), NEW k \in 0 .. Len(st)
  PROVE  AllServe(SubSeq(st, 1, k))
<1> DEFINE ts == SubSeq(st, 1, k)
<1>1. ts \in Seq(Frames) /\ Len(ts) = k /\ \A i \in 1 .. k : ts[i] = st[i]
  BY PartOf
<1> HIDE DEF ts
<1>2. DOMAIN ts = 1 .. k /\ \A i \in 1 .. k : i \in DOMAIN st
  BY <1>1
<1>3. AllServe(ts)
  BY <1>1, <1>2 DEF AllServe
<1> QED
  BY <1>3 DEF ts

LEMMA EnterServes ==
  ASSUME TypeOK, TypeOK', Unharmed, NEW st \in Seq(Frames), AllServe(st),
         NEW m \in MeterPairs, NEW s \in Slots, NEW via \in Vias, NEW next \in Vias \cup {"none"},
         Enter(st, m, s, via, next),
         ContractErrorOf(s) => via \in RunsErrored,
         ReserveOk(s) \/ (via \notin AsksForReserve /\ next \notin AsksForReserve)
  PROVE  AllServe(frames)'
<1> DEFINE f == [slot |-> s, via |-> via, next |-> next, saved |-> m.cost[s]]
           ts == Append(st, f)
<1>1. f \in Frames /\ f.slot = s /\ f.via = via /\ f.next = next
  BY DEF MeterPairs, Frames
<1>2. frames' = ts
  BY DEF Enter
<1> HIDE DEF f
<1>3. /\ ts \in Seq(Frames) /\ Len(st) \in Nat /\ DOMAIN st = 1 .. Len(st)
      /\ DOMAIN ts = 1 .. Len(st) + 1 /\ ts[Len(st) + 1] = f
      /\ \A i \in 1 .. Len(st) : ts[i] = st[i]
  BY <1>1
<1> HIDE DEF ts
<1>4. Serves(f)
  BY <1>1 DEF Serves, DormantIsCalledBack
<1>5. AllServe(ts)
  <2>1. ASSUME NEW i \in DOMAIN ts PROVE Serves(ts[i])
    <3>1. CASE i = Len(st) + 1
      BY <1>3, <1>4, <3>1
    <3>2. CASE i # Len(st) + 1
      <4>1. i \in 1 .. Len(st)
        BY <1>3, <3>2
      <4> QED
        BY <1>3, <4>1 DEF AllServe
    <3> QED
      BY <3>1, <3>2
  <2> QED
    BY <2>1 DEF AllServe
<1> QED
  BY <1>2, <1>3, <1>5, StackServes

LEMMA ServiceStatement == AllServe(frames) <=> ErroredIsOutOfService /\ DormantNow
BY DEF AllServe, Serves, ErroredIsOutOfService, DormantNow, RunsErrored

-----------------------------------------------------------------------------
(***************************************************************************)
(* Both, through a step.                                                   *)
(***************************************************************************)

StackInv == Shape(frames) /\ AllServe(frames)

LEMMA EmptyStackInv == ASSUME frames' = << >> PROVE StackInv'
BY EmptyShape DEF StackInv, AllServe

\* A step that leaves the stack alone.
LEMMA SameStackInv ==
  ASSUME TypeOK, TypeOK', StackInv, Unharmed, UNCHANGED frames
  PROVE  StackInv'
<1>1. frames \in Seq(Frames)
  BY DEF TypeOK
<1> QED
  BY <1>1, StackServes DEF StackInv

LEMMA TransactionStack ==
  ASSUME TypeOK, StackInv, NEW u \in Users, NEW d \in Slots, NEW amount \in Rewards, TypeOK',
         \/ ProcedureTransaction(u, d, amount) \/ PlainTransaction(u, d, amount)
         \/ DirectProcedure(u, d, amount)
  PROVE  StackInv'
<1>1. frames = << >> /\ ReserveOk(d) /\ UNCHANGED <<feeVars, contractErrors>>
  BY DEF ProcedureTransaction, PlainTransaction, DirectProcedure, Idle
<1>2. Unharmed
  BY <1>1 DEF Unharmed, feeVars, TypeOK
<1>3. \/ Enter(<< >>, Meters, d, "notice", "transaction") /\ ~ContractErrorOf(d)
      \/ Enter(<< >>, Meters, d, "notice", "procedure") /\ ~ContractErrorOf(d)
      \/ Enter(<< >>, Meters, d, "notice", "none") /\ ~ContractErrorOf(d)
      \/ Enter(<< >>, Meters, d, "transaction", "none") /\ ~ContractErrorOf(d)
      \/ Enter(<< >>, Meters, d, "procedure", "none")
      \/ UNCHANGED frames
  BY DEF ProcedureTransaction, PlainTransaction, DirectProcedure, EnterPaid, IsNotified, Stay
<1>4. CASE UNCHANGED frames
  BY <1>2, <1>4, SameStackInv
<1>5. ASSUME NEW via \in {"transaction", "procedure", "notice"},
             NEW next \in {"none", "transaction", "procedure"}, next # "none" => via = "notice",
             ContractErrorOf(d) => via = "procedure", Enter(<< >>, Meters, d, via, next)
      PROVE  StackInv'
  <2>1. via \in Roots \cup {"notice"} /\ via \in Vias /\ next \in Vias \cup {"none"}
    BY DEF Roots, Vias
  <2>2. Shape(frames')
    BY <1>5, <2>1, StartShape
  <2>3. AllServe(<< >>)
    BY DEF AllServe
  <2>4. ContractErrorOf(d) => via \in RunsErrored
    BY <1>5 DEF RunsErrored
  <2>5. AllServe(frames)'
    BY <1>1, <1>2, <1>5, <2>1, <2>3, <2>4, EmptyShape, MetersAreNumbers, EnterServes
  <2> QED
    BY <2>2, <2>5 DEF StackInv
<1> QED
  BY <1>3, <1>4, <1>5

\* What starts a stack of its own, for a contract that may be run so.
LEMMA RootStack ==
  ASSUME TypeOK, StackInv, TypeOK', frames = << >>, UNCHANGED <<feeVars, contractErrors>>,
         NEW s \in Slots, NEW via \in {"query", "hook", "epoch", "delivery"},
         Enter(<< >>, Meters, s, via, "none"),
         ContractErrorOf(s) => via \in RunsErrored,
         ReserveOk(s) \/ via \notin AsksForReserve
  PROVE  StackInv'
<1>1. Unharmed
  BY DEF Unharmed, feeVars, TypeOK
<1>2. via \in Roots \cup {"notice"} /\ via \in Vias
  BY DEF Roots, Vias
<1>3. Shape(frames')
  BY <1>2, StartShape
<1>4. AllServe(<< >>) /\ "none" \notin AsksForReserve
  BY DEF AllServe, AsksForReserve
<1>5. AllServe(frames)'
  BY <1>1, <1>2, <1>4, EmptyShape, MetersAreNumbers, EnterServes
<1> QED
  BY <1>3, <1>5 DEF StackInv

LEMMA VisitHookStack ==
  ASSUME TypeOK, StackInv, NEW phase, NEW s \in Slots, VisitHook(phase, s), TypeOK'
  PROVE  StackInv'
<1>1. frames = << >> /\ UNCHANGED <<feeVars, contractErrors>>
  BY DEF VisitHook
<1>2. CASE PhaseSkips(phase, s)
  <2>1. UNCHANGED frames
    BY <1>2 DEF VisitHook, Stay
  <2>2. Unharmed
    BY <1>1 DEF Unharmed, feeVars, TypeOK
  <2> QED
    BY <2>1, <2>2, SameStackInv
<1>3. CASE ~PhaseSkips(phase, s)
  <2>1. PICK via \in {"hook", "epoch"} :
          Enter(<< >>, Meters, s, via, "none") /\ (via = "hook" => phase \in TickPhases)
    BY <1>3 DEF VisitHook
  <2>2. ~ContractErrorOf(s) /\ (ReserveOk(s) \/ via \notin AsksForReserve)
    BY <1>3, <2>1 DEF PhaseSkips, AsksForReserve
  <2> QED
    BY <1>1, <2>1, <2>2, RootStack
<1> QED
  BY <1>2, <1>3

LEMMA UngatedStack ==
  ASSUME TypeOK, StackInv, NEW s \in Slots, Query(s) \/ DeliverNotification(s), TypeOK'
  PROVE  StackInv'
<1>1. PICK via \in {"query", "delivery"} : Ungated(s, via)
  BY DEF Query, DeliverNotification
<1>2. /\ frames = << >> /\ UNCHANGED <<feeVars, contractErrors>>
      /\ Enter(<< >>, Meters, s, via, "none")
  BY <1>1 DEF Ungated, Idle
<1>3. via \in RunsErrored /\ via \notin AsksForReserve
  BY DEF RunsErrored, AsksForReserve
<1> QED
  BY <1>2, <1>3, RootStack

LEMMA CallUnharmed ==
  ASSUME TypeOK, Calls, UNCHANGED feeVars
  PROVE  Unharmed
BY DEF Unharmed, Calls, feeVars, TypeOK

\* A running contract opens a frame for a contract that may be called.
LEMMA CallStack ==
  ASSUME TypeOK, StackInv, TypeOK', Calls, UNCHANGED feeVars, NEW s \in Slots,
         NEW via \in {"notice", "invoke", "function", "proposal", "pre", "notification"},
         NEW next \in {"none", "invoke", "proposal"}, next # "none" => via = "notice",
         Enter(frames, Weighed, s, via, next),
         via = "notice" => ~(PitDepth > 0),
         via \in {"invoke", "function", "proposal"} \/ next # "none" => ~DepthExhausted,
         (via \in {"invoke", "function"} \/ next = "invoke") => s < Top.slot /\ ReserveOk(s),
         via = "notification" => s = Top.slot,
         via = "pre" => ~InRights,
         "proposal" \in {via, next} => ~InProposal,
         via \in {"notice", "proposal", "pre"} => ~ContractErrorOf(s)
  PROVE  StackInv'
<1>1. Shape(frames')
  BY CallShape DEF StackInv
<1>2. frames \in Seq(Frames) /\ Weighed \in MeterPairs
  BY CallTypes
<1>3. via \in Vias /\ next \in Vias \cup {"none"}
  BY DEF Vias
<1>4. ContractErrorOf(s) => via \in RunsErrored
  BY DEF RunsErrored
<1>5. ReserveOk(s) \/ (via \notin AsksForReserve /\ next \notin AsksForReserve)
  BY DEF AsksForReserve
<1>6. AllServe(frames)'
  BY <1>2, <1>3, <1>4, <1>5, CallUnharmed, EnterServes DEF StackInv
<1> QED
  BY <1>1, <1>6 DEF StackInv

LEMMA TransferStack ==
  ASSUME TypeOK, StackInv, NEW d \in Ids, NEW amount \in Amounts, Transfer(d, amount), TypeOK'
  PROVE  StackInv'
<1>1. Calls /\ UNCHANGED feeVars
  BY DEF Transfer, Mutates
<1>2. CASE UNCHANGED frames
  BY <1>1, <1>2, CallUnharmed, SameStackInv
<1>3. CASE ~TransferRefused(Top.slot, d, amount) /\ IsNotified(d, amount)
  <2>1. Enter(frames, Weighed, d, "notice", "none")
    BY <1>3 DEF Transfer
  <2>2. d \in Slots /\ ~ContractErrorOf(d)
    BY <1>3, CallConstants DEF IsNotified
  <2>3. ~(PitDepth > 0)
    BY <1>3, <2>2 DEF TransferRefused
  <2> QED
    BY <1>1, <2>1, <2>2, <2>3, CallStack
<1> QED
  BY <1>2, <1>3 DEF Transfer, Stay

\* A reward that is paid is not paid while a notice runs.
LEMMA PaidOutsideNotices ==
  ASSUME NEW s, NEW reward, IsNotified(s, PaidReward(reward))
  PROVE  ~(PitDepth > 0) /\ ~ContractErrorOf(s)
BY DEF IsNotified, PaidReward

LEMMA InvokeStack ==
  ASSUME TypeOK, StackInv, NEW callee \in Slots, NEW reward \in Rewards,
         InvokeProcedure(callee, reward), TypeOK'
  PROVE  StackInv'
<1>1. Calls /\ UNCHANGED feeVars
  BY DEF InvokeProcedure, Mutates
<1>2. CASE CallRefused(callee)
  <2>1. UNCHANGED frames
    BY <1>2 DEF InvokeProcedure, Stay
  <2> QED
    BY <1>1, <2>1, CallUnharmed, SameStackInv
<1>3. CASE ~CallRefused(callee)
  <2>1. EnterPaid(frames, Weighed, callee, PaidReward(reward), "invoke")
    BY <1>3 DEF InvokeProcedure
  <2>2. callee < Top.slot /\ ReserveOk(callee) /\ ~DepthExhausted
    <3>1. callee \in Nat /\ Top.slot \in Nat
      BY <1>1, CallTypes, CallConstants
    <3> QED
      BY <1>3, <3>1 DEF CallRefused
  <2>3. CASE IsNotified(callee, PaidReward(reward))
    <3>1. Enter(frames, Weighed, callee, "notice", "invoke")
      BY <2>1, <2>3 DEF EnterPaid
    <3>2. ~(PitDepth > 0) /\ ~ContractErrorOf(callee)
      BY <2>3, PaidOutsideNotices
    <3> QED
      BY <1>1, <2>2, <3>1, <3>2, CallStack
  <2>4. CASE ~IsNotified(callee, PaidReward(reward))
    <3>1. Enter(frames, Weighed, callee, "invoke", "none")
      BY <2>1, <2>4 DEF EnterPaid
    <3> QED
      BY <1>1, <2>2, <3>1, CallStack
  <2> QED
    BY <2>3, <2>4
<1> QED
  BY <1>2, <1>3

LEMMA FunctionStack ==
  ASSUME TypeOK, StackInv, NEW callee \in Slots, CallFunction(callee), TypeOK'
  PROVE  StackInv'
<1>1. Calls /\ UNCHANGED feeVars
  BY DEF CallFunction
<1>2. CASE CallRefused(callee)
  <2>1. UNCHANGED frames
    BY <1>2 DEF CallFunction, Stay
  <2> QED
    BY <1>1, <2>1, CallUnharmed, SameStackInv
<1>3. CASE ~CallRefused(callee)
  <2>1. Enter(frames, Weighed, callee, "function", "none")
    BY <1>3 DEF CallFunction
  <2>2. callee < Top.slot /\ ReserveOk(callee) /\ ~DepthExhausted
    <3>1. callee \in Nat /\ Top.slot \in Nat
      BY <1>1, CallTypes, CallConstants
    <3> QED
      BY <1>3, <3>1 DEF CallRefused
  <2> QED
    BY <1>1, <2>1, <2>2, CallStack
<1> QED
  BY <1>2, <1>3

LEMMA ProposalStack ==
  ASSUME TypeOK, StackInv, NEW callee \in Slots, NEW reward \in Rewards,
         SetShareholderProposal(callee, reward), TypeOK'
  PROVE  StackInv'
<1>1. Calls /\ UNCHANGED feeVars
  BY DEF SetShareholderProposal, Mutates
<1>2. CASE ProposalRefused(callee)
  <2>1. UNCHANGED frames
    BY <1>2 DEF SetShareholderProposal, Stay
  <2> QED
    BY <1>1, <2>1, CallUnharmed, SameStackInv
<1>3. CASE ~ProposalRefused(callee)
  <2>1. /\ EnterPaid(frames, Weighed, callee, PaidReward(reward), "proposal")
        /\ ~ContractErrorOf(callee)
    BY <1>3 DEF SetShareholderProposal
  <2>2. ~InProposal /\ ~DepthExhausted
    BY <1>3 DEF ProposalRefused
  <2>3. CASE IsNotified(callee, PaidReward(reward))
    <3>1. Enter(frames, Weighed, callee, "notice", "proposal")
      BY <2>1, <2>3 DEF EnterPaid
    <3>2. ~(PitDepth > 0)
      BY <2>3, PaidOutsideNotices
    <3> QED
      BY <1>1, <2>1, <2>2, <3>1, <3>2, CallStack
  <2>4. CASE ~IsNotified(callee, PaidReward(reward))
    <3>1. Enter(frames, Weighed, callee, "proposal", "none")
      BY <2>1, <2>4 DEF EnterPaid
    <3> QED
      BY <1>1, <2>1, <2>2, <3>1, CallStack
  <2> QED
    BY <2>3, <2>4
<1> QED
  BY <1>2, <1>3

LEMMA RightsStack ==
  ASSUME TypeOK, StackInv, NEW callee \in Slots, MoveRights(callee), TypeOK'
  PROVE  StackInv'
<1>1. Calls /\ UNCHANGED feeVars
  BY DEF MoveRights, Mutates
<1>2. CASE Stay(frames, Weighed)
  <2>1. UNCHANGED frames
    BY <1>2 DEF Stay
  <2> QED
    BY <1>1, <2>1, CallUnharmed, SameStackInv
<1>3. CASE /\ ~RightsRefused(callee) /\ ~ContractErrorOf(callee)
           /\ Enter(frames, Weighed, callee, "pre", "none")
  BY <1>1, <1>3, CallStack DEF RightsRefused
<1> QED
  BY <1>2, <1>3 DEF MoveRights

LEMMA OracleStack ==
  ASSUME TypeOK, StackInv, OracleRefused \/ \E fee \in Amounts : OracleStarted(fee), TypeOK'
  PROVE  StackInv'
<1>1. Calls /\ UNCHANGED feeVars
  BY DEF OracleRefused, OracleStarted, Mutates
<1>2. Stay(frames, Weighed) \/ Notification
  BY DEF OracleRefused, OracleStarted
<1>3. CASE Stay(frames, Weighed)
  <2>1. UNCHANGED frames
    BY <1>3 DEF Stay
  <2> QED
    BY <1>1, <2>1, CallUnharmed, SameStackInv
<1>4. CASE Notification
  <2>1. Enter(frames, Weighed, Top.slot, "notification", "none") /\ Top.slot \in Slots
    BY <1>1, <1>4, CallTypes DEF Notification
  <2> QED
    BY <1>1, <2>1, CallStack
<1> QED
  BY <1>2, <1>3, <1>4

\* The frame that ends, and the stack that stays.
LEMMA EndsUnharmed ==
  ASSUME TypeOK, StackInv, Ends
  PROVE  /\ Unharmed /\ frames # << >> /\ Below \in Seq(Frames) /\ AllServe(Below)
         /\ MetersBelow \in MeterPairs /\ Top \in Frames /\ Top.slot \in Slots
         /\ Serves(Top) /\ Fits(frames, Len(frames)) /\ Top = frames[Len(frames)]
<1>1. /\ frames # << >> /\ frames \in Seq(Frames) /\ Len(frames) \in DOMAIN frames
      /\ Len(frames) \in Nat /\ UNCHANGED <<contractErrors, failed, reserve>>
  BY TopIsFrame DEF Ends, Running, TypeOK
<1>2. Unharmed
  BY <1>1 DEF Unharmed, TypeOK
<1>3. Len(frames) - 1 \in 0 .. Len(frames) /\ Len(frames) \in 1 .. Len(frames)
  BY <1>1
<1>4. Below \in Seq(Frames) /\ AllServe(Below)
  BY <1>1, <1>3, PartOf, PartServes DEF StackInv, Below
<1>5. Serves(Top)
  BY <1>1 DEF StackInv, AllServe, Top
<1>6. Fits(frames, Len(frames))
  BY <1>3 DEF StackInv, Shape
<1> QED
  BY <1>1, <1>2, <1>4, <1>5, <1>6, BelowTypes, TopIsFrame DEF Top

LEMMA ReturnStack ==
  ASSUME TypeOK, StackInv, Return, TypeOK'
  PROVE  StackInv'
<1>1. Shape(frames')
  BY ReturnShape DEF StackInv
<1>2. /\ Unharmed /\ frames # << >> /\ Below \in Seq(Frames) /\ AllServe(Below)
      /\ MetersBelow \in MeterPairs /\ Top \in Frames /\ Top.slot \in Slots
      /\ Serves(Top) /\ Fits(frames, Len(frames)) /\ Top = frames[Len(frames)]
  BY EndsUnharmed DEF Return
<1>3. CASE Stay(Below, MetersBelow)
  <2>1. frames' = Below
    BY <1>3 DEF Stay
  <2>2. AllServe(frames)'
    BY <1>2, <2>1, StackServes
  <2> QED
    BY <1>1, <2>2 DEF StackInv
<1>4. CASE Top.next # "none" /\ Enter(Below, MetersBelow, Top.slot, Top.next, "none")
  <2>1. Top.next \in Follows /\ Top.via = "notice"
    BY <1>2, <1>4 DEF Fits
  <2>2. ~ContractErrorOf(Top.slot)
    BY <1>2, <2>1 DEF Serves, RunsErrored
  <2>3. ReserveOk(Top.slot) \/ Top.next \notin AsksForReserve
    BY <1>2 DEF Serves, DormantIsCalledBack
  <2>4. Top.next \in Vias /\ "none" \notin AsksForReserve
    BY <2>1 DEF Vias, Roots, Follows, AsksForReserve
  <2>5. AllServe(frames)'
    BY <1>2, <1>4, <2>2, <2>3, <2>4, EnterServes
  <2> QED
    BY <1>1, <2>5 DEF StackInv
<1> QED
  BY <1>3, <1>4 DEF Return

LEMMA AgreeStack ==
  ASSUME TypeOK, StackInv, NEW fee \in Rewards, Agree(fee), TypeOK'
  PROVE  StackInv'
<1>1. Shape(frames')
  BY AgreeShape DEF StackInv
<1>2. /\ Unharmed /\ frames # << >> /\ Below \in Seq(Frames) /\ AllServe(Below)
      /\ MetersBelow \in MeterPairs /\ Top.slot \in Slots /\ Serves(Top) /\ Top.via = "pre"
  BY EndsUnharmed DEF Agree
<1>3. ~ContractErrorOf(Top.slot)
  BY <1>2 DEF Serves, RunsErrored
<1>4. EnterPaid(Below, MetersBelow, Top.slot, fee, "post") \/ Stay(Below, MetersBelow)
  BY DEF Agree
<1>5. CASE Stay(Below, MetersBelow)
  <2>1. frames' = Below
    BY <1>5 DEF Stay
  <2>2. AllServe(frames)'
    BY <1>2, <2>1, StackServes
  <2> QED
    BY <1>1, <2>2 DEF StackInv
<1>6. ASSUME NEW via \in {"notice", "post"}, NEW next \in {"post", "none"},
             Enter(Below, MetersBelow, Top.slot, via, next)
      PROVE  StackInv'
  <2>1. /\ via \in Vias /\ next \in Vias \cup {"none"}
        /\ via \notin AsksForReserve /\ next \notin AsksForReserve
    BY DEF Vias, AsksForReserve
  <2>2. AllServe(frames)'
    BY <1>2, <1>3, <1>6, <2>1, EnterServes
  <2> QED
    BY <1>1, <2>2 DEF StackInv
<1> QED
  BY <1>4, <1>5, <1>6 DEF EnterPaid

LEMMA TrapStack ==
  ASSUME TypeOK, StackInv, TrapCaught, TypeOK'
  PROVE  StackInv'
<1> DEFINE from == Sets!Max(Catchers)
<1>1. from \in DOMAIN frames /\ Unwind(from) /\ frames \in Seq(Frames)
  BY CatcherIsFrame DEF TypeOK
<1> HIDE DEF from
<1>2. Shape(frames')
  BY <1>1, UnwindShape DEF StackInv
<1>3. from - 1 \in 0 .. Len(frames) /\ frames' = SubSeq(frames, 1, from - 1)
  BY <1>1 DEF Unwind
<1>4. Unharmed
  BY DEF TrapCaught, Unharmed, feeVars, TypeOK
<1>5. SubSeq(frames, 1, from - 1) \in Seq(Frames) /\ AllServe(SubSeq(frames, 1, from - 1))
  BY <1>1, <1>3, PartOf, PartServes DEF StackInv
<1>6. AllServe(frames)'
  BY <1>3, <1>4, <1>5, StackServes
<1> QED
  BY <1>2, <1>6 DEF StackInv

LEMMA FailStack ==
  ASSUME TypeOK, NEW aborts \in BOOLEAN, Fail(aborts)
  PROVE  frames' = << >>
<1>1. frames \in Seq(Frames) /\ Unwind(1)
  BY DEF TypeOK, Fail
<1>2. frames' = SubSeq(frames, 1, 1 - 1)
  BY <1>1 DEF Unwind
<1> QED
  BY <1>1, <1>2

CallInv == Booked /\ StackInv

LEMMA CallInvInit == Init => CallInv
<1>1. Init => StackInv
  BY EmptyShape DEF Init, StackInv, AllServe
<1> QED
  BY <1>1, BooksInit DEF CallInv

LEMMA CallInvStep == CallInv /\ [Next]_vars => CallInv'
<1> SUFFICES ASSUME CallInv, [Next]_vars PROVE StackInv'
  BY BooksStep DEF CallInv, StackInv
<1>0. TypeOK /\ StackInv /\ TypeOK'
  BY BooksStep DEF CallInv, Booked, StackInv
<1>1. ASSUME NEW u \in Users, NEW d \in Slots, NEW amount \in Rewards,
             \/ ProcedureTransaction(u, d, amount) \/ PlainTransaction(u, d, amount)
             \/ RefundTransaction(u, d, amount) \/ DirectProcedure(u, d, amount)
      PROVE  StackInv'
  <2>1. CASE RefundTransaction(u, d, amount)
    BY <2>1, EmptyStackInv DEF RefundTransaction, Idle
  <2> QED
    BY <1>0, <1>1, <2>1, TransactionStack
<1>2. CASE EnterTick \/ \E phase \in EpochPhases \cup {"END_TICK"} : StartPhase(phase)
  BY <1>2, EmptyStackInv DEF EnterTick, StartPhase, Idle
<1>3. ASSUME NEW h \in hooks, VisitHook(h[1], h[2]) PROVE StackInv'
  BY <1>0, <1>3, HookIsOfSlot, VisitHookStack
<1>4. ASSUME NEW s \in Slots, SetReserve(s, DefaultReserve) \/ FailIpo(s) PROVE StackInv'
  BY <1>4, EmptyStackInv DEF SetReserve, FailIpo, Idle
<1>5. ASSUME NEW d \in Ids, NEW amount \in Amounts, Transfer(d, amount) PROVE StackInv'
  BY <1>0, <1>5, TransferStack
<1>6. ASSUME NEW target \in Slots, NEW amount \in Amounts, Burn(target, amount) PROVE StackInv'
  <2>1. UNCHANGED <<failed, contractErrors, frames>>
    BY <1>6 DEF Burn, Mutates, Calls, Stay
  <2>2. Unharmed
    BY <1>0, <1>6, <2>1, BurnConserves DEF Unharmed
  <2> QED
    BY <1>0, <2>1, <2>2, SameStackInv
<1>7. ASSUME NEW callee \in Slots, NEW reward \in Rewards,
             InvokeProcedure(callee, reward) \/ SetShareholderProposal(callee, reward)
      PROVE  StackInv'
  BY <1>0, <1>7, InvokeStack, ProposalStack
<1>8. ASSUME NEW callee \in Slots, CallFunction(callee) PROVE StackInv'
  BY <1>0, <1>8, FunctionStack
<1>9. CASE Return \/ \E fee \in Rewards : Agree(fee)
  BY <1>0, <1>9, ReturnStack, AgreeStack
<1>10. CASE TrapCaught
  BY <1>0, <1>10, TrapStack
<1>11. ASSUME NEW aborts \in BOOLEAN, Fail(aborts) PROVE StackInv'
  BY <1>0, <1>11, FailStack, EmptyStackInv
<1>12. CASE UNCHANGED vars
  <2>1. UNCHANGED frames /\ Unharmed
    BY <1>0, <1>12 DEF vars, feeVars, Unharmed, TypeOK
  <2> QED
    BY <1>0, <2>1, SameStackInv
<1>13. ASSUME NEW s \in Slots, Query(s) \/ DeliverNotification(s) PROVE StackInv'
  BY <1>0, <1>13, UngatedStack
<1>14. ASSUME NEW callee \in Slots, MoveRights(callee) PROVE StackInv'
  BY <1>0, <1>14, RightsStack
<1>15. CASE OracleRefused \/ \E fee \in Amounts : OracleStarted(fee)
  BY <1>0, <1>15, OracleStack
<1> QED
  BY <1>1, <1>2, <1>3, <1>4, <1>5, <1>6, <1>7, <1>8, <1>9, <1>10, <1>11, <1>12, <1>13, <1>14,
     <1>15 DEF Next

\* The inductive invariant of the contract calls.
LEMMA CallInvariant == Spec => []CallInv
BY CallInvInit, CallInvStep, PTL DEF Spec

-----------------------------------------------------------------------------
(***************************************************************************)
(* What the shape of a stack says of its height.                           *)
(***************************************************************************)

LEMMA OneNotice ==
  ASSUME NEW st \in Seq(Frames), Shape(st), NEW i \in DOMAIN st, NEW j \in DOMAIN st,
         st[i].via = "notice", st[j].via = "notice"
  PROVE  i = j
<1>1. i \in 1 .. Len(st) /\ j \in 1 .. Len(st) /\ Len(st) \in Nat
  OBVIOUS
<1>2. Fits(st, i) /\ Fits(st, j)
  BY <1>1 DEF Shape
<1>3. ~(i < j) /\ ~(j < i)
  BY <1>1, <1>2 DEF Fits
<1> QED
  BY <1>1, <1>3

LEMMA OneProposal ==
  ASSUME NEW st \in Seq(Frames), Shape(st), NEW i \in DOMAIN st, NEW j \in DOMAIN st,
         Proposes(st[i]), Proposes(st[j])
  PROVE  i = j
<1>1. i \in 1 .. Len(st) /\ j \in 1 .. Len(st) /\ Len(st) \in Nat
  OBVIOUS
<1>2. Fits(st, i) /\ Fits(st, j)
  BY <1>1 DEF Shape
<1>3. ~(i < j) /\ ~(j < i)
  BY <1>1, <1>2 DEF Fits
<1> QED
  BY <1>1, <1>3

LEMMA OneRights ==
  ASSUME NEW st \in Seq(Frames), Shape(st), NEW i \in DOMAIN st, NEW j \in DOMAIN st,
         MovesRights(st[i]), MovesRights(st[j])
  PROVE  i = j
<1>1. i \in 1 .. Len(st) /\ j \in 1 .. Len(st) /\ Len(st) \in Nat
  OBVIOUS
<1>2. Fits(st, i) /\ Fits(st, j)
  BY <1>1 DEF Shape
<1>3. ~(i < j) /\ ~(j < i)
  BY <1>1, <1>2 DEF Fits
<1> QED
  BY <1>1, <1>3

\* A set with no two elements has at most one.
LEMMA AtMostOne ==
  ASSUME NEW S, \A x, y \in S : x = y
  PROVE  IsFiniteSet(S) /\ Cardinality(S) <= 1
<1>1. CASE S = {}
  BY <1>1, FS_EmptySet
<1>2. CASE S # {}
  <2>1. PICK x \in S : TRUE
    BY <1>2
  <2>2. S = {x}
    BY <2>1
  <2>3. IsFiniteSet({x}) /\ Cardinality({x}) = 1
    BY FS_Singleton
  <2> QED
    BY <2>2, <2>3
<1> QED
  BY <1>1, <1>2

\* The frames of a stack that are not notifications inside a call.
EnteredOf(st) == {i \in DOMAIN st : st[i].via # "notification"}

\* The calls that ask for a buffer, but for the notices of their rewards.
DeepOf(st) == {i \in DOMAIN st : IsDeep(st[i]) /\ IsCall(st[i])}

\* The last such call on the stack was made within the depth that is allowed.
LEMMA CallsAreBounded ==
  ASSUME NEW st \in Seq(Frames), Shape(st)
  PROVE  IsFiniteSet(DeepOf(st)) /\ Cardinality(DeepOf(st)) <= Buffers
<1> DEFINE C == DeepOf(st)
<1>1. Len(st) \in Nat /\ DOMAIN st = 1 .. Len(st) /\ Buffers \in Nat
  BY CallConstants
<1>2. IsFiniteSet(DOMAIN st)
  BY <1>1, FS_Interval
<1>3. IsFiniteSet(C) /\ C \subseteq DOMAIN st
  BY <1>2, FS_Subset DEF DeepOf
<1>4. CASE C = {}
  BY <1>1, <1>3, <1>4, FS_EmptySet
<1>5. CASE C # {}
  <2> DEFINE n == Sets!Max(C)
             D == {i \in C : i < n}
  <2>1. C \in SUBSET (0 .. Len(st))
    BY <1>1 DEF DeepOf
  <2>2. n \in C /\ \A x \in C : x <= n
    BY <1>1, <1>5, <2>1, MaxIsGreatest
  <2> HIDE DEF n
  <2>3. n \in 1 .. Len(st) /\ IsDeep(st[n])
    BY <1>1, <2>2 DEF DeepOf
  <2>4. Cardinality(CallsBelow(st, n)) < Buffers
    BY <2>3 DEF Shape, Fits
  <2>5. C = D \cup {n} /\ n \notin D
    BY <1>1, <2>1, <2>2, <2>3
  <2>6. D \in SUBSET CallsBelow(st, n) /\ CallsBelow(st, n) \in SUBSET DOMAIN st
    BY <1>1, <2>1, <2>3 DEF CallsBelow, DeepOf
  <2>7. IsFiniteSet(CallsBelow(st, n)) /\ Cardinality(CallsBelow(st, n)) \in Nat
    BY <1>2, <2>6, FS_Subset, FS_CardinalityType
  <2>8. IsFiniteSet(D) /\ Cardinality(D) <= Cardinality(CallsBelow(st, n)) /\ Cardinality(D) \in Nat
    BY <2>6, <2>7, FS_Subset, FS_CardinalityType
  <2> HIDE DEF D
  <2>9. Cardinality(C) = Cardinality(D) + 1
    BY <2>5, <2>8, FS_AddElement
  <2> QED
    BY <1>1, <1>3, <2>4, <2>7, <2>8, <2>9
<1> QED
  BY <1>4, <1>5

\* A union is no larger than its parts together.
LEMMA UnionIsBounded ==
  ASSUME NEW S, NEW T, IsFiniteSet(S), IsFiniteSet(T), NEW m \in Nat, NEW n \in Nat,
         Cardinality(S) <= m, Cardinality(T) <= n
  PROVE  IsFiniteSet(S \cup T) /\ Cardinality(S \cup T) <= m + n
<1>1. /\ IsFiniteSet(S \cup T) /\ IsFiniteSet(S \cap T)
      /\ Cardinality(S \cup T) = Cardinality(S) + Cardinality(T) - Cardinality(S \cap T)
  BY FS_Union, FS_Intersection
<1>2. Cardinality(S) \in Nat /\ Cardinality(T) \in Nat /\ Cardinality(S \cap T) \in Nat
  BY <1>1, FS_CardinalityType
<1> QED
  BY <1>1, <1>2

\* A frame is a call that asked for a buffer, the callback of rights, the notice, the
\* one the stack started with, or a notification.
LEMMA HeightByDepth ==
  ASSUME NEW st \in Seq(Frames), Shape(st)
  PROVE  Cardinality(EnteredOf(st)) <= Buffers + 3
<1> DEFINE C == DeepOf(st)
           P == {i \in DOMAIN st : st[i].via = "notice"}
           R == {i \in DOMAIN st : MovesRights(st[i])}
           B == {i \in DOMAIN st : st[i].via \in Roots}
<1>1. Len(st) \in Nat /\ DOMAIN st = 1 .. Len(st) /\ Buffers \in Nat
  BY CallConstants
<1>2. IsFiniteSet(C) /\ Cardinality(C) <= Buffers
  BY CallsAreBounded
<1>3. IsFiniteSet(P) /\ Cardinality(P) <= 1
  <2>1. \A i, j \in P : i = j
    BY OneNotice
  <2> HIDE DEF P
  <2> QED
    BY <2>1, AtMostOne
<1>4. IsFiniteSet(B) /\ Cardinality(B) <= 1
  <2>1. \A i \in B : i = 1
    BY <1>1 DEF Shape, Fits
  <2> HIDE DEF B
  <2> QED
    BY <2>1, AtMostOne
<1>5. IsFiniteSet(R) /\ Cardinality(R) <= 1
  <2>1. \A i, j \in R : i = j
    BY OneRights
  <2> HIDE DEF R
  <2> QED
    BY <2>1, AtMostOne
<1>6. EnteredOf(st) \in SUBSET ((C \cup P) \cup (R \cup B))
  <2>1. ASSUME NEW i \in DOMAIN st, st[i].via # "notification"
        PROVE  i \in (C \cup P) \cup (R \cup B)
    <3>1. st[i] \in Frames
      OBVIOUS
    <3>2. st[i].via \in Vias
      BY <3>1 DEF Frames
    <3> QED
      BY <2>1, <3>2 DEF Vias, IsCall, IsDeep, Proposes, InCallback, MovesRights, DeepOf
  <2> QED
    BY <2>1 DEF EnteredOf
<1> HIDE DEF C, P, R, B
<1>7. IsFiniteSet(C \cup P) /\ Cardinality(C \cup P) <= Buffers + 1
  BY <1>1, <1>2, <1>3, UnionIsBounded
<1>8. IsFiniteSet(R \cup B) /\ Cardinality(R \cup B) <= 1 + 1
  BY <1>4, <1>5, UnionIsBounded
<1>9. /\ IsFiniteSet((C \cup P) \cup (R \cup B))
      /\ Cardinality((C \cup P) \cup (R \cup B)) <= (Buffers + 1) + (1 + 1)
  <2>1. Buffers + 1 \in Nat /\ 1 + 1 \in Nat
    BY <1>1
  <2> QED
    BY <1>7, <1>8, <2>1, UnionIsBounded
<1>10. /\ IsFiniteSet(EnteredOf(st))
       /\ Cardinality(EnteredOf(st)) <= Cardinality((C \cup P) \cup (R \cup B))
  BY <1>6, <1>9, FS_Subset
<1>11. Cardinality(EnteredOf(st)) \in Nat /\ Cardinality((C \cup P) \cup (R \cup B)) \in Nat
  BY <1>9, <1>10, FS_CardinalityType
<1> QED
  BY <1>1, <1>9, <1>10, <1>11

\* Between a notice, a proposal and a callback of rights, the contracts on the stack
\* descend: their place in the stack is known from their index, and from which of
\* the three came before.
LEMMA HeightBySlots ==
  ASSUME NEW st \in Seq(Frames), Shape(st)
  PROVE  Cardinality(EnteredOf(st)) <= 4 * Cardinality(Slots)
<1> DEFINE Told(i) == \E k \in 1 .. i : st[k].via = "notice"
           Asked(i) == \E k \in 1 .. i : st[k].via = "proposal"
           Moving(i) == \E k \in 1 .. i : MovesRights(st[k])
           Leg(i) == (IF Told(i) THEN 1 ELSE 0) + (IF Asked(i) THEN 1 ELSE 0)
                       + (IF Moving(i) THEN 1 ELSE 0)
           E == EnteredOf(st)
           Place == [i \in E |-> <<st[i].slot, Leg(i)>>]
           Places == Slots \X (0 .. 3)
<1>1. Len(st) \in Nat /\ DOMAIN st = 1 .. Len(st) /\ E \subseteq DOMAIN st
  BY DEF EnteredOf
<1>2. ASSUME NEW i \in DOMAIN st PROVE st[i].slot \in Slots /\ st[i].via \in Vias
  <2>1. st[i] \in Frames
    OBVIOUS
  <2> QED
    BY <2>1 DEF Frames
<1>3. ASSUME NEW i \in E, NEW j \in E, i < j, Leg(i) = Leg(j)
      PROVE  st[j].slot < st[i].slot
  <2>1. i \in Nat /\ j \in Nat /\ i \in 1 .. j - 1 /\ 1 .. i \subseteq 1 .. j
    BY <1>1, <1>3
  <2>2. (Told(i) => Told(j)) /\ (Asked(i) => Asked(j)) /\ (Moving(i) => Moving(j))
    BY <2>1
  <2>3. (Told(j) => Told(i)) /\ (Asked(j) => Asked(i)) /\ (Moving(j) => Moving(i))
    <3> HIDE DEF Told, Asked, Moving
    <3> QED
      BY <1>3, <2>2
  <2>4. ASSUME NEW k \in i + 1 .. j PROVE Falls(st[k])
    <3>1. k \in DOMAIN st /\ k \in 1 .. Len(st) /\ k \in 1 .. j /\ k # 1
      BY <1>1, <2>1
    <3>2. st[k].via # "notice"
      <4>1. SUFFICES ASSUME st[k].via = "notice" PROVE FALSE
        OBVIOUS
      <4>2. PICK l \in 1 .. i : st[l].via = "notice"
        BY <2>3, <3>1, <4>1
      <4>3. l \in DOMAIN st /\ l # k
        BY <1>1, <2>1, <4>2
      <4> QED
        BY <3>1, <4>1, <4>2, <4>3, OneNotice
    <3>3. st[k].via # "proposal"
      <4>1. SUFFICES ASSUME st[k].via = "proposal" PROVE FALSE
        OBVIOUS
      <4>2. PICK l \in 1 .. i : st[l].via = "proposal"
        BY <2>3, <3>1, <4>1
      <4>3. l \in DOMAIN st /\ l # k
        BY <1>1, <2>1, <4>2
      <4>4. Proposes(st[k]) /\ Proposes(st[l])
        BY <4>1, <4>2 DEF Proposes
      <4> QED
        BY <3>1, <4>3, <4>4, OneProposal
    <3>4. ~MovesRights(st[k])
      <4>1. SUFFICES ASSUME MovesRights(st[k]) PROVE FALSE
        OBVIOUS
      <4>2. PICK l \in 1 .. i : MovesRights(st[l])
        BY <2>3, <3>1, <4>1
      <4>3. l \in DOMAIN st /\ l # k
        BY <1>1, <2>1, <4>2
      <4> QED
        BY <3>1, <4>1, <4>2, <4>3, OneRights
    <3>5. st[k].via \notin Roots
      BY <3>1 DEF Shape, Fits
    <3>6. st[k].via \in Vias
      BY <1>2, <3>1
    <3> QED
      BY <3>2, <3>3, <3>4, <3>5, <3>6 DEF Vias, Falls, Descends, MovesRights
  <2>5. Falls(st[j]) /\ \A k \in i + 1 .. j - 1 : Falls(st[k])
    BY <2>1, <2>4
  <2>6. Descends(st[j])
    BY <2>5 DEF Falls, EnteredOf
  <2>7. Fits(st, j)
    BY <1>1 DEF Shape
  <2> QED
    BY <2>1, <2>5, <2>6, <2>7 DEF Fits
<1>4. ASSUME NEW i \in E PROVE Leg(i) \in 0 .. 3
  <2> HIDE DEF Told, Asked, Moving
  <2> QED
    OBVIOUS
<1> HIDE DEF Leg, E
<1>5. Place \in [E -> Places]
  BY <1>1, <1>2, <1>4
<1>6. ASSUME NEW i \in E, NEW j \in E, Place[i] = Place[j] PROVE i = j
  <2>1. st[i].slot = st[j].slot /\ Leg(i) = Leg(j)
    BY <1>6
  <2>2. i \in Nat /\ j \in Nat /\ st[i].slot \in Nat
    <3>1. i \in Nat /\ j \in Nat
      BY <1>1
    <3>2. st[i].slot \in Slots
      BY <1>1, <1>2
    <3> QED
      BY <3>1, <3>2, CallConstants
  <2>3. ~(i < j) /\ ~(j < i)
    BY <1>3, <2>1, <2>2
  <2> QED
    BY <2>2, <2>3
<1>7. Place \in Injection(E, Places)
  <2> HIDE DEF Place, Places
  <2> QED
    BY <1>5, <1>6 DEF Injection, IsInjective
<1>8. /\ IsFiniteSet(0 .. 3) /\ Cardinality(0 .. 3) = 4
      /\ IsFiniteSet(Slots) /\ Cardinality(Slots) \in Nat
  <2>1. IsFiniteSet(0 .. 3) /\ Cardinality(0 .. 3) = 4
    <3> DEFINE a == 0
               b == 3
    <3>1. a \in Int /\ b \in Int /\ ~(a > b) /\ b - a + 1 = 4
      OBVIOUS
    <3> HIDE DEF a, b
    <3>2. IsFiniteSet(a .. b) /\ Cardinality(a .. b) = 4
      BY <3>1, FS_Interval
    <3> QED
      BY <3>2 DEF a, b
  <2>2. IsFiniteSet(Slots)
    BY CallConstants
  <2> QED
    BY <2>1, <2>2, FS_CardinalityType
<1>9. IsFiniteSet(Places) /\ Cardinality(Places) = Cardinality(Slots) * 4
  BY <1>8, FS_Product
<1> HIDE DEF Place, Places
<1>10. Cardinality(E) <= Cardinality(Places)
  BY <1>7, <1>9, FS_Injection
<1> QED
  BY <1>8, <1>9, <1>10 DEF E

-----------------------------------------------------------------------------
(***************************************************************************)
(* The theorems.                                                           *)
(***************************************************************************)

\* No energy is made or lost by any sequence of transactions, calls, rewards, burns,
\* traps and aborts (transfer, burn, transferInvocationReward, processTickTransaction).
THEOREM EnergyTheorem == Spec => []EnergyConserved
<1>1. CallInv => EnergyConserved
  BY DEF CallInv, Booked
<1> QED
  BY <1>1, CallInvariant, PTL

\* Every unit of a contract's time is held by a frame, accumulated, charged or given
\* up, once, however contracts nest and wherever they trap (invoke, finishMeter, fire,
\* processReports).
THEOREM TimeTheorem == Spec => []TimeIsChargedOnce
<1>1. CallInv => TimeIsChargedOnce
  BY DEF CallInv, Booked
<1> QED
  BY <1>1, CallInvariant, PTL

\* No notice runs in a notice, and whatever contracts call, only their own oracle
\* notifications, each inside the request it answers, make the stack higher than the
\* depth limit and the number of contracts allow (notifyContractOfIncomingTransfer,
\* invokeProcedure, shareholderCallbackRefused, runManagementCallback,
\* callOracleNotification).
THEOREM StackTheorem == Spec => []OnlyNotificationsRecurse
<1>1. CallInv => OnlyNotificationsRecurse
  <2> SUFFICES ASSUME CallInv PROVE OnlyNotificationsRecurse
    OBVIOUS
  <2>1. TypeOK /\ frames \in Seq(Frames) /\ Shape(frames)
    BY DEF CallInv, Booked, StackInv, TypeOK
  <2>2. NoticesDoNotNest
    <3> DEFINE P == {i \in DOMAIN frames : frames[i].via = "notice"}
    <3>1. \A i, j \in P : i = j
      BY <2>1, OneNotice
    <3> HIDE DEF P
    <3>2. Cardinality(P) <= 1
      BY <3>1, AtMostOne
    <3> QED
      BY <3>2 DEF P, NoticesDoNotNest, PitDepth
  <2>3. Entered = EnteredOf(frames)
    BY DEF Entered, EnteredOf
  <2>4. ASSUME NEW i \in DOMAIN frames \ Entered
        PROVE  i > 1 /\ frames[i].slot = frames[i - 1].slot
    <3>1. i \in 1 .. Len(frames) /\ frames[i].via = "notification"
      BY <2>1 DEF Entered
    <3> QED
      BY <2>1, <3>1 DEF Shape, Fits
  <2> QED
    BY <2>1, <2>2, <2>3, <2>4, HeightByDepth, HeightBySlots DEF OnlyNotificationsRecurse
<1> QED
  BY <1>1, CallInvariant, PTL

\* The step of a client that OutOfServiceKeepsNothing speaks of.
KeepsNothing ==
  frames = << >> =>
    \A s \in Slots : (ContractErrorOf(s) \/ ~ReserveOk(s)) /\ ~Runs(s)' => balance'[s] = balance[s]

LEMMA KeepsNothingStep == CallInv /\ [Next]_vars => KeepsNothing
<1> SUFFICES ASSUME CallInv, [Next]_vars, frames = << >>, NEW s \in Slots,
                    ContractErrorOf(s) \/ ~ReserveOk(s), ~Runs(s)'
             PROVE  balance'[s] = balance[s]
  BY DEF KeepsNothing
<1>0. TypeOK /\ balance \in [Ids -> Nat] /\ s \in Ids
  BY DEF CallInv, Booked, TypeOK, Ids
<1>1. ~Calls /\ ~Running
  BY DEF Calls, Running
<1>2. ASSUME NEW u \in Users, NEW d \in Slots, NEW amount \in Rewards,
             ProcedureTransaction(u, d, amount) \/ PlainTransaction(u, d, amount)
      PROVE  balance'[s] = balance[s]
  <2>1. ReserveOk(d) /\ ~ContractErrorOf(d) /\ balance' = Moved(u, d, amount)
    BY <1>2 DEF ProcedureTransaction, PlainTransaction
  <2>2. s # d /\ s # u
    BY <2>1, CallConstants
  <2> QED
    BY <1>0, <2>1, <2>2 DEF Moved
<1>3. ASSUME NEW u \in Users, NEW d \in Slots, NEW amount \in Rewards,
             DirectProcedure(u, d, amount)
      PROVE  balance'[s] = balance[s]
  <2>1. balance' = Moved(u, d, amount) /\ EnterPaid(<< >>, Meters, d, amount, "procedure")
    BY <1>3 DEF DirectProcedure
  <2>2. PICK via \in Vias, next \in Vias \cup {"none"} : Enter(<< >>, Meters, d, via, next)
    BY <2>1 DEF EnterPaid, Vias, Roots
  <2>3. 1 \in DOMAIN frames' /\ frames'[1].slot = d
    BY <2>2 DEF Enter
  <2>4. s # d /\ s # u
    BY <2>3, CallConstants DEF Runs
  <2> QED
    BY <1>0, <2>1, <2>4 DEF Moved
<1>4. ASSUME NEW u \in Users, NEW d \in Slots, NEW amount \in Rewards,
             RefundTransaction(u, d, amount)
      PROVE  balance'[s] = balance[s]
  BY <1>0, <1>4, RefundConserves
<1>5. \/ UNCHANGED balance
      \/ \E u \in Users, d \in Slots, amount \in Rewards :
           \/ ProcedureTransaction(u, d, amount) \/ PlainTransaction(u, d, amount)
           \/ RefundTransaction(u, d, amount) \/ DirectProcedure(u, d, amount)
  BY <1>1 DEF Next, vars, EnterTick, StartPhase, VisitHook, Query, DeliverNotification, Ungated,
     SetReserve, FailIpo, Transfer, Burn, Mutates, InvokeProcedure, CallFunction,
     SetShareholderProposal, MoveRights, OracleRefused, OracleStarted, Ends, Return, Agree,
     TrapCaught, Fail
<1> QED
  BY <1>2, <1>3, <1>4, <1>5

\* A contract that erred or failed its IPO runs no transaction, phase, notice or
\* callback, one that ran dry no transaction, procedure, tick phase or other contract's
\* call, and what a client sends either comes back unless it runs for it
\* (contractErrorOf, reserveOk, processTickTransaction, contractProcessor, procedure,
\* invokeProcedure, callFunction).
THEOREM ServiceTheorem == Spec => OutOfServiceIsGated
<1>1. CallInv => ErroredIsOutOfService /\ DormantIsNotCalled
  <2>1. CallInv => ErroredIsOutOfService /\ DormantNow
    BY ServiceStatement DEF CallInv, StackInv
  <2>2. DormantNow => DormantIsNotCalled
    BY DEF DormantNow, DormantIsCalledBack, DormantIsNotCalled, AsksForReserve
  <2> QED
    BY <2>1, <2>2
<1>2. OutOfServiceKeepsNothing <=> [][KeepsNothing]_vars
  BY DEF OutOfServiceKeepsNothing, KeepsNothing
<1> QED
  BY <1>1, <1>2, KeepsNothingStep, CallInvariant, PTL DEF Spec, OutOfServiceIsGated
=============================================================================
