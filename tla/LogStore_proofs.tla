---------------------------- MODULE LogStore_proofs ----------------------------
(***************************************************************************)
(* Proofs about LogStore, for any retention limit, epoch length, number of *)
(* transactions in a tick and kinds of records.                            *)
(*                                                                         *)
(* The first part is about the store alone: l is a store, w what was       *)
(* written to it in this epoch, and pr the log ids a client had pruned.    *)
(* Each of its methods is shown to preserve what the store promises.  The  *)
(* second part is about the simulator that calls it.                       *)
(***************************************************************************)
EXTENDS LogStore, Sums_proofs, SequenceTheorems

-----------------------------------------------------------------------------
(* What the store promises.                                                *)

Fields == {"records", "ranges", "digests", "digestInput", "previousDigest", "current",
           "currentRanges", "currentTick", "paused", "lastUpdatedTick", "retainedBytes",
           "finalizedLogCount", "finalizedTicks", "tickBegin", "evictedThroughTick", "overflowed"}

All(l) == 0 .. Len(l.records) - 1
Final(l) == 0 .. l.finalizedLogCount - 1
Open(l) == l.finalizedLogCount .. Len(l.records) - 1

TickRecords == [tick : Int, fromLogId : Nat, toLogId : Nat]

IsStore(l) ==
  /\ DOMAIN l = Fields
  /\ l.records \in Seq(Record \cup {Gone})
  /\ DOMAIN l.currentRanges = RangeIds
  /\ DOMAIN l.digestInput = {"previous", "messages"} /\ l.digestInput.messages \in Seq(Nat)
  /\ l.current \in OpenRange \cup {NoRange}
  /\ l.currentTick \in Int /\ l.lastUpdatedTick \in Int /\ l.evictedThroughTick \in Int
  /\ l.tickBegin \in Int /\ l.retainedBytes \in Int
  /\ l.finalizedLogCount \in Nat /\ l.finalizedLogCount <= Len(l.records)
  /\ l.finalizedTicks \in Seq(TickRecords)
  /\ l.paused \in BOOLEAN /\ l.overflowed \in BOOLEAN

\* At most one tick is open, the one after the last that is final, and only it has
\* records that are not final.
TicksInOrder(l) ==
  /\ l.currentTick \in {l.lastUpdatedTick, l.lastUpdatedTick + 1}
  /\ l.currentTick = l.lastUpdatedTick => l.finalizedLogCount = Len(l.records)
  /\ l.current # NoRange => /\ l.current.tick = l.currentTick
                            /\ l.currentTick = l.lastUpdatedTick + 1
  /\ l.tickBegin <= l.lastUpdatedTick + 1
  /\ l.evictedThroughTick <= l.lastUpdatedTick

\* What is kept is as it was written, and what is not final is kept.
IsHistory(l, w) ==
  /\ w \in Seq(Record) /\ Len(w) = Len(l.records)
  /\ \A p \in 1 .. Len(w) : l.records[p] \in {Gone, w[p]}
  /\ \A id \in Open(l) : l.records[id + 1] # Gone /\ w[id + 1].tick = l.currentTick
  /\ \A id \in Final(l) : w[id + 1].tick \in l.tickBegin .. l.lastUpdatedTick

\* A record that is gone was pruned or is of a tick that was evicted; the records
\* of the ticks up to evictedThroughTick are all gone and so are their ranges.
GoneIsKnown(l, w, pr) ==
  \A id \in Final(l) :
    /\ l.records[id + 1] = Gone => id \in pr \/ w[id + 1].tick <= l.evictedThroughTick
    /\ w[id + 1].tick <= l.evictedThroughTick =>
         l.records[id + 1] = Gone /\ w[id + 1].tick \notin DOMAIN l.ranges

\* finalizedTicks lists the other ticks that have records, the oldest first.
TicksAreListed(l, w) ==
  LET ft == l.finalizedTicks IN
  /\ \A i \in 1 .. Len(ft) :
       /\ ft[i].tick > l.evictedThroughTick /\ ft[i].tick <= l.lastUpdatedTick
       /\ ft[i].fromLogId < ft[i].toLogId /\ ft[i].toLogId <= l.finalizedLogCount
       /\ \A id \in IdsOf(ft[i]) : w[id + 1].tick = ft[i].tick
  /\ \A i, j \in 1 .. Len(ft) : i < j => ft[i].tick < ft[j].tick
  /\ \A id \in Final(l) : w[id + 1].tick > l.evictedThroughTick =>
       \E i \in 1 .. Len(ft) : id \in IdsOf(ft[i])

IsAccounted(l) ==
  l.retainedBytes = BytesOf(l, All(l)) /\ l.retainedBytes <= MaxRetainedBytes

\* The records of a final tick, and the open ones, under one range.
FinalUnder(l, w, t, x) == {id \in Final(l) : w[id + 1].tick = t /\ w[id + 1].txId = x}
OpenUnder(l, w, x) == {id \in Open(l) : w[id + 1].txId = x}

Tells(range, ids) ==
  range = IF ids = {} THEN [fromLogId |-> RANGE_NOTHING_LOGGED, length |-> RANGE_NOTHING_LOGGED]
          ELSE [fromLogId |-> Least(ids), length |-> Cardinality(ids)]

RangesTell(l, w) ==
  /\ l.currentTick > l.lastUpdatedTick =>
       \A x \in RangeIds : Tells(l.currentRanges[x], OpenUnder(l, w, x))
  /\ DOMAIN l.ranges \subseteq l.tickBegin .. l.lastUpdatedTick
  /\ \A t \in DOMAIN l.ranges, x \in RangeIds : Tells(l.ranges[t][x], FinalUnder(l, w, t, x))
  /\ \A t \in l.tickBegin .. l.lastUpdatedTick : t \notin DOMAIN l.ranges =>
       t <= l.evictedThroughTick /\ \E id \in Final(l) : w[id + 1].tick = t

Whole == {LOG_SC_BEGIN_EPOCH, LOG_SC_NOTIFICATION, LOG_SC_END_TICK}
IsInterval(S) == \A a, b \in S : a .. b \subseteq S

RangesAreWhole(l, w) ==
  \A x \in Whole : /\ IsInterval(OpenUnder(l, w, x))
                   /\ \A t \in DOMAIN l.ranges : IsInterval(FinalUnder(l, w, t, x))

\* The last open records are those under x.
IsTail(l, w, x) ==
  \A a \in OpenUnder(l, w, x), b \in Open(l) : a <= b => b \in OpenUnder(l, w, x)

\* A sequence that enumerates a set of log ids.
Enumerates(s, S) ==
  /\ s \in Seq(Nat) /\ S = {s[n] : n \in 1 .. Len(s)}
  /\ \A m, n \in 1 .. Len(s) : m < n => s[m] < s[n]

FinalMutations(l, w, t) == {id \in Final(l) : w[id + 1].tick = t /\ w[id + 1].digested}
OpenMutations(l, w) == {id \in Open(l) : w[id + 1].digested}

\* The digest of the last final tick, and what the next one starts from.
DigestsCover(l, w) ==
  /\ l.tickBegin .. l.lastUpdatedTick \subseteq DOMAIN l.digests
  /\ \A t \in l.tickBegin .. l.lastUpdatedTick :
       /\ l.digests[t] \in Seq(Seq(Nat)) /\ Len(l.digests[t]) = t - l.tickBegin + 1
       /\ \A n \in 1 .. Len(l.digests[t]) :
            Enumerates(l.digests[t][n], FinalMutations(l, w, l.tickBegin + n - 1))
  /\ l.previousDigest = IF l.lastUpdatedTick < l.tickBegin THEN ZeroDigest
                        ELSE l.digests[l.lastUpdatedTick]
  /\ l.currentTick > l.lastUpdatedTick =>
       /\ l.digestInput.previous = l.previousDigest
       /\ Enumerates(l.digestInput.messages, OpenMutations(l, w))

Sound(l, w, pr) ==
  /\ IsStore(l) /\ TicksInOrder(l) /\ IsHistory(l, w) /\ GoneIsKnown(l, w, pr)
  /\ TicksAreListed(l, w) /\ IsAccounted(l) /\ RangesTell(l, w) /\ RangesAreWhole(l, w)
  /\ DigestsCover(l, w)
-----------------------------------------------------------------------------
(* Opening and closing ranges.                                             *)

\* Two stores that differ only in which range is open.
SameLog(l, k) ==
  /\ DOMAIN k = Fields
  /\ k.records = l.records /\ k.ranges = l.ranges /\ k.digests = l.digests
  /\ k.digestInput = l.digestInput /\ k.previousDigest = l.previousDigest
  /\ k.currentRanges = l.currentRanges /\ k.currentTick = l.currentTick
  /\ k.lastUpdatedTick = l.lastUpdatedTick /\ k.retainedBytes = l.retainedBytes
  /\ k.finalizedLogCount = l.finalizedLogCount /\ k.finalizedTicks = l.finalizedTicks
  /\ k.tickBegin = l.tickBegin /\ k.evictedThroughTick = l.evictedThroughTick
  /\ k.overflowed = l.overflowed

LEMMA SameSound ==
  ASSUME NEW l, NEW k, NEW w, NEW pr, Sound(l, w, pr), SameLog(l, k),
         k.current \in OpenRange \cup {NoRange}, k.paused \in BOOLEAN,
         k.current # NoRange => /\ k.current.tick = k.currentTick
                                /\ k.currentTick = k.lastUpdatedTick + 1
  PROVE  Sound(k, w, pr)
<1> USE DEF SameLog
<1>1. All(k) = All(l) /\ Final(k) = Final(l) /\ Open(k) = Open(l)
  BY DEF All, Final, Open
<1>2. IsStore(k)
  BY DEF Sound, IsStore
<1>3. TicksInOrder(k)
  BY DEF Sound, TicksInOrder
<1>4. IsHistory(k, w) /\ GoneIsKnown(k, w, pr)
  BY <1>1 DEF Sound, IsHistory, GoneIsKnown
<1>5. TicksAreListed(k, w)
  BY <1>1 DEF Sound, TicksAreListed
<1>6. IsAccounted(k)
  <2>1. BytesOf(k, All(k)) = BytesOf(l, All(l))
    BY <1>1 DEF BytesOf, SizeOf
  <2> QED
    BY <2>1 DEF Sound, IsAccounted
<1>7. /\ \A x : OpenUnder(k, w, x) = OpenUnder(l, w, x)
      /\ \A t, x : FinalUnder(k, w, t, x) = FinalUnder(l, w, t, x)
      /\ \A t : FinalMutations(k, w, t) = FinalMutations(l, w, t)
      /\ OpenMutations(k, w) = OpenMutations(l, w)
  BY <1>1 DEF OpenUnder, FinalUnder, FinalMutations, OpenMutations
<1>8. RangesTell(k, w) /\ RangesAreWhole(k, w)
  BY <1>1, <1>7 DEF Sound, RangesTell, RangesAreWhole
<1>9. DigestsCover(k, w)
  BY <1>7 DEF Sound, DigestsCover
<1> QED
  BY <1>2, <1>3, <1>4, <1>5, <1>6, <1>8, <1>9 DEF Sound

LEMMA EndSound ==
  ASSUME NEW l, NEW w, NEW pr, Sound(l, w, pr)
  PROVE  Sound(End(l), w, pr) /\ SameLog(l, End(l)) /\ End(l).current = NoRange
<1>1. SameLog(l, End(l)) /\ End(l).current = NoRange /\ End(l).paused = l.paused
  BY DEF End, SameLog, Sound, IsStore, Fields
<1>2. l.paused \in BOOLEAN
  BY DEF Sound, IsStore
<1> QED
  BY <1>1, <1>2, SameSound

LEMMA PausedSound ==
  ASSUME NEW l, NEW w, NEW pr, Sound(l, w, pr), NEW on \in BOOLEAN
  PROVE  Sound([l EXCEPT !.paused = on], w, pr) /\ SameLog(l, [l EXCEPT !.paused = on])
         /\ [l EXCEPT !.paused = on].current = l.current
<1> DEFINE k == [l EXCEPT !.paused = on]
<1>1. SameLog(l, k) /\ k.current = l.current /\ k.paused = on
  BY DEF SameLog, Sound, IsStore, Fields
<1>2. /\ l.current \in OpenRange \cup {NoRange}
      /\ l.current # NoRange => /\ l.current.tick = l.currentTick
                                /\ l.currentTick = l.lastUpdatedTick + 1
  BY DEF Sound, IsStore, TicksInOrder
<1>3. k.current # NoRange => /\ k.current.tick = k.currentTick
                             /\ k.currentTick = k.lastUpdatedTick + 1
  BY <1>1, <1>2 DEF SameLog
<1> HIDE DEF k
<1>4. Sound(k, w, pr)
  BY <1>1, <1>2, <1>3, SameSound
<1> QED
  BY <1>1, <1>4 DEF k

\* What is told of no record.
LEMMA NothingTold ==
  \A x \in RangeIds : EmptyRanges[x] = [fromLogId |-> RANGE_NOTHING_LOGGED,
                                       length |-> RANGE_NOTHING_LOGGED]
BY DEF EmptyRanges, UniformRanges

LEMMA EmptyTells ==
  /\ DOMAIN EmptyRanges = RangeIds
  /\ \A x \in RangeIds : \A ids : ids = {} => Tells(EmptyRanges[x], ids)
BY NothingTold DEF EmptyRanges, UniformRanges, Tells

LEMMA NothingEnumerated == Enumerates(<< >>, {})
BY DEF Enumerates

\* The next tick is opened by the first range in it.
LEMMA OpenedSound ==
  ASSUME NEW l, NEW w, NEW pr, Sound(l, w, pr), NEW t, t = l.lastUpdatedTick + 1,
         l.current = NoRange
  PROVE  /\ Sound(Opened(l, t), w, pr)
         /\ Opened(l, t).currentTick = t /\ Opened(l, t).records = l.records
         /\ Opened(l, t).lastUpdatedTick = l.lastUpdatedTick
         /\ Opened(l, t).finalizedLogCount = l.finalizedLogCount
         /\ Opened(l, t).tickBegin = l.tickBegin
         /\ Opened(l, t).overflowed = l.overflowed /\ Opened(l, t).current = NoRange
<1> DEFINE k == Opened(l, t)
<1>1. CASE l.currentTick = t
  BY <1>1 DEF Opened, Sound, TicksInOrder
<1>2. CASE l.currentTick # t
  <2>0. l.currentTick = l.lastUpdatedTick /\ l.finalizedLogCount = Len(l.records)
    BY <1>2 DEF Sound, TicksInOrder
  <2>1. /\ DOMAIN k = Fields
        /\ k.records = l.records /\ k.ranges = l.ranges /\ k.digests = l.digests
        /\ k.digestInput = [previous |-> l.previousDigest, messages |-> << >>]
        /\ k.previousDigest = l.previousDigest
        /\ k.currentRanges = EmptyRanges /\ k.currentTick = t
        /\ k.lastUpdatedTick = l.lastUpdatedTick /\ k.retainedBytes = l.retainedBytes
        /\ k.finalizedLogCount = l.finalizedLogCount /\ k.finalizedTicks = l.finalizedTicks
        /\ k.tickBegin = l.tickBegin /\ k.evictedThroughTick = l.evictedThroughTick
        /\ k.overflowed = l.overflowed /\ k.current = l.current /\ k.paused = l.paused
    BY <1>2 DEF Opened, Sound, IsStore, Fields
  <2> HIDE DEF k
  <2>2. Open(l) = {} /\ Open(k) = {} /\ Final(k) = Final(l) /\ All(k) = All(l)
    BY <2>0, <2>1 DEF Open, Final, All, Sound, IsStore
  <2>3. IsStore(k)
    BY <2>1, EmptyTells DEF Sound, IsStore, TicksInOrder
  <2>4. TicksInOrder(k)
    BY <2>0, <2>1 DEF Sound, TicksInOrder, IsStore
  <2>5. IsHistory(k, w) /\ GoneIsKnown(k, w, pr)
    BY <2>1, <2>2 DEF Sound, IsHistory, GoneIsKnown
  <2>6. TicksAreListed(k, w)
    BY <2>1, <2>2 DEF Sound, TicksAreListed
  <2>7. IsAccounted(k)
    <3>1. BytesOf(k, All(k)) = BytesOf(l, All(l))
      BY <2>1, <2>2 DEF BytesOf, SizeOf
    <3> QED
      BY <2>1, <3>1 DEF Sound, IsAccounted
  <2>8. /\ \A x : OpenUnder(k, w, x) = {}
        /\ \A s, x : FinalUnder(k, w, s, x) = FinalUnder(l, w, s, x)
        /\ \A s : FinalMutations(k, w, s) = FinalMutations(l, w, s)
        /\ OpenMutations(k, w) = {}
    BY <2>2 DEF OpenUnder, FinalUnder, FinalMutations, OpenMutations
  <2>9. RangesTell(k, w)
    <3>1. \A x \in RangeIds : Tells(k.currentRanges[x], OpenUnder(k, w, x))
      BY <2>1, <2>8, EmptyTells
    <3> QED
      BY <2>1, <2>2, <2>8, <3>1 DEF Sound, RangesTell
  <2>10. RangesAreWhole(k, w)
    BY <2>1, <2>8 DEF Sound, RangesAreWhole, IsInterval
  <2>11. DigestsCover(k, w)
    <3>1. k.digestInput.previous = k.previousDigest /\ k.digestInput.messages = << >>
      BY <2>1
    <3>2. Enumerates(k.digestInput.messages, OpenMutations(k, w))
      BY <2>8, <3>1, NothingEnumerated
    <3> QED
      BY <2>1, <2>8, <3>1, <3>2 DEF Sound, DigestsCover
  <2>12. Sound(k, w, pr)
    BY <2>3, <2>4, <2>5, <2>6, <2>7, <2>9, <2>10, <2>11 DEF Sound
  <2> QED
    BY <2>1, <2>12 DEF k
<1> QED
  BY <1>1, <1>2
LEMMA BeginSound ==
  ASSUME NEW l, NEW w, NEW pr, Sound(l, w, pr), NEW t, t = l.lastUpdatedTick + 1,
         l.current = NoRange, NEW x \in RangeIds
  PROVE  /\ Sound(Begin(l, t, x), w, pr)
         /\ Begin(l, t, x).currentTick = t /\ Begin(l, t, x).records = l.records
         /\ Begin(l, t, x).lastUpdatedTick = l.lastUpdatedTick
         /\ Begin(l, t, x).finalizedLogCount = l.finalizedLogCount
         /\ Begin(l, t, x).tickBegin = l.tickBegin
         /\ Begin(l, t, x).overflowed = l.overflowed
         /\ Begin(l, t, x).current = [tick |-> t, txId |-> x]
<1> DEFINE o == Opened(l, t)  b == Begin(l, t, x)
<1>1. /\ Sound(o, w, pr) /\ o.currentTick = t /\ o.records = l.records
      /\ o.lastUpdatedTick = l.lastUpdatedTick /\ o.finalizedLogCount = l.finalizedLogCount
      /\ o.tickBegin = l.tickBegin /\ o.overflowed = l.overflowed
  BY OpenedSound
<1>2. b = [o EXCEPT !.current = [tick |-> t, txId |-> x]]
  BY DEF Begin
<1> HIDE DEF o, b
<1>3. SameLog(o, b) /\ b.current = [tick |-> t, txId |-> x] /\ b.paused = o.paused
  BY <1>1, <1>2 DEF SameLog, Sound, IsStore, Fields
<1>4. b.current \in OpenRange /\ b.current.tick = b.currentTick /\ b.paused \in BOOLEAN
      /\ b.currentTick = b.lastUpdatedTick + 1
  BY <1>1, <1>3 DEF SameLog, OpenRange, Sound, IsStore
<1>5. Sound(b, w, pr)
  BY <1>1, <1>3, <1>4, SameSound
<1> QED
  BY <1>1, <1>3, <1>5 DEF b, SameLog

\* Whoever may begin a range in the tick that is due is not refused, unless the
\* store has overflowed.
LEMMA OnlyOverflowThrows ==
  ASSUME NEW l, NEW w, NEW pr, Sound(l, w, pr), NEW t, t = l.lastUpdatedTick + 1
  PROVE  /\ BeginThrows(l, t) <=> l.overflowed
         /\ FinalizeThrows(l, t) <=> l.overflowed
<1>1. ~TickIsClosed(l, t)
  BY DEF TickIsClosed, Sound, TicksInOrder, IsStore
<1> QED
  BY <1>1 DEF BeginThrows, FinalizeThrows

-----------------------------------------------------------------------------
(* Bytes.                                                                  *)

LEMMA SizeType ==
  ASSUME NEW l, l.records \in Seq(Record \cup {Gone}), NEW id \in All(l)
  PROVE  SizeOf(l, id) \in Nat
<1>1. id + 1 \in 1 .. Len(l.records)
  BY DEF All
<1>2. l.records[id + 1] \in Record \cup {Gone}
  BY <1>1
<1> QED
  BY <1>2 DEF SizeOf, Record

\* Equal sizes, equal bytes.
LEMMA BytesAgree ==
  ASSUME NEW l, NEW k, NEW ids, IsFiniteSet(ids), \A id \in ids : SizeOf(l, id) = SizeOf(k, id)
  PROVE  BytesOf(l, ids) = BytesOf(k, ids)
<1>1. [id \in ids |-> SizeOf(l, id)] = [id \in ids |-> SizeOf(k, id)]
  OBVIOUS
<1> QED
  BY <1>1 DEF BytesOf

LEMMA BytesNat ==
  ASSUME NEW l, NEW ids, IsFiniteSet(ids), \A id \in ids : SizeOf(l, id) \in Nat
  PROVE  BytesOf(l, ids) \in Nat
<1> DEFINE f == [id \in ids |-> SizeOf(l, id)]
<1>1. \A id \in ids : f[id] \in Nat
  OBVIOUS
<1> HIDE DEF f
<1>2. Total(f, ids) \in Nat
  BY <1>1, TotalNat
<1> QED
  BY <1>2 DEF BytesOf, f

LEMMA BytesOfNothing ==
  ASSUME NEW l, NEW ids, IsFiniteSet(ids), \A id \in ids : SizeOf(l, id) = 0
  PROVE  BytesOf(l, ids) = 0
<1> DEFINE f == [id \in ids |-> SizeOf(l, id)]
<1>1. \A id \in ids : f[id] = 0
  OBVIOUS
<1> HIDE DEF f
<1>2. Total(f, ids) = Cardinality(ids) * 0 /\ Cardinality(ids) \in Nat
  BY <1>1, TotalOfConstant, FS_CardinalityType
<1> QED
  BY <1>2 DEF BytesOf, f

LEMMA BytesSplit ==
  ASSUME NEW l, NEW ids, IsFiniteSet(ids), \A id \in ids : SizeOf(l, id) \in Nat,
         NEW some \in SUBSET ids
  PROVE  BytesOf(l, ids) = BytesOf(l, ids \ some) + BytesOf(l, some)
<1> DEFINE f == [id \in ids |-> SizeOf(l, id)]
           rest == ids \ some
           g == [id \in some |-> SizeOf(l, id)]
           h == [id \in rest |-> SizeOf(l, id)]
<1>1. /\ \A id \in ids : f[id] \in Int
      /\ \A id \in some : f[id] = g[id]
      /\ \A id \in rest : f[id] = h[id]
  OBVIOUS
<1>2. /\ IsFiniteSet(some) /\ IsFiniteSet(rest) /\ ids = rest \cup some /\ rest \cap some = {}
  BY FS_Subset
<1>3. BytesOf(l, ids) = Total(f, ids) /\ BytesOf(l, rest) = Total(h, rest)
      /\ BytesOf(l, some) = Total(g, some)
  BY DEF BytesOf
<1>4. \A id \in rest : f[id] = h[id]
  OBVIOUS
<1>5. \A id \in some : f[id] = g[id]
  OBVIOUS
<1> HIDE DEF f, g, h, rest
<1>6. Total(f, rest \cup some) = Total(f, rest) + Total(f, some)
  BY ONLY <1>1, <1>2, TotalUnion
<1>7. Total(f, rest) = Total(h, rest)
  BY ONLY <1>2, <1>4, TotalAgrees
<1>8. Total(f, some) = Total(g, some)
  BY ONLY <1>2, <1>5, TotalAgrees
<1> QED
  BY <1>2, <1>3, <1>6, <1>7, <1>8 DEF rest

LEMMA IdsAreFinite ==
  ASSUME NEW a \in Int, NEW b \in Int
  PROVE  IsFiniteSet(a .. b)
BY FS_Interval

\* Dropping records frees exactly their bytes.
LEMMA DropBytes ==
  ASSUME NEW l, IsStore(l), IsAccounted(l), NEW ids \in SUBSET All(l),
         NEW k, k.records \in Seq(Record \cup {Gone}), Len(k.records) = Len(l.records),
         \A p \in 1 .. Len(l.records) :
           k.records[p] = IF p - 1 \in ids THEN Gone ELSE l.records[p],
         k.retainedBytes = l.retainedBytes - BytesOf(l, ids)
  PROVE  IsAccounted(k)
<1>0. All(k) = All(l) /\ IsFiniteSet(All(l)) /\ IsFiniteSet(All(l) \ ids) /\ IsFiniteSet(ids)
  <2>1. IsFiniteSet(All(l))
    BY IdsAreFinite DEF All, IsStore
  <2> QED
    BY <2>1, FS_Subset DEF All
<1>1. \A id \in All(l) : SizeOf(l, id) \in Nat
  BY SizeType DEF IsStore
<1>2. \A id \in ids : SizeOf(k, id) = 0
  <2> SUFFICES ASSUME NEW id \in ids PROVE SizeOf(k, id) = 0
    OBVIOUS
  <2>1. id + 1 \in 1 .. Len(l.records) /\ (id + 1) - 1 = id
    BY DEF All, IsStore
  <2> QED
    BY <2>1 DEF SizeOf
<1>3. \A id \in All(l) \ ids : SizeOf(k, id) = SizeOf(l, id)
  <2> SUFFICES ASSUME NEW id \in All(l) \ ids PROVE SizeOf(k, id) = SizeOf(l, id)
    OBVIOUS
  <2>1. id + 1 \in 1 .. Len(l.records) /\ (id + 1) - 1 = id
    BY DEF All, IsStore
  <2> QED
    BY <2>1 DEF SizeOf
<1>4. \A id \in All(l) : SizeOf(k, id) \in Nat
  BY <1>1, <1>2, <1>3
<1>5. BytesOf(k, All(l)) = BytesOf(k, All(l) \ ids) + BytesOf(k, ids)
  BY <1>0, <1>4, BytesSplit
<1>6. BytesOf(l, All(l)) = BytesOf(l, All(l) \ ids) + BytesOf(l, ids)
  BY <1>0, <1>1, BytesSplit
<1>7. BytesOf(k, ids) = 0
  BY <1>0, <1>2, BytesOfNothing
<1>8. BytesOf(k, All(l) \ ids) = BytesOf(l, All(l) \ ids)
  BY <1>0, <1>3, BytesAgree
<1>9. BytesOf(l, ids) \in Nat /\ BytesOf(l, All(l) \ ids) \in Nat
  BY <1>0, <1>1, BytesNat
<1> QED
  BY <1>0, <1>5, <1>6, <1>7, <1>8, <1>9, LogConstants DEF IsAccounted
-----------------------------------------------------------------------------
(* Pruning and evicting.                                                   *)

LEMMA Dropped ==
  ASSUME NEW l, IsStore(l), IsAccounted(l), NEW ids \in SUBSET Final(l)
  PROVE  LET k == Drop(l, ids) IN
         /\ DOMAIN k = Fields
         /\ k.records \in Seq(Record \cup {Gone}) /\ Len(k.records) = Len(l.records)
         /\ \A p \in 1 .. Len(l.records) :
              k.records[p] = IF p - 1 \in ids THEN Gone ELSE l.records[p]
         /\ k.retainedBytes \in Int /\ IsAccounted(k)
         /\ All(k) = All(l) /\ Final(k) = Final(l) /\ Open(k) = Open(l)
         /\ \A f \in Fields \ {"records", "retainedBytes"} : k[f] = l[f]
<1> DEFINE k == Drop(l, ids)
<1>1. /\ DOMAIN k = Fields
      /\ k.records = [p \in DOMAIN l.records |-> IF p - 1 \in ids THEN Gone ELSE l.records[p]]
      /\ k.retainedBytes = l.retainedBytes - BytesOf(l, ids)
      /\ \A f \in Fields \ {"records", "retainedBytes"} : k[f] = l[f]
  BY DEF Drop, IsStore, Fields
<1>2. DOMAIN l.records = 1 .. Len(l.records) /\ Len(l.records) \in Nat
      /\ \A p \in 1 .. Len(l.records) : l.records[p] \in Record \cup {Gone}
  BY DEF IsStore
<1>3. k.records \in Seq(Record \cup {Gone}) /\ Len(k.records) = Len(l.records)
  <2>1. k.records \in [1 .. Len(l.records) -> Record \cup {Gone}]
    BY <1>1, <1>2
  <2> HIDE DEF k
  <2> QED
    BY ONLY <1>2, <2>1
<1>4. \A p \in 1 .. Len(l.records) : k.records[p] = IF p - 1 \in ids THEN Gone ELSE l.records[p]
  BY <1>1, <1>2
<1> HIDE DEF k
<1>5. ids \in SUBSET All(l)
  BY DEF Final, All, IsStore
<1>6. IsAccounted(k)
  BY <1>1, <1>3, <1>4, <1>5, DropBytes
<1>7. k.retainedBytes \in Int
  <2>1. IsFiniteSet(ids)
    <3>1. IsFiniteSet(Final(l))
      BY IdsAreFinite DEF Final, IsStore
    <3> QED
      BY <3>1, FS_Subset
  <2>2. BytesOf(l, ids) \in Nat
    <3>1. \A id \in ids : SizeOf(l, id) \in Nat
      BY <1>5, SizeType DEF IsStore
    <3> QED
      BY <2>1, <3>1, BytesNat
  <2> QED
    BY <1>1, <2>2 DEF IsStore
<1>8. k.finalizedLogCount = l.finalizedLogCount
  BY <1>1 DEF Fields
<1>9. All(k) = All(l) /\ Final(k) = Final(l) /\ Open(k) = Open(l)
  BY <1>3, <1>8 DEF All, Final, Open
<1> QED
  BY <1>1, <1>3, <1>4, <1>6, <1>7, <1>9 DEF k

\* Dropping final records changes nothing that is open.
LEMMA DroppedHistory ==
  ASSUME NEW l, NEW w, IsStore(l), IsHistory(l, w), NEW ids \in SUBSET Final(l), NEW k,
         \A p \in 1 .. Len(l.records) :
           k.records[p] = IF p - 1 \in ids THEN Gone ELSE l.records[p],
         Len(k.records) = Len(l.records), k.finalizedLogCount = l.finalizedLogCount,
         k.currentTick = l.currentTick, k.tickBegin = l.tickBegin,
         k.lastUpdatedTick = l.lastUpdatedTick
  PROVE  IsHistory(k, w)
<1>1. Final(k) = Final(l) /\ Open(k) = Open(l)
  BY DEF Final, Open
<1>2. \A id \in Open(l) : id + 1 \in 1 .. Len(l.records) /\ (id + 1) - 1 \notin ids
  BY DEF Open, Final, IsStore
<1>3. \A id \in Open(k) : k.records[id + 1] # Gone /\ w[id + 1].tick = k.currentTick
  BY <1>1, <1>2 DEF IsHistory
<1> QED
  BY <1>1, <1>3 DEF IsHistory

LEMMA PruneSound ==
  ASSUME NEW l, NEW w, NEW pr, Sound(l, w, pr), NEW from \in Int, NEW to \in Int,
         MayPrune(l, from, to)
  PROVE  LET k == PruneLog(l, from, to) IN
         /\ Sound(k, w, pr \cup (from .. to)) /\ Len(k.records) = Len(l.records)
         /\ \A f \in Fields \ {"records", "retainedBytes"} : k[f] = l[f]
<1> DEFINE ids == from .. to  k == Drop(l, ids)  pr2 == pr \cup (from .. to)
<1>0. IsStore(l) /\ IsAccounted(l) /\ IsHistory(l, w)
  BY DEF Sound
<1>1. ids \in SUBSET Final(l)
  BY <1>0 DEF MayPrune, Final, IsStore
<1> HIDE DEF ids
<1>2. /\ DOMAIN k = Fields
      /\ k.records \in Seq(Record \cup {Gone}) /\ Len(k.records) = Len(l.records)
      /\ \A p \in 1 .. Len(l.records) :
           k.records[p] = IF p - 1 \in ids THEN Gone ELSE l.records[p]
      /\ k.retainedBytes \in Int /\ IsAccounted(k)
      /\ All(k) = All(l) /\ Final(k) = Final(l) /\ Open(k) = Open(l)
      /\ \A f \in Fields \ {"records", "retainedBytes"} : k[f] = l[f]
  BY <1>0, <1>1, Dropped
<1> HIDE DEF k
<1>3. /\ k.ranges = l.ranges /\ k.digests = l.digests
      /\ k.digestInput = l.digestInput /\ k.previousDigest = l.previousDigest
      /\ k.current = l.current /\ k.paused = l.paused
      /\ k.currentRanges = l.currentRanges /\ k.currentTick = l.currentTick
      /\ k.lastUpdatedTick = l.lastUpdatedTick
      /\ k.finalizedLogCount = l.finalizedLogCount /\ k.finalizedTicks = l.finalizedTicks
      /\ k.tickBegin = l.tickBegin /\ k.evictedThroughTick = l.evictedThroughTick
      /\ k.overflowed = l.overflowed
  BY <1>2 DEF Fields
<1>4. IsStore(k)
  BY <1>2, <1>3 DEF Sound, IsStore
<1>5. TicksInOrder(k)
  BY <1>2, <1>3 DEF Sound, TicksInOrder
<1>6. IsHistory(k, w)
  BY <1>0, <1>1, <1>2, <1>3, DroppedHistory
<1>7. GoneIsKnown(k, w, pr2)
  <2> SUFFICES ASSUME NEW id \in Final(l)
               PROVE  /\ k.records[id + 1] = Gone => id \in pr2 \/ w[id + 1].tick <= l.evictedThroughTick
                      /\ w[id + 1].tick <= l.evictedThroughTick =>
                           k.records[id + 1] = Gone /\ w[id + 1].tick \notin DOMAIN l.ranges
    BY <1>2, <1>3 DEF GoneIsKnown
  <2>1. id + 1 \in 1 .. Len(l.records) /\ (id + 1) - 1 = id
    BY <1>0 DEF Final, IsStore
  <2>2. k.records[id + 1] = IF id \in ids THEN Gone ELSE l.records[id + 1]
    BY <1>2, <2>1
  <2> QED
    BY <2>2 DEF Sound, GoneIsKnown, ids
<1>8. TicksAreListed(k, w)
  BY <1>2, <1>3 DEF Sound, TicksAreListed
<1>9. /\ \A x : OpenUnder(k, w, x) = OpenUnder(l, w, x)
      /\ \A t, x : FinalUnder(k, w, t, x) = FinalUnder(l, w, t, x)
      /\ \A t : FinalMutations(k, w, t) = FinalMutations(l, w, t)
      /\ OpenMutations(k, w) = OpenMutations(l, w)
  BY <1>2 DEF OpenUnder, FinalUnder, FinalMutations, OpenMutations
<1>10. RangesTell(k, w) /\ RangesAreWhole(k, w)
  BY <1>2, <1>3, <1>9 DEF Sound, RangesTell, RangesAreWhole
<1>11. DigestsCover(k, w)
  BY <1>3, <1>9 DEF Sound, DigestsCover
<1>12. Sound(k, w, pr2)
  BY <1>2, <1>4, <1>5, <1>6, <1>7, <1>8, <1>10, <1>11 DEF Sound
<1> QED
  BY <1>2, <1>12 DEF PruneLog, k, ids
-----------------------------------------------------------------------------
(* The least of some numbers.                                              *)

LEMMA LeastIn ==
  ASSUME NEW S \in SUBSET Nat, S # {}
  PROVE  Least(S) \in S /\ \A i \in S : Least(S) <= i
<1>1. PICK m \in S : \A k \in S : ~ (<<k, m>> \in OpToRel(<, Nat))
  BY NatLessThanWellFounded, WFMin, Zenon
<1>2. \A k \in S : m <= k
  <2> SUFFICES ASSUME NEW k \in S, k < m PROVE FALSE
    OBVIOUS
  <2>1. <<k, m>> \in OpToRel(<, Nat)
    BY Zenon DEF OpToRel
  <2> QED
    BY <1>1, <2>1
<1>3. \E id \in S : \A i \in S : id <= i
  BY <1>2
<1> QED
  BY <1>3 DEF Least

LEMMA LeastIs ==
  ASSUME NEW S \in SUBSET Nat, NEW m \in S, \A i \in S : m <= i
  PROVE  Least(S) = m
<1>1. Least(S) \in S /\ \A i \in S : Least(S) <= i
  BY LeastIn
<1>2. Least(S) <= m /\ m <= Least(S) /\ Least(S) \in Nat /\ m \in Nat
  BY <1>1
<1> HIDE DEF Least
<1> QED
  BY <1>2
\* The records of the n oldest ticks are those up to the n-th tick that are kept.
Oldest(l, n) == UNION {IdsOf(l.finalizedTicks[i]) : i \in 1 .. n}

LEMMA OldestFacts ==
  ASSUME NEW l, NEW w, IsStore(l), TicksAreListed(l, w), IsHistory(l, w),
         NEW n \in 1 .. Len(l.finalizedTicks)
  PROVE  /\ Oldest(l, n) \in SUBSET Final(l)
         /\ l.finalizedTicks[n].tick \in Int
         /\ l.evictedThroughTick < l.finalizedTicks[n].tick
         /\ l.finalizedTicks[n].tick <= l.lastUpdatedTick
         /\ \A id \in Oldest(l, n) :
              /\ w[id + 1].tick <= l.finalizedTicks[n].tick
              /\ w[id + 1].tick \in {l.finalizedTicks[i].tick : i \in 1 .. n}
         /\ \A id \in Final(l) : w[id + 1].tick <= l.finalizedTicks[n].tick =>
              id \in Oldest(l, n) \/ w[id + 1].tick <= l.evictedThroughTick
<1> DEFINE ft == l.finalizedTicks
<1>1. \A i \in 1 .. Len(ft) : ft[i] \in TickRecords
  BY DEF IsStore
<1>2. \A i \in 1 .. Len(ft) :
        /\ ft[i].tick \in Int /\ ft[i].fromLogId \in Nat /\ ft[i].toLogId \in Nat
        /\ ft[i].tick > l.evictedThroughTick /\ ft[i].tick <= l.lastUpdatedTick
        /\ ft[i].fromLogId < ft[i].toLogId /\ ft[i].toLogId <= l.finalizedLogCount
        /\ \A id \in IdsOf(ft[i]) : w[id + 1].tick = ft[i].tick
  BY <1>1 DEF TicksAreListed, TickRecords
<1>3. \A i, j \in 1 .. Len(ft) : i < j => ft[i].tick < ft[j].tick
  BY DEF TicksAreListed
<1>4. \A id \in Final(l) : w[id + 1].tick > l.evictedThroughTick =>
        \E i \in 1 .. Len(ft) : id \in IdsOf(ft[i])
  BY DEF TicksAreListed
<1>5. Len(ft) \in Nat /\ l.evictedThroughTick \in Int /\ l.finalizedLogCount \in Nat
      /\ l.lastUpdatedTick \in Int
  BY DEF IsStore
<1>6. \A id \in Oldest(l, n) : \E i \in 1 .. n : id \in IdsOf(ft[i])
  BY DEF Oldest
<1>7. \A i \in 1 .. n : \A id \in IdsOf(ft[i]) : id \in Oldest(l, n)
  BY DEF Oldest
<1> HIDE DEF ft
<1>8. \A i \in 1 .. n : i \in 1 .. Len(ft) /\ ft[i].tick <= ft[n].tick
  <2> SUFFICES ASSUME NEW i \in 1 .. n PROVE i \in 1 .. Len(ft) /\ ft[i].tick <= ft[n].tick
    OBVIOUS
  <2>1. i \in 1 .. Len(ft) /\ n \in 1 .. Len(ft)
    BY <1>5 DEF ft
  <2>2. ft[i].tick \in Int /\ ft[n].tick \in Int
    BY <1>2, <2>1
  <2>3. i < n => ft[i].tick < ft[n].tick
    BY <1>3, <2>1
  <2> QED
    BY <2>1, <2>2, <2>3
<1>9. \A i \in 1 .. Len(ft) : \A id \in IdsOf(ft[i]) : id \in Final(l)
  BY <1>2, <1>5 DEF IdsOf, Final
<1>10. Oldest(l, n) \in SUBSET Final(l)
  BY <1>6, <1>8, <1>9
<1>11. \A id \in Oldest(l, n) : w[id + 1].tick <= ft[n].tick
                               /\ w[id + 1].tick \in {ft[i].tick : i \in 1 .. n}
  <2> SUFFICES ASSUME NEW id \in Oldest(l, n)
               PROVE  w[id + 1].tick <= ft[n].tick /\ w[id + 1].tick \in {ft[i].tick : i \in 1 .. n}
    OBVIOUS
  <2>1. PICK i \in 1 .. n : id \in IdsOf(ft[i])
    BY <1>6
  <2>2. w[id + 1].tick = ft[i].tick
    BY <1>2, <1>8, <2>1
  <2> QED
    BY <1>8, <2>2
<1>12. \A id \in Final(l) : w[id + 1].tick <= ft[n].tick =>
         id \in Oldest(l, n) \/ w[id + 1].tick <= l.evictedThroughTick
  <2> SUFFICES ASSUME NEW id \in Final(l), w[id + 1].tick <= ft[n].tick,
                      ~(w[id + 1].tick <= l.evictedThroughTick)
               PROVE  id \in Oldest(l, n)
    OBVIOUS
  <2>1. w[id + 1].tick \in Int
    BY DEF IsHistory, IsStore, Final, Record
  <2>2. PICK i \in 1 .. Len(ft) : id \in IdsOf(ft[i])
    BY <1>4, <1>5, <2>1
  <2>3. w[id + 1].tick = ft[i].tick /\ ft[i].tick \in Int
    BY <1>2, <2>2
  <2>4. n \in 1 .. Len(ft)
    BY DEF ft
  <2>5. ~(n < i)
    <3> SUFFICES ASSUME n < i PROVE FALSE
      OBVIOUS
    <3>1. ft[n].tick < ft[i].tick /\ ft[n].tick \in Int
      BY <1>2, <1>3, <2>4
    <3> QED
      BY <2>3, <3>1
  <2> QED
    BY <1>7, <2>2, <2>4, <2>5
<1>13. ft[n].tick \in Int /\ l.evictedThroughTick < ft[n].tick /\ ft[n].tick <= l.lastUpdatedTick
  <2>1. n \in 1 .. Len(ft)
    BY DEF ft
  <2> QED
    BY <1>2, <1>5, <2>1
<1> QED
  BY <1>10, <1>11, <1>12, <1>13 DEF ft

LEMMA EvictSound ==
  ASSUME NEW l, NEW w, NEW pr, Sound(l, w, pr), NEW n \in 0 .. Len(l.finalizedTicks)
  PROVE  LET k == Evict(l, n) IN
         /\ Sound(k, w, pr) /\ Len(k.records) = Len(l.records)
         /\ k.current = l.current /\ k.paused = l.paused /\ k.currentTick = l.currentTick
         /\ k.lastUpdatedTick = l.lastUpdatedTick
         /\ k.finalizedLogCount = l.finalizedLogCount /\ k.tickBegin = l.tickBegin
         /\ k.overflowed = l.overflowed
<1>1. CASE n = 0
  BY <1>1 DEF Evict
<1>2. CASE n # 0
  <2> DEFINE ids == Oldest(l, n)  d == Drop(l, ids)  k == Evict(l, n)
             ft == l.finalizedTicks  gone == {ft[i].tick : i \in 1 .. n}
  <2>0. /\ IsStore(l) /\ IsAccounted(l) /\ IsHistory(l, w) /\ TicksAreListed(l, w)
        /\ TicksInOrder(l) /\ GoneIsKnown(l, w, pr) /\ n \in 1 .. Len(ft) /\ Len(ft) \in Nat
    BY <1>2 DEF Sound, IsStore
  <2>1. /\ ids \in SUBSET Final(l) /\ ft[n].tick \in Int
        /\ l.evictedThroughTick < ft[n].tick /\ ft[n].tick <= l.lastUpdatedTick
        /\ \A id \in ids : w[id + 1].tick <= ft[n].tick /\ w[id + 1].tick \in gone
        /\ \A id \in Final(l) : w[id + 1].tick <= ft[n].tick =>
             id \in ids \/ w[id + 1].tick <= l.evictedThroughTick
    BY <2>0, OldestFacts
  <2>2. k = [d EXCEPT !.ranges = [t \in DOMAIN @ \ gone |-> @[t]],
                      !.evictedThroughTick = ft[n].tick,
                      !.finalizedTicks = SubSeq(@, n + 1, Len(@))]
    BY <1>2 DEF Evict, Oldest
  <2> HIDE DEF ids
  <2>3. /\ DOMAIN d = Fields
        /\ d.records \in Seq(Record \cup {Gone}) /\ Len(d.records) = Len(l.records)
        /\ \A p \in 1 .. Len(l.records) :
             d.records[p] = IF p - 1 \in ids THEN Gone ELSE l.records[p]
        /\ d.retainedBytes \in Int /\ IsAccounted(d)
        /\ All(d) = All(l) /\ Final(d) = Final(l) /\ Open(d) = Open(l)
        /\ \A f \in Fields \ {"records", "retainedBytes"} : d[f] = l[f]
    BY <2>0, <2>1, Dropped
  <2> HIDE DEF k, d, gone
  <2>4. /\ DOMAIN k = Fields /\ k.records = d.records /\ k.retainedBytes = d.retainedBytes
        /\ k.ranges = [t \in DOMAIN l.ranges \ gone |-> l.ranges[t]]
        /\ k.digests = l.digests
        /\ k.digestInput = l.digestInput /\ k.previousDigest = l.previousDigest
        /\ k.current = l.current /\ k.paused = l.paused
        /\ k.currentRanges = l.currentRanges /\ k.currentTick = l.currentTick
        /\ k.lastUpdatedTick = l.lastUpdatedTick
        /\ k.finalizedLogCount = l.finalizedLogCount
        /\ k.finalizedTicks = SubSeq(ft, n + 1, Len(ft))
        /\ k.tickBegin = l.tickBegin /\ k.evictedThroughTick = ft[n].tick
        /\ k.overflowed = l.overflowed
    BY <2>2, <2>3 DEF Fields
  <2>5. All(k) = All(l) /\ Final(k) = Final(l) /\ Open(k) = Open(l)
        /\ Len(k.records) = Len(l.records)
    BY <2>3, <2>4 DEF All, Final, Open
  <2>6. /\ k.finalizedTicks \in Seq(TickRecords)
        /\ Len(k.finalizedTicks) = Len(ft) - n
        /\ \A i \in 1 .. Len(ft) - n : k.finalizedTicks[i] = ft[i + n]
    <3>1. ft \in Seq(TickRecords)
      BY <2>0 DEF IsStore
    <3> HIDE DEF ft
    <3>2. /\ SubSeq(ft, n + 1, Len(ft)) \in Seq(TickRecords)
          /\ Len(SubSeq(ft, n + 1, Len(ft))) = Len(ft) - n
          /\ \A i \in 1 .. Len(ft) - n : SubSeq(ft, n + 1, Len(ft))[i] = ft[i + n]
      BY ONLY <2>0, <3>1
    <3> QED
      BY <2>4, <3>2
  <2>7. IsStore(k)
    BY <2>0, <2>1, <2>3, <2>4, <2>6 DEF IsStore
  <2>8. TicksInOrder(k)
    BY <2>0, <2>1, <2>4, <2>5 DEF TicksInOrder
  <2>9. IsHistory(k, w)
    <3>1. \A p \in 1 .. Len(l.records) :
            k.records[p] = IF p - 1 \in ids THEN Gone ELSE l.records[p]
      BY <2>3, <2>4
    <3>2. /\ Len(k.records) = Len(l.records) /\ k.finalizedLogCount = l.finalizedLogCount
          /\ k.currentTick = l.currentTick /\ k.tickBegin = l.tickBegin
          /\ k.lastUpdatedTick = l.lastUpdatedTick
      BY <2>4, <2>5
    <3> QED
      BY ONLY <2>0, <2>1, <3>1, <3>2, DroppedHistory
  <2>10. GoneIsKnown(k, w, pr)
    <3> SUFFICES ASSUME NEW id \in Final(l)
                 PROVE  /\ k.records[id + 1] = Gone => id \in pr \/ w[id + 1].tick <= ft[n].tick
                        /\ w[id + 1].tick <= ft[n].tick =>
                             k.records[id + 1] = Gone /\ w[id + 1].tick \notin DOMAIN k.ranges
      BY <2>4, <2>5 DEF GoneIsKnown
    <3>1. id + 1 \in 1 .. Len(l.records) /\ (id + 1) - 1 = id
      BY <2>0 DEF Final, IsStore
    <3>2. k.records[id + 1] = IF id \in ids THEN Gone ELSE l.records[id + 1]
      BY <2>3, <2>4, <3>1
    <3>3. w[id + 1].tick \in Int
      BY <2>0, <3>1 DEF IsHistory, Record
    <3>4. /\ l.records[id + 1] = Gone => id \in pr \/ w[id + 1].tick <= l.evictedThroughTick
          /\ w[id + 1].tick <= l.evictedThroughTick =>
               l.records[id + 1] = Gone /\ w[id + 1].tick \notin DOMAIN l.ranges
      BY <2>0 DEF GoneIsKnown
    <3>5. l.evictedThroughTick \in Int
      BY <2>0 DEF IsStore
    <3>6. DOMAIN k.ranges = DOMAIN l.ranges \ gone
      BY <2>4
    <3> QED
      BY <2>1, <3>2, <3>3, <3>4, <3>5, <3>6
  <2>11. TicksAreListed(k, w)
    <3> DEFINE kt == k.finalizedTicks  m == Len(ft) - n
    <3>0. /\ \A i \in 1 .. Len(ft) :
               /\ ft[i].tick > l.evictedThroughTick /\ ft[i].tick <= l.lastUpdatedTick
               /\ ft[i].fromLogId < ft[i].toLogId /\ ft[i].toLogId <= l.finalizedLogCount
               /\ \A id \in IdsOf(ft[i]) : w[id + 1].tick = ft[i].tick
          /\ \A i, j \in 1 .. Len(ft) : i < j => ft[i].tick < ft[j].tick
          /\ \A id \in Final(l) : w[id + 1].tick > l.evictedThroughTick =>
               \E i \in 1 .. Len(ft) : id \in IdsOf(ft[i])
      BY <2>0 DEF TicksAreListed
    <3>1. \A i \in 1 .. Len(ft) : ft[i].tick \in Int
      <4>1. ft \in Seq(TickRecords)
        BY <2>0 DEF IsStore
      <4> HIDE DEF ft
      <4>2. \A i \in 1 .. Len(ft) : ft[i] \in TickRecords
        BY <4>1
      <4> QED
        BY <4>2 DEF TickRecords
    <3> HIDE DEF ft
    <3>2. \A i \in 1 .. m : i + n \in 1 .. Len(ft) /\ n < i + n /\ kt[i] = ft[i + n]
      BY <2>0, <2>6
    <3>3. \A i \in 1 .. m :
            /\ kt[i].tick > ft[n].tick /\ kt[i].tick <= l.lastUpdatedTick
            /\ kt[i].fromLogId < kt[i].toLogId /\ kt[i].toLogId <= l.finalizedLogCount
            /\ \A id \in IdsOf(kt[i]) : w[id + 1].tick = kt[i].tick
      <4> SUFFICES ASSUME NEW i \in 1 .. m
                   PROVE  /\ kt[i].tick > ft[n].tick /\ kt[i].tick <= l.lastUpdatedTick
                          /\ kt[i].fromLogId < kt[i].toLogId /\ kt[i].toLogId <= l.finalizedLogCount
                          /\ \A id \in IdsOf(kt[i]) : w[id + 1].tick = kt[i].tick
        OBVIOUS
      <4>1. i + n \in 1 .. Len(ft) /\ n < i + n /\ kt[i] = ft[i + n]
        BY <3>2
      <4>2. ft[n].tick < ft[i + n].tick /\ ft[n].tick \in Int /\ ft[i + n].tick \in Int
        BY <2>0, <3>0, <3>1, <4>1
      <4> QED
        BY <3>0, <4>1, <4>2
    <3>4. \A i, j \in 1 .. m : i < j => kt[i].tick < kt[j].tick
      <4> SUFFICES ASSUME NEW i \in 1 .. m, NEW j \in 1 .. m, i < j
                   PROVE  kt[i].tick < kt[j].tick
        OBVIOUS
      <4>1. /\ i + n \in 1 .. Len(ft) /\ kt[i] = ft[i + n]
            /\ j + n \in 1 .. Len(ft) /\ kt[j] = ft[j + n] /\ i + n < j + n
        BY <2>0, <3>2
      <4> QED
        BY <3>0, <4>1
    <3>5. \A id \in Final(l) : w[id + 1].tick > ft[n].tick => \E i \in 1 .. m : id \in IdsOf(kt[i])
      <4> SUFFICES ASSUME NEW id \in Final(l), w[id + 1].tick > ft[n].tick
                   PROVE  \E i \in 1 .. m : id \in IdsOf(kt[i])
        OBVIOUS
      <4>1. w[id + 1].tick \in Int /\ l.evictedThroughTick \in Int
        BY <2>0 DEF IsHistory, IsStore, Final, Record
      <4>2. PICK j \in 1 .. Len(ft) : id \in IdsOf(ft[j])
        BY <2>0, <2>1, <3>0, <3>1, <4>1
      <4>3. w[id + 1].tick = ft[j].tick
        BY <3>0, <4>2
      <4>4. ~(j <= n)
        <5> SUFFICES ASSUME j <= n PROVE FALSE
          OBVIOUS
        <5>1. j < n => ft[j].tick < ft[n].tick
          BY <2>0, <3>0
        <5>2. ft[j].tick \in Int /\ ft[n].tick \in Int
          BY <2>0, <3>1
        <5> QED
          BY <2>0, <4>3, <5>1, <5>2
      <4>5. j - n \in 1 .. m /\ (j - n) + n = j
        BY <2>0, <4>4
      <4>6. kt[j - n] = ft[j]
        BY <3>2, <4>5
      <4> QED
        BY <4>2, <4>5, <4>6
    <3> QED
      BY <2>4, <2>5, <2>6, <3>3, <3>4, <3>5 DEF TicksAreListed
  <2>12. IsAccounted(k)
    <3>1. BytesOf(k, All(k)) = BytesOf(d, All(d))
      BY <2>3, <2>4, <2>5 DEF BytesOf, SizeOf
    <3> QED
      BY <2>3, <2>4, <3>1 DEF IsAccounted
  <2>13. /\ \A x : OpenUnder(k, w, x) = OpenUnder(l, w, x)
         /\ \A t, x : FinalUnder(k, w, t, x) = FinalUnder(l, w, t, x)
         /\ \A t : FinalMutations(k, w, t) = FinalMutations(l, w, t)
         /\ OpenMutations(k, w) = OpenMutations(l, w)
    BY <2>5 DEF OpenUnder, FinalUnder, FinalMutations, OpenMutations
  <2>14. DOMAIN k.ranges = DOMAIN l.ranges \ gone /\ \A t \in DOMAIN k.ranges : k.ranges[t] = l.ranges[t]
    BY <2>4
  <2>15. RangesTell(k, w)
    <3>1. \A t \in l.tickBegin .. l.lastUpdatedTick : t \notin DOMAIN k.ranges =>
            t <= ft[n].tick /\ \E id \in Final(l) : w[id + 1].tick = t
      <4> SUFFICES ASSUME NEW t \in l.tickBegin .. l.lastUpdatedTick, t \notin DOMAIN k.ranges
                   PROVE  t <= ft[n].tick /\ \E id \in Final(l) : w[id + 1].tick = t
        OBVIOUS
      <4>1. CASE t \notin DOMAIN l.ranges
        <5>1. t <= l.evictedThroughTick /\ \E id \in Final(l) : w[id + 1].tick = t
          BY <4>1 DEF Sound, RangesTell
        <5> QED
          BY <2>0, <2>1, <5>1 DEF IsStore
      <4>2. CASE t \in DOMAIN l.ranges
        <5>1. t \in gone
          BY <2>14, <4>2
        <5>2. PICK i \in 1 .. n : t = ft[i].tick
          BY <5>1 DEF gone
        <5>3. i \in 1 .. Len(ft)
          BY <2>0
        <5>4. ft[i] \in TickRecords /\ ft[n] \in TickRecords
          BY <2>0, <5>3 DEF IsStore
        <5>5. i < n => ft[i].tick < ft[n].tick
          BY <2>0, <5>3 DEF TicksAreListed
        <5>6. t <= ft[n].tick
          BY <5>2, <5>4, <5>5 DEF TickRecords
        <5>7. /\ ft[i].fromLogId < ft[i].toLogId /\ ft[i].toLogId <= l.finalizedLogCount
              /\ \A id \in IdsOf(ft[i]) : w[id + 1].tick = ft[i].tick
          BY <2>0, <5>3 DEF TicksAreListed
        <5>8. ft[i].fromLogId \in IdsOf(ft[i]) /\ ft[i].fromLogId \in Final(l)
          <6> DEFINE from == ft[i].fromLogId  to == ft[i].toLogId  count == l.finalizedLogCount
          <6>1. from \in Nat /\ to \in Nat /\ count \in Nat /\ from < to /\ to <= count
            BY <2>0, <5>4, <5>7 DEF IsStore, TickRecords
          <6> HIDE DEF from, to, count
          <6>2. from \in from .. to - 1 /\ from \in 0 .. count - 1
            BY <6>1
          <6> QED
            BY <6>2 DEF from, to, count, IdsOf, Final
        <5> QED
          BY <5>2, <5>6, <5>7, <5>8
      <4> QED
        BY <4>1, <4>2
    <3> QED
      BY <2>4, <2>5, <2>13, <2>14, <3>1 DEF Sound, RangesTell
  <2>16. RangesAreWhole(k, w)
    BY <2>13, <2>14 DEF Sound, RangesAreWhole
  <2>17. DigestsCover(k, w)
    BY <2>4, <2>13 DEF Sound, DigestsCover
  <2>18. Sound(k, w, pr)
    BY <2>7, <2>8, <2>9, <2>10, <2>11, <2>12, <2>15, <2>16, <2>17 DEF Sound
  <2> QED
    BY <2>4, <2>5, <2>18 DEF k
<1> QED
  BY <1>1, <1>2

\* Whatever reserve does to make room, the store stays sound.
LEMMA ReservedSound ==
  ASSUME NEW l, NEW w, NEW pr, Sound(l, w, pr), NEW bytes
  PROVE  LET k == Reserved(l, bytes) IN
         /\ Sound(k, w, pr) /\ Len(k.records) = Len(l.records)
         /\ k.current = l.current /\ k.paused = l.paused /\ k.currentTick = l.currentTick
         /\ k.lastUpdatedTick = l.lastUpdatedTick
         /\ k.finalizedLogCount = l.finalizedLogCount /\ k.tickBegin = l.tickBegin
         /\ k.overflowed = l.overflowed
<1> DEFINE enough == {n \in 0 .. Len(l.finalizedTicks) : Fits(Evict(l, n), bytes)}
           n == IF enough = {} THEN Len(l.finalizedTicks) ELSE Least(enough)
<1>1. Len(l.finalizedTicks) \in Nat
  BY DEF Sound, IsStore
<1>2. n \in 0 .. Len(l.finalizedTicks)
  <2>1. CASE enough = {}
    BY <1>1, <2>1
  <2>2. CASE enough # {}
    <3>1. enough \in SUBSET Nat
      BY <1>1
    <3> HIDE DEF enough
    <3>2. Least(enough) \in enough
      BY <2>2, <3>1, LeastIn
    <3> QED
      BY <2>2, <3>2 DEF enough
  <2> QED
    BY <2>1, <2>2
<1>3. Reserved(l, bytes) = Evict(l, n)
  BY DEF Reserved
<1> HIDE DEF n
<1> QED
  BY <1>2, <1>3, EvictSound
-----------------------------------------------------------------------------
(* Appending.                                                              *)

\* One more record under a range is told.
LEMMA CountedTells ==
  ASSUME NEW range, NEW ids \in SUBSET Nat, IsFiniteSet(ids), Tells(range, ids),
         NEW id \in Nat, \A i \in ids : i < id
  PROVE  Tells(Counted(range, id), ids \cup {id})
<1>1. ids \cup {id} # {} /\ id \notin ids /\ ids \cup {id} \in SUBSET Nat
  OBVIOUS
<1>2. Cardinality(ids) \in Nat /\ Cardinality(ids \cup {id}) = Cardinality(ids) + 1
  BY <1>1, FS_AddElement, FS_CardinalityType
<1>3. CASE ids = {}
  <2>1. range.fromLogId = -1
    BY <1>3 DEF Tells, RANGE_NOTHING_LOGGED
  <2>2. Counted(range, id) = [fromLogId |-> id, length |-> 1]
    BY <2>1 DEF Counted
  <2>3. ids \cup {id} = {id} /\ Cardinality({}) = 0
    BY <1>3, FS_EmptySet
  <2>4. Least({id}) = id
    BY LeastIs
  <2>5. Cardinality(ids \cup {id}) = 1
    BY <1>2, <1>3, <2>3
  <2> QED
    BY <1>1, <2>2, <2>3, <2>4, <2>5 DEF Tells
<1>4. CASE ids # {}
  <2>1. Least(ids) \in ids /\ \A i \in ids : Least(ids) <= i
    BY <1>4, LeastIn
  <2>2. Least(ids) \in Nat /\ Least(ids) \in ids \cup {id} /\ Least(ids) < id
    BY <2>1
  <2>3. \A i \in ids \cup {id} : Least(ids) <= i
    BY <2>1, <2>2
  <2>4. Least(ids \cup {id}) = Least(ids)
    BY ONLY <1>1, <2>2, <2>3, LeastIs
  <2>5. range = [fromLogId |-> Least(ids), length |-> Cardinality(ids)]
    BY <1>4 DEF Tells
  <2>6. Counted(range, id) = [fromLogId |-> Least(ids), length |-> Cardinality(ids) + 1]
    BY <2>2, <2>5 DEF Counted
  <2> QED
    BY <1>1, <1>2, <2>4, <2>6 DEF Tells
<1> QED
  BY <1>3, <1>4

LEMMA EnumeratesNext ==
  ASSUME NEW s, NEW S, Enumerates(s, S), NEW id \in Nat, \A i \in S : i < id
  PROVE  Enumerates(Append(s, id), S \cup {id})
<1> DEFINE t == Append(s, id)
<1>1. s \in Seq(Nat) /\ S = {s[n] : n \in 1 .. Len(s)} /\ Len(s) \in Nat
      /\ \A m, n \in 1 .. Len(s) : m < n => s[m] < s[n]
  BY DEF Enumerates
<1>2. t \in Seq(Nat) /\ Len(t) = Len(s) + 1 /\ t[Len(s) + 1] = id
      /\ \A n \in 1 .. Len(s) : t[n] = s[n]
  BY <1>1
<1> HIDE DEF t
<1>3. \A n \in 1 .. Len(s) + 1 : n \in 1 .. Len(s) \/ n = Len(s) + 1
  BY <1>1
<1>4. S \cup {id} = {t[n] : n \in 1 .. Len(t)}
  <2>1. \A i \in S \cup {id} : \E n \in 1 .. Len(t) : i = t[n]
    <3> SUFFICES ASSUME NEW i \in S \cup {id} PROVE \E n \in 1 .. Len(t) : i = t[n]
      OBVIOUS
    <3>1. CASE i = id
      BY <1>1, <1>2, <3>1
    <3>2. CASE i \in S
      <4>1. PICK n \in 1 .. Len(s) : i = s[n]
        BY <1>1, <3>2
      <4>2. n \in 1 .. Len(t)
        BY <1>1, <1>2
      <4> QED
        BY <1>2, <4>1, <4>2
    <3> QED
      BY <3>1, <3>2
  <2>2. \A n \in 1 .. Len(t) : t[n] \in S \cup {id}
    BY <1>1, <1>2, <1>3
  <2> QED
    BY <2>1, <2>2
<1>5. \A m, n \in 1 .. Len(t) : m < n => t[m] < t[n]
  <2> SUFFICES ASSUME NEW m \in 1 .. Len(t), NEW n \in 1 .. Len(t), m < n
               PROVE  t[m] < t[n]
    OBVIOUS
  <2>1. m \in 1 .. Len(s)
    BY <1>1, <1>2
  <2>2. CASE n \in 1 .. Len(s)
    BY <1>1, <1>2, <2>1, <2>2
  <2>3. CASE n = Len(s) + 1
    <3>1. s[m] \in S
      BY <1>1, <2>1
    <3> QED
      BY <1>2, <2>1, <2>3, <3>1
  <2> QED
    BY <1>2, <1>3, <2>2, <2>3
<1> QED
  BY <1>2, <1>4, <1>5 DEF Enumerates, t

\* The bytes of one record more.
LEMMA PushedBytes ==
  ASSUME NEW l, IsStore(l), IsAccounted(l), NEW record \in Record,
         l.retainedBytes + record.size <= MaxRetainedBytes,
         NEW k, k.records = Append(l.records, record),
         k.retainedBytes = l.retainedBytes + record.size
  PROVE  IsAccounted(k)
<1> DEFINE n == Len(l.records)  size == record.size
<1>0. l.records \in Seq(Record \cup {Gone}) /\ n \in Nat /\ size \in Nat /\ record # Gone
  BY NothingIsNothing DEF IsStore, Record
<1>1. /\ k.records \in Seq(Record \cup {Gone}) /\ Len(k.records) = n + 1
      /\ \A p \in 1 .. n : k.records[p] = l.records[p]
      /\ k.records[n + 1] = record
  BY <1>0
<1> HIDE DEF n
<1>2. All(k) = All(l) \cup {n} /\ n \notin All(l)
  <2>1. 0 .. (n + 1) - 1 = (0 .. n - 1) \cup {n} /\ n \notin 0 .. n - 1
    BY <1>0
  <2> QED
    BY <1>1, <2>1 DEF All, n
<1>3. IsFiniteSet(All(k)) /\ All(l) \in SUBSET All(k) /\ All(k) \ {n} = All(l)
      /\ IsFiniteSet(All(l)) /\ IsFiniteSet({n})
  <2>1. IsFiniteSet(All(k))
    BY <1>0, <1>1, IdsAreFinite DEF All
  <2> QED
    BY <1>2, <2>1, FS_Subset, FS_Singleton
<1>4. \A id \in All(k) : SizeOf(k, id) \in Nat
  BY <1>1, SizeType
<1>5. {n} \in SUBSET All(k)
  BY <1>2
<1>6. BytesOf(k, All(k)) = BytesOf(k, All(l)) + BytesOf(k, {n})
  BY <1>3, <1>4, <1>5, BytesSplit
<1>7. BytesOf(k, All(l)) = BytesOf(l, All(l))
  <2>1. \A id \in All(l) : SizeOf(k, id) = SizeOf(l, id)
    <3> SUFFICES ASSUME NEW id \in All(l) PROVE SizeOf(k, id) = SizeOf(l, id)
      OBVIOUS
    <3>1. id + 1 \in 1 .. n
      BY <1>0 DEF All, n
    <3> QED
      BY <1>1, <3>1 DEF SizeOf
  <2> QED
    BY <1>3, <2>1, BytesAgree
<1>8. BytesOf(k, {n}) = size
  <2> DEFINE f == [id \in {n} |-> SizeOf(k, id)]
  <2>1. SizeOf(k, n) = size
    BY <1>0, <1>1 DEF SizeOf
  <2>2. \A id \in {n} : f[id] = size
    BY <2>1
  <2> HIDE DEF f
  <2>3. Total(f, {n}) = Cardinality({n}) * size
    BY <1>0, <1>3, <2>2, TotalOfConstant
  <2>4. Cardinality({n}) = 1
    BY FS_Singleton
  <2> QED
    BY <1>0, <2>3, <2>4 DEF BytesOf, f
<1> QED
  BY <1>6, <1>7, <1>8 DEF IsAccounted

LEMMA PushedSound ==
  ASSUME NEW l, NEW w, NEW pr, Sound(l, w, pr), IsListening(l), NEW size \in Nat,
         NEW digested \in BOOLEAN, Fits(l, size),
         l.current.txId \in Whole => IsTail(l, w, l.current.txId)
  PROVE  LET record == RecordOf(l, size, digested)
             k == Pushed(l, record)
         IN  /\ Sound(k, Append(w, record), pr) /\ record \in Record
             /\ record.txId = l.current.txId
             /\ k.records = Append(l.records, record)
             /\ k.current = l.current /\ k.currentTick = l.currentTick
             /\ k.lastUpdatedTick = l.lastUpdatedTick
             /\ k.finalizedLogCount = l.finalizedLogCount /\ k.tickBegin = l.tickBegin
             /\ k.overflowed = l.overflowed
<1> DEFINE record == RecordOf(l, size, digested)  k == Pushed(l, record)
           v == Append(w, record)  n == Len(l.records)  y == l.current.txId
<1>0. /\ IsStore(l) /\ TicksInOrder(l) /\ IsHistory(l, w) /\ GoneIsKnown(l, w, pr)
      /\ TicksAreListed(l, w) /\ IsAccounted(l) /\ RangesTell(l, w) /\ RangesAreWhole(l, w)
      /\ DigestsCover(l, w)
  BY DEF Sound
<1>1. /\ l.current \in OpenRange /\ l.current.tick = l.currentTick
      /\ l.currentTick = l.lastUpdatedTick + 1 /\ l.currentTick \in Int
      /\ l.currentTick > l.lastUpdatedTick /\ y \in RangeIds
  BY <1>0 DEF IsListening, IsStore, TicksInOrder, OpenRange
<1>2. /\ record \in Record /\ record # Gone /\ record.tick = l.currentTick /\ record.txId = y
      /\ record.size = size /\ record.digested = digested
  BY <1>1, NothingIsNothing DEF RecordOf, Record, OpenRange
<1>3. /\ n \in Nat /\ l.records \in Seq(Record \cup {Gone}) /\ w \in Seq(Record) /\ Len(w) = n
      /\ l.finalizedLogCount \in Nat /\ l.finalizedLogCount <= n
  BY <1>0 DEF IsStore, IsHistory
<1>4. /\ DOMAIN k = Fields /\ k.records = Append(l.records, record)
      /\ k.retainedBytes = l.retainedBytes + size
      /\ k.currentRanges = [l.currentRanges EXCEPT ![y] = Counted(@, n)]
      /\ k.digestInput = Digested(l.digestInput, n, digested)
      /\ k.ranges = l.ranges /\ k.digests = l.digests
      /\ k.previousDigest = l.previousDigest
      /\ k.current = l.current /\ k.paused = l.paused
      /\ k.currentTick = l.currentTick
      /\ k.lastUpdatedTick = l.lastUpdatedTick
      /\ k.finalizedLogCount = l.finalizedLogCount /\ k.finalizedTicks = l.finalizedTicks
      /\ k.tickBegin = l.tickBegin /\ k.evictedThroughTick = l.evictedThroughTick
      /\ k.overflowed = l.overflowed
  BY <1>0, <1>2 DEF Pushed, IsStore, Fields
<1> HIDE DEF record, k, n, y, v
<1>5. /\ k.records \in Seq(Record \cup {Gone}) /\ Len(k.records) = n + 1
      /\ \A p \in 1 .. n : k.records[p] = l.records[p]
      /\ k.records[n + 1] = record
  BY <1>2, <1>3, <1>4 DEF n
<1>6. /\ v \in Seq(Record) /\ Len(v) = n + 1
      /\ \A p \in 1 .. n : v[p] = w[p]
      /\ v[n + 1] = record
  BY <1>2, <1>3 DEF v
<1>7. /\ Final(k) = Final(l) /\ Open(k) = Open(l) \cup {n} /\ n \notin Open(l)
      /\ \A id \in Final(l) : id + 1 \in 1 .. n
      /\ \A id \in Open(l) : id + 1 \in 1 .. n /\ id \in Nat /\ id < n
  <2> DEFINE c == l.finalizedLogCount
  <2>1. c \in Nat /\ c <= n
    BY <1>3
  <2>2. k.finalizedLogCount = c /\ Len(k.records) = n + 1 /\ Len(l.records) = n
    BY <1>4, <1>5 DEF n
  <2> HIDE DEF c
  <2>3. /\ c .. (n + 1) - 1 = (c .. n - 1) \cup {n} /\ n \notin c .. n - 1
        /\ \A id \in 0 .. c - 1 : id + 1 \in 1 .. n
        /\ \A id \in c .. n - 1 : id + 1 \in 1 .. n /\ id \in Nat /\ id < n
    BY <1>3, <2>1
  <2> QED
    BY <2>2, <2>3 DEF Final, Open, c
<1>8. IsStore(k)
  <2>1. DOMAIN k.currentRanges = RangeIds
    BY <1>0, <1>4 DEF IsStore
  <2>2. DOMAIN k.digestInput = {"previous", "messages"} /\ k.digestInput.messages \in Seq(Nat)
    <3>1. DOMAIN l.digestInput = {"previous", "messages"} /\ l.digestInput.messages \in Seq(Nat)
      BY <1>0 DEF IsStore
    <3> QED
      BY <1>3, <1>4, <3>1 DEF Digested
  <2>3. k.retainedBytes \in Int /\ k.finalizedLogCount <= Len(k.records)
    <3>1. l.retainedBytes \in Int /\ size \in Int
      BY <1>0 DEF IsStore
    <3>2. k.retainedBytes \in Int
      BY ONLY <1>4, <3>1
    <3>3. k.finalizedLogCount <= Len(k.records)
      BY ONLY <1>3, <1>4, <1>5
    <3> QED
      BY <3>2, <3>3
  <2>4. /\ DOMAIN k = Fields /\ k.records \in Seq(Record \cup {Gone})
        /\ k.finalizedTicks \in Seq(TickRecords)
    BY <1>0, <1>4, <1>5 DEF IsStore
  <2>5. /\ k.current \in OpenRange \cup {NoRange}
        /\ k.currentTick \in Int /\ k.lastUpdatedTick \in Int /\ k.evictedThroughTick \in Int
        /\ k.tickBegin \in Int /\ k.finalizedLogCount \in Nat
        /\ k.paused \in BOOLEAN /\ k.overflowed \in BOOLEAN
    BY <1>0, <1>4 DEF IsStore
  <2> QED
    BY ONLY <2>1, <2>2, <2>3, <2>4, <2>5 DEF IsStore
<1>9. TicksInOrder(k)
  BY <1>0, <1>1, <1>4 DEF TicksInOrder
<1>10. IsHistory(k, v)
  <2>1. \A p \in 1 .. Len(v) : k.records[p] \in {Gone, v[p]}
    <3>1. \A p \in 1 .. n : k.records[p] \in {Gone, v[p]}
      BY <1>0, <1>3, <1>5, <1>6 DEF IsHistory
    <3>2. \A p \in 1 .. n + 1 : p \in 1 .. n \/ p = n + 1
      BY <1>3
    <3> QED
      BY <1>5, <1>6, <3>1, <3>2
  <2>2. \A id \in Open(k) : k.records[id + 1] # Gone /\ v[id + 1].tick = k.currentTick
    <3>1. \A id \in Open(l) : k.records[id + 1] = l.records[id + 1] /\ v[id + 1] = w[id + 1]
      BY <1>5, <1>6, <1>7
    <3> QED
      BY <1>0, <1>2, <1>4, <1>5, <1>6, <1>7, <3>1 DEF IsHistory
  <2>3. \A id \in Final(k) : v[id + 1].tick \in k.tickBegin .. k.lastUpdatedTick
    BY <1>0, <1>4, <1>6, <1>7 DEF IsHistory
  <2> QED
    BY <1>5, <1>6, <2>1, <2>2, <2>3 DEF IsHistory
<1>11. \A id \in Final(l) : v[id + 1] = w[id + 1] /\ k.records[id + 1] = l.records[id + 1]
  BY <1>5, <1>6, <1>7
<1>12. GoneIsKnown(k, v, pr)
  BY <1>0, <1>4, <1>7, <1>11 DEF GoneIsKnown
<1>13. TicksAreListed(k, v)
  <2> DEFINE ft == l.finalizedTicks
  <2>1. \A i \in 1 .. Len(ft) : \A id \in IdsOf(ft[i]) : v[id + 1] = w[id + 1]
    <3> SUFFICES ASSUME NEW i \in 1 .. Len(ft), NEW id \in IdsOf(ft[i]) PROVE id \in Final(l)
      BY <1>11
    <3>1. ft[i].toLogId <= l.finalizedLogCount /\ ft[i] \in TickRecords
      BY <1>0 DEF TicksAreListed, IsStore
    <3> QED
      BY <1>3, <3>1 DEF IdsOf, Final, TickRecords
  <2> QED
    BY <1>0, <1>4, <1>7, <1>11, <2>1 DEF TicksAreListed
<1>14. IsAccounted(k)
  BY <1>0, <1>2, <1>4, PushedBytes DEF Fits
<1>15. /\ \A t, x : FinalUnder(k, v, t, x) = FinalUnder(l, w, t, x)
       /\ \A t : FinalMutations(k, v, t) = FinalMutations(l, w, t)
  BY <1>7, <1>11 DEF FinalUnder, FinalMutations
<1>16. \A id \in Open(l) : v[id + 1] = w[id + 1]
  BY <1>6, <1>7
<1>17. /\ OpenUnder(k, v, y) = OpenUnder(l, w, y) \cup {n}
       /\ \A x : x # y => OpenUnder(k, v, x) = OpenUnder(l, w, x)
  BY <1>2, <1>6, <1>7, <1>16 DEF OpenUnder
<1>18. \A x : OpenUnder(l, w, x) \in SUBSET Nat /\ IsFiniteSet(OpenUnder(l, w, x))
              /\ OpenUnder(l, w, x) \in SUBSET Open(l)
  <2>1. IsFiniteSet(Open(l))
    BY <1>3, IdsAreFinite DEF Open, n
  <2>2. \A x : OpenUnder(l, w, x) \in SUBSET Open(l)
    BY DEF OpenUnder
  <2> QED
    BY <1>7, <2>1, <2>2, FS_Subset
<1>19. RangesTell(k, v)
  <2>1. \A x \in RangeIds : Tells(l.currentRanges[x], OpenUnder(l, w, x))
    BY <1>0, <1>1 DEF RangesTell
  <2>2. Tells(k.currentRanges[y], OpenUnder(k, v, y))
    <3>1. k.currentRanges[y] = Counted(l.currentRanges[y], n)
      BY <1>0, <1>1, <1>4 DEF IsStore
    <3>2. \A i \in OpenUnder(l, w, y) : i < n
      BY <1>7, <1>18
    <3>3. Tells(Counted(l.currentRanges[y], n), OpenUnder(l, w, y) \cup {n})
      BY <1>1, <1>3, <1>18, <2>1, <3>2, CountedTells
    <3> QED
      BY <1>17, <3>1, <3>3
  <2>3. \A x \in RangeIds : x # y => Tells(k.currentRanges[x], OpenUnder(k, v, x))
    <3>1. \A x \in RangeIds : x # y => k.currentRanges[x] = l.currentRanges[x]
      BY <1>0, <1>4 DEF IsStore
    <3> QED
      BY <1>17, <2>1, <3>1
  <2>4. \A t \in k.tickBegin .. k.lastUpdatedTick : t \notin DOMAIN k.ranges =>
          t <= k.evictedThroughTick /\ \E id \in Final(k) : v[id + 1].tick = t
    BY <1>0, <1>4, <1>7, <1>11 DEF RangesTell
  <2>5. \A x \in RangeIds : Tells(k.currentRanges[x], OpenUnder(k, v, x))
    BY <2>2, <2>3
  <2>6. /\ DOMAIN k.ranges \subseteq k.tickBegin .. k.lastUpdatedTick
        /\ \A t \in DOMAIN k.ranges, x \in RangeIds : Tells(k.ranges[t][x], FinalUnder(k, v, t, x))
    BY <1>0, <1>4, <1>15 DEF RangesTell
  <2> QED
    BY <2>4, <2>5, <2>6 DEF RangesTell
<1>20. RangesAreWhole(k, v)
  <2> SUFFICES ASSUME NEW x \in Whole PROVE IsInterval(OpenUnder(k, v, x))
    BY <1>0, <1>4, <1>15 DEF RangesAreWhole
  <2>1. IsInterval(OpenUnder(l, w, x))
    BY <1>0 DEF RangesAreWhole
  <2>2. CASE x # y
    BY <1>17, <2>1, <2>2
  <2>3. CASE x = y
    <3> DEFINE S == OpenUnder(l, w, y)
    <3>1. \A a \in S, b \in Open(l) : a <= b => b \in S
      BY <2>3 DEF IsTail, y
    <3>2. S \in SUBSET Open(l)
      BY <1>18
    <3> HIDE DEF S
    <3>3. \A a \in S : \A b \in a .. n : b \in S \cup {n}
      <4> SUFFICES ASSUME NEW a \in S, NEW b \in a .. n, b # n PROVE b \in S
        OBVIOUS
      <4>1. a \in Open(l) /\ a \in Nat
        BY <1>7, <3>2
      <4>2. b \in Open(l)
        BY <1>3, <4>1 DEF Open, n
      <4> QED
        BY <3>1, <4>1, <4>2
    <3>4. \A a, b \in S \cup {n} : a .. b \subseteq S \cup {n}
      <4> SUFFICES ASSUME NEW a \in S \cup {n}, NEW b \in S \cup {n}, NEW i \in a .. b
                   PROVE  i \in S \cup {n}
        OBVIOUS
      <4>1. a \in Nat /\ b \in Nat /\ a <= n /\ b <= n
        BY <1>3, <1>7, <3>2
      <4>2. CASE a = n
        BY <1>3, <4>1, <4>2
      <4>3. CASE a \in S
        BY <1>3, <3>3, <4>1, <4>3
      <4> QED
        BY <4>2, <4>3
    <3> QED
      BY <1>17, <2>3, <3>4 DEF IsInterval, S
  <2> QED
    BY <2>2, <2>3
<1>21. DigestsCover(k, v)
  <2>1. /\ l.digestInput.previous = l.previousDigest
        /\ Enumerates(l.digestInput.messages, OpenMutations(l, w))
    BY <1>0, <1>1 DEF DigestsCover
  <2>2. OpenMutations(k, v) = IF digested THEN OpenMutations(l, w) \cup {n} ELSE OpenMutations(l, w)
    BY <1>2, <1>6, <1>7, <1>16 DEF OpenMutations
  <2>3. \A i \in OpenMutations(l, w) : i < n
    BY <1>7 DEF OpenMutations
  <2>4. CASE digested
    <3>1. Enumerates(Append(l.digestInput.messages, n), OpenMutations(l, w) \cup {n})
      BY <1>3, <2>1, <2>3, EnumeratesNext
    <3>2. k.digestInput.messages = Append(l.digestInput.messages, n)
          /\ k.digestInput.previous = l.digestInput.previous
      BY <1>0, <1>4, <2>4 DEF Digested, IsStore
    <3> QED
      BY <1>0, <1>4, <1>15, <2>1, <2>2, <2>4, <3>1, <3>2 DEF DigestsCover
  <2>5. CASE ~digested
    <3>1. k.digestInput = l.digestInput
      BY <1>4, <2>5 DEF Digested
    <3> QED
      BY <1>0, <1>4, <1>15, <2>1, <2>2, <2>5, <3>1 DEF DigestsCover
  <2> QED
    BY <2>4, <2>5
<1>22. Sound(k, v, pr)
  BY <1>8, <1>9, <1>10, <1>12, <1>13, <1>14, <1>19, <1>20, <1>21 DEF Sound
<1> QED
  BY <1>2, <1>4, <1>22 DEF record, k, v, y
\* An overflow leaves what is final, and nothing else.
LEMMA OverflowSound ==
  ASSUME NEW l, NEW w, NEW pr, Sound(l, w, pr)
  PROVE  LET k == Overflow(l) IN
         /\ Sound(k, SubSeq(w, 1, l.finalizedLogCount), pr)
         /\ k.records = SubSeq(l.records, 1, l.finalizedLogCount)
         /\ k.current = l.current /\ k.currentTick = l.currentTick
         /\ k.lastUpdatedTick = l.lastUpdatedTick
         /\ k.finalizedLogCount = l.finalizedLogCount /\ k.tickBegin = l.tickBegin
         /\ k.overflowed
<1> DEFINE k == Overflow(l)  c == l.finalizedLogCount  v == SubSeq(w, 1, c)
           n == Len(l.records)  ids == c .. n - 1
<1>0. /\ IsStore(l) /\ TicksInOrder(l) /\ IsHistory(l, w) /\ GoneIsKnown(l, w, pr)
      /\ TicksAreListed(l, w) /\ IsAccounted(l) /\ RangesTell(l, w) /\ RangesAreWhole(l, w)
      /\ DigestsCover(l, w)
  BY DEF Sound
<1>1. /\ n \in Nat /\ l.records \in Seq(Record \cup {Gone}) /\ w \in Seq(Record) /\ Len(w) = n
      /\ c \in Nat /\ c <= n
  BY <1>0 DEF IsStore, IsHistory
<1>2. /\ DOMAIN k = Fields /\ k.records = SubSeq(l.records, 1, c)
      /\ k.retainedBytes = l.retainedBytes - BytesOf(l, ids)
      /\ k.currentRanges = EmptyRanges
      /\ k.digestInput = [previous |-> l.previousDigest, messages |-> << >>]
      /\ k.overflowed = TRUE
      /\ k.ranges = l.ranges /\ k.digests = l.digests
      /\ k.previousDigest = l.previousDigest
      /\ k.current = l.current /\ k.paused = l.paused
      /\ k.currentTick = l.currentTick
      /\ k.lastUpdatedTick = l.lastUpdatedTick
      /\ k.finalizedLogCount = c /\ k.finalizedTicks = l.finalizedTicks
      /\ k.tickBegin = l.tickBegin /\ k.evictedThroughTick = l.evictedThroughTick
  BY <1>0 DEF Overflow, IsStore, Fields
<1> HIDE DEF k, v, n, c, ids
<1>3. /\ k.records \in Seq(Record \cup {Gone}) /\ Len(k.records) = c
      /\ \A p \in 1 .. c : k.records[p] = l.records[p]
  BY <1>1, <1>2 DEF n
<1>4. v \in Seq(Record) /\ Len(v) = c /\ \A p \in 1 .. c : v[p] = w[p]
  BY <1>1 DEF v
<1>5. /\ Final(k) = Final(l) /\ Open(k) = {} /\ All(k) = Final(l)
      /\ \A id \in Final(l) : id + 1 \in 1 .. c
      /\ All(l) \ ids = Final(l) /\ ids \in SUBSET All(l) /\ IsFiniteSet(All(l))
      /\ IsFiniteSet(Final(l)) /\ IsFiniteSet(ids)
  <2>1. /\ c .. c - 1 = {} /\ \A id \in 0 .. c - 1 : id + 1 \in 1 .. c
        /\ (0 .. n - 1) \ (c .. n - 1) = 0 .. c - 1 /\ c .. n - 1 \subseteq 0 .. n - 1
    BY <1>1
  <2>2. IsFiniteSet(0 .. n - 1) /\ IsFiniteSet(0 .. c - 1) /\ IsFiniteSet(c .. n - 1)
    BY <1>1, IdsAreFinite
  <2> QED
    BY <1>2, <1>3, <2>1, <2>2 DEF Final, Open, All, c, n, ids
<1>6. \A id \in Final(l) : v[id + 1] = w[id + 1] /\ k.records[id + 1] = l.records[id + 1]
  BY <1>3, <1>4, <1>5
<1>7. IsAccounted(k) /\ k.retainedBytes \in Int
  <2>1. \A id \in All(l) : SizeOf(l, id) \in Nat
    BY <1>0, SizeType DEF IsStore
  <2>2. BytesOf(l, All(l)) = BytesOf(l, Final(l)) + BytesOf(l, ids)
    BY <1>5, <2>1, BytesSplit
  <2>3. BytesOf(l, ids) \in Nat /\ BytesOf(l, Final(l)) \in Nat
    <3>1. Final(l) \in SUBSET All(l)
      BY <1>5
    <3>2. (\A id \in ids : SizeOf(l, id) \in Nat) /\ (\A id \in Final(l) : SizeOf(l, id) \in Nat)
      BY <1>5, <2>1, <3>1
    <3> QED
      BY <1>5, <3>2, BytesNat
  <2>4. BytesOf(k, Final(l)) = BytesOf(l, Final(l))
    <3>1. \A id \in Final(l) : SizeOf(k, id) = SizeOf(l, id)
      BY <1>6 DEF SizeOf
    <3> QED
      BY <1>5, <3>1, BytesAgree
  <2> QED
    BY <1>0, <1>2, <1>5, <2>2, <2>3, <2>4, LogConstants DEF IsAccounted
<1>8. IsStore(k)
  <2>1. DOMAIN k.digestInput = {"previous", "messages"} /\ k.digestInput.messages \in Seq(Nat)
    BY <1>2
  <2>2. DOMAIN k.currentRanges = RangeIds
    BY <1>2, EmptyTells
  <2>3. k.finalizedLogCount \in Nat /\ k.finalizedLogCount <= Len(k.records)
    BY <1>1, <1>2, <1>3
  <2>4. /\ DOMAIN k = Fields /\ k.records \in Seq(Record \cup {Gone})
        /\ k.finalizedTicks \in Seq(TickRecords)
    BY <1>0, <1>2, <1>3 DEF IsStore
  <2>5. /\ k.current \in OpenRange \cup {NoRange}
        /\ k.currentTick \in Int /\ k.lastUpdatedTick \in Int /\ k.evictedThroughTick \in Int
        /\ k.tickBegin \in Int /\ k.retainedBytes \in Int
        /\ k.paused \in BOOLEAN /\ k.overflowed \in BOOLEAN
    BY <1>0, <1>2, <1>7 DEF IsStore
  <2> QED
    BY ONLY <2>1, <2>2, <2>3, <2>4, <2>5 DEF IsStore
<1>9. TicksInOrder(k)
  BY <1>0, <1>2, <1>3 DEF TicksInOrder
<1>10. IsHistory(k, v)
  <2>1. \A p \in 1 .. c : l.records[p] \in {Gone, w[p]}
    <3>1. \A p \in 1 .. c : p \in 1 .. n
      BY <1>1
    <3> QED
      BY <1>0, <1>1, <3>1 DEF IsHistory
  <2>2. \A p \in 1 .. Len(v) : k.records[p] \in {Gone, v[p]}
    BY ONLY <1>3, <1>4, <2>1
  <2> QED
    BY <1>0, <1>2, <1>3, <1>4, <1>5, <1>6, <2>2 DEF IsHistory
<1>11. GoneIsKnown(k, v, pr)
  BY <1>0, <1>2, <1>5, <1>6 DEF GoneIsKnown
<1>12. TicksAreListed(k, v)
  <2> DEFINE ft == l.finalizedTicks
  <2>1. \A i \in 1 .. Len(ft) : \A id \in IdsOf(ft[i]) : v[id + 1] = w[id + 1]
    <3> SUFFICES ASSUME NEW i \in 1 .. Len(ft), NEW id \in IdsOf(ft[i]) PROVE id \in Final(l)
      BY <1>6
    <3>1. ft[i].toLogId <= l.finalizedLogCount /\ ft[i] \in TickRecords
      BY <1>0 DEF TicksAreListed, IsStore
    <3>2. l.finalizedLogCount \in Nat
      BY <1>0 DEF IsStore
    <3> QED
      BY <3>1, <3>2 DEF IdsOf, Final, TickRecords
  <2>2. k.finalizedLogCount = l.finalizedLogCount
    BY <1>2 DEF c
  <2> QED
    BY <1>0, <1>2, <1>5, <1>6, <2>1, <2>2 DEF TicksAreListed
<1>13. /\ \A t, x : FinalUnder(k, v, t, x) = FinalUnder(l, w, t, x)
       /\ \A t : FinalMutations(k, v, t) = FinalMutations(l, w, t)
       /\ \A x : OpenUnder(k, v, x) = {}
       /\ OpenMutations(k, v) = {}
  BY <1>5, <1>6 DEF FinalUnder, FinalMutations, OpenUnder, OpenMutations
<1>14. RangesTell(k, v)
  <2>1. \A x \in RangeIds : Tells(k.currentRanges[x], OpenUnder(k, v, x))
    BY <1>2, <1>13, EmptyTells
  <2>2. \A t \in k.tickBegin .. k.lastUpdatedTick : t \notin DOMAIN k.ranges =>
          t <= k.evictedThroughTick /\ \E id \in Final(k) : v[id + 1].tick = t
    BY <1>0, <1>2, <1>5, <1>6 DEF RangesTell
  <2>3. /\ DOMAIN k.ranges \subseteq k.tickBegin .. k.lastUpdatedTick
        /\ \A t \in DOMAIN k.ranges, x \in RangeIds : Tells(k.ranges[t][x], FinalUnder(k, v, t, x))
    BY <1>0, <1>2, <1>13 DEF RangesTell
  <2> QED
    BY <2>1, <2>2, <2>3 DEF RangesTell
<1>15. RangesAreWhole(k, v)
  BY <1>0, <1>2, <1>13 DEF RangesAreWhole, IsInterval
<1>16. DigestsCover(k, v)
  <2>1. k.digestInput.previous = k.previousDigest /\ k.digestInput.messages = << >>
    BY <1>2
  <2>2. Enumerates(k.digestInput.messages, OpenMutations(k, v))
    BY <1>13, <2>1, NothingEnumerated
  <2> QED
    BY <1>0, <1>2, <1>13, <2>1, <2>2 DEF DigestsCover
<1>17. Sound(k, v, pr)
  BY <1>7, <1>8, <1>9, <1>10, <1>11, <1>12, <1>14, <1>15, <1>16 DEF Sound
<1> QED
  BY <1>2, <1>17 DEF k, v, c

\* What the history is after a call that leaves the store l.
History(w, l) == [p \in DOMAIN l.records |-> IF p \in DOMAIN w THEN w[p] ELSE l.records[p]]

LEMMA HistoryKept ==
  ASSUME NEW l, NEW w, NEW k, IsHistory(l, w), l.records \in Seq(Record \cup {Gone}),
         k.records \in Seq(Record \cup {Gone}), Len(k.records) = Len(l.records)
  PROVE  History(w, k) = w
<1>1. DOMAIN k.records = 1 .. Len(w) /\ DOMAIN w = 1 .. Len(w)
  BY DEF IsHistory
<1>2. w = [p \in 1 .. Len(w) |-> w[p]]
  BY DEF IsHistory
<1> QED
  BY <1>1, <1>2 DEF History

LEMMA HistoryPushed ==
  ASSUME NEW l, NEW w, NEW k, IsHistory(l, w), l.records \in Seq(Record \cup {Gone}),
         NEW record \in Record, k.records = Append(l.records, record)
  PROVE  History(w, k) = Append(w, record)
<1> DEFINE n == Len(w)  v == Append(w, record)
<1>1. n \in Nat /\ Len(l.records) = n /\ w \in Seq(Record)
  BY DEF IsHistory
<1>2. DOMAIN k.records = 1 .. n + 1 /\ k.records[n + 1] = record /\ DOMAIN w = 1 .. n
  BY <1>1
<1>3. /\ DOMAIN v = 1 .. n + 1 /\ v[n + 1] = record /\ \A p \in 1 .. n : v[p] = w[p]
      /\ v \in Seq(Record) /\ Len(v) = n + 1
  BY <1>1
<1> HIDE DEF n, v
<1>4. History(w, k) = [p \in 1 .. n + 1 |-> IF p \in 1 .. n THEN w[p] ELSE k.records[p]]
  BY <1>2 DEF History
<1>5. \A p \in 1 .. n + 1 : v[p] = IF p \in 1 .. n THEN w[p] ELSE k.records[p]
  <2>1. \A p \in 1 .. n + 1 : p \in 1 .. n \/ p = n + 1
    BY <1>1
  <2>2. n + 1 \notin 1 .. n
    BY <1>1
  <2> QED
    BY <1>2, <1>3, <2>1, <2>2
<1>6. v = [p \in 1 .. n + 1 |-> IF p \in 1 .. n THEN w[p] ELSE k.records[p]]
  <2>1. v = [p \in 1 .. n + 1 |-> v[p]]
    BY <1>3
  <2> QED
    BY <1>5, <2>1
<1> QED
  BY <1>4, <1>6 DEF v

LEMMA HistoryCut ==
  ASSUME NEW l, NEW w, NEW k, IsHistory(l, w), l.records \in Seq(Record \cup {Gone}),
         NEW c \in Nat, c <= Len(l.records), k.records = SubSeq(l.records, 1, c)
  PROVE  History(w, k) = SubSeq(w, 1, c)
<1> DEFINE n == Len(w)  v == SubSeq(w, 1, c)
<1>1. n \in Nat /\ Len(l.records) = n /\ w \in Seq(Record) /\ c <= n
  BY DEF IsHistory
<1>2. DOMAIN k.records = 1 .. c /\ DOMAIN w = 1 .. n
  BY <1>1
<1>3. v = [p \in 1 .. c |-> w[p]]
  BY <1>1
<1>4. \A p \in 1 .. c : p \in 1 .. n
  BY <1>1
<1> HIDE DEF n, v
<1>5. History(w, k) = [p \in 1 .. c |-> IF p \in 1 .. n THEN w[p] ELSE k.records[p]]
  BY <1>2 DEF History
<1> QED
  BY <1>3, <1>4, <1>5 DEF v

\* append, whether it records, evicts or overflows.
Appended(l, w, pr, k, v) ==
  /\ Sound(k, v, pr)
  /\ k.current = l.current /\ k.currentTick = l.currentTick
  /\ k.lastUpdatedTick = l.lastUpdatedTick
  /\ k.finalizedLogCount = l.finalizedLogCount /\ k.tickBegin = l.tickBegin
  /\ l.overflowed => k.overflowed
  /\ \/ Len(k.records) = Len(l.records) /\ v = w
     \/ Len(k.records) = l.finalizedLogCount
     \/ \E record \in Record :
          /\ v = Append(w, record) /\ Len(k.records) = Len(l.records) + 1
          /\ l.current # NoRange /\ record.txId = l.current.txId

LEMMA AppendSound ==
  ASSUME NEW l, NEW w, NEW pr, Sound(l, w, pr), NEW size \in Nat, NEW digested \in BOOLEAN,
         l.current # NoRange /\ l.current.txId \in Whole => IsTail(l, w, l.current.txId)
  PROVE  LET k == AppendLog(l, size, digested) IN Appended(l, w, pr, k, History(w, k))
<1> DEFINE k == AppendLog(l, size, digested)  r == Reserved(l, size)
<1>0. IsHistory(l, w) /\ l.records \in Seq(Record \cup {Gone})
  BY DEF Sound, IsStore
<1>1. CASE ~IsListening(l)
  <2>1. k = l
    BY <1>1 DEF AppendLog
  <2>2. History(w, l) = w
    BY <1>0, HistoryKept
  <2> QED
    BY <1>0, <2>1, <2>2 DEF Appended
<1>2. CASE IsListening(l)
  <2>1. /\ Sound(r, w, pr) /\ Len(r.records) = Len(l.records)
        /\ r.current = l.current /\ r.paused = l.paused /\ r.currentTick = l.currentTick
        /\ r.lastUpdatedTick = l.lastUpdatedTick
        /\ r.finalizedLogCount = l.finalizedLogCount /\ r.tickBegin = l.tickBegin
        /\ r.overflowed = l.overflowed
    BY ReservedSound
  <2>2. IsHistory(r, w) /\ r.records \in Seq(Record \cup {Gone})
        /\ l.finalizedLogCount \in Nat /\ l.finalizedLogCount <= Len(r.records)
    BY <2>1 DEF Sound, IsStore
  <2>3. CASE Fits(r, size)
    <3> DEFINE record == RecordOf(r, size, digested)  p == Pushed(r, record)
    <3>1. k = Pushed(r, RecordOf(l, size, digested)) /\ RecordOf(l, size, digested) = record
      BY <1>2, <2>1, <2>3 DEF AppendLog, RecordOf
    <3>2. IsListening(r)
      BY <1>2, <2>1 DEF IsListening
    <3>3. r.current.txId \in Whole => IsTail(r, w, r.current.txId)
      <4>1. Open(r) = Open(l)
        BY <2>1 DEF Open
      <4>2. \A x : OpenUnder(r, w, x) = OpenUnder(l, w, x)
        BY <4>1 DEF OpenUnder
      <4> QED
        BY <1>2, <2>1, <4>1, <4>2 DEF IsTail, IsListening
    <3>4. /\ Sound(p, Append(w, record), pr) /\ record \in Record
          /\ record.txId = r.current.txId
          /\ p.records = Append(r.records, record)
          /\ p.current = r.current /\ p.currentTick = r.currentTick
          /\ p.lastUpdatedTick = r.lastUpdatedTick
          /\ p.finalizedLogCount = r.finalizedLogCount /\ p.tickBegin = r.tickBegin
          /\ p.overflowed = r.overflowed
      BY <2>1, <2>3, <3>2, <3>3, PushedSound
    <3> HIDE DEF record, p
    <3>5. History(w, p) = Append(w, record)
      BY <2>2, <3>4, HistoryPushed
    <3>6. Len(p.records) = Len(l.records) + 1
      BY <2>1, <2>2, <3>4
    <3>7. k = p
      BY <3>1 DEF p
    <3>8. l.current # NoRange
      BY <1>2 DEF IsListening
    <3> QED
      BY <2>1, <3>4, <3>5, <3>6, <3>7, <3>8 DEF Appended
  <2>4. CASE ~Fits(r, size)
    <3> DEFINE o == Overflow(r)  c == r.finalizedLogCount
    <3>1. k = o
      BY <1>2, <2>4 DEF AppendLog
    <3>2. /\ Sound(o, SubSeq(w, 1, c), pr) /\ o.records = SubSeq(r.records, 1, c)
          /\ o.current = r.current /\ o.currentTick = r.currentTick
          /\ o.lastUpdatedTick = r.lastUpdatedTick
          /\ o.finalizedLogCount = c /\ o.tickBegin = r.tickBegin /\ o.overflowed
      BY <2>1, OverflowSound
    <3>3. c \in Nat /\ c <= Len(r.records) /\ c = l.finalizedLogCount
      BY <2>1, <2>2
    <3> HIDE DEF o, c, r
    <3>4. History(w, o) = SubSeq(w, 1, c)
      BY <2>2, <3>2, <3>3, HistoryCut
    <3>5. Len(o.records) = l.finalizedLogCount
      BY <2>2, <3>2, <3>3
    <3> QED
      BY <2>1, <3>1, <3>2, <3>3, <3>4, <3>5 DEF Appended
  <2> QED
    BY <2>3, <2>4
<1> QED
  BY <1>1, <1>2
-----------------------------------------------------------------------------
(* Finalizing a tick, and starting over.                                   *)

LEMMA FinalizeSound ==
  ASSUME NEW l, NEW w, NEW pr, Sound(l, w, pr), NEW t, t = l.lastUpdatedTick + 1,
         l.current = NoRange
  PROVE  LET k == FinalizeTick(l, t) IN
         /\ Sound(k, w, pr) /\ k.records = l.records
         /\ k.current = NoRange /\ k.currentTick = t /\ k.lastUpdatedTick = t
         /\ k.tickBegin = l.tickBegin /\ k.overflowed = l.overflowed
         /\ k.finalizedLogCount = Len(l.records)
<1> DEFINE o == Opened(l, t)  k == FinalizeTick(l, t)  n == Len(o.records)
           c == o.finalizedLogCount  digest == Append(o.digestInput.previous, o.digestInput.messages)
           entry == [tick |-> t, fromLogId |-> c, toLogId |-> n]
           b == o.tickBegin
<1>1. /\ Sound(o, w, pr) /\ o.currentTick = t /\ o.records = l.records
      /\ o.lastUpdatedTick = l.lastUpdatedTick /\ o.tickBegin = l.tickBegin
      /\ o.overflowed = l.overflowed /\ o.current = NoRange
  BY OpenedSound
<1>2. /\ IsStore(o) /\ TicksInOrder(o) /\ IsHistory(o, w) /\ GoneIsKnown(o, w, pr)
      /\ TicksAreListed(o, w) /\ IsAccounted(o) /\ RangesTell(o, w) /\ RangesAreWhole(o, w)
      /\ DigestsCover(o, w)
  BY <1>1 DEF Sound
<1>3. /\ DOMAIN k = Fields /\ k.records = o.records
      /\ k.ranges = [s \in DOMAIN o.ranges \cup {t} |-> IF s = t THEN o.currentRanges ELSE o.ranges[s]]
      /\ k.digests = [s \in DOMAIN o.digests \cup {t} |-> IF s = t THEN digest ELSE o.digests[s]]
      /\ k.previousDigest = digest
      /\ k.finalizedTicks = IF c < n THEN Append(o.finalizedTicks, entry) ELSE o.finalizedTicks
      /\ k.finalizedLogCount = n /\ k.lastUpdatedTick = t
      /\ k.current = NoRange /\ k.paused = FALSE
      /\ k.digestInput = o.digestInput /\ k.currentRanges = o.currentRanges
      /\ k.currentTick = t /\ k.retainedBytes = o.retainedBytes
      /\ k.tickBegin = b /\ k.evictedThroughTick = o.evictedThroughTick
      /\ k.overflowed = o.overflowed
  BY <1>1, <1>2 DEF FinalizeTick, IsStore, Fields
<1>4. /\ t \in Int /\ o.lastUpdatedTick = t - 1 /\ b \in Int /\ b <= t
      /\ n \in Nat /\ c \in Nat /\ c <= n /\ o.evictedThroughTick \in Int
      /\ o.evictedThroughTick < t
  BY <1>1, <1>2 DEF IsStore, TicksInOrder
<1> HIDE DEF o, k, n, c, digest, entry, b
<1>5. /\ Final(k) = Final(o) \cup Open(o) /\ Open(k) = {} /\ All(k) = All(o)
      /\ \A id \in Open(o) : id \notin Final(o)
      /\ \A id \in Final(k) : id + 1 \in 1 .. n
      /\ Open(o) = c .. n - 1 /\ Final(o) = 0 .. c - 1
  <2>1. /\ 0 .. n - 1 = (0 .. c - 1) \cup (c .. n - 1) /\ n .. n - 1 = {}
        /\ \A id \in c .. n - 1 : id \notin 0 .. c - 1
        /\ \A id \in 0 .. n - 1 : id + 1 \in 1 .. n
    BY <1>4
  <2> QED
    BY <1>3, <2>1 DEF Final, Open, All, c, n
<1>6. /\ \A id \in Open(o) : w[id + 1].tick = t /\ o.records[id + 1] # Gone
      /\ \A id \in Final(o) : w[id + 1].tick \in b .. t - 1
  BY <1>1, <1>2, <1>4 DEF IsHistory, b
<1>7. /\ \A x : FinalUnder(k, w, t, x) = OpenUnder(o, w, x)
      /\ \A s \in b .. t - 1 : \A x : FinalUnder(k, w, s, x) = FinalUnder(o, w, s, x)
      /\ FinalMutations(k, w, t) = OpenMutations(o, w)
      /\ \A s \in b .. t - 1 : FinalMutations(k, w, s) = FinalMutations(o, w, s)
  <2>1. \A id \in Final(o) : w[id + 1].tick # t
    BY <1>4, <1>6
  <2>2. \A s \in b .. t - 1 : \A id \in Open(o) : w[id + 1].tick # s
    BY <1>4, <1>6
  <2>3. \A x : FinalUnder(k, w, t, x) = OpenUnder(o, w, x)
    BY <1>5, <1>6, <2>1 DEF FinalUnder, OpenUnder
  <2>4. FinalMutations(k, w, t) = OpenMutations(o, w)
    BY <1>5, <1>6, <2>1 DEF FinalMutations, OpenMutations
  <2>5. \A s \in b .. t - 1 : \A x : FinalUnder(k, w, s, x) = FinalUnder(o, w, s, x)
    BY <1>5, <2>2 DEF FinalUnder
  <2>6. \A s \in b .. t - 1 : FinalMutations(k, w, s) = FinalMutations(o, w, s)
    BY <1>5, <2>2 DEF FinalMutations
  <2> QED
    BY <2>3, <2>4, <2>5, <2>6
<1>8. /\ OpenMutations(k, w) = {} /\ \A x : OpenUnder(k, w, x) = {}
  BY <1>5 DEF OpenMutations, OpenUnder
<1>9. IsStore(k)
  <2>1. k.finalizedTicks \in Seq(TickRecords)
    <3>1. o.finalizedTicks \in Seq(TickRecords) /\ entry \in TickRecords
      BY <1>2, <1>4 DEF IsStore, TickRecords, entry
    <3> QED
      BY <1>3, <3>1
  <2>2. k.finalizedLogCount <= Len(k.records) /\ k.finalizedLogCount \in Nat
    BY <1>3, <1>4 DEF n
  <2> QED
    BY <1>2, <1>3, <1>4, <2>1, <2>2 DEF IsStore
<1>10. TicksInOrder(k)
  BY <1>3, <1>4 DEF TicksInOrder, n
<1>11. IsHistory(k, w)
  <2>1. \A id \in Final(k) : w[id + 1].tick \in k.tickBegin .. k.lastUpdatedTick
    BY <1>3, <1>4, <1>5, <1>6
  <2> QED
    BY <1>2, <1>3, <1>5, <2>1 DEF IsHistory
<1>12. GoneIsKnown(k, w, pr)
  <2> SUFFICES ASSUME NEW id \in Final(k)
               PROVE  /\ o.records[id + 1] = Gone => id \in pr \/ w[id + 1].tick <= o.evictedThroughTick
                      /\ w[id + 1].tick <= o.evictedThroughTick =>
                           o.records[id + 1] = Gone /\ w[id + 1].tick \notin DOMAIN k.ranges
    BY <1>3 DEF GoneIsKnown
  <2>1. DOMAIN k.ranges = DOMAIN o.ranges \cup {t}
    BY <1>3
  <2>2. CASE id \in Final(o)
    <3>1. w[id + 1].tick # t
      BY <1>4, <1>6, <2>2
    <3> QED
      BY <1>2, <2>1, <2>2, <3>1 DEF GoneIsKnown
  <2>3. CASE id \in Open(o)
    BY <1>4, <1>6, <2>3
  <2> QED
    BY <1>5, <2>2, <2>3
<1>13. TicksAreListed(k, w)
  <2> DEFINE ft == o.finalizedTicks  kt == k.finalizedTicks  m == Len(ft)
  <2>0. /\ \A i \in 1 .. m :
             /\ ft[i].tick > o.evictedThroughTick /\ ft[i].tick <= t - 1
             /\ ft[i].fromLogId < ft[i].toLogId /\ ft[i].toLogId <= c
             /\ \A id \in IdsOf(ft[i]) : w[id + 1].tick = ft[i].tick
        /\ \A i, j \in 1 .. m : i < j => ft[i].tick < ft[j].tick
        /\ \A id \in Final(o) : w[id + 1].tick > o.evictedThroughTick =>
             \E i \in 1 .. m : id \in IdsOf(ft[i])
    BY <1>2, <1>4 DEF TicksAreListed, c
  <2>1. ft \in Seq(TickRecords) /\ m \in Nat
    BY <1>2 DEF IsStore
  <2> HIDE DEF ft
  <2>2. \A i \in 1 .. m : ft[i].tick \in Int /\ ft[i].toLogId \in Nat /\ ft[i].fromLogId \in Nat
    <3>1. \A i \in 1 .. m : ft[i] \in TickRecords
      BY <2>1
    <3> QED
      BY <3>1 DEF TickRecords
  <2>3. CASE c < n
    <3>1. kt = Append(ft, entry)
      BY <1>3, <2>3 DEF ft
    <3>2. Len(kt) = m + 1 /\ kt[m + 1] = entry /\ \A i \in 1 .. m : kt[i] = ft[i]
      BY <2>1, <3>1
    <3>3. entry.tick = t /\ entry.fromLogId = c /\ entry.toLogId = n /\ IdsOf(entry) = Open(o)
      BY <1>5 DEF entry, IdsOf
    <3>4. \A i \in 1 .. m + 1 : i \in 1 .. m \/ i = m + 1
      BY <2>1
    <3> HIDE DEF kt, m
    <3>5. \A i \in 1 .. m + 1 :
            /\ kt[i].tick > o.evictedThroughTick /\ kt[i].tick <= t
            /\ kt[i].fromLogId < kt[i].toLogId /\ kt[i].toLogId <= n
            /\ \A id \in IdsOf(kt[i]) : w[id + 1].tick = kt[i].tick
      <4> SUFFICES ASSUME NEW i \in 1 .. m + 1
                   PROVE  /\ kt[i].tick > o.evictedThroughTick /\ kt[i].tick <= t
                          /\ kt[i].fromLogId < kt[i].toLogId /\ kt[i].toLogId <= n
                          /\ \A id \in IdsOf(kt[i]) : w[id + 1].tick = kt[i].tick
        OBVIOUS
      <4>1. CASE i \in 1 .. m
        <5>1. ft[i].tick <= t /\ ft[i].toLogId <= n
          BY <1>4, <2>0, <2>2, <4>1
        <5> QED
          BY <2>0, <3>2, <4>1, <5>1
      <4>2. CASE i = m + 1
        BY <1>4, <1>6, <2>3, <3>2, <3>3, <4>2
      <4> QED
        BY <3>4, <4>1, <4>2
    <3>6. \A i, j \in 1 .. m + 1 : i < j => kt[i].tick < kt[j].tick
      <4> SUFFICES ASSUME NEW i \in 1 .. m + 1, NEW j \in 1 .. m + 1, i < j
                   PROVE  kt[i].tick < kt[j].tick
        OBVIOUS
      <4>1. i \in 1 .. m
        BY <2>1
      <4>2. CASE j \in 1 .. m
        BY <2>0, <3>2, <4>1, <4>2
      <4>3. CASE j = m + 1
        <5>1. ft[i].tick <= t - 1 /\ ft[i].tick \in Int
          BY <2>0, <2>2, <4>1
        <5> QED
          BY <1>4, <3>2, <3>3, <4>1, <4>3, <5>1
      <4> QED
        BY <3>4, <4>2, <4>3
    <3>7. \A id \in Final(k) : w[id + 1].tick > o.evictedThroughTick =>
            \E i \in 1 .. m + 1 : id \in IdsOf(kt[i])
      <4> SUFFICES ASSUME NEW id \in Final(k), w[id + 1].tick > o.evictedThroughTick
                   PROVE  \E i \in 1 .. m + 1 : id \in IdsOf(kt[i])
        OBVIOUS
      <4>1. CASE id \in Final(o)
        <5>1. PICK i \in 1 .. m : id \in IdsOf(ft[i])
          BY <2>0, <4>1
        <5>2. i \in 1 .. m + 1 /\ kt[i] = ft[i]
          BY <2>1, <3>2
        <5> QED
          BY <5>1, <5>2
      <4>2. CASE id \in Open(o)
        <5>1. m + 1 \in 1 .. m + 1
          BY <2>1
        <5> QED
          BY <3>2, <3>3, <4>2, <5>1
      <4> QED
        BY <1>5, <4>1, <4>2
    <3> QED
      BY <1>3, <3>2, <3>5, <3>6, <3>7 DEF TicksAreListed, kt
  <2>4. CASE ~(c < n)
    <3>1. kt = ft /\ Final(k) = Final(o) /\ c = n
      BY <1>3, <1>4, <1>5, <2>4 DEF ft
    <3>2. \A i \in 1 .. m : ft[i].tick <= t
      BY <1>4, <2>0, <2>2
    <3> QED
      BY <1>3, <2>0, <3>1, <3>2 DEF TicksAreListed
  <2> QED
    BY <2>3, <2>4
<1>14. IsAccounted(k)
  <2>1. BytesOf(k, All(k)) = BytesOf(o, All(o))
    BY <1>3, <1>5 DEF BytesOf, SizeOf
  <2> QED
    BY <1>2, <1>3, <2>1 DEF IsAccounted
<1>15. /\ DOMAIN k.ranges = DOMAIN o.ranges \cup {t} /\ k.ranges[t] = o.currentRanges
       /\ DOMAIN o.ranges \subseteq b .. t - 1
       /\ \A s \in DOMAIN o.ranges : s # t /\ k.ranges[s] = o.ranges[s]
  <2>1. DOMAIN o.ranges \subseteq b .. t - 1
    BY <1>2, <1>4 DEF RangesTell, b
  <2>2. \A s \in DOMAIN o.ranges : s # t
    BY <1>4, <2>1
  <2> QED
    BY <1>3, <2>1, <2>2
<1>16. RangesTell(k, w)
  <2>1. \A x \in RangeIds : Tells(o.currentRanges[x], OpenUnder(o, w, x))
    BY <1>1, <1>2, <1>4 DEF RangesTell
  <2>2. \A s \in DOMAIN k.ranges, x \in RangeIds : Tells(k.ranges[s][x], FinalUnder(k, w, s, x))
    <3> SUFFICES ASSUME NEW s \in DOMAIN k.ranges, NEW x \in RangeIds
                 PROVE  Tells(k.ranges[s][x], FinalUnder(k, w, s, x))
      OBVIOUS
    <3>1. CASE s = t
      BY <1>7, <1>15, <2>1, <3>1
    <3>2. CASE s \in DOMAIN o.ranges
      <4>1. Tells(o.ranges[s][x], FinalUnder(o, w, s, x))
        BY <1>2, <3>2 DEF RangesTell
      <4> QED
        BY <1>7, <1>15, <3>2, <4>1
    <3> QED
      BY <1>15, <3>1, <3>2
  <2>3. \A s \in k.tickBegin .. k.lastUpdatedTick : s \notin DOMAIN k.ranges =>
          s <= k.evictedThroughTick /\ \E id \in Final(k) : w[id + 1].tick = s
    <3> SUFFICES ASSUME NEW s \in b .. t, s \notin DOMAIN o.ranges, s # t
                 PROVE  s <= o.evictedThroughTick /\ \E id \in Final(k) : w[id + 1].tick = s
      BY <1>3, <1>15
    <3>1. s \in o.tickBegin .. o.lastUpdatedTick
      BY <1>4 DEF b
    <3>2. s <= o.evictedThroughTick /\ \E id \in Final(o) : w[id + 1].tick = s
      BY <1>2, <3>1 DEF RangesTell
    <3> QED
      BY <1>5, <3>2
  <2>4. DOMAIN k.ranges \subseteq k.tickBegin .. k.lastUpdatedTick
    BY <1>3, <1>4, <1>15
  <2>5. ~(k.currentTick > k.lastUpdatedTick)
    BY <1>3, <1>4
  <2> QED
    BY <2>2, <2>3, <2>4, <2>5 DEF RangesTell
<1>17. RangesAreWhole(k, w)
  <2> SUFFICES ASSUME NEW x \in Whole
               PROVE  /\ IsInterval(OpenUnder(k, w, x))
                      /\ \A s \in DOMAIN k.ranges : IsInterval(FinalUnder(k, w, s, x))
    BY DEF RangesAreWhole
  <2>1. IsInterval(OpenUnder(k, w, x))
    BY <1>8 DEF IsInterval
  <2>2. IsInterval(FinalUnder(k, w, t, x))
    BY <1>2, <1>7 DEF RangesAreWhole
  <2>3. \A s \in DOMAIN o.ranges : IsInterval(FinalUnder(k, w, s, x))
    <3>1. \A s \in DOMAIN o.ranges : FinalUnder(k, w, s, x) = FinalUnder(o, w, s, x)
      BY <1>7, <1>15
    <3> QED
      BY <1>2, <3>1 DEF RangesAreWhole
  <2> QED
    BY <1>15, <2>1, <2>2, <2>3
<1>18. DigestsCover(k, w)
  <2>1. /\ b .. t - 1 \subseteq DOMAIN o.digests
        /\ \A s \in b .. t - 1 :
             /\ o.digests[s] \in Seq(Seq(Nat)) /\ Len(o.digests[s]) = s - b + 1
             /\ \A m \in 1 .. Len(o.digests[s]) :
                  Enumerates(o.digests[s][m], FinalMutations(o, w, b + m - 1))
        /\ o.previousDigest = IF t - 1 < b THEN ZeroDigest ELSE o.digests[t - 1]
    BY <1>2, <1>4 DEF DigestsCover, b
  <2>2. o.digestInput.previous = o.previousDigest
        /\ Enumerates(o.digestInput.messages, OpenMutations(o, w))
    BY <1>1, <1>2, <1>4 DEF DigestsCover
  <2> DEFINE prev == o.previousDigest
  <2>3. /\ prev \in Seq(Seq(Nat)) /\ Len(prev) = t - b
        /\ \A m \in 1 .. Len(prev) : Enumerates(prev[m], FinalMutations(o, w, b + m - 1))
    <3>1. CASE t - 1 < b
      BY <1>4, <2>1, <3>1 DEF ZeroDigest
    <3>2. CASE ~(t - 1 < b)
      <4>1. t - 1 \in b .. t - 1 /\ prev = o.digests[t - 1] /\ (t - 1) - b + 1 = t - b
        BY <1>4, <2>1, <3>2
      <4> HIDE DEF prev
      <4> QED
        BY <2>1, <4>1
    <3> QED
      BY <3>1, <3>2
  <2>4. digest = Append(prev, o.digestInput.messages) /\ o.digestInput.messages \in Seq(Nat)
    BY <1>2, <2>2 DEF digest, IsStore
  <2> HIDE DEF prev
  <2>5. /\ digest \in Seq(Seq(Nat)) /\ Len(digest) = t - b + 1
        /\ digest[t - b + 1] = o.digestInput.messages
        /\ \A m \in 1 .. t - b : digest[m] = prev[m]
    BY <1>4, <2>3, <2>4
  <2>6. \A m \in 1 .. t - b + 1 : Enumerates(digest[m], FinalMutations(k, w, b + m - 1))
    <3> SUFFICES ASSUME NEW m \in 1 .. t - b + 1
                 PROVE  Enumerates(digest[m], FinalMutations(k, w, b + m - 1))
      OBVIOUS
    <3>1. CASE m \in 1 .. t - b
      <4>1. Enumerates(prev[m], FinalMutations(o, w, b + m - 1)) /\ digest[m] = prev[m]
        BY <2>3, <2>5, <3>1
      <4>2. b + m - 1 \in b .. t - 1
        BY <1>4, <3>1
      <4> QED
        BY <1>7, <4>1, <4>2
    <3>2. CASE m = t - b + 1
      <4>1. b + m - 1 = t
        BY <1>4, <3>2
      <4> QED
        BY <1>7, <2>2, <2>5, <3>2, <4>1
    <3> QED
      BY <1>4, <3>1, <3>2
  <2>7. /\ DOMAIN k.digests = DOMAIN o.digests \cup {t} /\ k.digests[t] = digest
        /\ \A s \in b .. t - 1 : k.digests[s] = o.digests[s]
    BY <1>3, <1>4, <2>1
  <2>8. \A s \in b .. t :
          /\ k.digests[s] \in Seq(Seq(Nat)) /\ Len(k.digests[s]) = s - b + 1
          /\ \A m \in 1 .. Len(k.digests[s]) :
               Enumerates(k.digests[s][m], FinalMutations(k, w, b + m - 1))
    <3> SUFFICES ASSUME NEW s \in b .. t
                 PROVE  /\ k.digests[s] \in Seq(Seq(Nat)) /\ Len(k.digests[s]) = s - b + 1
                        /\ \A m \in 1 .. Len(k.digests[s]) :
                             Enumerates(k.digests[s][m], FinalMutations(k, w, b + m - 1))
      OBVIOUS
    <3>1. CASE s = t
      BY <2>5, <2>6, <2>7, <3>1
    <3>2. CASE s \in b .. t - 1
      <4>1. /\ k.digests[s] = o.digests[s]
            /\ o.digests[s] \in Seq(Seq(Nat)) /\ Len(o.digests[s]) = s - b + 1
            /\ \A m \in 1 .. Len(o.digests[s]) :
                  Enumerates(o.digests[s][m], FinalMutations(o, w, b + m - 1))
        BY <2>1, <2>7, <3>2
      <4>2. \A m \in 1 .. s - b + 1 : b + m - 1 \in b .. t - 1
        BY <1>4, <3>2
      <4> QED
        BY <1>7, <4>1, <4>2
    <3> QED
      BY <1>4, <3>1, <3>2
  <2>9. b .. t \subseteq DOMAIN k.digests
    BY <1>4, <2>1, <2>7
  <2>10. ~(t < b) /\ ~(k.currentTick > k.lastUpdatedTick)
    BY <1>3, <1>4
  <2> QED
    BY <1>3, <2>7, <2>8, <2>9, <2>10 DEF DigestsCover
<1>19. Sound(k, w, pr)
  BY <1>9, <1>10, <1>11, <1>12, <1>13, <1>14, <1>16, <1>17, <1>18 DEF Sound
<1> QED
  BY <1>1, <1>3, <1>19 DEF k, n, b

LEMMA ResetSound ==
  ASSUME NEW t \in Nat
  PROVE  LET k == Reset(t) IN
         /\ Sound(k, << >>, {}) /\ k.records = << >> /\ k.current = NoRange
         /\ k.lastUpdatedTick = t - 1 /\ k.currentTick = t - 1 /\ k.tickBegin = t
         /\ k.finalizedLogCount = 0
<1> DEFINE k == Reset(t)  w == << >>
<1>1. /\ DOMAIN k = Fields /\ k.records = << >> /\ k.ranges = << >> /\ k.digests = << >>
      /\ k.digestInput = [previous |-> ZeroDigest, messages |-> << >>]
      /\ k.previousDigest = ZeroDigest /\ k.current = NoRange
      /\ k.currentRanges = EmptyRanges /\ k.currentTick = t - 1 /\ k.paused = FALSE
      /\ k.lastUpdatedTick = t - 1 /\ k.retainedBytes = 0 /\ k.finalizedLogCount = 0
      /\ k.finalizedTicks = << >> /\ k.tickBegin = t /\ k.evictedThroughTick = -1
      /\ k.overflowed = FALSE
  BY DEF Reset, Fields
<1> HIDE DEF k
<1>2. Final(k) = {} /\ Open(k) = {} /\ All(k) = {} /\ t .. t - 1 = {}
  BY <1>1 DEF Final, Open, All
<1>3. IsStore(k)
  <2>1. k.records \in Seq(Record \cup {Gone}) /\ k.finalizedTicks \in Seq(TickRecords)
    BY <1>1
  <2>2. DOMAIN k.currentRanges = RangeIds
    BY <1>1, EmptyTells
  <2>3. DOMAIN k.digestInput = {"previous", "messages"} /\ k.digestInput.messages \in Seq(Nat)
    BY <1>1
  <2>4. k.finalizedLogCount \in Nat /\ k.finalizedLogCount <= Len(k.records)
    BY <1>1
  <2>5. /\ k.currentTick \in Int /\ k.lastUpdatedTick \in Int /\ k.evictedThroughTick \in Int
        /\ k.tickBegin \in Int /\ k.retainedBytes \in Int
    BY <1>1
  <2>6. DOMAIN k = Fields /\ k.current \in OpenRange \cup {NoRange}
    BY <1>1
  <2>7. k.paused \in BOOLEAN /\ k.overflowed \in BOOLEAN
    BY <1>1
  <2> QED
    BY <2>1, <2>2, <2>3, <2>4, <2>5, <2>6, <2>7 DEF IsStore
<1>4. TicksInOrder(k)
  BY <1>1 DEF TicksInOrder
<1>5. IsHistory(k, w) /\ GoneIsKnown(k, w, {}) /\ TicksAreListed(k, w)
  BY <1>1, <1>2 DEF IsHistory, GoneIsKnown, TicksAreListed
<1>6. IsAccounted(k)
  <2>1. BytesOf(k, {}) = 0
    BY FS_EmptySet, BytesOfNothing
  <2> QED
    BY <1>1, <1>2, <2>1, LogConstants DEF IsAccounted
<1>7. ~(k.currentTick > k.lastUpdatedTick) /\ k.tickBegin .. k.lastUpdatedTick = {}
  BY <1>1, <1>2
<1>8. DOMAIN k.ranges = {}
  BY <1>1
<1>9. RangesTell(k, w) /\ RangesAreWhole(k, w)
  BY <1>2, <1>7, <1>8 DEF RangesTell, RangesAreWhole, OpenUnder, IsInterval
<1>10. DigestsCover(k, w)
  BY <1>1, <1>2, <1>7 DEF DigestsCover
<1>11. Sound(k, w, {})
  BY <1>3, <1>4, <1>5, <1>6, <1>9, <1>10 DEF Sound
<1> QED
  BY <1>1, <1>11 DEF k
-----------------------------------------------------------------------------
(* The open records, as the phases know them.                              *)

\* Where the log stands in each phase: between ticks the last tick is final, within
\* one it is that tick that is open.
PhaseInv ==
  /\ log.current = NoRange <=> phase \in {"idle", "halted"}
  /\ phase = "idle" =>
       /\ lastFinalizedTick = currentTick /\ log.lastUpdatedTick = currentTick
  /\ phase \in {"deploy", "late"} =>
       /\ lastFinalizedTick = currentTick /\ log.lastUpdatedTick = currentTick
  /\ phase \notin {"idle", "deploy", "late", "halted"} =>
       /\ lastFinalizedTick = currentTick - 1 /\ log.lastUpdatedTick = currentTick - 1
  /\ phase = "halted" => log.overflowed
  /\ phase \in {"transaction", "late"} => txCount < TxsPerTick
  /\ phase = "commits" => deferredEngineLogs > 0

\* A range that has to be whole is open in its phases only, where its records are
\* the last ones.
PhaseOf(x) ==
  IF x = LOG_SC_BEGIN_EPOCH THEN {"beginEpoch"}
  ELSE IF x = LOG_SC_NOTIFICATION THEN {"commits", "oracle", "deliver"}
  ELSE {"endTick"}

WholeInv ==
  /\ \A x \in Whole :
       /\ log.current # NoRange /\ log.current.txId = x <=> phase \in PhaseOf(x)
       /\ phase \in PhaseOf(x) => IsTail(log, written, x)
  /\ OpenUnder(log, written, LOG_SC_NOTIFICATION) # {} =>
       phase \in {"commits", "oracle", "deliver", "endTick", "halted"}
  /\ OpenUnder(log, written, LOG_SC_END_TICK) # {} => phase \in {"endTick", "halted"}

Phases == Running \cup {"settle", "commits", "idle", "halted"}

Numbers ==
  /\ currentTick \in 0 .. MaxTick /\ initialTick \in 0 .. MaxTick
  /\ lastFinalizedTick \in 0 .. MaxTick
  /\ phase \in Phases
  /\ txCount \in 0 .. TxsPerTick /\ pending \in BOOLEAN
  /\ deferredEngineLogs \in 0 .. MaxDeferred

LogInv == Numbers /\ Sound(log, written, pruned) /\ PhaseInv /\ WholeInv

LEMMA TypeHolds == LogInv => TypeOK
<1> SUFFICES ASSUME LogInv PROVE TypeOK
  OBVIOUS
<1>1. \A p \in DOMAIN log.records : log.records[p] \in {Gone, written[p]}
  <2>1. DOMAIN log.records = 1 .. Len(written)
    BY DEF LogInv, Sound, IsStore, IsHistory
  <2> QED
    BY <2>1 DEF LogInv, Sound, IsHistory
<1>2. log.current # NoRange => log.current \in OpenRange /\ log.current.tick \in 0 .. MaxTick + 1
  <2> SUFFICES ASSUME log.current # NoRange
               PROVE  log.current \in OpenRange /\ log.current.tick \in 0 .. MaxTick + 1
    OBVIOUS
  <2>1. log.current \in OpenRange /\ log.current.tick = log.lastUpdatedTick + 1
    BY DEF LogInv, Sound, IsStore, TicksInOrder
  <2>2. log.lastUpdatedTick \in {currentTick, currentTick - 1}
    BY DEF LogInv, PhaseInv
  <2> QED
    BY <2>1, <2>2, LogConstants DEF LogInv, Numbers
<1>3. (phase \in {"idle", "halted"}) \/ log.current # NoRange
  BY DEF LogInv, PhaseInv
<1> QED
  BY <1>1, <1>2, <1>3 DEF TypeOK, LogInv, Numbers, Phases

LEMMA OpenAgrees ==
  ASSUME NEW l, NEW k, NEW w, Len(k.records) = Len(l.records),
         k.finalizedLogCount = l.finalizedLogCount
  PROVE  /\ Open(k) = Open(l)
         /\ \A x : OpenUnder(k, w, x) = OpenUnder(l, w, x)
         /\ \A x : IsTail(k, w, x) <=> IsTail(l, w, x)
BY DEF Open, OpenUnder, IsTail

\* From one state of the store to the next, within a tick: what is under a range
\* that is not open stays there, and what is under the one that is stays the last.
Grows(l, w, k, v) ==
  /\ k.current = l.current /\ k.currentTick = l.currentTick
  /\ k.lastUpdatedTick = l.lastUpdatedTick
  /\ l.overflowed => k.overflowed
  /\ \A x : OpenUnder(k, v, x) # {} =>
       OpenUnder(l, w, x) # {} \/ (l.current # NoRange /\ l.current.txId = x)
  /\ \A x : l.current # NoRange /\ l.current.txId = x /\ IsTail(l, w, x) => IsTail(k, v, x)

LEMMA AppendGrows ==
  ASSUME NEW l, NEW w, NEW pr, Sound(l, w, pr), NEW size \in Nat, NEW digested \in BOOLEAN,
         l.current # NoRange /\ l.current.txId \in Whole => IsTail(l, w, l.current.txId)
  PROVE  LET k == AppendLog(l, size, digested) IN
         /\ Sound(k, History(w, k), pr) /\ Grows(l, w, k, History(w, k))
<1> DEFINE k == AppendLog(l, size, digested)  v == History(w, k)
<1>0. Appended(l, w, pr, k, v)
  BY AppendSound
<1> HIDE DEF k, v
<1>1. /\ Sound(k, v, pr)
      /\ k.current = l.current /\ k.currentTick = l.currentTick
      /\ k.lastUpdatedTick = l.lastUpdatedTick
      /\ k.finalizedLogCount = l.finalizedLogCount
      /\ l.overflowed => k.overflowed
      /\ \/ Len(k.records) = Len(l.records) /\ v = w
         \/ Len(k.records) = l.finalizedLogCount
         \/ \E record \in Record :
              /\ v = Append(w, record) /\ Len(k.records) = Len(l.records) + 1
              /\ l.current # NoRange /\ record.txId = l.current.txId
  BY <1>0 DEF Appended
<1> DEFINE Goal == /\ \A x : OpenUnder(k, v, x) # {} =>
                        OpenUnder(l, w, x) # {} \/ (l.current # NoRange /\ l.current.txId = x)
                   /\ \A x : l.current # NoRange /\ l.current.txId = x /\ IsTail(l, w, x)
                        => IsTail(k, v, x)
<1>2. ASSUME Len(k.records) = Len(l.records), v = w PROVE Goal
  <2>1. /\ \A x : OpenUnder(k, w, x) = OpenUnder(l, w, x)
        /\ \A x : IsTail(k, w, x) <=> IsTail(l, w, x)
    BY <1>1, <1>2, OpenAgrees
  <2> QED
    BY <1>2, <2>1
<1>3. ASSUME Len(k.records) = l.finalizedLogCount PROVE Goal
  <2>1. Open(k) = {}
    BY <1>1, <1>3 DEF Open, Sound, IsStore
  <2>2. \A x : OpenUnder(k, v, x) = {}
    BY <2>1 DEF OpenUnder
  <2> QED
    BY <2>2 DEF IsTail
<1>4. ASSUME NEW record \in Record, v = Append(w, record), Len(k.records) = Len(l.records) + 1,
             l.current # NoRange, record.txId = l.current.txId
      PROVE  Goal
  <2> DEFINE n == Len(w)
  <2>1. n \in Nat /\ Len(l.records) = n /\ w \in Seq(Record)
    BY DEF Sound, IsHistory
  <2>2. l.finalizedLogCount \in Nat /\ l.finalizedLogCount <= n
    BY <2>1 DEF Sound, IsStore
  <2>3. Open(l) = l.finalizedLogCount .. n - 1 /\ Open(k) = Open(l) \cup {n}
    BY <1>1, <1>4, <2>1, <2>2 DEF Open
  <2>4. v[n + 1] = record /\ \A p \in 1 .. n : v[p] = w[p]
    BY <1>4, <2>1
  <2>5. \A id \in Open(l) : v[id + 1] = w[id + 1] /\ id < n
    <3> SUFFICES ASSUME NEW id \in Open(l) PROVE v[id + 1] = w[id + 1] /\ id < n
      OBVIOUS
    <3>1. id \in Nat /\ id + 1 \in 1 .. n /\ id < n
      BY <2>1, <2>2, <2>3
    <3> QED
      BY <2>4, <3>1
  <2> HIDE DEF n
  <2>6. \A x : OpenUnder(k, v, x) =
                 OpenUnder(l, w, x) \cup (IF record.txId = x THEN {n} ELSE {})
    BY <2>3, <2>4, <2>5 DEF OpenUnder
  <2>7. \A x : l.current.txId = x /\ IsTail(l, w, x) => IsTail(k, v, x)
    <3> SUFFICES ASSUME NEW x, l.current.txId = x, IsTail(l, w, x),
                        NEW a \in OpenUnder(k, v, x), NEW b \in Open(k), a <= b
                 PROVE  b \in OpenUnder(k, v, x)
      BY DEF IsTail
    <3>1. CASE b = n
      BY <1>4, <2>6, <3>1
    <3>2. CASE b \in Open(l)
      <4>1. a \in Open(l) \cup {n}
        BY <2>3 DEF OpenUnder
      <4>2. a # n
        BY <2>1, <2>2, <2>3, <2>5, <3>2
      <4>3. a \in OpenUnder(l, w, x)
        BY <2>6, <4>2
      <4> QED
        BY <2>6, <3>2, <4>3 DEF IsTail
    <3> QED
      BY <2>3, <3>1, <3>2
  <2> QED
    BY <1>4, <2>6, <2>7
<1>5. Goal
  BY <1>1, <1>2, <1>3, <1>4
<1> QED
  BY <1>1, <1>5 DEF Grows, k, v

\* The ranges that have to be whole, and what else a phase may open.
LEMMA Distinct ==
  /\ Whole \subseteq RangeIds
  /\ LOG_SC_BEGIN_EPOCH # LOG_SC_NOTIFICATION /\ LOG_SC_BEGIN_EPOCH # LOG_SC_END_TICK
  /\ LOG_SC_NOTIFICATION # LOG_SC_END_TICK
  /\ \A x \in {LOG_SC_INITIALIZE, LOG_SC_BEGIN_TICK, LOG_SC_END_EPOCH} \cup 0 .. TxsPerTick - 1 :
       x \in RangeIds /\ x \notin Whole
BY LogConstants DEF Whole, RangeIds, LOG_SC_INITIALIZE, LOG_SC_BEGIN_EPOCH, LOG_SC_BEGIN_TICK,
     LOG_SC_END_TICK, LOG_SC_END_EPOCH, LOG_SC_NOTIFICATION

LEMMA PhasesOf ==
  /\ PhaseOf(LOG_SC_BEGIN_EPOCH) = {"beginEpoch"}
  /\ PhaseOf(LOG_SC_NOTIFICATION) = {"commits", "oracle", "deliver"}
  /\ PhaseOf(LOG_SC_END_TICK) = {"endTick"}
  /\ \A y \in Whole : PhaseOf(y) \subseteq {"beginEpoch", "commits", "oracle", "deliver", "endTick"}
BY Distinct DEF PhaseOf

\* A phase that is entered with the range x.
Leads(l, w, x, next) ==
  /\ \A y \in Whole : x = y <=> next \in PhaseOf(y)
  /\ x \in Whole => IsTail(l, w, x)
  /\ OpenUnder(l, w, LOG_SC_NOTIFICATION) # {} =>
       next \in {"commits", "oracle", "deliver", "endTick"}
  /\ OpenUnder(l, w, LOG_SC_END_TICK) # {} => next = "endTick"

LEMMA OrdinaryLeads ==
  ASSUME NEW l, NEW w, NEW x, NEW next, x \notin Whole,
         next \in {"endEpoch", "settle", "construct", "beginTick", "transaction", "deploy", "late"},
         OpenUnder(l, w, LOG_SC_NOTIFICATION) = {}, OpenUnder(l, w, LOG_SC_END_TICK) = {}
  PROVE  Leads(l, w, x, next)
BY PhasesOf DEF Leads

LEMMA WholeLeads ==
  ASSUME NEW l, NEW w, NEW x \in Whole, NEW next \in PhaseOf(x), IsTail(l, w, x),
         OpenUnder(l, w, LOG_SC_NOTIFICATION) # {} =>
           next \in {"commits", "oracle", "deliver", "endTick"},
         OpenUnder(l, w, LOG_SC_END_TICK) # {} => next = "endTick"
  PROVE  Leads(l, w, x, next)
<1>1. \A y \in Whole : x = y <=> next \in PhaseOf(y)
  BY PhasesOf, Distinct DEF Whole
<1> QED
  BY <1>1 DEF Leads

LEMMA WritesIs == \A l : Writes(l) <=> log' = l /\ written' = History(written, l)
BY DEF Writes, History

LEMMA HistorySame ==
  ASSUME NEW l, NEW k, NEW w, k.records = l.records
  PROVE  History(w, k) = History(w, l)
BY DEF History

\* A phase that begins, with a range of the tick that is due.
LEMMA BeginInv ==
  ASSUME NEW l, NEW v, NEW pr, Sound(l, v, pr), l.current = NoRange,
         NEW t, t = l.lastUpdatedTick + 1, NEW x \in RangeIds, NEW next,
         log' = Begin(l, t, x), written' = v, phase' = next, Leads(l, v, x, next)
  PROVE  /\ Sound(log', written', pr) /\ WholeInv'
         /\ log'.lastUpdatedTick = l.lastUpdatedTick /\ log'.current # NoRange
<1> DEFINE k == Begin(l, t, x)
<1>1. log' = k
  OBVIOUS
<1>2. /\ Sound(k, v, pr) /\ k.records = l.records
      /\ k.lastUpdatedTick = l.lastUpdatedTick
      /\ k.finalizedLogCount = l.finalizedLogCount
      /\ k.current = [tick |-> t, txId |-> x]
  BY BeginSound
<1> HIDE DEF k
<1>3. k.current # NoRange /\ k.current.txId = x
  <2>1. t \in Int
    BY DEF Sound, IsStore
  <2>2. k.current \in OpenRange
    BY <1>2, <2>1 DEF OpenRange
  <2> QED
    BY <1>2, <2>2, NothingIsNothing
<1>4. /\ \A y : OpenUnder(k, v, y) = OpenUnder(l, v, y)
      /\ \A y : IsTail(k, v, y) <=> IsTail(l, v, y)
  BY <1>2, OpenAgrees
<1>5. \A y \in Whole :
        /\ k.current # NoRange /\ k.current.txId = y <=> next \in PhaseOf(y)
        /\ next \in PhaseOf(y) => IsTail(k, v, y)
  BY <1>3, <1>4 DEF Leads
<1>6. WholeInv'
  <2>1. /\ OpenUnder(k, v, LOG_SC_NOTIFICATION) # {} =>
             next \in {"commits", "oracle", "deliver", "endTick", "halted"}
        /\ OpenUnder(k, v, LOG_SC_END_TICK) # {} => next \in {"endTick", "halted"}
    BY <1>4 DEF Leads
  <2> QED
    BY <1>1, <1>5, <2>1 DEF WholeInv
<1> QED
  BY <1>1, <1>2, <1>3, <1>6

LEMMA BeginWrites ==
  ASSUME NEW l, NEW t, NEW x, DOMAIN l = Fields, Writes(Begin(l, t, x))
  PROVE  log' = Begin(l, t, x) /\ written' = History(written, l)
<1> DEFINE k == Begin(l, t, x)
<1>1. log' = k /\ written' = History(written, k)
  BY WritesIs
<1>2. k.records = l.records
  BY DEF Begin, Opened, Fields
<1> HIDE DEF k
<1>3. History(written, k) = History(written, l)
  BY <1>2, HistorySame
<1> QED
  BY <1>1, <1>3 DEF k

\* A node that halts, with an overflowed store.
LEMMA HaltInv ==
  ASSUME NEW l, NEW v, Sound(l, v, pruned), v = History(written, l), l.overflowed, Halt(l)
  PROVE  /\ Sound(log', written', pruned) /\ WholeInv' /\ PhaseInv'
         /\ phase' = "halted"
<1> DEFINE e == End(l)  k == [e EXCEPT !.paused = FALSE]
<1>1. log' = k /\ written' = History(written, k) /\ phase' = "halted"
  BY WritesIs DEF Halt
<1>2. Sound(e, v, pruned) /\ SameLog(l, e) /\ e.current = NoRange
  BY EndSound
<1> HIDE DEF e
<1>3. Sound(k, v, pruned) /\ SameLog(e, k) /\ k.current = NoRange
  BY <1>2, PausedSound
<1> HIDE DEF k
<1>4. k.records = l.records /\ k.overflowed
  BY <1>2, <1>3 DEF SameLog
<1>5. written' = v
  BY <1>1, <1>4, HistorySame
<1>6. PhaseInv'
  BY <1>1, <1>3, <1>4 DEF PhaseInv
<1>7. \A y \in Whole : "halted" \notin PhaseOf(y)
  BY PhasesOf
<1>8. WholeInv'
  BY <1>1, <1>3, <1>7 DEF WholeInv
<1> QED
  BY <1>1, <1>3, <1>5, <1>6, <1>8

\* Enter, of the tick that is due, after what a call wrote.
LEMMA EnterFromInv ==
  ASSUME NEW l, NEW v, Sound(l, v, pruned), v = History(written, l), NEW t,
         t = l.lastUpdatedTick + 1, NEW x \in RangeIds, NEW next, Enter(l, t, x, next),
         Leads(l, v, x, next)
  PROVE  /\ Sound(log', written', pruned) /\ WholeInv'
         /\ \/ phase' = "halted" /\ PhaseInv'
            \/ /\ phase' = next /\ log'.current # NoRange
               /\ log'.lastUpdatedTick = l.lastUpdatedTick
<1>1. CASE BeginThrows(l, t)
  <2>1. l.overflowed
    BY <1>1, OnlyOverflowThrows
  <2>2. Halt(l)
    BY <1>1 DEF Enter
  <2> QED
    BY <2>1, <2>2, HaltInv
<1>2. CASE ~BeginThrows(l, t)
  <2> DEFINE e == End(l)
  <2>1. Writes(Begin(e, t, x)) /\ phase' = next
    BY <1>2 DEF Enter
  <2>2. Sound(e, v, pruned) /\ SameLog(l, e) /\ e.current = NoRange
    BY EndSound
  <2> HIDE DEF e
  <2>3. /\ e.records = l.records /\ e.lastUpdatedTick = l.lastUpdatedTick
        /\ e.finalizedLogCount = l.finalizedLogCount
    BY <2>2 DEF SameLog
  <2>4. t = e.lastUpdatedTick + 1
    BY <2>3
  <2>5. log' = Begin(e, t, x) /\ written' = v
    <3>1. DOMAIN e = Fields
      BY <2>2 DEF SameLog
    <3>2. History(written, e) = v
      BY <2>3, HistorySame
    <3> QED
      BY <2>1, <3>1, <3>2, BeginWrites
  <2>6. Leads(e, v, x, next)
    BY <2>3, OpenAgrees DEF Leads
  <2>7. /\ Sound(log', written', pruned) /\ WholeInv'
        /\ log'.lastUpdatedTick = e.lastUpdatedTick /\ log'.current # NoRange
    BY <2>1, <2>2, <2>4, <2>5, <2>6, BeginInv
  <2> QED
    BY <2>1, <2>3, <2>7
<1> QED
  BY <1>1, <1>2

LEMMA EnterInv ==
  ASSUME Sound(log, written, pruned), NEW t, t = log.lastUpdatedTick + 1,
         NEW x \in RangeIds, NEW next, Enter(log, t, x, next), Leads(log, written, x, next)
  PROVE  /\ Sound(log', written', pruned) /\ WholeInv'
         /\ \/ phase' = "halted" /\ PhaseInv'
            \/ /\ phase' = next /\ log'.current # NoRange
               /\ log'.lastUpdatedTick = log.lastUpdatedTick
<1>1. History(written, log) = written
  BY HistoryKept DEF Sound, IsStore
<1> QED
  BY <1>1, EnterFromInv

\* A range that is opened for one record of the engine and closed again.
Noted(l, w, pr, k, v) ==
  /\ Sound(k, v, pr) /\ k.current = NoRange
  /\ k.lastUpdatedTick = l.lastUpdatedTick
  /\ l.overflowed => k.overflowed
  /\ \A y \in Whole : OpenUnder(k, v, y) # {} => OpenUnder(l, w, y) # {}

LEMMA NoteSound ==
  ASSUME NEW l, NEW w, NEW pr, Sound(l, w, pr), l.current = NoRange,
         NEW t, t = l.lastUpdatedTick + 1, NEW x \in RangeIds \ Whole
  PROVE  LET k == End(AppendLog(Begin(l, t, x), 1, FALSE)) IN Noted(l, w, pr, k, History(w, k))
<1> DEFINE b == Begin(l, t, x)  a == AppendLog(b, 1, FALSE)  v == History(w, a)  k == End(a)
<1>1. /\ Sound(b, w, pr) /\ b.records = l.records
      /\ b.lastUpdatedTick = l.lastUpdatedTick
      /\ b.finalizedLogCount = l.finalizedLogCount
      /\ b.overflowed = l.overflowed
      /\ b.current = [tick |-> t, txId |-> x]
  BY BeginSound
<1>2. b.current.txId = x
  BY <1>1
<1> HIDE DEF b
<1>3. Sound(a, v, pr) /\ Grows(b, w, a, v)
  <2>1. b.current # NoRange /\ b.current.txId \in Whole => IsTail(b, w, b.current.txId)
    BY <1>2
  <2> QED
    BY <1>1, <2>1, AppendGrows
<1> HIDE DEF a, v
<1>4. Sound(k, v, pr) /\ SameLog(a, k) /\ k.current = NoRange
  BY <1>3, EndSound
<1> HIDE DEF k
<1>5. /\ k.records = a.records /\ k.finalizedLogCount = a.finalizedLogCount
      /\ k.lastUpdatedTick = a.lastUpdatedTick /\ k.overflowed = a.overflowed
  BY <1>4 DEF SameLog
<1>6. History(w, k) = v
  BY <1>5, HistorySame DEF v
<1>7. \A y \in Whole : OpenUnder(k, v, y) # {} => OpenUnder(l, w, y) # {}
  <2> SUFFICES ASSUME NEW y \in Whole, OpenUnder(k, v, y) # {}
               PROVE  OpenUnder(l, w, y) # {}
    OBVIOUS
  <2>1. OpenUnder(a, v, y) # {}
    <3>1. OpenUnder(k, v, y) = OpenUnder(a, v, y)
      BY ONLY <1>5, OpenAgrees
    <3> QED
      BY <3>1
  <2>2. OpenUnder(b, w, y) # {}
    <3>1. b.current.txId # y
      BY <1>2
    <3> QED
      BY ONLY <1>3, <2>1, <3>1 DEF Grows
  <2> QED
    BY <1>1, <2>2, OpenAgrees
<1>8. Noted(l, w, pr, k, v)
  BY <1>1, <1>3, <1>4, <1>5, <1>7 DEF Noted, Grows
<1> QED
  BY <1>6, <1>8 DEF k, a, b

\* The log a node starts an epoch with.
LEMMA MarkedSound ==
  ASSUME NEW t \in Nat
  PROVE  LET k == Marked(Reset(t), t) IN
         /\ Sound(k, k.records, {}) /\ k.current = NoRange /\ k.lastUpdatedTick = t - 1
         /\ \A y \in Whole : OpenUnder(k, k.records, y) = {}
<1> DEFINE r == Reset(t)  k == Marked(r, t)
<1>1. Sound(r, << >>, {}) /\ r.current = NoRange /\ r.lastUpdatedTick = t - 1
      /\ r.records = << >> /\ r.finalizedLogCount = 0
  BY ResetSound
<1> HIDE DEF r
<1>2. LOG_SC_INITIALIZE \in RangeIds \ Whole /\ t = r.lastUpdatedTick + 1
  BY <1>1, Distinct
<1>3. Noted(r, << >>, {}, k, History(<< >>, k))
  BY <1>1, <1>2, NoteSound DEF Marked
<1> HIDE DEF k
<1>4. k.records \in Seq(Record \cup {Gone})
  BY <1>3 DEF Noted, Sound, IsStore
<1>5. History(<< >>, k) = k.records
  <2>1. History(<< >>, k) = [p \in DOMAIN k.records |-> k.records[p]]
    BY DEF History
  <2> QED
    BY <1>4, <2>1
<1>6. Open(r) = {}
  BY <1>1 DEF Open
<1>7. \A y \in Whole : OpenUnder(k, k.records, y) = {}
  BY <1>3, <1>5, <1>6 DEF Noted, OpenUnder
<1> QED
  BY <1>1, <1>3, <1>5, <1>7 DEF Noted, k, r

LEMMA InitInv == Init => LogInv
<1> SUFFICES ASSUME Init PROVE LogInv
  OBVIOUS
<1> DEFINE m == Marked(Reset(0), 0)
<1>1. Sound(m, m.records, {}) /\ m.current = NoRange /\ m.lastUpdatedTick = -1
  BY MarkedSound
<1>2. /\ log = FinalizeTick(m, 0) /\ written = log.records /\ pruned = {} /\ phase = "idle"
      /\ currentTick = 0 /\ initialTick = 0 /\ lastFinalizedTick = 0 /\ txCount = 0
      /\ pending = FALSE /\ deferredEngineLogs = 0
  BY DEF Init
<1> HIDE DEF m
<1>3. /\ Sound(log, m.records, {}) /\ log.records = m.records
      /\ log.current = NoRange /\ log.lastUpdatedTick = 0
      /\ log.finalizedLogCount = Len(m.records)
  BY <1>1, <1>2, FinalizeSound
<1>4. Sound(log, written, pruned)
  BY <1>2, <1>3
<1>5. \A x : OpenUnder(log, written, x) = {}
  <2>1. Open(log) = {}
    BY <1>3, <1>4 DEF Open, Sound, IsStore
  <2> QED
    BY <2>1 DEF OpenUnder
<1>6. WholeInv
  BY <1>2, <1>3, <1>5, PhasesOf DEF WholeInv
<1>7. PhaseInv
  BY <1>2, <1>3 DEF PhaseInv
<1>8. Numbers
  <2>1. {currentTick, initialTick, lastFinalizedTick} \subseteq 0 .. MaxTick
    BY <1>2, LogConstants
  <2>2. txCount \in 0 .. TxsPerTick /\ deferredEngineLogs \in 0 .. MaxDeferred
    BY <1>2, LogConstants
  <2>3. phase \in Phases /\ pending \in BOOLEAN
    BY <1>2 DEF Phases
  <2> QED
    BY <2>1, <2>2, <2>3 DEF Numbers
<1> QED
  BY <1>4, <1>6, <1>7, <1>8 DEF LogInv
-----------------------------------------------------------------------------
(* The steps of the simulator.                                             *)

\* What the phases before the oracle pass know of the ranges to come.
LEMMA NothingYet ==
  ASSUME WholeInv, phase \in {"idle", "endEpoch", "beginEpoch", "settle", "construct", "beginTick",
                              "transaction", "deploy", "late"}
  PROVE  /\ OpenUnder(log, written, LOG_SC_NOTIFICATION) = {}
         /\ OpenUnder(log, written, LOG_SC_END_TICK) = {}
BY DEF WholeInv

LEMMA NextLogTickIs ==
  ASSUME LogInv, phase # "halted"
  PROVE  NextLogTick = log.lastUpdatedTick + 1
<1>1. lastFinalizedTick \in {currentTick, currentTick - 1} /\ log.lastUpdatedTick = lastFinalizedTick
  BY DEF LogInv, PhaseInv
<1>2. currentTick \in Int
  BY DEF LogInv, Numbers
<1> QED
  BY <1>1, <1>2 DEF NextLogTick

\* The phases a tick begins with, and the calls between ticks.
Ordinary == {"endEpoch", "settle", "construct", "beginTick", "transaction", "deploy", "late"}

LEMMA EnterOrdinary ==
  ASSUME LogInv, phase \in {"idle", "beginEpoch", "construct", "beginTick", "transaction"},
         NEW x \in RangeIds \ Whole, NEW next \in Ordinary,
         NEW t, t = log.lastUpdatedTick + 1, Enter(log, t, x, next)
  PROVE  /\ Sound(log', written', pruned) /\ WholeInv'
         /\ \/ phase' = "halted" /\ PhaseInv'
            \/ /\ phase' = next /\ log'.current # NoRange
               /\ log'.lastUpdatedTick = log.lastUpdatedTick
<1>1. Sound(log, written, pruned) /\ WholeInv
  BY DEF LogInv
<1>2. Leads(log, written, x, next)
  BY <1>1, NothingYet, OrdinaryLeads DEF Ordinary
<1> QED
  BY <1>1, <1>2, EnterInv

LEMMA EndEpochInv == LogInv /\ EnterEndEpoch => LogInv'
<1> SUFFICES ASSUME LogInv, EnterEndEpoch PROVE LogInv'
  OBVIOUS
<1>1. /\ phase = "idle" /\ currentTick < MaxTick /\ currentTick' = currentTick + 1
      /\ Enter(log, currentTick + 1, LOG_SC_END_EPOCH, "endEpoch")
      /\ UNCHANGED <<initialTick, lastFinalizedTick, txCount, pending, deferredEngineLogs, pruned>>
  BY DEF EnterEndEpoch
<1>2. log.lastUpdatedTick = currentTick /\ lastFinalizedTick = currentTick
  BY <1>1 DEF LogInv, PhaseInv
<1>3. /\ Sound(log', written', pruned) /\ WholeInv'
      /\ \/ phase' = "halted" /\ PhaseInv'
         \/ /\ phase' = "endEpoch" /\ log'.current # NoRange
            /\ log'.lastUpdatedTick = log.lastUpdatedTick
  BY <1>1, <1>2, Distinct, EnterOrdinary DEF Ordinary
<1>4. Numbers'
  BY <1>1, <1>3, LogConstants DEF LogInv, Numbers, Phases, Running
<1>5. PhaseInv'
  <2>1. currentTick \in Int
    BY DEF LogInv, Numbers
  <2>2. lastFinalizedTick' = currentTick' - 1 /\ log.lastUpdatedTick = currentTick' - 1
    BY <1>1, <1>2, <2>1
  <2>3. CASE phase' = "endEpoch" /\ log'.current # NoRange
             /\ log'.lastUpdatedTick = log.lastUpdatedTick
    BY ONLY <2>2, <2>3 DEF PhaseInv
  <2> QED
    BY <1>3, <2>3
<1> QED
  BY <1>1, <1>3, <1>4, <1>5 DEF LogInv

\* The range that is open may be appended to.
LEMMA OpenIsLast ==
  ASSUME WholeInv, log.current # NoRange, log.current.txId \in Whole
  PROVE  IsTail(log, written, log.current.txId)
BY DEF WholeInv

LEMMA BeginEpochInv == LogInv /\ EnterBeginEpoch => LogInv'
<1> SUFFICES ASSUME LogInv, EnterBeginEpoch PROVE LogInv'
  OBVIOUS
<1> DEFINE a == AppendLog(log, 1, FALSE)  ended == End(a)  v == History(written, a)
           m == Marked(Reset(NextLogTick), NextLogTick)
           fresh == Begin(m, NextLogTick, LOG_SC_BEGIN_EPOCH)
<1>1. /\ phase = "endEpoch"
      /\ UNCHANGED <<currentTick, lastFinalizedTick, txCount, pending>>
      /\ \/ /\ FinalizeThrows(ended, currentTick) /\ Halt(ended)
            /\ UNCHANGED <<initialTick, deferredEngineLogs, pruned>>
         \/ /\ log' = fresh /\ written' = fresh.records /\ phase' = "beginEpoch"
            /\ initialTick' = currentTick /\ deferredEngineLogs' = 0 /\ pruned' = {}
  BY DEF EnterBeginEpoch
<1>2. /\ lastFinalizedTick = currentTick - 1 /\ log.lastUpdatedTick = currentTick - 1
      /\ currentTick \in Int
  BY <1>1 DEF LogInv, PhaseInv, Numbers
<1>3. CASE /\ FinalizeThrows(ended, currentTick) /\ Halt(ended)
           /\ UNCHANGED <<initialTick, deferredEngineLogs, pruned>>
  <2>1. Sound(a, v, pruned) /\ Grows(log, written, a, v)
    BY OpenIsLast, AppendGrows DEF LogInv
  <2> HIDE DEF a, v
  <2>2. Sound(ended, v, pruned) /\ SameLog(a, ended)
    BY <2>1, EndSound
  <2> HIDE DEF ended
  <2>3. ended.lastUpdatedTick = currentTick - 1 /\ ended.records = a.records
    BY <1>2, <2>1, <2>2 DEF Grows, SameLog
  <2>4. currentTick = ended.lastUpdatedTick + 1
    BY <1>2, <2>3
  <2>5. ended.overflowed
    BY <1>3, <2>2, <2>4, OnlyOverflowThrows
  <2>6. v = History(written, ended)
    BY <2>3, HistorySame DEF v
  <2>7. /\ Sound(log', written', pruned) /\ WholeInv' /\ PhaseInv'
        /\ phase' = "halted"
    BY <1>3, <2>2, <2>5, <2>6, HaltInv
  <2>8. Numbers'
    BY <1>1, <1>3, <2>7 DEF LogInv, Numbers, Phases
  <2> QED
    BY <1>3, <2>7, <2>8 DEF LogInv
<1>4. CASE /\ log' = fresh /\ written' = fresh.records /\ phase' = "beginEpoch"
           /\ initialTick' = currentTick /\ deferredEngineLogs' = 0 /\ pruned' = {}
  <2>1. NextLogTick = currentTick /\ currentTick \in Nat
    BY <1>1, <1>2, NextLogTickIs DEF LogInv, Numbers
  <2>2. /\ Sound(m, m.records, {}) /\ m.current = NoRange /\ m.lastUpdatedTick = currentTick - 1
        /\ \A y \in Whole : OpenUnder(m, m.records, y) = {}
    BY <2>1, MarkedSound
  <2>3. DOMAIN m = Fields
    BY <2>2 DEF Sound, IsStore
  <2> HIDE DEF m
  <2>4. fresh.records = m.records
    BY <2>3 DEF Begin, Opened, Fields
  <2>5. LOG_SC_BEGIN_EPOCH \in Whole \cap RangeIds /\ LOG_SC_NOTIFICATION \in Whole
        /\ LOG_SC_END_TICK \in Whole
    BY Distinct DEF Whole
  <2>6. Leads(m, m.records, LOG_SC_BEGIN_EPOCH, "beginEpoch")
    <3>1. IsTail(m, m.records, LOG_SC_BEGIN_EPOCH)
      BY <2>2, <2>5 DEF IsTail
    <3> QED
      BY <2>2, <2>5, <3>1, PhasesOf, WholeLeads
  <2>7. NextLogTick = m.lastUpdatedTick + 1
    BY <2>1, <2>2
  <2>8. /\ Sound(log', written', {}) /\ WholeInv'
        /\ log'.lastUpdatedTick = m.lastUpdatedTick /\ log'.current # NoRange
    BY <1>4, <2>2, <2>4, <2>5, <2>6, <2>7, BeginInv
  <2>9. Numbers'
    BY <1>1, <1>4, LogConstants DEF LogInv, Numbers, Phases, Running
  <2>10. PhaseInv'
    BY <1>1, <1>2, <1>4, <2>2, <2>8 DEF PhaseInv
  <2> QED
    BY <1>4, <2>8, <2>9, <2>10 DEF LogInv
<1> QED
  BY <1>1, <1>3, <1>4

\* A phase within the tick that is open.
LEMMA WithinTick ==
  ASSUME LogInv, phase \notin {"idle", "deploy", "late", "halted"}
  PROVE  /\ lastFinalizedTick = currentTick - 1 /\ log.lastUpdatedTick = currentTick - 1
         /\ currentTick = log.lastUpdatedTick + 1 /\ currentTick \in Int
BY DEF LogInv, PhaseInv, Numbers

\* How a tick starts, with its fees or with its contracts.
LEMMA TickInv ==
  ASSUME LogInv, NEW settles \in BOOLEAN, EnterTick(settles)
  PROVE  LogInv'
<1> DEFINE t == IF phase = "idle" THEN currentTick + 1 ELSE currentTick
<1>1. /\ (phase = "idle" /\ currentTick < MaxTick) \/ phase = "beginEpoch"
      /\ currentTick' = t /\ txCount' = 0
      /\ \/ Enter(log, t, LOG_SC_BEGIN_TICK, "settle")
         \/ Enter(log, t, LOG_SC_INITIALIZE, "construct")
         \/ Enter(log, t, LOG_SC_BEGIN_TICK, "beginTick")
      /\ UNCHANGED <<initialTick, lastFinalizedTick, pending, deferredEngineLogs, pruned>>
  BY DEF EnterTick, StartTick
<1>2. /\ t = log.lastUpdatedTick + 1 /\ log.lastUpdatedTick = lastFinalizedTick
      /\ t \in 0 .. MaxTick
  <2>1. currentTick \in 0 .. MaxTick /\ MaxTick \in Nat
    BY LogConstants DEF LogInv, Numbers
  <2>2. CASE phase = "idle" /\ currentTick < MaxTick
    BY <2>1, <2>2 DEF LogInv, PhaseInv
  <2>3. CASE phase = "beginEpoch"
    BY <2>1, <2>3 DEF LogInv, PhaseInv
  <2> QED
    BY <1>1, <2>2, <2>3
<1> HIDE DEF t
<1>3. ASSUME NEW x \in RangeIds \ Whole, NEW next \in {"settle", "construct", "beginTick"},
             Enter(log, t, x, next)
      PROVE  LogInv'
  <2>1. phase \in {"idle", "beginEpoch"}
    BY <1>1
  <2>2. /\ Sound(log', written', pruned) /\ WholeInv'
        /\ \/ phase' = "halted" /\ PhaseInv'
           \/ /\ phase' = next /\ log'.current # NoRange
              /\ log'.lastUpdatedTick = log.lastUpdatedTick
    BY <1>2, <1>3, <2>1, EnterOrdinary DEF Ordinary
  <2>3. Numbers'
    BY <1>1, <1>2, <2>2, LogConstants DEF LogInv, Numbers, Phases, Running
  <2>4. lastFinalizedTick' = currentTick' - 1 /\ log.lastUpdatedTick = currentTick' - 1
    <3>1. lastFinalizedTick \in Int
      BY DEF LogInv, Numbers
    <3> QED
      BY <1>1, <1>2, <3>1
  <2>5. PhaseInv'
    BY <2>2, <2>4 DEF PhaseInv
  <2> QED
    BY <1>1, <2>2, <2>3, <2>5 DEF LogInv
<1> QED
  BY <1>1, <1>3, Distinct

LEMMA BeginTickInv == LogInv /\ EnterBeginTick => LogInv'
<1> SUFFICES ASSUME LogInv, EnterBeginTick PROVE LogInv'
  OBVIOUS
<1>1. /\ phase = "construct" /\ pending' = FALSE
      /\ Enter(log, currentTick, LOG_SC_BEGIN_TICK, "beginTick")
      /\ UNCHANGED <<currentTick, initialTick, lastFinalizedTick, txCount, deferredEngineLogs, pruned>>
  BY DEF EnterBeginTick, tickVars
<1>2. /\ lastFinalizedTick = currentTick - 1 /\ log.lastUpdatedTick = currentTick - 1
      /\ currentTick \in Int
  BY <1>1 DEF LogInv, PhaseInv, Numbers
<1>3. currentTick = log.lastUpdatedTick + 1
  BY <1>2
<1>4. /\ Sound(log', written', pruned) /\ WholeInv'
      /\ \/ phase' = "halted" /\ PhaseInv'
         \/ /\ phase' = "beginTick" /\ log'.current # NoRange
            /\ log'.lastUpdatedTick = log.lastUpdatedTick
  BY <1>1, <1>3, Distinct, EnterOrdinary DEF Ordinary
<1>5. Numbers'
  BY <1>1, <1>4 DEF LogInv, Numbers, Phases, Running
<1>6. PhaseInv'
  BY <1>1, <1>2, <1>4 DEF PhaseInv
<1> QED
  BY <1>1, <1>4, <1>5, <1>6 DEF LogInv

LEMMA TransactionInv == LogInv /\ EnterTransaction => LogInv'
<1> SUFFICES ASSUME LogInv, EnterTransaction PROVE LogInv'
  OBVIOUS
<1> DEFINE index == IF phase = "transaction" THEN txCount + 1 ELSE txCount
<1>1. /\ phase \in {"beginTick", "transaction"}
      /\ ~(index >= TxsPerTick) /\ txCount' = index
      /\ Enter(log, NextLogTick, index, "transaction")
      /\ UNCHANGED <<currentTick, initialTick, lastFinalizedTick, pending, deferredEngineLogs, pruned>>
  BY DEF EnterTransaction, TickIsFull, tickVars
<1>2. index \in 0 .. TxsPerTick - 1
  BY <1>1, LogConstants DEF LogInv, Numbers
<1> HIDE DEF index
<1>3. /\ lastFinalizedTick = currentTick - 1 /\ log.lastUpdatedTick = currentTick - 1
      /\ NextLogTick = log.lastUpdatedTick + 1
  BY <1>1, NextLogTickIs DEF LogInv, PhaseInv
<1>4. index \in RangeIds \ Whole
  BY <1>2, Distinct
<1>5. /\ Sound(log', written', pruned) /\ WholeInv'
      /\ \/ phase' = "halted" /\ PhaseInv'
         \/ /\ phase' = "transaction" /\ log'.current # NoRange
            /\ log'.lastUpdatedTick = log.lastUpdatedTick
  BY <1>1, <1>3, <1>4, EnterOrdinary DEF Ordinary
<1>6. txCount' \in 0 .. TxsPerTick /\ txCount' < TxsPerTick
  BY <1>1, <1>2, LogConstants
<1>7. Numbers'
  BY <1>1, <1>5, <1>6 DEF LogInv, Numbers, Phases, Running
<1>8. PhaseInv'
  BY <1>1, <1>3, <1>5, <1>6 DEF PhaseInv
<1> QED
  BY <1>1, <1>5, <1>7, <1>8 DEF LogInv

LEMMA OraclePassInv == LogInv /\ EnterOraclePass => LogInv'
<1> SUFFICES ASSUME LogInv, EnterOraclePass PROVE LogInv'
  OBVIOUS
<1> DEFINE next == CommitsLeft(deferredEngineLogs)
<1>1. /\ phase \in {"beginTick", "transaction"}
      /\ txCount' = (IF phase = "transaction" THEN txCount + 1 ELSE txCount)
      /\ Enter(log, currentTick, LOG_SC_NOTIFICATION, next)
      /\ UNCHANGED <<currentTick, initialTick, lastFinalizedTick, pending, deferredEngineLogs, pruned>>
  BY DEF EnterOraclePass, tickVars
<1>2. /\ lastFinalizedTick = currentTick - 1 /\ log.lastUpdatedTick = currentTick - 1
      /\ currentTick = log.lastUpdatedTick + 1
  BY <1>1, WithinTick
<1>3. /\ next \in {"commits", "oracle"}
      /\ next = "commits" => deferredEngineLogs > 0
  BY DEF CommitsLeft, LogInv, Numbers
<1> HIDE DEF next
<1>4. /\ OpenUnder(log, written, LOG_SC_NOTIFICATION) = {}
      /\ OpenUnder(log, written, LOG_SC_END_TICK) = {}
  BY <1>1, NothingYet DEF LogInv
<1>5. LOG_SC_NOTIFICATION \in Whole /\ LOG_SC_NOTIFICATION \in RangeIds
  BY Distinct DEF Whole
<1>6. Leads(log, written, LOG_SC_NOTIFICATION, next)
  <2>1. IsTail(log, written, LOG_SC_NOTIFICATION)
    BY <1>4 DEF IsTail
  <2>2. next \in PhaseOf(LOG_SC_NOTIFICATION)
    BY <1>3, PhasesOf
  <2> QED
    BY <1>4, <1>5, <2>1, <2>2, WholeLeads
<1>7. /\ Sound(log', written', pruned) /\ WholeInv'
      /\ \/ phase' = "halted" /\ PhaseInv'
         \/ /\ phase' = next /\ log'.current # NoRange
            /\ log'.lastUpdatedTick = log.lastUpdatedTick
  BY <1>1, <1>2, <1>5, <1>6, EnterInv DEF LogInv
<1>8. Numbers'
  <2>1. txCount' \in 0 .. TxsPerTick
    BY <1>1, LogConstants DEF LogInv, Numbers, PhaseInv
  <2>2. phase' \in Phases
    BY <1>3, <1>7 DEF Phases, Running
  <2> QED
    BY <1>1, <2>1, <2>2 DEF LogInv, Numbers
<1>9. PhaseInv'
  BY <1>1, <1>2, <1>3, <1>7 DEF PhaseInv
<1> QED
  BY <1>1, <1>7, <1>8, <1>9 DEF LogInv

\* A record, and one after the last that waited.
LEMMA AppendInv ==
  ASSUME LogInv, NEW size \in Nat, NEW digested \in BOOLEAN,
         Writes(AppendLog(log, size, digested)),
         \/ phase' = phase
         \/ phase = "commits" /\ phase' \in {"commits", "oracle"}
  PROVE  /\ Sound(log', written', pruned) /\ WholeInv'
         /\ log'.current = log.current /\ log'.lastUpdatedTick = log.lastUpdatedTick
         /\ log.overflowed => log'.overflowed
<1> DEFINE a == AppendLog(log, size, digested)  v == History(written, a)
<1>1. log' = a /\ written' = v
  BY WritesIs
<1>2. Sound(a, v, pruned) /\ Grows(log, written, a, v)
  BY OpenIsLast, AppendGrows DEF LogInv
<1> HIDE DEF a, v
<1>3. \A y \in Whole : phase' \in PhaseOf(y) <=> phase \in PhaseOf(y)
  BY PhasesOf, Distinct DEF Whole
<1>4. \A y \in Whole :
        /\ a.current # NoRange /\ a.current.txId = y <=> phase' \in PhaseOf(y)
        /\ phase' \in PhaseOf(y) => IsTail(a, v, y)
  BY <1>2, <1>3 DEF Grows, LogInv, WholeInv
<1>5. LOG_SC_NOTIFICATION \in Whole /\ LOG_SC_END_TICK \in Whole
  BY DEF Whole
<1>6. OpenUnder(a, v, LOG_SC_NOTIFICATION) # {} =>
        phase' \in {"commits", "oracle", "deliver", "endTick", "halted"}
  <2>1. SUFFICES ASSUME OpenUnder(a, v, LOG_SC_NOTIFICATION) # {}
                 PROVE  phase' \in {"commits", "oracle", "deliver", "endTick", "halted"}
    OBVIOUS
  <2>2. \/ OpenUnder(log, written, LOG_SC_NOTIFICATION) # {}
        \/ log.current # NoRange /\ log.current.txId = LOG_SC_NOTIFICATION
    BY <1>2, <2>1 DEF Grows
  <2>3. phase \in {"commits", "oracle", "deliver", "endTick", "halted"}
    BY <1>5, <2>2, PhasesOf DEF LogInv, WholeInv
  <2> QED
    BY <2>3
<1>7. OpenUnder(a, v, LOG_SC_END_TICK) # {} => phase' \in {"endTick", "halted"}
  <2>1. SUFFICES ASSUME OpenUnder(a, v, LOG_SC_END_TICK) # {}
                 PROVE  phase' \in {"endTick", "halted"}
    OBVIOUS
  <2>2. \/ OpenUnder(log, written, LOG_SC_END_TICK) # {}
        \/ log.current # NoRange /\ log.current.txId = LOG_SC_END_TICK
    BY <1>2, <2>1 DEF Grows
  <2>3. phase \in {"endTick", "halted"}
    BY <1>5, <2>2, PhasesOf DEF LogInv, WholeInv
  <2> QED
    BY <2>3
<1>8. WholeInv'
  BY <1>1, <1>4, <1>6, <1>7 DEF WholeInv
<1> QED
  BY <1>1, <1>2, <1>8 DEF Grows

LEMMA SettleInv == LogInv /\ Settle => LogInv'
<1> SUFFICES ASSUME LogInv, Settle PROVE LogInv'
  OBVIOUS
<1> DEFINE a == AppendLog(log, 1, FALSE)  v == History(written, a)
<1>1. /\ phase = "settle"
      /\ \/ Writes(a) /\ phase' = phase
         \/ Enter(a, currentTick, LOG_SC_INITIALIZE, "construct")
         \/ Enter(a, currentTick, LOG_SC_BEGIN_TICK, "beginTick")
      /\ UNCHANGED <<currentTick, initialTick, lastFinalizedTick, txCount, pending,
                     deferredEngineLogs, pruned>>
  BY DEF Settle, StartTick, tickVars
<1>2. /\ lastFinalizedTick = currentTick - 1 /\ log.lastUpdatedTick = currentTick - 1
      /\ currentTick \in Int
  BY <1>1, WithinTick
<1>3. CASE Writes(a) /\ phase' = phase
  <2>1. /\ Sound(log', written', pruned) /\ WholeInv'
        /\ log'.current = log.current /\ log'.lastUpdatedTick = log.lastUpdatedTick
    BY <1>3, AppendInv
  <2>2. Numbers' /\ PhaseInv'
    BY <1>1, <1>3, <2>1 DEF LogInv, Numbers, PhaseInv
  <2> QED
    BY <1>1, <2>1, <2>2 DEF LogInv
<1>4. ASSUME NEW x \in RangeIds \ Whole, NEW next \in {"construct", "beginTick"},
             Enter(a, currentTick, x, next)
      PROVE  LogInv'
  <2>1. Sound(a, v, pruned) /\ Grows(log, written, a, v)
    BY OpenIsLast, AppendGrows DEF LogInv
  <2>2. v = History(written, a)
    OBVIOUS
  <2> HIDE DEF a, v
  <2>3. currentTick = a.lastUpdatedTick + 1 /\ a.lastUpdatedTick = currentTick - 1
    BY <1>2, <2>1 DEF Grows
  <2>4. /\ OpenUnder(a, v, LOG_SC_NOTIFICATION) = {}
        /\ OpenUnder(a, v, LOG_SC_END_TICK) = {}
    <3>1. \A y \in Whole : ~(log.current # NoRange /\ log.current.txId = y)
      BY <1>1, PhasesOf DEF LogInv, WholeInv
    <3>2. LOG_SC_NOTIFICATION \in Whole /\ LOG_SC_END_TICK \in Whole
      BY DEF Whole
    <3>3. /\ OpenUnder(log, written, LOG_SC_NOTIFICATION) = {}
          /\ OpenUnder(log, written, LOG_SC_END_TICK) = {}
      BY <1>1, NothingYet DEF LogInv
    <3> QED
      BY <2>1, <3>1, <3>2, <3>3 DEF Grows
  <2>5. Leads(a, v, x, next)
    BY <2>4, OrdinaryLeads
  <2>6. /\ Sound(log', written', pruned) /\ WholeInv'
        /\ \/ phase' = "halted" /\ PhaseInv'
           \/ /\ phase' = next /\ log'.current # NoRange
              /\ log'.lastUpdatedTick = a.lastUpdatedTick
    BY <1>4, <2>1, <2>2, <2>3, <2>5, EnterFromInv
  <2>7. Numbers'
    BY <1>1, <2>6 DEF LogInv, Numbers, Phases, Running
  <2>8. PhaseInv'
    BY <1>1, <1>2, <2>3, <2>6 DEF PhaseInv
  <2> QED
    BY <1>1, <2>6, <2>7, <2>8 DEF LogInv
<1> QED
  BY <1>1, <1>3, <1>4, Distinct

LEMMA WriteCommitInv == LogInv /\ WriteCommit => LogInv'
<1> SUFFICES ASSUME LogInv, WriteCommit PROVE LogInv'
  OBVIOUS
<1>1. /\ phase = "commits" /\ Writes(AppendLog(log, 1, FALSE))
      /\ deferredEngineLogs' = deferredEngineLogs - 1
      /\ phase' = CommitsLeft(deferredEngineLogs - 1)
      /\ UNCHANGED <<currentTick, initialTick, lastFinalizedTick, txCount, pending, pruned>>
  BY DEF WriteCommit, tickVars
<1>2. /\ deferredEngineLogs' \in 0 .. MaxDeferred
      /\ phase' \in {"commits", "oracle"}
      /\ phase' = "commits" => deferredEngineLogs' > 0
  <2>1. deferredEngineLogs \in 1 .. MaxDeferred /\ MaxDeferred \in Nat
    BY <1>1, LogConstants DEF LogInv, Numbers, PhaseInv
  <2> QED
    BY <1>1, <2>1 DEF CommitsLeft
<1>3. /\ Sound(log', written', pruned) /\ WholeInv'
      /\ log'.current = log.current /\ log'.lastUpdatedTick = log.lastUpdatedTick
  BY <1>1, <1>2, AppendInv
<1>4. Numbers'
  BY <1>1, <1>2 DEF LogInv, Numbers, Phases, Running
<1>5. PhaseInv'
  BY <1>1, <1>2, <1>3 DEF LogInv, PhaseInv
<1> QED
  BY <1>1, <1>3, <1>4, <1>5 DEF LogInv

LEMMA DeliveryInv == LogInv /\ EnterDelivery => LogInv'
<1> SUFFICES ASSUME LogInv, EnterDelivery PROVE LogInv'
  OBVIOUS
<1>1. /\ phase = "oracle" /\ Enter(log, currentTick, LOG_SC_NOTIFICATION, "deliver")
      /\ UNCHANGED <<currentTick, initialTick, lastFinalizedTick, txCount, pending,
                     deferredEngineLogs, pruned>>
  BY DEF EnterDelivery, tickVars
<1>2. /\ lastFinalizedTick = currentTick - 1 /\ log.lastUpdatedTick = currentTick - 1
      /\ currentTick = log.lastUpdatedTick + 1
  BY <1>1, WithinTick
<1>3. LOG_SC_NOTIFICATION \in Whole /\ LOG_SC_NOTIFICATION \in RangeIds
  BY Distinct DEF Whole
<1>4. Leads(log, written, LOG_SC_NOTIFICATION, "deliver")
  <2>1. phase \in PhaseOf(LOG_SC_NOTIFICATION) /\ "deliver" \in PhaseOf(LOG_SC_NOTIFICATION)
    BY <1>1, PhasesOf
  <2>2. IsTail(log, written, LOG_SC_NOTIFICATION) /\ OpenUnder(log, written, LOG_SC_END_TICK) = {}
    BY <1>1, <1>3, <2>1 DEF LogInv, WholeInv
  <2> QED
    BY <1>3, <2>1, <2>2, WholeLeads
<1>5. /\ Sound(log', written', pruned) /\ WholeInv'
      /\ \/ phase' = "halted" /\ PhaseInv'
         \/ /\ phase' = "deliver" /\ log'.current # NoRange
            /\ log'.lastUpdatedTick = log.lastUpdatedTick
  BY <1>1, <1>2, <1>3, <1>4, EnterInv DEF LogInv
<1>6. Numbers'
  BY <1>1, <1>5 DEF LogInv, Numbers, Phases, Running
<1>7. PhaseInv'
  BY <1>1, <1>2, <1>5 DEF PhaseInv
<1> QED
  BY <1>1, <1>5, <1>6, <1>7 DEF LogInv

LEMMA EndTickInv == LogInv /\ EnterEndTick => LogInv'
<1> SUFFICES ASSUME LogInv, EnterEndTick PROVE LogInv'
  OBVIOUS
<1>1. /\ phase \in {"oracle", "deliver"} /\ Enter(log, currentTick, LOG_SC_END_TICK, "endTick")
      /\ UNCHANGED <<currentTick, initialTick, lastFinalizedTick, txCount, pending,
                     deferredEngineLogs, pruned>>
  BY DEF EnterEndTick, tickVars
<1>2. /\ lastFinalizedTick = currentTick - 1 /\ log.lastUpdatedTick = currentTick - 1
      /\ currentTick = log.lastUpdatedTick + 1
  BY <1>1, WithinTick
<1>3. LOG_SC_END_TICK \in Whole /\ LOG_SC_END_TICK \in RangeIds
  BY Distinct DEF Whole
<1>4. Leads(log, written, LOG_SC_END_TICK, "endTick")
  <2>1. OpenUnder(log, written, LOG_SC_END_TICK) = {}
    BY <1>1 DEF LogInv, WholeInv
  <2>2. IsTail(log, written, LOG_SC_END_TICK) /\ "endTick" \in PhaseOf(LOG_SC_END_TICK)
    BY <2>1, PhasesOf DEF IsTail
  <2> QED
    BY <1>3, <2>2, WholeLeads
<1>5. /\ Sound(log', written', pruned) /\ WholeInv'
      /\ \/ phase' = "halted" /\ PhaseInv'
         \/ /\ phase' = "endTick" /\ log'.current # NoRange
            /\ log'.lastUpdatedTick = log.lastUpdatedTick
  BY <1>1, <1>2, <1>3, <1>4, EnterInv DEF LogInv
<1>6. Numbers'
  BY <1>1, <1>5 DEF LogInv, Numbers, Phases, Running
<1>7. PhaseInv'
  BY <1>1, <1>2, <1>5 DEF PhaseInv
<1> QED
  BY <1>1, <1>5, <1>6, <1>7 DEF LogInv

LEMMA FinishTickInv == LogInv /\ FinishTick => LogInv'
<1> SUFFICES ASSUME LogInv, FinishTick PROVE LogInv'
  OBVIOUS
<1> DEFINE e == End(log)  k == FinalizeTick(e, currentTick)
<1>1. /\ phase = "endTick"
      /\ \/ FinalizeThrows(log, currentTick) /\ Halt(log) /\ UNCHANGED lastFinalizedTick
         \/ Writes(k) /\ phase' = "idle" /\ lastFinalizedTick' = currentTick
      /\ UNCHANGED <<currentTick, initialTick, txCount, pending, deferredEngineLogs, pruned>>
  BY DEF FinishTick
<1>2. /\ log.lastUpdatedTick = currentTick - 1 /\ currentTick = log.lastUpdatedTick + 1
  BY <1>1, WithinTick
<1>3. Sound(log, written, pruned) /\ History(written, log) = written
  BY HistoryKept DEF LogInv, Sound, IsStore
<1>4. CASE FinalizeThrows(log, currentTick) /\ Halt(log) /\ UNCHANGED lastFinalizedTick
  <2>1. log.overflowed
    BY <1>2, <1>3, <1>4, OnlyOverflowThrows
  <2>2. /\ Sound(log', written', pruned) /\ WholeInv' /\ PhaseInv' /\ phase' = "halted"
    BY <1>3, <1>4, <2>1, HaltInv
  <2>3. Numbers'
    BY <1>1, <1>4, <2>2 DEF LogInv, Numbers, Phases
  <2> QED
    BY <1>1, <2>2, <2>3 DEF LogInv
<1>5. CASE Writes(k) /\ phase' = "idle" /\ lastFinalizedTick' = currentTick
  <2>1. Sound(e, written, pruned) /\ SameLog(log, e) /\ e.current = NoRange
    BY <1>3, EndSound
  <2> HIDE DEF e
  <2>2. e.records = log.records /\ currentTick = e.lastUpdatedTick + 1
    BY <1>2, <2>1 DEF SameLog
  <2>3. /\ Sound(k, written, pruned) /\ k.records = e.records
        /\ k.current = NoRange /\ k.lastUpdatedTick = currentTick
        /\ k.finalizedLogCount = Len(e.records)
    BY <2>1, <2>2, FinalizeSound
  <2> HIDE DEF k
  <2>4. log' = k /\ written' = written
    BY <1>3, <1>5, <2>2, <2>3, WritesIs, HistorySame
  <2>5. \A x : OpenUnder(k, written, x) = {}
    <3>1. Open(k) = {}
      BY <2>3 DEF Open, Sound, IsStore
    <3> QED
      BY <3>1 DEF OpenUnder
  <2>6. WholeInv'
    BY <1>5, <2>3, <2>4, <2>5, PhasesOf DEF WholeInv
  <2>7. Numbers'
    BY <1>1, <1>5 DEF LogInv, Numbers, Phases
  <2>8. PhaseInv'
    BY <1>1, <1>5, <2>3, <2>4 DEF PhaseInv
  <2> QED
    BY <1>1, <2>3, <2>4, <2>6, <2>7, <2>8 DEF LogInv
<1> QED
  BY <1>1, <1>4, <1>5

\* What keeps the records and opens no range.
LEMMA WholeKept ==
  ASSUME WholeInv, NEW k, k.current = NoRange,
         Len(k.records) = Len(log.records), k.finalizedLogCount = log.finalizedLogCount,
         log' = k, written' = written, phase \in {"idle", "deploy", "late"}, phase' = "idle"
  PROVE  WholeInv'
<1>1. /\ OpenUnder(k, written, LOG_SC_NOTIFICATION) = {}
      /\ OpenUnder(k, written, LOG_SC_END_TICK) = {}
  BY NothingYet, OpenAgrees
<1> QED
  BY <1>1, PhasesOf DEF WholeInv

LEMMA DeployDeferredInv == LogInv /\ DeployDeferred => LogInv'
<1> SUFFICES ASSUME LogInv, DeployDeferred PROVE LogInv'
  OBVIOUS
<1> DEFINE b == Begin(log, NextLogTick, LOG_SC_INITIALIZE)  k == End(b)
<1>1. /\ phase = "idle" /\ log' = k /\ pending' = TRUE
      /\ UNCHANGED <<currentTick, initialTick, lastFinalizedTick, phase, txCount,
                     deferredEngineLogs, written, pruned>>
  BY DEF DeployDeferred, tickVars
<1>2. NextLogTick = log.lastUpdatedTick + 1 /\ log.current = NoRange
  BY <1>1, NextLogTickIs DEF LogInv, PhaseInv
<1>3. /\ Sound(b, written, pruned) /\ b.records = log.records
      /\ b.lastUpdatedTick = log.lastUpdatedTick
      /\ b.finalizedLogCount = log.finalizedLogCount
      /\ b.current = [tick |-> NextLogTick, txId |-> LOG_SC_INITIALIZE]
  <2>1. Sound(log, written, pruned) /\ LOG_SC_INITIALIZE \in RangeIds
    BY Distinct DEF LogInv
  <2> QED
    BY <1>2, <2>1, BeginSound
<1> HIDE DEF b
<1>4. Sound(k, written, pruned) /\ SameLog(b, k) /\ k.current = NoRange
  BY <1>3, EndSound
<1> HIDE DEF k
<1>5. /\ k.records = log.records /\ k.finalizedLogCount = log.finalizedLogCount
      /\ k.lastUpdatedTick = log.lastUpdatedTick
  BY <1>3, <1>4 DEF SameLog
<1>6. WholeInv'
  BY <1>1, <1>4, <1>5, WholeKept DEF LogInv
<1>7. Numbers'
  BY <1>1 DEF LogInv, Numbers
<1>8. PhaseInv'
  BY <1>1, <1>4, <1>5 DEF LogInv, PhaseInv
<1> QED
  BY <1>1, <1>4, <1>6, <1>7, <1>8 DEF LogInv

LEMMA DeployInv == LogInv /\ EnterDeploy => LogInv'
<1> SUFFICES ASSUME LogInv, EnterDeploy PROVE LogInv'
  OBVIOUS
<1>1. /\ phase = "idle" /\ Enter(log, NextLogTick, LOG_SC_INITIALIZE, "deploy")
      /\ UNCHANGED <<currentTick, initialTick, lastFinalizedTick, txCount, pending,
                     deferredEngineLogs, pruned>>
  BY DEF EnterDeploy, tickVars
<1>2. /\ NextLogTick = log.lastUpdatedTick + 1
      /\ lastFinalizedTick = currentTick /\ log.lastUpdatedTick = currentTick
  BY <1>1, NextLogTickIs DEF LogInv, PhaseInv
<1>3. /\ Sound(log', written', pruned) /\ WholeInv'
      /\ \/ phase' = "halted" /\ PhaseInv'
         \/ /\ phase' = "deploy" /\ log'.current # NoRange
            /\ log'.lastUpdatedTick = log.lastUpdatedTick
  BY <1>1, <1>2, Distinct, EnterOrdinary DEF Ordinary
<1>4. Numbers'
  BY <1>1, <1>3 DEF LogInv, Numbers, Phases, Running
<1>5. PhaseInv'
  BY <1>1, <1>2, <1>3 DEF PhaseInv
<1> QED
  BY <1>1, <1>3, <1>4, <1>5 DEF LogInv

LEMMA LateTransactionInv == LogInv /\ EnterLateTransaction => LogInv'
<1> SUFFICES ASSUME LogInv, EnterLateTransaction PROVE LogInv'
  OBVIOUS
<1>1. /\ phase = "idle" /\ ~(txCount >= TxsPerTick) /\ Enter(log, NextLogTick, txCount, "late")
      /\ UNCHANGED <<currentTick, initialTick, lastFinalizedTick, txCount, pending,
                     deferredEngineLogs, pruned>>
  BY DEF EnterLateTransaction, TickIsFull, tickVars
<1>2. /\ NextLogTick = log.lastUpdatedTick + 1
      /\ lastFinalizedTick = currentTick /\ log.lastUpdatedTick = currentTick
  BY <1>1, NextLogTickIs DEF LogInv, PhaseInv
<1>3. txCount \in 0 .. TxsPerTick - 1 /\ txCount < TxsPerTick
  BY <1>1, LogConstants DEF LogInv, Numbers
<1>4. txCount \in RangeIds \ Whole
  BY <1>3, Distinct
<1>5. /\ Sound(log', written', pruned) /\ WholeInv'
      /\ \/ phase' = "halted" /\ PhaseInv'
         \/ /\ phase' = "late" /\ log'.current # NoRange
            /\ log'.lastUpdatedTick = log.lastUpdatedTick
  BY <1>1, <1>2, <1>4, EnterOrdinary DEF Ordinary
<1>6. Numbers'
  BY <1>1, <1>5 DEF LogInv, Numbers, Phases, Running
<1>7. PhaseInv'
  BY <1>1, <1>2, <1>3, <1>5 DEF PhaseInv
<1> QED
  BY <1>1, <1>5, <1>6, <1>7 DEF LogInv

LEMMA FinishCallInv == LogInv /\ FinishCall => LogInv'
<1> SUFFICES ASSUME LogInv, FinishCall PROVE LogInv'
  OBVIOUS
<1> DEFINE k == End(log)
<1>1. /\ phase \in {"deploy", "late"} /\ Writes(k) /\ phase' = "idle"
      /\ txCount' = (IF phase = "late" THEN txCount + 1 ELSE txCount)
      /\ UNCHANGED <<currentTick, initialTick, lastFinalizedTick, pending,
                     deferredEngineLogs, pruned>>
  BY DEF FinishCall, tickVars
<1>2. Sound(log, written, pruned) /\ History(written, log) = written
  BY HistoryKept DEF LogInv, Sound, IsStore
<1>3. Sound(k, written, pruned) /\ SameLog(log, k) /\ k.current = NoRange
  BY <1>2, EndSound
<1> HIDE DEF k
<1>4. /\ k.records = log.records /\ k.finalizedLogCount = log.finalizedLogCount
      /\ k.lastUpdatedTick = log.lastUpdatedTick
  BY <1>3 DEF SameLog
<1>5. log' = k /\ written' = written
  BY <1>1, <1>2, <1>4, WritesIs, HistorySame
<1>6. WholeInv'
  BY <1>1, <1>3, <1>4, <1>5, WholeKept DEF LogInv
<1>7. Numbers'
  <2>1. txCount' \in 0 .. TxsPerTick
    BY <1>1, LogConstants DEF LogInv, Numbers, PhaseInv
  <2> QED
    BY <1>1, <2>1 DEF LogInv, Numbers, Phases
<1>8. PhaseInv'
  BY <1>1, <1>3, <1>4, <1>5 DEF LogInv, PhaseInv
<1> QED
  BY <1>1, <1>3, <1>5, <1>6, <1>7, <1>8 DEF LogInv

LEMMA LogStepInv ==
  ASSUME LogInv, NEW kind \in Kinds, Log(kind[1], kind[2])
  PROVE  LogInv'
<1>1. /\ Writes(AppendLog(log, kind[1], kind[2])) /\ phase' = phase
      /\ UNCHANGED <<currentTick, initialTick, lastFinalizedTick, txCount, pending,
                     deferredEngineLogs, pruned>>
      /\ phase \in Running
  BY DEF Log, tickVars
<1>2. kind[1] \in Nat /\ kind[2] \in BOOLEAN
  BY LogConstants
<1>3. /\ Sound(log', written', pruned) /\ WholeInv'
      /\ log'.current = log.current /\ log'.lastUpdatedTick = log.lastUpdatedTick
  BY <1>1, <1>2, AppendInv
<1>4. Numbers'
  BY <1>1 DEF LogInv, Numbers
<1>5. PhaseInv'
  BY <1>1, <1>3 DEF LogInv, PhaseInv, Running
<1> QED
  BY <1>1, <1>3, <1>4, <1>5 DEF LogInv

\* A store that another one takes the place of, with the same ranges open.
LEMMA ReplacedInv ==
  ASSUME LogInv, NEW k, NEW pr, Sound(k, written, pr),
         Len(k.records) = Len(log.records), k.finalizedLogCount = log.finalizedLogCount,
         k.current = log.current, k.lastUpdatedTick = log.lastUpdatedTick,
         k.overflowed = log.overflowed, log' = k, pruned' = pr,
         UNCHANGED <<currentTick, initialTick, lastFinalizedTick, phase, txCount, pending,
                     deferredEngineLogs, written>>
  PROVE  LogInv'
<1>1. /\ \A x : OpenUnder(k, written, x) = OpenUnder(log, written, x)
      /\ \A x : IsTail(k, written, x) <=> IsTail(log, written, x)
  BY OpenAgrees
<1>2. WholeInv'
  BY <1>1 DEF LogInv, WholeInv
<1>3. Numbers'
  BY DEF LogInv, Numbers
<1>4. PhaseInv'
  BY DEF LogInv, PhaseInv
<1> QED
  BY <1>2, <1>3, <1>4 DEF LogInv

LEMMA PauseInv ==
  ASSUME LogInv, NEW on \in BOOLEAN, Pause(on)
  PROVE  LogInv'
<1> DEFINE k == [log EXCEPT !.paused = on]
<1>1. /\ log' = k
      /\ UNCHANGED <<currentTick, initialTick, lastFinalizedTick, phase, txCount, pending,
                     deferredEngineLogs, written, pruned>>
  BY DEF Pause, tickVars
<1>2. Sound(k, written, pruned) /\ SameLog(log, k) /\ k.current = log.current
  BY PausedSound DEF LogInv
<1> HIDE DEF k
<1> QED
  BY <1>1, <1>2, ReplacedInv DEF SameLog

LEMMA CommitInv == LogInv /\ Commit => LogInv'
<1> SUFFICES ASSUME LogInv, Commit PROVE LogInv'
  OBVIOUS
<1>1. /\ phase = "idle" /\ deferredEngineLogs < MaxDeferred
      /\ deferredEngineLogs' = deferredEngineLogs + 1
      /\ UNCHANGED <<log, currentTick, initialTick, lastFinalizedTick, phase, txCount, pending,
                     written, pruned>>
  BY DEF Commit, tickVars
<1>2. Numbers'
  BY <1>1, LogConstants DEF LogInv, Numbers
<1>3. PhaseInv' /\ WholeInv'
  BY <1>1 DEF LogInv, PhaseInv, WholeInv
<1> QED
  BY <1>1, <1>2, <1>3 DEF LogInv

LEMMA PruneInv ==
  ASSUME LogInv, NEW from \in Int, NEW to \in Int, Prune(from, to)
  PROVE  LogInv'
<1> DEFINE k == PruneLog(log, from, to)
<1>1. /\ MayPrune(log, from, to) /\ log' = k /\ pruned' = pruned \cup (from .. to)
      /\ UNCHANGED <<currentTick, initialTick, lastFinalizedTick, phase, txCount, pending,
                     deferredEngineLogs, written>>
  BY DEF Prune, tickVars
<1>2. /\ Sound(k, written, pruned \cup (from .. to)) /\ Len(k.records) = Len(log.records)
      /\ \A f \in Fields \ {"records", "retainedBytes"} : k[f] = log[f]
  BY <1>1, PruneSound DEF LogInv
<1> HIDE DEF k
<1>3. /\ k.finalizedLogCount = log.finalizedLogCount /\ k.current = log.current
      /\ k.lastUpdatedTick = log.lastUpdatedTick /\ k.overflowed = log.overflowed
  BY <1>2 DEF Fields
<1> QED
  BY <1>1, <1>2, <1>3, ReplacedInv

\* The invariant of the log and the simulator is inductive.
LEMMA NextInv == LogInv /\ [Next]_vars => LogInv'
<1> SUFFICES ASSUME LogInv, [Next]_vars PROVE LogInv'
  OBVIOUS
<1>1. CASE EnterEndEpoch
  BY <1>1, EndEpochInv
<1>2. CASE EnterBeginEpoch
  BY <1>2, BeginEpochInv
<1>3. CASE \E settles \in BOOLEAN : EnterTick(settles)
  BY <1>3, TickInv
<1>4. CASE EnterBeginTick
  BY <1>4, BeginTickInv
<1>5. CASE EnterTransaction
  BY <1>5, TransactionInv
<1>6. CASE EnterOraclePass
  BY <1>6, OraclePassInv
<1>7. CASE WriteCommit
  BY <1>7, WriteCommitInv
<1>8. CASE EnterDelivery
  BY <1>8, DeliveryInv
<1>9. CASE EnterEndTick
  BY <1>9, EndTickInv
<1>10. CASE FinishTick
  BY <1>10, FinishTickInv
<1>11. CASE DeployDeferred
  BY <1>11, DeployDeferredInv
<1>12. CASE EnterDeploy
  BY <1>12, DeployInv
<1>13. CASE EnterLateTransaction
  BY <1>13, LateTransactionInv
<1>14. CASE FinishCall
  BY <1>14, FinishCallInv
<1>15. CASE \E kind \in Kinds : Log(kind[1], kind[2])
  BY <1>15, LogStepInv
<1>16. CASE \E on \in BOOLEAN : Pause(on)
  BY <1>16, PauseInv
<1>17. CASE Commit
  BY <1>17, CommitInv
<1>18. CASE \E from, to \in 0 .. MaxRecords : Prune(from, to)
  <2>1. PICK from \in 0 .. MaxRecords, to \in 0 .. MaxRecords : Prune(from, to)
    BY <1>18
  <2>2. from \in Int /\ to \in Int
    BY LogConstants
  <2> QED
    BY <2>1, <2>2, PruneInv
<1>19. CASE Settle
  BY <1>19, SettleInv
<1>20. CASE UNCHANGED vars
  BY <1>20 DEF vars, tickVars, LogInv, Numbers, PhaseInv, WholeInv
<1> QED
  BY <1>1, <1>2, <1>3, <1>4, <1>5, <1>6, <1>7, <1>8, <1>9, <1>10, <1>11, <1>12, <1>13, <1>14,
     <1>15, <1>16, <1>17, <1>18, <1>19, <1>20 DEF Next

LEMMA LogInvHolds == Spec => []LogInv
BY InitInv, NextInv, PTL DEF Spec
-----------------------------------------------------------------------------
(* BEGIN_TICK's range, which is opened for the fees and for the contracts. *)

\* What may stand behind a record of BEGIN_TICK's range, and before another of it.
Together(w, i, j) ==
  w[j].tick = w[i].tick /\ w[j].txId \in {LOG_SC_BEGIN_TICK, LOG_SC_INITIALIZE}

Begins(w, i) == w[i].txId = LOG_SC_BEGIN_TICK

SplitByConstruction(w) ==
  \A i, j, n \in 1 .. Len(w) :
    i <= j /\ j <= n /\ Begins(w, i) /\ Begins(w, n) /\ w[n].tick = w[i].tick => Together(w, i, j)

\* The records of tick t that follow the first of BEGIN_TICK's, and that there is none.
EndsTogether(w, t) ==
  \A i, j \in 1 .. Len(w) : i <= j /\ Begins(w, i) /\ w[i].tick = t => Together(w, i, j)
NotBegun(w, t) == \A i \in 1 .. Len(w) : Begins(w, i) => w[i].tick < t

Early == {"idle", "deploy", "late", "endEpoch", "beginEpoch"}
Starting == {"settle", "construct", "beginTick"}

SplitInv ==
  /\ SplitByConstruction(written)
  /\ phase \in Early => NotBegun(written, log.lastUpdatedTick + 1)
  /\ phase \in Starting => EndsTogether(written, log.lastUpdatedTick + 1)
  /\ log.current # NoRange =>
       /\ log.current.txId = LOG_SC_BEGIN_TICK <=> phase \in {"settle", "beginTick"}
       /\ phase = "construct" => log.current.txId = LOG_SC_INITIALIZE

\* The first records of a history.
LEMMA PrefixSplit ==
  ASSUME NEW w, NEW v, Len(w) \in Nat, Len(v) \in Nat, Len(v) <= Len(w),
         \A p \in 1 .. Len(v) : v[p] = w[p], NEW t
  PROVE  /\ SplitByConstruction(w) => SplitByConstruction(v)
         /\ EndsTogether(w, t) => EndsTogether(v, t)
         /\ NotBegun(w, t) => NotBegun(v, t)
<1>1. \A p \in 1 .. Len(v) : p \in 1 .. Len(w)
  OBVIOUS
<1>2. \A i \in 1 .. Len(v) : Begins(v, i) <=> Begins(w, i)
  BY DEF Begins
<1>3. \A i, j \in 1 .. Len(v) : Together(v, i, j) <=> Together(w, i, j)
  BY DEF Together
<1>4. SplitByConstruction(w) => SplitByConstruction(v)
  BY <1>1, <1>2, <1>3 DEF SplitByConstruction
<1>5. EndsTogether(w, t) => EndsTogether(v, t)
  BY <1>1, <1>2, <1>3 DEF EndsTogether
<1>6. NotBegun(w, t) => NotBegun(v, t)
  BY <1>1, <1>2 DEF NotBegun
<1> QED
  BY <1>4, <1>5, <1>6

\* One more record of the tick that is open.
LEMMA PushedSplit ==
  ASSUME NEW w \in Seq(Record), NEW record \in Record, NEW t, record.tick = t,
         SplitByConstruction(w), record.txId = LOG_SC_BEGIN_TICK => EndsTogether(w, t)
  PROVE  LET v == Append(w, record) IN
         /\ SplitByConstruction(v)
         /\ /\ EndsTogether(w, t)
            /\ record.txId \in {LOG_SC_BEGIN_TICK, LOG_SC_INITIALIZE}
            => EndsTogether(v, t)
         /\ NotBegun(w, t) /\ record.txId # LOG_SC_BEGIN_TICK => NotBegun(v, t)
<1> DEFINE v == Append(w, record)  m == Len(w)
<1>1. m \in Nat /\ Len(v) = m + 1 /\ v[m + 1] = record /\ \A p \in 1 .. m : v[p] = w[p]
  OBVIOUS
<1>2. /\ \A i \in 1 .. m : Begins(v, i) <=> Begins(w, i)
      /\ Begins(v, m + 1) <=> record.txId = LOG_SC_BEGIN_TICK
  BY <1>1 DEF Begins
<1>3. \A i, j \in 1 .. m : Together(v, i, j) <=> Together(w, i, j)
  BY <1>1 DEF Together
<1> HIDE DEF v, m
<1>4. SplitByConstruction(v)
  <2> SUFFICES ASSUME NEW i \in 1 .. m + 1, NEW j \in 1 .. m + 1, NEW n \in 1 .. m + 1,
                      i <= j, j <= n, Begins(v, i), Begins(v, n), v[n].tick = v[i].tick
               PROVE  Together(v, i, j)
    BY <1>1 DEF SplitByConstruction
  <2>1. CASE n \in 1 .. m
    <3>1. i \in 1 .. m /\ j \in 1 .. m
      BY <1>1, <2>1
    <3> QED
      BY <1>1, <1>2, <1>3, <2>1, <3>1 DEF SplitByConstruction, m
  <2>2. CASE n = m + 1
    <3>1. record.txId = LOG_SC_BEGIN_TICK /\ v[i].tick = t
      BY <1>1, <1>2, <2>2
    <3>2. CASE j = m + 1
      BY <1>1, <3>1, <3>2 DEF Together
    <3>3. CASE j \in 1 .. m
      <4>1. i \in 1 .. m
        BY <1>1, <3>3
      <4>2. w[i].tick = t /\ Begins(w, i)
        BY <1>1, <1>2, <3>1, <4>1
      <4> QED
        BY <1>3, <3>1, <3>3, <4>1, <4>2 DEF EndsTogether, m
    <3> QED
      BY <1>1, <3>2, <3>3
  <2> QED
    BY <1>1, <2>1, <2>2
<1>5. ASSUME EndsTogether(w, t), record.txId \in {LOG_SC_BEGIN_TICK, LOG_SC_INITIALIZE}
      PROVE  EndsTogether(v, t)
  <2> SUFFICES ASSUME NEW i \in 1 .. m + 1, NEW j \in 1 .. m + 1, i <= j, Begins(v, i), v[i].tick = t
               PROVE  Together(v, i, j)
    BY <1>1 DEF EndsTogether
  <2>1. CASE j = m + 1
    BY <1>1, <1>5, <2>1 DEF Together
  <2>2. CASE j \in 1 .. m
    <3>1. i \in 1 .. m
      BY <1>1, <2>2
    <3>2. w[i].tick = t /\ Begins(w, i)
      BY <1>1, <1>2, <3>1
    <3> QED
      BY <1>3, <1>5, <2>2, <3>1, <3>2 DEF EndsTogether, m
  <2> QED
    BY <1>1, <2>1, <2>2
<1>6. ASSUME NotBegun(w, t), record.txId # LOG_SC_BEGIN_TICK
      PROVE  NotBegun(v, t)
  <2> SUFFICES ASSUME NEW i \in 1 .. m + 1, Begins(v, i)
               PROVE  v[i].tick < t
    BY <1>1 DEF NotBegun
  <2>1. i \in 1 .. m
    BY <1>1, <1>2, <1>6
  <2> QED
    BY <1>1, <1>2, <1>6, <2>1 DEF NotBegun, m
<1> QED
  BY <1>4, <1>5, <1>6 DEF v

\* What is logged under the range that is open.
LEMMA AppendSplit ==
  ASSUME LogInv, SplitInv, NEW size \in Nat, NEW digested \in BOOLEAN
  PROVE  LET a == AppendLog(log, size, digested)
             v == History(written, a)
             t == log.lastUpdatedTick + 1
         IN  /\ DOMAIN a = Fields /\ a.lastUpdatedTick = log.lastUpdatedTick
             /\ a.current = log.current
             /\ SplitByConstruction(v)
             /\ phase \in Early => NotBegun(v, t)
             /\ phase \in Starting => EndsTogether(v, t)
<1> DEFINE a == AppendLog(log, size, digested)  v == History(written, a)
           t == log.lastUpdatedTick + 1
<1>1. Appended(log, written, pruned, a, v)
  BY OpenIsLast, AppendSound DEF LogInv
<1> HIDE DEF a, v
<1>2. Sound(log, written, pruned) /\ Sound(a, v, pruned)
  BY <1>1 DEF LogInv, Appended
<1>3. /\ DOMAIN a = Fields /\ a.lastUpdatedTick = log.lastUpdatedTick
      /\ a.current = log.current /\ a.currentTick = log.currentTick
      /\ a.finalizedLogCount = log.finalizedLogCount
  BY <1>1, <1>2 DEF Appended, Sound, IsStore
<1>4. /\ written \in Seq(Record) /\ v \in Seq(Record)
      /\ Len(written) \in Nat /\ Len(v) \in Nat
      /\ Len(written) = Len(log.records) /\ Len(v) = Len(a.records)
      /\ log.finalizedLogCount \in Nat /\ log.finalizedLogCount <= Len(written)
  BY <1>2 DEF Sound, IsHistory, IsStore
<1> DEFINE Goal == /\ SplitByConstruction(v)
                   /\ phase \in Early => NotBegun(v, t)
                   /\ phase \in Starting => EndsTogether(v, t)
<1>5. ASSUME Len(v) <= Len(written), \A p \in 1 .. Len(v) : v[p] = written[p]
      PROVE  Goal
  <2>1. /\ SplitByConstruction(written) => SplitByConstruction(v)
        /\ EndsTogether(written, t) => EndsTogether(v, t)
        /\ NotBegun(written, t) => NotBegun(v, t)
    <3> HIDE DEF t
    <3> QED
      BY ONLY <1>4, <1>5, PrefixSplit
  <2> QED
    BY <2>1 DEF SplitInv
<1>6. ASSUME v = written PROVE Goal
  BY <1>4, <1>5, <1>6
<1>7. ASSUME Len(a.records) = log.finalizedLogCount PROVE Goal
  <2>1. Len(v) <= Len(written)
    BY <1>4, <1>7
  <2>2. \A p \in 1 .. Len(v) : v[p] = written[p]
    <3>1. DOMAIN a.records = 1 .. Len(v) /\ DOMAIN written = 1 .. Len(written)
      BY <1>2, <1>4 DEF Sound, IsStore
    <3>2. \A p \in 1 .. Len(v) : p \in DOMAIN written /\ p \in DOMAIN a.records
      BY <1>4, <2>1, <3>1
    <3> QED
      BY <3>2 DEF History, v
  <2> QED
    BY <1>5, <2>1, <2>2
<1>8. ASSUME NEW record \in Record, v = Append(written, record), log.current # NoRange,
             record.txId = log.current.txId
      PROVE  Goal
  <2>1. record.tick = t
    <3>1. log.currentTick = t /\ t \in Int
      BY <1>2, <1>8 DEF Sound, TicksInOrder, IsStore
    <3>2. Len(v) = Len(written) + 1 /\ v[Len(written) + 1] = record
      BY <1>4, <1>8
    <3>3. Len(written) \in Open(a)
      BY <1>3, <1>4, <3>2 DEF Open
    <3> QED
      BY <1>2, <1>3, <3>1, <3>2, <3>3 DEF Sound, IsHistory
  <2>2. /\ record.txId = LOG_SC_BEGIN_TICK <=> phase \in {"settle", "beginTick"}
        /\ phase = "construct" => record.txId = LOG_SC_INITIALIZE
    BY <1>8 DEF SplitInv
  <2>3. record.txId = LOG_SC_BEGIN_TICK => EndsTogether(written, t)
    BY <2>2 DEF SplitInv, Starting
  <2>4. /\ SplitByConstruction(v)
        /\ /\ EndsTogether(written, t)
           /\ record.txId \in {LOG_SC_BEGIN_TICK, LOG_SC_INITIALIZE}
           => EndsTogether(v, t)
        /\ NotBegun(written, t) /\ record.txId # LOG_SC_BEGIN_TICK => NotBegun(v, t)
    BY <1>4, <1>8, <2>1, <2>3, PushedSplit DEF SplitInv
  <2>5. phase \in Starting => record.txId \in {LOG_SC_BEGIN_TICK, LOG_SC_INITIALIZE}
    BY <2>2 DEF Starting
  <2>6. phase \in Early => record.txId # LOG_SC_BEGIN_TICK
    BY <2>2 DEF Early
  <2> QED
    BY <2>4, <2>5, <2>6 DEF SplitInv
<1>9. Goal
  BY <1>1, <1>6, <1>7, <1>8 DEF Appended
<1> QED
  BY <1>3, <1>9 DEF a, v

\* A phase that is entered.
LEMMA EnterSplit ==
  ASSUME NEW l, NEW v, DOMAIN l = Fields, v = History(written, l), SplitByConstruction(v),
         NEW t \in Int, NEW x \in RangeIds, NEW next, Enter(l, t, x, next),
         x = LOG_SC_BEGIN_TICK <=> next \in {"settle", "beginTick"},
         next = "construct" => x = LOG_SC_INITIALIZE,
         next \in Early => NotBegun(v, l.lastUpdatedTick + 1),
         next \in Starting => EndsTogether(v, l.lastUpdatedTick + 1)
  PROVE  SplitInv'
<1>1. CASE BeginThrows(l, t)
  <2> DEFINE k == [End(l) EXCEPT !.paused = FALSE]
  <2>1. phase' = "halted" /\ log' = k /\ written' = History(written, k)
    BY <1>1, WritesIs DEF Enter, Halt
  <2>2. k.records = l.records /\ k.current = NoRange
    BY DEF End, Fields
  <2> HIDE DEF k
  <2>3. written' = v
    BY <2>1, <2>2, HistorySame
  <2> QED
    BY <2>1, <2>2, <2>3 DEF SplitInv, Early, Starting
<1>2. CASE ~BeginThrows(l, t)
  <2> DEFINE e == End(l)  k == Begin(e, t, x)
  <2>1. Writes(k) /\ phase' = next
    BY <1>2 DEF Enter
  <2>2. DOMAIN e = Fields /\ e.records = l.records /\ e.lastUpdatedTick = l.lastUpdatedTick
    BY DEF End, Fields
  <2>3. History(written, e) = v
    BY <2>2, HistorySame
  <2>4. log' = k /\ written' = v
    BY <2>1, <2>2, <2>3, BeginWrites
  <2> HIDE DEF e
  <2>5. k.lastUpdatedTick = l.lastUpdatedTick /\ k.current = [tick |-> t, txId |-> x]
    BY <2>2 DEF Begin, Opened, Fields
  <2>6. k.current.txId = x
    BY <2>5
  <2> HIDE DEF k
  <2> QED
    BY <2>1, <2>4, <2>5, <2>6 DEF SplitInv
<1> QED
  BY <1>1, <1>2

\* One that is entered with the records as they are.
LEMMA EnterSameSplit ==
  ASSUME LogInv, SplitInv, NEW t \in Int, NEW x \in RangeIds, NEW next, Enter(log, t, x, next),
         x = LOG_SC_BEGIN_TICK <=> next \in {"settle", "beginTick"},
         next = "construct" => x = LOG_SC_INITIALIZE,
         next \in Early => phase \in Early,
         next \in Starting => phase \in Early \cup Starting
  PROVE  SplitInv'
<1>1. /\ DOMAIN log = Fields /\ History(written, log) = written
      /\ Len(written) \in Nat /\ log.lastUpdatedTick \in Int
  <2>1. IsHistory(log, written) /\ IsStore(log)
    BY DEF LogInv, Sound
  <2>2. written \in Seq(Record)
    BY <2>1 DEF IsHistory
  <2> QED
    BY <2>1, <2>2, HistoryKept DEF IsStore
<1>2. NotBegun(written, log.lastUpdatedTick + 1) => EndsTogether(written, log.lastUpdatedTick + 1)
  BY <1>1 DEF NotBegun, EndsTogether
<1> QED
  BY <1>1, <1>2, EnterSplit DEF SplitInv

\* A step that leaves the records, the phase and the tick that is open.
LEMMA SameSplit ==
  ASSUME SplitInv, written' = written, phase' = phase, log'.current = log.current,
         log'.lastUpdatedTick = log.lastUpdatedTick
  PROVE  SplitInv'
BY DEF SplitInv

\* The marker is a record of INITIALIZE's range.
LEMMA MarkedRecords ==
  ASSUME NEW t \in Nat
  PROVE  LET k == Marked(Reset(t), t) IN
         \A p \in 1 .. Len(k.records) : ~Begins(k.records, p)
<1> DEFINE r == Reset(t)  b == Begin(r, t, LOG_SC_INITIALIZE)  a == AppendLog(b, 1, FALSE)
           k == Marked(r, t)  v == History(<< >>, a)
<1>1. /\ Sound(r, << >>, {}) /\ r.current = NoRange /\ r.lastUpdatedTick = t - 1
      /\ r.records = << >> /\ r.finalizedLogCount = 0
  BY ResetSound
<1>2. k = End(a)
  BY DEF Marked
<1> HIDE DEF r, k
<1>3. LOG_SC_INITIALIZE \in RangeIds \ Whole /\ t = r.lastUpdatedTick + 1
  BY <1>1, Distinct
<1>4. Sound(b, << >>, {}) /\ b.current = [tick |-> t, txId |-> LOG_SC_INITIALIZE]
      /\ b.finalizedLogCount = 0
  BY <1>1, <1>3, BeginSound
<1>5. b.current.txId = LOG_SC_INITIALIZE
  BY <1>4
<1> HIDE DEF b
<1>6. Appended(b, << >>, {}, a, v)
  BY <1>3, <1>4, <1>5, AppendSound
<1> HIDE DEF a
<1>0. k.records = a.records
  BY <1>2, <1>6 DEF End, Appended, Sound, IsStore, Fields
<1>7. v = a.records
  <2>1. a.records \in Seq(Record \cup {Gone})
    BY <1>6 DEF Appended, Sound, IsStore
  <2>2. v = [p \in DOMAIN a.records |-> a.records[p]]
    BY DEF History
  <2> QED
    BY <2>1, <2>2
<1> HIDE DEF v
<1>8. LOG_SC_INITIALIZE # LOG_SC_BEGIN_TICK
  BY LogConstants DEF LOG_SC_INITIALIZE, LOG_SC_BEGIN_TICK
<1> DEFINE Goal == \A p \in 1 .. Len(k.records) : ~Begins(k.records, p)
<1>9. ASSUME v = << >> PROVE Goal
  BY <1>0, <1>7, <1>9
<1>10. ASSUME Len(a.records) = 0 PROVE Goal
  BY <1>0, <1>10
<1>11. ASSUME NEW record \in Record, v = Append(<< >>, record), record.txId = b.current.txId
       PROVE  Goal
  <2>1. Len(v) = 1 /\ v[1] = record
    BY <1>11
  <2> QED
    BY <1>0, <1>5, <1>7, <1>8, <1>11, <2>1 DEF Begins
<1>12. Goal
  BY <1>4, <1>6, <1>9, <1>10, <1>11 DEF Appended
<1> QED
  BY <1>12 DEF k, r

LEMMA InitSplit == Init => SplitInv
<1> SUFFICES ASSUME Init PROVE SplitInv
  OBVIOUS
<1>1. LogInv /\ phase = "idle"
  BY InitInv DEF Init
<1>2. log.current = NoRange
  BY <1>1 DEF LogInv, PhaseInv
<1> DEFINE m == Marked(Reset(0), 0)
<1>3. Sound(m, m.records, {}) /\ m.current = NoRange /\ m.lastUpdatedTick = -1
  BY MarkedSound
<1>4. \A p \in 1 .. Len(written) : ~Begins(written, p)
  <2>1. log = FinalizeTick(m, 0) /\ written = log.records
    BY DEF Init
  <2>2. \A p \in 1 .. Len(m.records) : ~Begins(m.records, p)
    BY MarkedRecords
  <2> HIDE DEF m
  <2>3. log.records = m.records
    BY <1>3, <2>1, FinalizeSound
  <2> QED
    BY <2>1, <2>2, <2>3
<1> QED
  BY <1>1, <1>2, <1>4 DEF SplitInv, SplitByConstruction, NotBegun, Early, Starting

\* The ranges a phase opens, and BEGIN_TICK's.
LEMMA RangeNames ==
  /\ {LOG_SC_INITIALIZE, LOG_SC_BEGIN_EPOCH, LOG_SC_BEGIN_TICK, LOG_SC_END_TICK, LOG_SC_END_EPOCH,
      LOG_SC_NOTIFICATION} \subseteq RangeIds
  /\ LOG_SC_BEGIN_TICK \notin {LOG_SC_INITIALIZE, LOG_SC_BEGIN_EPOCH, LOG_SC_END_TICK,
                              LOG_SC_END_EPOCH, LOG_SC_NOTIFICATION}
BY LogConstants DEF RangeIds, LOG_SC_INITIALIZE, LOG_SC_BEGIN_EPOCH, LOG_SC_BEGIN_TICK,
     LOG_SC_END_TICK, LOG_SC_END_EPOCH, LOG_SC_NOTIFICATION

LEMMA EndEpochSplit == LogInv /\ SplitInv /\ EnterEndEpoch => SplitInv'
<1> SUFFICES ASSUME LogInv, SplitInv, EnterEndEpoch PROVE SplitInv'
  OBVIOUS
<1>1. /\ phase = "idle" /\ Enter(log, currentTick + 1, LOG_SC_END_EPOCH, "endEpoch")
      /\ currentTick + 1 \in Int
  BY DEF EnterEndEpoch, LogInv, Numbers
<1> QED
  BY <1>1, RangeNames, EnterSameSplit DEF Early, Starting

LEMMA BeginEpochSplit == LogInv /\ SplitInv /\ EnterBeginEpoch => SplitInv'
<1> SUFFICES ASSUME LogInv, SplitInv, EnterBeginEpoch PROVE SplitInv'
  OBVIOUS
<1> DEFINE a == AppendLog(log, 1, FALSE)  ended == End(a)
           m == Marked(Reset(NextLogTick), NextLogTick)
           fresh == Begin(m, NextLogTick, LOG_SC_BEGIN_EPOCH)
<1>1. /\ phase = "endEpoch"
      /\ \/ Halt(ended)
         \/ log' = fresh /\ written' = fresh.records /\ phase' = "beginEpoch"
  BY DEF EnterBeginEpoch
<1>2. CASE Halt(ended)
  <2> DEFINE k == [End(ended) EXCEPT !.paused = FALSE]  v == History(written, a)
  <2>1. DOMAIN a = Fields /\ SplitByConstruction(v)
    BY AppendSplit
  <2>2. phase' = "halted" /\ log' = k /\ written' = History(written, k)
    BY <1>2, WritesIs DEF Halt
  <2> HIDE DEF a
  <2>3. k.records = a.records /\ k.current = NoRange
    BY <2>1 DEF End, Fields
  <2> HIDE DEF k
  <2>4. written' = v
    BY <2>2, <2>3, HistorySame
  <2> HIDE DEF v
  <2> QED
    BY <2>1, <2>2, <2>3, <2>4 DEF SplitInv, Early, Starting
<1>3. CASE log' = fresh /\ written' = fresh.records /\ phase' = "beginEpoch"
  <2>1. NextLogTick \in Nat
    <3>1. NextLogTick = currentTick
      BY <1>1, WithinTick DEF NextLogTick
    <3> QED
      BY <3>1 DEF LogInv, Numbers
  <2>2. Sound(m, m.records, {}) /\ \A p \in 1 .. Len(m.records) : ~Begins(m.records, p)
    BY <2>1, MarkedSound, MarkedRecords
  <2>3. DOMAIN m = Fields
    BY <2>2 DEF Sound, IsStore
  <2> HIDE DEF m
  <2>4. /\ fresh.records = m.records
        /\ fresh.current = [tick |-> NextLogTick, txId |-> LOG_SC_BEGIN_EPOCH]
    BY <2>3 DEF Begin, Opened, Fields
  <2>5. fresh.current.txId = LOG_SC_BEGIN_EPOCH
    BY <2>4
  <2> HIDE DEF fresh
  <2>6. written' = m.records
    BY <1>3, <2>4
  <2> QED
    BY <1>3, <2>2, <2>5, <2>6, RangeNames
    DEF SplitInv, SplitByConstruction, NotBegun, Early, Starting
<1> QED
  BY <1>1, <1>2, <1>3

LEMMA TickSplit ==
  ASSUME LogInv, SplitInv, NEW settles \in BOOLEAN, EnterTick(settles)
  PROVE  SplitInv'
<1> DEFINE t == IF phase = "idle" THEN currentTick + 1 ELSE currentTick
<1>1. /\ phase \in {"idle", "beginEpoch"}
      /\ \/ Enter(log, t, LOG_SC_BEGIN_TICK, "settle")
         \/ Enter(log, t, LOG_SC_INITIALIZE, "construct")
         \/ Enter(log, t, LOG_SC_BEGIN_TICK, "beginTick")
  BY DEF EnterTick, StartTick
<1>2. t \in Int
  BY DEF LogInv, Numbers
<1> HIDE DEF t
<1> QED
  BY <1>1, <1>2, RangeNames, EnterSameSplit DEF Early, Starting

LEMMA SettleSplit == LogInv /\ SplitInv /\ Settle => SplitInv'
<1> SUFFICES ASSUME LogInv, SplitInv, Settle PROVE SplitInv'
  OBVIOUS
<1> DEFINE a == AppendLog(log, 1, FALSE)  v == History(written, a)
<1>1. /\ phase = "settle"
      /\ \/ Writes(a) /\ phase' = phase
         \/ Enter(a, currentTick, LOG_SC_INITIALIZE, "construct")
         \/ Enter(a, currentTick, LOG_SC_BEGIN_TICK, "beginTick")
  BY DEF Settle, StartTick
<1>0. currentTick \in Int
  BY DEF LogInv, Numbers
<1>2. /\ DOMAIN a = Fields /\ a.lastUpdatedTick = log.lastUpdatedTick
      /\ a.current = log.current
      /\ SplitByConstruction(v) /\ EndsTogether(v, log.lastUpdatedTick + 1)
  BY <1>1, AppendSplit DEF Starting
<1>3. Writes(a) => log' = a /\ written' = v
  BY WritesIs
<1>4. v = History(written, a)
  OBVIOUS
<1> HIDE DEF a, v
<1>5. CASE Writes(a) /\ phase' = phase
  BY <1>1, <1>2, <1>3, <1>5 DEF SplitInv, Early, Starting
<1>6. CASE Enter(a, currentTick, LOG_SC_INITIALIZE, "construct")
  BY <1>0, <1>1, <1>2, <1>4, <1>6, RangeNames, EnterSplit DEF Early
<1>7. CASE Enter(a, currentTick, LOG_SC_BEGIN_TICK, "beginTick")
  BY <1>0, <1>1, <1>2, <1>4, <1>7, RangeNames, EnterSplit DEF Early
<1> QED
  BY <1>1, <1>5, <1>6, <1>7

\* The phases of a tick that follow, and the calls between ticks.
LEMMA PhaseSplit ==
  ASSUME LogInv, SplitInv,
         \/ EnterBeginTick \/ EnterTransaction \/ EnterOraclePass \/ EnterDelivery
         \/ EnterEndTick \/ EnterDeploy \/ EnterLateTransaction
  PROVE  SplitInv'
<1>1. currentTick \in Int /\ lastFinalizedTick \in Int /\ txCount \in 0 .. TxsPerTick
  BY DEF LogInv, Numbers
<1>2. NextLogTick \in Int
  BY <1>1 DEF NextLogTick
<1>3. CASE EnterBeginTick
  BY <1>1, <1>3, RangeNames, EnterSameSplit DEF EnterBeginTick, Early, Starting
<1>4. CASE EnterTransaction
  <2>1. PICK x \in Int : /\ Enter(log, NextLogTick, x, "transaction")
                         /\ x >= 0 /\ x < TxsPerTick
    BY <1>1, <1>4, LogConstants DEF EnterTransaction, TickIsFull
  <2>2. x \in RangeIds /\ x # LOG_SC_BEGIN_TICK
    BY <2>1, LogConstants DEF RangeIds, LOG_SC_BEGIN_TICK
  <2> QED
    BY <1>2, <2>1, <2>2, EnterSameSplit DEF Early, Starting
<1>5. CASE EnterOraclePass
  <2>1. PICK next \in {"commits", "oracle"} : Enter(log, currentTick, LOG_SC_NOTIFICATION, next)
    BY <1>5 DEF EnterOraclePass, CommitsLeft
  <2> QED
    BY <1>1, <2>1, RangeNames, EnterSameSplit DEF Early, Starting
<1>6. CASE EnterDelivery
  BY <1>1, <1>6, RangeNames, EnterSameSplit DEF EnterDelivery, Early, Starting
<1>7. CASE EnterEndTick
  BY <1>1, <1>7, RangeNames, EnterSameSplit DEF EnterEndTick, Early, Starting
<1>8. CASE EnterDeploy
  BY <1>2, <1>8, RangeNames, EnterSameSplit DEF EnterDeploy, Early, Starting
<1>9. CASE EnterLateTransaction
  <2>1. txCount \in RangeIds /\ txCount # LOG_SC_BEGIN_TICK
    BY <1>1, LogConstants DEF RangeIds, LOG_SC_BEGIN_TICK
  <2>2. phase = "idle" /\ Enter(log, NextLogTick, txCount, "late")
    BY <1>9 DEF EnterLateTransaction
  <2> QED
    BY <1>2, <2>1, <2>2, EnterSameSplit DEF Early, Starting
<1> QED
  BY <1>3, <1>4, <1>5, <1>6, <1>7, <1>8, <1>9

LEMMA FinishTickSplit == LogInv /\ SplitInv /\ FinishTick => SplitInv'
<1> SUFFICES ASSUME LogInv, SplitInv, FinishTick PROVE SplitInv'
  OBVIOUS
<1> DEFINE e == End(log)  k == FinalizeTick(e, currentTick)
<1>1. /\ phase = "endTick"
      /\ \/ Halt(log)
         \/ Writes(k) /\ phase' = "idle"
  BY DEF FinishTick
<1>2. /\ Sound(log, written, pruned) /\ History(written, log) = written /\ DOMAIN log = Fields
  BY HistoryKept DEF LogInv, Sound, IsStore
<1>3. CASE Halt(log)
  <2> DEFINE h == [End(log) EXCEPT !.paused = FALSE]
  <2>1. phase' = "halted" /\ log' = h /\ written' = History(written, h)
    BY <1>3, WritesIs DEF Halt
  <2>2. h.records = log.records /\ h.current = NoRange
    BY <1>2 DEF End, Fields
  <2> HIDE DEF h
  <2>3. written' = written
    BY <1>2, <2>1, <2>2, HistorySame
  <2> QED
    BY <2>1, <2>2, <2>3 DEF SplitInv, Early, Starting
<1>4. CASE Writes(k) /\ phase' = "idle"
  <2>1. Sound(e, written, pruned) /\ SameLog(log, e) /\ e.current = NoRange
    BY <1>2, EndSound
  <2> HIDE DEF e
  <2>2. e.records = log.records /\ currentTick = e.lastUpdatedTick + 1
    BY <1>1, <2>1, WithinTick DEF SameLog
  <2>3. /\ Sound(k, written, pruned) /\ k.records = e.records
        /\ k.current = NoRange /\ k.lastUpdatedTick = currentTick
        /\ k.finalizedLogCount = Len(e.records)
    BY <2>1, <2>2, FinalizeSound
  <2> HIDE DEF k
  <2>4. log' = k /\ written' = written
    BY <1>2, <1>4, <2>2, <2>3, WritesIs, HistorySame
  <2>5. NotBegun(written, k.lastUpdatedTick + 1)
    <3> SUFFICES ASSUME NEW i \in 1 .. Len(written)
                 PROVE  written[i].tick < k.lastUpdatedTick + 1
      BY DEF NotBegun
    <3>1. Len(written) \in Nat /\ Len(written) = k.finalizedLogCount
      BY <2>2, <2>3 DEF Sound, IsHistory
    <3>2. i - 1 \in Final(k) /\ (i - 1) + 1 = i
      BY <3>1 DEF Final
    <3>3. written[i].tick \in k.tickBegin .. k.lastUpdatedTick
      BY <2>3, <3>2 DEF Sound, IsHistory
    <3> QED
      BY <2>3, <3>3 DEF Sound, IsStore
  <2> QED
    BY <1>4, <2>3, <2>4, <2>5 DEF SplitInv, Starting
<1> QED
  BY <1>1, <1>3, <1>4

LEMMA AppendedSplit ==
  ASSUME LogInv, SplitInv, NEW size \in Nat, NEW digested \in BOOLEAN,
         Writes(AppendLog(log, size, digested)),
         phase' = phase \/ (phase = "commits" /\ phase' \in {"commits", "oracle"})
  PROVE  SplitInv'
<1> DEFINE a == AppendLog(log, size, digested)  v == History(written, a)
<1>1. /\ a.lastUpdatedTick = log.lastUpdatedTick /\ a.current = log.current
      /\ SplitByConstruction(v)
      /\ phase \in Early => NotBegun(v, log.lastUpdatedTick + 1)
      /\ phase \in Starting => EndsTogether(v, log.lastUpdatedTick + 1)
  BY AppendSplit
<1>2. log' = a /\ written' = v
  BY WritesIs
<1> HIDE DEF a, v
<1> QED
  BY <1>1, <1>2 DEF SplitInv, Early, Starting

\* What leaves the records alone.
LEMMA QuietSplit ==
  ASSUME LogInv, SplitInv,
         \/ DeployDeferred \/ FinishCall \/ (\E on \in BOOLEAN : Pause(on)) \/ Commit
         \/ \E from, to \in 0 .. MaxRecords : Prune(from, to)
  PROVE  SplitInv'
<1>1. /\ DOMAIN log = Fields /\ History(written, log) = written
  BY HistoryKept DEF LogInv, Sound, IsStore
<1>2. CASE DeployDeferred
  <2> DEFINE k == End(Begin(log, NextLogTick, LOG_SC_INITIALIZE))
  <2>1. /\ log' = k /\ written' = written /\ phase' = phase /\ phase = "idle"
    BY <1>2 DEF DeployDeferred
  <2>2. k.current = NoRange /\ k.lastUpdatedTick = log.lastUpdatedTick
    BY <1>1 DEF End, Begin, Opened, Fields
  <2>3. log.current = NoRange
    BY <2>1 DEF LogInv, PhaseInv
  <2> HIDE DEF k
  <2> QED
    BY <2>1, <2>2, <2>3, SameSplit
<1>3. CASE FinishCall
  <2> DEFINE k == End(log)
  <2>1. phase \in {"deploy", "late"} /\ phase' = "idle" /\ log' = k /\ written' = History(written, k)
    BY <1>3, WritesIs DEF FinishCall
  <2>2. k.records = log.records /\ k.current = NoRange /\ k.lastUpdatedTick = log.lastUpdatedTick
    BY <1>1 DEF End, Fields
  <2> HIDE DEF k
  <2>3. written' = written
    BY <1>1, <2>1, <2>2, HistorySame
  <2> QED
    BY <2>1, <2>2, <2>3 DEF SplitInv, Early, Starting
<1>4. ASSUME NEW on \in BOOLEAN, Pause(on)
      PROVE  SplitInv'
  <2> DEFINE k == [log EXCEPT !.paused = on]
  <2>1. log' = k /\ written' = written /\ phase' = phase
    BY <1>4 DEF Pause
  <2>2. k.current = log.current /\ k.lastUpdatedTick = log.lastUpdatedTick
    BY <1>1 DEF Fields
  <2> HIDE DEF k
  <2> QED
    BY <2>1, <2>2, SameSplit
<1>5. CASE Commit
  BY <1>5, SameSplit DEF Commit
<1>6. ASSUME NEW from \in 0 .. MaxRecords, NEW to \in 0 .. MaxRecords, Prune(from, to)
      PROVE  SplitInv'
  <2> DEFINE k == PruneLog(log, from, to)
  <2>1. log' = k /\ written' = written /\ phase' = phase
    BY <1>6 DEF Prune
  <2>2. k.current = log.current /\ k.lastUpdatedTick = log.lastUpdatedTick
    BY <1>1 DEF PruneLog, Drop, Fields
  <2> HIDE DEF k
  <2> QED
    BY <2>1, <2>2, SameSplit
<1> QED
  BY <1>2, <1>3, <1>4, <1>5, <1>6

\* What stands between two records of BEGIN_TICK's range is kept in order.
LEMMA NextSplit == LogInv /\ SplitInv /\ [Next]_vars => SplitInv'
<1> SUFFICES ASSUME LogInv, SplitInv, [Next]_vars PROVE SplitInv'
  OBVIOUS
<1>1. CASE EnterEndEpoch
  BY <1>1, EndEpochSplit
<1>2. CASE EnterBeginEpoch
  BY <1>2, BeginEpochSplit
<1>3. CASE \E settles \in BOOLEAN : EnterTick(settles)
  BY <1>3, TickSplit
<1>4. CASE Settle
  BY <1>4, SettleSplit
<1>5. CASE \/ EnterBeginTick \/ EnterTransaction \/ EnterOraclePass \/ EnterDelivery
           \/ EnterEndTick \/ EnterDeploy \/ EnterLateTransaction
  BY <1>5, PhaseSplit
<1>6. CASE WriteCommit
  BY <1>6, AppendedSplit DEF WriteCommit, CommitsLeft
<1>7. CASE FinishTick
  BY <1>7, FinishTickSplit
<1>8. ASSUME NEW kind \in Kinds, Log(kind[1], kind[2])
      PROVE  SplitInv'
  <2>1. kind[1] \in Nat /\ kind[2] \in BOOLEAN
    BY LogConstants
  <2> QED
    BY <1>8, <2>1, AppendedSplit DEF Log
<1>9. CASE \/ DeployDeferred \/ FinishCall \/ (\E on \in BOOLEAN : Pause(on)) \/ Commit
           \/ \E from, to \in 0 .. MaxRecords : Prune(from, to)
  BY <1>9, QuietSplit
<1>10. CASE UNCHANGED vars
  BY <1>10, SameSplit DEF vars
<1> QED
  BY <1>1, <1>2, <1>3, <1>4, <1>5, <1>6, <1>7, <1>8, <1>9, <1>10 DEF Next

LEMMA SplitInvHolds == Spec => [](LogInv /\ SplitInv)
BY InitInv, NextInv, InitSplit, NextSplit, PTL DEF Spec
-----------------------------------------------------------------------------
(* What the properties say, from the invariant.                            *)

\* A set of log ids that is an interval is given by its first and its size.
LEMMA IntervalIs ==
  ASSUME NEW n \in Nat, NEW S \in SUBSET (0 .. n - 1), IsInterval(S), S # {}
  PROVE  S = Least(S) .. Least(S) + Cardinality(S) - 1
<1> DEFINE m == Least(S)  above == {i \in Nat : \A s \in S : s <= i}  top == Least(above)
<1>1. S \in SUBSET Nat
  OBVIOUS
<1>2. m \in S /\ \A i \in S : m <= i
  BY <1>1, LeastIn
<1> HIDE DEF m
<1>3. above \in SUBSET Nat /\ n \in above
  OBVIOUS
<1> HIDE DEF above
<1>4. top \in above /\ \A i \in above : top <= i
  BY <1>3, LeastIn
<1> HIDE DEF top
<1>5. top \in Nat /\ \A s \in S : s <= top
  BY <1>4 DEF above
<1>6. top \in S
  <2> SUFFICES ASSUME top \notin S PROVE FALSE
    OBVIOUS
  <2>1. \A s \in S : s <= top - 1
    BY <1>1, <1>5
  <2>2. top - 1 \in Nat
    BY <1>1, <1>2, <1>5, <2>1
  <2>3. top - 1 \in above
    BY <2>1, <2>2 DEF above
  <2> QED
    BY <1>4, <1>5, <2>3
<1>7. S = m .. top
  <2>1. m .. top \subseteq S
    BY <1>2, <1>6 DEF IsInterval
  <2>2. \A s \in S : s \in m .. top
    BY <1>1, <1>2, <1>5
  <2> QED
    BY <2>1, <2>2
<1>8. Cardinality(S) = top - m + 1
  BY <1>1, <1>2, <1>5, <1>6, <1>7, FS_Interval
<1>9. top = m + Cardinality(S) - 1
  BY <1>1, <1>2, <1>5, <1>8
<1> QED
  BY <1>7, <1>9 DEF m

\* What is told of a range that is an interval names its records.
LEMMA NamedIs ==
  ASSUME NEW n \in Nat, NEW S \in SUBSET (0 .. n - 1), IsInterval(S),
         NEW range, Tells(range, S)
  PROVE  Named(range) = S
<1>1. CASE S = {}
  <2>1. range.fromLogId = -1
    BY <1>1 DEF Tells, RANGE_NOTHING_LOGGED
  <2> QED
    BY <1>1, <2>1 DEF Named
<1>2. CASE S # {}
  <2>1. range.fromLogId = Least(S) /\ range.length = Cardinality(S)
    BY <1>2 DEF Tells
  <2>2. Least(S) \in Nat
    <3>1. S \in SUBSET Nat
      OBVIOUS
    <3> QED
      BY <1>2, <3>1, LeastIn
  <2>3. Named(range) = Least(S) .. Least(S) + Cardinality(S) - 1
    BY <2>1, <2>2 DEF Named
  <2> QED
    BY <1>2, <2>3, IntervalIs
<1> QED
  BY <1>1, <1>2

\* The first k members of an enumeration are k.
LEMMA EnumeratedAre ==
  ASSUME NEW s, NEW S, Enumerates(s, S), NEW k \in 0 .. Len(s)
  PROVE  Cardinality({s[j] : j \in 1 .. k}) = k
<1> DEFINE T == {s[j] : j \in 1 .. k}  f == [j \in 1 .. k |-> s[j]]
<1>1. s \in Seq(Nat) /\ \A i, j \in 1 .. Len(s) : i < j => s[i] < s[j]
  BY DEF Enumerates
<1>2. k \in Nat /\ Len(s) \in Nat /\ 1 .. k \subseteq 1 .. Len(s)
  BY <1>1
<1>3. \A i, j \in 1 .. k : s[i] = s[j] => i = j
  <2> SUFFICES ASSUME NEW i \in 1 .. k, NEW j \in 1 .. k, s[i] = s[j] PROVE i = j
    OBVIOUS
  <2>1. s[i] \in Nat /\ s[j] \in Nat /\ i \in Int /\ j \in Int
    BY <1>1, <1>2
  <2>2. ~(i < j) /\ ~(j < i)
    BY <1>1, <1>2, <2>1
  <2> QED
    BY <2>1, <2>2
<1>4. f \in Bijection(1 .. k, T)
  BY <1>3 DEF Bijection, Injection, Surjection, IsInjective
<1>5. ExistsBijection(1 .. k, T)
  BY <1>4 DEF ExistsBijection
<1> HIDE DEF T
<1> QED
  BY <1>2, <1>5, FS_CountingElements DEF T

\* An enumeration of a set of log ids is the one by their rank.
LEMMA ByRank ==
  ASSUME NEW s, NEW S, Enumerates(s, S)
  PROVE  s = [n \in 1 .. Cardinality(S) |->
                CHOOSE id \in S : Cardinality({i \in S : i < id}) = n - 1]
<1> DEFINE Rank(id) == Cardinality({i \in S : i < id})
<1>1. /\ s \in Seq(Nat) /\ S = {s[j] : j \in 1 .. Len(s)} /\ Len(s) \in Nat
      /\ \A i, j \in 1 .. Len(s) : i < j => s[i] < s[j]
  BY DEF Enumerates
<1>2. Cardinality(S) = Len(s)
  <2>1. Len(s) \in 0 .. Len(s)
    BY <1>1
  <2> QED
    BY <1>1, <2>1, EnumeratedAre
<1>3. \A n \in 1 .. Len(s) : Rank(s[n]) = n - 1
  <2> SUFFICES ASSUME NEW n \in 1 .. Len(s) PROVE Rank(s[n]) = n - 1
    OBVIOUS
  <2>1. {i \in S : i < s[n]} = {s[j] : j \in 1 .. n - 1}
    <3>1. \A j \in 1 .. Len(s) : s[j] < s[n] <=> j \in 1 .. n - 1
      <4> SUFFICES ASSUME NEW j \in 1 .. Len(s) PROVE s[j] < s[n] <=> j \in 1 .. n - 1
        OBVIOUS
      <4>1. s[j] \in Nat /\ s[n] \in Nat /\ j \in Nat /\ n \in Nat
        BY <1>1
      <4>2. CASE j < n
        BY <1>1, <4>1, <4>2
      <4>3. CASE j = n
        BY <4>1, <4>3
      <4>4. CASE n < j
        <5>1. s[n] < s[j]
          BY <1>1, <4>4
        <5> QED
          BY <4>1, <4>4, <5>1
      <4> QED
        BY <4>1, <4>2, <4>3, <4>4
    <3>2. 1 .. n - 1 \subseteq 1 .. Len(s)
      BY <1>1
    <3> QED
      BY <1>1, <3>1, <3>2
  <2>2. n - 1 \in 0 .. Len(s)
    BY <1>1
  <2> QED
    BY <2>1, <2>2, EnumeratedAre
<1>4. \A n \in 1 .. Len(s) : s[n] = CHOOSE id \in S : Rank(id) = n - 1
  <2> SUFFICES ASSUME NEW n \in 1 .. Len(s)
               PROVE  s[n] = CHOOSE id \in S : Rank(id) = n - 1
    OBVIOUS
  <2>1. s[n] \in S /\ Rank(s[n]) = n - 1
    BY <1>1, <1>3
  <2>2. \A id \in S : Rank(id) = n - 1 => id = s[n]
    <3> SUFFICES ASSUME NEW id \in S, Rank(id) = n - 1 PROVE id = s[n]
      OBVIOUS
    <3>1. PICK j \in 1 .. Len(s) : id = s[j]
      BY <1>1
    <3> HIDE DEF Rank
    <3>2. j - 1 = n - 1
      BY <1>3, <3>1
    <3>3. j = n
      BY <1>1, <3>2
    <3> QED
      BY <3>1, <3>3
  <2> HIDE DEF Rank
  <2> QED
    BY <2>1, <2>2
<1>5. s = [n \in 1 .. Len(s) |-> s[n]]
  BY <1>1
<1> QED
  BY <1>2, <1>4, <1>5

\* The records of a final tick, as the properties and as the invariant have them.
\* What is told of a range whose records are interrupted reaches no further than the
\* last of them.
LEMMA NamedWithin ==
  ASSUME NEW n \in Nat, NEW S \in SUBSET (0 .. n - 1), S # {}, NEW range, Tells(range, S)
  PROVE  \E last \in S : Named(range) \subseteq Least(S) .. last
<1> DEFINE m == Least(S)  above == {i \in Nat : \A s \in S : s <= i}  top == Least(above)
<1>1. S \in SUBSET Nat
  OBVIOUS
<1>2. m \in S /\ \A i \in S : m <= i
  BY <1>1, LeastIn
<1>3. range.fromLogId = m /\ range.length = Cardinality(S)
  BY DEF Tells
<1> HIDE DEF m
<1>4. above \in SUBSET Nat /\ n \in above
  OBVIOUS
<1> HIDE DEF above
<1>5. top \in above /\ \A i \in above : top <= i
  BY <1>4, LeastIn
<1> HIDE DEF top
<1>6. top \in Nat /\ \A s \in S : s <= top
  BY <1>5 DEF above
<1>7. top \in S
  <2> SUFFICES ASSUME top \notin S PROVE FALSE
    OBVIOUS
  <2>1. \A s \in S : s <= top - 1
    BY <1>1, <1>6
  <2>2. top - 1 \in Nat
    BY <1>1, <1>2, <1>6, <2>1
  <2>3. top - 1 \in above
    BY <2>1, <2>2 DEF above
  <2> QED
    BY <1>5, <1>6, <2>3
<1>8. Cardinality(S) \in Nat /\ Cardinality(S) <= top - m + 1
  <2>1. S \subseteq m .. top
    BY <1>1, <1>2, <1>6
  <2>2. m \in Int /\ top \in Int /\ m <= top
    BY <1>1, <1>2, <1>6
  <2>3. IsFiniteSet(m .. top) /\ Cardinality(m .. top) = top - m + 1
    BY <2>2, FS_Interval
  <2> QED
    BY <2>1, <2>3, FS_Subset, FS_CardinalityType
<1>9. Named(range) \subseteq m .. top
  BY <1>1, <1>2, <1>3, <1>6, <1>8 DEF Named
<1> QED
  BY <1>7, <1>9 DEF m

LEMMA LogIdsAre ==
  ASSUME NEW t
  PROVE  /\ LogIds(t) = {id \in Final(log) : written[id + 1].tick = t}
         /\ \A x : WrittenUnder(t, x) = FinalUnder(log, written, t, x)
         /\ {id \in LogIds(t) : written[id + 1].digested} = FinalMutations(log, written, t)
BY DEF LogIds, WrittenUnder, Final, FinalUnder, FinalMutations

\* What a client is told of a final tick: its ranges, if they are kept, and else that
\* they are not.
LEMMA AnswersAre ==
  ASSUME LogInv, NEW t \in FinalTicks, NEW x \in RangeIds
  PROVE  /\ t \in DOMAIN log.ranges =>
              /\ Tells(TickRanges(log, t)[x], WrittenUnder(t, x))
              /\ TickRanges(log, t)[x].fromLogId # RANGE_NOT_RETAINED
         /\ t \notin DOMAIN log.ranges =>
              /\ TickRanges(log, t)[x].fromLogId = RANGE_NOT_RETAINED
              /\ t <= log.evictedThroughTick /\ LogIds(t) # {}
<1>1. /\ t \in log.tickBegin .. log.lastUpdatedTick
      /\ log.tickBegin \in Int /\ log.lastUpdatedTick \in Int /\ log.evictedThroughTick \in Int
  BY DEF FinalTicks, LogInv, Sound, IsStore
<1>2. CASE t \in DOMAIN log.ranges
  <2>1. TickRanges(log, t) = log.ranges[t]
    BY <1>1, <1>2 DEF TickRanges
  <2>2. Tells(TickRanges(log, t)[x], WrittenUnder(t, x))
    <3>1. Tells(log.ranges[t][x], FinalUnder(log, written, t, x))
      BY <1>2 DEF LogInv, Sound, RangesTell
    <3>2. WrittenUnder(t, x) = FinalUnder(log, written, t, x)
      BY LogIdsAre
    <3> QED
      BY ONLY <2>1, <3>1, <3>2
  <2>3. WrittenUnder(t, x) \in SUBSET Nat
    BY DEF WrittenUnder, LogIds
  <2>4. WrittenUnder(t, x) # {} => Least(WrittenUnder(t, x)) \in Nat
    BY <2>3, LeastIn
  <2>5. TickRanges(log, t)[x].fromLogId # -2
    BY <2>2, <2>4 DEF Tells, RANGE_NOTHING_LOGGED
  <2> QED
    BY <1>2, <2>2, <2>5 DEF RANGE_NOT_RETAINED
<1>3. CASE t \notin DOMAIN log.ranges
  <2>1. t <= log.evictedThroughTick /\ \E id \in Final(log) : written[id + 1].tick = t
    BY <1>1, <1>3 DEF LogInv, Sound, RangesTell
  <2>2. MissingRangeCode(log, t) = RANGE_NOT_RETAINED
    BY <1>1, <2>1 DEF MissingRangeCode
  <2>3. TickRanges(log, t) = UniformRanges(RANGE_NOT_RETAINED)
    BY <1>3, <2>2 DEF TickRanges
  <2>4. LogIds(t) # {}
    BY <2>1, LogIdsAre
  <2> QED
    BY <1>3, <2>1, <2>3, <2>4 DEF UniformRanges
<1> QED
  BY <1>2, <1>3

LEMMA RetainedIsReadableHolds == LogInv => RetainedIsReadable
<1> SUFFICES ASSUME LogInv, NEW t \in FinalTicks,
                    TickRanges(log, t)[0].fromLogId # RANGE_NOT_RETAINED,
                    NEW id \in LogIds(t) \ pruned, log.records[id + 1] = Gone
             PROVE  FALSE
  BY DEF RetainedIsReadable
<1>1. 0 \in RangeIds
  BY LogConstants DEF RangeIds
<1>2. t \in DOMAIN log.ranges
  BY <1>1, AnswersAre
<1>3. id \in Final(log) /\ written[id + 1].tick = t
  BY LogIdsAre
<1> QED
  BY <1>2, <1>3 DEF LogInv, Sound, GoneIsKnown

LEMMA RetentionHolds == LogInv => RetentionIsExact
BY TypeHolds, RetainedIsReadableHolds DEF LogInv, Sound, IsAccounted, All, RetentionIsExact

LEMMA PhaseRangesHold == LogInv /\ SplitInv => PhaseRangesAreWhole
<1> SUFFICES ASSUME LogInv, SplitInv, NEW t \in FinalTicks,
                    TickRanges(log, t)[0].fromLogId # RANGE_NOT_RETAINED
             PROVE  LET ranges == TickRanges(log, t)
                        own == WrittenUnder(t, LOG_SC_BEGIN_TICK)
                        between == {id \in WrittenUnder(t, LOG_SC_INITIALIZE) : \E i \in own : i < id}
                    IN  /\ \A x \in Whole : Named(ranges[x]) = WrittenUnder(t, x)
                        /\ Named(ranges[LOG_SC_BEGIN_TICK]) \subseteq own \cup between
                        /\ between = {} => Named(ranges[LOG_SC_BEGIN_TICK]) = own
  BY DEF PhaseRangesAreWhole, Whole
<1> DEFINE own == WrittenUnder(t, LOG_SC_BEGIN_TICK)
           between == {id \in WrittenUnder(t, LOG_SC_INITIALIZE) : \E i \in own : i < id}
           answer == TickRanges(log, t)[LOG_SC_BEGIN_TICK]
<1>1. t \in DOMAIN log.ranges
  <2>1. 0 \in RangeIds
    BY LogConstants DEF RangeIds
  <2> QED
    BY <2>1, AnswersAre
<1>2. log.finalizedLogCount \in Nat
      /\ \A x : WrittenUnder(t, x) \in SUBSET (0 .. log.finalizedLogCount - 1)
  BY DEF LogInv, Sound, IsStore, WrittenUnder, LogIds
<1>3. \A x \in Whole : Named(TickRanges(log, t)[x]) = WrittenUnder(t, x)
  <2> SUFFICES ASSUME NEW x \in Whole
               PROVE  Named(TickRanges(log, t)[x]) = WrittenUnder(t, x)
    OBVIOUS
  <2>1. Tells(TickRanges(log, t)[x], WrittenUnder(t, x))
    BY <1>1, AnswersAre, Distinct
  <2>2. IsInterval(WrittenUnder(t, x))
    BY <1>1, LogIdsAre DEF LogInv, Sound, RangesAreWhole
  <2> QED
    BY <1>2, <2>1, <2>2, NamedIs
<1>4. Tells(answer, own)
  BY <1>1, AnswersAre, RangeNames
<1>5. ASSUME NEW first \in own, NEW last \in own, NEW id \in first .. last
      PROVE  id \in own \cup between
  <2>1. /\ first \in LogIds(t) /\ written[first + 1].txId = LOG_SC_BEGIN_TICK
        /\ last \in LogIds(t) /\ written[last + 1].txId = LOG_SC_BEGIN_TICK
        /\ written[first + 1].tick = t /\ written[last + 1].tick = t
    BY <1>5 DEF WrittenUnder, LogIds
  <2>2. Len(written) \in Nat /\ log.finalizedLogCount <= Len(written)
    BY DEF LogInv, Sound, IsStore, IsHistory
  <2>3. /\ first \in Nat /\ last \in Nat /\ id \in Nat /\ last < log.finalizedLogCount
        /\ first <= id /\ id <= last
    BY <1>2, <1>5
  <2>4. /\ first + 1 \in 1 .. Len(written) /\ last + 1 \in 1 .. Len(written)
        /\ id + 1 \in 1 .. Len(written) /\ first + 1 <= id + 1 /\ id + 1 <= last + 1
    BY <1>2, <2>2, <2>3
  <2>5. Together(written, first + 1, id + 1)
    BY <2>1, <2>4 DEF SplitInv, SplitByConstruction, Begins
  <2>6. id \in LogIds(t)
    BY <1>2, <2>1, <2>3, <2>5 DEF LogIds, Together
  <2>7. CASE written[id + 1].txId = LOG_SC_BEGIN_TICK
    BY <2>6, <2>7 DEF WrittenUnder
  <2>8. CASE written[id + 1].txId = LOG_SC_INITIALIZE
    <3>1. first # id
      BY <2>1, <2>8, RangeNames
    <3>2. first < id
      BY <2>3, <3>1
    <3> QED
      BY <1>5, <2>6, <2>8, <3>2 DEF WrittenUnder
  <2> QED
    BY <2>5, <2>7, <2>8 DEF Together
<1>6. between = {} => Named(answer) = own
  <2> SUFFICES ASSUME between = {} PROVE Named(answer) = own
    OBVIOUS
  <2>1. IsInterval(own)
    BY <1>5 DEF IsInterval
  <2> HIDE DEF own, answer
  <2> QED
    BY <1>2, <1>4, <2>1, NamedIs DEF own
<1>7. Named(answer) \subseteq own \cup between
  <2>1. CASE own = {}
    <3>1. IsInterval(own)
      BY <2>1 DEF IsInterval
    <3> HIDE DEF own, answer
    <3>2. Named(answer) = own
      BY <1>2, <1>4, <3>1, NamedIs DEF own
    <3> QED
      BY <3>2
  <2>2. CASE own # {}
    <3>1. PICK last \in own : Named(answer) \subseteq Least(own) .. last
      <4> HIDE DEF own, answer
      <4> QED
        BY <1>2, <1>4, <2>2, NamedWithin DEF own
    <3>2. Least(own) \in own
      <4>1. own \in SUBSET Nat
        BY <1>2
      <4> HIDE DEF own
      <4> QED
        BY <2>2, <4>1, LeastIn
    <3> QED
      BY <1>5, <3>1, <3>2
  <2> QED
    BY <2>1, <2>2
<1> QED
  BY <1>3, <1>6, <1>7

LEMMA RangesHold == LogInv /\ SplitInv => RangesTellTheTruth
<1> SUFFICES ASSUME LogInv, SplitInv, NEW t \in FinalTicks, NEW x \in RangeIds
             PROVE  LET answer == TickRanges(log, t)[x]
                        ids == WrittenUnder(t, x)
                    IN  CASE answer.fromLogId = RANGE_NOT_RETAINED ->
                               LogIds(t) # {} /\ \A id \in LogIds(t) : log.records[id + 1] = Gone
                          [] answer.fromLogId = RANGE_NOTHING_LOGGED -> ids = {}
                          [] OTHER -> answer.length = Cardinality(ids) /\ answer.fromLogId = Least(ids)
  BY PhaseRangesHold DEF RangesTellTheTruth
<1> DEFINE answer == TickRanges(log, t)[x]  ids == WrittenUnder(t, x)
<1>1. CASE t \notin DOMAIN log.ranges
  <2>1. /\ answer.fromLogId = RANGE_NOT_RETAINED /\ t <= log.evictedThroughTick
        /\ LogIds(t) # {}
    BY <1>1, AnswersAre
  <2>2. \A id \in LogIds(t) : log.records[id + 1] = Gone
    BY <2>1, LogIdsAre DEF LogInv, Sound, GoneIsKnown
  <2> QED
    BY <2>1, <2>2 DEF RANGE_NOT_RETAINED, RANGE_NOTHING_LOGGED
<1>2. CASE t \in DOMAIN log.ranges
  <2>1. Tells(answer, ids) /\ answer.fromLogId # RANGE_NOT_RETAINED
    BY <1>2, AnswersAre
  <2>2. ids \in SUBSET Nat
    BY DEF WrittenUnder, LogIds
  <2> HIDE DEF answer, ids
  <2>3. CASE ids = {}
    BY <2>1, <2>3 DEF Tells, answer, ids
  <2>4. CASE ids # {}
    <3>1. Least(ids) \in Nat
      BY <2>2, <2>4, LeastIn
    <3>2. answer.length = Cardinality(ids) /\ answer.fromLogId = Least(ids)
      BY <2>1, <2>4 DEF Tells
    <3>3. answer.fromLogId # RANGE_NOTHING_LOGGED
      BY <3>1, <3>2 DEF RANGE_NOTHING_LOGGED
    <3> QED
      BY <2>1, <3>2, <3>3 DEF answer, ids
  <2> QED
    BY <2>3, <2>4
<1> QED
  BY <1>1, <1>2

LEMMA MessagesAre ==
  ASSUME LogInv, NEW t, NEW s, Enumerates(s, FinalMutations(log, written, t))
  PROVE  Messages(t) = s
<1> DEFINE S == FinalMutations(log, written, t)
           ids == {id \in LogIds(t) : written[id + 1].digested}
<1>1. ids = S
  BY LogIdsAre
<1>2. Messages(t) = [n \in 1 .. Cardinality(ids) |->
                       CHOOSE id \in ids : Cardinality({i \in ids : i < id}) = n - 1]
  BY DEF Messages
<1> HIDE DEF S, ids
<1>3. Enumerates(s, ids)
  BY <1>1 DEF S
<1> QED
  BY <1>2, <1>3, ByRank

LEMMA DigestsHold == LogInv => DigestsCoverMutations
<1> SUFFICES ASSUME LogInv, NEW t \in FinalTicks
             PROVE  log.digests[t] = [n \in 1 .. t - log.tickBegin + 1 |-> Messages(log.tickBegin + n - 1)]
  BY DEF DigestsCoverMutations
<1> DEFINE d == log.digests[t]
<1>1. /\ d \in Seq(Seq(Nat)) /\ Len(d) = t - log.tickBegin + 1
      /\ \A n \in 1 .. Len(d) : Enumerates(d[n], FinalMutations(log, written, log.tickBegin + n - 1))
  BY DEF FinalTicks, LogInv, Sound, DigestsCover
<1> HIDE DEF d
<1>2. \A n \in 1 .. Len(d) : Messages(log.tickBegin + n - 1) = d[n]
  BY <1>1, MessagesAre
<1>3. d = [n \in 1 .. Len(d) |-> d[n]]
  BY <1>1
<1> QED
  BY <1>1, <1>2, <1>3 DEF d

-----------------------------------------------------------------------------
(* The theorems.                                                           *)

\* Whatever is logged, paused, deployed, evicted and pruned, and however epochs and
\* ticks follow each other, no call on the store is refused for the tick it names: a
\* node halts over its log only when a record did not fit.
THEOREM HaltTheorem == Spec => []OnlyOverflowHalts
<1>1. LogInv => OnlyOverflowHalts
  BY DEF LogInv, PhaseInv, OnlyOverflowHalts
<1> QED
  BY <1>1, LogInvHolds, PTL

\* The bytes the retention limit is enforced with are those of the kept records and
\* never more than the limit, and a tick that is not reported as evicted has all of
\* its records but those a client pruned.
THEOREM RetentionTheorem == Spec => []RetentionIsExact
BY RetentionHolds, LogInvHolds, PTL

\* What a client is told about a final tick is true: its ranges count the records
\* written under them from the first one on, name exactly them where the phase runs in
\* one stretch, and where it is BEGIN_TICK nothing else but a construction's; a tick
\* reads as not retained only when it had records and all are gone.
THEOREM RangesTheorem == Spec => []RangesTellTheTruth
BY RangesHold, SplitInvHolds, PTL

\* The digest of a final tick chains the digested messages of every tick since the
\* epoch began, in the order they were logged, also of records that are no longer kept.
THEOREM DigestTheorem == Spec => []DigestsCoverMutations
BY DigestsHold, LogInvHolds, PTL
=============================================================================
