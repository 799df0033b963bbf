-------------------------- MODULE TickEngine_proofs --------------------------
(***************************************************************************)
(* Proofs about TickEngine, for any names, clients, sizes of a tick,       *)
(* lengths of an epoch and of the history, and any number of ticks; and    *)
(* that every step of it is a step of TxLife or leaves TxLife alone.       *)
(***************************************************************************)
EXTENDS TickRefinement, FiniteSetTheorems, SequenceTheorems, TLAPS

Distinct(s) == \A p, q \in DOMAIN s : s[p] = s[q] => p = q
Union(f) == UNION {Elements(f[t]) : t \in Ticks}

\* A fault is terminal, what was taken out of the mempool is run before the tick
\* goes on, and finalization is one tick behind while a tick runs.
PhasesAgree ==
  /\ terminalFault <=> phase = "halted"
  /\ phase \notin {"drain", "halted"} => draining = << >>
  /\ initialTick <= currentTick /\ lastFinalizedTick <= currentTick
  /\ phase \notin {"idle", "halted"} => lastFinalizedTick = currentTick - 1

\* A broadcast that was let in is for a tick of its epoch or of an earlier one.
PendingIsInEpoch ==
  \A c \in Clients : broadcasts[c] # NoTx => Scheduled(broadcasts[c]) <= EpochLastTick

\* No queue holds a transaction twice, and what is taken out is for this tick.
QueuesAreSets ==
  /\ \A t \in Ticks : Distinct(mempool[t]) /\ Distinct(byTick[t])
  /\ Distinct(draining)
  /\ \A tx \in Elements(draining) : Scheduled(tx) = currentTick

\* The part of IndicesAgree about a running node, without cardinalities.
PlacesAgree ==
  phase # "halted" =>
    /\ knownIds = Queued \cup Elements(draining) \cup Recorded
    /\ rawTransactions = knownIds
    /\ Queued \cap Recorded = {} /\ Elements(draining) \cap (Queued \cup Recorded) = {}
    /\ \A t, u \in Ticks : t # u => Elements(byTick[t]) \cap Elements(byTick[u]) = {}

\* What has run is remembered in its tick or a later one, until that is pruned.
RunsAreRemembered ==
  /\ \A t \in Ticks : \A tx \in Elements(byTick[t]) : Scheduled(tx) <= t
  /\ \A tx \in Txs : runs[tx] > 0 => tx \in Recorded \/ Scheduled(tx) <= prunedThroughTick

\* What was signed for a tick that is not pruned comes first in its records.
SignedComesFirst ==
  \A t \in 0 .. lastFinalizedTick : t > prunedThroughTick => Seqs!IsPrefix(tickData[t], byTick[t])

TickInv ==
  /\ TypeOK /\ PhasesAgree /\ PendingIsInEpoch /\ QueuedIsAhead /\ QueuesAreSets
  /\ PlacesAgree /\ RunsAreRemembered /\ RunsAtMostOnce /\ SignedComesFirst

(***************************************************************************)
(* Sequences and their elements.                                           *)
(***************************************************************************)

LEMMA TickBounds ==
  MaxTick \in Nat /\ TxsPerTick \in Nat /\ EpochLength \in Nat /\ HistoryTicks \in Nat
  /\ HistoryTicks > 0 /\ TxsPerTick > 0 /\ Ticks \subseteq Nat /\ 0 \in Ticks
BY TickConstants DEF Ticks

LEMMA ScheduledType == \A tx \in Txs : Scheduled(tx) \in Ticks
BY DEF Txs, Scheduled

LEMMA ElementsEmpty == Elements(<< >>) = {} /\ Distinct(<< >>)
BY DEF Elements, Distinct

LEMMA ElementsOf ==
  ASSUME NEW S, NEW s \in Seq(S)
  PROVE  Elements(s) \subseteq S
BY DEF Elements

LEMMA ElementsAppend ==
  ASSUME NEW S, NEW s \in Seq(S), NEW x \in S
  PROVE  /\ Append(s, x) \in Seq(S) /\ Len(Append(s, x)) = Len(s) + 1
         /\ Elements(Append(s, x)) = Elements(s) \cup {x}
         /\ Distinct(s) /\ x \notin Elements(s) => Distinct(Append(s, x))
         /\ Seqs!IsPrefix(s, Append(s, x))
<1> DEFINE a == Append(s, x)
<1>1. a \in Seq(S) /\ Len(a) = Len(s) + 1 /\ Len(s) \in Nat
  OBVIOUS
<1>2. \A p \in 1 .. Len(s) : a[p] = s[p]
  OBVIOUS
<1>3. a[Len(s) + 1] = x
  OBVIOUS
<1>4. DOMAIN s = 1 .. Len(s) /\ DOMAIN a = 1 .. Len(s) + 1
  BY <1>1
<1> HIDE DEF a
<1>5. Elements(a) = Elements(s) \cup {x}
  <2>1. DOMAIN a = DOMAIN s \cup {Len(s) + 1}
    BY <1>1, <1>4
  <2>2. Elements(a) = {a[p] : p \in DOMAIN s} \cup {a[Len(s) + 1]}
    BY <2>1 DEF Elements
  <2>3. {a[p] : p \in DOMAIN s} = {s[p] : p \in DOMAIN s}
    BY <1>2, <1>4
  <2> QED
    BY <2>2, <2>3, <1>3 DEF Elements
<1>6. ASSUME Distinct(s), x \notin Elements(s) PROVE Distinct(a)
  <2> SUFFICES ASSUME NEW p \in DOMAIN a, NEW q \in DOMAIN a, a[p] = a[q] PROVE p = q
    BY DEF Distinct
  <2>1. \A r \in DOMAIN s : a[r] = s[r] /\ s[r] # x
    BY <1>2, <1>4, <1>6 DEF Elements
  <2>2. \A r \in DOMAIN a : r \in DOMAIN s \/ r = Len(s) + 1
    BY <1>4, <1>1
  <2>3. CASE p \in DOMAIN s /\ q \in DOMAIN s
    BY <2>1, <2>3, <1>6 DEF Distinct
  <2> QED
    BY <2>1, <2>2, <2>3, <1>3
<1>7. Seqs!IsPrefix(s, a)
  <2>1. SubSeq(s, 1, Len(s)) = s /\ SubSeq(a, 1, Len(s)) = s
    BY <1>1, <1>2
  <2> QED
    BY <2>1, <1>1 DEF Seqs!IsPrefix
<1> QED
  BY <1>1, <1>5, <1>6, <1>7 DEF a

LEMMA PrefixItself ==
  ASSUME NEW S, NEW s \in Seq(S)
  PROVE  Seqs!IsPrefix(s, s)
BY DEF Seqs!IsPrefix

LEMMA PrefixTransitive ==
  ASSUME NEW S, NEW r \in Seq(S), NEW s \in Seq(S), NEW t \in Seq(S),
         Seqs!IsPrefix(r, s), Seqs!IsPrefix(s, t)
  PROVE  Seqs!IsPrefix(r, t)
<1>1. /\ Len(r) <= Len(s) /\ \A p \in 1 .. Len(r) : r[p] = s[p]
      /\ Len(s) <= Len(t) /\ \A p \in 1 .. Len(s) : s[p] = t[p]
  BY DEF Seqs!IsPrefix
<1> QED
  BY <1>1 DEF Seqs!IsPrefix

LEMMA ElementsHeadTail ==
  ASSUME NEW S, NEW s \in Seq(S), s # << >>
  PROVE  /\ Head(s) \in S /\ Tail(s) \in Seq(S) /\ Head(s) \in Elements(s)
         /\ Elements(s) = {Head(s)} \cup Elements(Tail(s))
         /\ Distinct(s) => Distinct(Tail(s)) /\ Head(s) \notin Elements(Tail(s))
<1> DEFINE h == Head(s)
           t == Tail(s)
<1>1. h \in S /\ h = s[1] /\ t \in Seq(S) /\ Len(t) = Len(s) - 1 /\ Len(s) \in Nat \ {0}
  OBVIOUS
<1>2. \A p \in 1 .. Len(s) - 1 : t[p] = s[p + 1]
  OBVIOUS
<1>3. DOMAIN s = 1 .. Len(s) /\ DOMAIN t = 1 .. Len(s) - 1
  BY <1>1
<1> HIDE DEF h, t
<1>4. \A p \in DOMAIN s : p = 1 \/ (p - 1 \in DOMAIN t /\ s[p] = t[p - 1])
  BY <1>1, <1>2, <1>3
<1>5. \A p \in DOMAIN t : p + 1 \in DOMAIN s /\ t[p] = s[p + 1] /\ p + 1 # 1
  BY <1>1, <1>2, <1>3
<1>6. Elements(s) = {h} \cup Elements(t)
  BY <1>1, <1>3, <1>4, <1>5 DEF Elements
<1>7. ASSUME Distinct(s) PROVE Distinct(t) /\ h \notin Elements(t)
  <2>1. \A p, q \in DOMAIN t : t[p] = t[q] => p = q
    BY <1>5, <1>7, <1>3 DEF Distinct
  <2>2. \A p \in DOMAIN t : t[p] # h
    BY <1>5, <1>7, <1>3, <1>1 DEF Distinct
  <2> QED
    BY <2>1, <2>2 DEF Distinct, Elements
<1> QED
  BY <1>1, <1>6, <1>7 DEF h, t

\* A sequence without repetitions has as many elements as places.
LEMMA DistinctCardinality ==
  ASSUME NEW S, NEW s \in Seq(S), Distinct(s)
  PROVE  Cardinality(Elements(s)) = Len(s)
<1>1. DOMAIN s = 1 .. Len(s) /\ Len(s) \in Nat
  OBVIOUS
<1>2. s \in [1 .. Len(s) -> Elements(s)]
  BY <1>1 DEF Elements
<1>3. s \in Bijection(1 .. Len(s), Elements(s))
  BY <1>1, <1>2 DEF Bijection, Injection, Surjection, IsInjective, Elements, Distinct
<1>4. ExistsBijection(1 .. Len(s), Elements(s))
  BY <1>3 DEF ExistsBijection
<1> QED
  BY <1>1, <1>4, FS_CountingElements

\* What lies in any of the sequences, when one of them grows or is emptied.
LEMMA InUnion ==
  ASSUME NEW f, NEW x
  PROVE  x \in Union(f) <=> \E t \in Ticks : x \in Elements(f[t])
BY DEF Union

Appended(f, t, tx) == [f EXCEPT ![t] = Append(@, tx)]
Emptied(f, S) == [t \in Ticks |-> IF t \in S THEN << >> ELSE f[t]]

LEMMA AppendedAt ==
  ASSUME NEW f \in [Ticks -> Seq(Txs)], NEW t \in Ticks, NEW tx \in Txs, NEW u \in Ticks
  PROVE  /\ Appended(f, t, tx)[u] = IF u = t THEN Append(f[t], tx) ELSE f[u]
         /\ Len(Appended(f, t, tx)[u]) = IF u = t THEN Len(f[t]) + 1 ELSE Len(f[u])
         /\ Distinct(f[u]) /\ (u = t => tx \notin Elements(f[t])) => Distinct(Appended(f, t, tx)[u])
         /\ Seqs!IsPrefix(f[u], Appended(f, t, tx)[u])
<1>1. Appended(f, t, tx)[u] = IF u = t THEN Append(f[t], tx) ELSE f[u]
  BY DEF Appended
<1>2. f[u] \in Seq(Txs) /\ f[t] \in Seq(Txs)
  OBVIOUS
<1>3. CASE u = t
  <2> DEFINE a == Append(f[t], tx)
  <2>1. /\ Len(a) = Len(f[t]) + 1 /\ Elements(a) = Elements(f[t]) \cup {tx}
        /\ Distinct(f[t]) /\ tx \notin Elements(f[t]) => Distinct(a)
        /\ Seqs!IsPrefix(f[t], a)
    BY <1>2, ElementsAppend
  <2>2. Appended(f, t, tx)[u] = a
    BY <1>1, <1>3
  <2> HIDE DEF a
  <2>3. Len(Appended(f, t, tx)[u]) = Len(f[t]) + 1
    BY <2>1, <2>2
  <2> QED
    BY <1>1, <1>3, <2>1, <2>2, <2>3
<1>4. CASE u # t
  BY <1>1, <1>2, <1>4, PrefixItself
<1> QED
  BY <1>3, <1>4

LEMMA AppendedElements ==
  ASSUME NEW f \in [Ticks -> Seq(Txs)], NEW t \in Ticks, NEW tx \in Txs, NEW u \in Ticks, NEW x
  PROVE  x \in Elements(Appended(f, t, tx)[u]) <=> x \in Elements(f[u]) \/ (u = t /\ x = tx)
<1>1. Appended(f, t, tx)[u] = IF u = t THEN Append(f[t], tx) ELSE f[u]
  BY DEF Appended
<1>2. Elements(Append(f[t], tx)) = Elements(f[t]) \cup {tx}
  BY ElementsAppend
<1>3. CASE u = t
  BY <1>1, <1>2, <1>3
<1>4. CASE u # t
  BY <1>1, <1>4
<1> QED
  BY <1>3, <1>4

LEMMA UnionAppend ==
  ASSUME NEW f \in [Ticks -> Seq(Txs)], NEW t \in Ticks, NEW tx \in Txs
  PROVE  /\ Appended(f, t, tx) \in [Ticks -> Seq(Txs)]
         /\ Union(Appended(f, t, tx)) = Union(f) \cup {tx}
<1> DEFINE g == Appended(f, t, tx)
<1>1. g \in [Ticks -> Seq(Txs)]
  BY ElementsAppend DEF Appended
<1>2. \A u \in Ticks : \A x : x \in Elements(g[u]) <=> x \in Elements(f[u]) \/ (u = t /\ x = tx)
  BY AppendedElements
<1> HIDE DEF g
<1>3. \A x : x \in Union(g) <=> x \in Union(f) \/ x = tx
  BY <1>2, InUnion
<1>4. Union(g) = Union(f) \cup {tx}
  BY <1>3
<1> QED
  BY <1>1, <1>4 DEF g

LEMMA EmptiedAt ==
  ASSUME NEW f, NEW S, NEW u \in Ticks
  PROVE  /\ Emptied(f, S)[u] = IF u \in S THEN << >> ELSE f[u]
         /\ Elements(Emptied(f, S)[u]) = IF u \in S THEN {} ELSE Elements(f[u])
         /\ Distinct(f[u]) => Distinct(Emptied(f, S)[u])
<1>1. Emptied(f, S)[u] = IF u \in S THEN << >> ELSE f[u]
  BY DEF Emptied
<1> QED
  BY <1>1, ElementsEmpty

LEMMA UnionEmptied ==
  ASSUME NEW f \in [Ticks -> Seq(Txs)], NEW S
  PROVE  /\ Emptied(f, S) \in [Ticks -> Seq(Txs)]
         /\ Union(Emptied(f, S)) = UNION {Elements(f[u]) : u \in Ticks \ S}
<1> DEFINE g == Emptied(f, S)
<1>1. g \in [Ticks -> Seq(Txs)]
  BY DEF Emptied
<1>2. \A u \in Ticks : Elements(g[u]) = IF u \in S THEN {} ELSE Elements(f[u])
  BY EmptiedAt
<1> HIDE DEF g
<1>3. Union(g) = UNION {Elements(f[u]) : u \in Ticks \ S}
  BY <1>2 DEF Union
<1> QED
  BY <1>1, <1>3 DEF g

LEMMA Unions ==
  /\ Recorded = Union(byTick) /\ Queued = Union(mempool)
  /\ Recorded' = Union(byTick') /\ Queued' = Union(mempool')
BY DEF Recorded, Queued, Union

(***************************************************************************)
(* The invariant, action by action.                                        *)
(***************************************************************************)

LEMMA Numbers ==
  ASSUME TypeOK
  PROVE  /\ currentTick \in Nat /\ currentTick <= MaxTick /\ initialTick \in Nat
         /\ lastFinalizedTick \in Nat /\ prunedThroughTick \in Int
         /\ MaxTick \in Nat /\ EpochLength \in Nat /\ HistoryTicks \in Nat \ {0}
BY TickConstants DEF TypeOK, Ticks

LEMMA TickInit == Init => TickInv
<1> SUFFICES ASSUME Init PROVE TickInv
  OBVIOUS
<1> USE TickBounds
<1>1. \A t \in Ticks : mempool[t] = << >> /\ byTick[t] = << >> /\ tickData[t] = << >>
  BY DEF Init
<1>2. Recorded = {} /\ Queued = {} /\ Elements(draining) = {}
  BY <1>1, ElementsEmpty DEF Init, Recorded, Queued
<1>3. TypeOK
  BY <1>1, NoTxAssumption DEF Init, TypeOK, Phases
<1>4. PhasesAgree /\ PendingIsInEpoch
  BY DEF Init, PhasesAgree, PendingIsInEpoch
<1>5. QueuedIsAhead
  BY <1>1, ElementsEmpty DEF Init, QueuedIsAhead, EpochsKeepTheirLength
<1>6. QueuesAreSets /\ PlacesAgree
  BY <1>1, <1>2, ElementsEmpty DEF Init, QueuesAreSets, PlacesAgree
<1>7. RunsAreRemembered /\ RunsAtMostOnce
  BY <1>1, ElementsEmpty DEF Init, RunsAreRemembered, RunsAtMostOnce
<1>8. SignedComesFirst
  BY <1>1, PrefixItself DEF Init, SignedComesFirst
<1> QED
  BY <1>3, <1>4, <1>5, <1>6, <1>7, <1>8 DEF TickInv

LEMMA BroadcastTxKeeps ==
  ASSUME TickInv, NEW c \in Clients, NEW tx \in Txs, BroadcastTx(c, tx)
  PROVE  TickInv'
<1> USE TickBounds DEF TickInv
<1>1. TypeOK'
  BY DEF TypeOK, BroadcastTx, epochVars, finalVars, poolVars
<1>2. PhasesAgree'
  BY DEF PhasesAgree, BroadcastTx, epochVars, finalVars, poolVars
<1>3. PendingIsInEpoch'
  BY NoTxAssumption DEF TypeOK, PendingIsInEpoch, BroadcastTx, InWindow, EpochLastTick, epochVars
<1>4. QueuedIsAhead'
  BY DEF QueuedIsAhead, EpochsKeepTheirLength, BroadcastTx, epochVars, finalVars, poolVars
<1>5. Queued' = Queued /\ Recorded' = Recorded
  BY DEF Queued, Recorded, BroadcastTx, poolVars
<1>6. QueuesAreSets' /\ PlacesAgree' /\ RunsAreRemembered' /\ RunsAtMostOnce' /\ SignedComesFirst'
  BY <1>5 DEF QueuesAreSets, PlacesAgree, RunsAreRemembered, RunsAtMostOnce, SignedComesFirst,
              BroadcastTx, epochVars, finalVars, poolVars
<1> QED
  BY <1>1, <1>2, <1>3, <1>4, <1>6

LEMMA EndBroadcastKeeps ==
  ASSUME TickInv, NEW c \in Clients, EndBroadcast(c)
  PROVE  /\ broadcasts[c] \in Txs /\ Scheduled(broadcasts[c]) \in Ticks
         /\ Scheduled(broadcasts[c]) <= EpochLastTick
         /\ broadcasts' \in [Clients -> Txs \cup {NoTx}]
         /\ PendingIsInEpoch'
         /\ ~terminalFault => phase = "idle" /\ draining = << >>
<1>1. broadcasts[c] \in Txs /\ broadcasts' \in [Clients -> Txs \cup {NoTx}]
  BY DEF TickInv, TypeOK, EndBroadcast
<1>2. PendingIsInEpoch'
  BY DEF TickInv, TypeOK, PendingIsInEpoch, EndBroadcast, EpochLastTick, epochVars
<1> QED
  BY <1>1, <1>2, ScheduledType DEF TickInv, PendingIsInEpoch, EndBroadcast, PhasesAgree

LEMMA RefuseBroadcastKeeps ==
  ASSUME TickInv, NEW c \in Clients, RefuseBroadcast(c)
  PROVE  TickInv'
<1> USE TickBounds DEF TickInv
<1>0. EndBroadcast(c)
  BY DEF RefuseBroadcast
<1>1. TypeOK'
  BY <1>0, EndBroadcastKeeps DEF TypeOK, RefuseBroadcast, EndBroadcast, epochVars, finalVars, poolVars
<1>2. PhasesAgree' /\ QueuedIsAhead'
  BY <1>0 DEF PhasesAgree, QueuedIsAhead, EpochsKeepTheirLength, RefuseBroadcast, EndBroadcast,
              epochVars, finalVars, poolVars
<1>3. PendingIsInEpoch'
  BY <1>0, EndBroadcastKeeps
<1>4. Queued' = Queued /\ Recorded' = Recorded
  BY DEF Queued, Recorded, RefuseBroadcast, poolVars
<1>5. QueuesAreSets' /\ PlacesAgree' /\ RunsAreRemembered' /\ RunsAtMostOnce' /\ SignedComesFirst'
  BY <1>0, <1>4 DEF QueuesAreSets, PlacesAgree, RunsAreRemembered, RunsAtMostOnce,
              SignedComesFirst, RefuseBroadcast, EndBroadcast, epochVars, finalVars, poolVars
<1> QED
  BY <1>1, <1>2, <1>3, <1>5

LEMMA QueueBroadcastKeeps ==
  ASSUME TickInv, NEW c \in Clients, QueueBroadcast(c)
  PROVE  TickInv'
<1> USE TickBounds
<1> DEFINE tx == broadcasts[c]
           t == Scheduled(tx)
<1>0. EndBroadcast(c) /\ ~terminalFault /\ ~IsLate(tx) /\ ~RefusedAsDuplicate(tx)
  BY DEF QueueBroadcast
<1>1. tx \in Txs /\ t \in Ticks /\ t <= EpochLastTick /\ phase = "idle" /\ draining = << >>
      /\ PendingIsInEpoch' /\ broadcasts' \in [Clients -> Txs \cup {NoTx}] /\ TypeOK
  BY <1>0, EndBroadcastKeeps DEF TickInv
<1>2. t > currentTick /\ tx \notin knownIds
  <2>1. t \in Nat /\ currentTick \in Nat
    BY <1>1, Numbers
  <2> QED
    BY <2>1, <1>0 DEF IsLate, RefusedAsDuplicate
<1>3. /\ mempool' = Appended(mempool, t, tx) /\ knownIds' = knownIds \cup {tx}
      /\ rawTransactions' = rawTransactions \cup {tx} /\ Len(mempool[t]) < TxsPerTick
      /\ UNCHANGED <<phase, terminalFault, draining, byTick, prunedThroughTick, runs>>
      /\ UNCHANGED <<currentTick, currentEpoch, initialTick, lastFinalizedTick,
                     lastFinalizedEpoch, tickData>>
  BY <1>0 DEF QueueBroadcast, EndBroadcast, epochVars, finalVars, Appended
<1>4. mempool \in [Ticks -> Seq(Txs)]
  BY <1>1 DEF TypeOK
<1>5. Scheduled(tx) = t
  OBVIOUS
<1> HIDE DEF tx, t
<1>6. mempool' \in [Ticks -> Seq(Txs)] /\ Queued' = Queued \cup {tx} /\ Recorded' = Recorded
  BY <1>1, <1>3, <1>4, UnionAppend, Unions
<1>7. knownIds = Queued \cup Recorded /\ tx \notin Queued /\ tx \notin Recorded
  BY <1>1, <1>2, ElementsEmpty DEF TickInv, PlacesAgree
<1>8. TypeOK'
  <2>1. \A u \in Ticks : Len(mempool[u]) \in Nat /\ Len(mempool[u]) <= TxsPerTick
    BY <1>1, <1>4 DEF TypeOK
  <2>2. \A u \in Ticks : Len(mempool'[u]) = IF u = t THEN Len(mempool[t]) + 1 ELSE Len(mempool[u])
    BY <1>1, <1>3, <1>4, AppendedAt
  <2>3. \A u \in Ticks : Len(mempool'[u]) <= TxsPerTick
    BY <2>1, <2>2, <1>1, <1>3
  <2> QED
    BY ONLY <2>3, <1>1, <1>3, <1>6, TypeOK DEF TypeOK
<1>9. PhasesAgree'
  BY <1>3 DEF TickInv, PhasesAgree
<1>10. QueuedIsAhead'
  <2>1. EpochsKeepTheirLength'
    BY <1>3 DEF TickInv, QueuedIsAhead, EpochsKeepTheirLength
  <2>2. t <= initialTick + EpochLength
    BY <1>1, ScheduledType, Numbers DEF EpochLastTick
  <2>3. \A u \in Ticks : \A x : x \in Elements(mempool'[u])
          <=> x \in Elements(mempool[u]) \/ (u = t /\ x = tx)
    <3>1. tx \in Txs /\ t \in Ticks /\ mempool' = Appended(mempool, t, tx)
      BY <1>1, <1>3
    <3> QED
      BY ONLY <3>1, <1>4, AppendedElements
  <2> QED
    BY <2>1, <2>2, <2>3, <1>2, <1>3, <1>5 DEF TickInv, QueuedIsAhead
<1>11. QueuesAreSets'
  <2>1. tx \notin Elements(mempool[t])
    BY <1>1, <1>7 DEF Queued
  <2>2. \A u \in Ticks : Distinct(mempool[u]) => Distinct(mempool'[u])
    BY <2>1, <1>1, <1>3, <1>4, AppendedAt
  <2> QED
    BY <2>2, <1>3 DEF TickInv, QueuesAreSets
<1>12. PlacesAgree'
  BY <1>1, <1>3, <1>6, <1>7, ElementsEmpty DEF TickInv, PlacesAgree
<1>13. RunsAreRemembered' /\ RunsAtMostOnce' /\ SignedComesFirst'
  BY <1>3, <1>6 DEF TickInv, RunsAreRemembered, RunsAtMostOnce, SignedComesFirst
<1> QED
  BY <1>1, <1>8, <1>9, <1>10, <1>11, <1>12, <1>13 DEF TickInv

\* What holds after a transaction has run, on its tick or late.
LEMMA RunKeeps ==
  ASSUME TickInv, phase # "halted", NEW tx \in Txs, RunTransaction(tx),
         tx \notin Recorded, Scheduled(tx) <= currentTick, ~TickIsFull(currentTick),
         UNCHANGED <<prunedThroughTick, currentTick, lastFinalizedTick, tickData>>
  PROVE  /\ byTick' \in [Ticks -> Seq(Txs)] /\ \A t \in Ticks : Len(byTick'[t]) <= TxsPerTick
         /\ knownIds' = knownIds \cup {tx} /\ runs' \in [Txs -> Nat]
         /\ Recorded' = Recorded \cup {tx} /\ \A t \in Ticks : Distinct(byTick'[t])
         /\ \A t, u \in Ticks : t # u => Elements(byTick'[t]) \cap Elements(byTick'[u]) = {}
         /\ RunsAreRemembered' /\ RunsAtMostOnce' /\ SignedComesFirst'
<1> USE TickBounds
<1>1. /\ byTick' = Appended(byTick, currentTick, tx) /\ knownIds' = knownIds \cup {tx}
      /\ runs' = [runs EXCEPT ![tx] = @ + 1]
  BY DEF RunTransaction, Appended
<1>2. /\ byTick \in [Ticks -> Seq(Txs)] /\ currentTick \in Ticks /\ runs \in [Txs -> Nat]
      /\ tickData \in [Ticks -> Seq(Txs)]
  BY DEF TickInv, TypeOK
<1>3. byTick' \in [Ticks -> Seq(Txs)] /\ Recorded' = Recorded \cup {tx}
  BY <1>1, <1>2, UnionAppend, Unions
<1>4. \A t \in Ticks : Len(byTick'[t]) <= TxsPerTick
  <2>1. \A t \in Ticks : Len(byTick[t]) \in Nat /\ Len(byTick[t]) <= TxsPerTick
    BY <1>2 DEF TickInv, TypeOK
  <2>2. Len(byTick[currentTick]) < TxsPerTick
    BY <2>1, <1>2 DEF TickIsFull
  <2>3. \A t \in Ticks : Len(byTick'[t]) = IF t = currentTick THEN Len(byTick[currentTick]) + 1
                                           ELSE Len(byTick[t])
    <3> SUFFICES ASSUME NEW t \in Ticks
                 PROVE  Len(byTick'[t]) = IF t = currentTick THEN Len(byTick[currentTick]) + 1
                                          ELSE Len(byTick[t])
      OBVIOUS
    <3>1. byTick'[t] = IF t = currentTick THEN Append(byTick[currentTick], tx) ELSE byTick[t]
      BY <1>1, <1>2 DEF Appended
    <3>2. byTick[currentTick] \in Seq(Txs)
      BY <1>2
    <3>3. Len(Append(byTick[currentTick], tx)) = Len(byTick[currentTick]) + 1
      BY <3>2
    <3> QED
      BY <3>1, <3>3
  <2>4. ASSUME NEW t \in Ticks PROVE Len(byTick'[t]) <= TxsPerTick
    <3>1. CASE t = currentTick
      BY <2>2, <2>3, <2>1, <3>1
    <3>2. CASE t # currentTick
      BY <2>3, <2>1, <3>2
    <3> QED
      BY <3>1, <3>2
  <2> QED
    BY <2>4
<1>5. \A t \in Ticks : \A x : x \in Elements(byTick'[t])
        <=> x \in Elements(byTick[t]) \/ (t = currentTick /\ x = tx)
  BY <1>1, <1>2, AppendedElements
<1>6. \A t \in Ticks : tx \notin Elements(byTick[t])
  BY DEF Recorded
<1>7. \A t \in Ticks : Distinct(byTick'[t]) /\ Seqs!IsPrefix(byTick[t], byTick'[t])
  <2>1. \A t \in Ticks : Distinct(byTick[t])
    BY DEF TickInv, QueuesAreSets
  <2> SUFFICES ASSUME NEW t \in Ticks
               PROVE  Distinct(byTick'[t]) /\ Seqs!IsPrefix(byTick[t], byTick'[t])
    OBVIOUS
  <2> DEFINE a == Appended(byTick, currentTick, tx)[t]
  <2>2. /\ Distinct(byTick[t]) /\ (t = currentTick => tx \notin Elements(byTick[currentTick])) => Distinct(a)
        /\ Seqs!IsPrefix(byTick[t], a)
    BY ONLY <1>2, tx \in Txs, t \in Ticks, AppendedAt
  <2>3. a = byTick'[t]
    BY <1>1
  <2> HIDE DEF a
  <2> QED
    BY <2>1, <2>2, <2>3, <1>2, <1>6
<1>8. \A t, u \in Ticks : t # u => Elements(byTick'[t]) \cap Elements(byTick'[u]) = {}
  <2>1. \A t, u \in Ticks : t # u => \A x : ~(x \in Elements(byTick[t]) /\ x \in Elements(byTick[u]))
    BY DEF TickInv, PlacesAgree
  <2> QED
    BY ONLY <2>1, <1>5, <1>6
<1>9. RunsAreRemembered'
  <2>1. \A x \in Txs : runs'[x] > 0 => runs[x] > 0 \/ x = tx
    BY <1>1, <1>2
  <2> QED
    BY <2>1, <1>3, <1>5 DEF TickInv, RunsAreRemembered
<1>10. RunsAtMostOnce'
  <2>1. \A x \in Txs : runs'[x] > 1 => runs[x] > 1 \/ (x = tx /\ runs[x] > 0)
    BY <1>1, <1>2
  <2>2. runs[tx] > 0 => Scheduled(tx) <= prunedThroughTick
    BY DEF TickInv, RunsAreRemembered
  <2> QED
    BY <2>1, <2>2 DEF TickInv, RunsAtMostOnce
<1>11. SignedComesFirst'
  <2> SUFFICES ASSUME NEW t \in 0 .. lastFinalizedTick, t > prunedThroughTick
               PROVE  Seqs!IsPrefix(tickData[t], byTick'[t])
    BY DEF SignedComesFirst
  <2>1. t \in Ticks
    BY Numbers DEF TickInv, PhasesAgree, Ticks
  <2>2. Seqs!IsPrefix(tickData[t], byTick[t]) /\ Seqs!IsPrefix(byTick[t], byTick'[t])
    BY <2>1, <1>7 DEF TickInv, SignedComesFirst
  <2>3. tickData[t] \in Seq(Txs) /\ byTick[t] \in Seq(Txs) /\ byTick'[t] \in Seq(Txs)
    BY <2>1, <1>2, <1>3
  <2> QED
    BY <2>2, <2>3, PrefixTransitive
<1>12. runs' \in [Txs -> Nat]
  BY <1>1, <1>2
<1> QED
  BY ONLY <1>1, <1>3, <1>4, <1>7, <1>8, <1>9, <1>10, <1>11, <1>12

\* A fault changes nothing but the phase.
LEMMA HaltKeeps ==
  ASSUME TickInv, Halt, draining' = draining \/ (draining # << >> /\ draining' = Tail(draining)),
         broadcasts' \in [Clients -> Txs \cup {NoTx}], PendingIsInEpoch',
         UNCHANGED <<currentTick, epochVars, finalVars, mempool, byTick, knownIds,
                     prunedThroughTick, rawTransactions, runs>>
  PROVE  TickInv'
<1> USE TickBounds
<1>1. TypeOK /\ phase' = "halted" /\ terminalFault' = TRUE
  BY DEF TickInv, Halt
<1>2. draining' \in Seq(Txs) /\ Elements(draining') \subseteq Elements(draining)
      /\ (Distinct(draining) => Distinct(draining'))
  <2>1. draining \in Seq(Txs)
    BY <1>1 DEF TypeOK
  <2>2. CASE draining' = draining
    BY <2>1, <2>2
  <2>3. CASE draining # << >> /\ draining' = Tail(draining)
    BY <2>1, <2>3, ElementsHeadTail
  <2> QED
    BY <2>2, <2>3
<1>3. Recorded' = Recorded /\ Queued' = Queued
  BY DEF Recorded, Queued
<1>4. TypeOK'
  BY <1>1, <1>2 DEF TypeOK, Phases, epochVars, finalVars
<1>5. PhasesAgree'
  BY <1>1 DEF TickInv, PhasesAgree, epochVars, finalVars
<1>6. QueuedIsAhead'
  <2>1. EpochsKeepTheirLength'
    BY <1>1, Numbers DEF TickInv, QueuedIsAhead, EpochsKeepTheirLength, epochVars
  <2> QED
    BY <2>1, <1>1 DEF TickInv, QueuedIsAhead, epochVars
<1>7. QueuesAreSets' /\ PlacesAgree'
  BY <1>1, <1>2 DEF TickInv, QueuesAreSets, PlacesAgree
<1>8. RunsAreRemembered' /\ RunsAtMostOnce' /\ SignedComesFirst'
  BY <1>3 DEF TickInv, RunsAreRemembered, RunsAtMostOnce, SignedComesFirst, finalVars
<1> QED
  BY <1>4, <1>5, <1>6, <1>7, <1>8 DEF TickInv

LEMMA RunLateBroadcastKeeps ==
  ASSUME TickInv, NEW c \in Clients, RunLateBroadcast(c)
  PROVE  TickInv'
<1> USE TickBounds
<1> DEFINE tx == broadcasts[c]
<1>0. /\ EndBroadcast(c) /\ ~terminalFault /\ ~RefusedAsDuplicate(tx) /\ IsLate(tx)
      /\ ~TickIsFull(currentTick) /\ UNCHANGED <<mempool, draining, prunedThroughTick>>
      /\ UNCHANGED <<currentTick, epochVars, finalVars>>
  BY DEF RunLateBroadcast, EndBroadcast
<1>1. tx \in Txs /\ phase = "idle" /\ draining = << >>
      /\ PendingIsInEpoch' /\ broadcasts' \in [Clients -> Txs \cup {NoTx}] /\ TypeOK
  BY <1>0, EndBroadcastKeeps DEF TickInv
<1>2. tx \notin knownIds /\ Scheduled(tx) <= currentTick
  BY <1>0 DEF RefusedAsDuplicate, IsLate
<1>3. \/ /\ RunTransaction(tx) /\ rawTransactions' = rawTransactions \cup {tx}
         /\ UNCHANGED <<phase, terminalFault>>
      \/ Halt /\ UNCHANGED <<byTick, knownIds, runs, rawTransactions>>
  BY DEF RunLateBroadcast
<1> HIDE DEF tx
<1>4. CASE Halt /\ UNCHANGED <<byTick, knownIds, runs, rawTransactions>>
  BY <1>0, <1>1, <1>4, HaltKeeps
<1>5. CASE /\ RunTransaction(tx) /\ rawTransactions' = rawTransactions \cup {tx}
           /\ UNCHANGED <<phase, terminalFault>>
  <2>1. knownIds = Queued \cup Recorded /\ rawTransactions = knownIds
        /\ Queued \cap Recorded = {} /\ tx \notin Queued /\ tx \notin Recorded
    BY <1>1, <1>2, ElementsEmpty DEF TickInv, PlacesAgree
  <2>2. /\ byTick' \in [Ticks -> Seq(Txs)] /\ \A t \in Ticks : Len(byTick'[t]) <= TxsPerTick
        /\ knownIds' = knownIds \cup {tx} /\ runs' \in [Txs -> Nat]
        /\ Recorded' = Recorded \cup {tx} /\ \A t \in Ticks : Distinct(byTick'[t])
        /\ \A t, u \in Ticks : t # u => Elements(byTick'[t]) \cap Elements(byTick'[u]) = {}
        /\ RunsAreRemembered' /\ RunsAtMostOnce' /\ SignedComesFirst'
    BY <1>0, <1>1, <1>2, <1>5, <2>1, RunKeeps DEF finalVars
  <2>3. Queued' = Queued
    BY <1>0 DEF Queued
  <2>4. TypeOK'
    BY ONLY <1>0, <1>1, <1>5, <2>2, TypeOK DEF TypeOK, epochVars, finalVars
  <2>5. PhasesAgree' /\ QueuedIsAhead'
    BY <1>0, <1>5 DEF TickInv, PhasesAgree, QueuedIsAhead, EpochsKeepTheirLength, epochVars, finalVars
  <2>6. QueuesAreSets'
    BY <1>0, <2>2 DEF TickInv, QueuesAreSets
  <2>7. PlacesAgree'
    BY <1>0, <1>1, <1>5, <2>1, <2>2, <2>3, ElementsEmpty DEF PlacesAgree
  <2> QED
    BY <1>1, <2>2, <2>4, <2>5, <2>6, <2>7 DEF TickInv
<1> QED
  BY <1>3, <1>4, <1>5

LEMMA EnterTickKeeps ==
  ASSUME TickInv, EnterTick
  PROVE  TickInv'
<1> USE TickBounds
<1>1. /\ TypeOK /\ phase = "idle" /\ currentTick < MaxTick /\ currentTick' = currentTick + 1
      /\ phase' = IF SwitchesEpoch THEN "endEpoch" ELSE "beginTick"
      /\ UNCHANGED <<epochVars, finalVars, terminalFault, broadcasts, poolVars,
                     rawTransactions, runs>>
  BY DEF EnterTick, TickInv
<1>2. phase' \in {"endEpoch", "beginTick"} /\ draining = << >>
  BY <1>1 DEF TickInv, PhasesAgree
<1>3. /\ currentTick \in Nat /\ initialTick \in Nat /\ lastFinalizedTick \in Nat
      /\ MaxTick \in Nat /\ EpochLength \in Nat
  BY <1>1, Numbers
<1>4. TypeOK'
  <2>1. currentTick' \in Ticks
    BY <1>1, <1>3 DEF Ticks
  <2> QED
    BY <2>1, <1>1, <1>2 DEF TypeOK, Phases, epochVars, finalVars, poolVars
<1>5. PhasesAgree' /\ PendingIsInEpoch'
  <2>1. lastFinalizedTick = currentTick
    BY <1>1 DEF TickInv, QueuedIsAhead, EpochsKeepTheirLength
  <2> QED
    BY <2>1, <1>1, <1>2, <1>3 DEF TickInv, PhasesAgree, PendingIsInEpoch, EpochLastTick,
                                  epochVars, finalVars, poolVars
<1>6. QueuedIsAhead'
  <2>1. EpochsKeepTheirLength'
    <3>1. currentTick - initialTick <= EpochLength
      BY <1>1, <1>3 DEF TickInv, QueuedIsAhead, EpochsKeepTheirLength
    <3>2. CASE SwitchesEpoch
      BY <3>1, <3>2, <1>1, <1>3 DEF EpochsKeepTheirLength, epochVars
    <3>3. CASE ~SwitchesEpoch
      BY <3>3, <1>1, <1>3 DEF EpochsKeepTheirLength, SwitchesEpoch, epochVars
    <3> QED
      BY <3>2, <3>3
  <2>2. ASSUME NEW t \in Ticks, NEW tx \in Elements(mempool[t])
        PROVE  Scheduled(tx) = t /\ t > currentTick /\ t <= initialTick + EpochLength
    BY <1>1, <2>2 DEF TickInv, QueuedIsAhead
  <2> QED
    BY <2>1, <2>2, <1>1, <1>2, <1>3 DEF QueuedIsAhead, epochVars, poolVars
<1>7. Queued' = Queued /\ Recorded' = Recorded
  BY <1>1 DEF Queued, Recorded, poolVars
<1>8. QueuesAreSets' /\ PlacesAgree'
  BY <1>1, <1>2, <1>7, ElementsEmpty DEF TickInv, QueuesAreSets, PlacesAgree, poolVars
<1>9. RunsAreRemembered' /\ RunsAtMostOnce' /\ SignedComesFirst'
  BY <1>1, <1>7 DEF TickInv, RunsAreRemembered, RunsAtMostOnce, SignedComesFirst, finalVars, poolVars
<1> QED
  BY <1>4, <1>5, <1>6, <1>8, <1>9 DEF TickInv

LEMMA SwitchEpochKeeps ==
  ASSUME TickInv, SwitchEpoch
  PROVE  TickInv'
<1> USE TickBounds
<1>1. /\ TypeOK /\ phase = "endEpoch" /\ phase' = "beginTick" /\ currentEpoch' = currentEpoch + 1
      /\ initialTick' = currentTick
      /\ UNCHANGED <<currentTick, finalVars, terminalFault, broadcasts, poolVars,
                     rawTransactions, runs>>
  BY DEF SwitchEpoch, TickInv
<1>2. /\ currentTick \in Nat /\ initialTick \in Nat /\ EpochLength \in Nat
      /\ initialTick <= currentTick
  BY <1>1, Numbers DEF TickInv, PhasesAgree
<1>3. TypeOK'
  <2>1. /\ currentTick' = currentTick /\ lastFinalizedTick' = lastFinalizedTick
        /\ lastFinalizedEpoch' = lastFinalizedEpoch /\ terminalFault' = terminalFault
        /\ broadcasts' = broadcasts /\ mempool' = mempool /\ draining' = draining
        /\ byTick' = byTick /\ knownIds' = knownIds /\ prunedThroughTick' = prunedThroughTick
        /\ rawTransactions' = rawTransactions /\ tickData' = tickData /\ runs' = runs
    BY <1>1 DEF finalVars, poolVars
  <2>2. currentEpoch \in Nat /\ currentTick \in Ticks
    BY <1>1 DEF TypeOK
  <2>3. currentEpoch' \in Nat /\ initialTick' \in Ticks /\ phase' \in Phases
    BY <1>1, <2>2 DEF Phases
  <2> QED
    BY ONLY <1>1, <2>1, <2>3 DEF TypeOK
<1>4. PhasesAgree'
  BY <1>1, <1>2 DEF TickInv, PhasesAgree, finalVars, poolVars
<1>5. PendingIsInEpoch'
  <2> SUFFICES ASSUME NEW c \in Clients, broadcasts[c] # NoTx
               PROVE  Scheduled(broadcasts[c]) <= currentTick + EpochLength - 1
    BY <1>1 DEF PendingIsInEpoch, EpochLastTick
  <2>1. Scheduled(broadcasts[c]) \in Nat
    BY <1>1, ScheduledType DEF TypeOK
  <2>2. Scheduled(broadcasts[c]) <= initialTick + EpochLength - 1
    BY DEF TickInv, PendingIsInEpoch, EpochLastTick
  <2> QED
    BY <2>1, <2>2, <1>2
<1>6. QueuedIsAhead'
  <2>1. EpochsKeepTheirLength'
    BY <1>1, <1>2 DEF EpochsKeepTheirLength
  <2>2. ASSUME NEW t \in Ticks, NEW tx \in Elements(mempool[t])
        PROVE  /\ Scheduled(tx) = t /\ t >= currentTick
               /\ t <= initialTick + EpochLength
    BY <1>1, <1>2, <2>2 DEF TickInv, QueuedIsAhead
  <2> QED
    BY <2>1, <2>2, <1>1, <1>2 DEF QueuedIsAhead, poolVars
<1>7. Queued' = Queued /\ Recorded' = Recorded
  BY <1>1 DEF Queued, Recorded, poolVars
<1>8. QueuesAreSets' /\ PlacesAgree'
  BY <1>1, <1>7 DEF TickInv, QueuesAreSets, PlacesAgree, poolVars
<1>9. RunsAreRemembered' /\ RunsAtMostOnce' /\ SignedComesFirst'
  BY <1>1, <1>7 DEF TickInv, RunsAreRemembered, RunsAtMostOnce, SignedComesFirst, finalVars, poolVars
<1> QED
  BY <1>3, <1>4, <1>5, <1>6, <1>8, <1>9 DEF TickInv

LEMMA TakeDueKeeps ==
  ASSUME TickInv, TakeDue
  PROVE  TickInv'
<1> USE TickBounds
<1>1. /\ TypeOK /\ phase = "beginTick" /\ phase' = "drain" /\ draining' = mempool[currentTick]
      /\ UNCHANGED <<currentTick, epochVars, finalVars, terminalFault, broadcasts,
                     byTick, knownIds, prunedThroughTick, rawTransactions, runs>>
  BY DEF TakeDue, TickInv
<1>2. mempool \in [Ticks -> Seq(Txs)] /\ currentTick \in Ticks /\ draining = << >>
  BY <1>1 DEF TickInv, TypeOK, PhasesAgree
<1>3. mempool' = Emptied(mempool, {currentTick})
  BY <1>2 DEF TakeDue, Emptied
<1>4. mempool' \in [Ticks -> Seq(Txs)] /\ \A t \in Ticks : Distinct(mempool[t]) => Distinct(mempool'[t])
  BY <1>2, <1>3, UnionEmptied, EmptiedAt
<1>5. \A t \in Ticks : mempool'[t] = IF t = currentTick THEN << >> ELSE mempool[t]
  BY <1>2, <1>3 DEF Emptied
<1>6. \A t \in Ticks : \A x : x \in Elements(mempool'[t]) <=> t # currentTick /\ x \in Elements(mempool[t])
  BY <1>5, ElementsEmpty
<1>7. \A t \in Ticks : \A tx \in Elements(mempool[t]) :
        Scheduled(tx) = t /\ t >= currentTick /\ t <= initialTick + EpochLength
  BY <1>1, Numbers DEF TickInv, QueuedIsAhead
<1>8. /\ \A x : x \in Queued <=> x \in Queued' \/ x \in Elements(draining')
      /\ \A x : ~(x \in Queued' /\ x \in Elements(draining'))
  <2>1. \A x : x \in Queued <=> \E t \in Ticks : x \in Elements(mempool[t])
    BY DEF Queued
  <2>2. \A x : x \in Queued' <=> \E t \in Ticks : x \in Elements(mempool'[t])
    BY DEF Queued
  <2> QED
    BY <2>1, <2>2, <1>1, <1>2, <1>6, <1>7
<1>9. Recorded' = Recorded
  BY <1>1 DEF Recorded
<1>10. TypeOK'
  <2>1. \A t \in Ticks : Len(mempool'[t]) <= TxsPerTick
    <3>1. \A t \in Ticks : Len(mempool[t]) <= TxsPerTick
      BY <1>1 DEF TypeOK
    <3>2. Len(<< >>) = 0
      OBVIOUS
    <3> QED
      BY ONLY <3>1, <3>2, <1>5, TickBounds
  <2>2. draining' \in Seq(Txs)
    BY <1>1, <1>2
  <2> QED
    BY ONLY <2>1, <2>2, <1>1, <1>4 DEF TypeOK, Phases, epochVars, finalVars
<1>11. PhasesAgree' /\ PendingIsInEpoch'
  BY <1>1 DEF TickInv, PhasesAgree, PendingIsInEpoch, EpochLastTick, epochVars, finalVars
<1>12. QueuedIsAhead'
  <2>1. EpochsKeepTheirLength'
    BY <1>1 DEF TickInv, QueuedIsAhead, EpochsKeepTheirLength, epochVars
  <2>2. \A t \in Ticks : t \in Nat
    OBVIOUS
  <2> QED
    BY <2>1, <2>2, <1>1, <1>2, <1>6, <1>7 DEF QueuedIsAhead, epochVars
<1>13. QueuesAreSets'
  BY <1>1, <1>2, <1>4, <1>7 DEF TickInv, QueuesAreSets
<1>14. PlacesAgree'
  BY <1>1, <1>2, <1>8, <1>9, ElementsEmpty DEF TickInv, PlacesAgree
<1>15. RunsAreRemembered' /\ RunsAtMostOnce' /\ SignedComesFirst'
  BY <1>1, <1>9 DEF TickInv, RunsAreRemembered, RunsAtMostOnce, SignedComesFirst, finalVars
<1> QED
  BY <1>10, <1>11, <1>12, <1>13, <1>14, <1>15 DEF TickInv

LEMMA RunNextKeeps ==
  ASSUME TickInv, RunNext
  PROVE  TickInv'
<1> USE TickBounds
<1> DEFINE tx == Head(draining)
<1>1. /\ TypeOK /\ phase = "drain" /\ draining # << >> /\ draining' = Tail(draining)
      /\ UNCHANGED <<currentTick, epochVars, finalVars, broadcasts, mempool,
                     prunedThroughTick, rawTransactions>>
      /\ IF tx \in Recorded \/ TickIsFull(currentTick)
           THEN Halt /\ UNCHANGED <<byTick, knownIds, runs>>
           ELSE RunTransaction(tx) /\ UNCHANGED <<phase, terminalFault>>
  BY DEF RunNext, TickInv
<1>2. draining \in Seq(Txs)
  BY <1>1 DEF TypeOK
<1>3. /\ tx \in Txs /\ draining' \in Seq(Txs) /\ tx \in Elements(draining)
      /\ Elements(draining) = {tx} \cup Elements(draining')
      /\ Distinct(draining') /\ tx \notin Elements(draining')
  BY <1>1, <1>2, ElementsHeadTail DEF TickInv, QueuesAreSets
<1> HIDE DEF tx
<1>4. PendingIsInEpoch' /\ broadcasts' \in [Clients -> Txs \cup {NoTx}]
  BY <1>1 DEF TickInv, TypeOK, PendingIsInEpoch, EpochLastTick, epochVars
<1>5. CASE tx \in Recorded \/ TickIsFull(currentTick)
  BY <1>1, <1>4, <1>5, HaltKeeps
<1>6. CASE ~(tx \in Recorded \/ TickIsFull(currentTick))
  <2>1. /\ knownIds = Queued \cup Elements(draining) \cup Recorded /\ rawTransactions = knownIds
        /\ Queued \cap Recorded = {} /\ Elements(draining) \cap (Queued \cup Recorded) = {}
    BY <1>1 DEF TickInv, PlacesAgree
  <2>2. RunTransaction(tx) /\ UNCHANGED <<phase, terminalFault>> /\ Scheduled(tx) <= currentTick
    BY <1>1, <1>3, <1>6, Numbers DEF TickInv, QueuesAreSets
  <2>3. /\ byTick' \in [Ticks -> Seq(Txs)] /\ \A t \in Ticks : Len(byTick'[t]) <= TxsPerTick
        /\ knownIds' = knownIds \cup {tx} /\ runs' \in [Txs -> Nat]
        /\ Recorded' = Recorded \cup {tx} /\ \A t \in Ticks : Distinct(byTick'[t])
        /\ \A t, u \in Ticks : t # u => Elements(byTick'[t]) \cap Elements(byTick'[u]) = {}
        /\ RunsAreRemembered' /\ RunsAtMostOnce' /\ SignedComesFirst'
    BY <1>1, <1>3, <1>6, <2>2, RunKeeps DEF finalVars
  <2>4. Queued' = Queued
    BY <1>1 DEF Queued
  <2>5. TypeOK'
    <3>1. knownIds' \subseteq Txs
      BY <1>1, <1>3, <2>3 DEF TypeOK
    <3> QED
      BY ONLY <3>1, <1>1, <1>3, <1>4, <2>2, <2>3 DEF TypeOK, epochVars, finalVars
  <2>6. PhasesAgree' /\ QueuedIsAhead'
    BY <1>1, <2>2 DEF TickInv, PhasesAgree, QueuedIsAhead, EpochsKeepTheirLength, epochVars, finalVars
  <2>7. QueuesAreSets'
    BY <1>1, <1>3, <2>3 DEF TickInv, QueuesAreSets
  <2>8. PlacesAgree'
    <3>1. knownIds' = Queued' \cup Elements(draining') \cup Recorded' /\ rawTransactions' = knownIds'
      BY <1>1, <1>3, <2>1, <2>3, <2>4
    <3>2. Queued' \cap Recorded' = {} /\ Elements(draining') \cap (Queued' \cup Recorded') = {}
      BY <1>3, <2>1, <2>3, <2>4
    <3> QED
      BY <3>1, <3>2, <2>3 DEF PlacesAgree
  <2> QED
    BY <1>4, <2>3, <2>5, <2>6, <2>7, <2>8 DEF TickInv
<1> QED
  BY <1>5, <1>6

LEMMA FinishDrainKeeps ==
  ASSUME TickInv, FinishDrain
  PROVE  TickInv'
<1>1. Queued' = Queued /\ Recorded' = Recorded
  BY DEF FinishDrain, Queued, Recorded, poolVars
<1>2. TypeOK' /\ PhasesAgree' /\ PendingIsInEpoch'
  BY DEF FinishDrain, TickInv, TypeOK, Phases, PhasesAgree, PendingIsInEpoch, EpochLastTick,
         epochVars, finalVars, poolVars
<1>3. QueuedIsAhead' /\ QueuesAreSets' /\ PlacesAgree'
  BY <1>1 DEF FinishDrain, TickInv, QueuedIsAhead, EpochsKeepTheirLength, QueuesAreSets,
              PlacesAgree, epochVars, finalVars, poolVars
<1>4. RunsAreRemembered' /\ RunsAtMostOnce' /\ SignedComesFirst'
  BY <1>1 DEF FinishDrain, TickInv, RunsAreRemembered, RunsAtMostOnce, SignedComesFirst,
              finalVars, poolVars
<1> QED
  BY <1>2, <1>3, <1>4 DEF TickInv

LEMMA ContractFaultsKeeps ==
  ASSUME TickInv, ContractFaults
  PROVE  TickInv'
<1>1. PendingIsInEpoch' /\ broadcasts' \in [Clients -> Txs \cup {NoTx}]
  BY DEF ContractFaults, TickInv, TypeOK, PendingIsInEpoch, EpochLastTick, epochVars
<1> QED
  BY <1>1, HaltKeeps DEF ContractFaults, poolVars

LEMMA FinalizeTickKeeps ==
  ASSUME TickInv, FinalizeTick
  PROVE  TickInv'
<1> USE TickBounds
<1> DEFINE forgotten == UNION {Elements(byTick[t]) : t \in Pruned}
<1>1. /\ TypeOK /\ phase = "endTick" /\ phase' = "idle"
      /\ lastFinalizedTick' = currentTick /\ lastFinalizedEpoch' = currentEpoch
      /\ tickData' = [t \in Ticks |-> IF t \in Pruned THEN << >>
                                      ELSE IF t = currentTick THEN byTick[t] ELSE tickData[t]]
      /\ byTick' = Emptied(byTick, Pruned)
      /\ knownIds' = knownIds \ forgotten /\ rawTransactions' = rawTransactions \ forgotten
      /\ prunedThroughTick' = IF FirstRetainedTick - 1 > prunedThroughTick
                                THEN FirstRetainedTick - 1 ELSE prunedThroughTick
      /\ UNCHANGED <<currentTick, epochVars, terminalFault, broadcasts, mempool, draining, runs>>
  BY DEF FinalizeTick, TickInv, Emptied
<1>2. /\ byTick \in [Ticks -> Seq(Txs)] /\ tickData \in [Ticks -> Seq(Txs)] /\ currentTick \in Ticks
      /\ draining = << >> /\ knownIds \subseteq Txs /\ rawTransactions \subseteq Txs
  BY <1>1 DEF TickInv, TypeOK, PhasesAgree
<1>3. /\ currentTick \in Nat /\ lastFinalizedTick \in Nat /\ prunedThroughTick \in Int
      /\ HistoryTicks \in Nat \ {0} /\ FirstRetainedTick \in Int
      /\ FirstRetainedTick <= currentTick
  BY <1>1, Numbers DEF FirstRetainedTick
<1>4. /\ prunedThroughTick' \in Int /\ prunedThroughTick' >= prunedThroughTick
      /\ \A t \in Pruned : t <= prunedThroughTick'
      /\ \A t \in Ticks : t > prunedThroughTick' => t \notin Pruned
  BY <1>1, <1>3 DEF Pruned
<1>5. /\ byTick' \in [Ticks -> Seq(Txs)]
      /\ \A t \in Ticks : byTick'[t] = IF t \in Pruned THEN << >> ELSE byTick[t]
  BY <1>1, <1>2, UnionEmptied DEF Emptied
<1>6. \A t \in Ticks : \A x : x \in Elements(byTick'[t]) <=> t \notin Pruned /\ x \in Elements(byTick[t])
  BY <1>5, ElementsEmpty
<1>7. Queued' = Queued
  BY <1>1 DEF Queued
<1>8. \A x : x \in forgotten <=> \E t \in Pruned : x \in Elements(byTick[t])
  OBVIOUS
<1> HIDE DEF forgotten
<1>9. \A t, u \in Ticks : \A x : x \in Elements(byTick[t]) /\ x \in Elements(byTick[u]) => t = u
  BY <1>1 DEF TickInv, PlacesAgree
<1>10. \A x : x \in Recorded' <=> x \in Recorded /\ x \notin forgotten
  <2>1. \A x : x \in Recorded <=> \E t \in Ticks : x \in Elements(byTick[t])
    BY DEF Recorded
  <2>2. \A x : x \in Recorded' <=> \E t \in Ticks : x \in Elements(byTick'[t])
    BY DEF Recorded
  <2>3. Pruned \subseteq Ticks
    BY DEF Pruned
  <2> QED
    BY <2>1, <2>2, <2>3, <1>6, <1>8, <1>9
<1>11. \A x : x \in forgotten => x \in Recorded
  BY <1>8 DEF Recorded, Pruned
<1>12. TypeOK'
  <2>1. tickData' \in [Ticks -> Seq(Txs)]
    BY <1>1, <1>2
  <2>2. \A t \in Ticks : Len(byTick'[t]) <= TxsPerTick
    <3>1. \A t \in Ticks : Len(byTick[t]) <= TxsPerTick
      BY <1>1 DEF TypeOK
    <3>2. Len(<< >>) = 0
      OBVIOUS
    <3> QED
      BY ONLY <3>1, <3>2, <1>5, TickBounds
  <2>3. knownIds' \subseteq Txs /\ rawTransactions' \subseteq Txs
    BY <1>1, <1>2
  <2> QED
    BY ONLY <2>1, <2>2, <2>3, <1>1, <1>2, <1>4, <1>5 DEF TypeOK, Phases, epochVars
<1>13. PhasesAgree'
  BY <1>1, <1>2, <1>3 DEF TickInv, PhasesAgree, epochVars
<1>14. PendingIsInEpoch'
  BY <1>1 DEF TickInv, PendingIsInEpoch, EpochLastTick, epochVars
<1>15. QueuedIsAhead'
  <2>1. EpochsKeepTheirLength'
    BY <1>1 DEF TickInv, QueuedIsAhead, EpochsKeepTheirLength, epochVars
  <2> QED
    BY <2>1, <1>1 DEF TickInv, QueuedIsAhead, epochVars
<1>16. QueuesAreSets'
  <2>1. \A t \in Ticks : Distinct(byTick'[t])
    BY <1>5, ElementsEmpty DEF TickInv, QueuesAreSets
  <2> QED
    BY <2>1, <1>1 DEF TickInv, QueuesAreSets
<1>17. PlacesAgree'
  <2>1. /\ knownIds = Queued \cup Recorded /\ rawTransactions = knownIds /\ Queued \cap Recorded = {}
    BY <1>1, <1>2, ElementsEmpty DEF TickInv, PlacesAgree
  <2>2. Elements(draining') = {}
    BY <1>1, <1>2, ElementsEmpty
  <2>3. knownIds' = Queued' \cup Elements(draining') \cup Recorded' /\ rawTransactions' = knownIds'
    BY <2>1, <2>2, <1>1, <1>7, <1>10, <1>11
  <2>4. Queued' \cap Recorded' = {} /\ Elements(draining') \cap (Queued' \cup Recorded') = {}
    BY <2>1, <2>2, <1>7, <1>10
  <2>5. \A t, u \in Ticks : t # u => Elements(byTick'[t]) \cap Elements(byTick'[u]) = {}
    BY <1>6, <1>9
  <2> QED
    BY <2>3, <2>4, <2>5 DEF PlacesAgree
<1>18. RunsAreRemembered'
  <2>1. \A t \in Ticks : \A tx \in Elements(byTick[t]) : Scheduled(tx) <= t
    BY DEF TickInv, RunsAreRemembered
  <2>2. \A t \in Ticks : \A tx \in Elements(byTick'[t]) : Scheduled(tx) <= t
    BY <2>1, <1>6
  <2>3. ASSUME NEW tx \in Txs, runs'[tx] > 0
        PROVE  tx \in Recorded' \/ Scheduled(tx) <= prunedThroughTick'
    <3>1. tx \in Recorded \/ Scheduled(tx) <= prunedThroughTick
      BY <1>1, <2>3 DEF TickInv, RunsAreRemembered
    <3>2. Scheduled(tx) \in Nat
      BY ScheduledType
    <3>3. CASE tx \in forgotten
      <4>1. PICK t \in Pruned : tx \in Elements(byTick[t])
        BY <3>3, <1>8
      <4>2. t \in Ticks /\ t \in Nat /\ t <= prunedThroughTick'
        BY <4>1, <1>4 DEF Pruned
      <4>3. Scheduled(tx) <= t
        BY <4>1, <4>2, <2>1
      <4> QED
        BY <4>2, <4>3, <3>2, <1>4
    <3> QED
      BY <3>1, <3>2, <3>3, <1>3, <1>4, <1>10
  <2> QED
    BY <2>2, <2>3 DEF RunsAreRemembered
<1>19. RunsAtMostOnce'
  <2> SUFFICES ASSUME NEW tx \in Txs, runs[tx] > 1 PROVE Scheduled(tx) <= prunedThroughTick'
    BY <1>1 DEF RunsAtMostOnce
  <2>1. Scheduled(tx) <= prunedThroughTick /\ Scheduled(tx) \in Nat
    BY ScheduledType DEF TickInv, RunsAtMostOnce
  <2> QED
    BY <2>1, <1>3, <1>4
<1>20. SignedComesFirst'
  <2> SUFFICES ASSUME NEW t \in 0 .. currentTick, t > prunedThroughTick'
               PROVE  Seqs!IsPrefix(tickData'[t], byTick'[t])
    BY <1>1 DEF SignedComesFirst
  <2>1. t \in Ticks /\ t > prunedThroughTick
    BY <1>1, <1>3, <1>4, Numbers DEF Ticks
  <2>2. t \notin Pruned /\ byTick'[t] = byTick[t] /\ byTick[t] \in Seq(Txs)
    BY <2>1, <1>2, <1>4, <1>5
  <2>3. CASE t = currentTick
    BY <2>1, <2>2, <2>3, <1>1, PrefixItself
  <2>4. CASE t # currentTick
    <3>1. t \in 0 .. lastFinalizedTick
          /\ tickData'[t] = tickData[t]
      <4>1. lastFinalizedTick = currentTick - 1
        BY <1>1, <1>3 DEF TickInv, PhasesAgree
      <4>2. tickData'[t] = tickData[t]
        BY <2>1, <2>2, <2>4, <1>1
      <4> QED
        BY <4>1, <4>2, <2>4, <1>3
    <3> QED
      BY <3>1, <2>1, <2>2 DEF TickInv, SignedComesFirst
  <2> QED
    BY <2>3, <2>4
<1> QED
  BY <1>12, <1>13, <1>14, <1>15, <1>16, <1>17, <1>18, <1>19, <1>20 DEF TickInv

LEMMA TickStep == TickInv /\ [Next]_vars => TickInv'
<1> SUFFICES ASSUME TickInv, [Next]_vars PROVE TickInv'
  OBVIOUS
<1>1. ASSUME NEW c \in Clients, NEW tx \in Txs, BroadcastTx(c, tx) PROVE TickInv'
  BY <1>1, BroadcastTxKeeps
<1>2. ASSUME NEW c \in Clients, RefuseBroadcast(c) PROVE TickInv'
  BY <1>2, RefuseBroadcastKeeps
<1>3. ASSUME NEW c \in Clients, QueueBroadcast(c) PROVE TickInv'
  BY <1>3, QueueBroadcastKeeps
<1>4. ASSUME NEW c \in Clients, RunLateBroadcast(c) PROVE TickInv'
  BY <1>4, RunLateBroadcastKeeps
<1>5. CASE EnterTick
  BY <1>5, EnterTickKeeps
<1>6. CASE SwitchEpoch
  BY <1>6, SwitchEpochKeeps
<1>7. CASE TakeDue
  BY <1>7, TakeDueKeeps
<1>8. CASE RunNext
  BY <1>8, RunNextKeeps
<1>9. CASE FinishDrain
  BY <1>9, FinishDrainKeeps
<1>10. CASE FinalizeTick
  BY <1>10, FinalizeTickKeeps
<1>11. CASE ContractFaults
  BY <1>11, ContractFaultsKeeps
<1>12. CASE UNCHANGED vars
  <2>1. Queued' = Queued /\ Recorded' = Recorded
    BY <1>12 DEF vars, poolVars, Queued, Recorded
  <2>2. TypeOK' /\ PhasesAgree' /\ PendingIsInEpoch'
    BY <1>12 DEF vars, TickInv, TypeOK, PhasesAgree, PendingIsInEpoch, EpochLastTick,
                 epochVars, finalVars, poolVars
  <2>3. QueuedIsAhead' /\ QueuesAreSets' /\ PlacesAgree'
    BY <1>12, <2>1 DEF vars, TickInv, QueuedIsAhead, EpochsKeepTheirLength, QueuesAreSets,
                       PlacesAgree, epochVars, finalVars, poolVars
  <2>4. RunsAreRemembered' /\ RunsAtMostOnce' /\ SignedComesFirst'
    BY <1>12, <2>1 DEF vars, TickInv, RunsAreRemembered, RunsAtMostOnce, SignedComesFirst,
                       finalVars, poolVars
  <2> QED
    BY <2>2, <2>3, <2>4 DEF TickInv
<1> QED
  BY <1>1, <1>2, <1>3, <1>4, <1>5, <1>6, <1>7, <1>8, <1>9, <1>10, <1>11, <1>12
  DEF Next, Broadcast, Advance

LEMMA TickInvariant == Spec => []TickInv
BY TickInit, TickStep, PTL DEF Spec

(***************************************************************************)
(* The theorems.                                                           *)
(***************************************************************************)

\* What waits in the mempool is for a tick that is still to be taken, in the epoch
\* its sender saw, and an epoch never outgrows its length (broadcastTx, enqueueTx and
\* the epoch switch of runAdvance).
THEOREM QueueTheorem == Spec => []QueuedIsAhead
<1>1. TickInv => QueuedIsAhead
  BY DEF TickInv
<1> QED
  BY <1>1, TickInvariant, PTL

\* A running node knows exactly what waits, runs or is recorded, each in one place,
\* and holds the bytes of exactly those (enqueueTx, drainMempool, pruneFinalized).
THEOREM IndexTheorem == Spec => []IndicesAgree
<1>1. TickInv => IndicesAgree
  <2> SUFFICES ASSUME TickInv PROVE IndicesAgree
    OBVIOUS
  <2>1. \A t \in Ticks : Cardinality(Elements(byTick[t])) = Len(byTick[t])
    <3> TAKE t \in Ticks
    <3>1. byTick[t] \in Seq(Txs) /\ Distinct(byTick[t])
      BY DEF TickInv, TypeOK, QueuesAreSets
    <3> QED
      BY <3>1, DistinctCardinality
  <2> QED
    BY <2>1 DEF TickInv, PlacesAgree, IndicesAgree
<1> QED
  BY <1>1, TickInvariant, PTL

\* A transaction runs at most once until the history forgets the tick it was for,
\* whether it ran from the mempool or late.
THEOREM RunTheorem == Spec => []RunsAtMostOnce
<1>1. TickInv => RunsAtMostOnce
  BY DEF TickInv
<1> QED
  BY <1>1, TickInvariant, PTL

\* What the action of SignedIsKept says of one step.
KeepsSigned ==
  \A t \in 0 .. lastFinalizedTick : t > prunedThroughTick' =>
    /\ tickData'[t] = tickData[t]
    /\ Seqs!IsPrefix(byTick[t], byTick'[t])
    /\ Seqs!IsPrefix(tickData[t], byTick[t])

LEMMA SignedFinals ==
  ASSUME TickInv, NEW t \in 0 .. lastFinalizedTick
  PROVE  /\ t \in Ticks /\ byTick[t] \in Seq(Txs) /\ t <= currentTick
         /\ t > prunedThroughTick => Seqs!IsPrefix(tickData[t], byTick[t])
<1>1. t \in Ticks /\ t <= currentTick
  BY Numbers DEF TickInv, PhasesAgree, Ticks
<1> QED
  BY <1>1 DEF TickInv, TypeOK, SignedComesFirst

LEMMA RunKeepsSigned ==
  ASSUME TickInv, NEW tx \in Txs, RunTransaction(tx), UNCHANGED <<prunedThroughTick, tickData>>
  PROVE  KeepsSigned
<1> SUFFICES ASSUME NEW t \in 0 .. lastFinalizedTick, t > prunedThroughTick
             PROVE  /\ tickData'[t] = tickData[t] /\ Seqs!IsPrefix(byTick[t], byTick'[t])
                    /\ Seqs!IsPrefix(tickData[t], byTick[t])
  BY DEF KeepsSigned
<1>1. byTick' = Appended(byTick, currentTick, tx) /\ byTick \in [Ticks -> Seq(Txs)]
      /\ currentTick \in Ticks
  BY DEF RunTransaction, Appended, TickInv, TypeOK
<1>2. t \in Ticks /\ Seqs!IsPrefix(tickData[t], byTick[t])
  BY SignedFinals
<1>3. Seqs!IsPrefix(byTick[t], byTick'[t])
  BY <1>1, <1>2, AppendedAt
<1> QED
  BY <1>2, <1>3

LEMMA QuietKeepsSigned ==
  ASSUME TickInv, UNCHANGED <<prunedThroughTick, tickData, byTick>>
  PROVE  KeepsSigned
BY SignedFinals, PrefixItself DEF KeepsSigned

LEMMA FinalizeKeepsSigned ==
  ASSUME TickInv, FinalizeTick
  PROVE  KeepsSigned
<1> SUFFICES ASSUME NEW t \in 0 .. lastFinalizedTick, t > prunedThroughTick'
             PROVE  /\ tickData'[t] = tickData[t] /\ Seqs!IsPrefix(byTick[t], byTick'[t])
                    /\ Seqs!IsPrefix(tickData[t], byTick[t])
  BY DEF KeepsSigned
<1>1. /\ currentTick \in Nat /\ lastFinalizedTick \in Nat /\ prunedThroughTick \in Int
      /\ HistoryTicks \in Nat \ {0} /\ lastFinalizedTick = currentTick - 1
  BY Numbers DEF TickInv, PhasesAgree, FinalizeTick
<1>2. t > prunedThroughTick /\ t \notin Pruned /\ t # currentTick
  BY <1>1 DEF FinalizeTick, Pruned, FirstRetainedTick
<1>3. t \in Ticks /\ byTick[t] \in Seq(Txs) /\ Seqs!IsPrefix(tickData[t], byTick[t])
  BY <1>2, SignedFinals
<1>4. byTick'[t] = byTick[t] /\ tickData'[t] = tickData[t]
  BY <1>2, <1>3 DEF FinalizeTick
<1> QED
  BY <1>3, <1>4, PrefixItself

LEMMA SignedStep == TickInv /\ [Next]_vars => [KeepsSigned]_vars
<1> SUFFICES ASSUME TickInv, Next PROVE KeepsSigned
  OBVIOUS
<1>1. ASSUME NEW c \in Clients, NEW tx \in Txs, BroadcastTx(c, tx) PROVE KeepsSigned
  BY <1>1, QuietKeepsSigned DEF BroadcastTx, finalVars, poolVars
<1>2. ASSUME NEW c \in Clients, RefuseBroadcast(c) PROVE KeepsSigned
  BY <1>2, QuietKeepsSigned DEF RefuseBroadcast, EndBroadcast, finalVars, poolVars
<1>3. ASSUME NEW c \in Clients, QueueBroadcast(c) PROVE KeepsSigned
  BY <1>3, QuietKeepsSigned DEF QueueBroadcast, EndBroadcast, finalVars
<1>4. ASSUME NEW c \in Clients, RunLateBroadcast(c) PROVE KeepsSigned
  <2>1. EndBroadcast(c) /\ UNCHANGED <<prunedThroughTick, tickData>>
        /\ (RunTransaction(broadcasts[c]) \/ UNCHANGED byTick)
    BY <1>4 DEF RunLateBroadcast, EndBroadcast, finalVars
  <2>2. broadcasts[c] \in Txs
    BY <2>1, EndBroadcastKeeps
  <2> QED
    BY <2>1, <2>2, RunKeepsSigned, QuietKeepsSigned
<1>5. CASE EnterTick \/ SwitchEpoch \/ TakeDue \/ FinishDrain \/ ContractFaults
  <2>1. UNCHANGED <<prunedThroughTick, tickData, byTick>>
    BY <1>5 DEF EnterTick, SwitchEpoch, TakeDue, FinishDrain, ContractFaults, finalVars, poolVars
  <2> QED
    BY <2>1, QuietKeepsSigned
<1>6. CASE RunNext
  <2>1. UNCHANGED <<prunedThroughTick, tickData>> /\ draining # << >>
        /\ (RunTransaction(Head(draining)) \/ UNCHANGED byTick)
    BY <1>6 DEF RunNext, finalVars
  <2>2. Head(draining) \in Txs
    BY <2>1, ElementsHeadTail DEF TickInv, TypeOK
  <2> QED
    BY <2>1, <2>2, RunKeepsSigned, QuietKeepsSigned
<1>7. CASE FinalizeTick
  BY <1>7, FinalizeKeepsSigned
<1> QED
  BY <1>1, <1>2, <1>3, <1>4, <1>5, <1>6, <1>7 DEF Next, Broadcast, Advance

\* What a leader signed for a tick is never taken back while the tick is kept: its
\* digests stay, the records only grow, and the signed ones come first (finalizeTick,
\* pruneFinalized, and the late run of enqueueTx).
THEOREM SignedTheorem == Spec => SignedIsKept
<1>1. SignedIsKept <=> [][KeepsSigned]_vars
  BY DEF SignedIsKept, KeepsSigned
<1> QED
  BY <1>1, SignedStep, TickInvariant, PTL DEF Spec

(***************************************************************************)
(* TickEngine implements the safety part of TxLife.                        *)
(***************************************************************************)

Waiting == Queued \cup Elements(draining)

LEMMA LifeInit == Init => Life!Init
<1> SUFFICES ASSUME Init PROVE Life!Init
  OBVIOUS
<1>1. Queued = {} /\ Elements(draining) = {}
  BY ElementsEmpty DEF Init, Queued
<1> QED
  BY <1>1 DEF Init, Life!Init

LEMMA LifeRemembered == Life!Remembered = Recorded
BY DEF Life!Remembered, Recorded, Elements

\* What TxLife sees of a step that only moves a transaction that waits.
LEMMA QuietLife ==
  ASSUME Waiting' = Waiting, UNCHANGED <<byTick, currentTick, terminalFault>>
  PROVE  UNCHANGED Life!lifeVars
BY DEF Life!lifeVars, Waiting

LEMMA QueueIsAccept ==
  ASSUME TickInv, NEW c \in Clients, QueueBroadcast(c)
  PROVE  Life!Next
<1> USE TickBounds
<1> DEFINE tx == broadcasts[c]
<1>0. EndBroadcast(c) /\ ~terminalFault /\ ~IsLate(tx) /\ ~RefusedAsDuplicate(tx)
  BY DEF QueueBroadcast
<1>1. tx \in Txs /\ Scheduled(tx) \in Ticks /\ phase = "idle" /\ draining = << >>
  BY <1>0, EndBroadcastKeeps
<1>2. /\ mempool' = Appended(mempool, Scheduled(tx), tx) /\ draining' = draining
      /\ UNCHANGED <<byTick, currentTick, terminalFault>>
  BY <1>0 DEF QueueBroadcast, EndBroadcast, Appended
<1>3. tx \notin Queued /\ tx \notin Recorded /\ tx \notin Elements(draining)
  BY <1>0, <1>1 DEF TickInv, PlacesAgree, RefusedAsDuplicate
<1>4. Scheduled(tx) > currentTick
  <2>1. Scheduled(tx) \in Nat /\ currentTick \in Nat
    BY <1>1, Numbers DEF TickInv
  <2> QED
    BY <2>1, <1>0 DEF IsLate
<1> HIDE DEF tx
<1>5. Queued' = Queued \cup {tx}
  BY <1>1, <1>2, UnionAppend, Unions DEF TickInv, TypeOK
<1>6. Life!Accept(tx)
  BY <1>0, <1>2, <1>3, <1>4, <1>5, LifeRemembered DEF Life!Accept, Life!Unknown
<1> QED
  BY <1>1, <1>6 DEF Life!Next

LEMMA HaltIsStop ==
  ASSUME ~terminalFault, Halt, Waiting' \subseteq Waiting, UNCHANGED <<byTick, currentTick>>
  PROVE  Life!Next
BY DEF Halt, Waiting, Life!Next, Life!Stop

LEMMA LateIsExecuteLate ==
  ASSUME TickInv, NEW c \in Clients, RunLateBroadcast(c)
  PROVE  Life!Next
<1> DEFINE tx == broadcasts[c]
<1>0. /\ EndBroadcast(c) /\ ~terminalFault /\ ~RefusedAsDuplicate(tx) /\ IsLate(tx)
      /\ UNCHANGED <<mempool, draining, currentTick>>
      /\ \/ RunTransaction(tx) /\ UNCHANGED terminalFault
         \/ Halt /\ UNCHANGED byTick
  BY DEF RunLateBroadcast, EndBroadcast
<1>1. tx \in Txs /\ phase = "idle" /\ draining = << >>
  BY <1>0, EndBroadcastKeeps
<1>2. tx \notin Queued /\ tx \notin Recorded /\ tx \notin Elements(draining)
  BY <1>0, <1>1 DEF TickInv, PlacesAgree, RefusedAsDuplicate
<1> HIDE DEF tx
<1>3. Queued' = Queued /\ Waiting' = Waiting
  BY <1>0 DEF Queued, Waiting
<1>4. CASE Halt /\ UNCHANGED byTick
  BY <1>0, <1>3, <1>4, HaltIsStop
<1>5. CASE RunTransaction(tx) /\ UNCHANGED terminalFault
  <2>1. Life!ExecuteLate(tx)
    BY <1>0, <1>2, <1>3, <1>5, LifeRemembered
    DEF Life!ExecuteLate, Life!Unknown, RunTransaction, IsLate, Waiting
  <2> QED
    BY <1>1, <2>1 DEF Life!Next
<1> QED
  BY <1>0, <1>4, <1>5

LEMMA EnterIsAdvance ==
  ASSUME TickInv, EnterTick
  PROVE  Life!Next
<1> USE TickBounds
<1>1. /\ phase = "idle" /\ currentTick < MaxTick /\ currentTick' = currentTick + 1
      /\ UNCHANGED <<terminalFault, mempool, draining, byTick>> /\ draining = << >> /\ ~terminalFault
  BY DEF EnterTick, poolVars, TickInv, PhasesAgree
<1>2. currentTick + 1 \in Ticks
  BY <1>1, Numbers DEF Ticks, TickInv
<1>3. \A tx \in Queued \cup Elements(draining) : Scheduled(tx) > currentTick
  <2>1. \A t \in Ticks : \A tx \in Elements(mempool[t]) : Scheduled(tx) > currentTick
    BY <1>1 DEF TickInv, QueuedIsAhead
  <2> QED
    BY <2>1, <1>1, ElementsEmpty DEF Queued
<1>4. Queued' = Queued
  BY <1>1 DEF Queued
<1> QED
  BY <1>1, <1>2, <1>3, <1>4 DEF Life!Next, Life!AdvanceTick

LEMMA TakeDueIsQuiet ==
  ASSUME TickInv, TakeDue
  PROVE  UNCHANGED Life!lifeVars
<1>1. mempool \in [Ticks -> Seq(Txs)] /\ currentTick \in Ticks /\ draining = << >>
      /\ draining' = mempool[currentTick] /\ UNCHANGED <<byTick, currentTick, terminalFault>>
  BY DEF TakeDue, TickInv, TypeOK, PhasesAgree
<1>2. mempool' = Emptied(mempool, {currentTick})
  BY <1>1 DEF TakeDue, Emptied
<1>3. \A t \in Ticks : \A x : x \in Elements(mempool'[t]) <=> t # currentTick /\ x \in Elements(mempool[t])
  BY <1>1, <1>2, ElementsEmpty DEF Emptied
<1>4. \A x : x \in Queued <=> \E t \in Ticks : x \in Elements(mempool[t])
  BY DEF Queued
<1>5. \A x : x \in Queued' <=> \E t \in Ticks : x \in Elements(mempool'[t])
  BY DEF Queued
<1>6. \A x : x \in Waiting' <=> x \in Waiting
  BY <1>1, <1>3, <1>4, <1>5, ElementsEmpty DEF Waiting
<1> QED
  BY <1>1, <1>6, QuietLife

LEMMA RunNextIsExecute ==
  ASSUME TickInv, RunNext
  PROVE  Life!Next
<1> DEFINE tx == Head(draining)
<1>1. /\ phase = "drain" /\ draining # << >> /\ draining' = Tail(draining) /\ ~terminalFault
      /\ UNCHANGED <<currentTick, mempool>>
      /\ \/ RunTransaction(tx) /\ UNCHANGED terminalFault
         \/ Halt /\ UNCHANGED byTick
  BY DEF RunNext, TickInv, PhasesAgree
<1>2. draining \in Seq(Txs) /\ Distinct(draining)
  BY DEF TickInv, TypeOK, QueuesAreSets
<1>3. /\ tx \in Txs /\ tx \in Elements(draining) /\ tx \notin Elements(draining')
      /\ Elements(draining) = {tx} \cup Elements(draining')
  BY <1>1, <1>2, ElementsHeadTail
<1>4. Queued' = Queued
  BY <1>1 DEF Queued
<1>5. tx \notin Queued /\ Scheduled(tx) = currentTick
  BY <1>1, <1>3 DEF TickInv, PlacesAgree, QueuesAreSets
<1> HIDE DEF tx
<1>6. CASE Halt /\ UNCHANGED byTick
  BY <1>1, <1>3, <1>4, <1>6, HaltIsStop DEF Waiting
<1>7. CASE RunTransaction(tx) /\ UNCHANGED terminalFault
  <2>1. Queued' \cup Elements(draining') = (Queued \cup Elements(draining)) \ {tx}
    BY <1>3, <1>4, <1>5
  <2>2. Life!Execute(tx)
    BY <1>1, <1>3, <1>5, <1>7, <2>1 DEF Life!Execute, RunTransaction
  <2> QED
    BY <1>3, <2>2 DEF Life!Next
<1> QED
  BY <1>1, <1>6, <1>7

LEMMA FinalizeIsForget ==
  ASSUME TickInv, FinalizeTick
  PROVE  Life!Next
<1> USE TickBounds
<1> DEFINE first == IF FirstRetainedTick < 0 THEN 0 ELSE FirstRetainedTick
<1>1. /\ UNCHANGED <<currentTick, terminalFault, mempool, draining>> /\ ~terminalFault
      /\ byTick' = [t \in Ticks |-> IF t \in Pruned THEN << >> ELSE byTick[t]]
  BY DEF FinalizeTick, TickInv, PhasesAgree
<1>2. FirstRetainedTick \in Int /\ FirstRetainedTick <= currentTick /\ currentTick \in Nat
      /\ currentTick <= MaxTick /\ MaxTick \in Nat
  BY Numbers DEF FirstRetainedTick, TickInv
<1>3. first \in Ticks /\ first <= currentTick
  BY <1>2 DEF Ticks
<1>4. \A t \in Ticks : t \in Pruned <=> t < first
  BY <1>2 DEF Pruned
<1> HIDE DEF first
<1>5. byTick' = [t \in Ticks |-> IF t < first THEN << >> ELSE byTick[t]]
  BY <1>1, <1>4
<1>6. Queued' = Queued
  BY <1>1 DEF Queued
<1>7. Life!Forget(first)
  BY <1>1, <1>3, <1>5, <1>6 DEF Life!Forget
<1> QED
  BY <1>3, <1>7 DEF Life!Next

LEMMA LifeStep == TickInv /\ [Next]_vars => [Life!Next]_Life!lifeVars
<1> SUFFICES ASSUME TickInv, [Next]_vars PROVE Life!Next \/ UNCHANGED Life!lifeVars
  OBVIOUS
<1>1. ASSUME UNCHANGED <<mempool, draining, byTick, currentTick, terminalFault>>
      PROVE  UNCHANGED Life!lifeVars
  BY <1>1, QuietLife DEF Waiting, Queued
<1>2. ASSUME NEW c \in Clients, NEW tx \in Txs, BroadcastTx(c, tx) PROVE UNCHANGED Life!lifeVars
  BY <1>1, <1>2 DEF BroadcastTx, poolVars
<1>3. ASSUME NEW c \in Clients, RefuseBroadcast(c) PROVE UNCHANGED Life!lifeVars
  BY <1>1, <1>3 DEF RefuseBroadcast, EndBroadcast, poolVars
<1>4. ASSUME NEW c \in Clients, QueueBroadcast(c) PROVE Life!Next
  BY <1>4, QueueIsAccept
<1>5. ASSUME NEW c \in Clients, RunLateBroadcast(c) PROVE Life!Next
  BY <1>5, LateIsExecuteLate
<1>6. CASE EnterTick
  BY <1>6, EnterIsAdvance
<1>7. CASE SwitchEpoch
  BY <1>1, <1>7 DEF SwitchEpoch, poolVars
<1>8. CASE TakeDue
  BY <1>8, TakeDueIsQuiet
<1>9. CASE RunNext
  BY <1>9, RunNextIsExecute
<1>10. CASE FinishDrain
  BY <1>1, <1>10 DEF FinishDrain, poolVars
<1>11. CASE FinalizeTick
  BY <1>11, FinalizeIsForget
<1>12. CASE ContractFaults
  <2>1. ~terminalFault /\ Halt /\ UNCHANGED <<mempool, draining, byTick, currentTick>>
    BY <1>12 DEF ContractFaults, poolVars, TickInv, PhasesAgree
  <2>2. Waiting' = Waiting
    BY <2>1 DEF Waiting, Queued
  <2> QED
    BY <2>1, <2>2, HaltIsStop
<1>13. CASE UNCHANGED vars
  BY <1>1, <1>13 DEF vars, poolVars
<1> QED
  BY <1>2, <1>3, <1>4, <1>5, <1>6, <1>7, <1>8, <1>9, <1>10, <1>11, <1>12, <1>13
  DEF Next, Broadcast, Advance

\* Every behaviour of the node, from broadcastTx to pruneFinalized, is one that TxLife
\* allows: a transaction is unknown, waits, or is remembered in one tick; what waits
\* runs in its tick and before the next begins; ticks are forgotten whole.  The safety
\* part of LifeIsKept, for any constants.
THEOREM LifeRefinement == Spec => Life!Spec
BY LifeInit, LifeStep, TickInvariant, PTL DEF Spec, Life!Spec

=============================================================================
