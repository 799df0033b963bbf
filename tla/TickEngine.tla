----------------------------- MODULE TickEngine -----------------------------
(***************************************************************************)
(* How a transaction gets from a client into a tick: the broadcast of      *)
(* packages/engine/src/transport.ts, the mempool and the history of        *)
(* chain/txs.ts, and the tick of qubic-simulator.ts with its epoch switch, *)
(* its finalization (chain/ticking.ts), its pruning and its faults.        *)
(*                                                                         *)
(* A transaction is <<name, scheduled tick>> and is its own id and digest. *)
(* What it does to the ledger is left out; it may trap, which stops the    *)
(* node.  A tick is one synchronous call, so nothing but a fault comes     *)
(* between its phases; a broadcast gives up control once, between the      *)
(* check of its window and its entry into the mempool (the await is on a   *)
(* computation, so what can come between is code of the same process that  *)
(* was waiting already: another broadcast, or an embedder that advances).  *)
(***************************************************************************)
EXTENDS Integers, Sequences, FiniteSets
Seqs == INSTANCE SequencesExt

CONSTANTS
  Names,          \* what tells apart the transactions of one tick
  Clients,        \* callers of broadcastTx, each with one call in flight
  NoTx,           \* a client with no call in flight
  TxsPerTick,     \* TXS_PER_TICK
  EpochLength,    \* epochLength, at least 1
  HistoryTicks,   \* historyTicks
  MaxTick         \* bound of the model: the last tick that is entered

ASSUME TickConstants ==
  /\ TxsPerTick \in Nat \ {0} /\ EpochLength \in Nat \ {0}
  /\ HistoryTicks \in Nat \ {0} /\ MaxTick \in Nat

Ticks == 0 .. MaxTick
Txs == Names \X Ticks
Scheduled(tx) == tx[2]

ASSUME NoTxAssumption == NoTx \notin Txs

VARIABLES
  currentTick, currentEpoch, initialTick,
  lastFinalizedTick, lastFinalizedEpoch,
  phase,              \* where runAdvance stands
  terminalFault,
  broadcasts,         \* client -> the transaction whose id it awaits
  mempool,            \* tick -> queued transactions
  draining,           \* what drainMempool took and has not run yet
  byTick,             \* tick -> records
  knownIds,
  prunedThroughTick,
  rawTransactions,    \* the node's copies of what it accepted
  tickData,           \* tick -> the digests its leader signed
  runs                \* history: how often a transaction has run

epochVars == <<currentEpoch, initialTick>>
finalVars == <<lastFinalizedTick, lastFinalizedEpoch, tickData>>
poolVars  == <<mempool, draining, byTick, knownIds, prunedThroughTick>>
vars == <<currentTick, epochVars, finalVars, phase, terminalFault, broadcasts, poolVars,
          rawTransactions, runs>>

Phases == {"idle", "endEpoch", "beginTick", "drain", "endTick", "halted"}

Init ==
  /\ currentTick = 0 /\ currentEpoch = 1 /\ initialTick = 0
  /\ lastFinalizedTick = 0 /\ lastFinalizedEpoch = 1
  /\ phase = "idle" /\ terminalFault = FALSE
  /\ broadcasts = [c \in Clients |-> NoTx]
  /\ mempool = [t \in Ticks |-> << >>] /\ draining = << >>
  /\ byTick = [t \in Ticks |-> << >>] /\ knownIds = {} /\ prunedThroughTick = -1
  /\ rawTransactions = {}
  /\ tickData = [t \in Ticks |-> << >>]
  /\ runs = [tx \in Txs |-> 0]

Elements(s) == {s[p] : p \in DOMAIN s}
Recorded == UNION {Elements(byTick[t]) : t \in Ticks}
Queued == UNION {Elements(mempool[t]) : t \in Ticks}

(***************************************************************************)
(* broadcastTx.                                                            *)
(***************************************************************************)

EpochLastTick == initialTick + EpochLength - 1

InWindow(tx) == currentTick < Scheduled(tx) /\ Scheduled(tx) <= EpochLastTick

\* Up to the await: the transaction has to be for a later tick of this epoch.
BroadcastTx(c, tx) ==
  /\ phase = "idle" /\ broadcasts[c] = NoTx
  /\ InWindow(tx)
  /\ broadcasts' = [broadcasts EXCEPT ![c] = tx]
  /\ UNCHANGED <<currentTick, epochVars, finalVars, phase, terminalFault, poolVars,
                 rawTransactions, runs>>

\* processTickTransaction, for a transaction that does not trap.
RunTransaction(tx) ==
  /\ byTick' = [byTick EXCEPT ![currentTick] = Append(@, tx)]
  /\ knownIds' = knownIds \cup {tx}
  /\ runs' = [runs EXCEPT ![tx] = @ + 1]

TickIsFull(t) == Len(byTick[t]) >= TxsPerTick

Halt == terminalFault' = TRUE /\ phase' = "halted"

RefusedAsDuplicate_waiting(tx) == tx \in Queued
RefusedAsDuplicate(tx) == tx \in rawTransactions \/ tx \in knownIds

IsLate_strict(tx) == Scheduled(tx) < currentTick
IsLate(tx) == Scheduled(tx) <= currentTick

EndBroadcast(c) ==
  /\ phase \in {"idle", "halted"} /\ broadcasts[c] # NoTx
  /\ broadcasts' = [broadcasts EXCEPT ![c] = NoTx]
  /\ UNCHANGED <<currentTick, epochVars, finalVars>>

\* A halted node throws, a known transaction is refused, and so is one whose
\* tick has no room.
RefuseBroadcast(c) ==
  LET tx == broadcasts[c] IN
  /\ EndBroadcast(c)
  /\ \/ terminalFault
     \/ RefusedAsDuplicate(tx)
     \/ IsLate(tx) /\ TickIsFull(currentTick)
     \/ ~IsLate(tx) /\ Len(mempool[Scheduled(tx)]) >= TxsPerTick
  /\ UNCHANGED <<phase, terminalFault, poolVars, rawTransactions, runs>>

\* enqueueTx: for a later tick it waits in the mempool, ...
QueueBroadcast(c) ==
  LET tx == broadcasts[c] IN
  /\ EndBroadcast(c)
  /\ ~terminalFault /\ ~RefusedAsDuplicate(tx)
  /\ ~IsLate(tx) /\ Len(mempool[Scheduled(tx)]) < TxsPerTick
  /\ mempool' = [mempool EXCEPT ![Scheduled(tx)] = Append(@, tx)]
  /\ knownIds' = knownIds \cup {tx}
  /\ rawTransactions' = rawTransactions \cup {tx}
  /\ UNCHANGED <<phase, terminalFault, draining, byTick, prunedThroughTick, runs>>

\* ... and when its tick has come in the meantime it runs at once, in the tick
\* that is finished already.
RunLateBroadcast(c) ==
  LET tx == broadcasts[c] IN
  /\ EndBroadcast(c)
  /\ ~terminalFault /\ ~RefusedAsDuplicate(tx)
  /\ IsLate(tx) /\ ~TickIsFull(currentTick)
  /\ \/ /\ RunTransaction(tx)
        /\ rawTransactions' = rawTransactions \cup {tx}
        /\ UNCHANGED <<phase, terminalFault>>
     \/ Halt /\ UNCHANGED <<byTick, knownIds, runs, rawTransactions>>
  /\ UNCHANGED <<mempool, draining, prunedThroughTick>>

(***************************************************************************)
(* runAdvance.                                                             *)
(***************************************************************************)

SwitchesEpoch_late == currentTick - initialTick > EpochLength
SwitchesEpoch == currentTick - initialTick >= EpochLength

EnterTick ==
  /\ phase = "idle" /\ currentTick < MaxTick
  /\ currentTick' = currentTick + 1
  /\ phase' = IF SwitchesEpoch THEN "endEpoch" ELSE "beginTick"
  /\ UNCHANGED <<epochVars, finalVars, terminalFault, broadcasts, poolVars,
                 rawTransactions, runs>>

\* END_EPOCH has run; the epoch and its first tick change, and BEGIN_EPOCH runs.
SwitchEpoch ==
  /\ phase = "endEpoch" /\ phase' = "beginTick"
  /\ currentEpoch' = currentEpoch + 1 /\ initialTick' = currentTick
  /\ UNCHANGED <<currentTick, finalVars, terminalFault, broadcasts, poolVars,
                 rawTransactions, runs>>

\* BEGIN_TICK has run, and drainMempool takes what is due.
TakeDue ==
  /\ phase = "beginTick" /\ phase' = "drain"
  /\ draining' = mempool[currentTick]
  /\ mempool' = [mempool EXCEPT ![currentTick] = << >>]
  /\ UNCHANGED <<currentTick, epochVars, finalVars, terminalFault, broadcasts,
                 byTick, knownIds, prunedThroughTick, rawTransactions, runs>>

\* A duplicate and a full tick are errors here, and stop the node.
RunNext ==
  LET tx == Head(draining) IN
  /\ phase = "drain" /\ draining # << >>
  /\ draining' = Tail(draining)
  /\ IF tx \in Recorded \/ TickIsFull(currentTick)
       THEN Halt /\ UNCHANGED <<byTick, knownIds, runs>>
       ELSE RunTransaction(tx) /\ UNCHANGED <<phase, terminalFault>>
  /\ UNCHANGED <<currentTick, epochVars, finalVars, broadcasts, mempool,
                 prunedThroughTick, rawTransactions>>

FinishDrain ==
  /\ phase = "drain" /\ draining = << >> /\ phase' = "endTick"
  /\ UNCHANGED <<currentTick, epochVars, finalVars, terminalFault, broadcasts, poolVars,
                 rawTransactions, runs>>

\* A contract traps in a system procedure, a transaction or a notification.
ContractFaults ==
  /\ phase \in {"endEpoch", "beginTick", "drain", "endTick"}
  /\ Halt
  /\ UNCHANGED <<currentTick, epochVars, finalVars, broadcasts, poolVars,
                 rawTransactions, runs>>

FirstRetainedTick == currentTick - HistoryTicks + 1

Pruned_current == {t \in Ticks : t <= FirstRetainedTick}
Pruned == {t \in Ticks : t < FirstRetainedTick}

FinalizeTick_keepsBytes ==
  LET forgotten == UNION {Elements(byTick[t]) : t \in Pruned} IN
  /\ phase = "endTick" /\ phase' = "idle"
  /\ lastFinalizedTick' = currentTick /\ lastFinalizedEpoch' = currentEpoch
  /\ tickData' = [t \in Ticks |-> IF t \in Pruned THEN << >>
                                  ELSE IF t = currentTick THEN byTick[t] ELSE tickData[t]]
  /\ byTick' = [t \in Ticks |-> IF t \in Pruned THEN << >> ELSE byTick[t]]
  /\ knownIds' = knownIds \ forgotten
  /\ prunedThroughTick' = IF FirstRetainedTick - 1 > prunedThroughTick
                            THEN FirstRetainedTick - 1 ELSE prunedThroughTick
  /\ UNCHANGED <<currentTick, epochVars, terminalFault, broadcasts, mempool, draining,
                 rawTransactions, runs>>

\* finalizeTick signs the tick's digests, pruneFinalized forgets old ticks, and
\* advanceTick drops the node's copies of what was forgotten.
FinalizeTick ==
  LET forgotten == UNION {Elements(byTick[t]) : t \in Pruned} IN
  /\ phase = "endTick" /\ phase' = "idle"
  /\ lastFinalizedTick' = currentTick /\ lastFinalizedEpoch' = currentEpoch
  /\ tickData' = [t \in Ticks |-> IF t \in Pruned THEN << >>
                                  ELSE IF t = currentTick THEN byTick[t] ELSE tickData[t]]
  /\ byTick' = [t \in Ticks |-> IF t \in Pruned THEN << >> ELSE byTick[t]]
  /\ knownIds' = knownIds \ forgotten
  /\ rawTransactions' = rawTransactions \ forgotten
  /\ prunedThroughTick' = IF FirstRetainedTick - 1 > prunedThroughTick
                            THEN FirstRetainedTick - 1 ELSE prunedThroughTick
  /\ UNCHANGED <<currentTick, epochVars, terminalFault, broadcasts, mempool, draining, runs>>

Broadcast == \E c \in Clients :
  \/ \E tx \in Txs : BroadcastTx(c, tx)
  \/ RefuseBroadcast(c) \/ QueueBroadcast(c) \/ RunLateBroadcast(c)

Advance ==
  EnterTick \/ SwitchEpoch \/ TakeDue \/ RunNext \/ FinishDrain \/ FinalizeTick

Next == Broadcast \/ Advance \/ ContractFaults

Spec == Init /\ [][Next]_vars

\* The node's ticker advances again and again (support/node-ticker.ts), and a
\* call of runAdvance runs to its end.
FairSpec == Spec /\ WF_vars(Advance)

(***************************************************************************)
(* Properties.                                                             *)
(***************************************************************************)

\* The type invariant of the tick engine.
TypeOK ==
  /\ currentTick \in Ticks /\ currentEpoch \in Nat /\ initialTick \in Ticks
  /\ lastFinalizedTick \in Ticks /\ lastFinalizedEpoch \in Nat
  /\ phase \in Phases /\ terminalFault \in BOOLEAN
  /\ broadcasts \in [Clients -> Txs \cup {NoTx}]
  /\ mempool \in [Ticks -> Seq(Txs)] /\ draining \in Seq(Txs)
  /\ byTick \in [Ticks -> Seq(Txs)] /\ knownIds \subseteq Txs
  /\ prunedThroughTick \in Int /\ rawTransactions \subseteq Txs
  /\ tickData \in [Ticks -> Seq(Txs)] /\ runs \in [Txs -> Nat]
  /\ \A t \in Ticks : Len(mempool[t]) <= TxsPerTick /\ Len(byTick[t]) <= TxsPerTick

\* An epoch has at most EpochLength + 1 ticks, and finalization stays in step:
\* between two ticks the current tick is final.
EpochsKeepTheirLength ==
  /\ currentTick - initialTick <= EpochLength + (IF phase \in {"endEpoch", "halted"} THEN 1 ELSE 0)
  /\ phase = "idle" => lastFinalizedTick = currentTick /\ lastFinalizedEpoch = currentEpoch

\* What waits in the mempool will be taken: takeDue looks only at the tick that
\* begins, so a transaction queued for another tick, or for one that has begun,
\* would wait forever.  And it runs in the epoch its sender saw, as epochs keep
\* their length.
QueuedIsAhead ==
  EpochsKeepTheirLength /\ \A t \in Ticks : \A tx \in Elements(mempool[t]) :
    /\ Scheduled(tx) = t
    /\ t > currentTick \/ (t = currentTick /\ phase \in {"endEpoch", "beginTick", "halted"})
    /\ phase # "halted" => t <= initialTick + EpochLength

\* The state is well formed and the indices agree: a running node knows exactly the
\* transactions that wait or have run and are not forgotten, each is in one place,
\* and it holds the bytes of exactly those.
IndicesAgree ==
  TypeOK /\ (phase # "halted" =>
    /\ knownIds = Queued \cup Elements(draining) \cup Recorded
    /\ rawTransactions = knownIds
    /\ Queued \cap Recorded = {} /\ Elements(draining) \cap (Queued \cup Recorded) = {}
    /\ \A t, u \in Ticks : t # u => Elements(byTick[t]) \cap Elements(byTick[u]) = {}
    /\ \A t \in Ticks : Cardinality(Elements(byTick[t])) = Len(byTick[t]))

\* What a leader signed is never taken back: as long as a final tick is not
\* pruned its digests stay, what the node reports for it only grows, and the
\* signed transactions come first in it.
SignedIsKept ==
  [][\A t \in 0 .. lastFinalizedTick : t > prunedThroughTick' =>
       /\ tickData'[t] = tickData[t]
       /\ Seqs!IsPrefix(byTick[t], byTick'[t])
       /\ Seqs!IsPrefix(tickData[t], byTick[t])]_vars

\* A transaction runs at most once, however often and however late its
\* broadcast comes back, until the history forgets the tick it was for.
RunsAtMostOnce ==
  \A tx \in Txs : runs[tx] > 1 => Scheduled(tx) <= prunedThroughTick

=============================================================================
