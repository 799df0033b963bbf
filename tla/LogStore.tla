------------------------------ MODULE LogStore ------------------------------
(***************************************************************************)
(* The node's log: QubicLogStore of packages/engine/src/logging/           *)
(* qubic-log-store.ts, and the phases of qubic-simulator.ts that open and  *)
(* close its ranges, finalize its ticks and reset it with every epoch.     *)
(*                                                                         *)
(* The store is one object, the variable log, and its methods are          *)
(* operators from one state of it to the next.  A record keeps the tick    *)
(* and the range it was written under, its size and whether its type       *)
(* enters the digest; its message is its own and is named by its log id.   *)
(* A digest is what went into it, so two are equal only if their inputs    *)
(* are.  Which ticks settle fees and what the contracts log is open.       *)
(***************************************************************************)
EXTENDS Integers, Sequences, FiniteSets, Sums

CONSTANTS
  TxsPerTick,         \* LOG_TXS_PER_TICK
  EpochLength,        \* epochLength, at least 1
  MaxRetainedBytes,   \* maxRetainedBytes, with room for the marker a node starts with
  Kinds,              \* <<bytes, digested or not>> of the records that contracts log
  Gone,               \* a record that is no longer kept
  NoRange,            \* no range is open
  MaxTick,            \* bound of the model: the last tick that is entered
  MaxRecords,         \* bound of the model: the records of one epoch
  MaxDeferred         \* bound of the model: the commits between two ticks

ASSUME LogConstants ==
  /\ TxsPerTick \in Nat \ {0} /\ EpochLength \in Nat \ {0}
  /\ MaxRetainedBytes \in Nat \ {0} /\ Kinds \subseteq (Nat \ {0}) \X BOOLEAN
  /\ MaxTick \in Nat /\ MaxRecords \in Nat /\ MaxDeferred \in Nat

LOG_SC_INITIALIZE   == TxsPerTick
LOG_SC_BEGIN_EPOCH  == TxsPerTick + 1
LOG_SC_BEGIN_TICK   == TxsPerTick + 2
LOG_SC_END_TICK     == TxsPerTick + 3
LOG_SC_END_EPOCH    == TxsPerTick + 4
LOG_SC_NOTIFICATION == TxsPerTick + 5
RangeIds == 0 .. TxsPerTick + 5

Least(ids) == CHOOSE id \in ids : \A i \in ids : id <= i

Record == [tick : Int, txId : RangeIds, size : Nat, digested : BOOLEAN]
OpenRange == [tick : Int, txId : RangeIds]

ASSUME NothingIsNothing == Gone \notin Record /\ NoRange \notin OpenRange

RANGE_NOTHING_LOGGED == -1
RANGE_NOT_RETAINED   == -2
RANGE_NOT_FINALIZED  == -3

VARIABLES
  log,                \* the QubicLogStore
  currentTick, initialTick, lastFinalizedTick,
  phase,              \* where the simulator stands
  txCount,            \* transactions recorded in currentTick
  pending,            \* some deployed contract waits for its construction
  deferredEngineLogs, \* how many commits wait for the next oracle pass
  written,            \* history: the records of the epoch, kept or not
  pruned              \* history: the log ids a client had pruned

tickVars == <<currentTick, initialTick, lastFinalizedTick>>
vars == <<log, tickVars, phase, txCount, pending, deferredEngineLogs, written, pruned>>

(***************************************************************************)
(* QubicLogStore.                                                          *)
(***************************************************************************)

UniformRanges(code) == [x \in RangeIds |-> [fromLogId |-> code, length |-> code]]
EmptyRanges == UniformRanges(RANGE_NOTHING_LOGGED)
ZeroDigest == << >>

Reset(tickBegin) ==
  [records |-> << >>, ranges |-> << >>, digests |-> << >>,
   digestInput |-> [previous |-> ZeroDigest, messages |-> << >>],
   previousDigest |-> ZeroDigest,
   current |-> NoRange, currentRanges |-> EmptyRanges, currentTick |-> tickBegin - 1,
   paused |-> FALSE, lastUpdatedTick |-> tickBegin - 1,
   retainedBytes |-> 0, finalizedLogCount |-> 0, finalizedTicks |-> << >>,
   tickBegin |-> tickBegin, evictedThroughTick |-> -1, overflowed |-> FALSE]

\* What begin and finalizeTick refuse, and what they do to a tick not yet open.
TickIsClosed(l, tick) == tick <= l.lastUpdatedTick \/ tick < l.currentTick

Opened_keepsInput(l, tick) ==
  IF l.currentTick = tick THEN l
  ELSE [l EXCEPT !.currentTick = tick, !.currentRanges = EmptyRanges]

Opened(l, tick) ==
  IF l.currentTick = tick THEN l
  ELSE [l EXCEPT !.currentTick = tick, !.currentRanges = EmptyRanges,
                 !.digestInput = [previous |-> l.previousDigest, messages |-> << >>]]

BeginThrows(l, tick) == TickIsClosed(l, tick) \/ l.overflowed

Begin_anew(l, tick, txId) ==
  [Opened(l, tick) EXCEPT !.current = [tick |-> tick, txId |-> txId],
                          !.currentRanges[txId] = EmptyRanges[txId]]

Begin(l, tick, txId) == [Opened(l, tick) EXCEPT !.current = [tick |-> tick, txId |-> txId]]
End(l) == [l EXCEPT !.current = NoRange]
BetweenRanges(l) == ~l.paused /\ l.current = NoRange

SizeOf(l, id) == IF l.records[id + 1] = Gone THEN 0 ELSE l.records[id + 1].size
BytesOf(l, ids) == Total([id \in ids |-> SizeOf(l, id)], ids)

Drop(l, ids) ==
  [l EXCEPT !.records = [p \in DOMAIN @ |-> IF p - 1 \in ids THEN Gone ELSE @[p]],
            !.retainedBytes = @ - BytesOf(l, ids)]

IdsOf(tickRecords) == tickRecords.fromLogId .. tickRecords.toLogId - 1

\* evictOldestTick, n times.
Evict(l, n) ==
  IF n = 0 THEN l
  ELSE [Drop(l, UNION {IdsOf(l.finalizedTicks[i]) : i \in 1 .. n}) EXCEPT
          !.ranges = [t \in DOMAIN @ \ {l.finalizedTicks[i].tick : i \in 1 .. n} |-> @[t]],
          !.evictedThroughTick = l.finalizedTicks[n].tick,
          !.finalizedTicks = SubSeq(@, n + 1, Len(@))]

Fits(l, bytes) == l.retainedBytes + bytes <= MaxRetainedBytes

\* The loop of reserve: as few of the oldest ticks as make room, or all.
Reserved(l, bytes) ==
  LET enough == {n \in 0 .. Len(l.finalizedTicks) : Fits(Evict(l, n), bytes)}
  IN  Evict(l, IF enough = {} THEN Len(l.finalizedTicks) ELSE Least(enough))

\* A record that does not fit even then takes the unfinished tick with it.
Overflow_keepsBytes(l) ==
  [l EXCEPT !.records = SubSeq(@, 1, l.finalizedLogCount),
            !.currentRanges = EmptyRanges,
            !.digestInput = [previous |-> l.previousDigest, messages |-> << >>],
            !.overflowed = TRUE]

Overflow(l) ==
  [l EXCEPT !.retainedBytes = @ - BytesOf(l, l.finalizedLogCount .. Len(l.records) - 1),
            !.records = SubSeq(@, 1, l.finalizedLogCount),
            !.currentRanges = EmptyRanges,
            !.digestInput = [previous |-> l.previousDigest, messages |-> << >>],
            !.overflowed = TRUE]

Counted(range, logId) ==
  IF range.fromLogId < 0 THEN [fromLogId |-> logId, length |-> 1]
  ELSE [range EXCEPT !.length = @ + 1]

Digested(input, logId, digested) ==
  IF digested THEN [input EXCEPT !.messages = Append(@, logId)] ELSE input

Pushed(l, record) ==
  LET logId == Len(l.records)
  IN  [l EXCEPT !.records = Append(@, record),
                !.retainedBytes = @ + record.size,
                !.currentRanges[record.txId] = Counted(@, logId),
                !.digestInput = Digested(@, logId, record.digested)]

IsListening(l) == ~l.paused /\ l.current # NoRange

RecordOf(l, size, digested) ==
  [tick |-> l.current.tick, txId |-> l.current.txId, size |-> size, digested |-> digested]

\* append; the open range is always of a tick that is not final.
AppendLog(l, size, digested) ==
  IF ~IsListening(l) THEN l
  ELSE LET r == Reserved(l, size)
       IN  IF Fits(r, size) THEN Pushed(r, RecordOf(l, size, digested)) ELSE Overflow(r)

FinalizeThrows(l, tick) == TickIsClosed(l, tick) \/ l.overflowed

FinalizeTick(l, tick) ==
  LET o == Opened(l, tick)
      digest == Append(o.digestInput.previous, o.digestInput.messages)
      count == Len(o.records)
  IN  [o EXCEPT !.ranges = [t \in DOMAIN @ \cup {tick} |-> IF t = tick THEN o.currentRanges ELSE @[t]],
                !.digests = [t \in DOMAIN @ \cup {tick} |-> IF t = tick THEN digest ELSE @[t]],
                !.previousDigest = digest,
                !.finalizedTicks =
                   IF o.finalizedLogCount < count
                   THEN Append(@, [tick |-> tick, fromLogId |-> o.finalizedLogCount, toLogId |-> count])
                   ELSE @,
                !.finalizedLogCount = count,
                !.lastUpdatedTick = tick,
                !.current = NoRange, !.paused = FALSE]

\* prune: only what is final.
MayPrune(l, from, to) == 0 <= from /\ from <= to /\ to < l.finalizedLogCount
PruneLog(l, from, to) == Drop(l, from .. to)

MissingRangeCode(l, tick) ==
  IF tick > l.lastUpdatedTick THEN RANGE_NOT_FINALIZED
  ELSE IF tick < l.tickBegin \/ tick <= l.evictedThroughTick THEN RANGE_NOT_RETAINED
  ELSE RANGE_NOTHING_LOGGED

TickRanges(l, tick) ==
  IF tick <= l.lastUpdatedTick /\ tick \in DOMAIN l.ranges THEN l.ranges[tick]
  ELSE UniformRanges(MissingRangeCode(l, tick))

(***************************************************************************)
(* The simulator around it.  A call on the store that throws inside a tick *)
(* or a transaction halts the node.                                        *)
(***************************************************************************)

NextLogTick_current == currentTick
NextLogTick ==
  IF currentTick > lastFinalizedTick + 1 THEN currentTick ELSE lastFinalizedTick + 1

\* What a call writes is what the store holds after it beyond what was there.
Writes(l) ==
  /\ log' = l
  /\ written' = [p \in DOMAIN l.records |-> IF p \in DOMAIN written THEN written[p] ELSE l.records[p]]

Marked(l, tick) == End(AppendLog(Begin(l, tick, LOG_SC_INITIALIZE), 1, FALSE))   \* logStartOfEpoch

Init ==
  /\ log = FinalizeTick(Marked(Reset(0), 0), 0)
  /\ currentTick = 0 /\ initialTick = 0 /\ lastFinalizedTick = 0
  /\ phase = "idle" /\ txCount = 0 /\ pending = FALSE /\ deferredEngineLogs = 0
  /\ written = log.records
  /\ pruned = {}

Halt(l) == phase' = "halted" /\ Writes([End(l) EXCEPT !.paused = FALSE])

\* The phase that ran so far closes its range, the next one opens its own.
Enter(l, tick, txId, next) ==
  IF BeginThrows(l, tick) THEN Halt(l)
  ELSE Writes(Begin(End(l), tick, txId)) /\ phase' = next

SwitchesEpoch == currentTick - initialTick >= EpochLength

\* runAdvance of a tick that ends an epoch, up to END_EPOCH's range, ...
EnterEndEpoch ==
  /\ phase = "idle" /\ currentTick < MaxTick
  /\ SwitchesEpoch
  /\ currentTick' = currentTick + 1
  /\ Enter(log, currentTick + 1, LOG_SC_END_EPOCH, "endEpoch")
  /\ UNCHANGED <<initialTick, lastFinalizedTick, txCount, pending, deferredEngineLogs, pruned>>

\* ... to the marker that ends it, the finalization, and the log of the next
\* epoch with its marker and BEGIN_EPOCH's range.
EnterBeginEpoch ==
  LET ended == End(AppendLog(log, 1, FALSE))
      fresh == Begin(Marked(Reset(NextLogTick), NextLogTick), NextLogTick, LOG_SC_BEGIN_EPOCH)
  IN  /\ phase = "endEpoch"
      /\ IF FinalizeThrows(ended, currentTick)
         THEN Halt(ended) /\ UNCHANGED <<initialTick, deferredEngineLogs, pruned>>
         ELSE /\ log' = fresh /\ written' = fresh.records
              /\ phase' = "beginEpoch"
              /\ initialTick' = currentTick
              /\ deferredEngineLogs' = 0 /\ pruned' = {}
      /\ UNCHANGED <<currentTick, lastFinalizedTick, txCount, pending>>

\* activatePendingContracts, then the contracts' BEGIN_TICK.
StartTick(l, tick) ==
  IF pending THEN Enter(l, tick, LOG_SC_INITIALIZE, "construct")
  ELSE Enter(l, tick, LOG_SC_BEGIN_TICK, "beginTick")

\* runBeginTick: the fees of the phase that ended come first, if any are due.
EnterTick(settles) ==
  LET tick == IF phase = "idle" THEN currentTick + 1 ELSE currentTick
  IN  /\ \/ phase = "idle" /\ currentTick < MaxTick /\ ~SwitchesEpoch
         \/ phase = "beginEpoch"
      /\ currentTick' = tick
      /\ txCount' = 0
      /\ IF settles THEN Enter(log, tick, LOG_SC_BEGIN_TICK, "settle") ELSE StartTick(log, tick)
      /\ UNCHANGED <<initialTick, lastFinalizedTick, pending, deferredEngineLogs, pruned>>

\* processExecutionFeeReports: one record for each contract that is charged, and
\* after the last of them the tick goes on.
Settle ==
  LET charged == AppendLog(log, 1, FALSE)
  IN  /\ phase = "settle"
      /\ \/ Len(written) < MaxRecords /\ Writes(charged) /\ UNCHANGED phase
         \/ StartTick(charged, currentTick)
      /\ UNCHANGED <<tickVars, txCount, pending, deferredEngineLogs, pruned>>

EnterBeginTick ==
  /\ phase = "construct"
  /\ pending' = FALSE
  /\ Enter(log, currentTick, LOG_SC_BEGIN_TICK, "beginTick")
  /\ UNCHANGED <<tickVars, txCount, deferredEngineLogs, pruned>>

TickIsFull(index) == index >= TxsPerTick

\* drainMempool, one transaction at a time.
EnterTransaction ==
  /\ phase \in {"beginTick", "transaction"}
  /\ LET index == IF phase = "transaction" THEN txCount + 1 ELSE txCount
     IN  /\ ~TickIsFull(index)
         /\ txCount' = index
         /\ Enter(log, NextLogTick, index, "transaction")
  /\ UNCHANGED <<tickVars, pending, deferredEngineLogs, pruned>>

\* The oracle pass, which first writes the commits that waited for it, one by one:
\* nothing else happens before the last of them.
CommitsLeft(n) == IF n = 0 THEN "oracle" ELSE "commits"

EnterOraclePass ==
  /\ phase \in {"beginTick", "transaction"}
  /\ txCount' = IF phase = "transaction" THEN txCount + 1 ELSE txCount
  /\ Enter(log, currentTick, LOG_SC_NOTIFICATION, CommitsLeft(deferredEngineLogs))
  /\ UNCHANGED <<tickVars, pending, deferredEngineLogs, pruned>>

WriteCommit ==
  /\ phase = "commits"
  /\ Writes(AppendLog(log, 1, FALSE))
  /\ deferredEngineLogs' = deferredEngineLogs - 1
  /\ phase' = CommitsLeft(deferredEngineLogs - 1)
  /\ UNCHANGED <<tickVars, txCount, pending, pruned>>

\* deliverOracleNotifications opens the range again, if it has one to deliver.
EnterDelivery ==
  /\ phase = "oracle"
  /\ Enter(log, currentTick, LOG_SC_NOTIFICATION, "deliver")
  /\ UNCHANGED <<tickVars, txCount, pending, deferredEngineLogs, pruned>>

EnterEndTick ==
  /\ phase \in {"oracle", "deliver"}
  /\ Enter(log, currentTick, LOG_SC_END_TICK, "endTick")
  /\ UNCHANGED <<tickVars, txCount, pending, deferredEngineLogs, pruned>>

FinishTick ==
  /\ phase = "endTick"
  /\ IF FinalizeThrows(log, currentTick)
     THEN Halt(log) /\ UNCHANGED lastFinalizedTick
     ELSE /\ Writes(FinalizeTick(End(log), currentTick))
          /\ phase' = "idle"
          /\ lastFinalizedTick' = currentTick
  /\ UNCHANGED <<currentTick, initialTick, txCount, pending, deferredEngineLogs, pruned>>

\* A deploy between ticks.  One that is to be constructed by the next tick runs
\* no contract; the other one runs INITIALIZE at once.  With an overflowed store
\* the deploy is refused, and the node runs on.
DeployDeferred ==
  /\ phase = "idle" /\ ~BeginThrows(log, NextLogTick)
  /\ log' = End(Begin(log, NextLogTick, LOG_SC_INITIALIZE))
  /\ pending' = TRUE
  /\ UNCHANGED <<tickVars, phase, txCount, deferredEngineLogs, written, pruned>>

EnterDeploy ==
  /\ phase = "idle" /\ ~BeginThrows(log, NextLogTick)
  /\ Enter(log, NextLogTick, LOG_SC_INITIALIZE, "deploy")
  /\ UNCHANGED <<tickVars, txCount, pending, deferredEngineLogs, pruned>>

\* A transaction whose tick is over runs at once: it has its place in that tick
\* and its records in the next one.
EnterLateTransaction ==
  /\ phase = "idle" /\ ~TickIsFull(txCount)
  /\ Enter(log, NextLogTick, txCount, "late")
  /\ UNCHANGED <<tickVars, txCount, pending, deferredEngineLogs, pruned>>

FinishCall ==
  /\ phase \in {"deploy", "late"}
  /\ Writes(End(log))
  /\ phase' = "idle"
  /\ txCount' = IF phase = "late" THEN txCount + 1 ELSE txCount
  /\ UNCHANGED <<tickVars, pending, deferredEngineLogs, pruned>>

\* The phases in which a contract or the engine runs and may log.
Running == {"endEpoch", "beginEpoch", "construct", "beginTick", "transaction", "oracle", "deliver",
            "endTick", "deploy", "late"}

Log(size, digested) ==
  /\ phase \in Running
  /\ IsListening(log) /\ Len(written) < MaxRecords
  /\ Writes(AppendLog(log, size, digested))
  /\ UNCHANGED <<tickVars, phase, txCount, pending, deferredEngineLogs, pruned>>

\* pauseLog and resumeLog; a contract may leave the log paused.
Pause(on) ==
  /\ phase \in Running
  /\ log.paused # on
  /\ log' = [log EXCEPT !.paused = on]
  /\ UNCHANGED <<tickVars, phase, txCount, pending, deferredEngineLogs, written, pruned>>

\* A commit of resolveOracle, between ticks: logEngineMessage.
Commit ==
  /\ phase = "idle"
  /\ BetweenRanges(log)
  /\ deferredEngineLogs < MaxDeferred
  /\ deferredEngineLogs' = deferredEngineLogs + 1
  /\ UNCHANGED <<log, tickVars, phase, txCount, pending, written, pruned>>

\* A peer's request to prune, of a running or a halted node.
Prune(from, to) ==
  /\ phase \in {"idle", "halted"}
  /\ MayPrune(log, from, to)
  /\ log' = PruneLog(log, from, to)
  /\ pruned' = pruned \cup (from .. to)
  /\ UNCHANGED <<tickVars, phase, txCount, pending, deferredEngineLogs, written>>

Next ==
  \/ EnterEndEpoch
  \/ EnterBeginEpoch
  \/ \E settles \in BOOLEAN : EnterTick(settles)
  \/ Settle
  \/ EnterBeginTick
  \/ EnterTransaction
  \/ EnterOraclePass
  \/ WriteCommit
  \/ EnterDelivery
  \/ EnterEndTick
  \/ FinishTick
  \/ DeployDeferred
  \/ EnterDeploy
  \/ EnterLateTransaction
  \/ FinishCall
  \/ \E kind \in Kinds : Log(kind[1], kind[2])
  \/ \E on \in BOOLEAN : Pause(on)
  \/ Commit
  \/ \E from, to \in 0 .. MaxRecords : Prune(from, to)

Spec == Init /\ [][Next]_vars

-----------------------------------------------------------------------------

LogIds(t) == {id \in 0 .. log.finalizedLogCount - 1 : written[id + 1].tick = t}
Named(range) == IF range.fromLogId < 0 THEN {} ELSE range.fromLogId .. range.fromLogId + range.length - 1
WrittenUnder(t, x) == {id \in LogIds(t) : written[id + 1].txId = x}
FinalTicks == log.tickBegin .. log.lastUpdatedTick

TypeOK ==
  /\ currentTick \in 0 .. MaxTick /\ initialTick \in 0 .. MaxTick
  /\ lastFinalizedTick \in 0 .. MaxTick
  /\ phase \in Running \cup {"settle", "commits", "idle", "halted"}
  /\ txCount \in 0 .. TxsPerTick /\ pending \in BOOLEAN
  /\ deferredEngineLogs \in 0 .. MaxDeferred
  /\ \A p \in DOMAIN log.records : log.records[p] \in {Gone, written[p]}
  /\ log.current # NoRange =>
       log.current \in OpenRange /\ log.current.tick \in 0 .. MaxTick + 1
  /\ (phase \in {"idle", "halted"}) \/ log.current # NoRange

\* A tick whose ranges are still answered has all of its records: only a client
\* can have taken some, with a prune request.
RetainedIsReadable ==
  \A t \in FinalTicks : TickRanges(log, t)[0].fromLogId # RANGE_NOT_RETAINED =>
    \A id \in LogIds(t) \ pruned : log.records[id + 1] # Gone

\* What is kept is accounted for: the byte count the retention limit is enforced
\* with is what the kept records take, and never more than the limit, whatever is
\* evicted, pruned (also twice) or discarded by an overflow.
RetentionIsExact ==
  /\ TypeOK /\ RetainedIsReadable
  /\ log.retainedBytes = BytesOf(log, 0 .. Len(log.records) - 1)
  /\ log.retainedBytes <= MaxRetainedBytes

\* The ranges of BEGIN_EPOCH, NOTIFICATION and END_TICK name exactly the records
\* their phase wrote, though the notifications' range is opened twice in a tick.
\* BEGIN_TICK's is opened for the fees and again for the contracts: it names its
\* records and no others but those of a construction that came in between.
PhaseRangesAreWhole ==
  \A t \in FinalTicks :
    LET ranges == TickRanges(log, t)
        own == WrittenUnder(t, LOG_SC_BEGIN_TICK)
        between == {id \in WrittenUnder(t, LOG_SC_INITIALIZE) : \E i \in own : i < id}
    IN  ranges[0].fromLogId # RANGE_NOT_RETAINED =>
          /\ \A x \in {LOG_SC_BEGIN_EPOCH, LOG_SC_NOTIFICATION, LOG_SC_END_TICK} :
               Named(ranges[x]) = WrittenUnder(t, x)
          /\ Named(ranges[LOG_SC_BEGIN_TICK]) \subseteq own \cup between
          /\ between = {} => Named(ranges[LOG_SC_BEGIN_TICK]) = own

\* A client that follows a final tick's log is told the truth: a tick reads as
\* not retained only when it had records and they are gone, as nothing logged
\* only when nothing was, and otherwise each range counts the records written
\* under it from the first one on.
RangesTellTheTruth ==
  PhaseRangesAreWhole /\ \A t \in FinalTicks, x \in RangeIds :
    LET answer == TickRanges(log, t)[x]
        ids == WrittenUnder(t, x)
    IN  CASE answer.fromLogId = RANGE_NOT_RETAINED ->
               LogIds(t) # {} /\ \A id \in LogIds(t) : log.records[id + 1] = Gone
          [] answer.fromLogId = RANGE_NOTHING_LOGGED -> ids = {}
          [] OTHER -> answer.length = Cardinality(ids) /\ answer.fromLogId = Least(ids)

\* The same of the INITIALIZE range, which the comment of
\* activatePendingContracts says a contract is constructed in.
ConstructionRangeIsWhole ==
  \A t \in FinalTicks :
    TickRanges(log, t)[LOG_SC_INITIALIZE].fromLogId # RANGE_NOT_RETAINED =>
      Named(TickRanges(log, t)[LOG_SC_INITIALIZE]) = WrittenUnder(t, LOG_SC_INITIALIZE)

\* The digested messages of one tick, in the order they were logged.
Messages(t) ==
  LET ids == {id \in LogIds(t) : written[id + 1].digested}
  IN  [n \in 1 .. Cardinality(ids) |-> CHOOSE id \in ids : Cardinality({i \in ids : i < id}) = n - 1]

\* The digest of a tick covers every mutation logged since the epoch began, in
\* order and tick by tick, also when the records are evicted or pruned.
DigestsCoverMutations ==
  \A t \in FinalTicks :
    log.digests[t] = [n \in 1 .. t - log.tickBegin + 1 |-> Messages(log.tickBegin + n - 1)]

\* No tick, deploy or late transaction is refused by the log for being written
\* under a tick that is closed: only an overflow halts the node.
OnlyOverflowHalts == phase = "halted" => log.overflowed

=============================================================================
