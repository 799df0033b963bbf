# TLA+ specifications of the qinit virtual node

qinit is a toolchain for Qubic smart contracts: a compiler from a C++ subset to
wasm, project scaffolding and code generation, a CLI, an editor extension, and
`packages/engine`, a virtual node that runs contracts the way the native core
does. The engine is where the state, the ordering and the failures are, and it is
what these specifications model: ticks and mempool, deployments and the client
that makes them, the calls between contracts and what they cost, shares, the log,
the oracle engine and the OC (outsourced computing) manager.

All paths below are relative to `src/`; `engine/` stands for
`packages/engine/src/`.

- [Inventory](#inventory): the parts of the system, and what is hard about them
- [Modules](#modules): which module models what, and how
- [Runs](#runs): what TLC checks, and the bounds
- [Disagreements](#disagreements-with-the-repositorys-own-words): where the code
  does not do what the repository says
- [Proofs](#proofs): what holds for every value of the constants
- [Not modelled](#what-is-not-modelled) and [Plan](#plan)

## Inventory

### The engine's parts, their state and their operations

| Part | Code | State | Operations |
| --- | --- | --- | --- |
| Tick loop | `engine/qubic-simulator.ts`, `engine/chain/ticking.ts`, `engine/support/node-ticker.ts` | current tick and epoch, first tick of the epoch, last final tick, terminal fault | `advanceTick` (and its repetitions), `finalizeTick`, `pruneFinalized` |
| Mempool and history | `engine/chain/txs.ts` | queue per tick, records per tick, known ids, last pruned tick | `queue`, `takeDue`, `record`, `pruneThrough` |
| Node | `engine/transport.ts` | raw transactions, the one upload session, the last deploy verdict, staged states, slot descriptions | `broadcastTx`, `UPLOAD_BEGIN`/`CHUNK`/`DEPLOY`, `deploy`, `undeploy`, `stageState`, `dynUpload`, `dynRegistry` |
| Contract registry | `engine/contract/registry.ts` | contract per slot, constructions waiting for the next tick | `deploy`, `undeploy`, `constructPending` |
| Oracle engine | `engine/chain/oracle-engine.ts` | queries, reply-state slots, three tables of pending work, notification queue; subscriptions, subscribers, heap of due times | start a query, subscribe, unsubscribe, machine reply, commit, reveal, timeouts, generation, `getNotification`, `beginEpoch` |
| Oracle pass | `engine/qubic-simulator.ts` | held reveals | reveal, generate, time out, ask the provider, deliver |
| OC manager | `engine/chain/oc.ts` | invocations, in-flight count, storage used, id counter | `startContractInvocation`, `pump`, `beginEpoch` |
| Contract fees | `engine/contract/fees.ts` | reserves, failed IPOs, execution time of the phase | charge, settle a phase, burn, refill |
| Log store | `engine/logging/qubic-log-store.ts` | records, ranges per tick, digests, bytes retained, the open range | begin, end, append, pause, finalize, prune, reset |
| Ledger | `engine/ledger/spectrum.ts`, `assets.ts`, `merkle.ts` | balances; the asset table with its parent lists; digests | transfer, burn, issue, transfer of rights, dividends |
| Contract runtime | `engine/contract/runtime.ts`, `abi.ts` | wasm instances, meters | entries, host calls, traps, aborts |
| Servers and formats | `engine/server.ts`, `peer-server.ts`, `protocol/` | none of their own that matters | routing, encoding |
| Upload client | `packages/cli/src/ops/deploy/` | progress of one deployment | preflight, claim, chunks, assembly, DEPLOY, polls, retries |

### How they interact

Everything runs in one JavaScript process. A tick (`runAdvance`) is one
synchronous call that visits the parts in a fixed order: switch the epoch if it is
due (END_EPOCH, reset of oracle engine and OC manager, BEGIN_EPOCH), construct the
contracts that wait, BEGIN_TICK, the transactions of the tick, the oracle pass, the OC
pump, notifications, END_TICK, finalization, pruning. Contract code runs at most of
these points, and calls back into the oracle engine and the OC manager, also in
the middle of a loop that is delivering results. Clients talk to the node between
ticks; a broadcast awaits the id of its transaction in the middle. A contract that
traps stops the node for good (`terminalFault`).

### What is hard about it

- **Interleaving.** Broadcasts that check, await and then queue; contracts that
  call into an engine that is looping over its own tables; contracts that call,
  pay and notify each other in the middle of a transfer of rights or a payout;
  clients that share one upload session and one record of the last verdict.
- **Ordering.** Which of reveal, timeout, generation and notification comes first
  in a tick; END_EPOCH and BEGIN_EPOCH under one tick number; a deploy before and
  after the tick that constructs it.
- **Unreliable delivery.** Replies, commits, chunks and DEPLOYs that are late,
  repeated or in any order; a query whose slot serves another one by then; a
  broadcast whose answer is lost; a client that is interrupted.
- **Bounded tables.** Every table of the oracle engine and the OC manager has a
  limit, and some inserts cannot report that they failed; the log evicts whole
  ticks to stay within its bytes; nested calls share one depth.
- **Redundant indices.** The transaction history, the known ids and the raw bytes;
  the five tables of the oracle engine; the sorted list and the heap of a
  subscription; the slot, its description and its pending construction; the probe
  order and the lists of the asset table; the records and the ranges of the log.
  Each is kept by hand.
- **Partial failure.** A module that does not load after the staged state has been
  consumed; a query refused after its subscribers have moved on; a trap after the
  slot was replaced; an error that leaves a stack of open calls.

`PROJECT.json` lists these as hazards, each at its line, with the properties that
would catch it going wrong. What makes each part correct:

- *ticks*: a transaction that is accepted runs, in its tick and its epoch, once;
  a signed tick does not change; nothing that is forgotten leaves a trace;
- *oracle*: a reply counts only with a quorum that knew it; every query ends, in
  time, and every contract is told once, in order; a subscriber is served every
  period, and not for periods the network slept through;
- *OC*: a place in flight is freed exactly once and in time; an id names one
  invocation;
- *deployments*: INITIALIZE runs once, a slot keeps its very bytes through every
  upgrade that does not install a staged state, the registry reports what runs, a client that makes progress keeps the
  upload session and its bytes;
- *upload client*: it reports what happened, makes up for what it loses, waits out
  an abandoned session and always ends;
- *contract calls*: energy is conserved, each unit of time is charged to the
  contract that ran, notices do not nest, nothing but oracle notifications recurses, a
  contract out of service runs nothing that asks first;
- *assets*: shares and money are conserved, rights move only as agreed, every way to
  look a record up finds the same ones;
- *log*: a range names what was logged under it, what was answered of a final
  tick stays, the digest covers every record that enters it.

## Modules

| Module | Models | Run by |
| --- | --- | --- |
| `TxLife` | abstract: what the node promises about a transaction | |
| `TickEngine` | broadcast, mempool, history, tick, epoch switch, finalization, pruning, faults | `TickRefinement` |
| `TickRefinement` | the mapping under which `TickEngine` implements `TxLife` | itself |
| `Deployments` | upload session, DEPLOY, staged state, life of a slot | `MCDeployments` |
| `UploadClient` | the CLI's deploying clients, composed with `Deployments` | `MCUploadClient` |
| `ContractCalls` | every way into a contract, calls, notices and callbacks between contracts, fees, traps | itself |
| `Assets` | the asset table, minted shares, transfers of shares and rights, dividends | `MCAssets` |
| `LogStore` | the log store and the phases of a tick that write to it | `MCLogStore` |
| `OracleQueries` | the query pool, every method an action in any order | `MCOracleQueries` |
| `OracleSubscriptions` | adds subscriptions to `OracleQueries` (operators, composed by the next) | |
| `OracleSimulator` | composes the two in the order `runAdvance` calls them | `MCOracleSimulator` |
| `OcManager` | OC invocations in every phase of a tick | `MCOcManager`, `MCOcEpochs` |
| `Sums` | the sum of a function over a finite set, as a fold | |
| `Sums_proofs` | what a sum does when its function or its set changes | |
| `X_proofs`, for `TickEngine`, `Deployments`, `ContractCalls`, `Assets`, `LogStore`, `OracleSimulator` (with `OracleQueries`), `OcManager` | theorems about `X` and their proofs | |

Variables and actions have the names of the code's fields and methods where TLA+
allows it; the comment at each says what differs. `PROJECT.json` maps every
definition to its lines. A definition `X_word` is a mutated form of `X`, used only
to see that a property notices the mistake.

**TickEngine.** A transaction is `<<name, scheduled tick>>` and its own id. A tick
is cut where contract code may trap: entering, epoch switch, taking what is due,
each transaction, finalization; between these steps nothing else can happen, so
`Broadcast` steps are enabled only between ticks. `BroadcastTx` is the part of
`broadcastTx` before its `await`, and `QueueBroadcast`, `RunLateBroadcast` and
`RefuseBroadcast` are the outcomes after it. `FinalizeTick` includes the pruning of
the history and of the node's raw copies. `runs` is a history variable. The
`await` is on a computation that does no I/O, so only code that is already waiting
in the same process can come in between; the specification allows any number of
ticks there.

**TxLife** says what all of this is for, in six actions over four variables:
unknown transactions are accepted for a later tick, what waits runs in its tick and
in no other, the chain moves on only when nothing of the tick still waits, ticks are
forgotten whole. `TickRefinement` maps `waiting` to what is in the mempool or taken
out of it for the running tick (`Queued \cup Elements(draining)`), `history` to
`byTick`, `now` to `currentTick` and `stopped` to `terminalFault`. The refinement
includes the fairness of `TxLife`, so it carries the liveness too: what is accepted
runs, unless the node stops.

**Deployments.** A module is its own hash, a chunk holds bytes of some module and
the uploaded bytes hash to the announced digest when every chunk is of that module.
A state is its size, whether it descends from a staged state, how often INITIALIZE
ran on it, and which deploy its bytes began with (`version`): a resize, a MIGRATE and
an INITIALIZE keep it, blank bytes begin a new one, so that bytes that were dropped and
initialised anew are not taken for those that were kept. Messages come in any order and any number of times, so every
`\E session, module` of `Next` is also a duplicate or late delivery. `Deploy` is a
direct deploy, constructed at once or at the next tick; `DeployTx` is the DEPLOY
transaction with its chain of verdicts. `DeployTraps` and `ConstructionTraps` are
the two places where a contract's entry can stop the node.

**UploadClient.** Extends `Deployments`, whose message handlers it drives instead of
letting messages come freely. One step is what a client does between two waits:
`Preflight` and `Watch` (is the node's slot free, abandoned or fed), `SendBegin` and
`CheckClaim`, `SendChunks`, `Assemble`, `SendDeploy`, and the polls of the
confirmation loop. A broadcast goes into a mempool and is handled at any time up to
its tick, or is gone when the tick is past. Independently of that, its answer may be
lost, and reads may fail; the node's `ok: false` for a message it refuses is such a
failure to the client, except for the chunks it sends again while it assembles: there
`upload.ts:242` does not look at the answer, and only a call that throws ends the upload
(`Assemble`). Broadcasts and reads are those of the RPC client in `packages/core`, whose
own tries are one here: a read fails when all of them did. `MayCrash` clients may be interrupted. Each loss is counted,
so properties can speak of how many retries make up for.

**ContractCalls.** The open calls are one stack of frames. The depth counters and flags the
code keeps in fields and restores in `finally` are read off the stack, so an unwinding
cannot forget one in the model; what is modelled instead is which frames an error
unwinds, what it marks and where it stops. A frame's base and every call weigh one unit
of time.

What opens a stack is a transaction, a harness's `procedure`, a query, a phase of a tick
or an epoch, or an oracle notification; what a running frame may do is transfer, burn,
invoke, call a function, propose or vote, acquire or release rights (with the other
contract's PRE, the notice of its fee and its POST), and ask the oracle engine, whose
refusals and repeated replies run the caller's own notification procedure inside the
call. Each of these looks at other things before it enters the contract, and that
is what `OutOfServiceIsGated` lists: the error state and the reserve (transactions, tick
phases), the reserve alone (`procedure`, nested calls), the error state alone (epoch
phases, notices, callbacks), or neither (queries, oracle notifications). The call that is
not there is `distributeDividends`, whose notices are those of so many transfers
(`Assets` has them between the credits). INITIALIZE and MIGRATE, which run once per
deploy, are in `Deployments`; the epochs a contract lives in and the fees of OC
invocations are left out. What `runAdvance` does in a fixed order are actions of their
own here, which may come in any order, as the simulator also offers them singly.

**Assets.** The table is an array with holes and a probe order; `Probe` is the code's
loop. Each search of the code is there as it is written (probing, walking the
parent's list, listing) and the invariants compare them. Calls that run
foreign code in the middle (a transfer of rights with PRE, fee notice and POST; a
dividend payout) are frames with a stage, and the other contract may do anything
while they wait. A deploy mints as many shares as its caller names, the committee's
number by default (`MintDeployShares`), and `SetContractAssetName` gives a contract an
asset that nobody issued; a dividend is debited for the committee's number whatever
there is, and `vanished` is the difference, which is negative if more shares are paid
than were debited for. Owner and possessor are the same person throughout, as no operation
modelled here separates them.

**LogStore.** The store is one record and its methods are operators on it; the actions
are the places in `qubic-simulator.ts` that open and close ranges, around which
contracts log records of any kind. Which ticks settle fees is left open, and so is how
many contracts are charged: `EnterTick` opens BEGIN_TICK's range for them, `Settle` writes
one record for each, and the last one goes on to the constructions. The commits
that waited for the oracle pass are written one by one (`WriteCommit`), with nothing
between them: each may be the one that overflows the store.

**OracleQueries.** A reply is its own digest; a commit is a digest and whether its
knowledge proof is right. `agreeing` and `total` of a finished query are the counts
the code stores. The engine's histogram (`most`) is kept incrementally, exactly as
in the code; `StatusFollowsCommits` and `MostIsMost` compare it with a count from
scratch. `Free` slots, the rotating search for one and the reuse of a slot by a
later query are modelled.

**OracleSubscriptions.** The linked list of subscribers is a sequence, the heap a
set of which any minimal element may come first. Subscriber slots are never reused,
as in the code.

**OracleSimulator.** `phase` is where `runAdvance` stands; contract actions are
enabled where contract code runs. `AnswerQuery` is a whole
`processOracleMachineReply`: reply, the commits that make a quorum, and the held
reveal. Whether a tick switches the epoch is left open.

**OcManager.** A request is its size. The fee is taken and handed back when the
manager refuses, so a refusal changes nothing. Whether a tick switches the epoch is
left open.

## Runs

Ten runs pass. Their bounds are chosen so that every action fires and every limit
that is compared with something is reached.

| Run | What it checks | Bounds and why |
| --- | --- | --- |
| `tick_engine` | `QueuedIsAhead`, `IndicesAgree`, `RunsAtMostOnce`, `SignedIsKept`, and the refinement `LifeIsKept` with its liveness | two names, so two transactions per tick, and two clients; epochs of two ticks and a history of two within five ticks, so two switches and several prunings happen |
| `deployments` | `InitializedOnce`, `RegistryReportsWhatRuns`, `StateSurvivesUpgrade`, `HoldersKeepTheirSlot` | one slot (slots do not interact, and the proof covers any number), two sessions, three modules of which one migrates from another and one does not load, one chunk (uploads of two are in `upload_client`), three versions, a staged state that fits one module and not the other, two ticks |
| `upload_client` | `ReportsAreTrue`, `LossesAreMadeGood`, `ClosedStaysClosed`, `OnlyTheFedAreRespected`, `EveryClientEnds` | two clients for one slot, two chunks, two losses against one retry, one client that may crash; transactions two ticks ahead, sessions stale after nine, the fewest that the theorem about losses allows; at most 12 polls |
| `contract_calls` | `EnergyConserved`, `TimeIsChargedOnce`, `OnlyNotificationsRecurse`, `OutOfServiceIsGated` | two contracts that can call back into each other, of which the higher one has phases and oracle notifications, two levels of calls, four calls in all, one tick that settles the phase before it, a reserve that four calls can exhaust |
| `assets` | `SharesConserved`, `LookupsAgree`, `MoneyConserved`, `RightsMoveAsAgreed` | two contracts and a user: two of them start their probes at one place, two agree in the bits an issuance compares; the user's probes start at the last place of the table and go on where the others' start, so that they collide and wrap around; seven records in ten places, which a dividend to two possessors and the rights of a contract's own shares need; mints of one share and of two for a committee of two, and a contract whose asset nobody issued |
| `log_store` | `RetentionIsExact`, `RangesTellTheTruth`, `DigestsCoverMutations`, `OnlyOverflowHalts` | three records of one byte, digested, or of three, not digested, in a store of three bytes; four records in all, epochs of one tick, two ticks, up to two waiting commits: eviction, overflow, switches, and a settlement before a construction all happen |
| `oracle_quorum` | `StatusFollowsCommits`, `SuccessIsConfirmed`, with the methods in any order | one query, four computors (quorum 3), two replies: disagreement, a hopeless split and a quorum of fake commits are all reachable; symmetric in computors and replies |
| `oracle_ticks` | `PoolsAgree`, `CommittedIsHeld`, `EveryoneIsTold`, `DeadlinesAreMet`, `ToldInOrder`, `FinishedIsFinal` | three queries over two places, three ticks, any of them an epoch switch, timeouts of 0 and 1; no subscriptions, so the notification queue suffices (`LostNotification.cfg` below has the overflow) |
| `oracle_subscriptions` | `DueAreServed`, `SubscriptionsAgree`, `PeriodIsKept` | two contracts, periods 1 and 2, clock steps of half a minute and of 2.5 minutes (a missed period), one place for a query so that a generation can be refused, two subscriber slots so that both contracts fit, or one that leaves and comes back; `DueAreServed` allows for a refused generation, whose consequence is `no_subscribers_left` |
| `oc_manager` | `InFlightIsHeld`, `PlacesAreFreedInTime`, `NextIdIsFresh`: the in-flight count is exact, places are freed `AuthOffset` ticks after the call, ids are fresh within an epoch (`OcEpochs.cfg` below has the switch between two) | two contracts, two sizes, four ticks; all of the per-epoch, in-flight, storage and per-tick id limits, and the contracts' energy, are hit |

Invariants are conjunctions of named parts, each with its own comment: `PoolsAgree`,
say, contains `IdsGrow` and `ToldAtMostOnce`. The type invariant of a module is a part of
its structural invariant (`IndicesAgree`, `LookupsAgree`, `RetentionIsExact`,
`OnlyNotificationsRecurse`, `PoolsAgree`, `SubscriptionsAgree`, `ReportsAreTrue`); those of
`OcManager` and `Deployments` are theorems instead. `CHECK_DEADLOCK FALSE` everywhere: the runs end at their last tick, record
or call, and a node that has halted does nothing more.

The client's numbers are scaled down in `upload_client`. With the code's own
(`TxTickOffset` 3, `StaleTicks` 32, `ReadyTicks` 4, `Retries` 3, `GraceTicks` 3,
`MaxPolls` 60), one chunk and clients that start within a tick, the same properties hold as well.

**Fairness.** Two runs need it.

- `tick_engine`: weak fairness of `Advance`. The ticker
  (`engine/support/node-ticker.ts`) advances at an interval until it is stopped or an
  advance throws, which is a fault of the node, and a call of `runAdvance` is
  synchronous, so it cannot be left half done except by a fault. From this one
  assumption TLC derives both fairness conditions of `TxLife`. Nothing is assumed of
  clients: a broadcast may await its id forever. A node whose ticker is off and that
  nobody advances makes no progress, and the property does not speak of it.
- `upload_client`: weak fairness of `Tick`, of the handling of what is in the mempool
  and of each client's steps. The first two are the ticker again; a client is a
  process whose waits are timers and bounded polls. Crashes and losses are not fair:
  they may happen up to their bound or not at all. Ticks stop when the last client has
  ended, which is where the run ends.

## Disagreements with the repository's own words

Two runs state something a comment or an assertion of the repository says,
and TLC shows a behaviour of the code in which it is false.

| Run | Said | What the code does |
| --- | --- | --- |
| `no_subscribers_left` | `oracle-engine.ts:1032`: a subscription's query has subscribers | a generation refused for lack of room has already moved the subscribers on and leaves the subscription due; the next query has nobody to tell, and its delivery fails |
| `lost_answer` | `packages/cli/src/ops/deploy/upload.ts:113`: a fresh tick retries transient broadcast failures | a BEGIN that arrived while its answer was lost opens the session, but is never counted as sent: the client uploads every chunk, then reports that the upload failed and leaves the session open |

The following statements are kept, with a configuration each, as observations a reader
can reproduce with `tlc -config <file> <module>`; each is refuted too. Several speak of
an order the virtual node shares with the native core, so it may be the sentence
that is too short.

| Configuration and module | Said | What the code does |
| --- | --- | --- |
| `OcEpochs.cfg`, `MCOcEpochs` | `docs/cli-guide.md:1897`: a dropped record's id reads `UNKNOWN` | END_EPOCH and BEGIN_EPOCH run under one tick number and the id counter restarts between them, so an id is given out twice and the old one reads the new record |
| `LateReveal.cfg`, `MCOracleSimulator` | `docs/cli-guide.md:1864`: revealed after the timeout is `TIMEOUT` | reveals are looked at before timeouts, and do not look at the time |
| `LostNotification.cfg`, `MCOracleSimulator` | `docs/cli-guide.md:1865`: queries finishing in one tick are notified in order | the queue has as many places as queries may be pending; a tick can finish more, and the one that does not fit is never told |
| `OwedInitialize.cfg`, `MCDeployments` | `registry.ts:75`: a redeployed slot is still owed its INITIALIZE | if the new module migrates from the size of the blank state, MIGRATE runs on blank bytes instead |
| `VerdictStands.cfg`, `MCUploadClient` | `transport.ts:835`: a session's verdict stands once given | it stands until another session's replaces it; a client that resends DEPLOY after that gets a different one. `ReportsAreTrue` shows that clients are not misled by it while they miss fewer polls than a transaction is ticks ahead |
| `ErrorsClimb.cfg`, `ContractCalls` | `qubic-simulator.ts:1723`: an abort climbs frame by frame, each is marked | the error that leaves is the innermost one (`runtime.ts:798`), and only its contract is marked |
| `LogRanges.cfg`, `MCLogStore` | `qubic-simulator.ts:1422`: a contract is constructed in the INITIALIZE log range | at an epoch switch the marker of the new epoch is written under that range before BEGIN_EPOCH, and the construction after it; a range is one interval, so it does not name both. BEGIN_TICK's range has the same flaw the other way round: it is opened for the fees (1403) and again for the contracts (1450), and what a construction logs in between lies in its interval, which is all that `PhaseRangesAreWhole` allows it |

Also met while modelling, and not stated as runs:

- `checkStateConsistencyWithAssert` (`oracle-engine.ts:1012`) asserts that the
  number of subscriptions is below the limit, and admission (346-353) lets it
  reach the limit.
- The comment at `oracle-engine.ts:406` gives a joining subscriber a time that is
  not in the past; with an overdue subscription as reference the computed time
  (407-410) can be.
- A broadcast whose `await` is overtaken by its own tick runs in a tick that is
  already signed (`transport.ts:658`, `qubic-simulator.ts:1975`), while the comment
  at `chain/txs.ts:12` says that a record's digest is an entry of its tick's TickData. `SignedIsKept` therefore
  says that the signed transactions stay and come first, not that the list is closed.
  If the broadcast is overtaken by the pruning of its tick as well, the transaction
  can run a second time, which `RunsAtMostOnce` excludes by name. Its logs go under
  the tick that follows, with the index it had in the tick that was signed.
- The comment at `runtime.ts:744` says that an instance is never re-entered mid-call,
  since a contract can only call lower slots. Notices and proposals go to any slot, so
  it can be; `TimeIsChargedOnce` is about what this does to the meters.
- The time of a frame that traps is charged to nobody; `unpaid` counts it.
- The fee of a transfer of rights is paid before the shares are checked for the last
  time, so a callback can make it paid for nothing. Dividends of a contract without
  shareholders leave the contract and reach nobody (`vanished`).
- Records that END_EPOCH logs are finalized and dropped in the same advance by the
  reset of the store; commits of the oracle engine that wait for the next pass are
  dropped with an epoch switch.
- Staged chunks carry no session (`transport.ts:236`), so two clients that stage one
  slot with one total mix their bytes. A contract's name keeps pointing at its slot
  when the slot is redeployed under another name (`transport.ts:267`). `takeDue`
  empties the queue before it runs (`qubic-simulator.ts:1999`), so a fault drops the
  rest of its tick. The code promises nothing about these, and no property does.
- A request to the oracle engine that is refused notifies its caller at once, inside the
  call, without counting it (`qubic-simulator.ts:1203`): a notification procedure that
  makes such a request recurses until the host's stack ends. `OnlyNotificationsRecurse` says
  that this is the only such case.
- The comment at `qubic-simulator.ts:1523` says of a function that aborts or traps that it
  fails only its own query and the node keeps ticking. If the function was called by
  another one inside the query, an abort goes through `nestedTrapResult` (1670), which
  records a fault of the node.
- A dividend of one unit per share is debited for the committee's number of shares
  (`qubic-simulator.ts:1005`) but credited to the shares there are, which a fixture can make
  fewer or more (1021), or none (1015): energy is then lost or made.

## Proofs

TLC checks small instances; `tlapm` proves the following for every value of the
constants that the modules' own assumptions admit, and for runs of any length.

**`Sums_proofs`.** A fold over a set is a function chosen by its recursive equation,
and `SumExists` shows that there is one. The library's induction theorems take an
operator; `NatSetInduction` and `SubsetInduction` state induction over a set
instead. From it: `TotalSplit`, `TotalAdd`, `TotalUpdate`, `TotalMoved`,
`TotalUnion`, `TotalOfPart`, `TotalImage` and `TotalBounds`, what the ledgers need of a
sum when a summand changes, or the set does, or it is counted by other names.

**`TickEngine_proofs`**, from `TickConstants` and `NoTxAssumption`:

- `QueueTheorem`, `IndexTheorem`, `RunTheorem`: `Spec => []P` for `QueuedIsAhead`,
  `IndicesAgree`, `RunsAtMostOnce`;
- `SignedTheorem`: `Spec => SignedIsKept`;
- `LifeRefinement`: `Spec => Life!Spec`, the safety part of `LifeIsKept`.

The inductive invariant is `TickInv`. The three properties are not inductive one by
one: that a tick's transaction is not run twice needs that whatever ran is recorded
or pruned (`RunsAreRemembered`), that needs each transaction in one place
(`PlacesAgree`, `QueuesAreSets`), and that in turn needs that what was let in before
the `await` is of this epoch or an earlier one (`PendingIsInEpoch`). For the
refinement each action is shown to be one step of `TxLife` or none: taking what is due
moves transactions within `waiting`, a late broadcast is `ExecuteLate`, the
finalization is `Forget`.

**`Deployments_proofs`, first part**, from `DeploymentConstants` and `NoneIsNothing` (the
absent value is neither a record nor a module):

- `DeployTypeCorrect`: `Spec => []TypeOK`;
- `DeployInitializedOnce`: `Spec => []InitializedOnce`;
- `DeployRegistry`: `Spec => []RegistryReportsWhatRuns`;
- `DeployStateSurvives`, `DeployHolders`: the action properties
  `StateSurvivesUpgrade` and `HoldersKeepTheirSlot`.

`StateSurvivesUpgrade` follows the bytes a slot will hold once it is constructed: a
deploy over a complete staged state installs that one, every other step keeps them, by
their `version`, and INITIALIZE runs on them only while they are blank.

`InitializedOnce` speaks of what is in a slot; it is not inductive, because the
next tick initialises what waits, or puts a state back that was set aside.
`WaitingInv` says what has to be true of a waiting slot: if it waits for INITIALIZE
its bytes are neither initialised nor staged, and if it waits for MIGRATE the state
it set aside is itself in order. `InstalledType` shows that whatever a deploy puts
into a slot has this form, in each of its five cases; `ConstructedType` that the
construction of a waiting slot then yields a state in order; one lemma per action
does the rest.

**`Deployments_proofs`, second part**, about `UploadClient`, from `ClientConstants` too:

- `ClientsUseTheNode`: `ClientSpec => Spec`, so that everything above holds of a node
  driven by clients;
- `ClientTypeCorrect`, `ClosedSessionsStayClosed`: `ClientSpec => []P` for `ClientTypeOK`
  and `ClosedStaysClosed`, for any sizes;
- `OnlyTheFedTurnClientsAway`: `OnlyTheFedAreRespected`, with `RetriesFitASession`;
- `ReportsTellWhatHappened`: `ReportsAreTrue`, with `RetriesFitASession`, `Lag = 0`,
  `PollsOutlastResends` and `ClientsDiffer`.

The invariants build on each other, and TLC checked each before it was proved.
`PhaseInv` says which transactions of a client there can be in each phase; that no
BEGIN is left when DEPLOY is sent is why a closed session is not opened again
(`ClosedInv`). `FitInv` says that the next BEGIN of a client that retries is handled
before the session it may have opened could expire, so that a session is opened once;
a watcher that counts down to the expiry of what it saw is then never overtaken by the
same session opened anew (`WatchInv`). `ReportInv` follows a module through the node: an assembly holds
bytes of its own session only (`BytesInv`), a slot runs the module of the session
that was armed there (`MetaInv`), and what a client that polls can still come to read
(`AnswerOf`): its DEPLOY is handled before its polls run out, and whoever else has an
"ok" ahead of it took the upload after this client was finished with it.

The hypotheses are what the code's numbers give and, without them, the statements
are false. `RetriesFitASession` is `Rounds(Retries + 1) <= StaleTicks`, where a round
takes `TxTickOffset + 1 + 2 * Lag` ticks; with three retries, three ticks of lead
and 32 ticks to staleness it holds up to a lag of two. `PollsOutlastResends` is that
the last DEPLOY is due before the polls end (27 of 420). `ClientsDiffer` excludes two
clients with the same module for the same slot, of which either sees the other's
success as its own, rightly. `Lag = 0` is a client that polls in every tick; one that
is slower can miss a module that another deployment replaced at once, and then
reports a failure of what did happen. All four hold in `UploadClient.cfg`.

**`Deployments_proofs`, third part**: what a client loses is made good.

- `LossesAreBorne`: `LossesAreMadeGood`, with `Lag = 0`, `PollsOutlastResends` and
  `ClientsDiffer` as above, `SessionsOutlastLosses`, `PollsOutlastLosses` and `ModulesLoad`.

Nothing in the state says how much a client may still lose: its attempts are counted
anew in every phase, and the node's clock for a session runs on while it retries.
`LossInv` prices losses in ticks. While a client claims and assembles, its session
has been idle for at most a round of `TxTickOffset + 1` ticks for each loss, and two more
(`ClaimingOf`, `SendingOf`, `AssemblingOf`); once the assembly is complete, for the time
its DEPLOYs took and a tick for each further loss (`UnansweredOf`, `Reach`). Beside it
the invariant says that nothing is lost for free: an attempt that was used up is a
loss that was counted; every chunk is received, under way, or lost and then a round is
left for it; a DEPLOY is under way (`Awaited`), or was lost and will be repeated
(`Missed`). Transactions of a client are there only in the phases that wait for them, which
is what `PhaseInv` has; a session is not stale as long as the bound holds (`NotStale`),
so nobody else takes the slot (`HolderCases`); and a DEPLOY that finds its session
complete arms the module (`DeployArms`). One lemma for each step of a client shows
that the step is paid for, one for each phase that it outlives what others do and a tick.

`SessionsOutlastLosses` are the two sizes this needs, `Rounds(Retries + 2)` and
`DueBy(Retries) + TxTickOffset + 1`, at most `StaleTicks`: 20 and 28 of 32 with the
code's numbers; nine and nine of nine in `UploadClient.cfg`. `PollsOutlastLosses` is that
the last DEPLOY is handled before the polls end although some of them were lost (28 of
420 with the code's numbers). `ModulesLoad` excludes modules the node rejects, which a
client reports rightly. The property speaks of what a client's losses may keep from
happening, and so ends with the arming of its module: what a client can still report of
a module that was armed and then replaced by another's is `ReportsAreTrue`, with the
polls that it may miss.
TLC finds the property violated with two ticks fewer to staleness, with a lag of
one poll, and with a module that does not load.

**`ContractCalls_proofs`**, for any contracts, depths and reserves, and any
constants within `CallConstants`:

- `EnergyTheorem`, `TimeTheorem`, `StackTheorem`: `Spec => []P` for
  `EnergyConserved`, `TimeIsChargedOnce`, `OnlyNotificationsRecurse`;
- `ServiceTheorem`: `Spec => OutOfServiceIsGated`.

The invariant is `CallInv == Booked /\ StackInv`. `Booked` is the two conservation
laws, with the time that waits in saved meters (`Held`, a sum over the frames of a
slot) as the term that a call moves time into and an unwinding takes it out of.
`StackInv` is the shape of the stack and who may be on it. `Shape` says what may lie above
what: nested calls go down in slots and are counted, a proposal lies under no proposal, a
callback of rights under none, a notice under no notice, and a notification on a
frame of its own contract. From this two bounds follow, one by the depth and one by
the number of contracts, although notices and callbacks may go to any slot, and neither
counts the notifications. `AllServe` says that no contract on the stack is put out of
service while it is there, including by what its notice announces.

**`OracleSimulator_proofs`, first part**, about `OracleQueries`, from `OracleConstants`,
the methods in any order:

- `MethodsAgree`, `MethodsFollowCommits`: `Spec => []P` for `PoolsAgree` and
  `StatusFollowsCommits`;
- `MethodsConfirm`, `MethodsFinal`: the action properties `SuccessIsConfirmed` and
  `FinishedIsFinal`.

`EngineInv` is `PoolInv` (each open query has a slot of its own, the pending tables
are what the statuses say, the histogram is right and each status sound), `IdInv`
(ids grow and none is beyond the last that was handed out) and `NoteInv` (where the
notification cursor stands). Counting is what makes it work: a commit adds one vote
(`OneMoreVote`), two quorums would need more computors than there are, and a digest
that no quorum can reach never reaches one. `Moved` says what a method may do to a
query; every method is shown to move each query so, and the action properties follow.

**`OracleSimulator_proofs`, second part**, from `OracleConstants` and
`SubscriptionConstants`:

- `SimulatorAgrees`, `HeldTheorem`, `DeadlineTheorem`, `SubscriptionTheorem`,
  `PeriodTheorem`: `SimulatorSpec => []P` for `PoolsAgree`, `CommittedIsHeld`,
  `DeadlinesAreMet`, `SubscriptionsAgree`, `PeriodIsKept`;
- `FinalTheorem`, `DueTheorem`: `FinishedIsFinal` and the action property
  `DueAreServed`.

`SimInv` joins `EngineInv` with `SubInv` (each list is sorted, without repeats, of
subscribers of its own, none earlier than the heap's time; the heap holds exactly the
subscriptions with a list), `HeldInv` (the reveals held are those of the committed
queries, and in which tick they are due), and `CatchInv` (whoever a query of this tick
names is caught up). The long parts are the operators: `InsertSortedFacts` and
`ReinsertedFacts` (putting the due subscribers back one by one sorts the list and
loses nobody), `DueFacts` (the walk takes exactly those who are due), `AdvancedFacts` and `JoinFacts`
(the times computed by division and greatest common divisor lie within a period).

**`OracleSimulator_proofs`, third part**: who is told.

- `EveryoneTheorem`, `OrderTheorem`: a run of `SimulatorSpec` in which `AskedInTime`
  always holds satisfies `[]EveryoneIsTold` and `ToldInOrder`;
- `AskersTheorem`: both hold of every run when there are no keys to subscribe to.

The notification queue has as many places as the pool, and a query that finishes when
the queue is full is told of to nobody. So the invariant `TellInv` counts: the queue is
empty when a tick begins, and while a tick finishes queries it has a place for every
query that is still waiting (`RoomInv`; `PendingFits` maps the waiting queries to their slots).
A query gives up its slot when it finishes, so a tick that starts queries after it finished
some could finish more than there are places. Contracts
start theirs before the reveals or, in a callback, after the timeouts; the queries of
subscriptions are started between the two, but one that was just generated has its
timeout ahead and waits for a later tick.
The exception is a generation a minute or more late, and `AskedInTime` excludes exactly this: it
is a condition on the run, not on the sizes, and `LostNotification.cfg` is a run
that violates it and the property. When nobody subscribes it is an invariant, which is
the setting of `OracleTicks.cfg`.

**`Assets_proofs`**, from `AssetConstants` (finitely many contracts and users, whose
probes start anywhere; a table with more slots than records; amounts are natural
numbers; "no name" is not a name):

- `SharesStayConserved`, `AllLookupsAgree`, `MoneyStaysConserved`: `Spec => []P` for
  `SharesConserved`, `LookupsAgree` (which contains `TypeOK`), `MoneyConserved`;
- `RightsMoveOnlyAsAgreed`: the action property `RightsMoveAsAgreed`.

The inductive invariant is `AssetsInv`, and TLC checks it on the instance of the run
too. Its first part, `Sound`, is about the universe. `IsTable` says that a probe for
a record comes to it before a hole (`Reachable`), that no key is there twice (`Unique`)
and that records refer to records of the right type (`Linked`); `IsChildren` that each
list holds each child once. These three need each other: a probe ends at the only
record with its key, so a credit goes to the record that is there and opens one only
where there is none, in the hole a later probe comes to; and filling a hole hides
nothing (`ReachesStays`, `ReachesOn`). That nothing ever empties a slot is what makes it
inductive; `Debit_clears` shows what happens otherwise. `Paired` says that an ownership
has exactly one possession, of the same owner, manager and number. It is why
a search that compares less of the key (`HeldBy`, `RightsHeldBy`) finds the same
records (`HeldFound`, `NothingFound`), and it is false of the native core's universe at
large, where owner and possessor may differ; here no operation separates them. `Balanced` ties
the sums to what was issued.

`MoveSound` is the step with most content: a move debits and credits an ownership
and a possession, in that order, and the source may be the destination.
`Moved` gives its three outcomes (nothing, merged into a record, a new record), and `MovedOwned`,
`MovedHandled`, `MovedPaired`, `MovedIssuances` what they do to each sum. The second
part, `Nested`, is the shape of the stack of calls that wait, from which follows that
a transfer of rights that is about to move shares is alone on it. The third,
`Accounted`, is the conservation of money, in which `DividendTotal` is the step that
matters: the list of an issuance's ownerships and the list of each ownership lead to
every possession once, so that what will be credited is one for each share, and `vanished` the rest of what was
debited.

**`OcManager_proofs`**, from `OcConstants` (the limits are natural numbers,
`AuthOffset` is positive and at most the timeout):

- `OcTypeCorrect`: `Spec => []TypeOK`;
- `OcInFlight`, `OcFreshIds`, `OcPlaces`: `Spec => []P` for `InFlightIsHeld`,
  `NextIdIsFresh`, `PlacesAreFreedInTime`.

The inductive invariant is `TypeOK /\ CountersInv /\ NextIdIsFresh /\
InFlightIsHeld`, and `PlacesAreFreedInTime` beside it. `InFlightIsHeld` counts a set, so the set has to be finite
(`CountersInv`), and recording adds one holder only if the id is new
(`NextIdIsFresh`), which in turn needs that the id counter is never ahead of the
tick. `RecordPreserves` and `PumpPreserves` are the two steps with content.

**`LogStore_proofs`**, from `LogConstants` (at least one transaction in a tick, an
epoch of at least one tick, room for the marker an epoch starts with, and records of
any positive sizes) and `NothingIsNothing` (a record that is gone is no record):

- `HaltTheorem`, `RetentionTheorem`, `RangesTheorem`, `DigestTheorem`: `Spec => []P` for
  `OnlyOverflowHalts`, `RetentionIsExact` (which contains `TypeOK`),
  `RangesTellTheTruth`, `DigestsCoverMutations`.

The first part is about the store alone. `Sound(l, w, pr)` relates a store `l` to what
was written to it in the epoch, `w`, and to what clients pruned, `pr`: at most one tick
is open, the one after the last that is final (`TicksInOrder`); a record is as it was
written or gone, and gone only when it was pruned or its tick evicted (`IsHistory`,
`GoneIsKnown`); `finalizedTicks` lists every other tick with records in ascending
order, which is why the oldest can be taken from its front (`TicksAreListed`);
`retainedBytes` is a sum (`IsAccounted`); the ranges, also those of the open tick, give
the first and the number of the records under them (`RangesTell`); the digests
enumerate the digested records (`DigestsCover`). One lemma for each method shows that
it preserves all of this: `BeginSound`, `EndSound`, `EvictSound`, `ReservedSound`,
`PushedSound`, `OverflowSound`, `AppendSound`, `FinalizeSound`, `PruneSound`,
`ResetSound`. It also shows that the throw of `append` for a final tick
(`qubic-log-store.ts:122`), which the model leaves out, is never reached: a range that
is open is always of a later tick.

A range only tells a first and a count, so that it names its records needs more: they
follow each other. `RangesAreWhole` and `WholeInv` say so of the three ranges that are
written in one stretch (what is under the range that is open is the last that was
written, `IsTail`); it is false of INITIALIZE, as `LogRanges.cfg` shows. BEGIN_TICK's is
written in two, and `SplitInv` says that between two of its records there are only those
of a construction of the same tick. `PhaseInv`
says which tick each phase writes to, from which nothing but an overflow can refuse
it. The properties state digests by rank and ranges by intervals; `ByRank` and
`IntervalIs` are the facts about finite sets of numbers that link them to the
invariant.

The waiting commits are written one in a step because of this invariant: in one step, an
append after an overflow would leave in the history what the overflow discarded.

**Only model-checked.**

- Liveness, in `LifeIsKept` and `EveryClientEnds`: fairness and ENABLED are outside
  the prover's reach.

Statements about what a recursive definition computes need an induction the
installed provers cannot do; the modules with theorems use recursive functions and
folds, whose equations are proved where they are used.

## What is not modelled

The repository is mostly a compiler, its runtime library, editor and command-line
tooling; the specifications cover the node and the one client with a protocol of its
own, a small part of the repository's lines.

- The compiler, the build and code-generation packages, `core`, `proto`, the
  editor extension and the scripts: sequential translation of data, for which tests
  against the native toolchain are the better tool.
- The servers and wire formats: encoding and routing over the state modelled here.
- Consensus digests, signatures and Merkle trees: hashing. A digest is the thing it
  is a digest of.
- The wasm host interface below its calls: memory layout, the state journal, host
  functions that only read. A contract is code that may call, and may trap.
- The array of the min-heap: it has unit tests; the specifications use its contract.
- Within the modelled parts: fees of OC invocations, names of contracts, the epochs a
  contract lives in, what a
  transaction does to the ledger in `TickEngine` (`ContractCalls` has it), staging two
  clients' states for one slot, owners that differ from possessors, and in
  `UploadClient` a node that halts or stands still, a wrong ABI or slot, and the build
  before the upload.

## Plan

Done: ticks, mempool and history with the refinement of `TxLife`; deployments with
the upload client; contract calls and fees; assets; the log store; the oracle engine
and its pass over a tick; the OC manager. Proofs for every one of them: all action
properties and all invariants of the passing runs.

Next: the pool and the tick engine composed with the deployments, so that a session's
transactions are those of one history, and the gtest runner, which schedules the same
node in another way.
