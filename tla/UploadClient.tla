---------------------------- MODULE UploadClient ----------------------------
(***************************************************************************)
(* The clients that deploy over transactions: uploadContract and the       *)
(* confirmation loop of packages/cli/src/ops/deploy, run against the node  *)
(* of module Deployments.                                                  *)
(*                                                                         *)
(* A client is one deployment, so it is its upload session.  A step of a   *)
(* client is what it does between two waits.  A transaction that was       *)
(* broadcast is handled at any time up to its tick (a core node handles it *)
(* in that tick, VirtualNode on arrival) or is gone when its tick is past. *)
(* A broadcast or a read may fail; a broadcast that failed may still have  *)
(* arrived (VirtualNode answers a message it refuses in that way).         *)
(* Clients crash.  Left out: a node that halts, wrong ABI or slot, and a   *)
(* node that stands still for the minutes waitForTick bears.               *)
(***************************************************************************)
EXTENDS Deployments

CONSTANTS
  Wants,         \* client -> the module it deploys
  Target,        \* client -> the slot it deploys to
  TxTickOffset,  \* TX_TICK_OFFSET
  ReadyTicks,    \* ticks waitForTickReadiness lets pass
  Retries,       \* attempts after the first, of every phase
  GraceTicks,    \* DEPLOY_MISS_GRACE_TICKS
  MaxPolls,      \* polls of the confirmation loop
  MayCrash,      \* clients that may be interrupted
  Lag,           \* ticks that may pass before a client takes a step it can take
  StartBy,       \* bound of the model: the tick by which clients have started
  MaxLosses      \* bound of the model: what a client loses to the network

ASSUME ClientConstants ==
  /\ Wants \in [Sessions -> Modules] /\ Target \in [Sessions -> Slots]
  /\ TxTickOffset \in Nat \ {0} /\ Lag \in Nat
  /\ Retries \in Nat /\ GraceTicks \in Nat /\ MaxPolls \in Nat /\ ReadyTicks \in Nat
  /\ MayCrash \subseteq Sessions /\ MaxLosses \in Nat /\ StartBy \in Nat

VARIABLES
  client,    \* what each client does next
  mempool,   \* transactions that were broadcast and are neither handled nor gone
  losses,    \* client -> failed calls and transactions that missed their tick
  verdicts   \* client -> every verdict the node gave on its DEPLOYs (history)

clientVars == <<client, mempool, losses, verdicts>>
allVars == <<vars, clientVars>>

Running == {"start", "watching", "claiming", "checking", "sending", "assembling",
            "arming", "confirming", "armed"}
Failures == {"unclaimed", "unsent", "uncounted", "refused", "unarmed"}
Ended == {"ok", "busy", "threw", "crashed"} \cup Failures

Resting(pc) == [pc |-> pc, tries |-> 0, until |-> 0, txTick |-> 0, polls |-> 0,
                begun |-> FALSE, pending |-> {}, seen |-> None]

ClientInit ==
  /\ Init
  /\ client = [c \in Sessions |-> Resting("start")]
  /\ mempool = {}
  /\ losses = [c \in Sessions |-> 0]
  /\ verdicts = [c \in Sessions |-> {}]

\* A client takes its next step once the tick it waits for has come.
At(c, pc) == client[c].pc = pc /\ tick >= client[c].until
Ends(c, pc) == client' = [client EXCEPT ![c] = Resting(pc)]

\* LiteRpc.broadcastTx: some transactions of a client are broadcast, those that
\* arrive, and those whose arrival the client hears of.  The others throw, or are
\* not ok.  The node refuses one whose tick is not ahead.
Broadcast(c, txs, arrived, answered) ==
  LET timely == {tx \in txs : tx.tick > tick} IN
  /\ arrived \subseteq timely /\ answered \subseteq arrived
  /\ losses[c] + Cardinality(timely \ answered) <= MaxLosses
  /\ losses' = [losses EXCEPT ![c] = @ + Cardinality(timely \ answered)]
  /\ mempool' = mempool \cup arrived

\* LiteRpc.dynUpload; it has failed when all the tries of get have.
Reads(c, upl, read) ==
  /\ upl = IF read THEN LiveUpload ELSE None
  /\ read \/ losses[c] < MaxLosses
  /\ upload' = IF read THEN LiveUpload ELSE upload
  /\ UNCHANGED <<tick, lastDeploy, stagedStates, slotVars, halted>>
Forgets(c, read) == losses' = IF read THEN losses ELSE [losses EXCEPT ![c] = @ + 1]

Received(upl) == {q \in Chunks : upl.bytes[q] # None}

(***************************************************************************)
(* Before the upload: runPreflightChecks and waitForStaleUpload.           *)
(***************************************************************************)

TicksLeft_short(upl) == IF StaleTicks > tick - upl.lastProgressTick + 1
                        THEN StaleTicks - 1 - (tick - upl.lastProgressTick) ELSE 0
TicksLeft(upl) == IF StaleTicks + 1 > tick - upl.lastProgressTick
                  THEN StaleTicks + 1 - (tick - upl.lastProgressTick) ELSE 0

Claiming(c) == [Resting("claiming") EXCEPT !.until = tick + ReadyTicks]

\* A read that fails, here or below, ends the check as if the slot were free.
Preflight(c, read) ==
  \E upl \in {LiveUpload, None} :
    /\ At(c, "start") /\ Reads(c, upl, read) /\ Forgets(c, read)
    /\ client' = [client EXCEPT ![c] =
         IF upl = None THEN Claiming(c)
         ELSE [client[c] EXCEPT !.pc = "watching", !.until = tick + 1, !.tries = TicksLeft(upl),
                        !.seen = [session |-> upl.session, received |-> Received(upl)]]]
    /\ UNCHANGED <<mempool, verdicts>>

\* One round of waiting for an abandoned session to expire; "tries" rounds are left.
Watch(c, read) ==
  \E upl \in {LiveUpload, None} :
    LET seen == client[c].seen IN
    /\ At(c, "watching") /\ Reads(c, upl, read) /\ Forgets(c, read)
    /\ client' = [client EXCEPT ![c] =
         IF upl = None \/ upl.session # seen.session THEN Claiming(c)
         ELSE IF Received(upl) # seen.received \/ client[c].tries = 0 THEN Resting("busy")
         ELSE [client[c] EXCEPT !.tries = @ - 1, !.until = tick + 1]]
    /\ UNCHANGED <<mempool, verdicts>>

(***************************************************************************)
(* uploadContract.                                                         *)
(***************************************************************************)

Begin(c) == [from |-> c, kind |-> "begin", seq |-> 0, tick |-> tick + TxTickOffset]
ChunkTx(c, q, at) == [from |-> c, kind |-> "chunk", seq |-> q, tick |-> at]
Deployment(c) == [from |-> c, kind |-> "deploy", seq |-> 0, tick |-> tick + TxTickOffset]

\* claimUpload waits out the tick of a BEGIN it knows to have arrived.
ClaimedUntil(tx, answered) == IF answered = {} THEN tick ELSE tx.tick + 1

SendBegin(c) ==
  /\ At(c, "claiming")
  /\ \E arrived, answered \in SUBSET {Begin(c)} :
       /\ Broadcast(c, {Begin(c)}, arrived, answered)
       /\ client' = [client EXCEPT ![c] =
            [client[c] EXCEPT !.pc = "checking", !.begun = @ \/ answered # {},
                      !.until = ClaimedUntil(Begin(c), answered)]]
  /\ UNCHANGED <<vars, verdicts>>

CheckClaim(c, read) ==
  \E upl \in {LiveUpload, None} :
    /\ At(c, "checking") /\ Reads(c, upl, read) /\ Forgets(c, read)
    /\ client' = [client EXCEPT ![c] =
         IF upl # None /\ upl.session = c
           THEN [client[c] EXCEPT !.pc = "sending", !.tries = 0, !.pending = Chunks,
                          !.until = tick, !.txTick = tick + TxTickOffset]
         ELSE IF upl # None THEN Resting("busy")
         ELSE IF client[c].tries < Retries
           THEN [client[c] EXCEPT !.pc = "claiming", !.tries = @ + 1, !.until = tick]
         ELSE Resting("unclaimed")]
    /\ UNCHANGED <<mempool, verdicts>>

\* What the chunks wait for before the client looks at the assembly.
SentUntil_atOnce(c) == tick
SentUntil(c) == client[c].txTick + 1

\* sentIndexes holds the BEGIN too, once the client heard that it arrived.
SentAll(self) == self.begun

\* Every chunk is broadcast until the client heard that it arrived; all for one tick.
SendChunks(c) ==
  LET txs == {ChunkTx(c, q, client[c].txTick) : q \in client[c].pending} IN
  /\ At(c, "sending")
  /\ \E arrived, answered \in SUBSET txs :
       LET left == {q \in client[c].pending : ChunkTx(c, q, client[c].txTick) \notin answered} IN
       /\ Broadcast(c, txs, arrived, answered)
       /\ client' = [client EXCEPT ![c] =
            IF left = {} /\ SentAll(client[c])
              THEN [client[c] EXCEPT !.pc = "assembling", !.tries = 0, !.pending = {},
                              !.until = SentUntil(c)]
            ELSE IF left = {} THEN Resting("uncounted")
            ELSE IF client[c].tries < Retries
              THEN [client[c] EXCEPT !.pending = left, !.tries = @ + 1, !.until = tick]
            ELSE Resting("unsent")]
  /\ UNCHANGED <<vars, verdicts>>

\* A round of the assembly loop; after the last one the client deploys anyway.
NextRound(c, until) ==
  IF client[c].tries < Retries THEN [client[c] EXCEPT !.tries = @ + 1, !.until = until]
  ELSE [client[c] EXCEPT !.pc = "arming", !.tries = 0, !.until = until]

Missing_none(upl) == {}
Missing(upl) == Chunks \ Received(upl)

\* Missing chunks are broadcast again.  A call that throws ends the upload; an
\* answer that is not ok is ignored, the next round finds the chunk missing.
Assemble(c, read) ==
  \E upl \in {LiveUpload, None} :
    /\ At(c, "assembling") /\ Reads(c, upl, read)
    /\ \/ /\ upl # None => upl.session # c \/ Missing(upl) = {}
          /\ client' = [client EXCEPT ![c] =
               IF upl = None THEN NextRound(c, tick + 1)
               ELSE IF upl.session # c THEN Resting("busy")
               ELSE [client[c] EXCEPT !.pc = "arming", !.tries = 0, !.until = tick]]
          /\ Forgets(c, read) /\ UNCHANGED mempool
       \/ /\ upl # None /\ upl.session = c /\ Missing(upl) # {}
          /\ LET txs == {ChunkTx(c, q, tick + TxTickOffset) : q \in Missing(upl)} IN
             \E arrived, answered \in SUBSET txs, thrown \in BOOLEAN :
               /\ Broadcast(c, txs, arrived, answered)
               /\ thrown => answered # txs
               /\ client' = [client EXCEPT ![c] =
                    IF thrown THEN Resting("threw") ELSE NextRound(c, tick + TxTickOffset + 1)]
    /\ UNCHANGED verdicts

(***************************************************************************)
(* broadcastDeploy and the confirmation loop.                              *)
(***************************************************************************)

SendDeploy(c) ==
  /\ At(c, "arming")
  /\ \E arrived, answered \in SUBSET {Deployment(c)} :
       /\ Broadcast(c, {Deployment(c)}, arrived, answered)
       /\ client' = [client EXCEPT ![c] =
            IF answered = {} THEN Resting("threw")
            ELSE [client[c] EXCEPT !.pc = "confirming", !.txTick = tick + TxTickOffset,
                           !.tries = 0, !.polls = 0, !.until = tick]]
  /\ UNCHANGED <<vars, verdicts>>

RunsMine_any(c) == slotMeta[Target[c]] # None
RunsMine(c) == slotMeta[Target[c]] # None /\ slotMeta[Target[c]].codeHash = Wants[c]
IsConstructed(c) == pendingConstruction[Target[c]] = None

\* The node's account of this session's DEPLOY, once its tick is past.
Refused(c) ==
  /\ tick > client[c].txTick /\ lastDeploy # None /\ lastDeploy.session = c
  /\ lastDeploy.code \notin {"ok", "incomplete"}

MissedItsTick(c) == tick > client[c].txTick + GraceTicks

NextPoll_forever(self) == [self EXCEPT !.until = tick + 1]
NextPoll(self) ==
  IF self.polls < MaxPolls THEN [self EXCEPT !.polls = @ + 1, !.until = tick + 1]
  ELSE Resting(IF self.pc = "armed" THEN "ok" ELSE "unarmed")

\* The registry shows the module in its slot.
PollArmed(c) ==
  /\ \E pc \in {"confirming", "armed"} : At(c, pc)
  /\ RunsMine(c)
  /\ client' = [client EXCEPT ![c] =
       IF IsConstructed(c) THEN Resting("ok") ELSE NextPoll([client[c] EXCEPT !.pc = "armed"])]
  /\ UNCHANGED <<vars, mempool, losses, verdicts>>

\* It does not: the client reads the verdict, and resends a DEPLOY that was missed.
\* Once it has seen its module armed it reports no refusal.
PollUnarmed(c) ==
  /\ \E pc \in {"confirming", "armed"} : At(c, pc)
  /\ ~RunsMine(c)
  /\ upload' = IF tick > client[c].txTick THEN LiveUpload ELSE upload
  /\ UNCHANGED <<tick, lastDeploy, stagedStates, slotVars, halted, verdicts>>
  /\ \/ /\ Refused(c) /\ Ends(c, IF client[c].pc = "armed" THEN "ok" ELSE "refused")
        /\ UNCHANGED <<mempool, losses>>
     \/ /\ ~Refused(c) /\ MissedItsTick(c) /\ client[c].tries < Retries
        /\ \E arrived, answered \in SUBSET {Deployment(c)}, thrown \in BOOLEAN :
             /\ Broadcast(c, {Deployment(c)}, arrived, answered)
             /\ thrown => answered = {}
             /\ client' = [client EXCEPT ![c] =
                  NextPoll([client[c] EXCEPT !.tries = @ + 1,
                    !.txTick = IF thrown THEN @ ELSE tick + TxTickOffset])]
     \/ /\ ~Refused(c) /\ ~(MissedItsTick(c) /\ client[c].tries < Retries)
        /\ client' = [client EXCEPT ![c] = NextPoll(client[c])]
        /\ UNCHANGED <<mempool, losses>>

\* A call of the poll fails: the next poll comes a tick later.
PollFails(c) ==
  /\ \E pc \in {"confirming", "armed"} : At(c, pc)
  /\ losses[c] < MaxLosses /\ losses' = [losses EXCEPT ![c] = @ + 1]
  /\ client' = [client EXCEPT ![c] = NextPoll(client[c])]
  /\ UNCHANGED <<vars, mempool, verdicts>>

(***************************************************************************)
(* The node and the world.                                                 *)
(***************************************************************************)

Handled(tx) ==
  CASE tx.kind = "begin" -> UploadBegin(tx.from, Wants[tx.from])
    [] tx.kind = "chunk" -> IF ChunkRefused(tx.from, tx.seq) THEN UNCHANGED vars
                            ELSE UploadChunk(tx.from, tx.seq, Wants[tx.from])
    [] tx.kind = "deploy" -> DeployTx(tx.from, Target[tx.from], TRUE, Wants[tx.from])

Deliver(tx) ==
  /\ Handled(tx)
  /\ mempool' = mempool \ {tx}
  /\ verdicts' = IF tx.kind # "deploy" THEN verdicts
                 ELSE [verdicts EXCEPT ![tx.from] = @ \cup
                         {Verdict(tx.from, Target[tx.from], TRUE, Wants[tx.from])}]
  /\ UNCHANGED <<client, losses>>

\* A tick passes: no client is later than its lag, and what was not handled by the
\* end of its tick is gone.  The model ends with its last client.
Deadline(c) == IF client[c].pc = "start" THEN StartBy ELSE client[c].until + Lag
Tick ==
  LET gone == {tx \in mempool : tx.tick <= tick}
      lost == [c \in Sessions |-> losses[c] + Cardinality({tx \in gone : tx.from = c})] IN
  /\ NextTick
  /\ \E c \in Sessions : client[c].pc \in Running
  /\ \A c \in Sessions : client[c].pc \in Running => tick < Deadline(c)
  /\ \A c \in Sessions : lost[c] <= MaxLosses
  /\ losses' = lost /\ mempool' = mempool \ gone
  /\ UNCHANGED <<client, verdicts>>

Crash(c) ==
  /\ c \in MayCrash /\ client[c].pc \in Running \ {"start"}
  /\ Ends(c, "crashed")
  /\ UNCHANGED <<vars, mempool, losses, verdicts>>

Step(c) ==
  \/ SendBegin(c) \/ SendChunks(c) \/ SendDeploy(c)
  \/ \E read \in BOOLEAN :
       Preflight(c, read) \/ Watch(c, read) \/ CheckClaim(c, read) \/ Assemble(c, read)
  \/ PollArmed(c) \/ PollUnarmed(c) \/ PollFails(c)

Handle == \E tx \in mempool : Deliver(tx)
ClientNext == Handle \/ Tick \/ \E c \in Sessions : Step(c) \/ Crash(c)

\* Ticks go on, the node works off what it holds, and clients keep running.
ClientSpec ==
  /\ ClientInit /\ [][ClientNext]_allVars
  /\ WF_allVars(Tick) /\ WF_allVars(Handle)
  /\ \A c \in Sessions : WF_allVars(Step(c))

(***************************************************************************)
(* Properties.                                                             *)
(***************************************************************************)

\* The type invariant of the clients and their transactions: none is for a tick
\* that is past.
ClientTypeOK ==
  /\ \A c \in Sessions :
       /\ client[c].pc \in Running \cup Ended
       /\ client[c].begun \in BOOLEAN /\ client[c].tries \in Nat
       /\ client[c].until \in Nat /\ client[c].txTick \in Nat
       /\ client[c].polls \in 0 .. MaxPolls /\ client[c].pending \subseteq Chunks
       /\ losses[c] \in 0 .. MaxLosses /\ verdicts[c] \subseteq Codes
  /\ \A tx \in mempool : tx.tick >= tick

\* What a client reports is what happened: "ok" when the node armed its module, a
\* failure only when it did not, although DEPLOYs are repeated after the session
\* is closed and the node remembers one verdict for everyone.  (A client that misses
\* as many polls as a transaction is ticks ahead may look when another has deployed.)
ReportsAreTrue ==
  ClientTypeOK /\ \A c \in Sessions :
    /\ client[c].pc = "ok" => "ok" \in verdicts[c]
    /\ client[c].pc \in Failures \cup {"busy"} /\ losses[c] < TxTickOffset =>
         "ok" \notin verdicts[c]

\* A client that owns the upload slot, and knows that its BEGIN arrived, bears as
\* many lost transactions, answers and reads as it has retries, wherever they fall:
\* it does not give up before the node has armed its module, and its session does
\* not expire between its own retries.  (It may report a module that the node armed
\* and another client replaced before it looked.)
LossesAreMadeGood ==
  \A c \in Sessions : client[c].pc \in {"unsent", "refused", "unarmed"} =>
    losses[c] > Retries \/ "ok" \in verdicts[c]

\* A BEGIN that is repeated, or late, does not open a session again that its
\* DEPLOY has closed.
ClosedStaysClosed ==
  upload # None => "ok" \notin verdicts[upload.session]

\* A client is turned away only by a session that is being fed: one that was
\* abandoned is waited out.
OnlyTheFedAreRespected ==
  [][\A c \in Sessions : client[c].pc = "watching" /\ client'[c].pc = "busy" =>
       Received(upload) # client[c].seen.received]_allVars

\* Every deployment ends, with an answer for whoever started it.
EveryClientEnds == \A c \in Sessions : <>(client[c].pc \in Ended)

(***************************************************************************)
(* What the repository says of itself, and the model refutes.              *)
(***************************************************************************)

\* claimUpload: a transient failure of a broadcast is retried, so as long as there
\* are retries left an upload does not fail for it.  But a BEGIN whose answer was
\* lost is never counted as sent.
TransientFailuresAreRetried ==
  \A c \in Sessions : client[c].pc \in {"unsent", "uncounted"} => losses[c] > Retries

\* recordDeployOutcome: a session's verdict stands once given, but for "incomplete".
VerdictStands ==
  lastDeploy # None /\ lastDeploy.code # "incomplete" =>
    verdicts[lastDeploy.session] \subseteq {lastDeploy.code, "incomplete"}

=============================================================================
