--------------------------- MODULE OracleSimulator ---------------------------
(***************************************************************************)
(* The oracle engine inside a tick of the simulator,                       *)
(* packages/engine/src/qubic-simulator.ts: runAdvance gives the order in   *)
(* which the methods of OracleQueries and OracleSubscriptions are called,  *)
(* contracts call into the engine wherever runAdvance runs contract code,  *)
(* and an answer is committed by the whole committee at once and revealed  *)
(* in the next tick.                                                       *)
(*                                                                         *)
(* Left out: fees (taken before a call and handed back when it is refused) *)
(* and the notifications inside a call, which report a refusal or the      *)
(* previous reply of a subscription.                                       *)
(***************************************************************************)
EXTENDS OracleSubscriptions

VARIABLES
  phase,   \* where runAdvance stands
  held     \* heldOracleRevealTransactions

vars == <<queryVars, subVars, phase, held>>

Phases == {"idle", "endEpoch", "txs", "reveal", "generate", "timeouts", "provider",
           "deliver", "faulted"}

Init == InitQueries /\ InitSubscriptions /\ phase = "idle" /\ held = << >>

(***************************************************************************)
(* Contract code: between ticks, in END_EPOCH, in BEGIN_EPOCH, BEGIN_TICK  *)
(* and the transactions of a tick, in notifications and in END_TICK.       *)
(***************************************************************************)

ContractsRun == phase \in {"idle", "endEpoch", "txs", "deliver"}

QueryOracle(c, t) ==
  ContractsRun /\ StartContractQuery(c, t) /\ UNCHANGED <<subVars, phase, held>>

SubscribeOracle(c, key, period) ==
  ContractsRun /\ StartContractSubscription(c, key, period) /\ UNCHANGED <<phase, held>>

UnsubscribeOracle(c, k) ==
  ContractsRun /\ StopContractSubscription(c, k) /\ UNCHANGED <<phase, held>>

(***************************************************************************)
(* Answers: resolveOracle between ticks, a provider at the end of the      *)
(* engine's pass over a tick.                                              *)
(***************************************************************************)

AnswersArrive == phase \in {"idle", "provider"}

\* The computors that commit before the quorum stands and the rest are asked
\* for nothing.
AskedComputors == CHOOSE asked \in SUBSET Computors : Cardinality(asked) = Quorum

\* processOracleMachineReply: the engine takes the reply, the computors commit
\* to it, and computor 0's reveal is held for the next tick.
AnswerQuery(i, value) ==
  LET s == queries[i].slot IN
  /\ AnswersArrive /\ queries[i].status = "PENDING"
  /\ queries' = [queries EXCEPT ![i].status = "COMMITTED",
                                ![i].flags = @ \cup {"REPLY_RECEIVED"}]
  /\ replyStates' = [replyStates EXCEPT ![s] =
       [@ EXCEPT !.own = value, !.most = value, !.expectedReveal = tick + 1,
                 !.commits = [c \in Computors |->
                    IF c \in AskedComputors THEN [digest |-> value, honest |-> TRUE]
                    ELSE NoCommit]]]
  /\ pendingRevealReplyStateIndices' = pendingRevealReplyStateIndices \cup {s}
  /\ held' = Append(held, [id |-> queries[i].id, value |-> value])
  /\ UNCHANGED <<clockVars, queryStorageBytesUsed, idVars, replyStatesIndex,
                 pendingQueryIndices, pendingCommitReplyStateIndices, noteVars,
                 subVars, phase>>

\* "oracle unavailable", or an answer of the wrong size.
AnswerUnavailable(i) ==
  AnswersArrive /\ RejectMachineReply(i) /\ UNCHANGED <<subVars, phase, held>>

(***************************************************************************)
(* runAdvance.                                                             *)
(***************************************************************************)

EnterTick ==
  /\ phase = "idle" /\ NextTick
  /\ phase' \in {"txs", "endEpoch"}
  /\ UNCHANGED <<subVars, held>>

\* runBeginEpoch, after END_EPOCH ran under the new tick number.
RunBeginEpoch_keepsHeld ==
  /\ phase = "endEpoch" /\ phase' = "txs"
  /\ BeginEpoch /\ ResetSubscriptions /\ UNCHANGED held

RunBeginEpoch ==
  /\ phase = "endEpoch" /\ phase' = "txs"
  /\ BeginEpoch /\ ResetSubscriptions /\ held' = << >>

\* processOracleTick starts once the tick's transactions are done.
FinishTransactions ==
  /\ phase = "txs" /\ phase' = "reveal"
  /\ UNCHANGED <<queryVars, subVars, held>>

\* The query a held reveal finds by its id, when it is in order.
RevealedQuery(reveal) ==
  {i \in QueryIndices : queries[i].id = reveal.id /\ RevealInOrder(i, reveal.value)}

RevealHeld ==
  /\ phase = "reveal" /\ held # << >>
  /\ IF RevealedQuery(Head(held)) = {}
       THEN UNCHANGED <<queryVars, subVars>>
       ELSE \E i \in RevealedQuery(Head(held)) : ProcessRevealNoted(i, Head(held).value)
  /\ held' = Tail(held)
  /\ UNCHANGED phase

FinishReveals ==
  /\ phase = "reveal" /\ held = << >> /\ phase' = "generate"
  /\ UNCHANGED <<queryVars, subVars, held>>

Generate(k) ==
  /\ phase = "generate"
  /\ \/ GenerateSubscriptionQuery(k) /\ UNCHANGED phase
     \/ FailToGenerate(k) /\ phase' = "timeouts"
  /\ UNCHANGED held

FinishGenerating ==
  /\ phase = "generate" /\ NothingDue /\ phase' = "timeouts"
  /\ UNCHANGED <<queryVars, subVars, held>>

TimeOut ==
  /\ phase = "timeouts" /\ phase' = "provider"
  /\ ProcessTimeouts
  /\ UNCHANGED <<subVars, held>>

FinishAnswers ==
  /\ phase = "provider" /\ phase' = "deliver"
  /\ UNCHANGED <<queryVars, subVars, held>>

\* deliverOracleNotifications: until the queue is empty, and the contracts that
\* are told run in between.
Deliver(i) ==
  phase = "deliver" /\ GetNotification(i) /\ UNCHANGED <<subVars, phase, held>>

\* getNotification on a query without subscribers reads a subscriber that does
\* not exist; the exception is a fault, and the simulator stops.
DeliverFails(i) ==
  /\ phase = "deliver" /\ IsNextNotified(i) /\ queries[i].targets = << >>
  /\ phase' = "faulted"
  /\ UNCHANGED <<queryVars, subVars, held>>

\* END_TICK ran and the tick is final.
FinishTick_early ==
  /\ phase = "deliver" /\ phase' = "idle"
  /\ UNCHANGED <<queryVars, subVars, held>>

FinishTick ==
  /\ phase = "deliver" /\ notificationQueue = {} /\ phase' = "idle"
  /\ UNCHANGED <<queryVars, subVars, held>>

ContractStep ==
  \E c \in Contracts :
    \/ \E t \in Timeouts : QueryOracle(c, t)
    \/ \E key \in Keys, period \in Periods : SubscribeOracle(c, key, period)
    \/ \E k \in DOMAIN subscriptions : UnsubscribeOracle(c, k)

AnswerStep ==
  \E i \in QueryIndices :
    AnswerUnavailable(i) \/ \E v \in Values : AnswerQuery(i, v)

TickStep ==
  \/ EnterTick \/ RunBeginEpoch \/ FinishTransactions
  \/ RevealHeld \/ FinishReveals
  \/ \E k \in nextSubscriptionIdQueue : Generate(k)
  \/ FinishGenerating \/ TimeOut \/ FinishAnswers
  \/ \E i \in notificationQueue : Deliver(i) \/ DeliverFails(i)
  \/ FinishTick

SimulatorNext == ContractStep \/ AnswerStep \/ TickStep

SimulatorSpec == Init /\ [][SimulatorNext]_vars

(***************************************************************************)
(* Properties.                                                             *)
(***************************************************************************)

\* The type invariant of the engine inside the simulator.
SimulatorTypeOK ==
  /\ TypeOK
  /\ phase \in Phases
  /\ held \in Seq([id : Nat \X Nat, value : Values])
  /\ subscriptions \in Seq(Subscription) /\ subscribers \in Seq(Subscriber)
  /\ Len(subscriptions) <= MaxSubscriptions /\ Len(subscribers) <= MaxSubscribers
  /\ nextSubscriptionIdQueue \subseteq DOMAIN subscriptions

\* A committed query is revealed exactly once: between the commit and the
\* reveal of the next tick its reply, and nothing else, is held, no epoch change
\* leaves a reveal behind that a new query with the same id would meet, and
\* after the reveals of a tick no query is left committed from an earlier one.
CommittedIsHeld ==
  /\ \A p \in DOMAIN held :
       /\ \E i \in RevealedQuery(held[p]) : replyStates[queries[i].slot].expectedReveal =
            IF phase \in {"idle", "provider", "deliver", "faulted"} THEN tick + 1 ELSE tick
       /\ \A q \in DOMAIN held : held[p].id = held[q].id => p = q
  /\ \A i \in QueryIndices : queries[i].status = "COMMITTED" =>
       \E p \in DOMAIN held : i \in RevealedQuery(held[p])

\* A tick ends with everyone told: every query that is finished between two
\* ticks has called each of its contracts, also one that finished while others
\* were being told.  Only a full notification queue loses a call.
EveryoneIsTold ==
  phase = "idle" =>
    \A i \in QueryIndices : ~IsOpen(i) => told[i] = Len(queries[i].targets)

\* Queries that finish in one tick are told of in the order they were started,
\* and one is told of completely before the next.
ToldInOrder ==
  [][\A i \in DOMAIN told \cap DOMAIN told' : told'[i] > told[i] =>
       \A j \in QueryIndices : j < i /\ ~IsOpen(j) => told[j] = Len(queries[j].targets)]_vars

\* The generation of a tick leaves nobody waiting who is due: when it ends, every
\* subscriber of every subscription has its next query ahead, whichever times the
\* heap sorted by, or the engine could not take the query that was due first.
DueAreServed ==
  [][phase = "generate" /\ phase' # "generate" =>
       \/ \A k \in DOMAIN subscriptions : \A i \in Range(subscriptions[k].list) :
            subscribers[i].next > now
       \/ \E k \in nextSubscriptionIdQueue : IsNextDue(k) /\ SubscriptionQueryRefused(k)]_vars

\* The list of a subscription and the heap agree: subscribers are sorted by time,
\* the subscription is in the heap exactly when somebody subscribes, none of its
\* subscribers is earlier than the time the heap sorts it by, and nobody is in
\* the list twice.
SubscriptionsAgree ==
  SimulatorTypeOK /\ \A k \in DOMAIN subscriptions :
    LET list == subscriptions[k].list IN
    /\ \A p, q \in DOMAIN list : p < q =>
         /\ subscribers[list[p]].next <= subscribers[list[q]].next
         /\ subscribers[list[p]].contract # subscribers[list[q]].contract
    /\ k \in nextSubscriptionIdQueue <=> list # << >>
    /\ list # << >> => subscriptions[k].next <= subscribers[Head(list)].next

\* A network that was stuck does not make up for every period it missed: a
\* subscriber that this tick's queries name is caught up when they are all
\* generated.
CatchesUpAtOnce ==
  phase \in {"timeouts", "provider"} =>
    \A j \in QueryIndices : queries[j].id[1] = tick /\ queries[j].subscription # 0 =>
      \A i \in Range(subscriptions[queries[j].subscription].list) :
        subscribers[i].contract \in Range(queries[j].targets) => subscribers[i].next >= now

\* A subscriber is never put off by more than its period, however late the
\* ticks and whoever joins or leaves, and never served for a period that was missed.
PeriodIsKept ==
  CatchesUpAtOnce /\ \A k \in DOMAIN subscriptions : \A i \in Range(subscriptions[k].list) :
    subscribers[i].next - now <= subscribers[i].period * Minute

\* No query outlives its deadline: past the timeouts of a tick only queries that
\* were started later in the same tick are overdue.
DeadlinesAreMet ==
  phase \in {"provider", "deliver", "idle"} =>
    \A i \in pendingQueryIndices : queries[i].timeout <= now =>
      phase # "provider" /\ queries[i].id[1] = tick

(***************************************************************************)
(* What the repository says of itself, and the model refutes.              *)
(***************************************************************************)

\* checkStateConsistencyWithAssert, "subscriber count": a subscription's query
\* has subscribers to tell.
SubscriptionQueryHasSubscribers ==
  \A i \in QueryIndices : queries[i].subscription # 0 => queries[i].targets # << >>

\* docs/cli-guide.md: a reply revealed after the timeout does not succeed.
LateRevealTimesOut ==
  [][\A i \in DOMAIN queries \cap DOMAIN queries' :
       queries[i].status = "COMMITTED" /\ queries'[i].status = "SUCCESS"
         => queries[i].timeout > now]_vars

=============================================================================
