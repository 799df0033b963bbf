---------------------------- MODULE OracleQueries ----------------------------
(***************************************************************************)
(* The query pool of the oracle engine,                                    *)
(* packages/engine/src/chain/oracle-engine.ts, for queries that contracts  *)
(* start one by one: the query list, the reply-state slots, the            *)
(* commit/reveal rounds of the computors, timeouts and the notification    *)
(* queue.  The methods are the actions; like the class, the module does    *)
(* not prescribe an order of calls.  OracleSubscriptions adds what         *)
(* subscriptions keep, OracleSimulator the order of calls in a tick.       *)
(*                                                                         *)
(* Abstractions.  A reply is a member of Values and its K12 digest is the  *)
(* reply itself; a commit's knowledge proof is right or wrong (honest).    *)
(* Time is a number.  A query's bytes are QuerySize units of storage.  An  *)
(* index starts at 1.  Signatures and the log stream are left out.         *)
(***************************************************************************)
EXTENDS Integers, Sequences, FiniteSets

CONSTANTS
  Contracts,       \* slots that start queries
  Computors,       \* the committee
  Values,          \* replies, and their digests
  Timeouts,        \* timeouts a contract asks for
  MaxTimeout,      \* MAX_ORACLE_TIMEOUT_MILLISEC
  QuerySize,       \* storage a query takes
  MaxQueries,      \* MAX_ORACLE_QUERIES
  MaxSimultaneous, \* MAX_SIMULTANEOUS_ORACLE_QUERIES
  StorageSize,     \* ORACLE_QUERY_STORAGE_SIZE
  MaxIndexInTick,  \* 0x7fffffff, counted from TXS_PER_TICK
  TimeSteps,       \* how far the clock may move from a tick to the next
  MaxTick,         \* bound of the model: ticks that are entered
  NoValue          \* no reply yet, no commit yet

ASSUME OracleConstants ==
  /\ IsFiniteSet(Computors) /\ Computors # {}
  /\ Timeouts \subseteq Nat /\ TimeSteps \subseteq Nat
  /\ MaxTimeout \in Nat /\ QuerySize \in Nat
  /\ MaxQueries \in Nat /\ StorageSize \in Nat
  /\ MaxSimultaneous \in Nat \ {0}
  /\ MaxIndexInTick \in Nat /\ MaxTick \in Nat
  /\ Values # {} /\ NoValue \notin Values

VARIABLES
  tick, now,                 \* host.currentTick(), host.nowMs()
  queries,                   \* queries, in the order they were started
  queryStorageBytesUsed,
  contractQueryIdState,      \* [tick, queryIndexInTick]
  replyStates,               \* slot -> reply state, or Free
  replyStatesIndex,          \* where the search for a free slot starts
  pendingQueryIndices,
  pendingCommitReplyStateIndices,
  pendingRevealReplyStateIndices,
  notificationQueue,         \* notificationQueryIndexQueue: a min-heap
  notificationCursor,        \* notificationCurrentSubscriberIdx
  told                       \* history: notifications given, per query

clockVars == <<tick, now>>
idVars    == <<contractQueryIdState>>
slotVars  == <<replyStates, replyStatesIndex>>
poolVars  == <<pendingQueryIndices, pendingCommitReplyStateIndices,
               pendingRevealReplyStateIndices>>
noteVars  == <<notificationQueue, notificationCursor, told>>
engineVars == <<queries, queryStorageBytesUsed, idVars, slotVars, poolVars, noteVars>>
queryVars == <<clockVars, engineVars>>

N == Cardinality(Computors)
Quorum == (2 * N) \div 3 + 1

Slots  == 1 .. MaxSimultaneous
Open   == {"PENDING", "COMMITTED"}
Closed == {"SUCCESS", "TIMEOUT", "UNRESOLVABLE"}
Flags  == {"REPLY_RECEIVED", "REPLY_REJECTED", "OM_DISAGREE", "BAD_SIZE_REVEAL",
           "FAKE_COMMITS"}

Commit   == [digest : Values, honest : BOOLEAN]
NoCommit == [digest |-> NoValue, honest |-> FALSE]
ReplyState ==
  [query : Nat \ {0}, own : Values \cup {NoValue}, most : Values \cup {NoValue},
   commits : [Computors -> Commit \cup {NoCommit}], expectedReveal : Nat]
Free == [query |-> 0, own |-> NoValue, most |-> NoValue,
         commits |-> [c \in Computors |-> NoCommit], expectedReveal |-> 0]

\* targets are the contracts told of the result: the asking contract here, the
\* due subscribers for a subscription's query (see OracleSubscriptions).
Query ==
  [id : Nat \X Nat, subscription : Nat, targets : Seq(Contracts),
   status : Open \cup Closed, flags : SUBSET Flags, timeout : Int,
   slot : Slots, value : Values \cup {NoValue}, agreeing : Nat, total : Nat]

QueryIndices == DOMAIN queries
EmptyEngine ==
  /\ queries = << >> /\ queryStorageBytesUsed = 0
  /\ contractQueryIdState = [tick |-> -1, queryIndexInTick |-> 0]
  /\ replyStates = [s \in Slots |-> Free] /\ replyStatesIndex = 1
  /\ pendingQueryIndices = {} /\ pendingCommitReplyStateIndices = {}
  /\ pendingRevealReplyStateIndices = {}
  /\ notificationQueue = {} /\ notificationCursor = 0 /\ told = << >>

InitQueries == tick = 0 /\ now = 0 /\ EmptyEngine

\* reset, at the start of an epoch: every query is gone.
ResetEngine ==
  /\ queries' = << >> /\ queryStorageBytesUsed' = 0
  /\ contractQueryIdState' = [tick |-> -1, queryIndexInTick |-> 0]
  /\ replyStates' = [s \in Slots |-> Free] /\ replyStatesIndex' = 1
  /\ pendingQueryIndices' = {} /\ pendingCommitReplyStateIndices' = {}
  /\ pendingRevealReplyStateIndices' = {}
  /\ notificationQueue' = {} /\ notificationCursor' = 0 /\ told' = << >>

(***************************************************************************)
(* Starting a query.                                                       *)
(***************************************************************************)

\* getNewNonTxQueryId: the counter restarts with the first id of a tick.  It
\* moves also for a query that startQuery then refuses.
NewIdIsFirst == contractQueryIdState.tick < tick
IdsExhausted ==
  ~NewIdIsFirst /\ contractQueryIdState.queryIndexInTick >= MaxIndexInTick
NextIndexInTick ==
  IF NewIdIsFirst THEN 0 ELSE contractQueryIdState.queryIndexInTick + 1
TakeQueryId ==
  contractQueryIdState' =
    IF IdsExhausted THEN contractQueryIdState
    ELSE [tick |-> tick, queryIndexInTick |-> NextIndexInTick]

\* startQuery refuses when a table is full.
PoolFull(bytes) ==
  \/ Len(queries) >= MaxQueries
  \/ Cardinality(pendingQueryIndices) >= MaxSimultaneous
  \/ queryStorageBytesUsed + bytes > StorageSize

\* getEmptyReplyStateSlot: the first free slot from replyStatesIndex on, round
\* the table; the search leaves the index there.
Distance(s) == (s - replyStatesIndex) % MaxSimultaneous
IsEmptyReplyStateSlot_unscanned(s) == s = replyStatesIndex
IsEmptyReplyStateSlot(s) ==
  /\ replyStates[s].query = 0
  /\ \A t \in Slots : replyStates[t].query = 0 => Distance(s) <= Distance(t)

Refuses(bytes) ==
  PoolFull(bytes) \/ \A s \in Slots : replyStates[s].query # 0

\* startQuery and what its two callers store with the query.
StartQuery(subscription, targets, timeout, bytes) ==
  \E s \in Slots :
    /\ IsEmptyReplyStateSlot(s)
    /\ queries' = Append(queries,
         [id |-> <<tick, NextIndexInTick>>, subscription |-> subscription,
          targets |-> targets, status |-> "PENDING", flags |-> {},
          timeout |-> timeout, slot |-> s, value |-> NoValue,
          agreeing |-> 0, total |-> 0])
    /\ queryStorageBytesUsed' = queryStorageBytesUsed + bytes
    /\ replyStates' = [replyStates EXCEPT ![s] = [Free EXCEPT !.query = Len(queries) + 1]]
    /\ replyStatesIndex' = s
    /\ pendingQueryIndices' = pendingQueryIndices \cup {Len(queries) + 1}
    /\ told' = Append(told, 0)
    /\ UNCHANGED <<pendingCommitReplyStateIndices, pendingRevealReplyStateIndices,
                   notificationQueue, notificationCursor>>

\* startContractQuery; a query that is refused leaves at most a used-up id.
StartContractQuery(contract, timeout) ==
  /\ timeout <= MaxTimeout
  /\ TakeQueryId
  /\ IF IdsExhausted \/ Refuses(QuerySize)
       THEN UNCHANGED <<queries, queryStorageBytesUsed, slotVars, poolVars, noteVars>>
       ELSE StartQuery(0, <<contract>>, now + timeout, QuerySize)
  /\ UNCHANGED clockVars

(***************************************************************************)
(* The reply of an oracle machine.  An unknown id, or a query that is no   *)
(* longer pending, ignores it.                                             *)
(***************************************************************************)

Flag(i, flag) ==
  /\ queries' = [queries EXCEPT ![i].flags = @ \cup {flag}]
  /\ UNCHANGED <<queryStorageBytesUsed, idVars, slotVars, poolVars, noteVars>>

\* An answer with error flags (ORACLE_FLAG_OM_ERROR_FLAGS) or of the wrong size
\* (ORACLE_FLAG_BAD_SIZE_REPLY) is only noted: the query stays pending.
RejectMachineReply(i) ==
  /\ queries[i].status = "PENDING"
  /\ Flag(i, "REPLY_REJECTED")
  /\ UNCHANGED clockVars

\* The first reply is kept and waits for commits; a later one only tells
\* whether the oracle machines agree.
ProcessOracleMachineReply(i, value) ==
  LET s == queries[i].slot IN
  /\ queries[i].status = "PENDING" /\ replyStates[s].query = i
  /\ \/ /\ replyStates[s].own = NoValue
        /\ replyStates' = [replyStates EXCEPT ![s].own = value]
        /\ queries' = [queries EXCEPT ![i].flags = @ \cup {"REPLY_RECEIVED"}]
        /\ pendingCommitReplyStateIndices' = pendingCommitReplyStateIndices \cup {s}
        /\ UNCHANGED <<queryStorageBytesUsed, idVars, replyStatesIndex,
                       pendingQueryIndices, pendingRevealReplyStateIndices, noteVars>>
     \/ /\ replyStates[s].own \notin {NoValue, value}
        /\ Flag(i, "OM_DISAGREE")
  /\ UNCHANGED clockVars

(***************************************************************************)
(* The end of a query: it leaves the pending tables, its slot is freed and *)
(* its notification is queued.  The heap drops what does not fit.          *)
(***************************************************************************)

Enqueue(finished) ==
  LET room == MaxSimultaneous - Cardinality(notificationQueue) IN
  \E kept \in SUBSET finished :
    /\ Cardinality(kept) = IF Cardinality(finished) <= room
                             THEN Cardinality(finished) ELSE room
    /\ notificationQueue' = notificationQueue \cup kept

SlotsOf(finished) == {queries[i].slot : i \in finished}

ReleaseQueries(finished) ==
  /\ pendingQueryIndices' = pendingQueryIndices \ finished
  /\ replyStates' =
       [s \in Slots |-> IF s \in SlotsOf(finished) THEN Free ELSE replyStates[s]]
  /\ Enqueue(finished)
  /\ UNCHANGED <<queryStorageBytesUsed, idVars, replyStatesIndex,
                 notificationCursor, told>>

(***************************************************************************)
(* Commits.  The histogram's bins are the digests that were committed to;  *)
(* `most` is the bin that reached the highest count first.                 *)
(***************************************************************************)

CommittersOf(rs, digest) == {c \in Computors : rs.commits[c].digest = digest}
Committers(rs) == {c \in Computors : rs.commits[c] # NoCommit}
Votes(rs, digest) ==
  IF digest = NoValue THEN 0 ELSE Cardinality(CommittersOf(rs, digest))
TotalCommits(rs) == Cardinality(Committers(rs))

\* The reply state after a commit is counted.
CountCommit_stale(rs, c, commit) ==
  LET counted == [rs EXCEPT !.commits[c] = commit] IN
  IF Votes(rs, commit.digest) > Votes(rs, rs.most)
    THEN [counted EXCEPT !.most = commit.digest] ELSE counted
CountCommit(rs, c, commit) ==
  LET counted == [rs EXCEPT !.commits[c] = commit] IN
  IF Votes(counted, commit.digest) > Votes(counted, rs.most)
    THEN [counted EXCEPT !.most = commit.digest] ELSE counted

HasQuorum(rs) == Votes(rs, rs.most) >= Quorum

\* Too many commits disagree with the most voted digest.
CannotAgree(rs) == TotalCommits(rs) - Votes(rs, rs.most) > N - Quorum

\* One item of processOracleReplyCommitTransaction.
ProcessCommit(c, i, commit) ==
  LET s  == queries[i].slot
      rs == CountCommit(replyStates[s], c, commit)
  IN
  /\ queries[i].status \in Open /\ replyStates[s].query = i
  /\ replyStates[s].commits[c] = NoCommit
  /\ CASE HasQuorum(rs) ->
            /\ replyStates' = [replyStates EXCEPT ![s] = rs]
            /\ queries' = [queries EXCEPT ![i].status = "COMMITTED"]
            /\ pendingCommitReplyStateIndices' = pendingCommitReplyStateIndices \ {s}
            /\ pendingRevealReplyStateIndices' = pendingRevealReplyStateIndices \cup {s}
            /\ UNCHANGED <<queryStorageBytesUsed, idVars, replyStatesIndex,
                           pendingQueryIndices, noteVars>>
       [] ~HasQuorum(rs) /\ CannotAgree(rs) ->
            /\ queries' = [queries EXCEPT ![i].status = "UNRESOLVABLE",
                             ![i].agreeing = Votes(rs, rs.most), ![i].total = TotalCommits(rs)]
            /\ pendingCommitReplyStateIndices' = pendingCommitReplyStateIndices \ {s}
            /\ ReleaseQueries({i})
            /\ UNCHANGED pendingRevealReplyStateIndices
       [] OTHER ->
            /\ replyStates' = [replyStates EXCEPT ![s] = rs]
            /\ UNCHANGED <<queries, queryStorageBytesUsed, idVars, replyStatesIndex,
                           poolVars, noteVars>>
  /\ UNCHANGED clockVars

(***************************************************************************)
(* Reveals.                                                                *)
(***************************************************************************)

\* checkReplyRevealTransaction: only the reply the quorum committed to.
RevealInOrder(i, value) ==
  LET rs == replyStates[queries[i].slot] IN
  queries[i].status = "COMMITTED" /\ rs.query = i /\ value = rs.most

RejectReveal(i) ==
  /\ queries[i].status = "COMMITTED"
  /\ Flag(i, "BAD_SIZE_REVEAL")
  /\ UNCHANGED clockVars

\* Commits to the reply whose knowledge proof shows the computor knew it.
CorrectCommits_unproved(rs, value) == Cardinality(CommittersOf(rs, value))
CorrectCommits(rs, value) ==
  Cardinality({c \in Computors : rs.commits[c] = [digest |-> value, honest |-> TRUE]})

\* What a reveal makes of the query: too many fake commits and the quorum did
\* not confirm the reply.
Revealed(i, value) ==
  LET rs == replyStates[queries[i].slot]
      q  == queries[i]
  IN IF CorrectCommits(rs, value) < Quorum
       THEN [q EXCEPT !.status = "UNRESOLVABLE", !.flags = @ \cup {"FAKE_COMMITS"},
                      !.agreeing = CorrectCommits(rs, value), !.total = TotalCommits(rs)]
       ELSE [q EXCEPT !.status = "SUCCESS", !.value = value]

ProcessReveal(i, value) ==
  /\ RevealInOrder(i, value)
  /\ queries' = [queries EXCEPT ![i] = Revealed(i, value)]
  /\ pendingRevealReplyStateIndices' = pendingRevealReplyStateIndices \ {queries[i].slot}
  /\ ReleaseQueries({i})
  /\ UNCHANGED <<clockVars, pendingCommitReplyStateIndices>>

(***************************************************************************)
(* Timeouts and notifications.                                             *)
(***************************************************************************)

Expired_all == {i \in QueryIndices : queries[i].timeout <= now}
Expired_strict == {i \in pendingQueryIndices : queries[i].timeout < now}
Expired == {i \in pendingQueryIndices : queries[i].timeout <= now}

TimedOut(i) ==
  LET rs == replyStates[queries[i].slot] IN
  [queries[i] EXCEPT !.status = "TIMEOUT",
                     !.agreeing = Votes(rs, rs.most), !.total = TotalCommits(rs)]

ProcessTimeouts ==
  /\ queries' = [i \in QueryIndices |-> IF i \in Expired THEN TimedOut(i) ELSE queries[i]]
  /\ pendingCommitReplyStateIndices' = pendingCommitReplyStateIndices \ SlotsOf(Expired)
  /\ pendingRevealReplyStateIndices' = pendingRevealReplyStateIndices \ SlotsOf(Expired)
  /\ ReleaseQueries(Expired)
  /\ UNCHANGED clockVars

\* getNotification: the oldest query first, one call per target.
IsNextNotified_any(i) == i \in notificationQueue
IsNextNotified(i) == i \in notificationQueue /\ \A j \in notificationQueue : i <= j

GetNotification(i) ==
  LET last == notificationCursor + 1 = Len(queries[i].targets) IN
  /\ IsNextNotified(i) /\ notificationCursor < Len(queries[i].targets)
  /\ told' = [told EXCEPT ![i] = @ + 1]
  /\ notificationCursor' = IF last THEN 0 ELSE notificationCursor + 1
  /\ notificationQueue' = IF last THEN notificationQueue \ {i} ELSE notificationQueue
  /\ UNCHANGED <<clockVars, queries, queryStorageBytesUsed, idVars, slotVars, poolVars>>

NextTick ==
  /\ tick < MaxTick
  /\ tick' = tick + 1
  /\ \E d \in TimeSteps : now' = now + d
  /\ UNCHANGED engineVars

BeginEpoch == ResetEngine /\ UNCHANGED clockVars

Next ==
  \/ \E c \in Contracts, t \in Timeouts : StartContractQuery(c, t)
  \/ \E i \in QueryIndices :
       \/ RejectMachineReply(i)
       \/ \E v \in Values : ProcessOracleMachineReply(i, v)
       \/ \E c \in Computors, commit \in Commit : ProcessCommit(c, i, commit)
       \/ RejectReveal(i)
       \/ \E v \in Values : ProcessReveal(i, v)
       \/ GetNotification(i)
  \/ ProcessTimeouts
  \/ NextTick
  \/ BeginEpoch

Spec == InitQueries /\ [][Next]_queryVars

(***************************************************************************)
(* Properties.                                                             *)
(***************************************************************************)

\* The type invariant of the query pool.
TypeOK ==
  /\ tick \in Nat /\ now \in Nat
  /\ queries \in Seq(Query) /\ queryStorageBytesUsed \in 0 .. StorageSize
  /\ contractQueryIdState \in [tick : Int, queryIndexInTick : 0 .. MaxIndexInTick]
  /\ replyStates \in [Slots -> ReplyState \cup {Free}] /\ replyStatesIndex \in Slots
  /\ pendingQueryIndices \subseteq QueryIndices
  /\ pendingCommitReplyStateIndices \subseteq Slots
  /\ pendingRevealReplyStateIndices \subseteq Slots
  /\ notificationQueue \subseteq QueryIndices /\ notificationCursor \in Nat
  /\ told \in Seq(Nat) /\ Len(told) = Len(queries)

IsOpen(i) == queries[i].status \in Open

\* An id names one query: ids grow with the order of the queries, across
\* refused starts and ticks, so the index a late message finds by id is the
\* query it was sent for.
IdsGrow ==
  \A i, j \in QueryIndices : i < j =>
    LET a == queries[i].id  b == queries[j].id IN
    a[1] < b[1] \/ (a[1] = b[1] /\ a[2] < b[2])

\* No contract is told twice and none of an unfinished query: a queued query is
\* finished, and only the one at the head may have been told in part.
ToldAtMostOnce ==
  \A i \in QueryIndices :
    /\ told[i] <= Len(queries[i].targets)
    /\ told[i] > 0 => ~IsOpen(i)
    /\ i \in notificationQueue =>
         ~IsOpen(i) /\ told[i] = IF IsNextNotified(i) THEN notificationCursor ELSE 0

\* The tables of the pool are well formed and describe the same queries: ids grow
\* and nobody is told twice, the pending table holds exactly the unfinished
\* queries, each owns the slot it names and no slot is left to a finished one, the
\* reveal table holds exactly the committed ones and the commit table exactly the
\* pending ones that have a reply (checkStateConsistencyWithAssert, "queries not
\* finished", "reply state").
PoolsAgree ==
  /\ TypeOK /\ IdsGrow /\ ToldAtMostOnce
  /\ pendingQueryIndices = {i \in QueryIndices : IsOpen(i)}
  /\ \A i \in pendingQueryIndices : replyStates[queries[i].slot].query = i
  /\ \A s \in Slots : replyStates[s].query # 0 =>
       replyStates[s].query \in pendingQueryIndices
       /\ queries[replyStates[s].query].slot = s
  /\ pendingRevealReplyStateIndices =
       {queries[i].slot : i \in {j \in QueryIndices : queries[j].status = "COMMITTED"}}
  /\ pendingCommitReplyStateIndices =
       {s \in Slots : /\ replyStates[s].own # NoValue
                      /\ queries[replyStates[s].query].status = "PENDING"}

\* The incremental histogram is right: `most` has the most votes.
MostIsMost ==
  \A s \in Slots, d \in Values :
    Votes(replyStates[s], d) <= Votes(replyStates[s], replyStates[s].most)

\* The histogram is right and a status says what the commits say: a pending query
\* has no quorum and one can still form, a committed one has it, and one is
\* unresolvable only when no digest could reach a quorum any more, or the reveal
\* showed fake commits.
StatusFollowsCommits ==
  MostIsMost /\ \A i \in QueryIndices :
    LET q == queries[i]  rs == replyStates[q.slot] IN
    /\ q.status = "PENDING" => /\ \A d \in Values : Votes(rs, d) < Quorum
                               /\ \E d \in Values : Votes(rs, d) + N - TotalCommits(rs) >= Quorum
    /\ q.status = "COMMITTED" => HasQuorum(rs)
    /\ q.status = "UNRESOLVABLE" =>
         /\ q.agreeing < Quorum
         /\ "FAKE_COMMITS" \in q.flags \/ q.agreeing + N - q.total < Quorum

\* A finished query never changes: a late reply, commit, reveal or timeout finds
\* nothing to do; and a committed query never falls back to pending.
FinishedIsFinal ==
  [][\A i \in DOMAIN queries \cap DOMAIN queries' :
       /\ queries[i].status \in Closed => queries'[i] = queries[i]
       /\ queries[i].status = "COMMITTED" => queries'[i].status # "PENDING"]_queryVars

\* A query succeeds with a value only when a quorum of computors had committed
\* to that value and had known it when they did.
SuccessIsConfirmed ==
  [][\A i \in DOMAIN queries \cap DOMAIN queries' :
       queries[i].status # "SUCCESS" /\ queries'[i].status = "SUCCESS" =>
         Cardinality({c \in Computors :
           replyStates[queries[i].slot].commits[c] =
             [digest |-> queries'[i].value, honest |-> TRUE]}) >= Quorum]_queryVars

=============================================================================
