----------------------- MODULE OracleSimulator_proofs -----------------------
(***************************************************************************)
(* Proofs about the oracle engine inside the simulator's tick: its query   *)
(* pool, its subscriptions and the reveals the simulator holds, for every  *)
(* committee, every size of the tables, every timeout and period and any   *)
(* length of run.                                                          *)
(***************************************************************************)
EXTENDS OracleSimulator, Sums_proofs, SequenceTheorems

(***************************************************************************)
(* Part one: the query pool alone, its methods called in any order.        *)
(***************************************************************************)

(***************************************************************************)
(* Counting commits.                                                       *)
(***************************************************************************)

AnyReplyState == ReplyState \cup {Free}

\* The bin that counts as the most voted one has the most votes.
MostOf(rs) == \A d \in Values : Votes(rs, d) <= Votes(rs, rs.most)

\* A quorum is more than two thirds of the committee, and the committee has one.
LEMMA QuorumIsReachable == N \in Nat /\ Quorum \in Nat /\ 0 < Quorum /\ Quorum <= N
<1>1. N \in Nat /\ N # 0
  BY OracleConstants, FS_CardinalityType, FS_EmptySet DEF N
<1> HIDE DEF N
<1> QED
  BY <1>1 DEF Quorum

LEMMA ReplyStateTypes ==
  ASSUME NEW rs \in AnyReplyState
  PROVE  /\ rs.query \in Nat /\ rs.own \in Values \cup {NoValue}
         /\ rs.most \in Values \cup {NoValue} /\ rs.expectedReveal \in Nat
         /\ rs.commits \in [Computors -> Commit \cup {NoCommit}]
         /\ rs.query = 0 <=> rs = Free
         /\ rs.query # 0 => rs \in ReplyState
BY DEF AnyReplyState, ReplyState, Free

LEMMA CommitTypes ==
  ASSUME NEW commit \in Commit
  PROVE  commit.digest \in Values /\ commit # NoCommit /\ commit.digest # NoValue
BY OracleConstants DEF Commit, NoCommit

LEMMA VotesTypes ==
  ASSUME NEW rs \in AnyReplyState, NEW d \in Values \cup {NoValue}
  PROVE  /\ Votes(rs, d) \in Nat /\ TotalCommits(rs) \in Nat
         /\ Votes(rs, d) <= TotalCommits(rs) /\ TotalCommits(rs) <= N
         /\ IsFiniteSet(CommittersOf(rs, d)) /\ IsFiniteSet(Committers(rs))
<1>1. IsFiniteSet(CommittersOf(rs, d)) /\ IsFiniteSet(Committers(rs))
  BY OracleConstants, FS_Subset DEF CommittersOf, Committers
<1>2. TotalCommits(rs) \in Nat /\ TotalCommits(rs) <= N
  <2>1. Committers(rs) \subseteq Computors
    BY DEF Committers
  <2> QED
    BY <1>1, <2>1, OracleConstants, FS_Subset, FS_CardinalityType DEF TotalCommits, N
<1>3. CASE d = NoValue
  BY <1>1, <1>2, <1>3 DEF Votes
<1>4. CASE d # NoValue
  <2>1. CommittersOf(rs, d) \subseteq Committers(rs)
    <3>1. NoCommit.digest = NoValue
      BY DEF NoCommit
    <3> QED
      BY <1>4, <3>1 DEF CommittersOf, Committers
  <2>2. Votes(rs, d) = Cardinality(CommittersOf(rs, d))
    BY <1>4 DEF Votes
  <2> QED
    BY <1>1, <1>2, <2>1, <2>2, FS_Subset, FS_CardinalityType DEF TotalCommits
<1> QED
  BY <1>3, <1>4

LEMMA FreeHasNoVotes ==
  /\ Free \in AnyReplyState /\ TotalCommits(Free) = 0 /\ MostOf(Free)
  /\ \A d \in Values : Votes(Free, d) = 0
<1>1. Free \in AnyReplyState /\ Free.most = NoValue
  BY DEF AnyReplyState, Free
<1>2. \A c \in Computors : Free.commits[c] = NoCommit
  BY DEF Free
<1>3. Committers(Free) = {}
  BY <1>2 DEF Committers
<1>4. \A d \in Values : CommittersOf(Free, d) = {}
  BY <1>2, OracleConstants DEF CommittersOf, NoCommit
<1>5. \A d \in Values : Votes(Free, d) = 0
  BY <1>4, FS_EmptySet DEF Votes
<1>6. TotalCommits(Free) = 0
  BY <1>3, FS_EmptySet DEF TotalCommits
<1> QED
  BY <1>1, <1>5, <1>6 DEF MostOf, Votes

\* A reply state that nobody has committed to yet, whatever else it notes.
LEMMA NoVotesYet ==
  ASSUME NEW rs \in AnyReplyState, rs.commits = Free.commits
  PROVE  TotalCommits(rs) = 0 /\ \A d \in Values : Votes(rs, d) = 0
<1>1. \A c \in Computors : rs.commits[c] = NoCommit
  BY DEF Free
<1>3. Committers(rs) = {}
  BY <1>1 DEF Committers
<1>4. \A d \in Values : CommittersOf(rs, d) = {}
  BY <1>1, OracleConstants DEF CommittersOf, NoCommit
<1> QED
  BY <1>3, <1>4, FS_EmptySet DEF Votes, TotalCommits

\* A computor's first commit adds one vote to its digest and to the total.
LEMMA OneMoreVote ==
  ASSUME NEW rs \in ReplyState, NEW c \in Computors, rs.commits[c] = NoCommit,
         NEW commit \in Commit
  PROVE  LET counted == [rs EXCEPT !.commits[c] = commit] IN
         /\ counted \in ReplyState /\ counted.query = rs.query /\ counted.own = rs.own
         /\ counted.most = rs.most
         /\ TotalCommits(counted) = TotalCommits(rs) + 1
         /\ \A d \in Values :
              Votes(counted, d) = Votes(rs, d) + IF d = commit.digest THEN 1 ELSE 0
<1> DEFINE commits == [rs.commits EXCEPT ![c] = commit]
           counted == [rs EXCEPT !.commits[c] = commit]
           Goal ==
             /\ counted \in ReplyState /\ counted.query = rs.query /\ counted.own = rs.own
             /\ counted.most = rs.most
             /\ TotalCommits(counted) = TotalCommits(rs) + 1
             /\ \A d \in Values :
                  Votes(counted, d) = Votes(rs, d) + IF d = commit.digest THEN 1 ELSE 0
<1> SUFFICES Goal
  OBVIOUS
<1>1. rs.commits \in [Computors -> Commit \cup {NoCommit}] /\ rs \in AnyReplyState
  BY DEF ReplyState, AnyReplyState
<1>2. /\ commits \in [Computors -> Commit \cup {NoCommit}] /\ commits[c] = commit
      /\ \A b \in Computors : b # c => commits[b] = rs.commits[b]
  BY <1>1
<1>3. counted = [rs EXCEPT !.commits = commits]
  BY DEF ReplyState
<1> HIDE DEF commits, counted
<1>4. /\ counted \in ReplyState /\ counted.query = rs.query /\ counted.own = rs.own
      /\ counted.most = rs.most /\ counted.commits = commits
  BY <1>2, <1>3 DEF ReplyState
<1>5. counted \in AnyReplyState
  BY <1>4 DEF AnyReplyState
<1>6. TotalCommits(counted) = TotalCommits(rs) + 1
  <2>1. Committers(counted) = Committers(rs) \cup {c}
    BY <1>2, <1>4, CommitTypes DEF Committers
  <2>2. c \notin Committers(rs) /\ IsFiniteSet(Committers(rs))
    BY <1>1, VotesTypes DEF Committers
  <2> QED
    BY <2>1, <2>2, FS_AddElement DEF TotalCommits
<1>7. ASSUME NEW d \in Values
      PROVE  Votes(counted, d) = Votes(rs, d) + IF d = commit.digest THEN 1 ELSE 0
  <2>1. d # NoValue /\ NoCommit.digest = NoValue
    BY OracleConstants DEF NoCommit
  <2>2. /\ c \notin CommittersOf(rs, d) /\ IsFiniteSet(CommittersOf(rs, d))
        /\ Votes(rs, d) = Cardinality(CommittersOf(rs, d)) /\ Votes(rs, d) \in Nat
        /\ Votes(counted, d) = Cardinality(CommittersOf(counted, d))
    BY <1>1, <2>1, VotesTypes DEF CommittersOf, Votes
  <2>3. CASE d = commit.digest
    <3>1. CommittersOf(counted, d) = CommittersOf(rs, d) \cup {c}
      BY <1>2, <1>4, <2>3 DEF CommittersOf
    <3>2. Cardinality(CommittersOf(rs, d) \cup {c}) = Cardinality(CommittersOf(rs, d)) + 1
      BY ONLY <2>2, FS_AddElement
    <3> QED
      BY <2>2, <2>3, <3>1, <3>2
  <2>4. CASE d # commit.digest
    <3>1. CommittersOf(counted, d) = CommittersOf(rs, d)
      BY <1>2, <1>4, <2>1, <2>4 DEF CommittersOf
    <3> QED
      BY <2>2, <2>4, <3>1
  <2> QED
    BY <2>3, <2>4
<1> QED
  BY <1>4, <1>6, <1>7

\* The votes do not depend on which bin is noted as the most voted one.
LEMMA MostIsNotCounted ==
  ASSUME NEW rs \in ReplyState, NEW m \in Values
  PROVE  LET noted == [rs EXCEPT !.most = m] IN
         /\ noted \in ReplyState /\ noted.query = rs.query /\ noted.own = rs.own
         /\ noted.most = m /\ TotalCommits(noted) = TotalCommits(rs)
         /\ \A d : Votes(noted, d) = Votes(rs, d)
<1> DEFINE noted == [rs EXCEPT !.most = m]
<1>1. /\ noted \in ReplyState /\ noted.query = rs.query /\ noted.own = rs.own
      /\ noted.most = m /\ noted.commits = rs.commits
  BY DEF ReplyState
<1> HIDE DEF noted
<1>2. Committers(noted) = Committers(rs) /\ \A d : CommittersOf(noted, d) = CommittersOf(rs, d)
  BY <1>1 DEF Committers, CommittersOf
<1>3. TotalCommits(noted) = TotalCommits(rs) /\ \A d : Votes(noted, d) = Votes(rs, d)
  BY <1>2 DEF TotalCommits, Votes
<1> QED
  BY <1>1, <1>3 DEF noted

\* The histogram that is kept up one commit at a time stays right.
LEMMA CountCommitIsRight ==
  ASSUME NEW rs \in ReplyState, MostOf(rs), NEW c \in Computors, rs.commits[c] = NoCommit,
         NEW commit \in Commit
  PROVE  LET r == CountCommit(rs, c, commit) IN
         /\ r \in ReplyState /\ r.query = rs.query /\ r.own = rs.own /\ MostOf(r)
         /\ r.most \in Values /\ Votes(r, r.most) >= Votes(rs, rs.most)
<1> DEFINE counted == [rs EXCEPT !.commits[c] = commit]
           noted == [counted EXCEPT !.most = commit.digest]
           r == CountCommit(rs, c, commit)
           d0 == commit.digest
           Goal ==
             /\ r \in ReplyState /\ r.query = rs.query /\ r.own = rs.own /\ MostOf(r)
             /\ r.most \in Values /\ Votes(r, r.most) >= Votes(rs, rs.most)
<1> SUFFICES Goal
  OBVIOUS
<1>1. /\ counted \in ReplyState /\ counted.query = rs.query /\ counted.own = rs.own
      /\ counted.most = rs.most
      /\ \A d \in Values : Votes(counted, d) = Votes(rs, d) + IF d = d0 THEN 1 ELSE 0
  BY OneMoreVote
<1>2. d0 \in Values
  BY CommitTypes
<1>3. r = IF Votes(counted, d0) > Votes(counted, rs.most) THEN noted ELSE counted
  BY DEF CountCommit
<1> HIDE DEF counted, r
<1>4. /\ noted \in ReplyState /\ noted.query = rs.query /\ noted.own = rs.own
      /\ noted.most = d0 /\ \A d : Votes(noted, d) = Votes(counted, d)
  BY <1>1, <1>2, MostIsNotCounted
<1> HIDE DEF noted, d0
<1>5. rs \in AnyReplyState /\ counted \in AnyReplyState /\ rs.most \in Values \cup {NoValue}
  BY <1>1 DEF AnyReplyState, ReplyState
<1>6. /\ \A d \in Values : Votes(rs, d) \in Nat /\ Votes(counted, d) \in Nat
      /\ Votes(rs, rs.most) \in Nat /\ Votes(counted, rs.most) \in Nat
      /\ Votes(rs, rs.most) <= Votes(counted, rs.most)
  <2>1. Votes(rs, NoValue) = 0 /\ Votes(counted, NoValue) = 0
    BY DEF Votes
  <2>2. \A d \in Values \cup {NoValue} : Votes(rs, d) \in Nat /\ Votes(counted, d) \in Nat
    BY <1>5, VotesTypes
  <2> QED
    BY <1>1, <1>5, <2>1, <2>2
<1>7. \A d \in Values : Votes(rs, d) <= Votes(rs, rs.most)
  BY DEF MostOf
<1>8. CASE Votes(counted, d0) > Votes(counted, rs.most)
  <2>1. r = noted
    BY <1>3, <1>8
  <2>2. \A d \in Values : Votes(counted, d) <= Votes(counted, d0)
    BY <1>1, <1>2, <1>6, <1>7, <1>8
  <2>3. MostOf(noted)
    BY <1>4, <2>2 DEF MostOf
  <2> QED
    BY <1>2, <1>4, <1>6, <1>8, <2>1, <2>3
<1>9. CASE ~(Votes(counted, d0) > Votes(counted, rs.most))
  <2>1. r = counted
    BY <1>3, <1>9
  <2>2. \A d \in Values : Votes(counted, d) <= Votes(counted, rs.most)
    BY <1>1, <1>2, <1>6, <1>7, <1>9
  <2>3. MostOf(counted)
    BY <1>1, <2>2 DEF MostOf
  <2>4. rs.most # NoValue
    <3>1. Votes(counted, d0) > 0
      BY <1>1, <1>2, <1>6
    <3>2. Votes(counted, NoValue) = 0
      BY DEF Votes
    <3> QED
      BY <1>2, <1>6, <1>9, <3>1, <3>2
  <2> QED
    BY <1>1, <1>5, <1>6, <2>1, <2>3, <2>4
<1> QED
  BY <1>8, <1>9

(***************************************************************************)
(* The pool: what every method of the engine keeps, in any order of calls. *)
(***************************************************************************)

\* What a query's status says of the commits to its reply.
Sound(q, rs) ==
  /\ q.status = "PENDING" => ~HasQuorum(rs) /\ ~CannotAgree(rs)
  /\ q.status = "COMMITTED" => HasQuorum(rs)
  /\ q.status = "UNRESOLVABLE" =>
       /\ q.agreeing < Quorum
       /\ "FAKE_COMMITS" \in q.flags \/ q.agreeing + N - q.total < Quorum

PoolTypes ==
  /\ tick \in Nat /\ now \in Nat /\ queries \in Seq(Query)
  /\ replyStates \in [Slots -> AnyReplyState]
  /\ pendingQueryIndices = {i \in QueryIndices : IsOpen(i)}
  /\ pendingCommitReplyStateIndices \subseteq Slots
  /\ pendingRevealReplyStateIndices \subseteq Slots

\* An unfinished query owns the slot it names, and a slot in use is owned so.
OwnSlots ==
  /\ \A i \in QueryIndices : IsOpen(i) => replyStates[queries[i].slot].query = i
  /\ \A s \in Slots : replyStates[s].query # 0 =>
       /\ replyStates[s].query \in QueryIndices /\ IsOpen(replyStates[s].query)
       /\ queries[replyStates[s].query].slot = s

\* The two tables of waiting slots, slot by slot.
WaitingSlots ==
  \A s \in Slots :
    /\ s \in pendingRevealReplyStateIndices <=>
         replyStates[s].query # 0 /\ queries[replyStates[s].query].status = "COMMITTED"
    /\ s \in pendingCommitReplyStateIndices <=>
         replyStates[s].own # NoValue /\ queries[replyStates[s].query].status = "PENDING"

CountsAreSound ==
  /\ \A s \in Slots : MostOf(replyStates[s])
  /\ \A i \in QueryIndices : Sound(queries[i], replyStates[queries[i].slot])

PoolInv == PoolTypes /\ OwnSlots /\ WaitingSlots /\ CountsAreSound

LEMMA QueryTypes ==
  ASSUME NEW q \in Query
  PROVE  /\ q.id \in Nat \X Nat /\ q.subscription \in Nat /\ q.targets \in Seq(Contracts)
         /\ q.status \in Open \cup Closed /\ q.flags \in SUBSET Flags /\ q.timeout \in Int
         /\ q.slot \in Slots /\ q.value \in Values \cup {NoValue}
         /\ q.agreeing \in Nat /\ q.total \in Nat
BY DEF Query

LEMMA StatusTypes ==
  /\ "PENDING" \in Open /\ "COMMITTED" \in Open
  /\ \A x \in Open : x = "PENDING" \/ x = "COMMITTED"
  /\ \A x \in Closed : x \notin Open
  /\ "SUCCESS" \in Closed /\ "TIMEOUT" \in Closed /\ "UNRESOLVABLE" \in Closed
BY DEF Open, Closed

LEMMA PoolFacts ==
  ASSUME PoolInv
  PROVE  /\ \A i \in QueryIndices : queries[i] \in Query /\ queries[i].slot \in Slots
         /\ \A s \in Slots : replyStates[s] \in AnyReplyState
         /\ QueryIndices = 1 .. Len(queries) /\ Len(queries) \in Nat
         /\ 0 \notin QueryIndices
         /\ \A i, j \in QueryIndices :
              IsOpen(i) /\ IsOpen(j) /\ queries[i].slot = queries[j].slot => i = j
<1>1. queries \in Seq(Query) /\ replyStates \in [Slots -> AnyReplyState]
  BY DEF PoolInv, PoolTypes
<1>2. QueryIndices = 1 .. Len(queries) /\ Len(queries) \in Nat
  BY <1>1 DEF QueryIndices
<1>3. \A i \in QueryIndices : queries[i] \in Query /\ queries[i].slot \in Slots
  BY <1>1, <1>2, QueryTypes
<1>4. \A i, j \in QueryIndices :
        IsOpen(i) /\ IsOpen(j) /\ queries[i].slot = queries[j].slot => i = j
  BY DEF PoolInv, OwnSlots
<1> QED
  BY <1>1, <1>2, <1>3, <1>4

\* How a method may change query i: it stays the query it is, a finished one does
\* not change, a committed one does not fall back and only a confirmed one succeeds.
Moved(i, q) ==
  /\ q.slot = queries[i].slot /\ q.id = queries[i].id /\ q.targets = queries[i].targets
  /\ q.subscription = queries[i].subscription /\ q.timeout = queries[i].timeout
  /\ ~IsOpen(i) => q = queries[i]
  /\ queries[i].status = "COMMITTED" => q.status # "PENDING"
  /\ IsOpen(i) /\ q.status = "SUCCESS" =>
       CorrectCommits(replyStates[queries[i].slot], q.value) >= Quorum

\* A step that starts no query, and ends none that it may not.
Steady == QueryIndices' = QueryIndices /\ \A i \in QueryIndices : Moved(i, queries'[i])

LEMMA StaysMoved == \A i : Moved(i, queries[i])
BY StatusTypes DEF Moved, IsOpen

\* The pending tables follow query i when it becomes q and its reply state r.
TablesFollow(i, q, r) ==
  /\ pendingQueryIndices' =
       IF q.status \in Open THEN pendingQueryIndices ELSE pendingQueryIndices \ {i}
  /\ pendingRevealReplyStateIndices' =
       IF q.status = "COMMITTED" THEN pendingRevealReplyStateIndices \cup {q.slot}
       ELSE pendingRevealReplyStateIndices \ {q.slot}
  /\ pendingCommitReplyStateIndices' =
       IF q.status = "PENDING" /\ r.own # NoValue
         THEN pendingCommitReplyStateIndices \cup {q.slot}
         ELSE pendingCommitReplyStateIndices \ {q.slot}

\* An unfinished query and the reply state of its slot change, or the query ends
\* and its slot is freed: the tables stay together when they follow the status.
LEMMA OneQueryMoves ==
  ASSUME PoolInv, UNCHANGED clockVars,
         NEW i \in QueryIndices, IsOpen(i), NEW q \in Query, NEW r \in AnyReplyState,
         Moved(i, q),
         q.status \in Open => r.query = i, q.status \notin Open => r = Free,
         MostOf(r), Sound(q, r),
         queries' = [queries EXCEPT ![i] = q],
         replyStates' = [replyStates EXCEPT ![q.slot] = r],
         TablesFollow(i, q, r)
  PROVE  PoolInv' /\ Steady
<1> DEFINE s == q.slot
<1>0. /\ tick \in Nat /\ now \in Nat /\ queries \in Seq(Query)
      /\ replyStates \in [Slots -> AnyReplyState]
      /\ pendingQueryIndices = {j \in QueryIndices : IsOpen(j)}
      /\ pendingCommitReplyStateIndices \subseteq Slots
      /\ pendingRevealReplyStateIndices \subseteq Slots
  BY DEF PoolInv, PoolTypes
<1>1. s = queries[i].slot /\ s \in Slots /\ i # 0 /\ i \in DOMAIN queries
  BY PoolFacts DEF QueryIndices, Moved
<1>2. /\ queries' \in Seq(Query) /\ QueryIndices' = QueryIndices
      /\ queries'[i] = q /\ \A j \in QueryIndices : j # i => queries'[j] = queries[j]
  BY <1>0, <1>1 DEF QueryIndices
<1>3. /\ replyStates' \in [Slots -> AnyReplyState]
      /\ replyStates'[s] = r /\ \A t \in Slots : t # s => replyStates'[t] = replyStates[t]
  BY <1>0, <1>1
<1>4. replyStates[s].query = i /\ queries[i].status \in Open
  BY <1>1 DEF PoolInv, OwnSlots, IsOpen
<1>5. \A j \in QueryIndices : IsOpen(j) /\ j # i => queries[j].slot # s
  BY <1>1, PoolFacts
<1>6. \A t \in Slots : t # s => replyStates[t].query # i
  BY <1>1 DEF PoolInv, OwnSlots
<1> HIDE DEF s
<1>7. PoolTypes'
  <2>1. tick' \in Nat /\ now' \in Nat
    BY <1>0 DEF clockVars
  <2>2. pendingQueryIndices' = {j \in QueryIndices' : IsOpen(j)'}
    BY <1>0, <1>2, <1>4 DEF IsOpen, TablesFollow
  <2>3. pendingCommitReplyStateIndices' \subseteq Slots /\ pendingRevealReplyStateIndices' \subseteq Slots
    BY <1>0, <1>1 DEF s, TablesFollow
  <2> QED
    BY <1>2, <1>3, <2>1, <2>2, <2>3 DEF PoolTypes
<1>8. OwnSlots'
  <2>1. ASSUME NEW j \in QueryIndices', IsOpen(j)'
        PROVE  replyStates'[queries'[j].slot].query = j
    <3>1. CASE j = i
      BY <1>2, <1>3, <2>1, <3>1 DEF IsOpen, s
    <3>2. CASE j # i
      <4>1. queries'[j] = queries[j] /\ IsOpen(j) /\ j \in QueryIndices
        BY <1>2, <2>1, <3>2 DEF IsOpen
      <4>2. queries[j].slot # s /\ queries[j].slot \in Slots
        BY <1>5, <3>2, <4>1, PoolFacts
      <4>3. replyStates[queries[j].slot].query = j
        BY <4>1 DEF PoolInv, OwnSlots
      <4> QED
        BY <1>3, <4>1, <4>2, <4>3
    <3> QED
      BY <3>1, <3>2
  <2>2. ASSUME NEW t \in Slots, replyStates'[t].query # 0
        PROVE  /\ replyStates'[t].query \in QueryIndices'
               /\ queries'[replyStates'[t].query].status \in Open
               /\ queries'[replyStates'[t].query].slot = t
    <3>1. CASE t = s
      <4>1. q.status \in Open /\ replyStates'[t].query = i
        BY <1>3, <2>2, <3>1 DEF Free
      <4> QED
        BY <1>2, <3>1, <4>1 DEF IsOpen, s
    <3>2. CASE t # s
      <4>1. replyStates'[t] = replyStates[t] /\ replyStates[t].query # i
        BY <1>3, <1>6, <3>2
      <4>2. /\ replyStates[t].query \in QueryIndices /\ IsOpen(replyStates[t].query)
            /\ queries[replyStates[t].query].slot = t
        BY <2>2, <4>1 DEF PoolInv, OwnSlots
      <4> QED
        BY <1>2, <4>1, <4>2 DEF IsOpen
    <3> QED
      BY <3>1, <3>2
  <2> QED
    BY <2>1, <2>2 DEF OwnSlots, IsOpen
<1>9. WaitingSlots'
  <2> SUFFICES ASSUME NEW t \in Slots
      PROVE  /\ t \in pendingRevealReplyStateIndices' <=>
                  replyStates'[t].query # 0 /\ queries'[replyStates'[t].query].status = "COMMITTED"
             /\ t \in pendingCommitReplyStateIndices' <=>
                  replyStates'[t].own # NoValue /\ queries'[replyStates'[t].query].status = "PENDING"
    BY DEF WaitingSlots
  <2>1. CASE t = s
    <3>1. /\ t \in pendingRevealReplyStateIndices' <=> q.status = "COMMITTED"
          /\ t \in pendingCommitReplyStateIndices' <=> q.status = "PENDING" /\ r.own # NoValue
      BY <2>1 DEF s, TablesFollow
    <3>2. CASE q.status \in Open
      <4>1. replyStates'[t] = r /\ r.query = i /\ queries'[i] = q
        BY <1>2, <1>3, <2>1, <3>2
      <4> QED
        BY <1>1, <3>1, <4>1
    <3>3. CASE q.status \notin Open
      <4>1. replyStates'[t] = Free /\ q.status # "COMMITTED" /\ q.status # "PENDING"
        BY <1>3, <2>1, <3>3, StatusTypes
      <4> QED
        BY <3>1, <4>1 DEF Free
    <3> QED
      BY <3>2, <3>3
  <2>2. CASE t # s
    <3>1. replyStates'[t] = replyStates[t] /\ replyStates[t].query # i
      BY <1>3, <1>6, <2>2
    <3>2. /\ t \in pendingRevealReplyStateIndices' <=> t \in pendingRevealReplyStateIndices
          /\ t \in pendingCommitReplyStateIndices' <=> t \in pendingCommitReplyStateIndices
      BY <2>2 DEF s, TablesFollow
    <3>3. replyStates[t].query # 0 => queries'[replyStates[t].query] = queries[replyStates[t].query]
      BY <1>2, <3>1 DEF PoolInv, OwnSlots
    <3>4. replyStates[t].query = 0 => replyStates[t].own = NoValue
      <4>1. replyStates[t] \in AnyReplyState
        BY <1>0
      <4>2. replyStates[t].query = 0 => replyStates[t] = Free
        BY <4>1, ReplyStateTypes
      <4> QED
        BY <4>2 DEF Free
    <3>5. /\ t \in pendingRevealReplyStateIndices <=>
               replyStates[t].query # 0 /\ queries[replyStates[t].query].status = "COMMITTED"
          /\ t \in pendingCommitReplyStateIndices <=>
               replyStates[t].own # NoValue /\ queries[replyStates[t].query].status = "PENDING"
      BY DEF PoolInv, WaitingSlots
    <3> QED
      BY <3>1, <3>2, <3>3, <3>4, <3>5
  <2> QED
    BY <2>1, <2>2
<1>10. CountsAreSound'
  <2>1. \A t \in Slots : MostOf(replyStates'[t])
    BY <1>3 DEF PoolInv, CountsAreSound
  <2>2. ASSUME NEW j \in QueryIndices' PROVE Sound(queries'[j], replyStates'[queries'[j].slot])
    <3>1. CASE j = i
      BY <1>2, <1>3, <3>1 DEF s
    <3>2. CASE j # i
      <4>1. queries'[j] = queries[j] /\ Sound(queries[j], replyStates[queries[j].slot])
            /\ queries[j].slot \in Slots
        BY <1>2, <3>2, PoolFacts DEF PoolInv, CountsAreSound
      <4>2. CASE IsOpen(j)
        <5>1. replyStates'[queries[j].slot] = replyStates[queries[j].slot]
          BY <1>2, <1>3, <1>5, <3>2, <4>1, <4>2
        <5> QED
          BY <4>1, <5>1
      <4>3. CASE ~IsOpen(j)
        <5>1. queries[j].status # "PENDING" /\ queries[j].status # "COMMITTED"
          BY <4>3, StatusTypes DEF IsOpen
        <5> QED
          BY <4>1, <5>1 DEF Sound
      <4> QED
        BY <4>2, <4>3
    <3> QED
      BY <3>1, <3>2
  <2> QED
    BY <2>1, <2>2 DEF CountsAreSound
<1>11. Steady
  BY <1>2, StaysMoved DEF Steady
<1> QED
  BY <1>7, <1>8, <1>9, <1>10, <1>11 DEF PoolInv

\* What the tables say of one unfinished query.
LEMMA OpenFacts ==
  ASSUME PoolInv, NEW i \in QueryIndices, IsOpen(i)
  PROVE  LET s == queries[i].slot IN
         /\ s \in Slots /\ replyStates[s].query = i /\ replyStates[s] \in ReplyState
         /\ MostOf(replyStates[s]) /\ Sound(queries[i], replyStates[s])
         /\ i \in pendingQueryIndices
         /\ s \in pendingRevealReplyStateIndices <=> queries[i].status = "COMMITTED"
         /\ s \in pendingCommitReplyStateIndices <=>
              queries[i].status = "PENDING" /\ replyStates[s].own # NoValue
<1> DEFINE s == queries[i].slot
<1>1. s \in Slots /\ i # 0 /\ replyStates[s] \in AnyReplyState
  BY PoolFacts
<1>2. replyStates[s].query = i
  BY DEF PoolInv, OwnSlots
<1>3. replyStates[s] \in ReplyState
  BY <1>1, <1>2, ReplyStateTypes
<1>4. MostOf(replyStates[s]) /\ Sound(queries[i], replyStates[s])
  BY <1>1 DEF PoolInv, CountsAreSound
<1>5. i \in pendingQueryIndices
  BY DEF PoolInv, PoolTypes
<1>6. /\ s \in pendingRevealReplyStateIndices <=>
           replyStates[s].query # 0 /\ queries[replyStates[s].query].status = "COMMITTED"
      /\ s \in pendingCommitReplyStateIndices <=>
           replyStates[s].own # NoValue /\ queries[replyStates[s].query].status = "PENDING"
  BY <1>1 DEF PoolInv, WaitingSlots
<1> QED
  BY <1>1, <1>2, <1>3, <1>4, <1>5, <1>6

LEMMA FlagKeeps ==
  ASSUME PoolInv, NEW i \in QueryIndices, IsOpen(i), NEW flag \in Flags,
         Flag(i, flag), UNCHANGED clockVars
  PROVE  PoolInv' /\ Steady
<1> DEFINE q == [queries[i] EXCEPT !.flags = @ \cup {flag}]
           s == queries[i].slot
           r == replyStates[s]
<1>1. queries \in Seq(Query) /\ i \in DOMAIN queries /\ queries[i] \in Query
      /\ replyStates \in [Slots -> AnyReplyState]
  BY PoolFacts DEF PoolInv, PoolTypes, QueryIndices
<1>2. queries[i].flags \in SUBSET Flags
  BY <1>1, QueryTypes
<1>3. /\ q \in Query /\ q.slot = s /\ q.status = queries[i].status
      /\ q.agreeing = queries[i].agreeing /\ q.total = queries[i].total
      /\ queries[i].flags \subseteq q.flags /\ Moved(i, q)
  <2> DEFINE f == queries[i].flags \cup {flag}
  <2>1. f \in SUBSET Flags /\ q = [queries[i] EXCEPT !.flags = f]
    BY <1>1, <1>2
  <2> HIDE DEF f
  <2>2. q \in Query /\ q.slot = s /\ q.status = queries[i].status
        /\ q.agreeing = queries[i].agreeing /\ q.total = queries[i].total /\ q.flags = f
        /\ q.id = queries[i].id /\ q.targets = queries[i].targets
        /\ q.subscription = queries[i].subscription /\ q.timeout = queries[i].timeout
    BY <1>1, <2>1 DEF Query
  <2> HIDE DEF q
  <2>3. Moved(i, q)
    BY <2>2, StatusTypes DEF Moved, IsOpen
  <2> QED
    BY <2>2, <2>3 DEF f
<1>4. queries' = [queries EXCEPT ![i] = q]
  BY <1>1 DEF Flag
<1>5. /\ s \in Slots /\ r.query = i /\ r \in ReplyState
      /\ MostOf(r) /\ Sound(queries[i], r)
      /\ s \in pendingRevealReplyStateIndices <=> queries[i].status = "COMMITTED"
      /\ s \in pendingCommitReplyStateIndices <=>
           queries[i].status = "PENDING" /\ r.own # NoValue
  BY OpenFacts
<1>6. /\ replyStates' = replyStates /\ pendingQueryIndices' = pendingQueryIndices
      /\ pendingCommitReplyStateIndices' = pendingCommitReplyStateIndices
      /\ pendingRevealReplyStateIndices' = pendingRevealReplyStateIndices
  BY DEF Flag, slotVars, poolVars
<1>7. replyStates' = [replyStates EXCEPT ![s] = r]
  BY <1>1, <1>5, <1>6
<1>8. r \in AnyReplyState /\ q.status \in Open
  BY <1>3, <1>5 DEF AnyReplyState, IsOpen
<1> HIDE DEF q, s, r
<1>9. Sound(q, r)
  BY <1>3, <1>5 DEF Sound
<1>10. TablesFollow(i, q, r)
  BY <1>3, <1>5, <1>6, <1>8 DEF TablesFollow
<1>11. replyStates' = [replyStates EXCEPT ![q.slot] = r] /\ q.slot = queries[i].slot
  BY <1>3, <1>7 DEF s
<1> QED
  BY <1>3, <1>4, <1>5, <1>8, <1>9, <1>10, <1>11, OneQueryMoves

\* The first reply is kept: no vote is cast yet.
LEMMA OwnReplyKept ==
  ASSUME NEW rs \in ReplyState, NEW value \in Values
  PROVE  LET r == [rs EXCEPT !.own = value] IN
         /\ r \in ReplyState /\ r.query = rs.query /\ r.own = value /\ r.most = rs.most
         /\ TotalCommits(r) = TotalCommits(rs) /\ \A d : Votes(r, d) = Votes(rs, d)
<1> DEFINE r == [rs EXCEPT !.own = value]
<1>1. /\ r \in ReplyState /\ r.query = rs.query /\ r.own = value /\ r.most = rs.most
      /\ r.commits = rs.commits
  BY DEF ReplyState
<1> HIDE DEF r
<1>2. Committers(r) = Committers(rs) /\ \A d : CommittersOf(r, d) = CommittersOf(rs, d)
  BY <1>1 DEF Committers, CommittersOf
<1>3. TotalCommits(r) = TotalCommits(rs) /\ \A d : Votes(r, d) = Votes(rs, d)
  BY <1>2 DEF TotalCommits, Votes
<1> QED
  BY <1>1, <1>3 DEF r

LEMMA SameVotes ==
  ASSUME NEW rs, NEW r, r.most = rs.most, TotalCommits(r) = TotalCommits(rs),
         \A d : Votes(r, d) = Votes(rs, d)
  PROVE  /\ HasQuorum(r) = HasQuorum(rs) /\ CannotAgree(r) = CannotAgree(rs)
         /\ MostOf(r) = MostOf(rs)
BY DEF HasQuorum, CannotAgree, MostOf

LEMMA MachineReplyKeeps ==
  ASSUME PoolInv, NEW i \in QueryIndices, NEW value \in Values, ProcessOracleMachineReply(i, value)
  PROVE  PoolInv' /\ Steady
<1> DEFINE s == queries[i].slot
           r == [replyStates[s] EXCEPT !.own = value]
           f == queries[i].flags \cup {"REPLY_RECEIVED"}
           q == [queries[i] EXCEPT !.flags = f]
<1>0. queries[i].status = "PENDING" /\ IsOpen(i) /\ UNCHANGED clockVars
  BY StatusTypes DEF ProcessOracleMachineReply, IsOpen
<1>1. CASE Flag(i, "OM_DISAGREE")
  BY <1>0, <1>1, FlagKeeps DEF Flags
<1>2. CASE
        /\ replyStates[s].own = NoValue
        /\ replyStates' = [replyStates EXCEPT ![s].own = value]
        /\ queries' = [queries EXCEPT ![i].flags = @ \cup {"REPLY_RECEIVED"}]
        /\ pendingCommitReplyStateIndices' = pendingCommitReplyStateIndices \cup {s}
        /\ UNCHANGED <<queryStorageBytesUsed, idVars, replyStatesIndex,
                       pendingQueryIndices, pendingRevealReplyStateIndices, noteVars>>
  <2>1. queries \in Seq(Query) /\ i \in DOMAIN queries /\ queries[i] \in Query
        /\ replyStates \in [Slots -> AnyReplyState]
    BY PoolFacts DEF PoolInv, PoolTypes, QueryIndices
  <2>2. /\ s \in Slots /\ replyStates[s].query = i /\ replyStates[s] \in ReplyState
        /\ MostOf(replyStates[s]) /\ Sound(queries[i], replyStates[s])
        /\ s \notin pendingRevealReplyStateIndices
    BY <1>0, OpenFacts
  <2>3. f \in SUBSET Flags
    BY <2>1, QueryTypes DEF Flags
  <2>4. replyStates' = [replyStates EXCEPT ![s] = r] /\ queries' = [queries EXCEPT ![i] = q]
    BY <1>2, <2>1, <2>2
  <2> HIDE DEF f
  <2>5. /\ q \in Query /\ q.slot = s /\ q.status = "PENDING"
        /\ q.id = queries[i].id /\ q.targets = queries[i].targets
        /\ q.subscription = queries[i].subscription /\ q.timeout = queries[i].timeout
    BY <1>0, <2>1, <2>3 DEF Query
  <2>6. /\ r \in ReplyState /\ r.query = i /\ r.own = value /\ r.most = replyStates[s].most
        /\ TotalCommits(r) = TotalCommits(replyStates[s])
        /\ \A d : Votes(r, d) = Votes(replyStates[s], d)
    BY <2>2, OwnReplyKept
  <2> HIDE DEF q, r
  <2>7. MostOf(r) /\ Sound(q, r)
    <3>1. /\ HasQuorum(r) = HasQuorum(replyStates[s])
          /\ CannotAgree(r) = CannotAgree(replyStates[s]) /\ MostOf(r) = MostOf(replyStates[s])
      BY <2>6, SameVotes
    <3> QED
      BY <1>0, <2>2, <2>5, <3>1 DEF Sound
  <2>8. r \in AnyReplyState /\ r.own # NoValue /\ "PENDING" # "COMMITTED"
    BY <2>6, OracleConstants DEF AnyReplyState
  <2>9. q.status \in Open
    BY <2>5, StatusTypes
  <2>10. TablesFollow(i, q, r)
    BY <1>2, <2>2, <2>5, <2>8, <2>9 DEF TablesFollow
  <2>11. replyStates' = [replyStates EXCEPT ![q.slot] = r] /\ Moved(i, q)
    BY <1>0, <2>4, <2>5 DEF s, Moved
  <2> QED
    BY <1>0, <2>4, <2>5, <2>6, <2>7, <2>8, <2>9, <2>10, <2>11, OneQueryMoves
<1> QED
  BY <1>1, <1>2 DEF ProcessOracleMachineReply

\* The end of one query: its slot, and no other, is freed.
LEMMA ReleaseOne ==
  ASSUME PoolInv, NEW i \in QueryIndices, ReleaseQueries({i})
  PROVE  /\ replyStates' = [replyStates EXCEPT ![queries[i].slot] = Free]
         /\ pendingQueryIndices' = pendingQueryIndices \ {i}
<1>1. SlotsOf({i}) = {queries[i].slot}
  BY DEF SlotsOf
<1>2. replyStates \in [Slots -> AnyReplyState]
  BY DEF PoolInv, PoolTypes
<1> QED
  BY <1>1, <1>2 DEF ReleaseQueries

LEMMA CommitKeeps ==
  ASSUME PoolInv, NEW i \in QueryIndices, NEW c \in Computors, NEW commit \in Commit,
         ProcessCommit(c, i, commit)
  PROVE  PoolInv' /\ Steady
<1> DEFINE s == queries[i].slot
           rs == CountCommit(replyStates[s], c, commit)
<1>1. IsOpen(i) /\ UNCHANGED clockVars /\ replyStates[s].commits[c] = NoCommit
  BY DEF ProcessCommit, IsOpen
<1>2. /\ s \in Slots /\ replyStates[s].query = i /\ replyStates[s] \in ReplyState
      /\ MostOf(replyStates[s]) /\ Sound(queries[i], replyStates[s])
      /\ s \in pendingRevealReplyStateIndices <=> queries[i].status = "COMMITTED"
      /\ s \in pendingCommitReplyStateIndices <=>
           queries[i].status = "PENDING" /\ replyStates[s].own # NoValue
  BY <1>1, OpenFacts
<1>3. /\ rs \in ReplyState /\ rs.query = i /\ rs.own = replyStates[s].own /\ MostOf(rs)
      /\ rs.most \in Values /\ Votes(rs, rs.most) >= Votes(replyStates[s], replyStates[s].most)
  BY <1>1, <1>2, CountCommitIsRight
<1>4. queries \in Seq(Query) /\ i \in DOMAIN queries /\ queries[i] \in Query
      /\ replyStates \in [Slots -> AnyReplyState]
  BY PoolFacts DEF PoolInv, PoolTypes, QueryIndices
<1>5. /\ HasQuorum(rs) =>
           /\ replyStates' = [replyStates EXCEPT ![s] = rs]
           /\ queries' = [queries EXCEPT ![i].status = "COMMITTED"]
           /\ pendingCommitReplyStateIndices' = pendingCommitReplyStateIndices \ {s}
           /\ pendingRevealReplyStateIndices' = pendingRevealReplyStateIndices \cup {s}
           /\ pendingQueryIndices' = pendingQueryIndices
      /\ ~HasQuorum(rs) /\ CannotAgree(rs) =>
           /\ queries' = [queries EXCEPT ![i].status = "UNRESOLVABLE",
                            ![i].agreeing = Votes(rs, rs.most), ![i].total = TotalCommits(rs)]
           /\ pendingCommitReplyStateIndices' = pendingCommitReplyStateIndices \ {s}
           /\ ReleaseQueries({i})
           /\ UNCHANGED pendingRevealReplyStateIndices
      /\ ~HasQuorum(rs) /\ ~CannotAgree(rs) =>
           /\ replyStates' = [replyStates EXCEPT ![s] = rs]
           /\ UNCHANGED <<queries, poolVars>>
  BY DEF ProcessCommit
<1> HIDE DEF rs
<1>6. /\ rs \in AnyReplyState /\ Votes(rs, rs.most) \in Nat /\ TotalCommits(rs) \in Nat
      /\ Votes(replyStates[s], replyStates[s].most) \in Nat
      /\ N \in Nat /\ Quorum \in Nat
  <2>1. rs \in AnyReplyState /\ replyStates[s] \in AnyReplyState
    BY <1>2, <1>3 DEF AnyReplyState
  <2>2. rs.most \in Values \cup {NoValue} /\ replyStates[s].most \in Values \cup {NoValue}
    BY <2>1, ReplyStateTypes
  <2> QED
    BY <2>1, <2>2, VotesTypes, QuorumIsReachable
<1>7. ~HasQuorum(rs) => queries[i].status = "PENDING"
  <2>1. HasQuorum(replyStates[s]) => HasQuorum(rs)
    BY <1>3, <1>6 DEF HasQuorum
  <2> QED
    BY <1>1, <1>2, <2>1, StatusTypes DEF Sound, IsOpen
<1>8. CASE HasQuorum(rs)
  <2> DEFINE q == [queries[i] EXCEPT !.status = "COMMITTED"]
  <2>1. queries' = [queries EXCEPT ![i] = q]
    BY <1>4, <1>5, <1>8
  <2>2. /\ q \in Query /\ q.slot = s /\ q.status = "COMMITTED"
        /\ q.id = queries[i].id /\ q.targets = queries[i].targets
        /\ q.subscription = queries[i].subscription /\ q.timeout = queries[i].timeout
    BY <1>4 DEF Query, Open
  <2> HIDE DEF q
  <2>3. Sound(q, rs) /\ q.status \in Open
    BY <1>8, <2>2, StatusTypes DEF Sound
  <2>4. TablesFollow(i, q, rs)
    BY <1>5, <1>8, <2>2, StatusTypes DEF TablesFollow
  <2>5. Moved(i, q) /\ replyStates' = [replyStates EXCEPT ![q.slot] = rs]
    BY <1>1, <1>5, <1>8, <2>2 DEF s, Moved
  <2> QED
    BY <1>1, <1>3, <1>6, <2>1, <2>2, <2>3, <2>4, <2>5, OneQueryMoves
<1>9. CASE ~HasQuorum(rs) /\ CannotAgree(rs)
  <2> DEFINE votes == Votes(rs, rs.most)
             total == TotalCommits(rs)
             q == [queries[i] EXCEPT !.status = "UNRESOLVABLE", !.agreeing = votes, !.total = total]
  <2>1. votes \in Nat /\ total \in Nat /\ votes < Quorum /\ total - votes > N - Quorum
    BY <1>6, <1>9 DEF HasQuorum, CannotAgree
  <2>2. queries' = [queries EXCEPT ![i] = q]
    BY <1>4, <1>5, <1>9
  <2> HIDE DEF votes, total
  <2>3. /\ q \in Query /\ q.slot = s /\ q.status = "UNRESOLVABLE"
        /\ q.agreeing = votes /\ q.total = total
        /\ q.id = queries[i].id /\ q.targets = queries[i].targets
        /\ q.subscription = queries[i].subscription /\ q.timeout = queries[i].timeout
    BY <1>4, <2>1 DEF Query, Closed
  <2> HIDE DEF q
  <2>4. Sound(q, Free) /\ q.status \notin Open
    BY <1>6, <2>1, <2>3, StatusTypes DEF Sound
  <2>5. /\ replyStates' = [replyStates EXCEPT ![s] = Free]
        /\ pendingQueryIndices' = pendingQueryIndices \ {i}
    BY <1>5, <1>9, ReleaseOne
  <2>6. s \notin pendingRevealReplyStateIndices
    BY <1>2, <1>7, <1>9
  <2>7. TablesFollow(i, q, Free)
    BY <1>5, <1>9, <2>3, <2>4, <2>5, <2>6 DEF TablesFollow
  <2>8. Moved(i, q) /\ replyStates' = [replyStates EXCEPT ![q.slot] = Free]
    BY <1>1, <2>3, <2>5 DEF s, Moved
  <2> QED
    BY <1>1, <2>2, <2>3, <2>4, <2>7, <2>8, OneQueryMoves, FreeHasNoVotes
<1>10. CASE ~HasQuorum(rs) /\ ~CannotAgree(rs)
  <2> DEFINE q == queries[i]
  <2>1. queries' = [queries EXCEPT ![i] = q] /\ q \in Query /\ q.slot = s /\ q.status = "PENDING"
    BY <1>4, <1>5, <1>7, <1>10
  <2>2. Sound(q, rs) /\ q.status \in Open
    BY <1>10, <2>1, StatusTypes DEF Sound
  <2>3. TablesFollow(i, q, rs)
    BY <1>2, <1>3, <1>5, <1>10, <2>1, <2>2 DEF TablesFollow, poolVars
  <2>4. replyStates' = [replyStates EXCEPT ![q.slot] = rs]
    BY <1>5, <1>10, <2>1
  <2> QED
    BY <1>1, <1>3, <1>6, <2>1, <2>2, <2>3, <2>4, OneQueryMoves, StaysMoved
<1> QED
  BY <1>8, <1>9, <1>10

\* Commits whose proof holds are commits to the reply.
LEMMA CorrectTypes ==
  ASSUME NEW rs \in AnyReplyState, NEW value \in Values
  PROVE  CorrectCommits(rs, value) \in Nat /\ CorrectCommits(rs, value) <= Votes(rs, value)
<1> DEFINE P == {c \in Computors : rs.commits[c] = [digest |-> value, honest |-> TRUE]}
<1>1. P \subseteq CommittersOf(rs, value) /\ value # NoValue
  BY OracleConstants DEF CommittersOf
<1>2. IsFiniteSet(CommittersOf(rs, value)) /\ Votes(rs, value) \in Nat
  BY VotesTypes
<1> QED
  BY <1>1, <1>2, FS_Subset, FS_CardinalityType DEF CorrectCommits, Votes

\* The query a reveal makes.
LEMMA RevealedTypes ==
  ASSUME PoolInv, NEW i \in QueryIndices, NEW value \in Values, RevealInOrder(i, value)
  PROVE  LET q == Revealed(i, value) IN
         /\ q \in Query /\ q.slot = queries[i].slot /\ q.id = queries[i].id
         /\ q.targets = queries[i].targets /\ q.subscription = queries[i].subscription
         /\ q.timeout = queries[i].timeout
         /\ q.status \in {"UNRESOLVABLE", "SUCCESS"} /\ Sound(q, Free)
         /\ q.status = "SUCCESS" =>
              q.value = value /\ CorrectCommits(replyStates[queries[i].slot], value) >= Quorum
<1> DEFINE rs == replyStates[queries[i].slot]
           correct == CorrectCommits(rs, value)
           total == TotalCommits(rs)
           flags == queries[i].flags \cup {"FAKE_COMMITS"}
<1>1. queries[i] \in Query /\ rs \in AnyReplyState
  BY PoolFacts
<1>2. correct \in Nat /\ total \in Nat /\ Quorum \in Nat /\ N \in Nat
  BY <1>1, CorrectTypes, VotesTypes, QuorumIsReachable
<1>3. flags \in SUBSET Flags /\ "FAKE_COMMITS" \in flags
  BY <1>1, QueryTypes DEF Flags
<1>4. Revealed(i, value) =
        IF correct < Quorum
          THEN [queries[i] EXCEPT !.status = "UNRESOLVABLE", !.flags = flags,
                                  !.agreeing = correct, !.total = total]
          ELSE [queries[i] EXCEPT !.status = "SUCCESS", !.value = value]
  BY <1>1 DEF Revealed, Query
<1> HIDE DEF correct, total, flags
<1>5. CASE correct < Quorum
  <2> DEFINE q == [queries[i] EXCEPT !.status = "UNRESOLVABLE", !.flags = flags,
                                     !.agreeing = correct, !.total = total]
  <2>1. /\ q \in Query /\ q.slot = queries[i].slot /\ q.id = queries[i].id
        /\ q.targets = queries[i].targets /\ q.subscription = queries[i].subscription
        /\ q.timeout = queries[i].timeout
        /\ q.status = "UNRESOLVABLE" /\ q.flags = flags /\ q.agreeing = correct
    BY <1>1, <1>2, <1>3 DEF Query, Closed
  <2> HIDE DEF q
  <2>2. Sound(q, Free)
    BY <1>3, <1>5, <2>1 DEF Sound
  <2>3. Revealed(i, value) = q
    BY <1>4, <1>5 DEF q
  <2> QED
    BY <2>1, <2>2, <2>3
<1>6. CASE ~(correct < Quorum)
  <2> DEFINE q == [queries[i] EXCEPT !.status = "SUCCESS", !.value = value]
  <2>1. /\ q \in Query /\ q.slot = queries[i].slot /\ q.id = queries[i].id
        /\ q.targets = queries[i].targets /\ q.subscription = queries[i].subscription
        /\ q.timeout = queries[i].timeout
        /\ q.status = "SUCCESS" /\ q.value = value
    BY <1>1 DEF Query, Closed
  <2> HIDE DEF q
  <2>2. Sound(q, Free)
    BY <2>1 DEF Sound
  <2>3. Revealed(i, value) = q
    BY <1>4, <1>6 DEF q
  <2>4. correct >= Quorum
    BY <1>2, <1>6
  <2> QED
    BY <2>1, <2>2, <2>3, <2>4 DEF correct
<1> QED
  BY <1>5, <1>6

LEMMA RevealKeeps ==
  ASSUME PoolInv, NEW i \in QueryIndices, NEW value \in Values, ProcessReveal(i, value)
  PROVE  PoolInv' /\ Steady
<1> DEFINE q == Revealed(i, value)
           s == queries[i].slot
<1>1. RevealInOrder(i, value) /\ IsOpen(i) /\ queries[i].status = "COMMITTED" /\ UNCHANGED clockVars
  BY StatusTypes DEF ProcessReveal, RevealInOrder, IsOpen
<1>2. q \in Query /\ q.slot = s /\ q.status \in {"UNRESOLVABLE", "SUCCESS"} /\ Sound(q, Free)
  BY <1>1, RevealedTypes
<1>3. queries' = [queries EXCEPT ![i] = q]
  BY DEF ProcessReveal
<1> HIDE DEF q
<1>4. s \notin pendingCommitReplyStateIndices
  BY <1>1, OpenFacts
<1>5. /\ replyStates' = [replyStates EXCEPT ![s] = Free]
      /\ pendingQueryIndices' = pendingQueryIndices \ {i}
  BY ReleaseOne DEF ProcessReveal
<1>6. q.status \notin Open /\ q.status # "COMMITTED" /\ q.status # "PENDING"
  BY <1>2, StatusTypes
<1>7. TablesFollow(i, q, Free)
  BY <1>2, <1>4, <1>5, <1>6 DEF TablesFollow, ProcessReveal
<1>8. Moved(i, q) /\ replyStates' = [replyStates EXCEPT ![q.slot] = Free]
  <2>1. Moved(i, q)
    BY <1>1, RevealedTypes DEF Moved, q
  <2> QED
    BY <1>2, <1>5, <2>1 DEF s
<1> QED
  BY <1>1, <1>2, <1>3, <1>6, <1>7, <1>8, OneQueryMoves, FreeHasNoVotes

\* The reply state a new query starts with.
LEMMA NewReplyState ==
  ASSUME NEW n \in Nat \ {0}
  PROVE  LET r == [Free EXCEPT !.query = n] IN
         /\ r \in ReplyState /\ r.query = n /\ r.own = NoValue /\ MostOf(r)
         /\ ~HasQuorum(r) /\ ~CannotAgree(r)
<1> DEFINE r == [Free EXCEPT !.query = n]
<1>1. /\ r \in ReplyState /\ r.query = n /\ r.own = NoValue /\ r.most = NoValue
      /\ r.commits = Free.commits
  BY DEF ReplyState, Free
<1> HIDE DEF r
<1>2. r \in AnyReplyState
  BY <1>1 DEF AnyReplyState
<1>3. TotalCommits(r) = 0 /\ \A d \in Values : Votes(r, d) = 0
  BY <1>1, <1>2, NoVotesYet
<1>4. Votes(r, r.most) = 0
  BY <1>1 DEF Votes
<1>5. MostOf(r) /\ ~HasQuorum(r) /\ ~CannotAgree(r)
  BY <1>3, <1>4, QuorumIsReachable DEF MostOf, HasQuorum, CannotAgree
<1> QED
  BY <1>1, <1>5 DEF r

LEMMA StartKeeps ==
  ASSUME PoolInv, UNCHANGED clockVars, NextIndexInTick \in Nat,
         NEW subscription \in Nat, NEW targets \in Seq(Contracts), NEW timeout \in Int,
         NEW bytes, StartQuery(subscription, targets, timeout, bytes)
  PROVE  PoolInv'
<1> DEFINE n == Len(queries) + 1
           r == [Free EXCEPT !.query = n]
<1>1. PICK s \in Slots :
        /\ IsEmptyReplyStateSlot(s)
        /\ queries' = Append(queries,
             [id |-> <<tick, NextIndexInTick>>, subscription |-> subscription,
              targets |-> targets, status |-> "PENDING", flags |-> {},
              timeout |-> timeout, slot |-> s, value |-> NoValue,
              agreeing |-> 0, total |-> 0])
        /\ replyStates' = [replyStates EXCEPT ![s] = r]
        /\ pendingQueryIndices' = pendingQueryIndices \cup {n}
        /\ UNCHANGED <<pendingCommitReplyStateIndices, pendingRevealReplyStateIndices>>
  BY DEF StartQuery
<1> DEFINE q == [id |-> <<tick, NextIndexInTick>>, subscription |-> subscription,
                 targets |-> targets, status |-> "PENDING", flags |-> {},
                 timeout |-> timeout, slot |-> s, value |-> NoValue,
                 agreeing |-> 0, total |-> 0]
<1>2. /\ tick \in Nat /\ now \in Nat /\ queries \in Seq(Query)
      /\ replyStates \in [Slots -> AnyReplyState]
      /\ pendingQueryIndices = {j \in QueryIndices : IsOpen(j)}
      /\ pendingCommitReplyStateIndices \subseteq Slots
      /\ pendingRevealReplyStateIndices \subseteq Slots
  BY DEF PoolInv, PoolTypes
<1>3. q \in Query /\ q.status = "PENDING" /\ q.slot = s
  <2>1. {} \in SUBSET Flags /\ "PENDING" \in Open \cup Closed /\ 0 \in Nat
    BY StatusTypes
  <2>2. <<tick, NextIndexInTick>> \in Nat \X Nat
    BY <1>2
  <2> HIDE DEF NextIndexInTick
  <2> QED
    BY <2>1, <2>2 DEF Query
<1>4. queries' = Append(queries, q)
  BY <1>1
<1> HIDE DEF q
<1>5. /\ n \in Nat \ {0} /\ n \notin QueryIndices /\ QueryIndices' = QueryIndices \cup {n}
      /\ queries' \in Seq(Query) /\ queries'[n] = q
      /\ \A j \in QueryIndices : queries'[j] = queries[j]
  BY <1>2, <1>3, <1>4 DEF QueryIndices
<1>6. /\ r \in ReplyState /\ r.query = n /\ r.own = NoValue /\ MostOf(r)
      /\ ~HasQuorum(r) /\ ~CannotAgree(r)
  BY <1>5, NewReplyState
<1> HIDE DEF r, n
<1>7. replyStates[s].query = 0 /\ replyStates[s] = Free
  BY <1>1, <1>2, ReplyStateTypes DEF IsEmptyReplyStateSlot
<1>8. /\ replyStates' \in [Slots -> AnyReplyState] /\ replyStates'[s] = r
      /\ \A t \in Slots : t # s => replyStates'[t] = replyStates[t]
  BY <1>1, <1>2, <1>6 DEF AnyReplyState
<1>9. \A j \in QueryIndices : IsOpen(j) => queries[j].slot # s
  BY <1>5, <1>7, PoolFacts DEF PoolInv, OwnSlots
<1>10. PoolTypes'
  <2>1. tick' \in Nat /\ now' \in Nat
    BY <1>2 DEF clockVars
  <2>2. pendingQueryIndices' = {j \in QueryIndices' : IsOpen(j)'}
    <3>1. \A j \in QueryIndices' : IsOpen(j)' <=> (j = n \/ (j \in QueryIndices /\ IsOpen(j)))
      BY <1>3, <1>5, StatusTypes DEF IsOpen
    <3> QED
      BY <1>1, <1>2, <1>5, <3>1
  <2> QED
    BY <1>1, <1>2, <1>5, <1>8, <2>1, <2>2 DEF PoolTypes
<1>11. OwnSlots'
  <2>1. ASSUME NEW j \in QueryIndices', IsOpen(j)'
        PROVE  replyStates'[queries'[j].slot].query = j
    <3>1. CASE j = n
      BY <1>3, <1>5, <1>6, <1>8, <3>1
    <3>2. CASE j # n
      <4>1. j \in QueryIndices /\ queries'[j] = queries[j] /\ IsOpen(j)
        BY <1>5, <2>1, <3>2 DEF IsOpen
      <4>2. queries[j].slot # s /\ queries[j].slot \in Slots
        BY <1>9, <4>1, PoolFacts
      <4>3. replyStates[queries[j].slot].query = j
        BY <4>1 DEF PoolInv, OwnSlots
      <4> QED
        BY <1>8, <4>1, <4>2, <4>3
    <3> QED
      BY <3>1, <3>2
  <2>2. ASSUME NEW t \in Slots, replyStates'[t].query # 0
        PROVE  /\ replyStates'[t].query \in QueryIndices'
               /\ queries'[replyStates'[t].query].status \in Open
               /\ queries'[replyStates'[t].query].slot = t
    <3>1. CASE t = s
      BY <1>3, <1>5, <1>6, <1>8, <3>1, StatusTypes
    <3>2. CASE t # s
      <4>1. replyStates'[t] = replyStates[t]
        BY <1>8, <3>2
      <4>2. /\ replyStates[t].query \in QueryIndices /\ queries[replyStates[t].query].status \in Open
            /\ queries[replyStates[t].query].slot = t
        BY <2>2, <4>1 DEF PoolInv, OwnSlots, IsOpen
      <4> QED
        BY <1>5, <4>1, <4>2
    <3> QED
      BY <3>1, <3>2
  <2> QED
    BY <2>1, <2>2 DEF OwnSlots, IsOpen
<1>12. WaitingSlots'
  <2> SUFFICES ASSUME NEW t \in Slots
      PROVE  /\ t \in pendingRevealReplyStateIndices' <=>
                  replyStates'[t].query # 0 /\ queries'[replyStates'[t].query].status = "COMMITTED"
             /\ t \in pendingCommitReplyStateIndices' <=>
                  replyStates'[t].own # NoValue /\ queries'[replyStates'[t].query].status = "PENDING"
    BY DEF WaitingSlots
  <2>1. /\ t \in pendingRevealReplyStateIndices <=>
             replyStates[t].query # 0 /\ queries[replyStates[t].query].status = "COMMITTED"
        /\ t \in pendingCommitReplyStateIndices <=>
             replyStates[t].own # NoValue /\ queries[replyStates[t].query].status = "PENDING"
    BY DEF PoolInv, WaitingSlots
  <2>2. CASE t = s
    <3>1. replyStates[s].own = NoValue
      BY <1>7 DEF Free
    <3> QED
      BY <1>1, <1>3, <1>5, <1>6, <1>7, <1>8, <2>1, <2>2, <3>1
  <2>3. CASE t # s
    <3>1. replyStates'[t] = replyStates[t]
      BY <1>8, <2>3
    <3>2. replyStates[t].query # 0 => queries'[replyStates[t].query] = queries[replyStates[t].query]
      BY <1>5 DEF PoolInv, OwnSlots
    <3>3. replyStates[t].query = 0 => replyStates[t].own = NoValue
      <4>1. replyStates[t].query = 0 => replyStates[t] = Free
        BY <1>2, ReplyStateTypes
      <4> QED
        BY <4>1 DEF Free
    <3> QED
      BY <1>1, <2>1, <3>1, <3>2, <3>3
  <2> QED
    BY <2>2, <2>3
<1>13. CountsAreSound'
  <2>1. \A t \in Slots : MostOf(replyStates'[t])
    BY <1>6, <1>8 DEF PoolInv, CountsAreSound
  <2>2. ASSUME NEW j \in QueryIndices' PROVE Sound(queries'[j], replyStates'[queries'[j].slot])
    <3>1. CASE j = n
      BY <1>3, <1>5, <1>6, <1>8, <3>1 DEF Sound
    <3>2. CASE j # n
      <4>1. /\ j \in QueryIndices /\ queries'[j] = queries[j] /\ queries[j].slot \in Slots
            /\ Sound(queries[j], replyStates[queries[j].slot])
        BY <1>5, <3>2, PoolFacts DEF PoolInv, CountsAreSound
      <4>2. CASE IsOpen(j)
        BY <1>8, <1>9, <4>1, <4>2
      <4>3. CASE ~IsOpen(j)
        <5>1. queries[j].status # "PENDING" /\ queries[j].status # "COMMITTED"
          BY <4>3, StatusTypes DEF IsOpen
        <5> QED
          BY <4>1, <5>1 DEF Sound
      <4> QED
        BY <4>2, <4>3
    <3> QED
      BY <3>1, <3>2
  <2> QED
    BY <2>1, <2>2 DEF CountsAreSound
<1> QED
  BY <1>10, <1>11, <1>12, <1>13 DEF PoolInv

\* The query that a timeout makes.
LEMMA TimedOutTypes ==
  ASSUME PoolInv, NEW i \in QueryIndices
  PROVE  LET q == TimedOut(i) IN
         /\ q \in Query /\ q.slot = queries[i].slot /\ q.id = queries[i].id
         /\ q.targets = queries[i].targets /\ q.subscription = queries[i].subscription
         /\ q.timeout = queries[i].timeout /\ q.status = "TIMEOUT"
         /\ \A r : Sound(q, r)
<1> DEFINE rs == replyStates[queries[i].slot]
           votes == Votes(rs, rs.most)
           total == TotalCommits(rs)
           q == [queries[i] EXCEPT !.status = "TIMEOUT", !.agreeing = votes, !.total = total]
<1>1. queries[i] \in Query /\ rs \in AnyReplyState
  BY PoolFacts
<1>2. votes \in Nat /\ total \in Nat
  <2>1. rs.most \in Values \cup {NoValue}
    BY <1>1, ReplyStateTypes
  <2> HIDE DEF rs
  <2> QED
    BY <1>1, <2>1, VotesTypes
<1>3. TimedOut(i) = q
  BY DEF TimedOut
<1> HIDE DEF votes, total
<1>4. /\ q \in Query /\ q.slot = queries[i].slot /\ q.id = queries[i].id
      /\ q.targets = queries[i].targets /\ q.subscription = queries[i].subscription
      /\ q.timeout = queries[i].timeout /\ q.status = "TIMEOUT"
  BY <1>1, <1>2 DEF Query, Closed
<1> HIDE DEF q
<1>5. \A r : Sound(q, r)
  BY <1>4 DEF Sound
<1> QED
  BY <1>3, <1>4, <1>5

LEMMA TimeoutsKeep ==
  ASSUME PoolInv, ProcessTimeouts
  PROVE  PoolInv' /\ Steady
<1>0. /\ tick \in Nat /\ now \in Nat /\ queries \in Seq(Query)
      /\ replyStates \in [Slots -> AnyReplyState]
      /\ pendingQueryIndices = {j \in QueryIndices : IsOpen(j)}
      /\ pendingCommitReplyStateIndices \subseteq Slots
      /\ pendingRevealReplyStateIndices \subseteq Slots
  BY DEF PoolInv, PoolTypes
<1> DEFINE X == Expired
           T == SlotsOf(Expired)
<1>1. X \subseteq QueryIndices /\ \A i \in X : IsOpen(i)
  BY <1>0 DEF Expired
<1>2. T = {queries[i].slot : i \in X}
  BY DEF SlotsOf
<1>3. /\ queries' = [i \in QueryIndices |-> IF i \in X THEN TimedOut(i) ELSE queries[i]]
      /\ pendingCommitReplyStateIndices' = pendingCommitReplyStateIndices \ T
      /\ pendingRevealReplyStateIndices' = pendingRevealReplyStateIndices \ T
      /\ pendingQueryIndices' = pendingQueryIndices \ X
      /\ replyStates' = [s \in Slots |-> IF s \in T THEN Free ELSE replyStates[s]]
      /\ tick' = tick /\ now' = now
  BY DEF ProcessTimeouts, ReleaseQueries, clockVars
<1> HIDE DEF X, T
<1>4. /\ queries' \in Seq(Query) /\ QueryIndices' = QueryIndices
      /\ \A i \in QueryIndices : queries'[i] \in Query /\ queries'[i].slot = queries[i].slot
      /\ \A i \in X : queries'[i].status = "TIMEOUT" /\ \A r : Sound(queries'[i], r)
      /\ \A i \in QueryIndices \ X : queries'[i] = queries[i]
      /\ \A i \in X : Moved(i, queries'[i])
  <2>1. QueryIndices = 1 .. Len(queries) /\ Len(queries) \in Nat
    BY PoolFacts
  <2>2. \A i \in QueryIndices : queries[i] \in Query
    BY PoolFacts
  <2>3. \A i \in QueryIndices : /\ TimedOut(i) \in Query /\ TimedOut(i).slot = queries[i].slot
                                /\ TimedOut(i).status = "TIMEOUT" /\ \A r : Sound(TimedOut(i), r)
                                /\ IsOpen(i) => Moved(i, TimedOut(i))
    BY TimedOutTypes DEF Moved
  <2>4. queries' \in [1 .. Len(queries) -> Query]
    BY <1>3, <2>1, <2>2, <2>3
  <2>5. queries' \in Seq(Query)
    BY <2>1, <2>4, IsASeq
  <2>6. QueryIndices' = QueryIndices
    BY <2>1, <2>4 DEF QueryIndices
  <2> QED
    BY <1>1, <1>3, <2>2, <2>3, <2>5, <2>6
<1>5. \A i \in QueryIndices : IsOpen(i) => (queries[i].slot \in T <=> i \in X)
  BY <1>1, <1>2, PoolFacts
<1>6. \A s \in Slots : replyStates[s].query # 0 => (s \in T <=> replyStates[s].query \in X)
  BY <1>5 DEF PoolInv, OwnSlots
<1>7. /\ replyStates' \in [Slots -> AnyReplyState]
      /\ \A s \in Slots : replyStates'[s] = IF s \in T THEN Free ELSE replyStates[s]
  BY <1>0, <1>3 DEF AnyReplyState
<1>8. \A i \in QueryIndices : queries'[i].status \in Open <=> IsOpen(i) /\ i \notin X
  BY <1>4, StatusTypes DEF IsOpen
<1>9. PoolTypes'
  <2>1. pendingQueryIndices' = {j \in QueryIndices' : IsOpen(j)'}
    BY <1>0, <1>3, <1>4, <1>8 DEF IsOpen
  <2> QED
    BY <1>0, <1>3, <1>4, <1>7, <2>1 DEF PoolTypes
<1>10. OwnSlots'
  <2>1. ASSUME NEW j \in QueryIndices', queries'[j].status \in Open
        PROVE  replyStates'[queries'[j].slot].query = j
    <3>1. j \in QueryIndices /\ IsOpen(j) /\ j \notin X /\ queries'[j].slot = queries[j].slot
      BY <1>4, <1>8, <2>1
    <3>2. queries[j].slot \in Slots /\ queries[j].slot \notin T
      BY <1>5, <3>1, PoolFacts
    <3> QED
      BY <1>7, <3>1, <3>2 DEF PoolInv, OwnSlots
  <2>2. ASSUME NEW t \in Slots, replyStates'[t].query # 0
        PROVE  /\ replyStates'[t].query \in QueryIndices'
               /\ queries'[replyStates'[t].query].status \in Open
               /\ queries'[replyStates'[t].query].slot = t
    <3>1. t \notin T /\ replyStates'[t] = replyStates[t]
      BY <1>7, <2>2 DEF Free
    <3>2. /\ replyStates[t].query \in QueryIndices /\ IsOpen(replyStates[t].query)
          /\ queries[replyStates[t].query].slot = t
      BY <2>2, <3>1 DEF PoolInv, OwnSlots
    <3> QED
      BY <1>4, <1>6, <1>8, <2>2, <3>1, <3>2
  <2> QED
    BY <2>1, <2>2 DEF OwnSlots, IsOpen
<1>11. WaitingSlots'
  <2> SUFFICES ASSUME NEW t \in Slots
      PROVE  /\ t \in pendingRevealReplyStateIndices' <=>
                  replyStates'[t].query # 0 /\ queries'[replyStates'[t].query].status = "COMMITTED"
             /\ t \in pendingCommitReplyStateIndices' <=>
                  replyStates'[t].own # NoValue /\ queries'[replyStates'[t].query].status = "PENDING"
    BY DEF WaitingSlots
  <2>1. /\ t \in pendingRevealReplyStateIndices <=>
             replyStates[t].query # 0 /\ queries[replyStates[t].query].status = "COMMITTED"
        /\ t \in pendingCommitReplyStateIndices <=>
             replyStates[t].own # NoValue /\ queries[replyStates[t].query].status = "PENDING"
    BY DEF PoolInv, WaitingSlots
  <2>2. CASE t \in T
    BY <1>3, <1>7, <2>2 DEF Free
  <2>3. CASE t \notin T
    <3>1. replyStates'[t] = replyStates[t]
      BY <1>7, <2>3
    <3>2. replyStates[t].query # 0 => queries'[replyStates[t].query] = queries[replyStates[t].query]
      BY <1>4, <1>6, <2>3 DEF PoolInv, OwnSlots
    <3>3. replyStates[t].query = 0 => replyStates[t].own = NoValue
      <4>1. replyStates[t].query = 0 => replyStates[t] = Free
        BY <1>0, ReplyStateTypes
      <4> QED
        BY <4>1 DEF Free
    <3> QED
      BY <1>3, <2>1, <2>3, <3>1, <3>2, <3>3
  <2> QED
    BY <2>2, <2>3
<1>12. CountsAreSound'
  <2>1. \A t \in Slots : MostOf(replyStates'[t])
    BY <1>7, FreeHasNoVotes DEF PoolInv, CountsAreSound
  <2>2. ASSUME NEW j \in QueryIndices' PROVE Sound(queries'[j], replyStates'[queries'[j].slot])
    <3>1. CASE j \in X
      BY <1>4, <3>1
    <3>2. CASE j \notin X
      <4>1. /\ j \in QueryIndices /\ queries'[j] = queries[j] /\ queries[j].slot \in Slots
            /\ Sound(queries[j], replyStates[queries[j].slot])
        BY <1>4, <3>2, PoolFacts DEF PoolInv, CountsAreSound
      <4>2. CASE IsOpen(j)
        BY <1>5, <1>7, <3>2, <4>1, <4>2
      <4>3. CASE ~IsOpen(j)
        <5>1. queries[j].status # "PENDING" /\ queries[j].status # "COMMITTED"
          BY <4>3, StatusTypes DEF IsOpen
        <5> QED
          BY <4>1, <5>1 DEF Sound
      <4> QED
        BY <4>2, <4>3
    <3> QED
      BY <3>1, <3>2
  <2> QED
    BY <2>1, <2>2 DEF CountsAreSound
<1>13. Steady
  BY <1>4, StaysMoved DEF Steady
<1> QED
  BY <1>9, <1>10, <1>11, <1>12, <1>13 DEF PoolInv

(***************************************************************************)
(* The ids.                                                                *)
(***************************************************************************)

IdTypes ==
  /\ contractQueryIdState \in [tick : Int, queryIndexInTick : 0 .. MaxIndexInTick]
  /\ contractQueryIdState.tick <= tick

\* Ids grow, and none is beyond the last one that was handed out.
IdInv ==
  /\ IdTypes /\ IdsGrow
  /\ \A i \in QueryIndices :
       LET id == queries[i].id IN
       \/ id[1] < contractQueryIdState.tick
       \/ id[1] = contractQueryIdState.tick /\ id[2] <= contractQueryIdState.queryIndexInTick

LEMMA NextIndexTypes ==
  ASSUME IdTypes, tick \in Nat
  PROVE  /\ NextIndexInTick \in Nat
         /\ ~IdsExhausted => NextIndexInTick \in 0 .. MaxIndexInTick
BY OracleConstants DEF IdTypes, NextIndexInTick, IdsExhausted, NewIdIsFirst

LEMMA TakeIdTypes ==
  ASSUME IdTypes, tick \in Nat, TakeQueryId, UNCHANGED clockVars
  PROVE  IdTypes'
<1>1. CASE IdsExhausted
  BY <1>1 DEF TakeQueryId, IdTypes, clockVars
<1>2. CASE ~IdsExhausted
  <2> DEFINE n == NextIndexInTick
  <2>1. n \in 0 .. MaxIndexInTick
    BY <1>2, NextIndexTypes
  <2>2. contractQueryIdState' = [tick |-> tick, queryIndexInTick |-> n]
    BY <1>2 DEF TakeQueryId
  <2> HIDE DEF n
  <2> QED
    BY <2>1, <2>2 DEF IdTypes, clockVars
<1> QED
  BY <1>1, <1>2

\* Queries keep their ids.
LEMMA IdsKept ==
  ASSUME IdInv, Steady, contractQueryIdState' = contractQueryIdState,
         tick \in Nat, tick' \in Nat, tick <= tick'
  PROVE  IdInv'
<1>1. QueryIndices' = QueryIndices /\ \A i \in QueryIndices : queries'[i].id = queries[i].id
  BY DEF Steady, Moved
<1>2. IdTypes'
  BY DEF IdInv, IdTypes
<1>3. IdsGrow'
  BY <1>1 DEF IdInv, IdsGrow
<1> QED
  BY <1>1, <1>2, <1>3 DEF IdInv

\* The counter moves on past every id, the one it hands out included.
LEMMA IdsBefore ==
  ASSUME PoolInv, IdInv, ~IdsExhausted, NEW i \in QueryIndices
  PROVE  /\ queries[i].id \in Nat \X Nat
         /\ queries[i].id[1] < tick \/ (queries[i].id[1] = tick /\ queries[i].id[2] < NextIndexInTick)
<1>1. queries[i].id \in Nat \X Nat /\ tick \in Nat
  BY PoolFacts, QueryTypes DEF PoolInv, PoolTypes
<1> DEFINE a == queries[i].id[1]
           b == queries[i].id[2]
           st == contractQueryIdState.tick
           ix == contractQueryIdState.queryIndexInTick
<1>2. a \in Nat /\ b \in Nat /\ st \in Int /\ ix \in Nat /\ st <= tick
  BY <1>1, OracleConstants DEF IdInv, IdTypes
<1>3. a < st \/ (a = st /\ b <= ix)
  BY DEF IdInv
<1>4. st < tick \/ (st = tick /\ NextIndexInTick = ix + 1)
  BY <1>1, <1>2 DEF NextIndexInTick, NewIdIsFirst
<1> HIDE DEF a, b, st, ix
<1>5. a < tick \/ (a = tick /\ b < NextIndexInTick)
  BY <1>1, <1>2, <1>3, <1>4
<1> QED
  BY <1>1, <1>5 DEF a, b

LEMMA IdTaken ==
  ASSUME PoolInv, IdInv, TakeQueryId, queries' = queries, UNCHANGED clockVars
  PROVE  IdInv'
<1>1. tick \in Nat
  BY DEF PoolInv, PoolTypes
<1>2. IdTypes'
  BY <1>1, TakeIdTypes DEF IdInv
<1>3. IdsGrow'
  BY DEF IdInv, IdsGrow, QueryIndices
<1>4. CASE IdsExhausted
  BY <1>2, <1>3, <1>4 DEF IdInv, TakeQueryId, QueryIndices
<1>5. CASE ~IdsExhausted
  <2> DEFINE n == NextIndexInTick
  <2>1. contractQueryIdState' = [tick |-> tick, queryIndexInTick |-> n] /\ n \in Nat
    BY <1>1, <1>5, NextIndexTypes DEF TakeQueryId, IdInv
  <2>2. \A i \in QueryIndices :
          /\ queries[i].id \in Nat \X Nat
          /\ queries[i].id[1] < tick \/ (queries[i].id[1] = tick /\ queries[i].id[2] < n)
    BY <1>5, IdsBefore
  <2> HIDE DEF n
  <2>3. ASSUME NEW i \in QueryIndices'
        PROVE  \/ queries'[i].id[1] < contractQueryIdState'.tick
               \/ /\ queries'[i].id[1] = contractQueryIdState'.tick
                  /\ queries'[i].id[2] <= contractQueryIdState'.queryIndexInTick
    <3>1. i \in QueryIndices /\ queries'[i] = queries[i]
      BY DEF QueryIndices
    <3> QED
      BY <2>1, <2>2, <3>1
  <2> QED
    BY <1>2, <1>3, <2>3 DEF IdInv
<1> QED
  BY <1>4, <1>5

LEMMA IdStarted ==
  ASSUME PoolInv, IdInv, TakeQueryId, ~IdsExhausted, UNCHANGED clockVars,
         NEW q, q.id = <<tick, NextIndexInTick>>, queries' = Append(queries, q),
         queries \in Seq(Query), queries' \in Seq(Query)
  PROVE  IdInv'
<1>1. tick \in Nat
  BY DEF PoolInv, PoolTypes
<1>2. IdTypes'
  BY <1>1, TakeIdTypes DEF IdInv
<1> DEFINE n == NextIndexInTick
           m == Len(queries) + 1
<1>3. contractQueryIdState' = [tick |-> tick, queryIndexInTick |-> n] /\ n \in Nat
  BY <1>1, NextIndexTypes DEF TakeQueryId, IdInv
<1>4. \A i \in QueryIndices :
        /\ queries[i].id \in Nat \X Nat
        /\ queries[i].id[1] < tick \/ (queries[i].id[1] = tick /\ queries[i].id[2] < n)
  BY IdsBefore
<1>5. /\ QueryIndices' = QueryIndices \cup {m} /\ m \notin QueryIndices
      /\ \A i, j \in QueryIndices' : i < j => i # m
      /\ queries'[m] = q /\ \A i \in QueryIndices : queries'[i] = queries[i]
  BY DEF QueryIndices
<1>6. q.id[1] = tick /\ q.id[2] = n
  OBVIOUS
<1> HIDE DEF n, m
<1>7. ASSUME NEW i \in QueryIndices'
      PROVE  \/ queries'[i].id[1] < contractQueryIdState'.tick
             \/ /\ queries'[i].id[1] = contractQueryIdState'.tick
                /\ queries'[i].id[2] <= contractQueryIdState'.queryIndexInTick
  <2>1. CASE i = m
    <3>1. queries'[i].id[1] = tick /\ queries'[i].id[2] = n
      BY ONLY <1>5, <1>6, <2>1
    <3> QED
      BY ONLY <1>1, <1>3, <3>1
  <2>2. CASE i # m
    <3>1. i \in QueryIndices /\ queries'[i] = queries[i]
      BY <1>5, <2>2
    <3> QED
      BY <1>1, <1>3, <1>4, <3>1
  <2> QED
    BY <2>1, <2>2
<1>8. ASSUME NEW i \in QueryIndices', NEW j \in QueryIndices', i < j
      PROVE  \/ queries'[i].id[1] < queries'[j].id[1]
             \/ queries'[i].id[1] = queries'[j].id[1] /\ queries'[i].id[2] < queries'[j].id[2]
  <2>1. i \in QueryIndices /\ queries'[i] = queries[i]
    BY <1>5, <1>8
  <2>2. CASE j = m
    <3>1. queries'[j].id[1] = tick /\ queries'[j].id[2] = n
      BY ONLY <1>5, <1>6, <2>2
    <3> QED
      BY ONLY <1>4, <2>1, <3>1
  <2>3. CASE j # m
    <3>1. j \in QueryIndices /\ queries'[j] = queries[j]
      BY <1>5, <2>3
    <3> QED
      BY <1>8, <2>1, <3>1 DEF IdInv, IdsGrow
  <2> QED
    BY <2>2, <2>3
<1> QED
  BY <1>2, <1>7, <1>8 DEF IdInv, IdsGrow

(***************************************************************************)
(* The notifications.                                                      *)
(***************************************************************************)

\* What is told, and where the cursor stands: inside the targets of the query at
\* the head of the queue.
NoteInv ==
  /\ notificationQueue \subseteq QueryIndices /\ notificationCursor \in Nat
  /\ told \in Seq(Nat) /\ Len(told) = Len(queries)
  /\ ToldAtMostOnce
  /\ notificationCursor # 0 =>
       \E i \in QueryIndices : IsNextNotified(i) /\ notificationCursor < Len(queries[i].targets)

LEMMA NoteFacts ==
  ASSUME PoolInv, NoteInv
  PROVE  /\ \A i \in QueryIndices : told[i] \in Nat /\ Len(queries[i].targets) \in Nat
         /\ DOMAIN told = QueryIndices
<1>1. \A i \in QueryIndices : queries[i].targets \in Seq(Contracts)
  BY PoolFacts, QueryTypes
<1>2. QueryIndices = 1 .. Len(queries)
  BY PoolFacts
<1> QED
  BY <1>1, <1>2, LenProperties DEF NoteInv

LEMMA SteadyLength ==
  ASSUME PoolInv, PoolInv', Steady
  PROVE  Len(queries') = Len(queries)
<1>1. QueryIndices' = QueryIndices
  BY DEF Steady
<1>2. queries \in Seq(Query) /\ queries' \in Seq(Query)
  BY DEF PoolInv, PoolTypes
<1> DEFINE n == Len(queries)
           m == Len(queries')
<1>3. n \in Nat /\ m \in Nat /\ 1 .. n = 1 .. m
  BY <1>1, <1>2 DEF QueryIndices
<1> HIDE DEF n, m
<1>4. n = m
  <2>1. n <= m
    <3>1. n = 0 \/ n \in 1 .. m
      BY <1>3
    <3> QED
      BY <1>3, <3>1
  <2>2. m <= n
    <3>1. m = 0 \/ m \in 1 .. n
      BY <1>3
    <3> QED
      BY <1>3, <3>1
  <2> QED
    BY <1>3, <2>1, <2>2
<1> QED
  BY <1>4 DEF n, m

LEMMA SteadyFacts ==
  ASSUME PoolInv, Steady, NEW i \in QueryIndices
  PROVE  /\ queries'[i].targets = queries[i].targets /\ queries'[i].id = queries[i].id
         /\ queries[i].status \notin Open => queries'[i] = queries[i]
BY DEF Steady, Moved, IsOpen

LEMMA NotesKept ==
  ASSUME PoolInv, PoolInv', NoteInv, Steady, UNCHANGED noteVars
  PROVE  NoteInv'
<1>1. /\ notificationQueue' = notificationQueue /\ notificationCursor' = notificationCursor
      /\ told' = told /\ QueryIndices' = QueryIndices
  BY DEF noteVars, Steady
<1>2. Len(queries') = Len(queries)
  BY SteadyLength
<1>3. \A i \in QueryIndices : IsNextNotified(i)' = IsNextNotified(i)
  BY <1>1 DEF IsNextNotified
<1>4. \A i \in QueryIndices : /\ queries'[i].targets = queries[i].targets
                              /\ ~IsOpen(i) => ~IsOpen(i)'
  BY SteadyFacts DEF IsOpen
<1>5. ToldAtMostOnce'
  BY <1>1, <1>3, <1>4 DEF NoteInv, ToldAtMostOnce
<1> QED
  BY <1>1, <1>2, <1>3, <1>4, <1>5 DEF NoteInv

\* Finished queries are queued, between two rounds of notifications.
LEMMA NotesQueued ==
  ASSUME PoolInv, PoolInv', NoteInv, Steady, notificationCursor = 0,
         NEW F \in SUBSET QueryIndices, \A i \in F : IsOpen(i) /\ ~IsOpen(i)',
         Enqueue(F), UNCHANGED <<notificationCursor, told>>
  PROVE  NoteInv'
<1>1. notificationCursor' = 0 /\ told' = told /\ QueryIndices' = QueryIndices
  BY DEF Steady
<1>2. Len(queries') = Len(queries)
  BY SteadyLength
<1>3. PICK K \in SUBSET F : notificationQueue' = notificationQueue \cup K
  BY DEF Enqueue
<1>4. notificationQueue' \subseteq QueryIndices
  BY <1>3 DEF NoteInv
<1>5. \A i \in QueryIndices : /\ queries'[i].targets = queries[i].targets
                              /\ ~IsOpen(i) => ~IsOpen(i)'
  BY SteadyFacts DEF IsOpen
<1>6. ASSUME NEW i \in QueryIndices
      PROVE  /\ told'[i] <= Len(queries'[i].targets)
             /\ told'[i] > 0 => ~IsOpen(i)'
             /\ i \in notificationQueue' => ~IsOpen(i)' /\ told'[i] = 0
  <2>1. /\ told[i] <= Len(queries[i].targets) /\ (told[i] > 0 => ~IsOpen(i))
        /\ i \in notificationQueue => ~IsOpen(i) /\ told[i] = 0
    BY DEF NoteInv, ToldAtMostOnce
  <2>2. i \in K => told[i] = 0
    <3>1. told[i] \in Nat
      BY NoteFacts
    <3>2. i \in K => IsOpen(i) /\ ~IsOpen(i)'
      BY <1>3
    <3> QED
      BY <2>1, <3>1, <3>2
  <2> QED
    BY <1>1, <1>3, <1>5, <2>1, <2>2 DEF IsOpen
<1>7. ToldAtMostOnce'
  BY <1>1, <1>6 DEF ToldAtMostOnce
<1> QED
  BY <1>1, <1>2, <1>4, <1>7 DEF NoteInv

LEMMA NotesStarted ==
  ASSUME PoolInv, PoolInv', NoteInv, NEW q, q.status = "PENDING", q.targets \in Seq(Contracts),
         queries' = Append(queries, q), told' = Append(told, 0),
         UNCHANGED <<notificationQueue, notificationCursor>>
  PROVE  NoteInv'
<1> DEFINE n == Len(queries) + 1
<1>1. queries \in Seq(Query) /\ told \in Seq(Nat) /\ Len(told) = Len(queries)
      /\ Len(q.targets) \in Nat
  BY DEF PoolInv, PoolTypes, NoteInv
<1>2. /\ QueryIndices' = QueryIndices \cup {n} /\ n \notin QueryIndices
      /\ queries'[n] = q /\ \A i \in QueryIndices : queries'[i] = queries[i]
      /\ Len(queries') = Len(queries) + 1
  BY <1>1 DEF QueryIndices
<1>3. /\ told' \in Seq(Nat) /\ Len(told') = Len(told) + 1 /\ told'[n] = 0
      /\ \A i \in QueryIndices : told'[i] = told[i]
  BY <1>1 DEF QueryIndices
<1> HIDE DEF n
<1>4. \A i : IsNextNotified(i)' = IsNextNotified(i)
  BY DEF IsNextNotified
<1>5. ASSUME NEW i \in QueryIndices'
      PROVE  /\ told'[i] <= Len(queries'[i].targets)
             /\ told'[i] > 0 => ~IsOpen(i)'
             /\ i \in notificationQueue' =>
                  ~IsOpen(i)' /\ told'[i] = IF IsNextNotified(i)' THEN notificationCursor' ELSE 0
  <2>1. CASE i = n
    <3>1. i \notin notificationQueue
      BY <1>2, <2>1 DEF NoteInv
    <3>2. told'[i] = 0 /\ queries'[i].targets = q.targets
      BY <1>2, <1>3, <2>1
    <3>3. told'[i] <= Len(queries'[i].targets) /\ ~(told'[i] > 0)
      BY ONLY <1>1, <3>2
    <3>4. i \notin notificationQueue'
      BY <3>1
    <3> QED
      BY ONLY <3>3, <3>4
  <2>2. CASE i # n
    <3>1. i \in QueryIndices /\ queries'[i] = queries[i] /\ told'[i] = told[i]
      BY <1>2, <1>3, <2>2
    <3>2. IsOpen(i)' = IsOpen(i)
      BY <3>1 DEF IsOpen
    <3> QED
      BY <1>4, <3>1, <3>2 DEF NoteInv, ToldAtMostOnce
  <2> QED
    BY <2>1, <2>2
<1>6. ToldAtMostOnce'
  BY <1>5 DEF ToldAtMostOnce
<1>7. notificationQueue' \subseteq QueryIndices' /\ notificationCursor' \in Nat
  BY <1>2 DEF NoteInv
<1>8. notificationCursor' # 0 =>
        \E i \in QueryIndices' : IsNextNotified(i)' /\ notificationCursor' < Len(queries'[i].targets)
  BY <1>2, <1>4 DEF NoteInv
<1> QED
  BY <1>1, <1>2, <1>3, <1>6, <1>7, <1>8 DEF NoteInv

LEMMA NotesTold ==
  ASSUME PoolInv, NoteInv, NEW i \in QueryIndices, GetNotification(i)
  PROVE  NoteInv'
<1> DEFINE last == notificationCursor + 1 = Len(queries[i].targets)
<1>1. /\ IsNextNotified(i) /\ notificationCursor < Len(queries[i].targets)
      /\ told' = [told EXCEPT ![i] = @ + 1]
      /\ notificationCursor' = (IF last THEN 0 ELSE notificationCursor + 1)
      /\ notificationQueue' = (IF last THEN notificationQueue \ {i} ELSE notificationQueue)
      /\ queries' = queries
  BY DEF GetNotification
<1>2. /\ told \in Seq(Nat) /\ Len(told) = Len(queries) /\ notificationCursor \in Nat
      /\ notificationQueue \subseteq QueryIndices
      /\ \A j \in QueryIndices : told[j] \in Nat /\ Len(queries[j].targets) \in Nat
      /\ DOMAIN told = QueryIndices /\ QueryIndices' = QueryIndices
      /\ QueryIndices \subseteq Nat
  BY <1>1, NoteFacts, PoolFacts DEF NoteInv, QueryIndices
<1>3. told' \in Seq(Nat) /\ Len(told') = Len(told)
      /\ told'[i] = told[i] + 1 /\ \A j \in QueryIndices : j # i => told'[j] = told[j]
  BY <1>1, <1>2
<1>4. /\ i \in notificationQueue /\ told[i] = notificationCursor /\ ~IsOpen(i)
      /\ \A j \in notificationQueue : i <= j
  BY <1>1 DEF NoteInv, ToldAtMostOnce, IsNextNotified
<1>5. \A j \in notificationQueue : j # i => ~IsOpen(j) /\ told[j] = 0
  <2> SUFFICES ASSUME NEW j \in notificationQueue, j # i
               PROVE  ~IsOpen(j) /\ told[j] = 0
    OBVIOUS
  <2>1. ~IsNextNotified(j) /\ j \in QueryIndices
    BY <1>2, <1>4 DEF IsNextNotified
  <2> QED
    BY <2>1 DEF NoteInv, ToldAtMostOnce
<1>6. \A j \in QueryIndices : told[j] <= Len(queries[j].targets) /\ (told[j] > 0 => ~IsOpen(j))
  BY DEF NoteInv, ToldAtMostOnce
<1>7. \A j : IsOpen(j)' = IsOpen(j)
  BY <1>1 DEF IsOpen
<1>8. notificationCursor' \in Nat /\ notificationQueue' \subseteq QueryIndices'
  BY <1>1, <1>2
<1>9. notificationCursor' # 0 =>
        /\ IsNextNotified(i)' /\ notificationCursor' < Len(queries'[i].targets)
        /\ notificationQueue' = notificationQueue /\ notificationCursor' = notificationCursor + 1
  BY <1>1, <1>2, <1>4 DEF IsNextNotified
<1>10. notificationCursor' = 0 => notificationQueue' = notificationQueue \ {i}
  BY <1>1, <1>2
<1>11. ASSUME NEW j \in QueryIndices
       PROVE  /\ told'[j] <= Len(queries'[j].targets)
              /\ told'[j] > 0 => ~IsOpen(j)'
              /\ j \in notificationQueue' =>
                   ~IsOpen(j)' /\ told'[j] = IF IsNextNotified(j)' THEN notificationCursor' ELSE 0
  <2>1. told'[j] <= Len(queries'[j].targets) /\ (told'[j] > 0 => ~IsOpen(j)')
    BY <1>1, <1>2, <1>3, <1>4, <1>6, <1>7
  <2>2. ASSUME j \in notificationQueue'
        PROVE  ~IsOpen(j)' /\ told'[j] = IF IsNextNotified(j)' THEN notificationCursor' ELSE 0
    <3>1. CASE notificationCursor' = 0
      BY <1>3, <1>5, <1>7, <1>10, <2>2, <3>1
    <3>2. CASE notificationCursor' # 0
      <4>1. CASE j = i
        BY <1>3, <1>4, <1>7, <1>9, <3>2, <4>1
      <4>2. CASE j # i
        <5>1. ~IsNextNotified(j)'
          BY <1>2, <1>4, <1>9, <2>2, <3>2, <4>2 DEF IsNextNotified
        <5> QED
          BY <1>3, <1>5, <1>7, <1>9, <2>2, <3>2, <4>2, <5>1
      <4> QED
        BY <4>1, <4>2
    <3> QED
      BY <3>1, <3>2
  <2> QED
    BY <2>1, <2>2
<1>12. ToldAtMostOnce'
  BY <1>2, <1>11 DEF ToldAtMostOnce
<1> QED
  BY <1>1, <1>2, <1>3, <1>8, <1>9, <1>12 DEF NoteInv

(***************************************************************************)
(* The engine: the inductive invariant of the query pool, and the methods. *)
(***************************************************************************)

EngineInv ==
  /\ PoolInv /\ IdInv /\ NoteInv
  /\ queryStorageBytesUsed \in 0 .. StorageSize /\ replyStatesIndex \in Slots

\* Every query that stays is moved as a method may move it.
Orderly == \A i \in DOMAIN queries \cap DOMAIN queries' : Moved(i, queries'[i])

LEMMA SteadyIsOrderly == Steady => Orderly
BY DEF Steady, Orderly, QueryIndices

\* The invariant is the pool's consistency check.
LEMMA EngineAgrees == EngineInv => PoolsAgree
<1> SUFFICES ASSUME EngineInv PROVE PoolsAgree
  OBVIOUS
<1>1. PoolInv /\ IdInv /\ NoteInv /\ IdsGrow /\ ToldAtMostOnce
  BY DEF EngineInv, IdInv, NoteInv
<1>2. TypeOK
  BY <1>1 DEF EngineInv, PoolInv, PoolTypes, IdInv, IdTypes, NoteInv, TypeOK, AnyReplyState
<1>3. pendingQueryIndices = {i \in QueryIndices : IsOpen(i)}
  BY <1>1 DEF PoolInv, PoolTypes
<1>4. \A i \in pendingQueryIndices : replyStates[queries[i].slot].query = i
  BY <1>1, <1>3 DEF PoolInv, OwnSlots
<1>5. \A s \in Slots : replyStates[s].query # 0 =>
        replyStates[s].query \in pendingQueryIndices /\ queries[replyStates[s].query].slot = s
  BY <1>1, <1>3 DEF PoolInv, OwnSlots
<1>6. pendingRevealReplyStateIndices =
        {queries[i].slot : i \in {j \in QueryIndices : queries[j].status = "COMMITTED"}}
  <2>1. ASSUME NEW s \in pendingRevealReplyStateIndices
        PROVE  \E i \in QueryIndices : queries[i].status = "COMMITTED" /\ queries[i].slot = s
    <3>1. s \in Slots
      BY <1>1 DEF PoolInv, PoolTypes
    <3>2. replyStates[s].query # 0 /\ queries[replyStates[s].query].status = "COMMITTED"
      BY <1>1, <3>1 DEF PoolInv, WaitingSlots
    <3> QED
      BY <1>1, <3>1, <3>2 DEF PoolInv, OwnSlots
  <2>2. ASSUME NEW i \in QueryIndices, queries[i].status = "COMMITTED"
        PROVE  queries[i].slot \in pendingRevealReplyStateIndices
    <3>1. IsOpen(i)
      BY <2>2, StatusTypes DEF IsOpen
    <3> QED
      BY <1>1, <2>2, <3>1, OpenFacts
  <2> QED
    BY <2>1, <2>2
<1>7. pendingCommitReplyStateIndices =
        {s \in Slots : /\ replyStates[s].own # NoValue
                       /\ queries[replyStates[s].query].status = "PENDING"}
  BY <1>1 DEF PoolInv, PoolTypes, WaitingSlots
<1> QED
  BY <1>1, <1>2, <1>3, <1>4, <1>5, <1>6, <1>7 DEF PoolsAgree

\* A status says what the commits say.
LEMMA PoolFollowsCommits == PoolInv => StatusFollowsCommits
<1> SUFFICES ASSUME PoolInv PROVE StatusFollowsCommits
  OBVIOUS
<1>1. MostIsMost
  BY DEF PoolInv, CountsAreSound, MostOf, MostIsMost
<1>2. ASSUME NEW i \in QueryIndices
      PROVE  LET q == queries[i]  rs == replyStates[q.slot] IN
             /\ q.status = "PENDING" => /\ \A d \in Values : Votes(rs, d) < Quorum
                                        /\ \E d \in Values : Votes(rs, d) + N - TotalCommits(rs) >= Quorum
             /\ q.status = "COMMITTED" => HasQuorum(rs)
             /\ q.status = "UNRESOLVABLE" =>
                  /\ q.agreeing < Quorum
                  /\ "FAKE_COMMITS" \in q.flags \/ q.agreeing + N - q.total < Quorum
  <2> DEFINE q == queries[i]
             rs == replyStates[q.slot]
  <2>1. Sound(q, rs) /\ rs \in AnyReplyState /\ MostOf(rs)
    BY PoolFacts DEF PoolInv, CountsAreSound
  <2> HIDE DEF q, rs
  <2>2. ASSUME q.status = "PENDING"
        PROVE  /\ \A d \in Values : Votes(rs, d) < Quorum
               /\ \E d \in Values : Votes(rs, d) + N - TotalCommits(rs) >= Quorum
    <3>1. /\ N \in Nat /\ Quorum \in Nat /\ TotalCommits(rs) \in Nat /\ TotalCommits(rs) <= N
          /\ \A d \in Values \cup {NoValue} : Votes(rs, d) \in Nat
          /\ rs.most \in Values \cup {NoValue} /\ Quorum <= N
      BY <2>1, VotesTypes, ReplyStateTypes, QuorumIsReachable
    <3>2. Votes(rs, rs.most) < Quorum /\ ~(TotalCommits(rs) - Votes(rs, rs.most) > N - Quorum)
      BY <2>1, <2>2, <3>1 DEF Sound, HasQuorum, CannotAgree
    <3>3. \A d \in Values : Votes(rs, d) <= Votes(rs, rs.most)
      BY <2>1 DEF MostOf
    <3>4. \A d \in Values : Votes(rs, d) < Quorum
      BY <3>1, <3>2, <3>3
    <3>5. CASE rs.most \in Values
      BY <3>1, <3>2, <3>4, <3>5
    <3>6. CASE rs.most = NoValue
      <4>1. PICK d \in Values : TRUE
        BY OracleConstants
      <4>2. Votes(rs, rs.most) = 0
        BY <3>6 DEF Votes
      <4>3. Votes(rs, d) + N - TotalCommits(rs) >= Quorum
        BY <3>1, <3>2, <3>3, <4>2
      <4> QED
        BY <3>4, <4>3
    <3> QED
      BY <3>1, <3>5, <3>6
  <2> QED
    BY <2>1, <2>2 DEF Sound, q, rs
<1> QED
  BY <1>1, <1>2 DEF StatusFollowsCommits

\* What a method that starts no query and leaves the rest alone keeps.
LEMMA EngineSteady ==
  ASSUME EngineInv, PoolInv', Steady, tick' = tick, NoteInv',
         UNCHANGED <<queryStorageBytesUsed, contractQueryIdState, replyStatesIndex>>
  PROVE  EngineInv'
<1>1. tick \in Nat /\ tick' \in Nat /\ tick <= tick'
  BY DEF EngineInv, PoolInv, PoolTypes
<1>2. IdInv'
  BY <1>1, IdsKept DEF EngineInv
<1> QED
  BY <1>2 DEF EngineInv

LEMMA EngineFlag ==
  ASSUME EngineInv, NEW i \in QueryIndices, IsOpen(i), NEW flag \in Flags, Flag(i, flag),
         UNCHANGED clockVars
  PROVE  EngineInv' /\ Steady
<1>1. PoolInv' /\ Steady
  BY FlagKeeps DEF EngineInv
<1>2. NoteInv'
  BY <1>1, NotesKept DEF EngineInv, Flag
<1> QED
  BY <1>1, <1>2, EngineSteady DEF Flag, idVars, slotVars, clockVars

LEMMA EngineRejectReply ==
  ASSUME EngineInv, NEW i \in QueryIndices, RejectMachineReply(i)
  PROVE  EngineInv' /\ Steady
BY EngineFlag, StatusTypes DEF RejectMachineReply, IsOpen, Flags

LEMMA EngineRejectReveal ==
  ASSUME EngineInv, NEW i \in QueryIndices, RejectReveal(i)
  PROVE  EngineInv' /\ Steady
BY EngineFlag, StatusTypes DEF RejectReveal, IsOpen, Flags

LEMMA EngineMachineReply ==
  ASSUME EngineInv, NEW i \in QueryIndices, NEW value \in Values, ProcessOracleMachineReply(i, value)
  PROVE  EngineInv' /\ Steady
<1>1. PoolInv' /\ Steady
  BY MachineReplyKeeps DEF EngineInv
<1>2. /\ UNCHANGED <<queryStorageBytesUsed, idVars, replyStatesIndex, noteVars, clockVars>>
  BY DEF ProcessOracleMachineReply, Flag, slotVars
<1>3. NoteInv'
  BY <1>1, <1>2, NotesKept DEF EngineInv
<1> QED
  BY <1>1, <1>2, <1>3, EngineSteady DEF idVars, clockVars

LEMMA EngineCommit ==
  ASSUME EngineInv, notificationCursor = 0, NEW i \in QueryIndices, NEW c \in Computors,
         NEW commit \in Commit, ProcessCommit(c, i, commit)
  PROVE  EngineInv' /\ Steady /\ notificationCursor' = 0
<1> DEFINE rs == CountCommit(replyStates[queries[i].slot], c, commit)
<1>1. PoolInv' /\ Steady
  BY CommitKeeps DEF EngineInv
<1>2. UNCHANGED clockVars /\ IsOpen(i)
  BY DEF ProcessCommit, IsOpen
<1>3. CASE HasQuorum(rs) \/ ~CannotAgree(rs)
  <2>1. UNCHANGED <<queryStorageBytesUsed, idVars, replyStatesIndex, noteVars>>
    BY <1>3 DEF ProcessCommit
  <2>2. NoteInv'
    BY <1>1, <2>1, NotesKept DEF EngineInv
  <2> QED
    BY <1>1, <1>2, <2>1, <2>2, EngineSteady DEF idVars, clockVars, noteVars
<1>4. CASE ~HasQuorum(rs) /\ CannotAgree(rs)
  <2>1. /\ queries' = [queries EXCEPT ![i].status = "UNRESOLVABLE",
                         ![i].agreeing = Votes(rs, rs.most), ![i].total = TotalCommits(rs)]
        /\ ReleaseQueries({i})
    BY <1>4 DEF ProcessCommit
  <2>2. queries'[i].status = "UNRESOLVABLE"
    <3>1. queries \in Seq(Query) /\ i \in DOMAIN queries /\ queries[i] \in Query
      BY PoolFacts DEF EngineInv, PoolInv, PoolTypes, QueryIndices
    <3> HIDE DEF rs
    <3> QED
      BY <2>1, <3>1 DEF Query
  <2>3. ~IsOpen(i)'
    BY <2>2, StatusTypes DEF IsOpen
  <2>4. /\ Enqueue({i}) /\ UNCHANGED <<queryStorageBytesUsed, idVars, replyStatesIndex>>
        /\ UNCHANGED <<notificationCursor, told>>
    BY <2>1 DEF ReleaseQueries
  <2>5. NoteInv'
    BY <1>1, <1>2, <2>3, <2>4, NotesQueued DEF EngineInv
  <2> QED
    BY <1>1, <1>2, <2>4, <2>5, EngineSteady DEF idVars, clockVars
<1> QED
  BY <1>3, <1>4

LEMMA EngineReveal ==
  ASSUME EngineInv, notificationCursor = 0, NEW i \in QueryIndices, NEW value \in Values,
         ProcessReveal(i, value)
  PROVE  EngineInv' /\ Steady /\ notificationCursor' = 0 /\ ~IsOpen(i)'
<1>1. PoolInv' /\ Steady
  BY RevealKeeps DEF EngineInv
<1>2. UNCHANGED clockVars /\ IsOpen(i) /\ RevealInOrder(i, value)
  BY StatusTypes DEF ProcessReveal, RevealInOrder, IsOpen
<1>3. queries'[i] = Revealed(i, value)
  <2>1. i \in DOMAIN queries
    BY DEF QueryIndices
  <2> QED
    BY <2>1 DEF ProcessReveal, EngineInv, PoolInv, PoolTypes
<1>4. ~IsOpen(i)'
  <2>1. Revealed(i, value).status \in {"UNRESOLVABLE", "SUCCESS"}
    BY <1>2, RevealedTypes DEF EngineInv
  <2> QED
    BY <1>3, <2>1, StatusTypes DEF IsOpen
<1>5. /\ Enqueue({i}) /\ UNCHANGED <<queryStorageBytesUsed, idVars, replyStatesIndex>>
      /\ UNCHANGED <<notificationCursor, told>>
  BY DEF ProcessReveal, ReleaseQueries
<1>6. NoteInv'
  BY <1>1, <1>2, <1>4, <1>5, NotesQueued DEF EngineInv
<1> QED
  BY <1>1, <1>2, <1>4, <1>5, <1>6, EngineSteady DEF idVars, clockVars

LEMMA EngineTimeouts ==
  ASSUME EngineInv, notificationCursor = 0, ProcessTimeouts
  PROVE  EngineInv' /\ Steady /\ notificationCursor' = 0
<1>1. PoolInv' /\ Steady
  BY TimeoutsKeep DEF EngineInv
<1>2. Expired \in SUBSET QueryIndices /\ \A i \in Expired : IsOpen(i)
  BY DEF Expired, EngineInv, PoolInv, PoolTypes
<1>3. \A i \in Expired : ~IsOpen(i)'
  <2> SUFFICES ASSUME NEW i \in Expired PROVE ~IsOpen(i)'
    OBVIOUS
  <2>1. queries'[i] = TimedOut(i)
    BY <1>2 DEF ProcessTimeouts
  <2>2. TimedOut(i).status = "TIMEOUT"
    BY <1>2, TimedOutTypes DEF EngineInv
  <2> QED
    BY <2>1, <2>2, StatusTypes DEF IsOpen
<1>4. /\ Enqueue(Expired) /\ UNCHANGED <<queryStorageBytesUsed, idVars, replyStatesIndex>>
      /\ UNCHANGED <<notificationCursor, told>> /\ UNCHANGED clockVars
  BY DEF ProcessTimeouts, ReleaseQueries
<1>5. NoteInv'
  BY <1>1, <1>2, <1>3, <1>4, NotesQueued DEF EngineInv
<1> QED
  BY <1>1, <1>4, <1>5, EngineSteady DEF idVars, clockVars

LEMMA EngineNotification ==
  ASSUME EngineInv, NEW i \in QueryIndices, GetNotification(i)
  PROVE  EngineInv' /\ Steady
<1>1. UNCHANGED <<clockVars, queries, queryStorageBytesUsed, idVars, slotVars, poolVars>>
  BY DEF GetNotification
<1>2. Steady
  BY <1>1, StaysMoved DEF Steady, QueryIndices
<1>3. PoolInv'
  BY <1>1 DEF EngineInv, PoolInv, PoolTypes, OwnSlots, WaitingSlots, CountsAreSound, clockVars,
              slotVars, poolVars, QueryIndices, IsOpen
<1>4. NoteInv'
  BY NotesTold DEF EngineInv
<1> QED
  BY <1>1, <1>2, <1>3, <1>4, EngineSteady DEF clockVars, idVars, slotVars

LEMMA EngineUnchanged ==
  ASSUME EngineInv, UNCHANGED engineVars, tick' \in Nat, now' \in Nat, tick <= tick'
  PROVE  EngineInv' /\ Steady
<1>1. UNCHANGED <<queries, queryStorageBytesUsed, contractQueryIdState, replyStates,
                  replyStatesIndex, poolVars, noteVars>>
  BY DEF engineVars, idVars, slotVars
<1>2. Steady
  BY <1>1, StaysMoved DEF Steady, QueryIndices
<1>3. PoolInv'
  BY <1>1 DEF EngineInv, PoolInv, PoolTypes, OwnSlots, WaitingSlots, CountsAreSound,
              poolVars, QueryIndices, IsOpen
<1>4. NoteInv'
  BY <1>1, <1>2, <1>3, NotesKept DEF EngineInv
<1>5. IdInv'
  <2>1. tick \in Nat
    BY DEF EngineInv, PoolInv, PoolTypes
  <2> QED
    BY <1>1, <1>2, <2>1, IdsKept DEF EngineInv
<1> QED
  BY <1>1, <1>2, <1>3, <1>4, <1>5 DEF EngineInv

LEMMA EngineNextTick ==
  ASSUME EngineInv, NextTick
  PROVE  EngineInv' /\ Steady
<1>1. tick \in Nat /\ now \in Nat
  BY DEF EngineInv, PoolInv, PoolTypes
<1>2. tick' \in Nat /\ now' \in Nat /\ tick <= tick'
  BY <1>1, OracleConstants DEF NextTick
<1> QED
  BY <1>2, EngineUnchanged DEF NextTick

\* An engine without queries.
LEMMA EngineEmpty == tick \in Nat /\ now \in Nat /\ EmptyEngine => EngineInv
<1> SUFFICES ASSUME tick \in Nat, now \in Nat, EmptyEngine PROVE EngineInv
  OBVIOUS
<1>1. QueryIndices = {} /\ queries \in Seq(Query) /\ told \in Seq(Nat) /\ Len(told) = Len(queries)
  BY DEF EmptyEngine, QueryIndices
<1>2. replyStates \in [Slots -> AnyReplyState] /\ \A s \in Slots : replyStates[s] = Free
  BY DEF EmptyEngine, AnyReplyState
<1>3. PoolInv
  <2>1. PoolTypes
    BY <1>1, <1>2 DEF EmptyEngine, PoolTypes
  <2>2. Free.query = 0 /\ Free.own = NoValue
    BY DEF Free
  <2> QED
    BY <1>1, <1>2, <2>1, <2>2, FreeHasNoVotes
       DEF EmptyEngine, PoolInv, OwnSlots, WaitingSlots, CountsAreSound
<1>4. IdInv
  BY <1>1, OracleConstants DEF EmptyEngine, IdInv, IdTypes, IdsGrow
<1>5. NoteInv
  BY <1>1 DEF EmptyEngine, NoteInv, ToldAtMostOnce
<1> QED
  BY <1>3, <1>4, <1>5, OracleConstants DEF EngineInv, EmptyEngine, Slots

LEMMA EngineReset ==
  ASSUME EngineInv, BeginEpoch
  PROVE  EngineInv' /\ Orderly /\ notificationCursor' = 0 /\ QueryIndices' = {} /\ queries' = << >>
<1>1. (tick \in Nat /\ now \in Nat)'
  BY DEF EngineInv, PoolInv, PoolTypes, BeginEpoch, clockVars
<1>2. EmptyEngine'
  BY DEF BeginEpoch, ResetEngine, EmptyEngine
<1>3. EngineInv'
  BY <1>1, <1>2, EngineEmpty, PTL
<1>4. DOMAIN queries' = {} /\ queries' = << >> /\ notificationCursor' = 0
  BY <1>2 DEF EmptyEngine
<1> QED
  BY <1>3, <1>4 DEF Orderly, QueryIndices

\* A query that the engine takes.
LEMMA EngineStart ==
  ASSUME EngineInv, UNCHANGED clockVars, TakeQueryId, ~IdsExhausted,
         NEW subscription \in Nat, NEW targets \in Seq(Contracts), NEW timeout \in Int,
         NEW bytes \in Nat, ~Refuses(bytes), StartQuery(subscription, targets, timeout, bytes)
  PROVE  /\ EngineInv' /\ Orderly
         /\ \E q \in Query : /\ queries' = Append(queries, q) /\ q.targets = targets
                             /\ q.subscription = subscription /\ q.timeout = timeout
                             /\ q.id[1] = tick /\ q.status = "PENDING"
<1>1. PICK s \in Slots :
        /\ queries' = Append(queries,
             [id |-> <<tick, NextIndexInTick>>, subscription |-> subscription,
              targets |-> targets, status |-> "PENDING", flags |-> {},
              timeout |-> timeout, slot |-> s, value |-> NoValue,
              agreeing |-> 0, total |-> 0])
        /\ queryStorageBytesUsed' = queryStorageBytesUsed + bytes
        /\ replyStatesIndex' = s /\ told' = Append(told, 0)
        /\ UNCHANGED <<notificationQueue, notificationCursor>>
  BY DEF StartQuery
<1> DEFINE q == [id |-> <<tick, NextIndexInTick>>, subscription |-> subscription,
                 targets |-> targets, status |-> "PENDING", flags |-> {},
                 timeout |-> timeout, slot |-> s, value |-> NoValue,
                 agreeing |-> 0, total |-> 0]
<1>2. tick \in Nat /\ queries \in Seq(Query) /\ NextIndexInTick \in Nat
  BY NextIndexTypes DEF EngineInv, PoolInv, PoolTypes, IdInv
<1>3. /\ q \in Query /\ q.status = "PENDING" /\ q.targets = targets /\ q.timeout = timeout
      /\ q.subscription = subscription /\ q.id = <<tick, NextIndexInTick>> /\ q.id[1] = tick
  <2>1. {} \in SUBSET Flags /\ "PENDING" \in Open \cup Closed /\ 0 \in Nat
    BY StatusTypes
  <2>2. <<tick, NextIndexInTick>> \in Nat \X Nat
    BY <1>2
  <2> HIDE DEF NextIndexInTick
  <2> QED
    BY <2>1, <2>2 DEF Query
<1>4. queries' = Append(queries, q)
  BY <1>1
<1> HIDE DEF q
<1>5. PoolInv'
  BY <1>2, StartKeeps DEF EngineInv
<1>6. queries' \in Seq(Query)
  BY <1>5 DEF PoolInv, PoolTypes
<1>7. IdInv'
  BY <1>2, <1>3, <1>4, <1>6, IdStarted DEF EngineInv
<1>8. NoteInv'
  BY <1>1, <1>3, <1>4, <1>5, NotesStarted DEF EngineInv
<1>9. queryStorageBytesUsed' \in 0 .. StorageSize
  <2>1. queryStorageBytesUsed \in 0 .. StorageSize /\ ~(queryStorageBytesUsed + bytes > StorageSize)
    BY DEF EngineInv, Refuses, PoolFull
  <2> QED
    BY <1>1, <2>1, OracleConstants
<1>10. Orderly
  <2>1. \A i \in DOMAIN queries : queries'[i] = queries[i]
    BY <1>2, <1>4
  <2> QED
    BY <2>1, StaysMoved DEF Orderly
<1> QED
  BY <1>1, <1>3, <1>4, <1>5, <1>7, <1>8, <1>9, <1>10 DEF EngineInv

\* A query that is refused leaves at most a used-up id.
LEMMA EngineRefused ==
  ASSUME EngineInv, UNCHANGED clockVars, TakeQueryId,
         UNCHANGED <<queries, queryStorageBytesUsed, slotVars, poolVars, noteVars>>
  PROVE  EngineInv' /\ Steady
<1>1. Steady
  BY StaysMoved DEF Steady, QueryIndices
<1>2. PoolInv'
  BY DEF EngineInv, PoolInv, PoolTypes, OwnSlots, WaitingSlots, CountsAreSound, clockVars,
         slotVars, poolVars, QueryIndices, IsOpen
<1>3. IdInv'
  BY IdTaken DEF EngineInv
<1>4. NoteInv'
  BY <1>1, <1>2, NotesKept DEF EngineInv
<1> QED
  BY <1>1, <1>2, <1>3, <1>4 DEF EngineInv, slotVars

LEMMA EngineContractQuery ==
  ASSUME EngineInv, NEW c \in Contracts, NEW t \in Timeouts, StartContractQuery(c, t)
  PROVE  /\ EngineInv' /\ Orderly
         /\ \/ Steady /\ queries' = queries
            \/ \E q \in Query : /\ queries' = Append(queries, q) /\ q.targets = <<c>>
                                /\ q.subscription = 0 /\ q.id[1] = tick /\ q.status = "PENDING"
<1>1. TakeQueryId /\ UNCHANGED clockVars
  BY DEF StartContractQuery
<1>2. CASE IdsExhausted \/ Refuses(QuerySize)
  BY <1>1, <1>2, EngineRefused, SteadyIsOrderly DEF StartContractQuery
<1>3. CASE ~(IdsExhausted \/ Refuses(QuerySize))
  <2> DEFINE deadline == now + t
             targets == <<c>>
  <2>1. StartQuery(0, targets, deadline, QuerySize) /\ ~Refuses(QuerySize) /\ ~IdsExhausted
    BY <1>3 DEF StartContractQuery
  <2>2. deadline \in Int /\ targets \in Seq(Contracts) /\ QuerySize \in Nat /\ 0 \in Nat
    BY OracleConstants DEF EngineInv, PoolInv, PoolTypes
  <2> HIDE DEF deadline, targets
  <2>3. /\ EngineInv' /\ Orderly
        /\ \E q \in Query : /\ queries' = Append(queries, q) /\ q.targets = targets
                            /\ q.subscription = 0 /\ q.timeout = deadline
                            /\ q.id[1] = tick /\ q.status = "PENDING"
    BY <1>1, <2>1, <2>2, EngineStart
  <2> QED
    BY <2>3 DEF targets
<1> QED
  BY <1>2, <1>3

(***************************************************************************)
(* The methods in any order.                                               *)
(***************************************************************************)

\* Every query asks for one contract, so the cursor never leaves 0.
MethodsInv ==
  EngineInv /\ notificationCursor = 0 /\ \A i \in QueryIndices : Len(queries[i].targets) = 1

LEMMA MethodsInit == InitQueries => MethodsInv
<1> SUFFICES ASSUME InitQueries PROVE MethodsInv
  OBVIOUS
<1>1. EngineInv
  BY EngineEmpty DEF InitQueries
<1>2. QueryIndices = {} /\ notificationCursor = 0
  BY DEF InitQueries, EmptyEngine, QueryIndices
<1> QED
  BY <1>1, <1>2 DEF MethodsInv

LEMMA SteadyTargets ==
  ASSUME Steady, \A i \in QueryIndices : Len(queries[i].targets) = 1
  PROVE  \A i \in QueryIndices' : Len(queries'[i].targets) = 1
BY DEF Steady, Moved

LEMMA MethodsStep == MethodsInv /\ [Next]_queryVars => MethodsInv' /\ Orderly
<1> SUFFICES ASSUME MethodsInv, [Next]_queryVars PROVE MethodsInv' /\ Orderly
  OBVIOUS
<1>0. EngineInv /\ notificationCursor = 0 /\ \A i \in QueryIndices : Len(queries[i].targets) = 1
  BY DEF MethodsInv
<1>1. ASSUME EngineInv', Steady, notificationCursor' = 0
      PROVE  MethodsInv' /\ Orderly
  BY <1>0, <1>1, SteadyTargets, SteadyIsOrderly DEF MethodsInv
<1>2. ASSUME NEW c \in Contracts, NEW t \in Timeouts, StartContractQuery(c, t)
      PROVE  MethodsInv' /\ Orderly
  <2>1. /\ EngineInv' /\ Orderly
        /\ \/ Steady /\ queries' = queries
           \/ \E q \in Query : queries' = Append(queries, q) /\ q.targets = <<c>>
    BY <1>0, <1>2, EngineContractQuery
  <2>2. notificationCursor' = 0
    BY <1>0, <1>2 DEF StartContractQuery, StartQuery, noteVars
  <2>3. CASE Steady
    BY <1>1, <2>1, <2>2, <2>3
  <2>4. ASSUME NEW q \in Query, queries' = Append(queries, q), q.targets = <<c>>
        PROVE  \A i \in QueryIndices' : Len(queries'[i].targets) = 1
    <3>1. queries \in Seq(Query)
      BY <1>0 DEF EngineInv, PoolInv, PoolTypes
    <3>2. \A i \in QueryIndices' : queries'[i] = q \/ (i \in QueryIndices /\ queries'[i] = queries[i])
      BY <2>4, <3>1 DEF QueryIndices
    <3>3. Len(q.targets) = 1
      BY <2>4
    <3> QED
      BY <1>0, <3>2, <3>3
  <2> QED
    BY <2>1, <2>2, <2>3, <2>4 DEF MethodsInv
<1>3. ASSUME NEW i \in QueryIndices, RejectMachineReply(i) PROVE MethodsInv' /\ Orderly
  <2>1. notificationCursor' = 0
    BY <1>0, <1>3 DEF RejectMachineReply, Flag, noteVars
  <2> QED
    BY <1>0, <1>1, <1>3, <2>1, EngineRejectReply
<1>4. ASSUME NEW i \in QueryIndices, NEW v \in Values, ProcessOracleMachineReply(i, v)
      PROVE  MethodsInv' /\ Orderly
  <2>1. notificationCursor' = 0
    BY <1>0, <1>4 DEF ProcessOracleMachineReply, Flag, noteVars
  <2> QED
    BY <1>0, <1>1, <1>4, <2>1, EngineMachineReply
<1>5. ASSUME NEW i \in QueryIndices, NEW c \in Computors, NEW commit \in Commit,
             ProcessCommit(c, i, commit)
      PROVE  MethodsInv' /\ Orderly
  BY <1>0, <1>1, <1>5, EngineCommit
<1>6. ASSUME NEW i \in QueryIndices, RejectReveal(i) PROVE MethodsInv' /\ Orderly
  <2>1. notificationCursor' = 0
    BY <1>0, <1>6 DEF RejectReveal, Flag, noteVars
  <2> QED
    BY <1>0, <1>1, <1>6, <2>1, EngineRejectReveal
<1>7. ASSUME NEW i \in QueryIndices, NEW v \in Values, ProcessReveal(i, v)
      PROVE  MethodsInv' /\ Orderly
  BY <1>0, <1>1, <1>7, EngineReveal
<1>8. ASSUME NEW i \in QueryIndices, GetNotification(i) PROVE MethodsInv' /\ Orderly
  <2>1. notificationCursor' = 0
    BY <1>0, <1>8 DEF GetNotification
  <2> QED
    BY <1>0, <1>1, <1>8, <2>1, EngineNotification
<1>9. CASE ProcessTimeouts
  BY <1>0, <1>1, <1>9, EngineTimeouts
<1>10. CASE NextTick
  <2>1. notificationCursor' = 0
    BY <1>0, <1>10 DEF NextTick, engineVars, noteVars
  <2> QED
    BY <1>0, <1>1, <1>10, <2>1, EngineNextTick
<1>11. CASE BeginEpoch
  BY <1>0, <1>11, EngineReset DEF MethodsInv
<1>12. CASE UNCHANGED queryVars
  <2>1. UNCHANGED engineVars /\ tick' = tick /\ now' = now /\ notificationCursor' = 0
    BY <1>0, <1>12 DEF queryVars, clockVars, engineVars, noteVars
  <2>2. tick' \in Nat /\ now' \in Nat /\ tick <= tick'
    BY <1>0, <2>1 DEF EngineInv, PoolInv, PoolTypes
  <2> QED
    BY <1>0, <1>1, <2>1, <2>2, EngineUnchanged
<1> QED
  BY <1>2, <1>3, <1>4, <1>5, <1>6, <1>7, <1>8, <1>9, <1>10, <1>11, <1>12 DEF Next

\* In whatever order the methods are called, the pool's tables agree.
THEOREM MethodsAgree == Spec => []PoolsAgree
<1>1. MethodsInv => PoolsAgree
  BY EngineAgrees DEF MethodsInv
<1> QED
  BY <1>1, MethodsInit, MethodsStep, PTL DEF Spec

\* In whatever order the computors commit, and replies and reveals arrive, the
\* histogram is right and a query's status says what its commits say.
THEOREM MethodsFollowCommits == Spec => []StatusFollowsCommits
<1>1. MethodsInv => StatusFollowsCommits
  BY PoolFollowsCommits DEF MethodsInv, EngineInv
<1> QED
  BY <1>1, MethodsInit, MethodsStep, PTL DEF Spec

ConfirmedStep ==
  \A i \in DOMAIN queries \cap DOMAIN queries' :
    queries[i].status # "SUCCESS" /\ queries'[i].status = "SUCCESS" =>
      Cardinality({c \in Computors :
        replyStates[queries[i].slot].commits[c] =
          [digest |-> queries'[i].value, honest |-> TRUE]}) >= Quorum

LEMMA OrderlyIsConfirmed == Orderly => ConfirmedStep
<1> SUFFICES ASSUME Orderly, NEW i \in DOMAIN queries \cap DOMAIN queries',
                    queries[i].status # "SUCCESS", queries'[i].status = "SUCCESS"
             PROVE  CorrectCommits(replyStates[queries[i].slot], queries'[i].value) >= Quorum
  BY DEF ConfirmedStep, CorrectCommits
<1>1. Moved(i, queries'[i])
  BY DEF Orderly
<1> QED
  BY <1>1 DEF Moved

\* A query succeeds with a value only when a quorum of computors had committed to
\* that value, and had known it.
THEOREM MethodsConfirm == Spec => SuccessIsConfirmed
<1>1. SuccessIsConfirmed <=> [][ConfirmedStep]_queryVars
  BY DEF SuccessIsConfirmed, ConfirmedStep
<1>2. MethodsInv /\ [Next]_queryVars => [ConfirmedStep]_queryVars
  BY MethodsStep, OrderlyIsConfirmed
<1> QED
  BY <1>1, <1>2, MethodsInit, MethodsStep, PTL DEF Spec

FinalStep ==
  \A i \in DOMAIN queries \cap DOMAIN queries' :
    /\ queries[i].status \in Closed => queries'[i] = queries[i]
    /\ queries[i].status = "COMMITTED" => queries'[i].status # "PENDING"

LEMMA OrderlyIsFinal == Orderly => FinalStep
<1> SUFFICES ASSUME Orderly, NEW i \in DOMAIN queries \cap DOMAIN queries'
             PROVE  /\ queries[i].status \in Closed => queries'[i] = queries[i]
                    /\ queries[i].status = "COMMITTED" => queries'[i].status # "PENDING"
  BY DEF FinalStep
<1>1. Moved(i, queries'[i])
  BY DEF Orderly
<1>2. queries[i].status \in Closed => ~IsOpen(i)
  BY DEF IsOpen, Open, Closed
<1> QED
  BY <1>1, <1>2 DEF Moved

\* In whatever order the methods are called, a finished query never changes and a
\* committed one never falls back.
THEOREM MethodsFinal == Spec => FinishedIsFinal
<1>1. FinishedIsFinal <=> [][FinalStep]_queryVars
  BY DEF FinishedIsFinal, FinalStep
<1>2. MethodsInv /\ [Next]_queryVars => [FinalStep]_queryVars
  BY MethodsStep, OrderlyIsFinal
<1> QED
  BY <1>1, <1>2, MethodsInit, MethodsStep, PTL DEF Spec

(***************************************************************************)
(* Part two: the engine inside the tick.                                   *)
(***************************************************************************)

(***************************************************************************)
(* Sorted lists of subscribers.                                            *)
(***************************************************************************)

LEMMA LeastNat ==
  ASSUME NEW S \in SUBSET Nat, S # {}
  PROVE  \E m \in S : \A k \in S : m <= k
<1> SUFFICES ASSUME ~\E m \in S : \A k \in S : m <= k PROVE FALSE
  OBVIOUS
<1> DEFINE Q == {n \in Nat : \A k \in S : n < k}
<1>1. \A n \in Nat : (\A k \in S : n <= k) => n \in Q
  BY DEF Q
<1>2. 0 \in Q
  BY <1>1
<1>3. \A n \in Q : n + 1 \in Q
  BY <1>1
<1>4. Q = Nat
  BY <1>2, <1>3, NatSetInduction
<1>5. PICK k \in S : TRUE
  OBVIOUS
<1> QED
  BY <1>4, <1>5

\* The list r is `list` with e put in at place p.
HasInserted(S, list, p, e, r) ==
  /\ r \in Seq(S) /\ Len(r) = Len(list) + 1
  /\ \A j \in 1 .. Len(list) + 1 :
       r[j] = IF j < p THEN list[j] ELSE IF j = p THEN e ELSE list[j - 1]

LEMMA InsertAtFacts ==
  ASSUME NEW S, NEW list \in Seq(S), NEW p \in 1 .. Len(list) + 1, NEW e \in S
  PROVE  HasInserted(S, list, p, e, InsertAt(list, p, e))
<1> DEFINE n == Len(list)
           a == SubSeq(list, 1, p - 1)
           b == SubSeq(list, p, n)
           r == InsertAt(list, p, e)
<1>1. n \in Nat /\ p \in Int /\ 1 <= p /\ p <= n + 1
  OBVIOUS
<1>2. a \in Seq(S) /\ Len(a) = p - 1 /\ \A j \in 1 .. p - 1 : a[j] = list[j]
  BY <1>1, SubSeqProperties
<1>3. b \in Seq(S) /\ Len(b) = n - p + 1 /\ \A j \in 1 .. n - p + 1 : b[j] = list[p + j - 1]
  BY <1>1, SubSeqProperties
<1>4. r = (a \o <<e>>) \o b
  BY DEF InsertAt
<1> HIDE DEF a, b, r, n
<1> DEFINE c == a \o <<e>>
<1>5. /\ c \in Seq(S) /\ Len(c) = p /\ c[p] = e /\ \A j \in 1 .. p - 1 : c[j] = list[j]
  BY <1>1, <1>2
<1>6. r = c \o b
  BY <1>4
<1> HIDE DEF c
<1>7. /\ r \in Seq(S) /\ Len(r) = n + 1
      /\ \A j \in 1 .. n + 1 : r[j] = IF j <= p THEN c[j] ELSE b[j - p]
  <2>1. /\ c \o b \in Seq(S) /\ Len(c \o b) = Len(c) + Len(b)
        /\ \A j \in 1 .. Len(c) + Len(b) :
             (c \o b)[j] = IF j <= Len(c) THEN c[j] ELSE b[j - Len(c)]
    BY <1>3, <1>5, ConcatProperties
  <2>2. Len(c) = p /\ Len(c) + Len(b) = n + 1
    BY <1>1, <1>3, <1>5
  <2> QED
    BY <1>6, <2>1, <2>2
<1>8. ASSUME NEW j \in 1 .. n + 1
      PROVE  r[j] = IF j < p THEN list[j] ELSE IF j = p THEN e ELSE list[j - 1]
  <2>1. CASE j < p
    BY <1>1, <1>5, <1>7, <2>1
  <2>2. CASE j = p
    BY <1>1, <1>5, <1>7, <2>2
  <2>3. CASE j > p
    <3>1. j - p \in 1 .. n - p + 1 /\ p + (j - p) - 1 = j - 1
      BY <1>1, <2>3
    <3>2. r[j] = b[j - p]
      BY <1>1, <1>7, <2>3
    <3>3. b[j - p] = list[p + (j - p) - 1]
      BY <1>3, <3>1
    <3> QED
      BY <1>1, <2>3, <3>1, <3>2, <3>3
  <2> QED
    BY <1>1, <2>1, <2>2, <2>3
<1> QED
  BY <1>7, <1>8 DEF HasInserted, n, r

LEMMA RemoveAtFacts ==
  ASSUME NEW S, NEW list \in Seq(S), NEW p \in 1 .. Len(list)
  PROVE  LET r == RemoveAt(list, p) IN
         /\ r \in Seq(S) /\ Len(r) = Len(list) - 1
         /\ \A j \in 1 .. Len(list) - 1 : r[j] = IF j < p THEN list[j] ELSE list[j + 1]
<1> DEFINE n == Len(list)
           a == SubSeq(list, 1, p - 1)
           b == SubSeq(list, p + 1, n)
           r == RemoveAt(list, p)
<1>1. n \in Nat /\ p \in Int /\ 1 <= p /\ p <= n
  OBVIOUS
<1>2. a \in Seq(S) /\ Len(a) = p - 1 /\ \A j \in 1 .. p - 1 : a[j] = list[j]
  BY <1>1, SubSeqProperties
<1>3. b \in Seq(S) /\ Len(b) = n - p /\ \A j \in 1 .. n - p : b[j] = list[p + j]
  <2>1. b \in Seq(S) /\ Len(b) = n - p /\ \A j \in 1 .. n - p : b[j] = list[(p + 1) + j - 1]
    BY <1>1, SubSeqProperties
  <2>2. \A j \in 1 .. n - p : (p + 1) + j - 1 = p + j
    BY <1>1
  <2> QED
    BY <2>1, <2>2
<1>4. r = a \o b
  BY DEF RemoveAt
<1> HIDE DEF a, b, r, n
<1>5. /\ r \in Seq(S) /\ Len(r) = n - 1
      /\ \A j \in 1 .. n - 1 : r[j] = IF j <= p - 1 THEN a[j] ELSE b[j - (p - 1)]
  BY <1>1, <1>2, <1>3, <1>4
<1>6. ASSUME NEW j \in 1 .. n - 1
      PROVE  r[j] = IF j < p THEN list[j] ELSE list[j + 1]
  <2>1. CASE j < p
    BY <1>1, <1>2, <1>5, <2>1
  <2>2. CASE ~(j < p)
    <3>1. j - (p - 1) \in 1 .. n - p /\ p + (j - (p - 1)) = j + 1
      BY <1>1, <2>2
    <3> QED
      BY <1>1, <1>3, <1>5, <2>2, <3>1
  <2> QED
    BY <2>1, <2>2
<1> QED
  BY <1>5, <1>6 DEF n, r

\* Sorted by the time of the next query, and nobody twice.
Sorted(all, list) ==
  \A p, q \in DOMAIN list : p < q => all[list[p]].next <= all[list[q]].next
NoRepeats(list) == \A p, q \in DOMAIN list : list[p] = list[q] => p = q

\* The walk along the list ends at a place.
LEMMA PlaceExists ==
  ASSUME NEW all, NEW S, \A x \in S : all[x].next \in Int, NEW list \in Seq(S), NEW i \in S
  PROVE  \E p \in 1 .. Len(list) + 1 :
           /\ \A q \in 1 .. p - 1 : all[list[q]].next < all[i].next
           /\ p <= Len(list) => all[list[p]].next >= all[i].next
<1> DEFINE n == Len(list)
           T == {p \in 1 .. n + 1 : p <= n => all[list[p]].next >= all[i].next}
<1>1. n \in Nat /\ \A q \in 1 .. n : list[q] \in S
  OBVIOUS
<1> HIDE DEF n
<1>2. n + 1 \in T /\ T \subseteq Nat
  BY <1>1
<1>3. PICK p \in T : \A k \in T : p <= k
  <2> HIDE DEF T
  <2> QED
    BY <1>2, LeastNat
<1>4. \A q \in 1 .. p - 1 : all[list[q]].next < all[i].next
  <2> SUFFICES ASSUME NEW q \in 1 .. p - 1 PROVE all[list[q]].next < all[i].next
    OBVIOUS
  <2>1. q \in 1 .. n /\ q \notin T
    BY <1>1, <1>3
  <2>2. ~(all[list[q]].next >= all[i].next)
    BY <1>1, <2>1
  <2> QED
    BY <1>1, <2>1, <2>2
<1> QED
  BY <1>3, <1>4 DEF n

LEMMA InsertSortedFacts ==
  ASSUME NEW all, NEW S, \A x \in S : all[x].next \in Int, NEW list \in Seq(S), NEW i \in S,
         Sorted(all, list)
  PROVE  LET r == InsertSorted(all, list, i) IN
         /\ r \in Seq(S) /\ Len(r) = Len(list) + 1 /\ Range(r) = Range(list) \cup {i}
         /\ Sorted(all, r)
         /\ NoRepeats(list) /\ i \notin Range(list) => NoRepeats(r)
<1> DEFINE n == Len(list)
           r == InsertSorted(all, list, i)
           Place(p) == /\ \A q \in 1 .. p - 1 : all[list[q]].next < all[i].next
                       /\ p <= n => all[list[p]].next >= all[i].next
           place == CHOOSE p \in 1 .. n + 1 : Place(p)
<1>1. n \in Nat /\ DOMAIN list = 1 .. n /\ \A q \in 1 .. n : list[q] \in S
  OBVIOUS
<1>2. place \in 1 .. n + 1 /\ Place(place)
  <2>1. \E p \in 1 .. n + 1 : Place(p)
    BY PlaceExists
  <2> HIDE DEF Place, n
  <2> QED
    BY <2>1
<1>3. r = InsertAt(list, place, i)
  BY DEF InsertSorted
<1>4. PICK p : p = place
  OBVIOUS
<1>5. p \in 1 .. n + 1 /\ Place(p) /\ r = InsertAt(list, p, i)
  BY <1>2, <1>3, <1>4
<1> HIDE DEF place, r
<1>6. /\ r \in Seq(S) /\ Len(r) = n + 1
      /\ \A j \in 1 .. n + 1 : r[j] = IF j < p THEN list[j] ELSE IF j = p THEN i ELSE list[j - 1]
  <2> HIDE DEF Place
  <2>1. p \in 1 .. Len(list) + 1
    BY <1>5
  <2>2. HasInserted(S, list, p, i, InsertAt(list, p, i))
    BY <2>1, InsertAtFacts
  <2> QED
    BY ONLY <1>5, <2>2 DEF HasInserted, n
<1>7. DOMAIN r = 1 .. n + 1
  BY <1>1, <1>6
<1> HIDE DEF n
<1>8. Range(r) = Range(list) \cup {i}
  <2>1. ASSUME NEW x \in Range(r) PROVE x \in Range(list) \cup {i}
    <3>1. PICK j \in 1 .. n + 1 : x = r[j]
      BY <1>7 DEF Range
    <3>2. x = i \/ (j < p /\ j \in 1 .. n /\ x = list[j]) \/ (j - 1 \in 1 .. n /\ x = list[j - 1])
      BY <1>1, <1>5, <1>6, <3>1
    <3> QED
      BY <1>1, <3>2 DEF Range
  <2>2. i \in Range(r)
    BY <1>1, <1>5, <1>6, <1>7 DEF Range
  <2>3. ASSUME NEW x \in Range(list) PROVE x \in Range(r)
    <3>1. PICK j \in 1 .. n : x = list[j]
      BY <1>1 DEF Range
    <3>2. CASE j < p
      <4>1. j \in 1 .. n + 1 /\ r[j] = x
        BY <1>1, <1>5, <1>6, <3>1, <3>2
      <4> QED
        BY <1>7, <4>1 DEF Range
    <3>3. CASE ~(j < p)
      <4>1. j + 1 \in 1 .. n + 1 /\ ~(j + 1 < p) /\ j + 1 # p /\ (j + 1) - 1 = j
        BY <1>1, <1>5, <3>3
      <4>2. r[j + 1] = x
        BY <1>6, <3>1, <4>1
      <4> QED
        BY <1>7, <4>1, <4>2 DEF Range
    <3> QED
      BY <3>2, <3>3
  <2> QED
    BY <2>1, <2>2, <2>3
<1> DEFINE t(j) == all[list[j]].next
           t0 == all[i].next
<1>9. /\ \A j \in 1 .. n : t(j) \in Int
      /\ t0 \in Int /\ \A j, k \in 1 .. n : j < k => t(j) <= t(k)
      /\ \A j \in 1 .. p - 1 : t(j) < t0
      /\ p <= n => t(p) >= t0
  BY <1>1, <1>5 DEF Sorted
<1>10. \A j \in 1 .. n + 1 :
         all[r[j]].next = IF j < p THEN t(j) ELSE IF j = p THEN t0 ELSE t(j - 1)
  BY <1>6
<1> HIDE DEF t, t0
<1>11. Sorted(all, r)
  <2> SUFFICES ASSUME NEW j \in 1 .. n + 1, NEW k \in 1 .. n + 1, j < k
               PROVE  all[r[j]].next <= all[r[k]].next
    BY <1>7 DEF Sorted
  <2>1. CASE k < p
    BY <1>1, <1>5, <1>9, <1>10, <2>1
  <2>2. CASE k = p
    BY <1>1, <1>5, <1>9, <1>10, <2>2
  <2>3. CASE k > p
    <3>1. /\ k - 1 \in 1 .. n /\ all[r[k]].next = t(k - 1) /\ p \in 1 .. n
          /\ p <= k - 1 /\ t(p) \in Int /\ t(k - 1) \in Int
      BY <1>1, <1>5, <1>9, <1>10, <2>3
    <3>2. t0 <= t(k - 1)
      <4>1. t0 <= t(p) /\ (p = k - 1 \/ t(p) <= t(k - 1))
        BY <1>5, <1>9, <3>1
      <4> QED
        BY <1>9, <3>1, <4>1
    <3>3. CASE j < p
      <4>1. all[r[j]].next = t(j) /\ t(j) < t0 /\ t(j) \in Int
        BY <1>1, <1>5, <1>9, <1>10, <3>3
      <4> QED
        BY <1>9, <3>1, <3>2, <4>1
    <3>4. CASE j = p
      BY <1>10, <3>1, <3>2, <3>4
    <3>5. CASE j > p
      <4>1. j - 1 \in 1 .. n /\ all[r[j]].next = t(j - 1) /\ j - 1 < k - 1
        BY <1>1, <1>5, <1>10, <3>5
      <4> QED
        BY <1>9, <3>1, <4>1
    <3> QED
      BY <1>5, <3>3, <3>4, <3>5
  <2> QED
    BY <1>5, <2>1, <2>2, <2>3
<1>12. ASSUME NoRepeats(list), i \notin Range(list) PROVE NoRepeats(r)
  <2>1. \A j \in 1 .. n : list[j] # i
    BY <1>1, <1>12 DEF Range
  <2>2. \A j, k \in 1 .. n : list[j] = list[k] => j = k
    BY <1>1, <1>12 DEF NoRepeats
  <2> SUFFICES ASSUME NEW j \in 1 .. n + 1, NEW k \in 1 .. n + 1, r[j] = r[k] PROVE j = k
    BY <1>7 DEF NoRepeats
  <2>3. /\ j < p => j \in 1 .. n /\ r[j] = list[j]
        /\ j = p => r[j] = i
        /\ j > p => j - 1 \in 1 .. n /\ r[j] = list[j - 1]
    BY <1>1, <1>5, <1>6
  <2>4. /\ k < p => k \in 1 .. n /\ r[k] = list[k]
        /\ k = p => r[k] = i
        /\ k > p => k - 1 \in 1 .. n /\ r[k] = list[k - 1]
    BY <1>1, <1>5, <1>6
  <2>5. CASE j < p
    BY <1>5, <2>1, <2>2, <2>3, <2>4, <2>5
  <2>6. CASE j = p
    BY <1>5, <2>1, <2>2, <2>3, <2>4, <2>6
  <2>7. CASE j > p
    BY <1>5, <2>1, <2>2, <2>3, <2>4, <2>7
  <2> QED
    BY <1>5, <2>5, <2>6, <2>7
<1> QED
  BY <1>6, <1>8, <1>11, <1>12 DEF n, r

\* The recursive function of Reinserted, spelled out.
MovedStep(all, list, n, g, m) ==
  IF m = 0 THEN SubSeq(list, n + 1, Len(list)) ELSE InsertSorted(all, g[m - 1], list[m])
Moving(all, list, n, g) == g = [m \in 0 .. n |-> MovedStep(all, list, n, g, m)]

LEMMA ReinsertedIsChosen ==
  ASSUME NEW all, NEW list, NEW n
  PROVE  Reinserted(all, list, n) = (CHOOSE g : Moving(all, list, n, g))[n]
BY DEF Reinserted, Moving, MovedStep

LEMMA MovingExists ==
  ASSUME NEW all, NEW list, NEW n \in Nat
  PROVE  \E g : Moving(all, list, n, g)
<1> DEFINE Upto(k, g) == \A m \in 0 .. k : g[m] = MovedStep(all, list, n, g, m)
           Q == {k \in Nat : \E g : Upto(k, g)}
<1>1. 0 \in Q
  <2> DEFINE g == [m \in {0} |-> SubSeq(list, n + 1, Len(list))]
  <2>1. \A m \in 0 .. 0 : m = 0
    OBVIOUS
  <2>2. g[0] = SubSeq(list, n + 1, Len(list))
    OBVIOUS
  <2> HIDE DEF g
  <2>3. Upto(0, g)
    BY <2>1, <2>2 DEF MovedStep
  <2> QED
    BY <2>3
<1>2. ASSUME NEW k \in Q PROVE k + 1 \in Q
  <2>1. k \in Nat /\ \E g : Upto(k, g)
    OBVIOUS
  <2>2. PICK g : Upto(k, g)
    BY <2>1
  <2> DEFINE h == [m \in 0 .. k + 1 |->
                     IF m = k + 1 THEN InsertSorted(all, g[k], list[k + 1]) ELSE g[m]]
  <2>3. h[k + 1] = InsertSorted(all, g[k], list[k + 1]) /\ \A m \in 0 .. k : h[m] = g[m]
    BY <2>1
  <2> HIDE DEF h
  <2>4. ASSUME NEW m \in 0 .. k + 1 PROVE h[m] = MovedStep(all, list, n, h, m)
    <3>1. CASE m = k + 1
      <4>1. m # 0 /\ m - 1 = k /\ h[m - 1] = g[k]
        BY <2>1, <2>3, <3>1
      <4> QED
        BY <2>3, <3>1, <4>1 DEF MovedStep
    <3>2. CASE m # k + 1
      <4>1. m \in 0 .. k /\ h[m] = g[m]
        BY <2>1, <2>3, <3>2
      <4>2. g[m] = MovedStep(all, list, n, g, m)
        BY <2>2, <4>1
      <4>3. m # 0 => h[m - 1] = g[m - 1]
        BY <2>1, <2>3, <4>1
      <4> QED
        BY <4>1, <4>2, <4>3 DEF MovedStep
    <3> QED
      BY <3>1, <3>2
  <2>5. Upto(k + 1, h)
    BY <2>4
  <2> HIDE DEF Upto
  <2> QED
    BY <2>1, <2>5
<1>3. Q = Nat
  <2> HIDE DEF Upto
  <2>1. Q \in SUBSET Nat
    OBVIOUS
  <2> HIDE DEF Q
  <2> QED
    BY <1>1, <1>2, <2>1, NatSetInduction
<1>4. PICK g : Upto(n, g)
  <2> HIDE DEF Upto
  <2> QED
    BY <1>3
<1> DEFINE h == [m \in 0 .. n |-> g[m]]
<1>5. \A m \in 0 .. n : h[m] = g[m] /\ g[m] = MovedStep(all, list, n, g, m)
  BY <1>4
<1>6. ASSUME NEW m \in 0 .. n PROVE h[m] = MovedStep(all, list, n, h, m)
  <2>1. m # 0 => h[m - 1] = g[m - 1]
    OBVIOUS
  <2> HIDE DEF h
  <2> QED
    BY <1>5, <2>1 DEF MovedStep
<1>7. h = [m \in 0 .. n |-> MovedStep(all, list, n, h, m)]
  BY <1>6
<1> QED
  BY <1>7 DEF Moving

\* Subscribers 1 to n of the list are put back one by one: the list is sorted again
\* and lists the same subscribers.
LEMMA ReinsertedFacts ==
  ASSUME NEW all, NEW S, \A x \in S : all[x].next \in Int, NEW list \in Seq(S),
         NoRepeats(list), NEW n \in 0 .. Len(list),
         \A p, q \in n + 1 .. Len(list) : p < q => all[list[p]].next <= all[list[q]].next
  PROVE  LET r == Reinserted(all, list, n) IN
         /\ r \in Seq(S) /\ Len(r) = Len(list) /\ Range(r) = Range(list)
         /\ Sorted(all, r) /\ NoRepeats(r)
<1> DEFINE g == CHOOSE h : Moving(all, list, n, h)
           len == Len(list)
<1>0. len \in Nat /\ n \in Nat /\ n <= len /\ DOMAIN list = 1 .. len
      /\ \A p \in 1 .. len : list[p] \in S
  OBVIOUS
<1>1. Reinserted(all, list, n) = g[n]
  BY ReinsertedIsChosen
<1>2. Moving(all, list, n, g)
  BY <1>0, MovingExists
<1> HIDE DEF g
<1>3. \A m \in 0 .. n : g[m] = MovedStep(all, list, n, g, m)
  <2>1. g = [m \in 0 .. n |-> MovedStep(all, list, n, g, m)]
    BY <1>2 DEF Moving
  <2> QED
    BY <2>1
<1> DEFINE Good(m) == /\ g[m] \in Seq(S) /\ Len(g[m]) = len - n + m
                      /\ Range(g[m]) = {list[p] : p \in (n + 1 .. len) \cup (1 .. m)}
                      /\ Sorted(all, g[m]) /\ NoRepeats(g[m])
           Q == {m \in Nat : m <= n => Good(m)}
<1>4. 0 \in Q
  <2> DEFINE b == SubSeq(list, n + 1, len)
  <2>1. g[0] = b
    <3>1. 0 \in 0 .. n
      BY <1>0
    <3>2. g[0] = MovedStep(all, list, n, g, 0)
      BY ONLY <1>3, <3>1
    <3> QED
      BY ONLY <3>2 DEF MovedStep
  <2>2. /\ b \in Seq(S) /\ Len(b) = len - n
        /\ \A j \in 1 .. len - n : b[j] = list[n + j]
    <3>1. /\ b \in Seq(S) /\ Len(b) = IF n + 1 <= len THEN len - (n + 1) + 1 ELSE 0
          /\ \A j \in 1 .. len - (n + 1) + 1 : b[j] = list[(n + 1) + j - 1]
      BY ONLY <1>0, list \in Seq(S), SubSeqProperties
    <3>2. len - (n + 1) + 1 = len - n /\ \A j \in 1 .. len - n : (n + 1) + j - 1 = n + j
      BY <1>0
    <3> QED
      BY <1>0, <3>1, <3>2
  <2>3. DOMAIN b = 1 .. len - n
    BY <2>2
  <2> HIDE DEF b, len
  <2>4. Range(b) = {list[p] : p \in (n + 1 .. len) \cup (1 .. 0)}
    <3> DEFINE P == (n + 1 .. len) \cup (1 .. 0)
               J == 1 .. len - n
    <3>1. ASSUME NEW j \in J PROVE n + j \in P /\ b[j] = list[n + j]
      BY <1>0, <2>2
    <3>2. ASSUME NEW p \in P PROVE p - n \in J /\ b[p - n] = list[p]
      <4>1. p - n \in 1 .. len - n /\ n + (p - n) = p
        BY <1>0
      <4>2. b[p - n] = list[n + (p - n)]
        BY <2>2, <4>1
      <4> QED
        BY <4>1, <4>2
    <3>3. Range(b) = {b[j] : j \in J}
      BY ONLY <2>3 DEF Range
    <3> HIDE DEF P, J
    <3>4. ASSUME NEW x \in Range(b) PROVE x \in {list[p] : p \in P}
      BY ONLY <3>1, <3>3, <3>4
    <3>5. ASSUME NEW x \in {list[p] : p \in P} PROVE x \in Range(b)
      <4>1. PICK p \in P : x = list[p]
        BY <3>5
      <4>2. p - n \in J /\ x = b[p - n]
        BY <3>2, <4>1
      <4> QED
        BY ONLY <3>3, <4>2
    <3>6. Range(b) = {list[p] : p \in P}
      BY ONLY <3>4, <3>5
    <3> QED
      BY ONLY <3>6 DEF P
  <2>5. Sorted(all, b)
    <3> SUFFICES ASSUME NEW j \in 1 .. len - n, NEW k \in 1 .. len - n, j < k
                 PROVE  all[b[j]].next <= all[b[k]].next
      BY <2>3 DEF Sorted
    <3>1. n + j \in n + 1 .. len /\ n + k \in n + 1 .. len /\ n + j < n + k
      BY <1>0
    <3> QED
      BY <2>2, <3>1 DEF len
  <2>6. NoRepeats(b)
    <3> SUFFICES ASSUME NEW j \in 1 .. len - n, NEW k \in 1 .. len - n, b[j] = b[k]
                 PROVE  j = k
      BY <2>3 DEF NoRepeats
    <3>1. n + j \in 1 .. len /\ n + k \in 1 .. len /\ list[n + j] = list[n + k]
      BY <1>0, <2>2
    <3>2. n + j = n + k
      BY <1>0, <3>1 DEF NoRepeats
    <3> QED
      BY <1>0, <3>2
  <2>7. len - n + 0 = len - n
    BY <1>0
  <2> QED
    BY <2>1, <2>2, <2>4, <2>5, <2>6, <2>7
<1>5. ASSUME NEW m \in Q PROVE m + 1 \in Q
  <2> SUFFICES ASSUME m + 1 <= n PROVE Good(m + 1)
    OBVIOUS
  <2>1. m \in Nat /\ m <= n /\ Good(m)
    BY <1>0
  <2>2. m + 1 \in 0 .. n /\ m + 1 # 0 /\ (m + 1) - 1 = m /\ m + 1 \in 1 .. len
    BY <1>0, <2>1
  <2>3. g[m + 1] = InsertSorted(all, g[m], list[m + 1])
    BY <1>3, <2>2 DEF MovedStep
  <2>4. list[m + 1] \notin Range(g[m])
    <3>1. \A p \in (n + 1 .. len) \cup (1 .. m) : p \in 1 .. len /\ p # m + 1
      BY <1>0, <2>1, <2>2
    <3>2. \A p \in (n + 1 .. len) \cup (1 .. m) : list[p] # list[m + 1]
      BY <1>0, <2>2, <3>1 DEF NoRepeats
    <3> QED
      BY <2>1, <3>2
  <2> DEFINE old == g[m]
             new == InsertSorted(all, old, list[m + 1])
  <2>5. old \in Seq(S) /\ Sorted(all, old) /\ NoRepeats(old) /\ list[m + 1] \in S
    BY <1>0, <2>1, <2>2
  <2> HIDE DEF old
  <2>6. /\ new \in Seq(S) /\ Len(new) = Len(old) + 1 /\ Range(new) = Range(old) \cup {list[m + 1]}
        /\ Sorted(all, new)
        /\ NoRepeats(old) /\ list[m + 1] \notin Range(old) => NoRepeats(new)
    BY <2>5, InsertSortedFacts
  <2> HIDE DEF new
  <2>7. g[m + 1] = new /\ NoRepeats(new)
    BY <2>3, <2>4, <2>5, <2>6 DEF old, new
  <2>8. Range(new) = {list[p] : p \in (n + 1 .. len) \cup (1 .. m + 1)}
    <3>1. (n + 1 .. len) \cup (1 .. m + 1) = ((n + 1 .. len) \cup (1 .. m)) \cup {m + 1}
      BY <1>0, <2>1
    <3>2. Range(old) = {list[p] : p \in (n + 1 .. len) \cup (1 .. m)}
      BY <2>1 DEF old
    <3> QED
      BY <2>6, <3>1, <3>2
  <2>9. Len(new) = len - n + (m + 1)
    BY <1>0, <2>1, <2>6 DEF old
  <2> QED
    BY <2>6, <2>7, <2>8, <2>9
<1>6. Q = Nat
  <2>1. Q \in SUBSET Nat
    OBVIOUS
  <2> HIDE DEF Q
  <2> QED
    BY <1>4, <1>5, <2>1, NatSetInduction
<1>7. Good(n)
  <2>1. n \in Q
    BY <1>0, <1>6
  <2> HIDE DEF Good
  <2> QED
    BY <1>0, <2>1
<1>8. Range(list) = {list[p] : p \in (n + 1 .. len) \cup (1 .. n)}
  <2>1. (n + 1 .. len) \cup (1 .. n) = 1 .. len
    BY <1>0
  <2> QED
    BY <1>0, <2>1 DEF Range
<1>9. len - n + n = len
  BY <1>0
<1> QED
  BY <1>1, <1>7, <1>8, <1>9

(***************************************************************************)
(* Times.                                                                  *)
(***************************************************************************)

LEMMA DivFacts ==
  ASSUME NEW a \in Int, NEW b \in Nat \ {0}
  PROVE  a \div b \in Int /\ b * (a \div b) <= a /\ a < b * (a \div b) + b
OBVIOUS

LEMMA StepFacts ==
  ASSUME NEW period \in Periods
  PROVE  period \in Nat \ {0} /\ Minute \in Nat \ {0} /\ period * Minute \in Nat \ {0}
<1>1. period \in Nat \ {0} /\ Minute \in Nat \ {0}
  BY SubscriptionConstants
<1>2. period * Minute \in Nat /\ period * Minute > 0
  BY <1>1
<1> QED
  BY <1>1, <1>2

LEMMA SubscriberTypes ==
  ASSUME NEW s \in Subscriber
  PROVE  /\ s.subscription \in Nat \ {0} /\ s.contract \in Contracts
         /\ s.period \in Periods /\ s.next \in Int
         /\ s.period * Minute \in Nat \ {0}
<1>1. s.subscription \in Nat \ {0} /\ s.contract \in Contracts /\ s.period \in Periods /\ s.next \in Int
  BY DEF Subscriber
<1> QED
  BY <1>1, StepFacts

\* A subscriber that is due moves on, past now or to it, and by no more than a
\* period past it.
LEMMA AdvancedFacts ==
  ASSUME NEW i, subscribers[i] \in Subscriber, now \in Nat, subscribers[i].next <= now
  PROVE  /\ Advanced(i) \in Int /\ Advanced(i) > subscribers[i].next /\ Advanced(i) >= now
         /\ Advanced(i) - now <= subscribers[i].period * Minute
<1> DEFINE step == subscribers[i].period * Minute
           next == subscribers[i].next
           behind == now - next
           rounds == IF behind <= step THEN 1 ELSE (behind + step - 1) \div step
<1>1. step \in Nat \ {0} /\ next \in Int /\ next <= now
  BY SubscriberTypes
<1>2. Advanced(i) = next + rounds * step
  BY DEF Advanced
<1> HIDE DEF step, next
<1>3. CASE behind <= step
  BY <1>1, <1>2, <1>3 DEF step, next
<1>4. CASE ~(behind <= step)
  <2> DEFINE a == behind + step - 1
             r == a \div step
  <2>1. a \in Int /\ behind \in Int
    BY <1>1
  <2>2. r \in Int /\ step * r <= a /\ a < step * r + step
    <3> HIDE DEF a
    <3> QED
      BY <1>1, <2>1, DivFacts
  <2>3. rounds = r
    BY <1>4
  <2> DEFINE x == r * step
  <2>4. x \in Int /\ x = step * r
    BY <1>1, <2>2
  <2> HIDE DEF r
  <2>5. x <= behind + step - 1 /\ behind - 1 < x
    <3> HIDE DEF x
    <3> QED
      BY <1>1, <2>1, <2>2, <2>4
  <2>6. Advanced(i) = next + x
    BY <1>2, <2>3
  <2> HIDE DEF x, rounds
  <2>7. Advanced(i) \in Int /\ Advanced(i) > next /\ Advanced(i) >= now /\ Advanced(i) - now <= step
    BY <1>1, <1>4, <2>1, <2>4, <2>5, <2>6
  <2> QED
    BY <2>7 DEF step, next
<1> QED
  BY <1>3, <1>4

LEMMA GreatestNat ==
  ASSUME NEW b \in Nat, NEW S \in SUBSET (0 .. b), S # {}
  PROVE  \E m \in S : \A k \in S : k <= m
<1> DEFINE T == {b - x : x \in S}
<1>0. \A x \in S : x \in Nat /\ x <= b
  OBVIOUS
<1>1. T \in SUBSET Nat /\ T # {}
  <2>1. \A x \in S : b - x \in Nat
    BY <1>0
  <2> QED
    BY <2>1
<1>2. PICK d \in T : \A e \in T : d <= e
  <2> HIDE DEF T
  <2> QED
    BY <1>1, LeastNat
<1>3. PICK m \in S : d = b - m
  OBVIOUS
<1>4. \A k \in S : b - m <= b - k
  BY <1>2, <1>3
<1>5. \A k \in S : k <= m
  BY <1>0, <1>4
<1> QED
  BY <1>5

LEMMA DivisorFacts ==
  ASSUME NEW a \in Nat \ {0}, NEW b \in Nat \ {0}
  PROVE  GreatestCommonDivisor(a, b) \in 1 .. a
<1> DEFINE D == {d \in 1 .. a : a % d = 0 /\ b % d = 0}
<1>1. 1 \in D
  BY DEF D
<1>2. D \in SUBSET (0 .. a) /\ D \subseteq 1 .. a
  OBVIOUS
<1>3. GreatestCommonDivisor(a, b) = CHOOSE x \in D : \A y \in D : x >= y
  BY DEF GreatestCommonDivisor, Max
<1> HIDE DEF D
<1>4. PICK m \in D : \A k \in D : k <= m
  BY <1>1, <1>2, GreatestNat
<1>5. \A k \in D : m >= k
  BY <1>2, <1>4
<1> QED
  BY <1>2, <1>3, <1>5

\* The reference is one of the list.
LEMMA ReferenceFacts ==
  ASSUME NEW list \in Seq(DOMAIN subscribers), list # << >>, NEW period \in Periods,
         subscribers \in Seq(Subscriber)
  PROVE  ReferenceSubscriber(list, period) \in Range(list)
<1> DEFINE gcd(p) == GreatestCommonDivisor(period, subscribers[list[p]].period)
           D == DOMAIN list
           First(p) == (\A r \in D : gcd(r) <= gcd(p)) /\ \A r \in D : r < p => gcd(r) < gcd(p)
<1>0. D = 1 .. Len(list) /\ Len(list) \in Nat /\ Len(list) # 0 /\ period \in Nat \ {0}
  BY StepFacts
<1>1. \A p \in D : gcd(p) \in 1 .. period
  <2> SUFFICES ASSUME NEW p \in D PROVE gcd(p) \in 1 .. period
    OBVIOUS
  <2>1. list[p] \in DOMAIN subscribers
    OBVIOUS
  <2>2. subscribers[list[p]] \in Subscriber
    BY <2>1
  <2>3. subscribers[list[p]].period \in Nat \ {0}
    BY <2>2, SubscriberTypes, StepFacts
  <2> QED
    BY <1>0, <2>3, DivisorFacts
<1>2. ReferenceSubscriber(list, period) = list[CHOOSE p \in D : First(p)]
  BY DEF ReferenceSubscriber
<1> HIDE DEF gcd
<1>3. \E p \in D : First(p)
  <2> DEFINE G == {gcd(p) : p \in D}
  <2>1. G \in SUBSET (0 .. period) /\ G # {}
    <3>1. \A p \in D : gcd(p) \in 0 .. period
      BY <1>0, <1>1
    <3>2. 1 \in D
      BY <1>0
    <3> HIDE DEF D
    <3> QED
      BY <3>1, <3>2
  <2>2. PICK g \in G : \A h \in G : h <= g
    <3> HIDE DEF G
    <3> QED
      BY <1>0, <2>1, GreatestNat
  <2> DEFINE P == {p \in D : gcd(p) = g}
  <2>3. P \in SUBSET Nat /\ P # {}
    BY <1>0, <2>2
  <2>4. PICK p \in P : \A r \in P : p <= r
    <3> HIDE DEF P
    <3> QED
      BY <2>3, LeastNat
  <2>5. \A r \in D : gcd(r) <= gcd(p)
    BY <2>2, <2>4
  <2>6. ASSUME NEW r \in D, r < p PROVE gcd(r) < gcd(p)
    <3>1. gcd(r) # gcd(p)
      BY <1>0, <2>4, <2>6
    <3>2. gcd(r) \in Int /\ gcd(p) \in Int
      BY <1>1, <2>4
    <3> QED
      BY <2>5, <3>1, <3>2
  <2> QED
    BY <2>4, <2>5, <2>6
<1> HIDE DEF First
<1>4. (CHOOSE p \in D : First(p)) \in D
  BY <1>3
<1> QED
  BY <1>2, <1>4 DEF Range

\* A subscriber that joins waits no longer than its period.
LEMMA JoinFacts ==
  ASSUME NEW list \in Seq(DOMAIN subscribers), list # << >>, NEW period \in Periods,
         subscribers \in Seq(Subscriber), now \in Nat
  PROVE  /\ JoinTimestamp(list, period) \in Int
         /\ JoinTimestamp(list, period) - now <= period * Minute
<1> DEFINE x == ReferenceSubscriber(list, period)
           ref == subscribers[x].next
           gap == Abs(ref - now)
           m == gap \div Minute
           q == m \div period
           J == JoinTimestamp(list, period)
<1>1. ref \in Int
  <2>1. x \in Range(list)
    BY ReferenceFacts
  <2>2. x \in DOMAIN subscribers
    BY <2>1 DEF Range
  <2> HIDE DEF x
  <2>3. subscribers[x] \in Subscriber
    BY <2>2
  <2> QED
    BY <2>3, SubscriberTypes
<1>2. J = ref - q * period * Minute
  BY DEF JoinTimestamp
<1> HIDE DEF J, x, ref
<1>3. period \in Nat \ {0} /\ Minute \in Nat \ {0} /\ period * Minute \in Nat \ {0}
  BY StepFacts
<1>4. gap \in Nat /\ (ref >= now => gap = ref - now)
  BY <1>1 DEF Abs
<1> HIDE DEF gap
<1>5. m \in Int /\ Minute * m <= gap /\ gap < Minute * m + Minute
  BY <1>3, <1>4, DivFacts
<1>6. m >= 0
  BY <1>3, <1>4, <1>5
<1> HIDE DEF m
<1>7. q \in Int /\ period * q <= m /\ m < period * q + period
  BY <1>3, <1>5, DivFacts
<1> HIDE DEF q
<1>8. q >= 0
  <2> SUFFICES ASSUME q <= -1 PROVE FALSE
    BY <1>7
  <2>1. period * q <= period * (-1)
    BY <1>3, <1>7
  <2>2. period * (-1) = -period
    BY <1>3
  <2> QED
    BY <1>3, <1>5, <1>6, <1>7, <2>1, <2>2
<1> DEFINE step == period * Minute
           y == q * period * Minute
<1>9. y \in Int /\ y = Minute * (period * q) /\ y >= 0
  BY <1>3, <1>7, <1>8
<1>10. gap < y + step
  <2> DEFINE z == period * q
  <2>1. z \in Int /\ m + 1 <= z + period
    BY <1>3, <1>5, <1>7
  <2> HIDE DEF z
  <2>2. Minute * (m + 1) <= Minute * (z + period)
    BY <1>3, <1>5, <2>1
  <2>3. Minute * (m + 1) = Minute * m + Minute /\ Minute * (z + period) = Minute * z + period * Minute
    BY <1>3, <1>5, <2>1
  <2>4. y = Minute * z
    BY <1>9 DEF z
  <2> DEFINE u == Minute * m
             v == Minute * z
  <2>5. u \in Int /\ v \in Int /\ step \in Int
    BY <1>3, <1>5, <2>1
  <2>6. u + Minute <= v + step /\ gap < u + Minute /\ y = v
    BY <1>5, <2>2, <2>3, <2>4
  <2> HIDE DEF y, u, v, step
  <2> QED
    BY <1>3, <1>4, <2>5, <2>6
<1>11. J = ref - y
  BY <1>2
<1>12. step \in Int
  BY <1>3
<1> HIDE DEF y, step
<1>13. J \in Int
  BY ONLY <1>1, <1>9, <1>11
<1>14. J - now <= step
  BY ONLY <1>1, <1>4, <1>9, <1>10, <1>11, <1>12, now \in Nat
<1> QED
  BY <1>13, <1>14 DEF J, step
(***************************************************************************)
(* The subscriptions.                                                      *)
(***************************************************************************)

\* The list of subscription k among the subscribers `all`: sorted, without repeats,
\* of subscribers of k with contracts of their own, none earlier than the time the
\* heap sorts k by and none put off by more than its period.
ListGood(k, sub, all, time) ==
  /\ sub.list \in Seq(DOMAIN all) /\ NoRepeats(sub.list) /\ Sorted(all, sub.list)
  /\ \A i \in Range(sub.list) :
       /\ all[i].subscription = k /\ sub.next <= all[i].next
       /\ all[i].next - time <= all[i].period * Minute
       /\ \A j \in Range(sub.list) : all[i].contract = all[j].contract => i = j

SubTypes ==
  /\ subscriptions \in Seq(Subscription) /\ subscribers \in Seq(Subscriber)
  /\ Len(subscriptions) <= MaxSubscriptions /\ Len(subscribers) <= MaxSubscribers
  /\ nextSubscriptionIdQueue \subseteq DOMAIN subscriptions

\* The inductive invariant of the subscriptions.
SubInv ==
  SubTypes /\ \A k \in DOMAIN subscriptions :
    /\ ListGood(k, subscriptions[k], subscribers, now)
    /\ k \in nextSubscriptionIdQueue <=> subscriptions[k].list # << >>

LEMMA RangeFacts ==
  ASSUME NEW S, NEW list \in Seq(S)
  PROVE  /\ Range(list) \subseteq S /\ DOMAIN list = 1 .. Len(list) /\ Len(list) \in Nat
         /\ \A p \in 1 .. Len(list) : list[p] \in S /\ list[p] \in Range(list)
         /\ list # << >> <=> Len(list) > 0
BY DEF Range

LEMMA SeqWiden ==
  ASSUME NEW S, NEW T, S \subseteq T, NEW list \in Seq(S)
  PROVE  list \in Seq(T)
OBVIOUS

LEMMA SubscriptionTypes ==
  ASSUME NEW sub \in Subscription
  PROVE  /\ sub.key \in Keys /\ sub.list \in Seq(Nat \ {0}) /\ sub.next \in Int
         /\ sub.lastRevealed \in Nat
BY DEF Subscription

LEMMA SubFacts ==
  ASSUME SubInv
  PROVE  /\ DOMAIN subscriptions = 1 .. Len(subscriptions) /\ Len(subscriptions) \in Nat
         /\ DOMAIN subscribers = 1 .. Len(subscribers) /\ Len(subscribers) \in Nat
         /\ \A k \in DOMAIN subscriptions : subscriptions[k] \in Subscription
         /\ \A i \in DOMAIN subscribers : subscribers[i] \in Subscriber
<1>1. subscriptions \in Seq(Subscription) /\ subscribers \in Seq(Subscriber)
  BY DEF SubInv, SubTypes
<1> QED
  BY <1>1

\* A list whose subscribers do not change stays good while time passes.
LEMMA ListStays ==
  ASSUME NEW k, NEW sub, NEW all \in Seq(Subscriber), NEW time \in Int, ListGood(k, sub, all, time),
         NEW after \in Seq(Subscriber), NEW later \in Int, time <= later, DOMAIN all \subseteq DOMAIN after,
         \A i \in Range(sub.list) : after[i] = all[i],
         NEW new, new.list = sub.list, new.next = sub.next
  PROVE  ListGood(k, new, after, later)
<1> DEFINE list == sub.list
<1>1. list \in Seq(DOMAIN all) /\ NoRepeats(list) /\ Sorted(all, list)
  BY DEF ListGood
<1>2. list \in Seq(DOMAIN after)
  BY <1>1
<1> HIDE DEF list
<1>3. \A p \in DOMAIN list : list[p] \in Range(list)
  BY <1>1, RangeFacts
<1>4. Sorted(after, list)
  BY <1>1, <1>3 DEF Sorted, list
<1>5. ASSUME NEW i \in Range(list)
      PROVE  after[i].next - later <= after[i].period * Minute
  <2>1. i \in DOMAIN all
    BY <1>1, RangeFacts
  <2>2. all[i] \in Subscriber
    BY <2>1
  <2>3. all[i].next \in Int /\ all[i].period * Minute \in Int
    BY <2>2, SubscriberTypes
  <2>4. all[i].next - time <= all[i].period * Minute /\ after[i] = all[i]
    BY DEF ListGood, list
  <2> DEFINE x == all[i].next
             y == all[i].period * Minute
  <2> HIDE DEF x, y
  <2>5. x - later <= y
    BY <2>3, <2>4 DEF x, y
  <2> QED
    BY <2>4, <2>5 DEF x, y
<1>6. \A i \in Range(list) :
        /\ after[i].subscription = k /\ new.next <= after[i].next
        /\ \A j \in Range(list) : after[i].contract = after[j].contract => i = j
  BY DEF ListGood, list
<1>7. new.list = list
  BY DEF list
<1> QED
  BY <1>1, <1>2, <1>4, <1>5, <1>6, <1>7 DEF ListGood

\* What is known of a subscription that somebody has.
LEMMA ListFacts ==
  ASSUME SubInv, NEW k \in DOMAIN subscriptions
  PROVE  LET list == subscriptions[k].list IN
         /\ list \in Seq(DOMAIN subscribers) /\ NoRepeats(list) /\ Sorted(subscribers, list)
         /\ subscriptions[k].next \in Int /\ subscriptions[k] \in Subscription
         /\ DOMAIN list = 1 .. Len(list) /\ Len(list) \in Nat
         /\ \A p \in 1 .. Len(list) : list[p] \in DOMAIN subscribers /\ list[p] \in Range(list)
         /\ \A i \in Range(list) :
              /\ i \in DOMAIN subscribers /\ subscribers[i] \in Subscriber
              /\ subscribers[i].next \in Int /\ subscribers[i].period * Minute \in Int
              /\ subscribers[i].subscription = k /\ subscriptions[k].next <= subscribers[i].next
              /\ subscribers[i].next - now <= subscribers[i].period * Minute
              /\ \A j \in Range(list) : subscribers[i].contract = subscribers[j].contract => i = j
<1> DEFINE list == subscriptions[k].list
<1>1. ListGood(k, subscriptions[k], subscribers, now)
  BY DEF SubInv
<1>2. list \in Seq(DOMAIN subscribers) /\ NoRepeats(list) /\ Sorted(subscribers, list)
  BY <1>1 DEF ListGood
<1>3. subscriptions[k] \in Subscription
  BY SubFacts
<1>4. subscriptions[k].next \in Int
  BY <1>3, SubscriptionTypes
<1>5. \A i \in Range(list) :
        /\ subscribers[i].subscription = k /\ subscriptions[k].next <= subscribers[i].next
        /\ subscribers[i].next - now <= subscribers[i].period * Minute
        /\ \A j \in Range(list) : subscribers[i].contract = subscribers[j].contract => i = j
  BY <1>1 DEF ListGood
<1> HIDE DEF list
<1>6. /\ DOMAIN list = 1 .. Len(list) /\ Len(list) \in Nat /\ Range(list) \subseteq DOMAIN subscribers
      /\ \A p \in 1 .. Len(list) : list[p] \in DOMAIN subscribers /\ list[p] \in Range(list)
  BY <1>2, RangeFacts
<1>7. \A i \in Range(list) :
        /\ i \in DOMAIN subscribers /\ subscribers[i] \in Subscriber
        /\ subscribers[i].next \in Int /\ subscribers[i].period * Minute \in Int
  BY <1>6, SubFacts, SubscriberTypes
<1> QED
  BY <1>2, <1>3, <1>4, <1>5, <1>6, <1>7 DEF list

\* The walk along the due subscribers ends somewhere, and it meets only those that
\* are due.
LEMMA DueFacts ==
  ASSUME SubInv, NEW k \in DOMAIN subscriptions
  PROVE  LET list == subscriptions[k].list
             n == DueCount(k)
         IN /\ n \in 0 .. Len(list)
            /\ \A p \in 1 .. n : subscribers[list[p]].next <= subscriptions[k].next
            /\ DueSubscribers(k) \in Seq(DOMAIN subscribers) /\ Len(DueSubscribers(k)) = n
            /\ \A p \in 1 .. n : DueSubscribers(k)[p] = list[p]
            /\ \A i \in Range(DueSubscribers(k)) :
                 i \in Range(list) /\ subscribers[i].next <= subscriptions[k].next
            /\ \A p \in 1 .. Len(list) : p > n => list[p] \notin Range(DueSubscribers(k))
<1> DEFINE list == subscriptions[k].list
           IsDue(p) == subscribers[list[p]].next <= subscriptions[k].next
           Ends(m) == (\A p \in 1 .. m : IsDue(p)) /\ (m < Len(list) => ~IsDue(m + 1))
           n == DueCount(k)
           due == DueSubscribers(k)
<1>1. /\ list \in Seq(DOMAIN subscribers) /\ NoRepeats(list)
      /\ DOMAIN list = 1 .. Len(list) /\ Len(list) \in Nat
  BY ListFacts
<1>2. n = CHOOSE m \in 0 .. Len(list) : Ends(m)
  BY DEF DueCount
<1>3. due = SubSeq(list, 1, n)
  BY DEF DueSubscribers
<1> HIDE DEF list, n, due, IsDue
<1>4. \E m \in 0 .. Len(list) : Ends(m)
  <2> DEFINE W == {p \in 1 .. Len(list) : ~IsDue(p)}
  <2>1. CASE W = {}
    <3>1. Ends(Len(list))
      BY <1>1, <2>1
    <3> HIDE DEF Ends
    <3> QED
      BY <1>1, <3>1
  <2>2. CASE W # {}
    <3>1. W \in SUBSET Nat
      BY <1>1
    <3>2. PICK w \in W : \A p \in W : w <= p
      <4> HIDE DEF W
      <4> QED
        BY <2>2, <3>1, LeastNat
    <3>3. w - 1 \in 0 .. Len(list) /\ w - 1 + 1 = w
      BY <1>1, <3>2
    <3>4. Ends(w - 1)
      BY <1>1, <3>2, <3>3
    <3> HIDE DEF Ends, W
    <3> QED
      BY <3>3, <3>4
  <2> QED
    BY <2>1, <2>2
<1>5. n \in 0 .. Len(list) /\ Ends(n)
  <2> HIDE DEF Ends
  <2> QED
    BY <1>2, <1>4
<1>6. /\ due \in Seq(DOMAIN subscribers) /\ Len(due) = n
      /\ \A p \in 1 .. n : due[p] = list[p]
  <2>1. 1 \in 1 .. Len(list) + 1 /\ n \in Nat
    BY <1>1, <1>5
  <2>2. Len(due) = n
    BY <1>1, <1>3, <1>5, <2>1
  <2>3. \A p \in 1 .. n : due[p] = list[p]
    BY <1>1, <1>3, <1>5, <2>1
  <2>4. due \in Seq(DOMAIN subscribers)
    BY <1>1, <1>3, <1>5
  <2> QED
    BY <2>2, <2>3, <2>4
<1>7. Range(due) = {list[p] : p \in 1 .. n}
  <2>1. DOMAIN due = 1 .. n
    BY <1>6
  <2> QED
    BY <1>6, <2>1 DEF Range
<1>8. \A i \in Range(due) : i \in Range(list) /\ subscribers[i].next <= subscriptions[k].next
  <2>1. \A p \in 1 .. n : list[p] \in Range(list)
    BY <1>1, <1>5 DEF Range
  <2> QED
    BY <1>5, <1>7, <2>1 DEF IsDue
<1>9. \A p \in 1 .. Len(list) : p > n => list[p] \notin Range(due)
  <2> SUFFICES ASSUME NEW p \in 1 .. Len(list), p > n, NEW r \in 1 .. n, list[p] = list[r]
               PROVE  FALSE
    BY <1>7
  <2>1. r \in DOMAIN list /\ p \in DOMAIN list
    BY <1>1, <1>5
  <2>2. p = r
    BY <1>1, <2>1 DEF NoRepeats
  <2> QED
    BY <1>5, <2>2
<1> QED
  BY <1>5, <1>6, <1>8, <1>9 DEF list, n, due, IsDue

\* The subscribers once those of k that are due have moved on: nobody moves back,
\* whoever is due moves to now or past it, and by no more than a period past it.
LEMMA MovedOn ==
  ASSUME SubInv, now \in Nat, NEW k \in DOMAIN subscriptions, subscriptions[k].next <= now
  PROVE  LET all == SubscribersAfter(k)
             list == subscriptions[k].list
         IN /\ all \in Seq(Subscriber) /\ Len(all) = Len(subscribers)
            /\ DOMAIN all = DOMAIN subscribers
            /\ \A i \in DOMAIN subscribers :
                 /\ all[i].subscription = subscribers[i].subscription
                 /\ all[i].contract = subscribers[i].contract
                 /\ all[i].period = subscribers[i].period
                 /\ i \notin Range(DueSubscribers(k)) => all[i] = subscribers[i]
                 /\ i \in Range(DueSubscribers(k)) => all[i].next >= now
                 /\ all[i].next >= subscribers[i].next
                 /\ i \in Range(list) => all[i].next - now <= all[i].period * Minute
<1> DEFINE all == SubscribersAfter(k)
           list == subscriptions[k].list
           due == Range(DueSubscribers(k))
<1>1. /\ DOMAIN subscribers = 1 .. Len(subscribers) /\ Len(subscribers) \in Nat
      /\ \A i \in DOMAIN subscribers : subscribers[i] \in Subscriber
  BY SubFacts
<1>2. all = [i \in DOMAIN subscribers |->
               IF i \in due THEN [subscribers[i] EXCEPT !.next = Advanced(i)] ELSE subscribers[i]]
  BY DEF SubscribersAfter
<1>3. \A i \in due : i \in DOMAIN subscribers /\ i \in Range(list) /\ subscribers[i].next <= now
  <2> TAKE i \in due
  <2>1. i \in Range(list) /\ subscribers[i].next <= subscriptions[k].next
    BY DueFacts
  <2>2. i \in DOMAIN subscribers /\ subscribers[i].next \in Int /\ subscriptions[k].next \in Int
    BY <2>1, ListFacts
  <2> QED
    BY <2>1, <2>2
<1> HIDE DEF all, due
<1>4. ASSUME NEW i \in DOMAIN subscribers
      PROVE  /\ all[i] \in Subscriber
             /\ all[i].subscription = subscribers[i].subscription
             /\ all[i].contract = subscribers[i].contract
             /\ all[i].period = subscribers[i].period
             /\ i \notin due => all[i] = subscribers[i]
             /\ i \in due => all[i].next >= now
             /\ all[i].next >= subscribers[i].next
             /\ i \in Range(list) => all[i].next - now <= all[i].period * Minute
  <2>0. subscribers[i] \in Subscriber /\ subscribers[i].next \in Int
    BY <1>1, SubscriberTypes
  <2>1. CASE i \notin due
    <3>1. all[i] = subscribers[i]
      BY <1>2, <2>1
    <3>2. i \in Range(list) => subscribers[i].next - now <= subscribers[i].period * Minute
      BY ListFacts
    <3> QED
      BY <2>0, <2>1, <3>1, <3>2
  <2>2. CASE i \in due
    <3> DEFINE a == Advanced(i)
    <3>1. all[i] = [subscribers[i] EXCEPT !.next = a]
      BY <1>2, <2>2
    <3>2. /\ a \in Int /\ a > subscribers[i].next /\ a >= now
          /\ a - now <= subscribers[i].period * Minute
      BY <1>3, <2>0, <2>2, AdvancedFacts
    <3> HIDE DEF a
    <3>3. /\ all[i] \in Subscriber /\ all[i].next = a /\ all[i].subscription = subscribers[i].subscription
          /\ all[i].contract = subscribers[i].contract /\ all[i].period = subscribers[i].period
      BY <2>0, <3>1, <3>2 DEF Subscriber
    <3>4. a >= subscribers[i].next
      BY <2>0, <3>2
    <3> QED
      BY <2>2, <3>2, <3>3, <3>4
  <2> QED
    BY <2>1, <2>2
<1>5. all \in Seq(Subscriber) /\ Len(all) = Len(subscribers) /\ DOMAIN all = DOMAIN subscribers
  <2>1. DOMAIN all = 1 .. Len(subscribers)
    BY <1>1, <1>2
  <2>2. all \in [1 .. Len(subscribers) -> Subscriber]
    <3>1. \A i \in 1 .. Len(subscribers) : all[i] \in Subscriber
      BY <1>1, <1>4
    <3>2. all = [i \in 1 .. Len(subscribers) |-> all[i]]
      BY <1>1, <1>2
    <3> QED
      BY <3>1, <3>2
  <2> QED
    BY <1>1, <2>1, <2>2
<1> QED
  BY <1>4, <1>5 DEF all, due

\* The list of k once its due subscribers are in their new places.
LEMMA ListMovedOn ==
  ASSUME SubInv, now \in Nat, NEW k \in DOMAIN subscriptions, subscriptions[k].next <= now
  PROVE  LET all == SubscribersAfter(k)
             list == subscriptions[k].list
             after == ListAfter(k)
         IN /\ after \in Seq(DOMAIN subscribers) /\ Len(after) = Len(list)
            /\ Range(after) = Range(list) /\ Sorted(all, after) /\ NoRepeats(after)
<1> DEFINE all == SubscribersAfter(k)
           list == subscriptions[k].list
           n == DueCount(k)
           S == DOMAIN subscribers
<1>1. /\ list \in Seq(S) /\ NoRepeats(list) /\ Sorted(subscribers, list)
      /\ DOMAIN list = 1 .. Len(list) /\ Len(list) \in Nat
      /\ \A p \in 1 .. Len(list) : list[p] \in S
  BY ListFacts
<1>2. n \in 0 .. Len(list) /\ \A p \in 1 .. Len(list) : p > n => list[p] \notin Range(DueSubscribers(k))
  BY DueFacts
<1>3. \A x \in S : all[x].next \in Int
  <2>1. all \in Seq(Subscriber) /\ DOMAIN all = S
    BY MovedOn
  <2> HIDE DEF all
  <2>2. \A x \in S : all[x] \in Subscriber
    BY <2>1
  <2> QED
    BY <2>2, SubscriberTypes
<1>4. \A x \in S : x \notin Range(DueSubscribers(k)) => all[x] = subscribers[x]
  BY MovedOn
<1>5. ListAfter(k) = Reinserted(all, list, n)
  BY DEF ListAfter
<1> HIDE DEF all, list, n, S
<1>6. \A p, q \in n + 1 .. Len(list) : p < q => all[list[p]].next <= all[list[q]].next
  <2> TAKE p, q \in n + 1 .. Len(list)
  <2>1. p \in 1 .. Len(list) /\ q \in 1 .. Len(list) /\ p > n /\ q > n
    BY <1>1, <1>2
  <2>2. all[list[p]] = subscribers[list[p]] /\ all[list[q]] = subscribers[list[q]]
    BY <1>1, <1>2, <1>4, <2>1
  <2> QED
    BY <1>1, <2>1, <2>2 DEF Sorted
<1> DEFINE r == Reinserted(all, list, n)
<1>7. /\ r \in Seq(S) /\ Len(r) = Len(list) /\ Range(r) = Range(list)
      /\ Sorted(all, r) /\ NoRepeats(r)
  BY <1>1, <1>2, <1>3, <1>6, ReinsertedFacts
<1> QED
  BY <1>5, <1>7 DEF all, list, S

\* A step that touches the list of one subscription, k, which it may add.
LEMMA OneListMoves ==
  ASSUME SubInv, now \in Nat, now' = now,
         subscriptions' \in Seq(Subscription), subscribers' \in Seq(Subscriber),
         Len(subscriptions') <= MaxSubscriptions, Len(subscribers') <= MaxSubscribers,
         NEW k \in DOMAIN subscriptions', DOMAIN subscriptions' \subseteq DOMAIN subscriptions \cup {k},
         DOMAIN subscribers \subseteq DOMAIN subscribers',
         \A i \in DOMAIN subscribers :
           subscribers[i].subscription # k => subscribers'[i] = subscribers[i],
         \A j \in DOMAIN subscriptions' : j # k =>
           /\ subscriptions'[j].list = subscriptions[j].list
           /\ subscriptions'[j].next = subscriptions[j].next
           /\ j \in nextSubscriptionIdQueue' <=> j \in nextSubscriptionIdQueue,
         nextSubscriptionIdQueue' \subseteq DOMAIN subscriptions',
         ListGood(k, subscriptions'[k], subscribers', now),
         k \in nextSubscriptionIdQueue' <=> subscriptions'[k].list # << >>
  PROVE  SubInv'
<1>1. SubTypes'
  BY DEF SubTypes
<1>2. ASSUME NEW j \in DOMAIN subscriptions', j # k
      PROVE  /\ ListGood(j, subscriptions'[j], subscribers', now)
             /\ j \in nextSubscriptionIdQueue' <=> subscriptions'[j].list # << >>
  <2>1. j \in DOMAIN subscriptions
    BY <1>2
  <2>2. ListGood(j, subscriptions[j], subscribers, now)
    BY <2>1 DEF SubInv
  <2>3. \A i \in Range(subscriptions[j].list) : subscribers'[i] = subscribers[i]
    <3> TAKE i \in Range(subscriptions[j].list)
    <3>1. i \in DOMAIN subscribers /\ subscribers[i].subscription = j
      BY <2>1, ListFacts
    <3> QED
      BY <1>2, <3>1
  <2>4. subscribers \in Seq(Subscriber) /\ now \in Int /\ now <= now
    BY DEF SubInv, SubTypes
  <2>5. ListGood(j, subscriptions'[j], subscribers', now)
    <3> DEFINE sub == subscriptions[j]
               new == subscriptions'[j]
               after == subscribers'
    <3>1. new.list = sub.list /\ new.next = sub.next
      BY <1>2
    <3>2. /\ after \in Seq(Subscriber) /\ DOMAIN subscribers \subseteq DOMAIN after
          /\ \A i \in Range(sub.list) : after[i] = subscribers[i]
          /\ ListGood(j, sub, subscribers, now)
      BY <2>2, <2>3
    <3> HIDE DEF sub, new, after
    <3>3. ListGood(j, new, after, now)
      BY <2>4, <3>1, <3>2, ListStays
    <3> QED
      BY <3>3 DEF new, after
  <2>6. j \in nextSubscriptionIdQueue <=> subscriptions[j].list # << >>
    BY <2>1 DEF SubInv
  <2> QED
    BY <1>2, <2>5, <2>6
<1>3. \A j \in DOMAIN subscriptions' :
        /\ ListGood(j, subscriptions'[j], subscribers', now')
        /\ j \in nextSubscriptionIdQueue' <=> subscriptions'[j].list # << >>
  BY <1>2
<1>4. (\A j \in DOMAIN subscriptions :
         /\ ListGood(j, subscriptions[j], subscribers, now)
         /\ j \in nextSubscriptionIdQueue <=> subscriptions[j].list # << >>)'
  BY <1>3
<1> QED
  BY <1>1, <1>4 DEF SubInv

\* A contract that joins a list.
Joins(k, sub, rec, all, new) ==
  /\ sub \in Subscription /\ ListGood(k, sub, subscribers, now)
  /\ rec \in Subscriber /\ rec.subscription = k /\ rec.next - now <= rec.period * Minute
  /\ \A i \in Range(sub.list) : subscribers[i].contract # rec.contract
  /\ all = Append(subscribers, rec)
  /\ new.list = InsertSorted(all, sub.list, Len(all))
  /\ new.next = IF sub.list = << >> \/ rec.next < sub.next THEN rec.next ELSE sub.next

LEMMA JoinGood ==
  ASSUME subscribers \in Seq(Subscriber), now \in Nat, NEW k, NEW sub, NEW rec, NEW all, NEW new,
         Joins(k, sub, rec, all, new)
  PROVE  /\ all \in Seq(Subscriber) /\ Len(all) = Len(subscribers) + 1
         /\ \A i \in DOMAIN subscribers : i \in DOMAIN all /\ all[i] = subscribers[i]
         /\ ListGood(k, new, all, now) /\ new.list # << >> /\ new.list \in Seq(Nat \ {0})
<1> DEFINE n == Len(subscribers) + 1
           list == sub.list
           L == new.list
           next == rec.next
<1> USE DEF Joins
<1>1. Len(subscribers) \in Nat /\ DOMAIN subscribers = 1 .. Len(subscribers)
  OBVIOUS
<1>2. next \in Int
  BY SubscriberTypes
<1>3. /\ all \in Seq(Subscriber) /\ Len(all) = n /\ DOMAIN all = 1 .. n /\ all[n] = rec
      /\ \A i \in DOMAIN subscribers : i \in DOMAIN all /\ i # n /\ all[i] = subscribers[i]
  BY <1>1
<1>4. /\ list \in Seq(DOMAIN subscribers) /\ NoRepeats(list) /\ Sorted(subscribers, list)
      /\ \A i \in Range(list) :
           /\ subscribers[i].subscription = k /\ sub.next <= subscribers[i].next
           /\ subscribers[i].next - now <= subscribers[i].period * Minute
           /\ \A j \in Range(list) : subscribers[i].contract = subscribers[j].contract => i = j
  BY DEF ListGood
<1>5. L = InsertSorted(all, list, n)
  BY <1>3
<1>6. sub.next \in Int
  BY SubscriptionTypes
<1>0. \A i \in Range(list) : subscribers[i].contract # rec.contract
  OBVIOUS
<1>n. new.next = IF list = << >> \/ next < sub.next THEN next ELSE sub.next
  OBVIOUS
<1> HIDE DEF n, list, L, next, Joins
<1>7. Range(list) \subseteq DOMAIN subscribers /\ \A p \in DOMAIN list : list[p] \in Range(list)
  BY <1>4, RangeFacts
<1>8. list \in Seq(DOMAIN all)
  <2>1. DOMAIN subscribers \subseteq DOMAIN all
    BY <1>3
  <2> QED
    BY <1>4, <2>1
<1>9. Sorted(all, list)
  BY <1>3, <1>4, <1>7 DEF Sorted
<1>10. \A x \in DOMAIN all : all[x].next \in Int
  <2>1. \A x \in DOMAIN all : all[x] \in Subscriber
    BY <1>3
  <2> QED
    BY <2>1, SubscriberTypes
<1>11. n \in DOMAIN all /\ n \notin Range(list)
  BY <1>1, <1>3, <1>7 DEF n
<1>12. /\ L \in Seq(DOMAIN all) /\ Len(L) = Len(list) + 1 /\ Range(L) = Range(list) \cup {n}
       /\ Sorted(all, L) /\ NoRepeats(L)
  <2> DEFINE S == DOMAIN all
             r == InsertSorted(all, list, n)
  <2>1. /\ n \in S /\ list \in Seq(S) /\ \A x \in S : all[x].next \in Int
    BY <1>8, <1>10, <1>11
  <2> HIDE DEF S
  <2>2. /\ r \in Seq(S) /\ Len(r) = Len(list) + 1 /\ Range(r) = Range(list) \cup {n}
        /\ Sorted(all, r) /\ (NoRepeats(list) /\ n \notin Range(list) => NoRepeats(r))
    BY ONLY <1>9, <2>1, InsertSortedFacts
  <2> QED
    BY <1>4, <1>5, <1>11, <2>2 DEF S
<1>13. \A i \in Range(list) : i \in DOMAIN subscribers /\ subscribers[i].next \in Int
  <2>1. \A i \in DOMAIN subscribers : subscribers[i] \in Subscriber
    OBVIOUS
  <2> QED
    BY <1>7, <2>1, SubscriberTypes
<1>14. ASSUME NEW i \in Range(L)
       PROVE  /\ all[i].subscription = k /\ new.next <= all[i].next
              /\ all[i].next - now <= all[i].period * Minute
              /\ \A j \in Range(L) : all[i].contract = all[j].contract => i = j
  <2>1. CASE i = n
    <3>1. all[i].subscription = k /\ all[i].next = next /\ all[i].next - now <= all[i].period * Minute
      BY <1>3, <2>1 DEF next, Joins
    <3>2. new.next <= next
      BY <1>2, <1>6, <1>n
    <3>3. \A j \in Range(L) : all[i].contract = all[j].contract => i = j
      <4> TAKE j \in Range(L)
      <4>1. CASE j = n
        BY <2>1, <4>1
      <4>2. CASE j \in Range(list)
        BY <1>0, <1>2, <1>3, <1>13, <2>1, <4>2
      <4> QED
        BY <1>12, <4>1, <4>2
    <3> QED
      BY <3>1, <3>2, <3>3
  <2>2. CASE i \in Range(list)
    <3>1. all[i] = subscribers[i] /\ subscribers[i].next \in Int /\ list # << >>
      <4>1. list # << >>
        <5> SUFFICES ASSUME list = << >> PROVE FALSE
          OBVIOUS
        <5> QED
          BY <2>2 DEF Range
      <4> QED
        BY <1>3, <1>13, <2>2, <4>1
    <3>2. new.next <= subscribers[i].next
      BY <1>2, <1>4, <1>6, <1>n, <2>2, <3>1
    <3>3. \A j \in Range(L) : all[i].contract = all[j].contract => i = j
      <4> TAKE j \in Range(L)
      <4>1. CASE j = n
        BY <1>0, <1>2, <1>3, <2>2, <3>1, <4>1
      <4>2. CASE j \in Range(list)
        BY <1>3, <1>4, <1>13, <2>2, <3>1, <4>2
      <4> QED
        BY <1>12, <4>1, <4>2
    <3> QED
      BY <1>4, <2>2, <3>1, <3>2, <3>3
  <2> QED
    BY <1>12, <2>1, <2>2
<1>15. L # << >> /\ L \in Seq(Nat \ {0})
  <2>1. DOMAIN all \subseteq Nat \ {0}
    BY <1>1, <1>3 DEF n
  <2>2. Len(list) \in Nat
    BY <1>4
  <2>3. L # << >>
    BY <1>12, <2>2
  <2>4. L \in Seq(Nat \ {0})
    <3> DEFINE S == DOMAIN all
    <3> HIDE DEF S
    <3> QED
      BY ONLY <1>12, <2>1 DEF S
  <2> QED
    BY <2>3, <2>4
<1> QED
  BY <1>3, <1>12, <1>14, <1>15 DEF ListGood, L, n

\* startContractSubscription keeps the lists, and takes storage only while it lasts.
LEMMA SubscribeKeeps ==
  ASSUME SubInv, now \in Nat, NEW c \in Contracts, NEW key \in Keys, NEW period \in Periods,
         StartContractSubscription(c, key, period)
  PROVE  SubInv' /\ DOMAIN subscriptions \subseteq DOMAIN subscriptions'
<1> DEFINE new == SubscriptionOf(key) = {}
           k == IF new THEN Len(subscriptions) + 1 ELSE CHOOSE j \in SubscriptionOf(key) : TRUE
           fresh == [key |-> key, list |-> << >>, next |-> INVALID_TIMESTAMP, lastRevealed |-> 0]
           known == IF new THEN Append(subscriptions, fresh) ELSE subscriptions
           sub == known[k]
           next == IF sub.list = << >> THEN now ELSE JoinTimestamp(sub.list, period)
           rec == [subscription |-> k, contract |-> c, period |-> period, next |-> next]
           all == Append(subscribers, rec)
           L == InsertSorted(all, sub.list, Len(all))
           x == IF sub.list = << >> \/ next < sub.next THEN next ELSE sub.next
           after == [sub EXCEPT !.list = L, !.next = x]
<1>1. /\ subscribers' = all /\ nextSubscriptionIdQueue' = nextSubscriptionIdQueue \cup {k}
      /\ subscriptions' = [known EXCEPT ![k].list = L,
                                        ![k].next = IF sub.list = << >> \/ next < @ THEN next ELSE @]
  BY DEF StartContractSubscription
<1>2. ~SubscriptionRefused(c, key) /\ now' = now
  BY DEF StartContractSubscription, clockVars
<1>3. /\ subscriptions \in Seq(Subscription) /\ subscribers \in Seq(Subscriber)
      /\ Len(subscriptions) <= MaxSubscriptions /\ Len(subscribers) <= MaxSubscribers
      /\ nextSubscriptionIdQueue \subseteq DOMAIN subscriptions
      /\ DOMAIN subscriptions = 1 .. Len(subscriptions) /\ Len(subscriptions) \in Nat
      /\ DOMAIN subscribers = 1 .. Len(subscribers) /\ Len(subscribers) \in Nat
  BY SubFacts DEF SubInv, SubTypes
<1>4. fresh \in Subscription /\ fresh.list = << >>
  BY DEF Subscription, INVALID_TIMESTAMP
<1>5. Len(subscribers) + 1 <= MaxSubscribers
  BY <1>2, <1>3, SubscriptionConstants DEF SubscriptionRefused
<1> HIDE DEF fresh
<1>6. /\ known \in Seq(Subscription) /\ Len(known) <= MaxSubscriptions
      /\ k \in DOMAIN known /\ DOMAIN known \subseteq DOMAIN subscriptions \cup {k}
      /\ DOMAIN subscriptions \subseteq DOMAIN known
      /\ \A j \in DOMAIN known : j # k => known[j] = subscriptions[j]
      /\ ListGood(k, sub, subscribers, now)
      /\ \A i \in Range(sub.list) : subscribers[i].contract # c
  <2>1. CASE new
    <3>1. k = Len(subscriptions) + 1 /\ known = Append(subscriptions, fresh)
      BY <2>1
    <3>2. Len(subscriptions) + 1 <= MaxSubscriptions
      BY <1>2, <1>3, <2>1, SubscriptionConstants DEF SubscriptionRefused
    <3> HIDE DEF known, k
    <3>3. /\ known \in Seq(Subscription) /\ Len(known) = Len(subscriptions) + 1
          /\ known[k] = fresh /\ DOMAIN known = 1 .. Len(subscriptions) + 1
          /\ \A j \in 1 .. Len(subscriptions) : known[j] = subscriptions[j]
      BY <1>3, <1>4, <3>1
    <3>4. sub.list = << >>
      BY <1>4, <3>3
    <3> HIDE DEF sub
    <3>5. Range(sub.list) = {} /\ sub.list \in Seq(DOMAIN subscribers) /\ DOMAIN sub.list = {}
      <4>1. DOMAIN << >> = {} /\ << >> \in Seq(DOMAIN subscribers)
        OBVIOUS
      <4> QED
        BY <3>4, <4>1 DEF Range
    <3>6. ListGood(k, sub, subscribers, now)
      BY <3>5 DEF ListGood, NoRepeats, Sorted
    <3> QED
      BY <1>3, <3>1, <3>2, <3>3, <3>5, <3>6
  <2>2. CASE ~new
    <3>1. k \in SubscriptionOf(key) /\ known = subscriptions
      BY <2>2
    <3>2. k \in DOMAIN subscriptions
      BY <3>1 DEF SubscriptionOf
    <3>3. ~Subscribes(c, k)
      BY <1>2, <3>1 DEF SubscriptionRefused
    <3> HIDE DEF k, known
    <3>4. ListGood(k, sub, subscribers, now)
      BY <3>1, <3>2 DEF SubInv
    <3>5. \A i \in Range(sub.list) : subscribers[i].contract # c
      BY <3>1, <3>3 DEF Subscribes
    <3> QED
      BY <1>3, <3>1, <3>2, <3>4, <3>5
  <2> QED
    BY <2>1, <2>2
<1> HIDE DEF k, known
<1>7. sub \in Subscription /\ k \in Nat \ {0} /\ sub.next \in Int
  <2>1. sub \in Subscription /\ k \in Nat \ {0}
    BY <1>6
  <2> QED
    BY <2>1, SubscriptionTypes
<1>8. next \in Int /\ next - now <= period * Minute
  <2>1. CASE sub.list = << >>
    BY <2>1, StepFacts
  <2>2. CASE sub.list # << >>
    <3>1. sub.list \in Seq(DOMAIN subscribers)
      BY <1>6 DEF ListGood
    <3> DEFINE l == sub.list
    <3> HIDE DEF l
    <3>2. JoinTimestamp(l, period) \in Int /\ JoinTimestamp(l, period) - now <= period * Minute
      BY <1>3, <2>2, <3>1, JoinFacts DEF l
    <3> QED
      BY <2>2, <3>2 DEF l
  <2> QED
    BY <2>1, <2>2
<1> HIDE DEF next, sub
<1>9. x \in Int
  BY <1>7, <1>8
<1>10. after.list = L /\ after.next = x
  <2> HIDE DEF L, x
  <2> QED
    BY <1>7 DEF Subscription
<1>11. /\ all \in Seq(Subscriber) /\ Len(all) = Len(subscribers) + 1
       /\ \A i \in DOMAIN subscribers : i \in DOMAIN all /\ all[i] = subscribers[i]
       /\ ListGood(k, after, all, now) /\ after.list # << >> /\ after.list \in Seq(Nat \ {0})
  <2>1. all = Append(subscribers, rec)
    OBVIOUS
  <2>2. after.list = InsertSorted(all, sub.list, Len(all))
    BY <1>10
  <2>3. after.next = IF sub.list = << >> \/ rec.next < sub.next THEN rec.next ELSE sub.next
    BY <1>10
  <2>4. rec \in Subscriber
    BY <1>7, <1>8 DEF Subscriber
  <2>5. /\ rec.subscription = k /\ rec.next - now <= rec.period * Minute
        /\ \A i \in Range(sub.list) : subscribers[i].contract # rec.contract
    BY <1>6, <1>8
  <2> HIDE DEF all, after, rec
  <2>6. Joins(k, sub, rec, all, after)
    BY <1>6, <1>7, <2>1, <2>2, <2>3, <2>4, <2>5 DEF Joins
  <2> QED
    BY <1>3, <2>6, JoinGood
<1>12. after \in Subscription
  <2> HIDE DEF L, x
  <2>1. L \in Seq(Nat \ {0})
    BY <1>10, <1>11
  <2> QED
    BY <1>7, <1>9, <2>1 DEF Subscription
<1>13. subscriptions' = [known EXCEPT ![k] = after]
  <2> HIDE DEF L
  <2> QED
    BY <1>1, <1>6, <1>7 DEF sub, Subscription
<1> HIDE DEF all, after, L, x
<1>14. /\ subscriptions' \in Seq(Subscription) /\ Len(subscriptions') = Len(known)
       /\ DOMAIN subscriptions' = DOMAIN known /\ subscriptions'[k] = after
       /\ \A j \in DOMAIN known : j # k => subscriptions'[j] = known[j]
  BY <1>6, <1>12, <1>13
<1>15. SubInv'
  <2>1. \A j \in DOMAIN subscriptions' : j # k =>
           /\ subscriptions'[j].list = subscriptions[j].list
           /\ subscriptions'[j].next = subscriptions[j].next
           /\ j \in nextSubscriptionIdQueue' <=> j \in nextSubscriptionIdQueue
    BY <1>1, <1>6, <1>14
  <2>2. /\ subscribers' \in Seq(Subscriber) /\ Len(subscribers') <= MaxSubscribers
        /\ DOMAIN subscribers \subseteq DOMAIN subscribers'
        /\ \A i \in DOMAIN subscribers : subscribers'[i] = subscribers[i]
    BY <1>1, <1>5, <1>11
  <2>3. nextSubscriptionIdQueue' \subseteq DOMAIN subscriptions' /\ k \in nextSubscriptionIdQueue'
    BY <1>1, <1>3, <1>6, <1>14
  <2>4. ListGood(k, subscriptions'[k], subscribers', now) /\ subscriptions'[k].list # << >>
    BY <1>1, <1>11, <1>14
  <2>5. k \in DOMAIN subscriptions' /\ DOMAIN subscriptions' \subseteq DOMAIN subscriptions \cup {k}
    BY <1>6, <1>14
  <2>6. Len(subscriptions') <= MaxSubscriptions
    BY <1>6, <1>14
  <2> QED
    BY <1>2, <1>14, <2>1, <2>2, <2>3, <2>4, <2>5, <2>6, OneListMoves
<1> QED
  BY <1>6, <1>14, <1>15

\* stopContractSubscription keeps the lists: the time a subscription is sorted by
\* follows its head when the head leaves.
LEMMA UnsubscribeKeeps ==
  ASSUME SubInv, now \in Nat, NEW c \in Contracts, NEW k \in DOMAIN subscriptions,
         StopContractSubscription(c, k)
  PROVE  SubInv' /\ DOMAIN subscriptions' = DOMAIN subscriptions
<1> DEFINE sub == subscriptions[k]
           list == sub.list
<1>1. PICK p \in DOMAIN list :
        /\ subscriptions' = [subscriptions EXCEPT ![k] = Without(k, p)]
        /\ subscribers' = [subscribers EXCEPT ![list[p]].next = INVALID_TIMESTAMP]
        /\ nextSubscriptionIdQueue' = IF Len(list) = 1 THEN nextSubscriptionIdQueue \ {k}
                                      ELSE nextSubscriptionIdQueue
  BY DEF StopContractSubscription
<1>2. now' = now
  BY DEF StopContractSubscription, queryVars, clockVars
<1>3. /\ subscriptions \in Seq(Subscription) /\ subscribers \in Seq(Subscriber)
      /\ Len(subscriptions) <= MaxSubscriptions /\ Len(subscribers) <= MaxSubscribers
      /\ nextSubscriptionIdQueue \subseteq DOMAIN subscriptions
      /\ k \in nextSubscriptionIdQueue <=> list # << >>
  BY DEF SubInv, SubTypes
<1>4. /\ list \in Seq(DOMAIN subscribers) /\ NoRepeats(list) /\ Sorted(subscribers, list)
      /\ sub.next \in Int /\ sub \in Subscription
      /\ DOMAIN list = 1 .. Len(list) /\ Len(list) \in Nat
      /\ \A q \in 1 .. Len(list) : list[q] \in DOMAIN subscribers /\ list[q] \in Range(list)
      /\ \A i \in Range(list) :
           /\ i \in DOMAIN subscribers /\ subscribers[i] \in Subscriber /\ subscribers[i].next \in Int
           /\ subscribers[i].subscription = k /\ sub.next <= subscribers[i].next
           /\ subscribers[i].next - now <= subscribers[i].period * Minute
           /\ \A j \in Range(list) : subscribers[i].contract = subscribers[j].contract => i = j
  BY ListFacts
<1> DEFINE rest == RemoveAt(list, p)
           n == Len(list)
           gone == list[p]
           next == IF p # 1 THEN sub.next ELSE IF rest = << >> THEN INVALID_TIMESTAMP
                   ELSE subscribers[Head(rest)].next
           S == DOMAIN subscribers
<1>5. Without(k, p) = [sub EXCEPT !.list = rest, !.next = next]
  BY <1>4 DEF Without, Subscription
<1> HIDE DEF list, S, gone
<1>6. /\ rest \in Seq(S) /\ Len(rest) = n - 1
      /\ \A j \in 1 .. n - 1 : rest[j] = IF j < p THEN list[j] ELSE list[j + 1]
  <2>1. p \in 1 .. Len(list) /\ list \in Seq(S)
    BY <1>1, <1>4 DEF S
  <2> QED
    BY <2>1, RemoveAtFacts
<1>7. n \in Nat \ {0} /\ p \in 1 .. n
  BY <1>1, <1>4
<1> HIDE DEF rest, n
<1> DEFINE at(j) == IF j < p THEN j ELSE j + 1
<1>8. /\ DOMAIN rest = 1 .. n - 1
      /\ \A j \in 1 .. n - 1 : at(j) \in 1 .. n /\ at(j) # p /\ rest[j] = list[at(j)]
      /\ \A j, m \in 1 .. n - 1 : (j < m => at(j) < at(m)) /\ (at(j) = at(m) => j = m)
  BY <1>6, <1>7
<1>9. DOMAIN list = 1 .. n
  BY <1>4 DEF n
<1> HIDE DEF at
<1>10. NoRepeats(rest) /\ Sorted(subscribers, rest)
  <2> SUFFICES ASSUME NEW j \in 1 .. n - 1, NEW m \in 1 .. n - 1
               PROVE  /\ rest[j] = rest[m] => j = m
                      /\ j < m => subscribers[rest[j]].next <= subscribers[rest[m]].next
    BY <1>8 DEF NoRepeats, Sorted
  <2> DEFINE a == at(j)
             b == at(m)
  <2>1. /\ a \in DOMAIN list /\ b \in DOMAIN list /\ rest[j] = list[a] /\ rest[m] = list[b]
        /\ (j < m => a < b) /\ (a = b => j = m)
    BY <1>8, <1>9
  <2> HIDE DEF a, b
  <2> QED
    BY <1>4, <2>1 DEF NoRepeats, Sorted
<1>11. \A i \in Range(rest) : i \in Range(list) /\ i # gone
  <2> TAKE i \in Range(rest)
  <2>1. PICK j \in 1 .. n - 1 : i = rest[j]
    BY <1>8 DEF Range
  <2>2. at(j) \in 1 .. n /\ at(j) # p /\ i = list[at(j)]
    BY <1>8, <2>1
  <2>3. list[at(j)] # list[p]
    BY <1>4, <1>7, <1>9, <2>2 DEF NoRepeats
  <2> QED
    BY <1>4, <2>2, <2>3 DEF gone, n
<1>12. next \in Int /\ \A i \in Range(rest) : next <= subscribers[i].next
  <2>1. CASE p # 1
    BY <1>4, <1>11, <2>1
  <2>2. CASE p = 1 /\ rest = << >>
    <3>1. Range(rest) = {}
      BY <2>2 DEF Range
    <3> QED
      BY <2>2, <3>1 DEF INVALID_TIMESTAMP
  <2>3. CASE p = 1 /\ rest # << >>
    <3>1. Len(rest) > 0 /\ 1 \in DOMAIN rest /\ Head(rest) = rest[1]
      BY <1>6, <1>7, <1>8, <2>3
    <3>2. rest[1] \in Range(rest) /\ next = subscribers[rest[1]].next
      BY <2>3, <3>1 DEF Range
    <3>3. next \in Int
      BY <1>4, <1>11, <3>2
    <3>4. ASSUME NEW i \in Range(rest) PROVE next <= subscribers[i].next
      <4>1. PICK j \in DOMAIN rest : i = rest[j]
        BY DEF Range
      <4>2. j = 1 \/ 1 < j
        BY <1>7, <1>8, <4>1
      <4> QED
        BY <1>10, <3>1, <3>2, <3>3, <4>1, <4>2 DEF Sorted
    <3> QED
      BY <3>3, <3>4
  <2> QED
    BY <2>1, <2>2, <2>3
<1> HIDE DEF next
<1> DEFINE new == Without(k, p)
<1>13. new \in Subscription /\ new.list = rest /\ new.next = next
  <2>1. rest \in Seq(Nat \ {0})
    <3>1. S \subseteq Nat \ {0}
      BY <1>3 DEF S
    <3> QED
      BY <1>6, <3>1, SeqWiden
  <2> QED
    BY <1>4, <1>5, <1>12, <2>1 DEF Subscription
<1> HIDE DEF new
<1>14. /\ subscriptions' \in Seq(Subscription) /\ Len(subscriptions') = Len(subscriptions)
       /\ DOMAIN subscriptions' = DOMAIN subscriptions /\ subscriptions'[k] = new
       /\ \A j \in DOMAIN subscriptions : j # k => subscriptions'[j] = subscriptions[j]
  BY <1>1, <1>3, <1>13 DEF new
<1>15. gone \in DOMAIN subscribers /\ gone \in Range(list) /\ subscribers[gone] \in Subscriber
  BY <1>1, <1>4, <1>7 DEF gone, n
<1> DEFINE left == [subscribers[gone] EXCEPT !.next = INVALID_TIMESTAMP]
<1>16. left \in Subscriber
  BY <1>15 DEF Subscriber, INVALID_TIMESTAMP
<1>17. subscribers' = [subscribers EXCEPT ![gone] = left]
  BY <1>1, <1>15 DEF gone
<1> HIDE DEF left
<1>18. /\ subscribers' \in Seq(Subscriber) /\ Len(subscribers') = Len(subscribers)
       /\ DOMAIN subscribers' = DOMAIN subscribers
       /\ \A i \in DOMAIN subscribers : i # gone => subscribers'[i] = subscribers[i]
  BY <1>3, <1>15, <1>16, <1>17
<1>19. ListGood(k, new, subscribers', now)
  <2> DEFINE all == subscribers'
  <2>1. \A i \in Range(rest) : all[i] = subscribers[i]
    BY <1>4, <1>11, <1>18
  <2>2. Sorted(all, rest)
    <3>1. \A q \in DOMAIN rest : rest[q] \in Range(rest)
      BY DEF Range
    <3> QED
      BY <1>10, <2>1, <3>1 DEF Sorted
  <2>3. rest \in Seq(DOMAIN all)
    BY <1>6, <1>18 DEF S
  <2> HIDE DEF all
  <2>4. \A i \in Range(rest) :
          /\ all[i].subscription = k /\ new.next <= all[i].next
          /\ all[i].next - now <= all[i].period * Minute
          /\ \A j \in Range(rest) : all[i].contract = all[j].contract => i = j
    BY <1>4, <1>11, <1>12, <1>13, <2>1
  <2> QED
    BY <1>10, <1>13, <2>2, <2>3, <2>4 DEF ListGood, all
<1>20. k \in nextSubscriptionIdQueue' <=> new.list # << >>
  <2>1. k \in nextSubscriptionIdQueue
    BY <1>3, <1>7 DEF n
  <2>2. rest = << >> <=> n = 1
    BY <1>6, <1>7
  <2> QED
    BY <1>1, <1>13, <2>1, <2>2 DEF n
<1>21. \A i \in DOMAIN subscribers : subscribers[i].subscription # k => subscribers'[i] = subscribers[i]
  BY <1>4, <1>15, <1>18
<1>22. SubInv'
  <2>1. \A j \in DOMAIN subscriptions' : j # k =>
           /\ subscriptions'[j].list = subscriptions[j].list
           /\ subscriptions'[j].next = subscriptions[j].next
           /\ j \in nextSubscriptionIdQueue' <=> j \in nextSubscriptionIdQueue
    BY <1>1, <1>14
  <2>2. nextSubscriptionIdQueue' \subseteq DOMAIN subscriptions'
    BY <1>1, <1>3, <1>14
  <2>3. /\ Len(subscriptions') <= MaxSubscriptions /\ Len(subscribers') <= MaxSubscribers
        /\ DOMAIN subscriptions' \subseteq DOMAIN subscriptions \cup {k}
        /\ DOMAIN subscribers \subseteq DOMAIN subscribers' /\ k \in DOMAIN subscriptions'
    BY <1>3, <1>14, <1>18
  <2> QED
    BY <1>2, <1>14, <1>18, <1>19, <1>20, <1>21, <2>1, <2>2, <2>3, OneListMoves
<1> QED
  BY <1>14, <1>22

\* The due subscribers of k have moved on and it is sorted by x, which is not after
\* any of its subscribers.
LEMMA MovedOnKeeps ==
  ASSUME SubInv, now \in Nat, now' = now, NEW k \in DOMAIN subscriptions,
         subscriptions[k].next <= now, subscribers' = SubscribersAfter(k),
         nextSubscriptionIdQueue' = nextSubscriptionIdQueue, NEW x \in Int,
         \A i \in Range(ListAfter(k)) : x <= SubscribersAfter(k)[i].next,
         subscriptions' = [subscriptions EXCEPT ![k] =
                             [subscriptions[k] EXCEPT !.list = ListAfter(k), !.next = x]]
  PROVE  SubInv' /\ DOMAIN subscriptions' = DOMAIN subscriptions
<1> DEFINE sub == subscriptions[k]
           list == sub.list
           after == ListAfter(k)
           all == SubscribersAfter(k)
           new == [sub EXCEPT !.list = after, !.next = x]
           S == DOMAIN subscribers
<1>1. /\ subscriptions \in Seq(Subscription) /\ subscribers \in Seq(Subscriber)
      /\ Len(subscriptions) <= MaxSubscriptions /\ Len(subscribers) <= MaxSubscribers
      /\ nextSubscriptionIdQueue \subseteq DOMAIN subscriptions
      /\ k \in nextSubscriptionIdQueue <=> list # << >>
  BY DEF SubInv, SubTypes
<1>2. /\ list \in Seq(S) /\ sub \in Subscription /\ Len(list) \in Nat
      /\ \A i \in Range(list) :
           /\ i \in S /\ subscribers[i].subscription = k
           /\ \A j \in Range(list) : subscribers[i].contract = subscribers[j].contract => i = j
  BY ListFacts
<1>3. /\ after \in Seq(S) /\ Len(after) = Len(list) /\ Range(after) = Range(list)
      /\ Sorted(all, after) /\ NoRepeats(after)
  BY ListMovedOn
<1>4. /\ all \in Seq(Subscriber) /\ Len(all) = Len(subscribers) /\ DOMAIN all = S
      /\ \A i \in S :
           /\ all[i].subscription = subscribers[i].subscription
           /\ all[i].contract = subscribers[i].contract
           /\ i \notin Range(DueSubscribers(k)) => all[i] = subscribers[i]
           /\ i \in Range(list) => all[i].next - now <= all[i].period * Minute
  BY MovedOn
<1>5. \A i \in Range(DueSubscribers(k)) : i \in Range(list)
  BY DueFacts
<1>6. \A i \in Range(after) : x <= all[i].next
  OBVIOUS
<1>7. subscribers' = all
  OBVIOUS
<1>8. subscriptions' = [subscriptions EXCEPT ![k] = new]
  OBVIOUS
<1> HIDE DEF list, after, all, S
<1>9. new \in Subscription /\ new.list = after /\ new.next = x
  <2>1. S \subseteq Nat \ {0}
    BY <1>1 DEF S
  <2>2. after \in Seq(Nat \ {0})
    BY <1>3, <2>1, SeqWiden
  <2> QED
    BY <1>2, <2>2 DEF Subscription
<1> HIDE DEF new
<1>10. ListGood(k, new, all, now)
  <2>1. \A i \in Range(after) :
          /\ all[i].subscription = k /\ new.next <= all[i].next
          /\ all[i].next - now <= all[i].period * Minute
          /\ \A j \in Range(after) : all[i].contract = all[j].contract => i = j
    BY <1>2, <1>3, <1>4, <1>6, <1>9
  <2>2. after \in Seq(DOMAIN all)
    BY <1>3, <1>4
  <2> QED
    BY <1>3, <1>9, <2>1, <2>2 DEF ListGood
<1>11. /\ subscriptions' \in Seq(Subscription) /\ Len(subscriptions') = Len(subscriptions)
       /\ DOMAIN subscriptions' = DOMAIN subscriptions /\ subscriptions'[k] = new
       /\ \A j \in DOMAIN subscriptions : j # k => subscriptions'[j] = subscriptions[j]
  BY <1>1, <1>8, <1>9
<1>12. k \in nextSubscriptionIdQueue' <=> new.list # << >>
  <2>1. list = << >> <=> Len(list) = 0
    BY <1>2
  <2>2. after = << >> <=> Len(after) = 0
    BY <1>3
  <2> QED
    BY <1>1, <1>3, <1>9, <2>1, <2>2
<1>13. \A i \in DOMAIN subscribers : subscribers[i].subscription # k => subscribers'[i] = subscribers[i]
  BY <1>2, <1>4, <1>5, <1>7 DEF S
<1>14. SubInv'
  <2>1. \A j \in DOMAIN subscriptions' : j # k =>
           /\ subscriptions'[j].list = subscriptions[j].list
           /\ subscriptions'[j].next = subscriptions[j].next
           /\ j \in nextSubscriptionIdQueue' <=> j \in nextSubscriptionIdQueue
    BY <1>11
  <2>2. nextSubscriptionIdQueue' \subseteq DOMAIN subscriptions'
    BY <1>1, <1>11
  <2>3. /\ Len(subscriptions') <= MaxSubscriptions /\ Len(subscribers') <= MaxSubscribers
        /\ subscribers' \in Seq(Subscriber)
        /\ DOMAIN subscriptions' \subseteq DOMAIN subscriptions \cup {k}
        /\ DOMAIN subscribers \subseteq DOMAIN subscribers' /\ k \in DOMAIN subscriptions'
    BY <1>1, <1>4, <1>7, <1>11 DEF S
  <2>4. ListGood(k, subscriptions'[k], subscribers', now)
    BY <1>7, <1>10, <1>11
  <2>5. k \in nextSubscriptionIdQueue' <=> subscriptions'[k].list # << >>
    BY <1>11, <1>12
  <2> QED
    BY <1>11, <1>13, <2>1, <2>2, <2>3, <2>4, <2>5, OneListMoves
<1> QED
  BY <1>11, <1>14

LEMMA GenerateKeepsLists ==
  ASSUME SubInv, now \in Nat, NEW k, GenerateSubscriptionQuery(k)
  PROVE  SubInv' /\ DOMAIN subscriptions' = DOMAIN subscriptions
<1> DEFINE after == ListAfter(k)
           all == SubscribersAfter(k)
           x == all[Head(after)].next
<1>1. /\ k \in nextSubscriptionIdQueue /\ subscriptions[k].next <= now /\ now' = now
      /\ subscribers' = all /\ nextSubscriptionIdQueue' = nextSubscriptionIdQueue
      /\ subscriptions' = [subscriptions EXCEPT ![k].list = after, ![k].next = x]
  BY DEF GenerateSubscriptionQuery, IsNextDue, clockVars
<1>2. k \in DOMAIN subscriptions
  BY <1>1 DEF SubInv, SubTypes
<1>3. subscriptions[k] \in Subscription /\ subscriptions[k].list # << >>
      /\ subscriptions[k].list \in Seq(DOMAIN subscribers)
  BY <1>1, <1>2, ListFacts DEF SubInv
<1>4. /\ after \in Seq(DOMAIN subscribers) /\ Len(after) = Len(subscriptions[k].list)
      /\ Sorted(all, after)
  BY <1>1, <1>2, ListMovedOn
<1>5. all \in Seq(Subscriber) /\ DOMAIN all = DOMAIN subscribers
  BY <1>1, <1>2, MovedOn
<1> HIDE DEF after, all
<1>6. 1 \in DOMAIN after /\ Head(after) = after[1] /\ DOMAIN after = 1 .. Len(after) /\ Len(after) \in Nat
  <2>1. Len(after) # 0
    BY <1>3, <1>4
  <2> QED
    BY <1>4, <2>1
<1>7. x \in Int
  <2>1. after[1] \in DOMAIN all
    BY <1>4, <1>5, <1>6
  <2>2. all[after[1]] \in Subscriber
    BY <1>5, <2>1
  <2> QED
    BY <1>6, <2>2, SubscriberTypes
<1>8. \A i \in Range(after) : x <= all[i].next
  <2> TAKE i \in Range(after)
  <2>1. PICK j \in DOMAIN after : i = after[j]
    BY DEF Range
  <2>2. j = 1 \/ 1 < j
    BY <1>6
  <2> QED
    BY <1>4, <1>6, <1>7, <2>1, <2>2 DEF Sorted
<1> HIDE DEF x
<1>9. subscriptions' = [subscriptions EXCEPT ![k] = [subscriptions[k] EXCEPT !.list = after, !.next = x]]
  BY <1>1, <1>2, <1>3 DEF Subscription
<1> QED
  BY <1>1, <1>2, <1>7, <1>8, <1>9, MovedOnKeeps DEF after, all

LEMMA FailKeepsLists ==
  ASSUME SubInv, now \in Nat, NEW k, FailToGenerate(k)
  PROVE  SubInv' /\ DOMAIN subscriptions' = DOMAIN subscriptions
<1> DEFINE after == ListAfter(k)
           all == SubscribersAfter(k)
           x == subscriptions[k].next
<1>1. /\ k \in nextSubscriptionIdQueue /\ x <= now /\ now' = now
      /\ subscribers' = all /\ nextSubscriptionIdQueue' = nextSubscriptionIdQueue
      /\ subscriptions' = [subscriptions EXCEPT ![k].list = after]
  BY DEF FailToGenerate, IsNextDue, clockVars
<1>2. k \in DOMAIN subscriptions
  BY <1>1 DEF SubInv, SubTypes
<1>3. /\ subscriptions[k] \in Subscription /\ x \in Int
      /\ \A i \in Range(subscriptions[k].list) :
           i \in DOMAIN subscribers /\ subscribers[i].next \in Int /\ x <= subscribers[i].next
  BY <1>2, ListFacts
<1>4. Range(after) = Range(subscriptions[k].list)
  BY <1>1, <1>2, ListMovedOn
<1>5. /\ all \in Seq(Subscriber) /\ DOMAIN all = DOMAIN subscribers
      /\ \A i \in DOMAIN subscribers : all[i].next >= subscribers[i].next
  BY <1>1, <1>2, MovedOn
<1> HIDE DEF after, all
<1>6. \A i \in DOMAIN subscribers : all[i].next \in Int
  <2>1. \A i \in DOMAIN subscribers : all[i] \in Subscriber
    BY <1>5
  <2> QED
    BY <2>1, SubscriberTypes
<1>7. \A i \in Range(after) : x <= all[i].next
  BY <1>3, <1>4, <1>5, <1>6
<1>8. subscriptions' = [subscriptions EXCEPT ![k] = [subscriptions[k] EXCEPT !.list = after, !.next = x]]
  <2>1. [subscriptions[k] EXCEPT !.list = after] = [subscriptions[k] EXCEPT !.list = after, !.next = x]
    BY <1>3 DEF Subscription
  <2>2. subscriptions' = [subscriptions EXCEPT ![k] = [subscriptions[k] EXCEPT !.list = after]]
    BY <1>1, <1>2, <1>3
  <2> QED
    BY <2>1, <2>2
<1> HIDE DEF x
<1> QED
  BY <1>1, <1>2, <1>3, <1>7, <1>8, MovedOnKeeps DEF after, all, x

(***************************************************************************)
(* The answers: a quorum of the committee is asked, and commits at once.   *)
(***************************************************************************)

LEMMA AskedFacts == AskedComputors \in SUBSET Computors /\ Cardinality(AskedComputors) = Quorum
<1> DEFINE Q == {n \in Nat : n <= N => \E A \in SUBSET Computors : Cardinality(A) = n}
<1>1. N \in Nat /\ Quorum \in Nat /\ Quorum <= N /\ N = Cardinality(Computors) /\ IsFiniteSet(Computors)
  BY QuorumIsReachable, OracleConstants DEF N
<1> HIDE DEF N, Quorum
<1>2. 0 \in Q
  BY FS_EmptySet
<1>3. ASSUME NEW n \in Q PROVE n + 1 \in Q
  <2> SUFFICES ASSUME n + 1 <= N PROVE \E A \in SUBSET Computors : Cardinality(A) = n + 1
    OBVIOUS
  <2>1. n \in Nat /\ n <= N /\ n # N
    BY <1>1
  <2>2. PICK A \in SUBSET Computors : Cardinality(A) = n
    BY <2>1
  <2>3. IsFiniteSet(A) /\ A # Computors
    BY <1>1, <2>1, <2>2, FS_Subset
  <2>4. PICK c \in Computors : c \notin A
    BY <2>3
  <2>5. Cardinality(A \cup {c}) = n + 1 /\ A \cup {c} \in SUBSET Computors
    BY <2>2, <2>3, <2>4, FS_AddElement
  <2> QED
    BY <2>5
<1>4. Nat \subseteq Q
  <2>1. Q \in SUBSET Nat
    OBVIOUS
  <2> HIDE DEF Q
  <2> QED
    BY <1>2, <1>3, <2>1, NatSetInduction
<1>5. \E A \in SUBSET Computors : Cardinality(A) = Quorum
  BY <1>1, <1>4
<1> QED
  BY <1>5 DEF AskedComputors

\* The reply state of a query that a quorum has committed to at once.
AnsweredState(rs, value) ==
  [rs EXCEPT !.own = value, !.most = value, !.expectedReveal = tick + 1,
             !.commits = [c \in Computors |->
                IF c \in AskedComputors THEN [digest |-> value, honest |-> TRUE] ELSE NoCommit]]

LEMMA AnsweredFacts ==
  ASSUME NEW rs \in ReplyState, NEW value \in Values, tick \in Nat
  PROVE  LET r == AnsweredState(rs, value) IN
         /\ r \in ReplyState /\ r.query = rs.query /\ r.own = value /\ r.most = value
         /\ r.expectedReveal = tick + 1 /\ HasQuorum(r) /\ MostOf(r)
<1> DEFINE com == [c \in Computors |-> IF c \in AskedComputors THEN [digest |-> value, honest |-> TRUE]
                                       ELSE NoCommit]
           r == AnsweredState(rs, value)
<1>1. r = [rs EXCEPT !.own = value, !.most = value, !.expectedReveal = tick + 1, !.commits = com]
  BY DEF AnsweredState
<1>2. com \in [Computors -> Commit \cup {NoCommit}]
  <2>1. [digest |-> value, honest |-> TRUE] \in Commit
    BY DEF Commit
  <2> QED
    BY <2>1
<1>3. \A c \in Computors : com[c].digest = IF c \in AskedComputors THEN value ELSE NoValue
  BY DEF NoCommit
<1> HIDE DEF com, r
<1>4. /\ r \in ReplyState /\ r.query = rs.query /\ r.own = value /\ r.most = value
      /\ r.expectedReveal = tick + 1 /\ r.commits = com
  <2>1. rs.query \in Nat \ {0} /\ tick + 1 \in Nat
    BY DEF ReplyState
  <2>2. r = [query |-> rs.query, own |-> value, most |-> value, commits |-> com,
             expectedReveal |-> tick + 1]
    BY <1>1 DEF ReplyState
  <2> QED
    BY <1>2, <2>1, <2>2 DEF ReplyState
<1>5. value # NoValue /\ NoValue \notin Values
  BY OracleConstants
<1>6. CommittersOf(r, value) = AskedComputors
  BY <1>3, <1>4, <1>5, AskedFacts DEF CommittersOf
<1>7. Votes(r, value) = Quorum
  BY <1>5, <1>6, AskedFacts DEF Votes
<1>8. \A d \in Values : d # value => CommittersOf(r, d) = {}
  BY <1>3, <1>4, <1>5 DEF CommittersOf
<1>9. \A d \in Values : d # value => Votes(r, d) = 0
  BY <1>5, <1>8, FS_EmptySet DEF Votes
<1>10. MostOf(r) /\ HasQuorum(r)
  BY <1>4, <1>7, <1>9, QuorumIsReachable DEF MostOf, HasQuorum
<1> QED
  BY <1>4, <1>10 DEF r

LEMMA AnswerKeeps ==
  ASSUME EngineInv, pendingCommitReplyStateIndices = {}, NEW i \in QueryIndices, NEW value \in Values,
         AnswerQuery(i, value)
  PROVE  /\ EngineInv' /\ Steady /\ queries'[i].status = "COMMITTED"
         /\ replyStates' = [replyStates EXCEPT ![queries[i].slot] =
              AnsweredState(replyStates[queries[i].slot], value)]
         /\ \A j \in QueryIndices : j # i => queries'[j] = queries[j]
<1> DEFINE s == queries[i].slot
           q == [queries[i] EXCEPT !.status = "COMMITTED", !.flags = @ \cup {"REPLY_RECEIVED"}]
           r == AnsweredState(replyStates[s], value)
<1>1. /\ queries[i].status = "PENDING" /\ UNCHANGED clockVars
      /\ queries' = [queries EXCEPT ![i].status = "COMMITTED",
                                    ![i].flags = @ \cup {"REPLY_RECEIVED"}]
      /\ replyStates' = [replyStates EXCEPT ![s] = r]
      /\ pendingRevealReplyStateIndices' = pendingRevealReplyStateIndices \cup {s}
      /\ UNCHANGED <<queryStorageBytesUsed, contractQueryIdState, replyStatesIndex,
                     pendingQueryIndices, pendingCommitReplyStateIndices, noteVars>>
  BY DEF AnswerQuery, AnsweredState, idVars
<1>2. IsOpen(i) /\ PoolInv /\ NoteInv /\ tick \in Nat
  BY <1>1, StatusTypes DEF IsOpen, EngineInv, PoolInv, PoolTypes
<1>3. /\ s \in Slots /\ replyStates[s].query = i /\ replyStates[s] \in ReplyState
      /\ i \in pendingQueryIndices
  BY <1>2, OpenFacts
<1>4. queries \in Seq(Query) /\ i \in DOMAIN queries /\ queries[i] \in Query /\ QueryIndices = DOMAIN queries
  BY <1>2, PoolFacts DEF PoolInv, PoolTypes, QueryIndices
<1>5. /\ r \in ReplyState /\ r.query = i /\ r.own = value /\ HasQuorum(r) /\ MostOf(r)
  BY <1>2, <1>3, AnsweredFacts
<1>6. queries' = [queries EXCEPT ![i] = q]
  BY <1>1, <1>4 DEF Query
<1>7. /\ q \in Query /\ q.status = "COMMITTED" /\ q.slot = s /\ q.id = queries[i].id
      /\ q.targets = queries[i].targets /\ q.subscription = queries[i].subscription
      /\ q.timeout = queries[i].timeout
  BY <1>4, StatusTypes DEF Query, Flags
<1> HIDE DEF q, r
<1>8. Moved(i, q) /\ Sound(q, r) /\ r \in AnyReplyState /\ q.status \in Open
  BY <1>2, <1>5, <1>7, StatusTypes DEF Moved, Sound, s, AnyReplyState
<1>9. TablesFollow(i, q, r)
  BY <1>1, <1>5, <1>7, <1>8 DEF TablesFollow
<1>10. replyStates' = [replyStates EXCEPT ![q.slot] = r]
  BY <1>1, <1>7
<1>11. PoolInv' /\ Steady
  BY <1>1, <1>2, <1>5, <1>6, <1>7, <1>8, <1>9, <1>10, OneQueryMoves
<1>12. NoteInv'
  BY <1>1, <1>2, <1>11, NotesKept
<1>13. EngineInv'
  BY <1>1, <1>11, <1>12, EngineSteady DEF clockVars
<1>14. queries'[i] = q /\ \A j \in QueryIndices : j # i => queries'[j] = queries[j]
  BY <1>4, <1>6
<1> QED
  BY <1>1, <1>7, <1>11, <1>13, <1>14 DEF r

(***************************************************************************)
(* The simulator's invariant.                                              *)
(***************************************************************************)

\* The tick whose reveals the held ones are.
RevealTick == IF phase \in {"idle", "provider", "deliver", "faulted"} THEN tick + 1 ELSE tick

HeldInv ==
  /\ held \in Seq([id : Nat \X Nat, value : Values]) /\ CommittedIsHeld
  /\ phase \in {"generate", "timeouts"} => held = << >>

\* A query names a subscription that exists, or none.
QueriesKnown == \A j \in QueryIndices : queries[j].subscription \in DOMAIN subscriptions \cup {0}

\* The subscribers that a query of this tick names are caught up.
CaughtUp ==
  \A j \in QueryIndices : queries[j].id[1] = tick /\ queries[j].subscription # 0 =>
    \A i \in Range(subscriptions[queries[j].subscription].list) :
      subscribers[i].contract \in Range(queries[j].targets) => subscribers[i].next >= now

\* Subscriptions are asked for after the transactions and reveals of a tick, and
\* until the answers of the provider nobody joins who might not be caught up.
CatchInv ==
  /\ phase \in {"generate", "timeouts", "provider"} => CaughtUp
  /\ phase \in {"endEpoch", "txs", "reveal"} =>
       \A j \in QueryIndices : queries[j].id[1] = tick => queries[j].subscription = 0

\* The inductive invariant of the simulator's oracle pass.
SimInv ==
  /\ EngineInv /\ SubInv /\ phase \in Phases
  /\ notificationCursor # 0 => phase \in {"deliver", "faulted"}
  /\ pendingCommitReplyStateIndices = {}
  /\ HeldInv /\ DeadlinesAreMet /\ QueriesKnown /\ CatchInv

\* A step within a tick that keeps every query and starts at most some for
\* subscription k (0 when a contract asks).
Continues(k) ==
  /\ UNCHANGED clockVars
  /\ QueryIndices \subseteq QueryIndices' /\ \A i \in QueryIndices : Moved(i, queries'[i])
  /\ \A i \in QueryIndices' \ QueryIndices :
       /\ queries'[i].id[1] = tick /\ queries'[i].subscription = k
       /\ queries'[i].status = "PENDING"

LEMMA SteadyContinues ==
  ASSUME Steady, UNCHANGED clockVars
  PROVE  Continues(0)
BY DEF Steady, Continues

LEMMA StartContinues ==
  ASSUME PoolInv, Orderly, UNCHANGED clockVars, NEW q \in Query, queries' = Append(queries, q),
         q.id[1] = tick, q.status = "PENDING"
  PROVE  /\ Continues(q.subscription) /\ queries'[Len(queries) + 1] = q
         /\ QueryIndices' = QueryIndices \cup {Len(queries) + 1}
         /\ Len(queries) + 1 \notin QueryIndices
<1>1. queries \in Seq(Query) /\ QueryIndices = 1 .. Len(queries) /\ Len(queries) \in Nat
  BY PoolFacts DEF PoolInv, PoolTypes
<1> DEFINE new == queries'
<1>2. /\ DOMAIN new = 1 .. Len(queries) + 1 /\ new[Len(queries) + 1] = q
  BY <1>1
<1>3. QueryIndices' = 1 .. Len(queries) + 1
  BY <1>2 DEF QueryIndices
<1>4. \A i \in QueryIndices : i \in DOMAIN queries \cap DOMAIN queries'
  BY <1>1, <1>2
<1>5. \A i \in QueryIndices : Moved(i, queries'[i])
  BY <1>4 DEF Orderly
<1>6. QueryIndices' \ QueryIndices = {Len(queries) + 1}
  BY <1>1, <1>3
<1> QED
  BY <1>1, <1>2, <1>3, <1>5, <1>6 DEF Continues

\* Overdue queries are only those of this tick.
LEMMA DeadlinesKept ==
  ASSUME PoolInv, PoolInv', DeadlinesAreMet, NEW k, Continues(k),
         phase' \in {"provider", "deliver", "idle"} => phase \in {"provider", "deliver", "idle"},
         phase' = "provider" => phase = "provider" /\ QueryIndices' = QueryIndices
  PROVE  DeadlinesAreMet'
<1> SUFFICES ASSUME phase' \in {"provider", "deliver", "idle"}, NEW i \in pendingQueryIndices',
                    queries'[i].timeout <= now'
             PROVE  phase' # "provider" /\ queries'[i].id[1] = tick'
  BY DEF DeadlinesAreMet
<1>1. pendingQueryIndices = {j \in QueryIndices : IsOpen(j)} /\ i \in QueryIndices'
  BY DEF PoolInv, PoolTypes
<1>2. queries'[i].status \in Open
  BY DEF PoolInv, PoolTypes, IsOpen
<1>3. now' = now /\ tick' = tick
  BY DEF Continues, clockVars
<1>4. CASE i \notin QueryIndices
  BY <1>1, <1>3, <1>4 DEF Continues
<1>5. CASE i \in QueryIndices
  <2>1. Moved(i, queries'[i])
    BY <1>5 DEF Continues
  <2>2. queries'[i].timeout = queries[i].timeout /\ queries'[i].id = queries[i].id /\ IsOpen(i)
    BY <1>2, <2>1 DEF Moved, IsOpen
  <2>3. i \in pendingQueryIndices
    BY <1>1, <1>5, <2>2
  <2> QED
    BY <1>3, <2>2, <2>3 DEF DeadlinesAreMet
<1> QED
  BY <1>4, <1>5

LEMMA KnownKept ==
  ASSUME QueriesKnown, NEW k, Continues(k), k \in DOMAIN subscriptions' \cup {0},
         DOMAIN subscriptions \subseteq DOMAIN subscriptions'
  PROVE  QueriesKnown'
<1> SUFFICES ASSUME NEW j \in QueryIndices'
             PROVE  queries'[j].subscription \in DOMAIN subscriptions' \cup {0}
  BY DEF QueriesKnown
<1>1. CASE j \notin QueryIndices
  BY <1>1 DEF Continues
<1>2. CASE j \in QueryIndices
  <2>1. queries'[j].subscription = queries[j].subscription
    BY <1>2 DEF Continues, Moved
  <2> QED
    BY <1>2, <2>1 DEF QueriesKnown
<1> QED
  BY <1>1, <1>2

\* A step that asks for no subscription leaves everyone caught up.
LEMMA CatchKept ==
  ASSUME CatchInv, QueriesKnown, Continues(0),
         phase' \in {"endEpoch", "txs", "reveal"} => phase \in {"endEpoch", "txs", "reveal"},
         phase' \in {"generate", "timeouts", "provider"} =>
           /\ phase \in {"reveal", "generate", "timeouts", "provider"}
           /\ subscribers' = subscribers
           /\ \A k \in DOMAIN subscriptions : subscriptions'[k].list = subscriptions[k].list
  PROVE  CatchInv'
<1>0. now' = now /\ tick' = tick
  BY DEF Continues, clockVars
<1>1. ASSUME NEW j \in QueryIndices', queries'[j].subscription # 0
      PROVE  /\ j \in QueryIndices /\ queries'[j].subscription = queries[j].subscription
             /\ queries'[j].id = queries[j].id /\ queries'[j].targets = queries[j].targets
             /\ queries[j].subscription \in DOMAIN subscriptions
  <2>1. j \in QueryIndices
    BY <1>1 DEF Continues
  <2>2. Moved(j, queries'[j])
    BY <2>1 DEF Continues
  <2> QED
    BY <1>1, <2>1, <2>2 DEF Moved, QueriesKnown
<1>2. ASSUME phase' \in {"endEpoch", "txs", "reveal"}, NEW j \in QueryIndices', queries'[j].id[1] = tick
      PROVE  queries'[j].subscription = 0
  BY <1>1, <1>2 DEF CatchInv
<1>3. ASSUME phase' \in {"generate", "timeouts", "provider"}, NEW j \in QueryIndices',
             queries'[j].id[1] = tick, queries'[j].subscription # 0
      PROVE  \A i \in Range(subscriptions'[queries'[j].subscription].list) :
               subscribers'[i].contract \in Range(queries'[j].targets) => subscribers'[i].next >= now
  <2>1. /\ j \in QueryIndices /\ queries[j].id[1] = tick /\ queries[j].subscription # 0
    BY <1>1, <1>3
  <2>2. phase # "reveal"
    BY <2>1 DEF CatchInv
  <2>3. CaughtUp
    BY <1>3, <2>2 DEF CatchInv
  <2>4. subscriptions'[queries'[j].subscription].list = subscriptions[queries[j].subscription].list
    BY <1>1, <1>3
  <2> QED
    BY <1>1, <1>3, <2>1, <2>3, <2>4 DEF CaughtUp
<1>4. phase' \in {"generate", "timeouts", "provider"} => CaughtUp'
  BY <1>0, <1>3 DEF CaughtUp
<1>5. (phase \in {"endEpoch", "txs", "reveal"} =>
         \A j \in QueryIndices : queries[j].id[1] = tick => queries[j].subscription = 0)'
  BY <1>0, <1>2
<1> QED
  BY <1>4, <1>5 DEF CatchInv

\* A step that commits and reveals nothing.
SameCommitted ==
  /\ \A i \in QueryIndices : queries[i].status = "COMMITTED" =>
       /\ i \in QueryIndices' /\ queries'[i].status = "COMMITTED"
       /\ queries'[i].id = queries[i].id /\ queries'[i].slot = queries[i].slot
       /\ replyStates'[queries[i].slot] = replyStates[queries[i].slot]
  /\ \A i \in QueryIndices' : queries'[i].status = "COMMITTED" =>
       i \in QueryIndices /\ queries[i].status = "COMMITTED"

LEMMA HeldKept ==
  ASSUME HeldInv, SameCommitted, held' = held, held = << >> \/ RevealTick' = RevealTick,
         phase' \in {"generate", "timeouts"} => held = << >>
  PROVE  HeldInv'
<1>1. \A r, i : i \in RevealedQuery(r) => i \in RevealedQuery(r)'
  BY DEF SameCommitted, RevealedQuery, RevealInOrder
<1>2. ASSUME NEW p \in DOMAIN held'
      PROVE  /\ \E i \in RevealedQuery(held[p])' : (replyStates[queries[i].slot].expectedReveal)' = RevealTick'
             /\ \A q \in DOMAIN held' : held'[p].id = held'[q].id => p = q
  <2>1. p \in DOMAIN held /\ held # << >> /\ RevealTick' = RevealTick
    BY <1>2
  <2>2. PICK i \in RevealedQuery(held[p]) : replyStates[queries[i].slot].expectedReveal = RevealTick
    BY <2>1 DEF HeldInv, CommittedIsHeld, RevealTick
  <2>3. i \in RevealedQuery(held[p])'
    BY <1>1, <2>2
  <2>4. i \in QueryIndices /\ queries[i].status = "COMMITTED"
    BY <2>2 DEF RevealedQuery, RevealInOrder
  <2>5. (replyStates[queries[i].slot].expectedReveal)' = RevealTick'
    BY <2>1, <2>2, <2>4 DEF SameCommitted
  <2>6. \A q \in DOMAIN held : held[p].id = held[q].id => p = q
    BY <2>1 DEF HeldInv, CommittedIsHeld
  <2> QED
    BY <2>3, <2>5, <2>6
<1>3. ASSUME NEW i \in QueryIndices', queries'[i].status = "COMMITTED"
      PROVE  \E p \in DOMAIN held' : i \in RevealedQuery(held[p])'
  <2>1. i \in QueryIndices /\ queries[i].status = "COMMITTED"
    BY <1>3 DEF SameCommitted
  <2>2. PICK p \in DOMAIN held : i \in RevealedQuery(held[p])
    BY <2>1 DEF HeldInv, CommittedIsHeld
  <2> QED
    BY <1>1, <2>2
<1>4. CommittedIsHeld'
  BY <1>2, <1>3 DEF CommittedIsHeld, RevealTick
<1> QED
  BY <1>4 DEF HeldInv

LEMMA UntouchedCommitted ==
  ASSUME queries' = queries, replyStates' = replyStates
  PROVE  SameCommitted
BY DEF SameCommitted, QueryIndices

\* A query that starts takes a free slot, and no committed query has one.
LEMMA StartedCommitted ==
  ASSUME PoolInv, NEW subscription, NEW targets, NEW timeout, NEW bytes,
         StartQuery(subscription, targets, timeout, bytes)
  PROVE  SameCommitted
<1>1. queries \in Seq(Query) /\ QueryIndices = 1 .. Len(queries) /\ Len(queries) \in Nat
      /\ replyStates \in [Slots -> AnyReplyState] /\ QueryIndices = DOMAIN queries
  BY PoolFacts DEF PoolInv, PoolTypes, QueryIndices
<1>2. PICK s \in Slots :
        /\ IsEmptyReplyStateSlot(s)
        /\ queries' = Append(queries,
             [id |-> <<tick, NextIndexInTick>>, subscription |-> subscription,
              targets |-> targets, status |-> "PENDING", flags |-> {},
              timeout |-> timeout, slot |-> s, value |-> NoValue,
              agreeing |-> 0, total |-> 0])
        /\ replyStates' = [replyStates EXCEPT ![s] = [Free EXCEPT !.query = Len(queries) + 1]]
  BY DEF StartQuery
<1> DEFINE q == [id |-> <<tick, NextIndexInTick>>, subscription |-> subscription,
                 targets |-> targets, status |-> "PENDING", flags |-> {},
                 timeout |-> timeout, slot |-> s, value |-> NoValue,
                 agreeing |-> 0, total |-> 0]
<1>3. q.status = "PENDING" /\ queries' = Append(queries, q)
  BY <1>2
<1> HIDE DEF q
<1>4. /\ DOMAIN queries' = 1 .. Len(queries) + 1 /\ queries'[Len(queries) + 1] = q
      /\ \A i \in QueryIndices : queries'[i] = queries[i]
  BY <1>1, <1>3
<1>5. QueryIndices' = QueryIndices \cup {Len(queries) + 1}
  BY <1>1, <1>4 DEF QueryIndices
<1>6. ASSUME NEW i \in QueryIndices, queries[i].status = "COMMITTED"
      PROVE  replyStates'[queries[i].slot] = replyStates[queries[i].slot]
  <2>1. queries[i].slot \in Slots /\ replyStates[queries[i].slot].query = i /\ i # 0
    BY <1>1, <1>6, PoolFacts, OpenFacts, StatusTypes DEF IsOpen
  <2>2. queries[i].slot # s
    BY <1>2, <2>1 DEF IsEmptyReplyStateSlot
  <2> QED
    BY <1>1, <1>2, <2>1, <2>2
<1> QED
  BY <1>3, <1>4, <1>5, <1>6 DEF SameCommitted

LEMMA RejectedCommitted ==
  ASSUME PoolInv, NEW i \in QueryIndices, RejectMachineReply(i)
  PROVE  SameCommitted
<1>1. queries \in Seq(Query) /\ QueryIndices = DOMAIN queries /\ queries[i] \in Query
  BY PoolFacts DEF PoolInv, PoolTypes, QueryIndices
<1> DEFINE f == queries[i].flags \cup {"REPLY_REJECTED"}
<1>2. queries' = [queries EXCEPT ![i].flags = f] /\ replyStates' = replyStates
      /\ queries[i].status = "PENDING"
  BY DEF RejectMachineReply, Flag, slotVars
<1> HIDE DEF f
<1>3. DOMAIN queries' = DOMAIN queries /\ \A j \in DOMAIN queries :
        /\ queries'[j].status = queries[j].status /\ queries'[j].id = queries[j].id
        /\ queries'[j].slot = queries[j].slot
  BY <1>1, <1>2 DEF Query
<1> QED
  BY <1>1, <1>2, <1>3 DEF SameCommitted, QueryIndices

\* The lists stay good while time passes.
LEMMA ListsStay ==
  ASSUME SubInv, now \in Nat, now' \in Nat, now <= now',
         subscribers' = subscribers, nextSubscriptionIdQueue' = nextSubscriptionIdQueue,
         subscriptions' \in Seq(Subscription), Len(subscriptions') = Len(subscriptions),
         \A k \in DOMAIN subscriptions : /\ subscriptions'[k].list = subscriptions[k].list
                                         /\ subscriptions'[k].next = subscriptions[k].next
  PROVE  SubInv' /\ DOMAIN subscriptions' = DOMAIN subscriptions
<1>1. /\ subscriptions \in Seq(Subscription) /\ subscribers \in Seq(Subscriber)
      /\ Len(subscriptions) <= MaxSubscriptions /\ Len(subscribers) <= MaxSubscribers
      /\ nextSubscriptionIdQueue \subseteq DOMAIN subscriptions
  BY DEF SubInv, SubTypes
<1>2. DOMAIN subscriptions' = DOMAIN subscriptions
  BY <1>1
<1>3. SubTypes'
  BY <1>1, <1>2 DEF SubTypes
<1>4. ASSUME NEW k \in DOMAIN subscriptions
      PROVE  ListGood(k, subscriptions'[k], subscribers', now')
  <2> DEFINE sub == subscriptions[k]
             new == subscriptions'[k]
             later == now'
  <2>1. /\ new.list = sub.list /\ new.next = sub.next /\ ListGood(k, sub, subscribers, now)
        /\ later \in Int /\ now \in Int /\ now <= later
    BY DEF SubInv
  <2> HIDE DEF sub, new, later
  <2>2. ListGood(k, new, subscribers, later)
    BY <1>1, <2>1, ListStays
  <2> QED
    BY <2>2 DEF new, later
<1>5. \A k \in DOMAIN subscriptions : k \in nextSubscriptionIdQueue <=> subscriptions[k].list # << >>
  BY DEF SubInv
<1>6. (\A k \in DOMAIN subscriptions :
         /\ ListGood(k, subscriptions[k], subscribers, now)
         /\ k \in nextSubscriptionIdQueue <=> subscriptions[k].list # << >>)'
  BY <1>2, <1>4, <1>5
<1> QED
  BY <1>2, <1>3, <1>6 DEF SubInv

LEMMA ListsUnchanged ==
  ASSUME SubInv, now \in Nat, now' \in Nat, now <= now', UNCHANGED subVars
  PROVE  SubInv' /\ DOMAIN subscriptions' = DOMAIN subscriptions
<1>1. subscriptions \in Seq(Subscription)
  BY DEF SubInv, SubTypes
<1> QED
  BY <1>1, ListsStay DEF subVars

\* The clock and the tables that SimInv tells apart, by name.
LEMMA SimFacts ==
  ASSUME SimInv
  PROVE  /\ EngineInv /\ SubInv /\ HeldInv /\ DeadlinesAreMet /\ QueriesKnown /\ CatchInv
         /\ PoolInv /\ IdInv /\ NoteInv /\ tick \in Nat /\ now \in Nat /\ phase \in Phases
         /\ pendingCommitReplyStateIndices = {}
         /\ notificationCursor # 0 => phase \in {"deliver", "faulted"}
BY DEF SimInv, EngineInv, PoolInv, PoolTypes

\* A step of a contract or an answer, within a phase.
LEMMA SimContinues ==
  ASSUME SimInv, EngineInv', SubInv', Continues(0), SameCommitted, held' = held, phase' = phase,
         DOMAIN subscriptions \subseteq DOMAIN subscriptions',
         pendingCommitReplyStateIndices' = {},
         notificationCursor' # 0 => phase \in {"deliver", "faulted"},
         phase = "provider" => QueryIndices' = QueryIndices,
         phase \in {"generate", "timeouts", "provider"} =>
           /\ subscribers' = subscribers
           /\ \A k \in DOMAIN subscriptions : subscriptions'[k].list = subscriptions[k].list
  PROVE  SimInv'
<1>1. PoolInv /\ PoolInv' /\ tick' = tick
  BY SimFacts DEF EngineInv, Continues, clockVars
<1>2. RevealTick' = RevealTick
  BY <1>1 DEF RevealTick
<1>3. HeldInv'
  <2>1. HeldInv /\ (phase' \in {"generate", "timeouts"} => held = << >>)
    BY SimFacts DEF HeldInv
  <2> QED
    BY <1>2, <2>1, HeldKept
<1>4. DeadlinesAreMet'
  BY <1>1, SimFacts, DeadlinesKept
<1>5. QueriesKnown'
  BY SimFacts, KnownKept
<1>6. CatchInv'
  BY SimFacts, CatchKept
<1> QED
  BY <1>3, <1>4, <1>5, <1>6, SimFacts DEF SimInv

\* The tick moves on to its next phase, and nothing else happens.
LEMMA PhaseMoves ==
  ASSUME SimInv, UNCHANGED <<queryVars, subVars, held>>, phase' \in Phases,
         held = << >> \/ RevealTick' = RevealTick,
         phase' \in {"generate", "timeouts"} => held = << >>,
         phase' \in {"provider", "deliver", "idle"} => phase \in {"provider", "deliver", "idle"},
         phase' = "provider" => phase = "provider",
         phase' \in {"endEpoch", "txs", "reveal"} => phase \in {"endEpoch", "txs", "reveal"},
         phase' \in {"generate", "timeouts", "provider"} =>
           phase \in {"reveal", "generate", "timeouts", "provider"},
         notificationCursor # 0 => phase' \in {"deliver", "faulted"}
  PROVE  SimInv' /\ Orderly
<1>1. PoolInv /\ tick \in Nat /\ now \in Nat
  BY SimFacts
<1>2. UNCHANGED engineVars /\ UNCHANGED clockVars /\ UNCHANGED subVars /\ tick' = tick /\ now' = now
  BY DEF queryVars, clockVars
<1>3. EngineInv' /\ Steady
  <2>1. EngineInv /\ tick' \in Nat /\ now' \in Nat /\ tick <= tick'
    BY <1>1, <1>2, SimFacts
  <2> QED
    BY <1>2, <2>1, EngineUnchanged
<1>4. PoolInv'
  BY <1>3 DEF EngineInv
<1>5. SubInv' /\ DOMAIN subscriptions' = DOMAIN subscriptions
  <2>1. SubInv /\ now' \in Nat /\ now <= now'
    BY <1>1, <1>2, SimFacts
  <2> QED
    BY <1>1, <1>2, <2>1, ListsUnchanged
<1>6. Continues(0)
  BY <1>2, <1>3, SteadyContinues
<1>7. SameCommitted
  BY <1>2, UntouchedCommitted DEF engineVars, slotVars
<1>8. HeldInv'
  BY <1>7, SimFacts, HeldKept
<1>9. QueryIndices' = QueryIndices
  BY <1>3 DEF Steady
<1>10. DeadlinesAreMet'
  BY <1>1, <1>4, <1>6, <1>9, SimFacts, DeadlinesKept
<1>11. QueriesKnown'
  BY <1>5, <1>6, SimFacts, KnownKept
<1>12. CatchInv'
  BY <1>2, <1>6, SimFacts, CatchKept DEF subVars
<1>13. pendingCommitReplyStateIndices' = {} /\ notificationCursor' = notificationCursor
  BY <1>2, SimFacts DEF engineVars, poolVars, noteVars
<1>14. Orderly
  BY <1>3, SteadyIsOrderly
<1> QED
  BY <1>3, <1>5, <1>8, <1>10, <1>11, <1>12, <1>13, <1>14 DEF SimInv

LEMMA SimQuery ==
  ASSUME SimInv, NEW c \in Contracts, NEW t \in Timeouts, QueryOracle(c, t)
  PROVE  SimInv' /\ Orderly
<1>1. /\ StartContractQuery(c, t) /\ UNCHANGED subVars /\ UNCHANGED <<phase, held>>
      /\ phase \notin {"generate", "timeouts", "provider"}
  BY DEF QueryOracle, ContractsRun
<1>2. UNCHANGED clockVars /\ now' = now
  BY <1>1 DEF StartContractQuery, clockVars
<1>3. PoolInv /\ EngineInv /\ SubInv /\ now \in Nat /\ now <= now' /\ now' \in Nat
  BY <1>2, SimFacts
<1>4. /\ EngineInv' /\ Orderly
      /\ \/ Steady /\ queries' = queries
         \/ \E q \in Query : /\ queries' = Append(queries, q) /\ q.targets = <<c>>
                             /\ q.subscription = 0 /\ q.id[1] = tick /\ q.status = "PENDING"
  BY <1>1, <1>3, EngineContractQuery
<1>5. Continues(0)
  <2>1. CASE Steady
    BY <1>2, <2>1, SteadyContinues
  <2>2. CASE \E q \in Query : /\ queries' = Append(queries, q) /\ q.subscription = 0
                              /\ q.id[1] = tick /\ q.status = "PENDING"
    BY <1>2, <1>3, <1>4, <2>2, StartContinues
  <2> QED
    BY <1>4, <2>1, <2>2
<1>6. SameCommitted /\ UNCHANGED pendingCommitReplyStateIndices /\ UNCHANGED notificationCursor
  <2>1. CASE IdsExhausted \/ Refuses(QuerySize)
    <3>1. /\ UNCHANGED <<queries, queryStorageBytesUsed, slotVars, poolVars, noteVars>>
      BY <1>1, <2>1 DEF StartContractQuery
    <3> QED
      BY <3>1, UntouchedCommitted DEF slotVars, poolVars, noteVars
  <2>2. CASE ~(IdsExhausted \/ Refuses(QuerySize))
    <3> DEFINE timeout == now + t
               targets == <<c>>
    <3>1. StartQuery(0, targets, timeout, QuerySize)
      BY <1>1, <2>2 DEF StartContractQuery
    <3> HIDE DEF timeout, targets
    <3>2. SameCommitted
      BY <1>3, <3>1, StartedCommitted
    <3> QED
      BY <3>1, <3>2 DEF StartQuery
  <2> QED
    BY <2>1, <2>2
<1>7. SubInv' /\ DOMAIN subscriptions' = DOMAIN subscriptions
  BY <1>1, <1>3, ListsUnchanged
<1> QED
  BY <1>1, <1>4, <1>5, <1>6, <1>7, SimFacts, SimContinues

LEMMA SimSubscribe ==
  ASSUME SimInv, NEW c \in Contracts, NEW key \in Keys, NEW period \in Periods,
         SubscribeOracle(c, key, period)
  PROVE  SimInv' /\ Orderly
<1>1. /\ StartContractSubscription(c, key, period) /\ UNCHANGED <<phase, held>>
      /\ phase \notin {"generate", "timeouts", "provider"}
  BY DEF SubscribeOracle, ContractsRun
<1>2. /\ UNCHANGED clockVars /\ UNCHANGED <<queries, idVars, slotVars, poolVars, noteVars>>
      /\ queryStorageBytesUsed' = queryStorageBytesUsed + (IF SubscriptionOf(key) = {} THEN QuerySize ELSE 0)
      /\ ~SubscriptionRefused(c, key)
  BY <1>1 DEF StartContractSubscription
<1>3. PoolInv /\ EngineInv /\ SubInv /\ now \in Nat /\ tick \in Nat
  BY SimFacts
<1>4. SubInv' /\ DOMAIN subscriptions \subseteq DOMAIN subscriptions'
  BY <1>1, <1>3, SubscribeKeeps
<1>5. queryStorageBytesUsed' \in 0 .. StorageSize
  <2>1. queryStorageBytesUsed \in 0 .. StorageSize /\ StorageSize \in Nat /\ QuerySize \in Nat
    BY <1>3, OracleConstants DEF EngineInv
  <2>2. SubscriptionOf(key) = {} => queryStorageBytesUsed + QuerySize <= StorageSize
    BY <1>2, <2>1 DEF SubscriptionRefused
  <2> QED
    BY <1>2, <2>1, <2>2
<1>6. /\ queries' = queries /\ QueryIndices' = QueryIndices /\ replyStates' = replyStates
      /\ replyStatesIndex' = replyStatesIndex /\ contractQueryIdState' = contractQueryIdState
      /\ pendingCommitReplyStateIndices' = pendingCommitReplyStateIndices
      /\ notificationCursor' = notificationCursor /\ UNCHANGED noteVars /\ UNCHANGED poolVars
  BY <1>2 DEF QueryIndices, slotVars, poolVars, noteVars, idVars
<1>7. Steady /\ Continues(0) /\ SameCommitted
  <2>1. Steady
    BY <1>6, StaysMoved DEF Steady
  <2> QED
    BY <1>2, <1>6, <2>1, SteadyContinues, UntouchedCommitted
<1>8. PoolInv'
  <2>1. /\ UNCHANGED <<tick, now, queries, replyStates, pendingQueryIndices,
                       pendingCommitReplyStateIndices, pendingRevealReplyStateIndices>>
    BY <1>2, <1>6 DEF clockVars, poolVars
  <2> QED
    BY <1>3, <2>1 DEF PoolInv, PoolTypes, OwnSlots, WaitingSlots, CountsAreSound, QueryIndices, IsOpen
<1>9. IdInv'
  <2>1. IdInv /\ tick' = tick /\ tick' \in Nat /\ tick <= tick'
    BY <1>2, <1>3, SimFacts DEF clockVars
  <2> QED
    BY <1>3, <1>6, <1>7, <2>1, IdsKept
<1>10. NoteInv'
  BY <1>3, <1>6, <1>7, <1>8, SimFacts, NotesKept
<1>11. EngineInv'
  BY <1>3, <1>5, <1>6, <1>8, <1>9, <1>10 DEF EngineInv
<1>12. Orderly
  BY <1>7, SteadyIsOrderly
<1> QED
  BY <1>1, <1>4, <1>6, <1>7, <1>11, <1>12, SimFacts, SimContinues

LEMMA SimUnsubscribe ==
  ASSUME SimInv, NEW c \in Contracts, NEW k \in DOMAIN subscriptions, UnsubscribeOracle(c, k)
  PROVE  SimInv' /\ Orderly
<1>1. /\ StopContractSubscription(c, k) /\ UNCHANGED <<phase, held>>
      /\ phase \notin {"generate", "timeouts", "provider"}
  BY DEF UnsubscribeOracle, ContractsRun
<1>2. /\ UNCHANGED clockVars /\ UNCHANGED engineVars /\ tick' = tick /\ now' = now
  BY <1>1 DEF StopContractSubscription, queryVars, clockVars
<1>3. EngineInv /\ SubInv /\ now \in Nat /\ tick' \in Nat /\ now' \in Nat /\ tick <= tick'
  BY <1>2, SimFacts
<1>4. SubInv' /\ DOMAIN subscriptions' = DOMAIN subscriptions
  BY <1>1, <1>3, UnsubscribeKeeps
<1>5. EngineInv' /\ Steady
  BY <1>2, <1>3, EngineUnchanged
<1>6. Continues(0) /\ Orderly
  BY <1>2, <1>5, SteadyContinues, SteadyIsOrderly
<1>7. /\ SameCommitted /\ notificationCursor' = notificationCursor
      /\ pendingCommitReplyStateIndices' = pendingCommitReplyStateIndices
  BY <1>2, UntouchedCommitted DEF engineVars, slotVars, poolVars, noteVars
<1> QED
  BY <1>1, <1>4, <1>5, <1>6, <1>7, SimFacts, SimContinues

LEMMA SimUnavailable ==
  ASSUME SimInv, NEW i \in QueryIndices, AnswerUnavailable(i)
  PROVE  SimInv' /\ Orderly
<1>1. RejectMachineReply(i) /\ UNCHANGED subVars /\ UNCHANGED <<phase, held>>
  BY DEF AnswerUnavailable
<1>2. UNCHANGED clockVars /\ now' = now
  BY <1>1 DEF RejectMachineReply, clockVars
<1>3. PoolInv /\ EngineInv /\ SubInv /\ now \in Nat /\ now' \in Nat /\ now <= now'
  BY <1>2, SimFacts
<1>4. EngineInv' /\ Steady
  BY <1>1, <1>3, EngineRejectReply
<1>5. Continues(0) /\ Orderly /\ QueryIndices' = QueryIndices
  BY <1>2, <1>4, SteadyContinues, SteadyIsOrderly DEF Steady
<1>6. SameCommitted
  BY <1>1, <1>3, RejectedCommitted
<1>7. SubInv' /\ DOMAIN subscriptions' = DOMAIN subscriptions
  BY <1>1, <1>3, ListsUnchanged
<1>8. /\ notificationCursor' = notificationCursor
      /\ pendingCommitReplyStateIndices' = pendingCommitReplyStateIndices
      /\ subscribers' = subscribers /\ subscriptions' = subscriptions
  BY <1>1 DEF RejectMachineReply, Flag, poolVars, noteVars, subVars
<1> QED
  BY <1>1, <1>4, <1>5, <1>6, <1>7, <1>8, SimFacts, SimContinues

LEMMA SimDeliver ==
  ASSUME SimInv, NEW i \in notificationQueue, Deliver(i)
  PROVE  SimInv' /\ Orderly
<1>1. GetNotification(i) /\ UNCHANGED subVars /\ UNCHANGED <<phase, held>> /\ phase = "deliver"
  BY DEF Deliver
<1>2. UNCHANGED clockVars /\ now' = now
  BY <1>1 DEF GetNotification, clockVars
<1>3. PoolInv /\ EngineInv /\ SubInv /\ now \in Nat /\ now' \in Nat /\ now <= now'
  BY <1>2, SimFacts
<1>4. i \in QueryIndices
  BY <1>3 DEF EngineInv, NoteInv
<1>5. EngineInv' /\ Steady
  BY <1>1, <1>3, <1>4, EngineNotification
<1>6. Continues(0) /\ Orderly
  BY <1>2, <1>5, SteadyContinues, SteadyIsOrderly
<1>7. SameCommitted /\ pendingCommitReplyStateIndices' = pendingCommitReplyStateIndices
  BY <1>1, UntouchedCommitted DEF GetNotification, slotVars, poolVars
<1>8. SubInv' /\ DOMAIN subscriptions' = DOMAIN subscriptions
  BY <1>1, <1>3, ListsUnchanged
<1> QED
  BY <1>1, <1>5, <1>6, <1>7, <1>8, SimFacts, SimContinues

\* An id names one query.
LEMMA IdsDistinct ==
  ASSUME PoolInv, IdInv, NEW i \in QueryIndices, NEW j \in QueryIndices, queries[i].id = queries[j].id
  PROVE  i = j
<1>1. QueryIndices = 1 .. Len(queries) /\ Len(queries) \in Nat /\ queries[i] \in Query /\ queries[j] \in Query
  BY PoolFacts
<1>2. queries[i].id[1] \in Nat /\ queries[i].id[2] \in Nat
  <2>1. queries[i].id \in Nat \X Nat
    BY <1>1, QueryTypes
  <2> QED
    BY <2>1
<1>3. ~(i < j) /\ ~(j < i)
  BY <1>2 DEF IdInv, IdsGrow
<1> QED
  BY <1>1, <1>3

LEMMA SimAnswer ==
  ASSUME SimInv, NEW i \in QueryIndices, NEW value \in Values, AnswerQuery(i, value)
  PROVE  SimInv' /\ Orderly
<1> DEFINE new == [id |-> queries[i].id, value |-> value]
<1>1. /\ phase \in {"idle", "provider"} /\ queries[i].status = "PENDING"
      /\ held' = Append(held, new) /\ UNCHANGED subVars /\ phase' = phase
      /\ UNCHANGED clockVars /\ now' = now /\ tick' = tick
      /\ UNCHANGED <<pendingCommitReplyStateIndices, notificationCursor>>
  BY DEF AnswerQuery, AnswersArrive, clockVars, noteVars
<1>2. PoolInv /\ EngineInv /\ IdInv /\ SubInv /\ HeldInv /\ now \in Nat /\ tick \in Nat /\ now' \in Nat
      /\ now <= now' /\ pendingCommitReplyStateIndices = {}
  BY <1>1, SimFacts
<1>3. /\ EngineInv' /\ Steady /\ queries'[i].status = "COMMITTED"
      /\ replyStates' = [replyStates EXCEPT ![queries[i].slot] =
           AnsweredState(replyStates[queries[i].slot], value)]
      /\ \A j \in QueryIndices : j # i => queries'[j] = queries[j]
  BY <1>2, AnswerKeeps
<1>4. Continues(0) /\ Orderly /\ QueryIndices' = QueryIndices
  BY <1>1, <1>3, SteadyContinues, SteadyIsOrderly DEF Steady
<1>5. SubInv' /\ DOMAIN subscriptions' = DOMAIN subscriptions
  BY <1>1, <1>2, ListsUnchanged
<1>6. held \in Seq([id : Nat \X Nat, value : Values]) /\ CommittedIsHeld
  BY <1>2 DEF HeldInv
<1>7. queries[i] \in Query /\ queries[i].slot \in Slots /\ IsOpen(i)
      /\ replyStates \in [Slots -> AnyReplyState]
  BY <1>1, <1>2, PoolFacts, StatusTypes DEF IsOpen, PoolInv, PoolTypes
<1>8. new \in [id : Nat \X Nat, value : Values] /\ new.id = queries[i].id /\ new.value = value
  BY <1>7, QueryTypes
<1> HIDE DEF new
<1>n. PICK n \in Nat : n = Len(held)
  BY <1>6
<1>9. /\ held' \in Seq([id : Nat \X Nat, value : Values])
      /\ DOMAIN held = 1 .. n /\ DOMAIN held' = 1 .. n + 1 /\ n + 1 \notin 1 .. n
      /\ held'[n + 1] = new /\ \A p \in DOMAIN held : held'[p] = held[p]
      /\ \A p \in DOMAIN held' : p \in DOMAIN held \/ p = n + 1
  BY <1>1, <1>6, <1>8, <1>n
<1>10. RevealTick = tick + 1 /\ RevealTick' = tick + 1
  BY <1>1 DEF RevealTick
<1>11. replyStates[queries[i].slot] \in ReplyState /\ replyStates[queries[i].slot].query = i
  BY <1>2, <1>7, OpenFacts
<1> DEFINE a == AnsweredState(replyStates[queries[i].slot], value)
<1>12. a.query = i /\ a.most = value /\ a.expectedReveal = tick + 1
  BY <1>2, <1>11, AnsweredFacts
<1> HIDE DEF a
<1>13. /\ queries'[i].slot = queries[i].slot /\ queries'[i].id = queries[i].id
       /\ replyStates'[queries[i].slot] = a
  BY <1>3, <1>7 DEF Steady, Moved, a
<1>14. ASSUME NEW p \in DOMAIN held, NEW j \in RevealedQuery(held[p])
       PROVE  /\ j \in RevealedQuery(held[p])' /\ j # i /\ queries[j].id = held[p].id /\ j \in QueryIndices
              /\ queries'[j] = queries[j] /\ replyStates'[queries[j].slot] = replyStates[queries[j].slot]
  <2>1. /\ j \in QueryIndices /\ queries[j].id = held[p].id /\ RevealInOrder(j, held[p].value)
        /\ queries[j].status = "COMMITTED" /\ j # i
    BY <1>1, <1>14 DEF RevealedQuery, RevealInOrder
  <2>2. IsOpen(j) /\ queries[j].slot \in Slots
    BY <1>2, <2>1, PoolFacts, StatusTypes DEF IsOpen
  <2>3. queries[j].slot # queries[i].slot
    BY <1>2, <1>7, <2>1, <2>2, PoolFacts
  <2>4. queries'[j] = queries[j] /\ replyStates'[queries[j].slot] = replyStates[queries[j].slot]
    BY <1>3, <1>7, <2>1, <2>2, <2>3
  <2>5. held'[p] = held[p]
    BY <1>9
  <2> QED
    BY <1>4, <2>1, <2>4, <2>5 DEF RevealedQuery, RevealInOrder
<1>15. i \in RevealedQuery(held[n + 1])'
  BY <1>3, <1>4, <1>8, <1>9, <1>12, <1>13 DEF RevealedQuery, RevealInOrder
<1>16. ASSUME NEW p \in DOMAIN held'
       PROVE  /\ \E j \in RevealedQuery(held[p])' : (replyStates[queries[j].slot].expectedReveal)' = RevealTick'
              /\ \A q \in DOMAIN held' : held'[p].id = held'[q].id => p = q
  <2>0. ASSUME NEW q \in DOMAIN held PROVE held[q].id # new.id
    <3>1. PICK j \in RevealedQuery(held[q]) : TRUE
      BY <1>6 DEF CommittedIsHeld
    <3> QED
      BY <1>2, <1>8, <1>14, <3>1, IdsDistinct
  <2>1. CASE p \in DOMAIN held
    <3>1. PICK j \in RevealedQuery(held[p]) : replyStates[queries[j].slot].expectedReveal = RevealTick
      BY <1>6, <2>1 DEF CommittedIsHeld, RevealTick
    <3>2. j \in RevealedQuery(held[p])' /\ (replyStates[queries[j].slot].expectedReveal)' = RevealTick'
      BY <1>10, <1>14, <2>1, <3>1
    <3>3. \A q \in DOMAIN held : held[p].id = held[q].id => p = q
      BY <1>6, <2>1 DEF CommittedIsHeld
    <3>4. ASSUME NEW q \in DOMAIN held', held'[p].id = held'[q].id PROVE p = q
      <4>1. CASE q \in DOMAIN held
        BY <1>9, <2>1, <3>3, <3>4, <4>1
      <4>2. CASE q = n + 1
        BY <1>9, <2>0, <2>1, <3>4, <4>2
      <4> QED
        BY <1>9, <4>1, <4>2
    <3> QED
      BY <3>2, <3>4
  <2>2. CASE p = n + 1
    <3>1. (replyStates[queries[i].slot].expectedReveal)' = RevealTick'
      BY <1>10, <1>12, <1>13
    <3>2. ASSUME NEW q \in DOMAIN held', held'[p].id = held'[q].id PROVE p = q
      <4>1. q \in DOMAIN held => held'[q].id # new.id
        BY <1>9, <2>0
      <4>2. held'[p] = new
        BY <1>9, <2>2
      <4> QED
        BY <1>9, <2>2, <3>2, <4>1, <4>2
    <3>3. i \in RevealedQuery(held[p])'
      BY <1>15, <2>2
    <3> QED
      BY <3>1, <3>2, <3>3
  <2> QED
    BY <1>9, <2>1, <2>2
<1>17. ASSUME NEW j \in QueryIndices', queries'[j].status = "COMMITTED"
       PROVE  \E p \in DOMAIN held' : j \in RevealedQuery(held[p])'
  <2>1. CASE j = i
    <3>1. n + 1 \in DOMAIN held'
      BY <1>9
    <3>2. j \in RevealedQuery(held[n + 1])'
      BY <1>15, <2>1
    <3> QED
      BY ONLY <3>1, <3>2
  <2>2. CASE j # i
    <3>1. j \in QueryIndices /\ queries[j].status = "COMMITTED"
      BY <1>3, <1>4, <1>17, <2>2
    <3>2. PICK p \in DOMAIN held : j \in RevealedQuery(held[p])
      BY <1>6, <3>1 DEF CommittedIsHeld
    <3> QED
      BY <1>9, <1>14, <3>2
  <2> QED
    BY <2>1, <2>2
<1>18. CommittedIsHeld'
  BY <1>16, <1>17 DEF CommittedIsHeld, RevealTick
<1>19. HeldInv'
  BY <1>1, <1>9, <1>18 DEF HeldInv
<1>20. DeadlinesAreMet'
  <2>1. PoolInv'
    BY <1>3 DEF EngineInv
  <2> QED
    BY <1>1, <1>2, <1>4, <2>1, SimFacts, DeadlinesKept
<1>21. QueriesKnown'
  BY <1>4, <1>5, SimFacts, KnownKept
<1>22. CatchInv'
  BY <1>1, <1>4, SimFacts, CatchKept DEF subVars
<1> QED
  BY <1>1, <1>2, <1>3, <1>4, <1>5, <1>19, <1>20, <1>21, <1>22, SimFacts DEF SimInv

LEMMA SimEnterTick ==
  ASSUME SimInv, EnterTick
  PROVE  SimInv' /\ Orderly
<1>1. /\ phase = "idle" /\ NextTick /\ phase' \in {"txs", "endEpoch"} /\ UNCHANGED subVars
      /\ held' = held /\ tick' = tick + 1 /\ UNCHANGED engineVars
  BY DEF EnterTick, NextTick
<1>2. PoolInv /\ EngineInv /\ IdInv /\ SubInv /\ HeldInv /\ QueriesKnown /\ now \in Nat /\ tick \in Nat
  BY SimFacts
<1>3. now' \in Nat /\ now <= now'
  <2>1. PICK d \in TimeSteps : now' = now + d
    BY <1>1 DEF NextTick
  <2> QED
    BY <1>2, <2>1, OracleConstants
<1>4. EngineInv' /\ Steady
  BY <1>1, <1>2, EngineNextTick
<1>5. SubInv' /\ DOMAIN subscriptions' = DOMAIN subscriptions
  BY <1>1, <1>2, <1>3, ListsUnchanged
<1>6. SameCommitted /\ queries' = queries /\ QueryIndices' = QueryIndices
  BY <1>1, UntouchedCommitted DEF engineVars, slotVars, QueryIndices
<1>7. HeldInv'
  <2>1. RevealTick' = RevealTick
    BY <1>1 DEF RevealTick
  <2> QED
    BY <1>1, <1>2, <1>6, <2>1, HeldKept
<1>8. DeadlinesAreMet'
  BY <1>1 DEF DeadlinesAreMet
<1>9. QueriesKnown'
  BY <1>2, <1>5, <1>6 DEF QueriesKnown
<1>10. \A j \in QueryIndices : queries[j].id[1] # tick + 1
  <2> TAKE j \in QueryIndices
  <2>1. queries[j].id \in Nat \X Nat
    BY <1>2, PoolFacts, QueryTypes
  <2>2. queries[j].id[1] <= contractQueryIdState.tick
    BY <1>2, <2>1 DEF IdInv, IdTypes
  <2>3. contractQueryIdState.tick \in Int /\ contractQueryIdState.tick <= tick
    BY <1>2 DEF IdInv, IdTypes
  <2> QED
    BY <1>2, <2>1, <2>2, <2>3
<1>11. CatchInv'
  BY <1>1, <1>6, <1>10 DEF CatchInv
<1>12. pendingCommitReplyStateIndices' = {} /\ notificationCursor' = 0 /\ phase' \in Phases
  BY <1>1, SimFacts DEF engineVars, poolVars, noteVars, Phases
<1>13. Orderly
  BY <1>4, SteadyIsOrderly
<1> QED
  BY <1>4, <1>5, <1>7, <1>8, <1>9, <1>11, <1>12, <1>13 DEF SimInv

LEMMA ListsEmpty == subscriptions = << >> /\ subscribers = << >> /\ nextSubscriptionIdQueue = {} => SubInv
<1> SUFFICES ASSUME subscriptions = << >>, subscribers = << >>, nextSubscriptionIdQueue = {} PROVE SubInv
  OBVIOUS
<1>1. << >> \in Seq(Subscription) /\ << >> \in Seq(Subscriber) /\ Len(<< >>) = 0 /\ DOMAIN << >> = {}
  OBVIOUS
<1> QED
  BY <1>1, SubscriptionConstants DEF SubInv, SubTypes

LEMMA SimBeginEpoch ==
  ASSUME SimInv, RunBeginEpoch
  PROVE  SimInv' /\ Orderly
<1>1. /\ phase' = "txs" /\ BeginEpoch /\ ResetSubscriptions /\ held' = << >>
  BY DEF RunBeginEpoch
<1>2. EngineInv' /\ Orderly /\ notificationCursor' = 0 /\ QueryIndices' = {} /\ queries' = << >>
  BY <1>1, SimFacts, EngineReset
<1>3. SubInv'
  <2>1. (subscriptions = << >> /\ subscribers = << >> /\ nextSubscriptionIdQueue = {})'
    BY <1>1 DEF ResetSubscriptions
  <2> QED
    BY <2>1, ListsEmpty, PTL
<1>4. HeldInv'
  <2>1. << >> \in Seq([id : Nat \X Nat, value : Values]) /\ DOMAIN << >> = {}
    OBVIOUS
  <2> QED
    BY <1>1, <1>2, <2>1 DEF HeldInv, CommittedIsHeld
<1>5. DeadlinesAreMet' /\ QueriesKnown' /\ CatchInv'
  BY <1>1, <1>2 DEF DeadlinesAreMet, QueriesKnown, CatchInv
<1>6. pendingCommitReplyStateIndices' = {} /\ phase' \in Phases
  BY <1>1 DEF BeginEpoch, ResetEngine, Phases
<1> QED
  BY <1>2, <1>3, <1>4, <1>5, <1>6 DEF SimInv

LEMMA SimReveal ==
  ASSUME SimInv, RevealHeld
  PROVE  SimInv' /\ Orderly
<1>1. phase = "reveal" /\ phase' = phase /\ held # << >> /\ held' = Tail(held)
  BY DEF RevealHeld
<1>2. PoolInv /\ EngineInv /\ IdInv /\ SubInv /\ HeldInv /\ QueriesKnown /\ now \in Nat /\ tick \in Nat
      /\ notificationCursor = 0
  BY <1>1, SimFacts
<1>3. held \in Seq([id : Nat \X Nat, value : Values]) /\ CommittedIsHeld
  BY <1>2 DEF HeldInv
<1>4. PICK n \in Nat : n + 1 = Len(held)
  <2>1. Len(held) \in Nat /\ Len(held) # 0
    BY <1>1, <1>3
  <2>2. Len(held) - 1 \in Nat /\ Len(held) - 1 + 1 = Len(held)
    BY <2>1
  <2> QED
    BY <2>2
<1>5. /\ DOMAIN held = 1 .. n + 1 /\ 1 \in DOMAIN held /\ Head(held) = held[1]
      /\ held' \in Seq([id : Nat \X Nat, value : Values]) /\ DOMAIN held' = 1 .. n
      /\ \A p \in 1 .. n : held'[p] = held[p + 1] /\ p + 1 \in DOMAIN held
  BY <1>1, <1>3, <1>4
<1>6. RevealedQuery(held[1]) # {} /\ held[1].value \in Values
  <2>1. held[1] \in [id : Nat \X Nat, value : Values]
    <3> DEFINE S == [id : Nat \X Nat, value : Values]
    <3>1. held \in Seq(S) /\ 1 \in 1 .. Len(held)
      BY <1>3, <1>4
    <3> HIDE DEF S
    <3>2. held[1] \in S
      BY <3>1
    <3> QED
      BY <3>2 DEF S
  <2> QED
    BY <1>3, <1>5, <2>1 DEF CommittedIsHeld
<1> DEFINE value == held[1].value
<1>7. PICK i \in RevealedQuery(held[1]) : ProcessRevealNoted(i, value)
  BY <1>5, <1>6 DEF RevealHeld
<1>8. i \in QueryIndices /\ queries[i].id = held[1].id /\ queries[i].status = "COMMITTED" /\ value \in Values
  BY <1>6, <1>7 DEF RevealedQuery, RevealInOrder
<1> HIDE DEF value
<1>9. ProcessReveal(i, value) /\ UNCHANGED <<subscribers, nextSubscriptionIdQueue>>
  BY <1>7 DEF ProcessRevealNoted
<1>10. EngineInv' /\ Steady /\ notificationCursor' = 0 /\ ~IsOpen(i)'
  BY <1>2, <1>8, <1>9, EngineReveal
<1>11. UNCHANGED clockVars /\ now' = now /\ tick' = tick /\ UNCHANGED pendingCommitReplyStateIndices
  BY <1>9 DEF ProcessReveal, clockVars
<1>12. Continues(0) /\ Orderly /\ QueryIndices' = QueryIndices
  BY <1>10, <1>11, SteadyContinues, SteadyIsOrderly DEF Steady
<1>13. SubInv' /\ DOMAIN subscriptions' = DOMAIN subscriptions
  <2> DEFINE k == queries[i].subscription
  <2>1. subscriptions' = IF k # 0 /\ Revealed(i, value).status = "SUCCESS"
                           THEN [subscriptions EXCEPT ![k].lastRevealed = i] ELSE subscriptions
    BY <1>7 DEF ProcessRevealNoted
  <2>2. k # 0 => k \in DOMAIN subscriptions
    BY <1>2, <1>8 DEF QueriesKnown
  <2>3. i \in Nat /\ subscriptions \in Seq(Subscription)
    BY <1>2, <1>8, PoolFacts DEF SubInv, SubTypes
  <2> HIDE DEF k
  <2>4. /\ subscriptions' \in Seq(Subscription) /\ Len(subscriptions') = Len(subscriptions)
        /\ \A m \in DOMAIN subscriptions : /\ subscriptions'[m].list = subscriptions[m].list
                                           /\ subscriptions'[m].next = subscriptions[m].next
    <3>1. CASE k # 0 /\ Revealed(i, value).status = "SUCCESS"
      <4> DEFINE new == [subscriptions[k] EXCEPT !.lastRevealed = i]
      <4>1. subscriptions[k] \in Subscription
        BY <2>2, <2>3, <3>1
      <4>2. new \in Subscription /\ new.list = subscriptions[k].list /\ new.next = subscriptions[k].next
        BY <2>3, <4>1 DEF Subscription
      <4>3. subscriptions' = [subscriptions EXCEPT ![k] = new]
        BY <2>1, <3>1
      <4> HIDE DEF new
      <4> QED
        BY <2>2, <2>3, <3>1, <4>2, <4>3
    <3>2. CASE ~(k # 0 /\ Revealed(i, value).status = "SUCCESS")
      BY <2>1, <2>3, <3>2
    <3> QED
      BY <3>1, <3>2
  <2> QED
    BY <1>2, <1>9, <1>11, <2>4, ListsStay
<1>14. replyStates' = [replyStates EXCEPT ![queries[i].slot] = Free]
  BY <1>2, <1>8, <1>9, ReleaseOne DEF ProcessReveal
<1>15. \A j \in QueryIndices : j # i => queries'[j] = queries[j]
  <2>1. queries' = [queries EXCEPT ![i] = Revealed(i, value)]
    BY <1>9 DEF ProcessReveal
  <2>2. queries \in Seq(Query) /\ QueryIndices = DOMAIN queries
    BY <1>2 DEF PoolInv, PoolTypes, QueryIndices
  <2> DEFINE q == Revealed(i, value)
  <2> HIDE DEF q
  <2>3. queries' = [queries EXCEPT ![i] = q]
    BY <2>1 DEF q
  <2> QED
    BY <2>2, <2>3
<1>16. ASSUME NEW p \in 1 .. n, NEW j \in RevealedQuery(held[p + 1])
       PROVE  /\ j \in RevealedQuery(held[p])' /\ j # i /\ j \in QueryIndices
              /\ queries'[j] = queries[j] /\ replyStates'[queries[j].slot] = replyStates[queries[j].slot]
  <2>1. /\ j \in QueryIndices /\ queries[j].id = held[p + 1].id /\ RevealInOrder(j, held[p + 1].value)
        /\ queries[j].status = "COMMITTED"
    BY <1>16 DEF RevealedQuery, RevealInOrder
  <2>2. held[p + 1].id # held[1].id
    <3>1. p + 1 # 1 /\ p + 1 \in DOMAIN held
      BY <1>5
    <3> QED
      BY <1>3, <1>5, <3>1 DEF CommittedIsHeld
  <2>3. j # i
    BY <1>8, <2>1, <2>2
  <2>4. IsOpen(j) /\ IsOpen(i) /\ queries[j].slot \in Slots /\ replyStates \in [Slots -> AnyReplyState]
    BY <1>2, <1>8, <2>1, PoolFacts, StatusTypes DEF IsOpen, PoolInv, PoolTypes
  <2>5. queries[j].slot # queries[i].slot
    BY <1>2, <1>8, <2>1, <2>3, <2>4, PoolFacts
  <2>6. queries'[j] = queries[j] /\ replyStates'[queries[j].slot] = replyStates[queries[j].slot]
    BY <1>14, <1>15, <2>1, <2>3, <2>4, <2>5
  <2>7. held'[p] = held[p + 1]
    BY <1>5
  <2> QED
    BY <1>12, <2>1, <2>3, <2>6, <2>7 DEF RevealedQuery, RevealInOrder
<1>17. RevealTick = tick /\ RevealTick' = tick
  BY <1>1, <1>11 DEF RevealTick
<1>18. ASSUME NEW p \in DOMAIN held'
       PROVE  /\ \E j \in RevealedQuery(held[p])' : (replyStates[queries[j].slot].expectedReveal)' = RevealTick'
              /\ \A q \in DOMAIN held' : held'[p].id = held'[q].id => p = q
  <2>1. p \in 1 .. n /\ p + 1 \in DOMAIN held
    BY <1>5
  <2>2. PICK j \in RevealedQuery(held[p + 1]) : replyStates[queries[j].slot].expectedReveal = RevealTick
    BY <1>3, <2>1 DEF CommittedIsHeld, RevealTick
  <2>3. j \in RevealedQuery(held[p])' /\ (replyStates[queries[j].slot].expectedReveal)' = RevealTick'
    BY <1>16, <1>17, <2>1, <2>2
  <2>4. \A q \in DOMAIN held : held[p + 1].id = held[q].id => p + 1 = q
    BY <1>3, <2>1 DEF CommittedIsHeld
  <2>5. ASSUME NEW q \in DOMAIN held', held'[p].id = held'[q].id PROVE p = q
    <3>1. q \in 1 .. n /\ q + 1 \in DOMAIN held /\ held[p + 1].id = held[q + 1].id
      BY <1>5, <2>1, <2>5
    <3>2. p + 1 = q + 1
      BY <2>4, <3>1
    <3> QED
      BY <2>1, <3>1, <3>2
  <2> QED
    BY <2>3, <2>5
<1>19. ASSUME NEW j \in QueryIndices', queries'[j].status = "COMMITTED"
       PROVE  \E p \in DOMAIN held' : j \in RevealedQuery(held[p])'
  <2>1. j # i /\ j \in QueryIndices
    BY <1>10, <1>12, <1>19, StatusTypes DEF IsOpen
  <2>2. queries[j].status = "COMMITTED"
    BY <1>15, <1>19, <2>1
  <2>3. PICK p \in DOMAIN held : j \in RevealedQuery(held[p])
    BY <1>3, <2>1, <2>2 DEF CommittedIsHeld
  <2>4. p # 1
    <3> SUFFICES ASSUME p = 1 PROVE FALSE
      OBVIOUS
    <3>1. queries[j].id = queries[i].id
      BY <1>8, <2>3 DEF RevealedQuery
    <3> QED
      BY <1>2, <1>8, <2>1, <3>1, IdsDistinct
  <2>5. p - 1 \in 1 .. n /\ p - 1 + 1 = p
    BY <1>5, <2>3, <2>4
  <2> DEFINE m == p - 1
  <2> HIDE DEF m
  <2>6. j \in RevealedQuery(held[m])'
    BY <1>16, <2>3, <2>5 DEF m
  <2> QED
    BY <1>5, <2>5, <2>6 DEF m
<1>20. HeldInv'
  <2>1. CommittedIsHeld'
    BY <1>18, <1>19 DEF CommittedIsHeld, RevealTick
  <2> QED
    BY <1>1, <1>5, <2>1 DEF HeldInv
<1>21. DeadlinesAreMet'
  BY <1>1 DEF DeadlinesAreMet
<1>22. QueriesKnown'
  BY <1>12, <1>13, SimFacts, KnownKept
<1>23. CatchInv'
  BY <1>1, <1>12, SimFacts, CatchKept
<1>24. pendingCommitReplyStateIndices' = {} /\ phase' \in Phases
  BY <1>1, <1>11, SimFacts
<1> QED
  BY <1>10, <1>12, <1>13, <1>20, <1>21, <1>22, <1>23, <1>24 DEF SimInv

LEMMA SimTimeOut ==
  ASSUME SimInv, TimeOut
  PROVE  SimInv' /\ Orderly
<1>1. /\ phase = "timeouts" /\ phase' = "provider" /\ ProcessTimeouts /\ UNCHANGED subVars /\ held' = held
  BY DEF TimeOut
<1>2. PoolInv /\ EngineInv /\ SubInv /\ HeldInv /\ now \in Nat /\ notificationCursor = 0 /\ held = << >>
  BY <1>1, SimFacts DEF HeldInv
<1>3. EngineInv' /\ Steady /\ notificationCursor' = 0
  BY <1>1, <1>2, EngineTimeouts
<1>4. UNCHANGED clockVars /\ now' = now
  BY <1>1 DEF ProcessTimeouts, clockVars
<1>5. Continues(0) /\ Orderly /\ QueryIndices' = QueryIndices
  BY <1>3, <1>4, SteadyContinues, SteadyIsOrderly DEF Steady
<1>6. SubInv' /\ DOMAIN subscriptions' = DOMAIN subscriptions
  BY <1>1, <1>2, <1>4, ListsUnchanged
<1>7. \A i \in QueryIndices : queries[i].status # "COMMITTED"
  BY <1>2 DEF HeldInv, CommittedIsHeld
<1>8. \A i \in QueryIndices : queries'[i].status # "COMMITTED"
  <2> TAKE i \in QueryIndices
  <2>1. queries'[i] = IF i \in Expired THEN TimedOut(i) ELSE queries[i]
    BY <1>1 DEF ProcessTimeouts
  <2>2. TimedOut(i).status = "TIMEOUT"
    BY <1>2, TimedOutTypes
  <2> QED
    BY <1>7, <2>1, <2>2
<1>9. HeldInv'
  <2>1. SameCommitted
    BY <1>5, <1>7, <1>8 DEF SameCommitted
  <2> QED
    BY <1>1, <1>2, <2>1, HeldKept
<1>10. DeadlinesAreMet'
  <2> SUFFICES ASSUME NEW i \in pendingQueryIndices', queries'[i].timeout <= now' PROVE FALSE
    BY DEF DeadlinesAreMet
  <2>1. i \in pendingQueryIndices /\ i \notin Expired
    BY <1>1 DEF ProcessTimeouts, ReleaseQueries
  <2>2. i \in QueryIndices
    BY <1>2, <2>1 DEF PoolInv, PoolTypes
  <2>3. queries'[i].timeout = queries[i].timeout
    BY <1>3, <2>2 DEF Steady, Moved
  <2> QED
    BY <1>4, <2>1, <2>3 DEF Expired
<1>11. QueriesKnown'
  BY <1>5, <1>6, SimFacts, KnownKept
<1>12. CatchInv'
  BY <1>1, <1>5, SimFacts, CatchKept DEF subVars
<1>13. pendingCommitReplyStateIndices' = {} /\ phase' \in Phases
  BY <1>1, SimFacts DEF ProcessTimeouts, Phases
<1> QED
  BY <1>3, <1>5, <1>6, <1>9, <1>10, <1>11, <1>12, <1>13 DEF SimInv

\* Whoever was caught up stays so when the due subscribers of k move on.
LEMMA CaughtUpStays ==
  ASSUME SubInv, QueriesKnown, CaughtUp, now \in Nat, NEW k \in DOMAIN subscriptions,
         subscriptions[k].next <= now, subscribers' = SubscribersAfter(k),
         \A m \in DOMAIN subscriptions : Range(subscriptions'[m].list) = Range(subscriptions[m].list),
         NEW j \in QueryIndices, queries[j].id[1] = tick, queries[j].subscription # 0,
         NEW i \in Range(subscriptions'[queries[j].subscription].list),
         subscribers'[i].contract \in Range(queries[j].targets)
  PROVE  subscribers'[i].next >= now
<1> DEFINE m == queries[j].subscription
           all == SubscribersAfter(k)
<1>1. m \in DOMAIN subscriptions
  BY DEF QueriesKnown
<1>2. i \in Range(subscriptions[m].list)
  BY <1>1
<1>3. i \in DOMAIN subscribers /\ subscribers[i].next \in Int
  BY <1>1, <1>2, ListFacts
<1>4. /\ all[i].contract = subscribers[i].contract /\ all[i].next >= subscribers[i].next
      /\ all \in Seq(Subscriber) /\ DOMAIN all = DOMAIN subscribers
  BY <1>3, MovedOn
<1> HIDE DEF all
<1>5. all[i].next \in Int
  <2>1. all[i] \in Subscriber
    BY <1>3, <1>4
  <2> QED
    BY <2>1, SubscriberTypes
<1>6. subscribers[i].next >= now
  BY <1>2, <1>4 DEF CaughtUp, all
<1>7. all[i].next >= now
  BY <1>3, <1>4, <1>5, <1>6
<1> QED
  BY <1>7 DEF all

\* What generation finds: nothing is held, so nothing is committed.
LEMMA GeneratingFacts ==
  ASSUME SimInv, phase = "generate"
  PROVE  /\ held = << >> /\ notificationCursor = 0 /\ CaughtUp
         /\ \A i \in QueryIndices : queries[i].status # "COMMITTED"
<1>1. HeldInv /\ CatchInv /\ notificationCursor = 0
  BY SimFacts
<1> QED
  BY <1>1 DEF HeldInv, CatchInv, CommittedIsHeld

\* Generation moves the subscribers of k, and everyone stays in the lists.
LEMMA ListsMovedOn ==
  ASSUME SubInv, now \in Nat, NEW k \in DOMAIN subscriptions, subscriptions[k].next <= now,
         DOMAIN subscriptions' = DOMAIN subscriptions,
         subscriptions'[k].list = ListAfter(k),
         \A m \in DOMAIN subscriptions : m # k => subscriptions'[m] = subscriptions[m]
  PROVE  \A m \in DOMAIN subscriptions : Range(subscriptions'[m].list) = Range(subscriptions[m].list)
<1>1. Range(ListAfter(k)) = Range(subscriptions[k].list)
  BY ListMovedOn
<1> QED
  BY <1>1

LEMMA SimFail ==
  ASSUME SimInv, NEW k, phase = "generate", FailToGenerate(k), phase' = "timeouts", held' = held
  PROVE  SimInv' /\ Orderly
<1>1. PoolInv /\ EngineInv /\ SubInv /\ HeldInv /\ QueriesKnown /\ now \in Nat
  BY SimFacts
<1>2. held = << >> /\ notificationCursor = 0 /\ CaughtUp
  BY GeneratingFacts
<1>3. /\ k \in nextSubscriptionIdQueue /\ subscriptions[k].next <= now /\ UNCHANGED clockVars
      /\ TakeQueryId /\ UNCHANGED <<queries, queryStorageBytesUsed, slotVars, poolVars, noteVars>>
      /\ subscribers' = SubscribersAfter(k)
      /\ subscriptions' = [subscriptions EXCEPT ![k].list = ListAfter(k)]
  BY DEF FailToGenerate, IsNextDue
<1>4. k \in DOMAIN subscriptions
  BY <1>1, <1>3 DEF SubInv, SubTypes
<1>5. SubInv' /\ DOMAIN subscriptions' = DOMAIN subscriptions
  BY <1>1, FailKeepsLists
<1>6. EngineInv' /\ Steady
  BY <1>1, <1>3, EngineRefused
<1>7. Continues(0) /\ Orderly /\ QueryIndices' = QueryIndices
  BY <1>3, <1>6, SteadyContinues, SteadyIsOrderly DEF Steady
<1>8. HeldInv'
  <2>1. SameCommitted
    BY <1>3, UntouchedCommitted DEF slotVars
  <2> QED
    BY <1>1, <1>2, <2>1, HeldKept
<1>9. DeadlinesAreMet'
  BY DEF DeadlinesAreMet
<1>10. QueriesKnown'
  BY <1>5, <1>7, SimFacts, KnownKept
<1>11. \A m \in DOMAIN subscriptions : Range(subscriptions'[m].list) = Range(subscriptions[m].list)
  <2> DEFINE l == ListAfter(k)
  <2>1. subscriptions' = [subscriptions EXCEPT ![k].list = l]
    BY <1>3
  <2> HIDE DEF l
  <2>2. subscriptions[k] \in Subscription
    BY <1>1, <1>4, SubFacts
  <2>3. subscriptions'[k].list = l /\ \A m \in DOMAIN subscriptions : m # k => subscriptions'[m] = subscriptions[m]
    BY <1>4, <2>1, <2>2 DEF Subscription
  <2> QED
    BY <1>1, <1>3, <1>4, <1>5, <2>3, ListsMovedOn DEF l
<1>12. CatchInv'
  <2>1. tick' = tick /\ now' = now /\ queries' = queries
    BY <1>3 DEF clockVars
  <2>2. CaughtUp'
    <3> SUFFICES ASSUME NEW j \in QueryIndices', queries'[j].id[1] = tick', queries'[j].subscription # 0,
                        NEW i \in Range(subscriptions'[queries'[j].subscription].list),
                        subscribers'[i].contract \in Range(queries'[j].targets)
                 PROVE  subscribers'[i].next >= now'
      BY DEF CaughtUp
    <3> QED
      BY <1>1, <1>2, <1>3, <1>4, <1>7, <1>11, <2>1, CaughtUpStays
  <2> QED
    BY <2>2 DEF CatchInv
<1>13. pendingCommitReplyStateIndices' = {} /\ notificationCursor' = 0 /\ phase' \in Phases
  BY <1>2, <1>3, SimFacts DEF poolVars, noteVars, Phases
<1> QED
  BY <1>5, <1>6, <1>7, <1>8, <1>9, <1>10, <1>12, <1>13 DEF SimInv

LEMMA SimGenerate ==
  ASSUME SimInv, NEW k, phase = "generate", GenerateSubscriptionQuery(k), phase' = phase, held' = held
  PROVE  SimInv' /\ Orderly
<1> DEFINE due == DueSubscribers(k)
           targets == [p \in DOMAIN due |-> subscribers[due[p]].contract]
           timeout == subscriptions[k].next + Minute
           bytes == StorageOf(k)
           list == subscriptions[k].list
<1>1. PoolInv /\ EngineInv /\ SubInv /\ HeldInv /\ QueriesKnown /\ now \in Nat /\ tick \in Nat
  BY SimFacts
<1>2. /\ held = << >> /\ notificationCursor = 0 /\ CaughtUp
      /\ \A i \in QueryIndices : queries[i].status # "COMMITTED"
  BY GeneratingFacts
<1>3. /\ k \in nextSubscriptionIdQueue /\ subscriptions[k].next <= now /\ UNCHANGED clockVars
      /\ TakeQueryId /\ ~IdsExhausted /\ ~Refuses(bytes) /\ StartQuery(k, targets, timeout, bytes)
      /\ subscribers' = SubscribersAfter(k)
      /\ subscriptions' = [subscriptions EXCEPT ![k].list = ListAfter(k),
                             ![k].next = SubscribersAfter(k)[Head(ListAfter(k))].next]
  BY DEF GenerateSubscriptionQuery, IsNextDue, SubscriptionQueryRefused
<1>4. k \in DOMAIN subscriptions /\ k \in Nat
  BY <1>1, <1>3, SubFacts DEF SubInv, SubTypes
<1>5. SubInv' /\ DOMAIN subscriptions' = DOMAIN subscriptions
  BY <1>1, GenerateKeepsLists
<1>6. /\ due \in Seq(DOMAIN subscribers) /\ \A i \in Range(due) : i \in Range(list)
  BY <1>1, <1>4, DueFacts
<1>7. timeout \in Int /\ bytes \in Nat
  <2>1. subscriptions[k].next \in Int /\ Minute \in Nat /\ QuerySize \in Nat /\ SubscriberIndexSize \in Nat
    BY <1>1, <1>4, ListFacts, OracleConstants, SubscriptionConstants
  <2>2. Len(due) \in Nat
    BY <1>6
  <2>3. Len(due) * SubscriberIndexSize \in Nat
    BY <2>1, <2>2
  <2> QED
    BY <2>1, <2>3 DEF StorageOf
<1> HIDE DEF due, list, timeout, bytes
<1>8. /\ targets \in Seq(Contracts) /\ DOMAIN targets = DOMAIN due
      /\ \A p \in DOMAIN due : targets[p] = subscribers[due[p]].contract
  <2>1. DOMAIN due = 1 .. Len(due) /\ Len(due) \in Nat /\ \A p \in DOMAIN due : due[p] \in DOMAIN subscribers
    BY <1>6
  <2>2. \A x \in DOMAIN subscribers : subscribers[x].contract \in Contracts
    BY <1>1, SubFacts, SubscriberTypes
  <2>3. \A p \in 1 .. Len(due) : subscribers[due[p]].contract \in Contracts
    BY <2>1, <2>2
  <2>4. targets \in [1 .. Len(due) -> Contracts]
    BY <2>1, <2>3
  <2> QED
    BY <2>1, <2>4
<1> HIDE DEF targets
<1>9. /\ EngineInv' /\ Orderly
      /\ \E q \in Query : /\ queries' = Append(queries, q) /\ q.targets = targets
                          /\ q.subscription = k /\ q.timeout = timeout
                          /\ q.id[1] = tick /\ q.status = "PENDING"
  BY <1>1, <1>3, <1>4, <1>7, <1>8, EngineStart
<1>10. PICK q \in Query : /\ queries' = Append(queries, q) /\ q.targets = targets
                          /\ q.subscription = k /\ q.id[1] = tick /\ q.status = "PENDING"
  BY <1>9
<1>11. /\ Continues(k) /\ queries'[Len(queries) + 1] = q
       /\ QueryIndices' = QueryIndices \cup {Len(queries) + 1}
  BY <1>1, <1>3, <1>9, <1>10, StartContinues
<1>12. HeldInv'
  <2>1. SameCommitted
    BY <1>1, <1>3, StartedCommitted
  <2> QED
    BY <1>1, <1>2, <2>1, HeldKept
<1>13. DeadlinesAreMet'
  BY DEF DeadlinesAreMet
<1>14. QueriesKnown'
  BY <1>4, <1>5, <1>11, SimFacts, KnownKept
<1>15. \A m \in DOMAIN subscriptions : Range(subscriptions'[m].list) = Range(subscriptions[m].list)
  <2> DEFINE l == ListAfter(k)
             x == SubscribersAfter(k)[Head(ListAfter(k))].next
  <2>1. subscriptions' = [subscriptions EXCEPT ![k].list = l, ![k].next = x]
    BY <1>3
  <2> HIDE DEF l, x
  <2>2. subscriptions[k] \in Subscription
    BY <1>1, <1>4, SubFacts
  <2>3. subscriptions'[k].list = l /\ \A m \in DOMAIN subscriptions : m # k => subscriptions'[m] = subscriptions[m]
    BY <1>4, <2>1, <2>2 DEF Subscription
  <2> QED
    BY <1>1, <1>3, <1>4, <1>5, <2>3, ListsMovedOn DEF l
<1>16. tick' = tick /\ now' = now
  BY <1>3 DEF clockVars
<1>17. CaughtUp'
  <2> SUFFICES ASSUME NEW j \in QueryIndices', queries'[j].id[1] = tick', queries'[j].subscription # 0,
                      NEW i \in Range(subscriptions'[queries'[j].subscription].list),
                      subscribers'[i].contract \in Range(queries'[j].targets)
               PROVE  subscribers'[i].next >= now'
    BY DEF CaughtUp
  <2>1. CASE j \in QueryIndices
    <3>1. /\ queries'[j].id = queries[j].id /\ queries'[j].targets = queries[j].targets
          /\ queries'[j].subscription = queries[j].subscription
      BY <1>11, <2>1 DEF Continues, Moved
    <3> QED
      BY <1>1, <1>2, <1>3, <1>4, <1>15, <1>16, <2>1, <3>1, CaughtUpStays
  <2>2. CASE j \notin QueryIndices
    <3>1. queries'[j] = q
      BY <1>11, <2>2
    <3>2. i \in Range(list) /\ subscribers'[i].contract \in Range(targets)
      BY <1>4, <1>10, <1>15, <3>1 DEF list
    <3>3. i \in DOMAIN subscribers
      BY <1>1, <1>4, <3>2, ListFacts DEF list
    <3>4. subscribers'[i].contract = subscribers[i].contract
          /\ (i \in Range(due) => subscribers'[i].next >= now)
      BY <1>1, <1>3, <1>4, <3>3, MovedOn DEF due
    <3>5. PICK p \in DOMAIN due : subscribers[i].contract = subscribers[due[p]].contract
      BY <1>8, <3>2, <3>4 DEF Range
    <3>6. due[p] \in Range(due) /\ due[p] \in Range(list)
      BY <1>6, <3>5 DEF Range
    <3>7. i = due[p]
      BY <1>1, <1>4, <3>2, <3>5, <3>6, ListFacts DEF list
    <3> QED
      BY <1>16, <3>4, <3>6, <3>7
  <2> QED
    BY <2>1, <2>2
<1>18. CatchInv'
  BY <1>17 DEF CatchInv
<1>19. pendingCommitReplyStateIndices' = {} /\ notificationCursor' = 0 /\ phase' \in Phases
  BY <1>2, <1>3, SimFacts DEF StartQuery
<1> QED
  BY <1>5, <1>9, <1>12, <1>13, <1>14, <1>18, <1>19 DEF SimInv

(***************************************************************************)
(* The theorems.                                                           *)
(***************************************************************************)

LEMMA SimInit == Init => SimInv
<1> SUFFICES ASSUME Init PROVE SimInv
  OBVIOUS
<1>1. /\ tick = 0 /\ now = 0 /\ EmptyEngine /\ phase = "idle" /\ held = << >>
      /\ subscriptions = << >> /\ subscribers = << >> /\ nextSubscriptionIdQueue = {}
  BY DEF Init, InitQueries, InitSubscriptions
<1>2. EngineInv /\ SubInv
  BY <1>1, EngineEmpty, ListsEmpty
<1>3. QueryIndices = {} /\ pendingQueryIndices = {} /\ notificationCursor = 0 /\ pendingCommitReplyStateIndices = {}
  BY <1>1 DEF EmptyEngine, QueryIndices
<1>4. << >> \in Seq([id : Nat \X Nat, value : Values]) /\ DOMAIN << >> = {}
  OBVIOUS
<1>5. HeldInv
  BY <1>1, <1>3, <1>4 DEF HeldInv, CommittedIsHeld
<1>6. DeadlinesAreMet /\ QueriesKnown /\ CatchInv
  BY <1>1, <1>3 DEF DeadlinesAreMet, QueriesKnown, CatchInv
<1> QED
  BY <1>1, <1>2, <1>3, <1>5, <1>6 DEF SimInv, Phases

\* The phases that only move on.
PhaseStep ==
  \/ FinishTransactions \/ FinishReveals \/ FinishGenerating \/ FinishAnswers \/ FinishTick
  \/ \E i \in notificationQueue : DeliverFails(i)

LEMMA SimPhase ==
  ASSUME SimInv, PhaseStep
  PROVE  SimInv' /\ Orderly
<1>1. /\ UNCHANGED <<queryVars, subVars, held>> /\ tick' = tick
  BY DEF PhaseStep, FinishTransactions, FinishReveals, FinishGenerating, FinishAnswers, FinishTick,
         DeliverFails, queryVars, clockVars
<1>2. /\ notificationCursor # 0 => phase \in {"deliver", "faulted"}
      /\ phase \in {"generate", "timeouts"} => held = << >>
      /\ NoteInv
  BY SimFacts DEF HeldInv
<1>3. CASE FinishTransactions
  BY <1>1, <1>2, <1>3, PhaseMoves DEF FinishTransactions, RevealTick, Phases
<1>4. CASE FinishReveals
  BY <1>1, <1>2, <1>4, PhaseMoves DEF FinishReveals, RevealTick, Phases
<1>5. CASE FinishGenerating
  BY <1>1, <1>2, <1>5, PhaseMoves DEF FinishGenerating, RevealTick, Phases
<1>6. CASE FinishAnswers
  BY <1>1, <1>2, <1>6, PhaseMoves DEF FinishAnswers, RevealTick, Phases
<1>7. CASE FinishTick
  <2>1. notificationCursor = 0
    BY <1>2, <1>7 DEF FinishTick, NoteInv, IsNextNotified
  <2> QED
    BY <1>1, <1>2, <1>7, <2>1, PhaseMoves DEF FinishTick, RevealTick, Phases
<1>8. CASE \E i \in notificationQueue : DeliverFails(i)
  BY <1>1, <1>2, <1>8, PhaseMoves DEF DeliverFails, RevealTick, Phases
<1> QED
  BY <1>3, <1>4, <1>5, <1>6, <1>7, <1>8 DEF PhaseStep

LEMMA SimStep == SimInv /\ [SimulatorNext]_vars => SimInv' /\ Orderly
<1> SUFFICES ASSUME SimInv, [SimulatorNext]_vars PROVE SimInv' /\ Orderly
  OBVIOUS
<1>1. ASSUME NEW c \in Contracts, NEW t \in Timeouts, QueryOracle(c, t) PROVE SimInv' /\ Orderly
  BY <1>1, SimQuery
<1>2. ASSUME NEW c \in Contracts, NEW key \in Keys, NEW period \in Periods, SubscribeOracle(c, key, period)
      PROVE  SimInv' /\ Orderly
  BY <1>2, SimSubscribe
<1>3. ASSUME NEW c \in Contracts, NEW k \in DOMAIN subscriptions, UnsubscribeOracle(c, k)
      PROVE  SimInv' /\ Orderly
  BY <1>3, SimUnsubscribe
<1>4. ASSUME NEW i \in QueryIndices, AnswerUnavailable(i) PROVE SimInv' /\ Orderly
  BY <1>4, SimUnavailable
<1>5. ASSUME NEW i \in QueryIndices, NEW v \in Values, AnswerQuery(i, v) PROVE SimInv' /\ Orderly
  BY <1>5, SimAnswer
<1>6. CASE EnterTick \/ RunBeginEpoch \/ RevealHeld \/ TimeOut
  BY <1>6, SimEnterTick, SimBeginEpoch, SimReveal, SimTimeOut
<1>7. ASSUME NEW k \in nextSubscriptionIdQueue, Generate(k) PROVE SimInv' /\ Orderly
  BY <1>7, SimGenerate, SimFail DEF Generate
<1>8. ASSUME NEW i \in notificationQueue, Deliver(i) PROVE SimInv' /\ Orderly
  BY <1>8, SimDeliver
<1>9. CASE PhaseStep
  BY <1>9, SimPhase
<1>10. CASE UNCHANGED vars
  <2>1. UNCHANGED <<queryVars, subVars, held>> /\ phase' = phase /\ RevealTick' = RevealTick
    BY <1>10 DEF vars, RevealTick, queryVars, clockVars
  <2>2. /\ notificationCursor # 0 => phase \in {"deliver", "faulted"}
        /\ phase \in {"generate", "timeouts"} => held = << >>
        /\ phase \in Phases
    BY SimFacts DEF HeldInv
  <2> QED
    BY <2>1, <2>2, PhaseMoves
<1>11. CASE SimulatorNext
  <2>1. CASE ContractStep
    BY <1>1, <1>2, <1>3, <2>1 DEF ContractStep
  <2>2. CASE AnswerStep
    BY <1>4, <1>5, <2>2 DEF AnswerStep
  <2>3. CASE TickStep
    <3>1. \/ EnterTick \/ RunBeginEpoch \/ RevealHeld \/ TimeOut \/ PhaseStep
          \/ \E k \in nextSubscriptionIdQueue : Generate(k)
          \/ \E i \in notificationQueue : Deliver(i)
      BY <2>3 DEF TickStep, PhaseStep
    <3> QED
      BY <1>6, <1>7, <1>8, <1>9, <3>1
  <2> QED
    BY <1>11, <2>1, <2>2, <2>3 DEF SimulatorNext
<1> QED
  BY <1>10, <1>11

\* What SimInv says of the type and of the lists of the subscriptions.
LEMMA SimTypes == SimInv => SimulatorTypeOK
<1> SUFFICES ASSUME SimInv PROVE SimulatorTypeOK
  OBVIOUS
<1>1. PoolsAgree
  BY SimFacts, EngineAgrees
<1>2. TypeOK
  BY <1>1 DEF PoolsAgree
<1>3. held \in Seq([id : Nat \X Nat, value : Values]) /\ phase \in Phases
  BY SimFacts DEF HeldInv
<1> QED
  BY <1>2, <1>3, SimFacts DEF SimulatorTypeOK, SubInv, SubTypes

LEMMA SimLists == SimInv => SubscriptionsAgree
<1> SUFFICES ASSUME SimInv PROVE SubscriptionsAgree
  OBVIOUS
<1>1. SubInv
  BY SimFacts
<1> SUFFICES ASSUME NEW k \in DOMAIN subscriptions
             PROVE  LET list == subscriptions[k].list IN
                    /\ \A p, q \in DOMAIN list : p < q =>
                         /\ subscribers[list[p]].next <= subscribers[list[q]].next
                         /\ subscribers[list[p]].contract # subscribers[list[q]].contract
                    /\ k \in nextSubscriptionIdQueue <=> list # << >>
                    /\ list # << >> => subscriptions[k].next <= subscribers[Head(list)].next
  BY SimTypes DEF SubscriptionsAgree
<1> DEFINE list == subscriptions[k].list
<1>2. /\ list \in Seq(DOMAIN subscribers) /\ NoRepeats(list) /\ Sorted(subscribers, list)
      /\ DOMAIN list = 1 .. Len(list) /\ Len(list) \in Nat
      /\ \A p \in 1 .. Len(list) : list[p] \in Range(list)
      /\ \A i \in Range(list) :
           /\ subscriptions[k].next <= subscribers[i].next
           /\ \A j \in Range(list) : subscribers[i].contract = subscribers[j].contract => i = j
  BY <1>1, ListFacts
<1>3. k \in nextSubscriptionIdQueue <=> list # << >>
  BY <1>1 DEF SubInv
<1> HIDE DEF list
<1>4. ASSUME NEW p \in DOMAIN list, NEW q \in DOMAIN list, p < q
      PROVE  /\ subscribers[list[p]].next <= subscribers[list[q]].next
             /\ subscribers[list[p]].contract # subscribers[list[q]].contract
  BY <1>2, <1>4 DEF Sorted, NoRepeats
<1>5. ASSUME list # << >> PROVE subscriptions[k].next <= subscribers[Head(list)].next
  <2>1. Len(list) > 0 /\ Head(list) = list[1]
    BY <1>2, <1>5
  <2> QED
    BY <1>2, <2>1
<1> QED
  BY <1>3, <1>4, <1>5 DEF list

LEMMA SimPeriods == SimInv => PeriodIsKept
<1> SUFFICES ASSUME SimInv PROVE PeriodIsKept
  OBVIOUS
<1>1. CatchesUpAtOnce
  BY SimFacts DEF CatchesUpAtOnce, CatchInv, CaughtUp
<1>2. ASSUME NEW k \in DOMAIN subscriptions, NEW i \in Range(subscriptions[k].list)
      PROVE  subscribers[i].next - now <= subscribers[i].period * Minute
  BY SimFacts, ListFacts
<1> QED
  BY <1>1, <1>2 DEF PeriodIsKept

\* The queries' tables agree in every state of the simulator's ticks.
THEOREM SimulatorAgrees == SimulatorSpec => []PoolsAgree
<1>1. SimInv => PoolsAgree
  BY SimFacts, EngineAgrees
<1> QED
  BY <1>1, SimInit, SimStep, PTL DEF SimulatorSpec

\* Between commit and reveal a committed query's reply, and nothing else, is held:
\* it is revealed exactly once, in the tick after the commit.
THEOREM HeldTheorem == SimulatorSpec => []CommittedIsHeld
<1>1. SimInv => CommittedIsHeld
  BY SimFacts DEF HeldInv
<1> QED
  BY <1>1, SimInit, SimStep, PTL DEF SimulatorSpec

\* No query that waits outlives its deadline past the timeouts of a tick.
THEOREM DeadlineTheorem == SimulatorSpec => []DeadlinesAreMet
<1>1. SimInv => DeadlinesAreMet
  BY SimFacts
<1> QED
  BY <1>1, SimInit, SimStep, PTL DEF SimulatorSpec

\* The sorted lists of subscribers and the heap of subscriptions agree.
THEOREM SubscriptionTheorem == SimulatorSpec => []SubscriptionsAgree
BY SimLists, SimInit, SimStep, PTL DEF SimulatorSpec

\* A subscriber is never put off by more than its period, and never served for a
\* period that was missed.
THEOREM PeriodTheorem == SimulatorSpec => []PeriodIsKept
BY SimPeriods, SimInit, SimStep, PTL DEF SimulatorSpec

\* A finished query never changes, in any tick, until its epoch ends.
THEOREM FinalTheorem == SimulatorSpec => FinishedIsFinal
<1>1. FinishedIsFinal <=> [][FinalStep]_queryVars
  BY DEF FinishedIsFinal, FinalStep
<1>2. SimInv /\ [SimulatorNext]_vars => [FinalStep]_queryVars
  BY SimStep, OrderlyIsFinal
<1> QED
  BY <1>1, <1>2, SimInit, SimStep, PTL DEF SimulatorSpec

DueStep ==
  phase = "generate" /\ phase' # "generate" =>
    \/ \A k \in DOMAIN subscriptions : \A i \in Range(subscriptions[k].list) :
         subscribers[i].next > now
    \/ \E k \in nextSubscriptionIdQueue : IsNextDue(k) /\ SubscriptionQueryRefused(k)

\* Only the end of the generation, or a refused query, leaves it.
LEMMA GenerationEnds ==
  ASSUME SimInv, SimulatorNext, phase = "generate", phase' # "generate"
  PROVE  NothingDue \/ \E k \in nextSubscriptionIdQueue : FailToGenerate(k)
<1>1. ~ContractStep
  BY DEF ContractStep, QueryOracle, SubscribeOracle, UnsubscribeOracle, ContractsRun
<1>2. ~AnswerStep
  BY DEF AnswerStep, AnswerUnavailable, AnswerQuery, AnswersArrive
<1>3. FinishGenerating \/ \E k \in nextSubscriptionIdQueue : Generate(k)
  BY <1>1, <1>2 DEF SimulatorNext, TickStep, EnterTick, RunBeginEpoch, FinishTransactions, RevealHeld,
       FinishReveals, TimeOut, FinishAnswers, Deliver, DeliverFails, FinishTick
<1> QED
  BY <1>3 DEF FinishGenerating, Generate

LEMMA SimDue == SimInv /\ [SimulatorNext]_vars => DueStep
<1> SUFFICES ASSUME SimInv, [SimulatorNext]_vars, phase = "generate", phase' # "generate"
             PROVE  \/ \A k \in DOMAIN subscriptions : \A i \in Range(subscriptions[k].list) :
                         subscribers[i].next > now
                    \/ \E k \in nextSubscriptionIdQueue : IsNextDue(k) /\ SubscriptionQueryRefused(k)
  BY DEF DueStep
<1>1. SimulatorNext
  BY DEF vars
<1>2. NothingDue \/ \E k \in nextSubscriptionIdQueue : FailToGenerate(k)
  BY <1>1, GenerationEnds
<1>3. CASE NothingDue
  <2> SUFFICES ASSUME NEW k \in DOMAIN subscriptions, NEW i \in Range(subscriptions[k].list)
               PROVE  subscribers[i].next > now
    OBVIOUS
  <2>1. /\ subscriptions[k].next <= subscribers[i].next /\ subscribers[i].next \in Int
        /\ subscriptions[k].next \in Int /\ subscriptions[k].list \in Seq(DOMAIN subscribers)
    BY SimFacts, ListFacts
  <2>2. subscriptions[k].list # << >>
    BY <2>1 DEF Range
  <2>3. k \in nextSubscriptionIdQueue
    BY <2>2, SimFacts DEF SubInv
  <2> QED
    BY <1>3, <2>1, <2>3, SimFacts DEF NothingDue
<1>4. CASE \E k \in nextSubscriptionIdQueue : FailToGenerate(k)
  BY <1>4 DEF FailToGenerate
<1> QED
  BY <1>2, <1>3, <1>4

\* The generation of a tick leaves nobody waiting who is due, unless the engine
\* could not take the query that was due first.
THEOREM DueTheorem == SimulatorSpec => DueAreServed
<1>1. DueAreServed <=> [][DueStep]_vars
  BY DEF DueAreServed, DueStep
<1>2. SimInv /\ [SimulatorNext]_vars => [DueStep]_vars
  BY SimDue
<1> QED
  BY <1>1, <1>2, SimInit, SimStep, PTL DEF SimulatorSpec
(***************************************************************************)
(* Part three: everyone is told, unless a subscription is asked too late.  *)
(*                                                                         *)
(* The notification queue has a place for each query that can wait at a    *)
(* time, and is empty when a tick begins.  Reveals and timeouts of a tick  *)
(* then fill it with queries that had waited, so that it has room for      *)
(* them, but for a query that is started and times out in the pass of one  *)
(* tick: a subscription's, when its time is a minute past or more.         *)
(***************************************************************************)

\* No subscription's query of this tick has timed out when it is generated.
AskedInTime ==
  phase \in {"generate", "timeouts"} =>
    \A i \in pendingQueryIndices :
      queries[i].subscription # 0 /\ queries[i].id[1] = tick => queries[i].timeout > now

\* A finished query is queued, or each of its contracts was told.
FinishedAreTold ==
  \A i \in QueryIndices :
    ~IsOpen(i) /\ i \notin notificationQueue => told[i] = Len(queries[i].targets)

\* The queue has room for whatever can still finish in this tick.
RoomInv ==
  /\ phase \in {"idle", "endEpoch", "txs"} => notificationQueue = {}
  /\ phase = "reveal" => Cardinality(notificationQueue \cup pendingQueryIndices) <= MaxSimultaneous
  /\ phase \in {"generate", "timeouts"} =>
       Cardinality(notificationQueue \cup Expired) <= MaxSimultaneous

TellInv == FinishedAreTold /\ RoomInv

\* As many queries wait as there are slots, at most.
LEMMA PendingFits ==
  ASSUME PoolInv
  PROVE  IsFiniteSet(pendingQueryIndices) /\ Cardinality(pendingQueryIndices) <= MaxSimultaneous
<1> DEFINE f == [i \in pendingQueryIndices |-> queries[i].slot]
<1>1. IsFiniteSet(Slots) /\ Cardinality(Slots) = MaxSimultaneous
  BY OracleConstants, FS_Interval DEF Slots
<1>2. pendingQueryIndices = {i \in QueryIndices : IsOpen(i)}
  BY DEF PoolInv, PoolTypes
<1>3. f \in Injection(pendingQueryIndices, Slots)
  <2>1. f \in [pendingQueryIndices -> Slots]
    BY <1>2, PoolFacts
  <2>2. \A i, j \in pendingQueryIndices : f[i] = f[j] => i = j
    BY <1>2, PoolFacts
  <2> QED
    BY <2>1, <2>2 DEF Injection, IsInjective
<1> QED
  BY <1>1, <1>3, FS_Injection

\* The queue is a finite set, and shares nothing with the queries that wait.
LEMMA QueueFacts ==
  ASSUME PoolInv, NoteInv
  PROVE  /\ IsFiniteSet(notificationQueue) /\ IsFiniteSet(notificationQueue \cup pendingQueryIndices)
         /\ notificationQueue \cap pendingQueryIndices = {} /\ Expired \subseteq pendingQueryIndices
<1>1. QueryIndices = 1 .. Len(queries) /\ Len(queries) \in Nat
  BY PoolFacts
<1>2. IsFiniteSet(notificationQueue)
  <2>1. IsFiniteSet(QueryIndices)
    BY <1>1, FS_Interval
  <2>2. notificationQueue \in SUBSET QueryIndices
    BY DEF NoteInv
  <2> QED
    BY <2>1, <2>2, FS_Subset
<1>3. notificationQueue \cap pendingQueryIndices = {}
  BY DEF PoolInv, PoolTypes, NoteInv, ToldAtMostOnce
<1> QED
  BY <1>2, <1>3, PendingFits, FS_Union DEF Expired

\* What fits is queued.
LEMMA AllQueued ==
  ASSUME PoolInv, NoteInv, NEW F \in SUBSET pendingQueryIndices, Enqueue(F),
         Cardinality(notificationQueue \cup F) <= MaxSimultaneous
  PROVE  notificationQueue' = notificationQueue \cup F
<1>1. /\ IsFiniteSet(notificationQueue) /\ IsFiniteSet(F) /\ notificationQueue \cap F = {}
  BY QueueFacts, PendingFits, FS_Subset
<1>2. /\ Cardinality(notificationQueue \cup F) = Cardinality(notificationQueue) + Cardinality(F)
      /\ Cardinality(F) \in Nat /\ Cardinality(notificationQueue) \in Nat
  <2>1. Cardinality(notificationQueue \cup F)
          = Cardinality(notificationQueue) + Cardinality(F) - Cardinality(notificationQueue \cap F)
    BY <1>1, FS_Union
  <2>2. Cardinality(notificationQueue \cap F) = 0
    BY <1>1, FS_EmptySet
  <2>3. Cardinality(F) \in Nat /\ Cardinality(notificationQueue) \in Nat
    BY <1>1, FS_CardinalityType
  <2> QED
    BY <2>1, <2>2, <2>3
<1>3. Cardinality(F) <= MaxSimultaneous - Cardinality(notificationQueue)
  BY <1>2, OracleConstants
<1>4. PICK kept \in SUBSET F : /\ Cardinality(kept) = Cardinality(F)
                               /\ notificationQueue' = notificationQueue \cup kept
  BY <1>3 DEF Enqueue
<1>5. kept = F
  BY <1>1, <1>4, FS_Subset
<1> QED
  BY <1>4, <1>5

\* A step that finishes nothing and tells nobody.
LEMMA ToldStay ==
  ASSUME PoolInv, FinishedAreTold, Steady, UNCHANGED noteVars,
         \A i \in QueryIndices : IsOpen(i) => IsOpen(i)'
  PROVE  FinishedAreTold'
<1> SUFFICES ASSUME NEW i \in QueryIndices', ~IsOpen(i)', i \notin notificationQueue'
             PROVE  told'[i] = Len(queries'[i].targets)
  BY DEF FinishedAreTold
<1>1. i \in QueryIndices /\ told' = told /\ notificationQueue' = notificationQueue
  BY DEF Steady, noteVars
<1>2. ~IsOpen(i) /\ queries'[i].targets = queries[i].targets
  BY <1>1, SteadyFacts
<1> QED
  BY <1>1, <1>2 DEF FinishedAreTold

\* A step in which just the queries F finish, and are queued.
LEMMA ToldQueued ==
  ASSUME PoolInv, FinishedAreTold, Steady, told' = told, NEW F,
         notificationQueue' = notificationQueue \cup F,
         \A i \in QueryIndices \ F : IsOpen(i) => IsOpen(i)'
  PROVE  FinishedAreTold'
<1> SUFFICES ASSUME NEW i \in QueryIndices', ~IsOpen(i)', i \notin notificationQueue'
             PROVE  told'[i] = Len(queries'[i].targets)
  BY DEF FinishedAreTold
<1>1. i \in QueryIndices /\ i \notin F /\ i \notin notificationQueue
  BY DEF Steady
<1>2. ~IsOpen(i) /\ queries'[i].targets = queries[i].targets
  BY <1>1, SteadyFacts
<1> QED
  BY <1>1, <1>2 DEF FinishedAreTold

\* A query is started.
LEMMA ToldStarted ==
  ASSUME PoolInv, NoteInv, FinishedAreTold, NEW q, q.status = "PENDING",
         queries' = Append(queries, q), told' = Append(told, 0), UNCHANGED notificationQueue
  PROVE  FinishedAreTold'
<1>1. queries \in Seq(Query) /\ told \in Seq(Nat) /\ Len(told) = Len(queries)
  BY DEF PoolInv, PoolTypes, NoteInv
<1>n. PICK n \in Nat : n = Len(queries) + 1
  BY <1>1
<1>2. /\ QueryIndices' = QueryIndices \cup {n} /\ queries'[n] = q
      /\ \A i \in QueryIndices : queries'[i] = queries[i] /\ told'[i] = told[i]
  BY <1>1, <1>n DEF QueryIndices
<1>3. IsOpen(n)'
  BY <1>2, StatusTypes DEF IsOpen
<1> SUFFICES ASSUME NEW i \in QueryIndices', ~IsOpen(i)', i \notin notificationQueue'
             PROVE  told'[i] = Len(queries'[i].targets)
  BY DEF FinishedAreTold
<1>4. i # n
  BY <1>3
<1>5. i \in QueryIndices
  BY <1>2, <1>4
<1>6. ~IsOpen(i)
  BY <1>2, <1>5 DEF IsOpen
<1> QED
  BY <1>2, <1>5, <1>6 DEF FinishedAreTold

\* The contract at the cursor is told; the last one takes the query off the queue.
LEMMA ToldNext ==
  ASSUME PoolInv, NoteInv, FinishedAreTold, NEW i \in QueryIndices, GetNotification(i)
  PROVE  FinishedAreTold'
<1>1. /\ IsNextNotified(i) /\ told' = [told EXCEPT ![i] = @ + 1] /\ queries' = queries
      /\ notificationQueue' = (IF notificationCursor + 1 = Len(queries[i].targets)
                                 THEN notificationQueue \ {i} ELSE notificationQueue)
  BY DEF GetNotification
<1>2. told[i] = notificationCursor /\ i \in notificationQueue
  BY <1>1 DEF NoteInv, ToldAtMostOnce, IsNextNotified
<1>3. DOMAIN told = QueryIndices /\ QueryIndices' = QueryIndices
  BY <1>1, NoteFacts DEF QueryIndices
<1> SUFFICES ASSUME NEW j \in QueryIndices, ~IsOpen(j), j \notin notificationQueue'
             PROVE  told'[j] = Len(queries[j].targets)
  BY <1>1, <1>3 DEF FinishedAreTold, IsOpen
<1>4. CASE j = i
  BY <1>1, <1>2, <1>3, <1>4
<1>5. CASE j # i
  <2>1. j \notin notificationQueue /\ told'[j] = told[j]
    BY <1>1, <1>3, <1>5
  <2> QED
    BY <2>1 DEF FinishedAreTold
<1> QED
  BY <1>4, <1>5

\* A step that finishes nothing, within a phase that no room is spoken of, or one
\* that leaves the room as it is.
LEMMA RoomKept ==
  ASSUME RoomInv, UNCHANGED notificationQueue, phase' = phase,
         phase \in {"reveal", "generate", "timeouts"} => FALSE
  PROVE  RoomInv'
BY DEF RoomInv

LEMMA TellInit == Init => TellInv
<1> SUFFICES ASSUME Init PROVE TellInv
  OBVIOUS
<1>1. QueryIndices = {} /\ notificationQueue = {} /\ phase = "idle"
  BY DEF Init, InitQueries, EmptyEngine, QueryIndices
<1> QED
  BY <1>1 DEF TellInv, FinishedAreTold, RoomInv

\* Contracts that run, and answers.
LEMMA TellContracts ==
  ASSUME SimInv, SimInv', TellInv, ContractStep
  PROVE  TellInv'
<1>1. PoolInv /\ NoteInv /\ PoolInv' /\ FinishedAreTold /\ RoomInv
  BY SimFacts DEF TellInv, SimInv, EngineInv
<1>2. phase' = phase /\ phase \notin {"reveal", "generate", "timeouts"}
  BY DEF ContractStep, QueryOracle, SubscribeOracle, UnsubscribeOracle, ContractsRun
<1>3. CASE UNCHANGED <<queries, noteVars>>
  <2>1. Steady /\ \A i \in QueryIndices : IsOpen(i) => IsOpen(i)'
    BY <1>3, StaysMoved DEF Steady, QueryIndices, IsOpen
  <2>2. FinishedAreTold'
    BY <1>1, <1>3, <2>1, ToldStay
  <2> QED
    BY <1>1, <1>2, <1>3, <2>2, RoomKept DEF TellInv, noteVars
<1>4. ASSUME NEW c \in Contracts, NEW t \in Timeouts, QueryOracle(c, t),
             ~UNCHANGED <<queries, noteVars>>
      PROVE  TellInv'
  <2> DEFINE timeout == now + t
             targets == <<c>>
  <2>1. StartQuery(0, targets, timeout, QuerySize)
    BY <1>4 DEF QueryOracle, StartContractQuery
  <2> HIDE DEF timeout, targets
  <2>2. PICK s \in Slots :
          /\ queries' = Append(queries,
               [id |-> <<tick, NextIndexInTick>>, subscription |-> 0,
                targets |-> targets, status |-> "PENDING", flags |-> {},
                timeout |-> timeout, slot |-> s, value |-> NoValue,
                agreeing |-> 0, total |-> 0])
          /\ told' = Append(told, 0) /\ UNCHANGED notificationQueue
    BY <2>1 DEF StartQuery
  <2> DEFINE q == [id |-> <<tick, NextIndexInTick>>, subscription |-> 0,
                   targets |-> targets, status |-> "PENDING", flags |-> {},
                   timeout |-> timeout, slot |-> s, value |-> NoValue,
                   agreeing |-> 0, total |-> 0]
  <2>3. q.status = "PENDING" /\ queries' = Append(queries, q)
    BY <2>2
  <2> HIDE DEF q
  <2>4. FinishedAreTold'
    BY <1>1, <2>2, <2>3, ToldStarted
  <2> QED
    BY <1>1, <1>2, <2>2, <2>4, RoomKept DEF TellInv
<1>5. ASSUME NEW c \in Contracts, NEW key \in Keys, NEW period \in Periods, SubscribeOracle(c, key, period)
      PROVE  UNCHANGED <<queries, noteVars>>
  BY <1>5 DEF SubscribeOracle, StartContractSubscription
<1>6. ASSUME NEW c \in Contracts, NEW k \in DOMAIN subscriptions, UnsubscribeOracle(c, k)
      PROVE  UNCHANGED <<queries, noteVars>>
  BY <1>6 DEF UnsubscribeOracle, StopContractSubscription, queryVars, engineVars
<1> QED
  BY <1>3, <1>4, <1>5, <1>6 DEF ContractStep

LEMMA TellAnswers ==
  ASSUME SimInv, SimInv', TellInv, AnswerStep
  PROVE  TellInv'
<1>1. PoolInv /\ EngineInv /\ PoolInv' /\ FinishedAreTold /\ RoomInv
      /\ pendingCommitReplyStateIndices = {}
  BY SimFacts DEF TellInv, SimInv, EngineInv
<1>2. UNCHANGED noteVars /\ phase' = phase /\ phase \in {"idle", "provider"}
  BY DEF AnswerStep, AnswerUnavailable, RejectMachineReply, Flag, AnswerQuery, AnswersArrive
<1>3. Steady /\ \A i \in QueryIndices : IsOpen(i) => IsOpen(i)'
  <2>1. ASSUME NEW i \in QueryIndices, AnswerUnavailable(i)
        PROVE  Steady /\ \A j \in QueryIndices : queries'[j].status = queries[j].status
    <3>1. RejectMachineReply(i) /\ queries' = [queries EXCEPT ![i].flags = @ \cup {"REPLY_REJECTED"}]
      BY <2>1 DEF AnswerUnavailable, RejectMachineReply, Flag
    <3>2. Steady
      BY <1>1, <3>1, EngineRejectReply
    <3>3. queries \in Seq(Query) /\ queries[i] \in Query /\ QueryIndices = DOMAIN queries
      BY <1>1, PoolFacts DEF PoolInv, PoolTypes, QueryIndices
    <3> DEFINE q == [queries[i] EXCEPT !.flags = @ \cup {"REPLY_REJECTED"}]
    <3>4. q.status = queries[i].status
      BY <3>3 DEF Query
    <3>5. queries' = [queries EXCEPT ![i] = q]
      BY <3>1
    <3> HIDE DEF q
    <3> QED
      BY <3>2, <3>3, <3>4, <3>5
  <2>2. ASSUME NEW i \in QueryIndices, NEW v \in Values, AnswerQuery(i, v)
        PROVE  Steady /\ \A j \in QueryIndices : IsOpen(j) => IsOpen(j)'
    <3>1. /\ Steady /\ queries'[i].status = "COMMITTED"
          /\ \A j \in QueryIndices : j # i => queries'[j] = queries[j]
      BY <1>1, <2>2, AnswerKeeps
    <3> QED
      BY <3>1, StatusTypes DEF IsOpen
  <2> QED
    BY <2>1, <2>2 DEF AnswerStep, IsOpen
<1>4. FinishedAreTold'
  BY <1>1, <1>2, <1>3, ToldStay
<1>5. RoomInv'
  BY <1>1, <1>2, RoomKept DEF noteVars
<1> QED
  BY <1>4, <1>5 DEF TellInv

\* The steps of a tick that only move on; reveals start with room for all that waits.
LEMMA TellPhases ==
  ASSUME SimInv, SimInv', TellInv, EnterTick \/ PhaseStep \/ UNCHANGED vars
  PROVE  TellInv'
<1>1. PoolInv /\ NoteInv /\ PoolInv' /\ FinishedAreTold /\ RoomInv
  BY SimFacts DEF TellInv, SimInv, EngineInv
<1>2. UNCHANGED <<queries, noteVars, pendingQueryIndices>>
  BY DEF EnterTick, NextTick, PhaseStep, FinishTransactions, FinishReveals, FinishGenerating,
         FinishAnswers, FinishTick, DeliverFails, queryVars, engineVars, poolVars, vars
<1>3. FinishedAreTold'
  <2>1. Steady /\ \A i \in QueryIndices : IsOpen(i) => IsOpen(i)'
    BY <1>2, StaysMoved DEF Steady, QueryIndices, IsOpen
  <2> QED
    BY <1>1, <1>2, <2>1, ToldStay
<1>4. notificationQueue' = notificationQueue /\ pendingQueryIndices' = pendingQueryIndices
  BY <1>2 DEF noteVars
<1>5. CASE EnterTick \/ FinishAnswers \/ FinishTick \/ \E i \in notificationQueue : DeliverFails(i)
  BY <1>1, <1>4, <1>5, <1>3 DEF TellInv, RoomInv, EnterTick, FinishAnswers, FinishTick, DeliverFails
<1>6. CASE FinishTransactions
  <2>1. phase' = "reveal" /\ notificationQueue \cup pendingQueryIndices = pendingQueryIndices
    BY <1>1, <1>6 DEF FinishTransactions, RoomInv
  <2> QED
    BY <1>1, <1>3, <1>4, <2>1, PendingFits DEF TellInv, RoomInv
<1>7. ASSUME FinishReveals \/ FinishGenerating \/ UNCHANGED vars
      PROVE  TellInv'
  <2>1. Expired' = Expired
    <3>1. now' = now
      BY <1>7 DEF FinishReveals, FinishGenerating, queryVars, clockVars, vars
    <3> QED
      BY <1>2, <3>1 DEF Expired
  <2>2. FinishReveals =>
          Cardinality(notificationQueue \cup Expired) <= Cardinality(notificationQueue \cup pendingQueryIndices)
    <3>1. /\ IsFiniteSet(notificationQueue \cup pendingQueryIndices)
          /\ notificationQueue \cup Expired \in SUBSET (notificationQueue \cup pendingQueryIndices)
      BY <1>1, QueueFacts
    <3> QED
      BY <3>1, FS_Subset
  <2>3. /\ Cardinality(notificationQueue \cup pendingQueryIndices) \in Nat
        /\ Cardinality(notificationQueue \cup Expired) \in Nat
    <3>1. /\ IsFiniteSet(notificationQueue \cup pendingQueryIndices)
          /\ notificationQueue \cup Expired \in SUBSET (notificationQueue \cup pendingQueryIndices)
      BY <1>1, QueueFacts
    <3> QED
      BY <3>1, FS_Subset, FS_CardinalityType
  <2>4. CASE FinishReveals
    <3>1. phase = "reveal" /\ phase' = "generate"
      BY <2>4 DEF FinishReveals
    <3>2. Cardinality(notificationQueue \cup Expired) <= MaxSimultaneous
      BY <1>1, <2>2, <2>3, <2>4, <3>1, OracleConstants DEF RoomInv
    <3> QED
      BY <1>3, <1>4, <2>1, <3>1, <3>2 DEF TellInv, RoomInv
  <2>5. CASE FinishGenerating
    BY <1>1, <1>3, <1>4, <2>1, <2>5 DEF TellInv, RoomInv, FinishGenerating
  <2>6. CASE UNCHANGED vars
    <3>1. phase' = phase
      BY <2>6 DEF vars
    <3> QED
      BY <1>1, <1>3, <1>4, <2>1, <3>1 DEF TellInv, RoomInv
  <2> QED
    BY <1>7, <2>4, <2>5, <2>6
<1> QED
  BY <1>5, <1>6, <1>7 DEF PhaseStep

LEMMA TellReveal ==
  ASSUME SimInv, SimInv', TellInv, RevealHeld
  PROVE  TellInv'
<1>1. /\ PoolInv /\ NoteInv /\ EngineInv /\ HeldInv /\ FinishedAreTold
      /\ phase = "reveal" /\ phase' = phase /\ held # << >> /\ notificationCursor = 0
      /\ Cardinality(notificationQueue \cup pendingQueryIndices) <= MaxSimultaneous
  BY SimFacts DEF TellInv, RoomInv, RevealHeld
<1>2. /\ Head(held) = held[1] /\ 1 \in DOMAIN held /\ held[1].value \in Values
  <2> DEFINE S == [id : Nat \X Nat, value : Values]
  <2>1. held \in Seq(S)
    BY <1>1 DEF HeldInv
  <2> HIDE DEF S
  <2>2. Head(held) = held[1] /\ 1 \in DOMAIN held /\ held[1] \in S
    BY <1>1, <2>1
  <2> QED
    BY <2>2 DEF S
<1>3. RevealedQuery(held[1]) # {}
  BY <1>1, <1>2 DEF HeldInv, CommittedIsHeld
<1> DEFINE value == held[1].value
<1>4. PICK i \in RevealedQuery(held[1]) : ProcessReveal(i, value)
  BY <1>2, <1>3 DEF RevealHeld, ProcessRevealNoted
<1>5. i \in QueryIndices /\ queries[i].status = "COMMITTED" /\ value \in Values
  BY <1>2, <1>4 DEF RevealedQuery, RevealInOrder
<1> HIDE DEF value
<1>6. Steady
  BY <1>1, <1>4, <1>5, EngineReveal
<1>7. i \in pendingQueryIndices /\ pendingQueryIndices' = pendingQueryIndices \ {i}
      /\ Enqueue({i}) /\ told' = told
  BY <1>1, <1>4, <1>5, OpenFacts, ReleaseOne, StatusTypes DEF ProcessReveal, ReleaseQueries, IsOpen
<1>8. notificationQueue' = notificationQueue \cup {i}
  <2>1. {i} \in SUBSET pendingQueryIndices
    BY <1>7
  <2>2. /\ IsFiniteSet(notificationQueue \cup pendingQueryIndices)
        /\ notificationQueue \cup {i} \in SUBSET (notificationQueue \cup pendingQueryIndices)
    BY <1>1, <2>1, QueueFacts
  <2>3. /\ Cardinality(notificationQueue \cup {i}) <= Cardinality(notificationQueue \cup pendingQueryIndices)
        /\ Cardinality(notificationQueue \cup {i}) \in Nat
        /\ Cardinality(notificationQueue \cup pendingQueryIndices) \in Nat
    BY <2>2, FS_Subset, FS_CardinalityType
  <2>4. Cardinality(notificationQueue \cup {i}) <= MaxSimultaneous
    BY <1>1, <2>3, OracleConstants
  <2> QED
    BY <1>1, <1>7, <2>1, <2>4, AllQueued
<1>9. \A j \in QueryIndices \ {i} : queries'[j] = queries[j]
  <2> DEFINE q == Revealed(i, value)
  <2>1. queries' = [queries EXCEPT ![i] = q]
    BY <1>4 DEF ProcessReveal
  <2> HIDE DEF q
  <2> QED
    BY <2>1 DEF QueryIndices
<1>10. FinishedAreTold'
  <2>1. \A j \in QueryIndices \ {i} : IsOpen(j) => IsOpen(j)'
    BY <1>9 DEF IsOpen
  <2> QED
    BY <1>1, <1>6, <1>7, <1>8, <2>1, ToldQueued
<1>11. notificationQueue' \cup pendingQueryIndices' = notificationQueue \cup pendingQueryIndices
  BY <1>7, <1>8
<1> QED
  BY <1>1, <1>10, <1>11 DEF TellInv, RoomInv

\* A subscription's query that has not timed out takes no room from those that have.
LEMMA TellGenerate ==
  ASSUME SimInv, SimInv', TellInv, AskedInTime', NEW k \in nextSubscriptionIdQueue, Generate(k)
  PROVE  TellInv'
<1>1. /\ PoolInv /\ NoteInv /\ PoolInv' /\ NoteInv' /\ FinishedAreTold
      /\ phase = "generate" /\ Cardinality(notificationQueue \cup Expired) <= MaxSimultaneous
      /\ k \in DOMAIN subscriptions /\ k # 0
  BY SimFacts, SubFacts DEF TellInv, RoomInv, Generate, SimInv, EngineInv, SubInv, SubTypes
<1>2. CASE FailToGenerate(k) /\ phase' = "timeouts"
  <2>1. UNCHANGED <<queries, noteVars, pendingQueryIndices, now>>
    BY <1>2 DEF FailToGenerate, poolVars, clockVars
  <2>2. Steady /\ \A i \in QueryIndices : IsOpen(i) => IsOpen(i)'
    BY <2>1, StaysMoved DEF Steady, QueryIndices, IsOpen
  <2>3. FinishedAreTold'
    BY <1>1, <2>1, <2>2, ToldStay
  <2>4. notificationQueue' = notificationQueue /\ Expired' = Expired
    BY <2>1 DEF noteVars, Expired
  <2> QED
    BY <1>1, <1>2, <2>3, <2>4 DEF TellInv, RoomInv
<1>3. CASE GenerateSubscriptionQuery(k) /\ phase' = phase
  <2> DEFINE targets == [p \in DOMAIN DueSubscribers(k) |-> subscribers[DueSubscribers(k)[p]].contract]
             timeout == subscriptions[k].next + Minute
             bytes == StorageOf(k)
  <2>1. StartQuery(k, targets, timeout, bytes) /\ UNCHANGED clockVars
    BY <1>3 DEF GenerateSubscriptionQuery
  <2> HIDE DEF timeout, targets, bytes
  <2>2. PICK s \in Slots :
          /\ queries' = Append(queries,
               [id |-> <<tick, NextIndexInTick>>, subscription |-> k,
                targets |-> targets, status |-> "PENDING", flags |-> {},
                timeout |-> timeout, slot |-> s, value |-> NoValue,
                agreeing |-> 0, total |-> 0])
          /\ told' = Append(told, 0) /\ UNCHANGED notificationQueue
          /\ pendingQueryIndices' = pendingQueryIndices \cup {Len(queries) + 1}
    BY <2>1 DEF StartQuery
  <2> DEFINE q == [id |-> <<tick, NextIndexInTick>>, subscription |-> k,
                   targets |-> targets, status |-> "PENDING", flags |-> {},
                   timeout |-> timeout, slot |-> s, value |-> NoValue,
                   agreeing |-> 0, total |-> 0]
  <2>3. q.status = "PENDING" /\ queries' = Append(queries, q) /\ q.subscription = k /\ q.id[1] = tick
    BY <2>2
  <2> HIDE DEF q
  <2>4. FinishedAreTold'
    BY <1>1, <2>2, <2>3, ToldStarted
  <2>5. PICK n \in Nat : n = Len(queries) + 1
    BY <1>1 DEF PoolInv, PoolTypes
  <2>6. /\ queries'[n] = q /\ \A i \in QueryIndices : queries'[i] = queries[i]
        /\ pendingQueryIndices' = pendingQueryIndices \cup {n} /\ now' = now /\ tick' = tick
    <3>1. queries \in Seq(Query)
      BY <1>1 DEF PoolInv, PoolTypes
    <3> QED
      BY <2>1, <2>2, <2>3, <2>5, <3>1 DEF QueryIndices, clockVars
  <2>7. queries'[n].timeout > now
    BY <1>1, <1>3, <2>3, <2>6 DEF AskedInTime
  <2>8. queries'[n].timeout \in Int /\ now \in Nat
    <3>1. n \in QueryIndices'
      BY <1>1, <2>6 DEF PoolInv, PoolTypes
    <3>2. queries' \in Seq(Query) /\ now \in Nat
      BY <1>1 DEF PoolInv, PoolTypes
    <3>3. queries'[n] \in Query
      BY <3>1, <3>2 DEF QueryIndices
    <3> QED
      BY <3>2, <3>3, QueryTypes
  <2>9. Expired' = Expired
    <3>1. pendingQueryIndices \subseteq QueryIndices
      BY <1>1 DEF PoolInv, PoolTypes
    <3> QED
      BY <2>6, <2>7, <2>8, <3>1 DEF Expired
  <2> QED
    BY <1>1, <1>3, <2>2, <2>4, <2>9 DEF TellInv, RoomInv
<1> QED
  BY <1>2, <1>3 DEF Generate

LEMMA TellTimeOut ==
  ASSUME SimInv, SimInv', TellInv, TimeOut
  PROVE  TellInv'
<1>1. /\ PoolInv /\ NoteInv /\ EngineInv /\ FinishedAreTold /\ notificationCursor = 0
      /\ phase = "timeouts" /\ phase' = "provider" /\ ProcessTimeouts
      /\ Cardinality(notificationQueue \cup Expired) <= MaxSimultaneous
  BY SimFacts DEF TellInv, RoomInv, TimeOut
<1>2. Enqueue(Expired) /\ told' = told
  BY <1>1 DEF ProcessTimeouts, ReleaseQueries
<1>3. Expired \in SUBSET pendingQueryIndices
  BY <1>1, QueueFacts
<1>4. PICK F \in SUBSET pendingQueryIndices : F = Expired
  BY <1>3
<1>5. notificationQueue' = notificationQueue \cup F
  BY <1>1, <1>2, <1>4, AllQueued
<1>6. Steady
  BY <1>1, EngineTimeouts
<1>7. \A i \in QueryIndices \ F : IsOpen(i) => IsOpen(i)'
  BY <1>1, <1>4 DEF ProcessTimeouts, IsOpen
<1>8. FinishedAreTold'
  BY <1>1, <1>2, <1>5, <1>6, <1>7, ToldQueued
<1> QED
  BY <1>1, <1>8 DEF TellInv, RoomInv

LEMMA TellStep ==
  ASSUME SimInv, SimInv', TellInv, AskedInTime', [SimulatorNext]_vars
  PROVE  TellInv'
<1>1. CASE ContractStep
  BY <1>1, TellContracts
<1>2. CASE AnswerStep
  BY <1>2, TellAnswers
<1>3. CASE EnterTick \/ PhaseStep \/ UNCHANGED vars
  BY <1>3, TellPhases
<1>4. CASE RevealHeld
  BY <1>4, TellReveal
<1>5. CASE TimeOut
  BY <1>5, TellTimeOut
<1>6. ASSUME NEW k \in nextSubscriptionIdQueue, Generate(k) PROVE TellInv'
  BY <1>6, TellGenerate
<1>7. CASE RunBeginEpoch
  <2>1. queries' = << >> /\ notificationQueue' = {} /\ phase' = "txs"
    BY <1>7 DEF RunBeginEpoch, BeginEpoch, ResetEngine
  <2>2. QueryIndices' = {}
    BY <2>1 DEF QueryIndices
  <2> QED
    BY <2>1, <2>2 DEF TellInv, FinishedAreTold, RoomInv
<1>8. ASSUME NEW i \in notificationQueue, Deliver(i) PROVE TellInv'
  <2>1. GetNotification(i) /\ phase = "deliver" /\ phase' = phase
    BY <1>8 DEF Deliver
  <2>2. PoolInv /\ NoteInv /\ i \in QueryIndices /\ FinishedAreTold
    BY SimFacts DEF NoteInv, TellInv
  <2>3. FinishedAreTold'
    BY <2>1, <2>2, ToldNext
  <2> QED
    BY <2>1, <2>3 DEF TellInv, RoomInv
<1> QED
  BY <1>1, <1>2, <1>3, <1>4, <1>5, <1>6, <1>7, <1>8 DEF SimulatorNext, TickStep, PhaseStep

\* Queries are told of in the order they were started: the one at the head of the
\* queue is the oldest that is not told of completely.
OrderStep ==
  \A i \in DOMAIN told \cap DOMAIN told' : told'[i] > told[i] =>
    \A j \in QueryIndices : j < i /\ ~IsOpen(j) => told[j] = Len(queries[j].targets)

\* Only a notification tells anybody.
LEMMA OnlyNotificationsTell ==
  ASSUME SimInv, [SimulatorNext]_vars,
         NEW i \in DOMAIN told, i \in DOMAIN told', told'[i] > told[i]
  PROVE  GetNotification(i)
<1>1. /\ told \in Seq(Nat) /\ DOMAIN told = QueryIndices /\ told[i] \in Nat
      /\ PoolInv /\ NoteInv
  BY SimFacts, NoteFacts DEF NoteInv
<1>2. told' # told
  BY <1>1
<1>3. told' # << >>
  OBVIOUS
<1>4. told' # Append(told, 0)
  BY <1>1
<1>5. ~UNCHANGED noteVars /\ ~UNCHANGED engineVars /\ ~UNCHANGED queryVars /\ ~UNCHANGED vars
  BY <1>2 DEF noteVars, engineVars, queryVars, vars
<1>6. ~ContractStep
  <2>1. ASSUME NEW c \in Contracts, NEW t \in Timeouts PROVE ~QueryOracle(c, t)
    <3>1. \A timeout, bytes : ~StartQuery(0, <<c>>, timeout, bytes)
      BY <1>4 DEF StartQuery
    <3> QED
      BY <1>5, <3>1 DEF QueryOracle, StartContractQuery
  <2>2. ASSUME NEW c \in Contracts, NEW key \in Keys, NEW period \in Periods
        PROVE  ~SubscribeOracle(c, key, period)
    BY <1>5 DEF SubscribeOracle, StartContractSubscription
  <2>3. ASSUME NEW c \in Contracts, NEW k \in DOMAIN subscriptions PROVE ~UnsubscribeOracle(c, k)
    BY <1>5 DEF UnsubscribeOracle, StopContractSubscription
  <2> QED
    BY <2>1, <2>2, <2>3 DEF ContractStep
<1>7. ~AnswerStep
  BY <1>5 DEF AnswerStep, AnswerUnavailable, RejectMachineReply, Flag, AnswerQuery
<1>8. ~EnterTick /\ ~RunBeginEpoch /\ ~PhaseStep /\ ~TimeOut
  BY <1>2, <1>3, <1>5 DEF EnterTick, NextTick, RunBeginEpoch, BeginEpoch, ResetEngine, TimeOut, ProcessTimeouts,
       ReleaseQueries, PhaseStep, FinishTransactions, FinishReveals, FinishGenerating, FinishAnswers,
       FinishTick, DeliverFails
<1>9. ~RevealHeld
  BY <1>2, <1>5 DEF RevealHeld, ProcessRevealNoted, ProcessReveal, ReleaseQueries
<1>10. ~\E k \in nextSubscriptionIdQueue : Generate(k)
  BY <1>4, <1>5 DEF Generate, GenerateSubscriptionQuery, FailToGenerate, StartQuery
<1>11. PICK m \in notificationQueue : GetNotification(m)
  BY <1>5, <1>6, <1>7, <1>8, <1>9, <1>10 DEF SimulatorNext, TickStep, PhaseStep, Deliver
<1>12. m \in QueryIndices /\ told' = [told EXCEPT ![m] = @ + 1]
  BY <1>1, <1>11 DEF GetNotification, NoteInv
<1>13. m = i
  BY <1>1, <1>12
<1> QED
  BY <1>11, <1>13

LEMMA TellOrder == SimInv /\ TellInv /\ [SimulatorNext]_vars => OrderStep
<1> SUFFICES ASSUME SimInv, TellInv, [SimulatorNext]_vars,
                    NEW i \in DOMAIN told \cap DOMAIN told', told'[i] > told[i],
                    NEW j \in QueryIndices, j < i, ~IsOpen(j)
             PROVE  told[j] = Len(queries[j].targets)
  BY DEF OrderStep
<1>1. GetNotification(i)
  BY OnlyNotificationsTell
<1>2. i \in QueryIndices /\ QueryIndices = 1 .. Len(queries) /\ Len(queries) \in Nat
  BY SimFacts, NoteFacts, PoolFacts
<1>3. j \notin notificationQueue
  BY <1>1, <1>2 DEF GetNotification, IsNextNotified
<1> QED
  BY <1>3 DEF TellInv, FinishedAreTold

\* A tick ends with everyone told, also of a query that finished while others were
\* being told, whatever the sizes: as long as no subscription's query has timed out
\* already when it is generated.
THEOREM EveryoneTheorem == SimulatorSpec /\ []AskedInTime => []EveryoneIsTold
<1>1. TellInv => EveryoneIsTold
  BY DEF TellInv, RoomInv, FinishedAreTold, EveryoneIsTold
<1>2. SimInv /\ TellInv /\ AskedInTime' /\ [SimulatorNext]_vars => SimInv' /\ TellInv'
  BY SimStep, TellStep
<1> QED
  BY <1>1, <1>2, SimInit, TellInit, PTL DEF SimulatorSpec

\* Under the same condition queries are told of in the order they were started, one
\* completely before the next.
THEOREM OrderTheorem == SimulatorSpec /\ []AskedInTime => ToldInOrder
<1>1. ToldInOrder <=> [][OrderStep]_vars
  BY DEF ToldInOrder, OrderStep
<1>2. SimInv /\ TellInv /\ AskedInTime' /\ [SimulatorNext]_vars => SimInv' /\ TellInv'
  BY SimStep, TellStep
<1>3. SimInv /\ TellInv /\ [SimulatorNext]_vars => [OrderStep]_vars
  BY TellOrder
<1> QED
  BY <1>1, <1>2, <1>3, SimInit, TellInit, PTL DEF SimulatorSpec

\* Without keys nobody subscribes.
LEMMA NobodySubscribes ==
  ASSUME Keys = {}, SimInv, SimInv', subscriptions = << >>, [SimulatorNext]_vars
  PROVE  subscriptions' = << >>
<1>1. SubInv /\ QueriesKnown /\ DOMAIN subscriptions = {}
  BY SimFacts
<1>2. nextSubscriptionIdQueue = {} /\ \A i \in QueryIndices : queries[i].subscription = 0
  BY <1>1, SubFacts DEF SubInv, SubTypes, QueriesKnown
<1>3. CASE UNCHANGED vars
  BY <1>3 DEF vars, subVars
<1>4. CASE ContractStep
  BY <1>1, <1>4 DEF ContractStep, QueryOracle, UnsubscribeOracle, subVars
<1>5. CASE AnswerStep
  BY <1>5 DEF AnswerStep, AnswerUnavailable, AnswerQuery, subVars
<1>6. CASE TickStep
  <2>1. CASE RunBeginEpoch
    BY <2>1 DEF RunBeginEpoch, ResetSubscriptions
  <2>2. CASE RevealHeld
    BY <1>2, <2>2 DEF RevealHeld, RevealedQuery, ProcessRevealNoted, subVars
  <2>3. CASE EnterTick \/ PhaseStep \/ TimeOut \/ \E i \in notificationQueue : Deliver(i)
    BY <2>3 DEF EnterTick, PhaseStep, FinishTransactions, FinishReveals, FinishGenerating, FinishAnswers,
         FinishTick, DeliverFails, TimeOut, Deliver, subVars
  <2> QED
    BY <1>2, <1>6, <2>1, <2>2, <2>3 DEF TickStep, PhaseStep
<1> QED
  BY <1>3, <1>4, <1>5, <1>6 DEF SimulatorNext

\* Contracts that ask one query at a time, and subscribe to nothing, are told of
\* every one of them, whatever the sizes of the tables.
THEOREM AskersTheorem ==
  ASSUME Keys = {}
  PROVE  SimulatorSpec => []EveryoneIsTold /\ ToldInOrder
<1>1. Init => subscriptions = << >>
  BY DEF Init, InitSubscriptions
<1>2. SimInv /\ subscriptions = << >> /\ [SimulatorNext]_vars => SimInv' /\ (subscriptions = << >>)'
  BY SimStep, NobodySubscribes
<1>3. SimInv /\ subscriptions = << >> => AskedInTime
  <2> SUFFICES ASSUME SimInv, subscriptions = << >>, NEW i \in pendingQueryIndices
               PROVE  queries[i].subscription = 0
    BY DEF AskedInTime
  <2>1. i \in QueryIndices /\ QueriesKnown
    BY SimFacts DEF PoolInv, PoolTypes
  <2> QED
    BY <2>1 DEF QueriesKnown
<1>4. SimulatorSpec => []AskedInTime
  BY <1>1, <1>2, <1>3, SimInit, PTL DEF SimulatorSpec
<1> QED
  BY <1>4, EveryoneTheorem, OrderTheorem, PTL
=============================================================================
