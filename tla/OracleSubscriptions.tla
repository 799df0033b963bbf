------------------------- MODULE OracleSubscriptions -------------------------
(***************************************************************************)
(* What the oracle engine keeps for subscriptions, on top of the query     *)
(* pool of OracleQueries: the subscriptions, their subscribers sorted by   *)
(* the time of their next query, the heap of subscriptions, and the        *)
(* generation of queries once per tick.                                    *)
(*                                                                         *)
(* A subscription's query without its timestamp is a key.  The linked list *)
(* of subscribers is a sequence of their indices and subscriberCount its   *)
(* length.  The heap is the set of its members; of several with the same   *)
(* time any may be on top.                                                 *)
(***************************************************************************)
EXTENDS OracleQueries, SequencesExt

CONSTANTS
  Keys,              \* what may be subscribed to
  Periods,           \* notification periods, in minutes
  Minute,            \* MILLISEC_PER_MINUTE, in units of the clock
  SubscriberIndexSize,
  MaxSubscriptions,  \* MAX_ORACLE_SUBSCRIPTIONS
  MaxSubscribers     \* MAX_ORACLE_SUBSCRIBERS

ASSUME SubscriptionConstants ==
  /\ Periods \subseteq Nat \ {0} /\ Minute \in Nat \ {0}
  /\ SubscriberIndexSize \in Nat
  /\ MaxSubscriptions \in Nat /\ MaxSubscribers \in Nat

VARIABLES
  subscriptions,          \* sequence of Subscription
  subscribers,            \* sequence of Subscriber; a slot is never reused
  nextSubscriptionIdQueue

subVars == <<subscriptions, subscribers, nextSubscriptionIdQueue>>

INVALID_TIMESTAMP == -1000000  \* orders before every time

Subscription ==
  [key : Keys, list : Seq(Nat \ {0}), next : Int, lastRevealed : Nat]
Subscriber ==
  [subscription : Nat \ {0}, contract : Contracts, period : Periods, next : Int]

InitSubscriptions ==
  subscriptions = << >> /\ subscribers = << >> /\ nextSubscriptionIdQueue = {}

ResetSubscriptions ==
  subscriptions' = << >> /\ subscribers' = << >> /\ nextSubscriptionIdQueue' = {}

\* addSubscriberToSubscriptionsSortedList: a walk along the list, to a place ahead
\* of those due at the same time.
InsertSorted_last(all, list, i) == Append(list, i)
InsertSorted(all, list, i) ==
  LET place == CHOOSE p \in 1 .. Len(list) + 1 :
                 /\ \A q \in 1 .. p - 1 : all[list[q]].next < all[i].next
                 /\ p <= Len(list) => all[list[p]].next >= all[i].next
  IN InsertAt(list, place, i)

(***************************************************************************)
(* startContractSubscription.                                              *)
(***************************************************************************)

SubscriptionOf(key) == {k \in DOMAIN subscriptions : subscriptions[k].key = key}

Subscribes(contract, k) ==
  \E i \in Range(subscriptions[k].list) : subscribers[i].contract = contract

\* A contract cannot change its subscription, and a table may be full.
SubscriptionRefused(contract, key) ==
  \/ \E k \in SubscriptionOf(key) : Subscribes(contract, k)
  \/ SubscriptionOf(key) = {}
     /\ \/ Len(subscriptions) >= MaxSubscriptions
        \/ queryStorageBytesUsed + QuerySize > StorageSize
        \/ Cardinality(nextSubscriptionIdQueue) >= MaxSubscriptions
  \/ Len(subscribers) >= MaxSubscribers

GreatestCommonDivisor(a, b) == Max({d \in 1 .. a : a % d = 0 /\ b % d = 0})

\* The subscriber whose period shares the greatest divisor with the new one,
\* the first in the list of several.
ReferenceSubscriber(list, period) ==
  LET gcd(p) == GreatestCommonDivisor(period, subscribers[list[p]].period) IN
  list[CHOOSE p \in DOMAIN list :
         /\ \A r \in DOMAIN list : gcd(r) <= gcd(p)
         /\ \A r \in DOMAIN list : r < p => gcd(r) < gcd(p)]

Abs(x) == IF x < 0 THEN -x ELSE x

\* The first query of a subscriber that joins others is so many whole periods
\* before the reference's next one.
JoinTimestamp(list, period) ==
  LET ref == subscribers[ReferenceSubscriber(list, period)].next
      minutesUntilRefQuery == Abs(ref - now) \div Minute
  IN ref - (minutesUntilRefQuery \div period) * period * Minute

StartContractSubscription(contract, key, period) ==
  /\ ~SubscriptionRefused(contract, key)
  /\ LET new   == SubscriptionOf(key) = {}
         k     == IF new THEN Len(subscriptions) + 1
                  ELSE CHOOSE j \in SubscriptionOf(key) : TRUE
         known == IF new
                    THEN Append(subscriptions, [key |-> key, list |-> << >>,
                           next |-> INVALID_TIMESTAMP, lastRevealed |-> 0])
                    ELSE subscriptions
         list  == known[k].list
         alone == list = << >>
         next  == IF alone THEN now ELSE JoinTimestamp(list, period)
         all   == Append(subscribers, [subscription |-> k, contract |-> contract,
                                       period |-> period, next |-> next])
     IN /\ subscribers' = all
        /\ subscriptions' = [known EXCEPT
             ![k].list = InsertSorted(all, list, Len(all)),
             ![k].next = IF alone \/ next < @ THEN next ELSE @]
        /\ nextSubscriptionIdQueue' = nextSubscriptionIdQueue \cup {k}
        /\ queryStorageBytesUsed' = queryStorageBytesUsed + (IF new THEN QuerySize ELSE 0)
  /\ UNCHANGED <<clockVars, queries, idVars, slotVars, poolVars, noteVars>>

(***************************************************************************)
(* stopContractSubscription.  The subscriber's slot stays taken: queries   *)
(* that were generated still name it.                                      *)
(***************************************************************************)

\* The subscription when the subscriber at place p leaves its list: the time of the
\* next query follows the head of the list only when the head itself left.
Without(k, p) ==
  LET sub  == subscriptions[k]
      rest == RemoveAt(sub.list, p)
  IN [sub EXCEPT !.list = rest,
        !.next = IF p # 1 THEN @
                 ELSE IF rest = << >> THEN INVALID_TIMESTAMP
                 ELSE subscribers[Head(rest)].next]

StopContractSubscription(contract, k) ==
  /\ \E p \in DOMAIN subscriptions[k].list :
       /\ subscribers[subscriptions[k].list[p]].contract = contract
       /\ subscriptions' = [subscriptions EXCEPT ![k] = Without(k, p)]
       /\ subscribers' =
            [subscribers EXCEPT ![subscriptions[k].list[p]].next = INVALID_TIMESTAMP]
       /\ nextSubscriptionIdQueue' =
            IF Len(subscriptions[k].list) = 1 THEN nextSubscriptionIdQueue \ {k}
            ELSE nextSubscriptionIdQueue
  /\ UNCHANGED queryVars

(***************************************************************************)
(* generateSubscriptionQueries, one round of its loop.                     *)
(***************************************************************************)

IsNextDue(k) ==
  /\ k \in nextSubscriptionIdQueue
  /\ \A j \in nextSubscriptionIdQueue : subscriptions[k].next <= subscriptions[j].next
  /\ subscriptions[k].next <= now

NothingDue_early == \A k \in nextSubscriptionIdQueue : subscriptions[k].next >= now
NothingDue == \A k \in nextSubscriptionIdQueue : subscriptions[k].next > now

\* A subscriber that is due moves on by whole periods, at least one, and not
\* into the past: a stuck network may have skipped some.
Advanced_once(i) == subscribers[i].next + subscribers[i].period * Minute
Advanced(i) ==
  LET step   == subscribers[i].period * Minute
      behind == now - subscribers[i].next
      rounds == IF behind <= step THEN 1 ELSE (behind + step - 1) \div step
  IN subscribers[i].next + rounds * step

\* The list is walked from its head as long as the subscribers are due.
DueCount(k) ==
  LET sub == subscriptions[k]
      IsDue(p) == subscribers[sub.list[p]].next <= sub.next
  IN CHOOSE n \in 0 .. Len(sub.list) :
       (\A p \in 1 .. n : IsDue(p)) /\ (n < Len(sub.list) => ~IsDue(n + 1))
DueSubscribers(k) == SubSeq(subscriptions[k].list, 1, DueCount(k))

\* The subscribers and the list of k once its due subscribers have moved on.
SubscribersAfter(k) ==
  [i \in DOMAIN subscribers |->
     IF i \in Range(DueSubscribers(k)) THEN [subscribers[i] EXCEPT !.next = Advanced(i)]
     ELSE subscribers[i]]
Reinserted(all, list, n) ==
  LET moved[m \in 0 .. n] == IF m = 0 THEN SubSeq(list, n + 1, Len(list))
                             ELSE InsertSorted(all, moved[m - 1], list[m])
  IN moved[n]
ListAfter(k) == Reinserted(SubscribersAfter(k), subscriptions[k].list, DueCount(k))

StorageOf(k) == QuerySize + Len(DueSubscribers(k)) * SubscriberIndexSize

SubscriptionQueryRefused(k) == IdsExhausted \/ Refuses(StorageOf(k))

\* The query names the subscribers that are due and times out a minute after
\* the time it asks about; the subscription then waits for its new head.
GenerateSubscriptionQuery(k) ==
  /\ IsNextDue(k) /\ ~SubscriptionQueryRefused(k)
  /\ TakeQueryId
  /\ StartQuery(k, [p \in DOMAIN DueSubscribers(k) |-> subscribers[DueSubscribers(k)[p]].contract],
                subscriptions[k].next + Minute, StorageOf(k))
  /\ subscribers' = SubscribersAfter(k)
  /\ subscriptions' = [subscriptions EXCEPT ![k].list = ListAfter(k),
                         ![k].next = SubscribersAfter(k)[Head(ListAfter(k))].next]
  /\ UNCHANGED <<clockVars, nextSubscriptionIdQueue>>

\* The engine refuses the query, and the loop ends: the due subscribers have
\* moved on, the subscription has not.
FailToGenerate(k) ==
  /\ IsNextDue(k) /\ SubscriptionQueryRefused(k)
  /\ TakeQueryId
  /\ subscribers' = SubscribersAfter(k)
  /\ subscriptions' = [subscriptions EXCEPT ![k].list = ListAfter(k)]
  /\ UNCHANGED <<clockVars, queries, queryStorageBytesUsed, slotVars, poolVars, noteVars,
                 nextSubscriptionIdQueue>>

\* processOracleReplyRevealTransaction, with what it notes on a subscription.
ProcessRevealNoted(i, value) ==
  LET k == queries[i].subscription IN
  /\ ProcessReveal(i, value)
  /\ subscriptions' =
       IF k # 0 /\ Revealed(i, value).status = "SUCCESS"
         THEN [subscriptions EXCEPT ![k].lastRevealed = i] ELSE subscriptions
  /\ UNCHANGED <<subscribers, nextSubscriptionIdQueue>>

=============================================================================
