------------------------------- MODULE TxLife -------------------------------
(***************************************************************************)
(* What the node promises about transactions, without saying how: no       *)
(* broadcasts in flight, no queue per tick, no phases of a tick, no        *)
(* indices.  There is the set of transactions that wait, the history of    *)
(* those that have run, tick by tick, and the tick the chain is at.        *)
(*                                                                         *)
(* The module TickRefinement shows that TickEngine implements this.        *)
(***************************************************************************)
EXTENDS Integers, Sequences

CONSTANTS
  Txs, Ticks,
  Scheduled(_)    \* the tick a transaction is for

VARIABLES
  waiting,        \* accepted, and to run in a later tick or in this one
  history,        \* tick -> what has run in it, in order
  now,            \* the tick the chain is at
  stopped         \* a fault stopped the node for good

lifeVars == <<waiting, history, now, stopped>>

Remembered == UNION {{history[t][p] : p \in DOMAIN history[t]} : t \in Ticks}

Init ==
  /\ waiting = {} /\ history = [t \in Ticks |-> << >>]
  /\ now = 0 /\ stopped = FALSE

Unknown(tx) == tx \notin waiting \cup Remembered

\* A transaction the node does not know and whose tick is still to come.
Accept(tx) ==
  /\ ~stopped /\ Unknown(tx) /\ Scheduled(tx) > now
  /\ waiting' = waiting \cup {tx}
  /\ UNCHANGED <<history, now, stopped>>

\* A transaction that waits runs in the tick it is for and in no other.
Execute(tx) ==
  /\ ~stopped /\ tx \in waiting /\ Scheduled(tx) = now
  /\ waiting' = waiting \ {tx}
  /\ history' = [history EXCEPT ![now] = Append(@, tx)]
  /\ UNCHANGED <<now, stopped>>

\* One that comes too late runs at once, if the node does not know it.
ExecuteLate(tx) ==
  /\ ~stopped /\ Unknown(tx) /\ Scheduled(tx) <= now
  /\ history' = [history EXCEPT ![now] = Append(@, tx)]
  /\ UNCHANGED <<waiting, now, stopped>>

\* The chain moves on only when nothing that was for this tick still waits.
AdvanceTick ==
  /\ ~stopped /\ now + 1 \in Ticks
  /\ \A tx \in waiting : Scheduled(tx) > now
  /\ now' = now + 1
  /\ UNCHANGED <<waiting, history, stopped>>

\* The oldest ticks are forgotten, whole and never the current one.
Forget(first) ==
  /\ ~stopped /\ first <= now
  /\ history' = [t \in Ticks |-> IF t < first THEN << >> ELSE history[t]]
  /\ UNCHANGED <<waiting, now, stopped>>

Stop ==
  /\ ~stopped /\ stopped' = TRUE
  /\ waiting' \in SUBSET waiting
  /\ UNCHANGED <<history, now>>

Next ==
  \/ \E tx \in Txs : Accept(tx) \/ Execute(tx) \/ ExecuteLate(tx)
  \/ AdvanceTick \/ (\E t \in Ticks : Forget(t)) \/ Stop

Spec == Init /\ [][Next]_lifeVars

\* The chain keeps moving, and what is due in a tick runs.
FairSpec ==
  Spec /\ WF_lifeVars(AdvanceTick) /\ WF_lifeVars(\E tx \in Txs : Execute(tx))

=============================================================================
