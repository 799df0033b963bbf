--------------------------- MODULE TickRefinement ---------------------------
(***************************************************************************)
(* TickEngine implements TxLife.  What waits is what lies in the mempool   *)
(* or was taken out of it for the tick that runs; the history is the       *)
(* records of the ticks.                                                   *)
(***************************************************************************)
EXTENDS TickEngine

Life == INSTANCE TxLife WITH
  waiting <- Queued \cup Elements(draining),
  history <- byTick,
  now     <- currentTick,
  stopped <- terminalFault

\* The node keeps what TxLife promises: a transaction is either unknown, or
\* waits, or is remembered in one tick; what waits runs in the tick it is for
\* and before the next one begins; ticks are forgotten whole; and the chain moves
\* on, for the whole path from broadcastTx to pruneFinalized.
LifeIsKept == Life!FairSpec

=============================================================================
