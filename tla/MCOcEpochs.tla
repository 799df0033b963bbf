----------------------------- MODULE MCOcEpochs -----------------------------
(***************************************************************************)
(* OcManager with the memory of a contract that keeps ids across an epoch: *)
(* dropped are the ids whose records beginEpoch has dropped.               *)
(***************************************************************************)
EXTENDS MCOcManager

VARIABLE dropped

InitEpochs == Init /\ dropped = {}
NextEpochs ==
  /\ Next
  /\ dropped' = IF phase = "endEpoch" /\ phase' = "open"
                  THEN dropped \cup DOMAIN invocations ELSE dropped
SpecEpochs == InitEpochs /\ [][NextEpochs]_<<vars, dropped>>

\* docs/cli-guide.md: once the record is dropped at the epoch boundary, the id
\* reads UNKNOWN.  An invocation that END_EPOCH makes has the tick number that
\* BEGIN_EPOCH then runs under, and the counter restarts in between.
DroppedReadsUnknown == dropped \cap DOMAIN invocations = {}

=============================================================================
