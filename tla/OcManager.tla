------------------------------ MODULE OcManager ------------------------------
(***************************************************************************)
(* The OC (outsourced computing) invocations of one epoch:                 *)
(* packages/engine/src/chain/oc.ts, driven by the tick of                  *)
(* packages/engine/src/qubic-simulator.ts (runAdvance).                    *)
(*                                                                         *)
(* A contract pays a fee, the manager records the invocation under an id   *)
(* made of the tick and a per-tick counter, and the per-tick pump          *)
(* authorises it, or times it out, and frees its in-flight place.  The     *)
(* bytes of a request are only a size; the log records are left out.       *)
(***************************************************************************)
EXTENDS Integers, FiniteSets

CONSTANTS
  Slots,               \* the contracts that may invoke
  Interfaces,          \* OC_INTERFACES
  RequestSize,         \* the request size of each interface
  Fee,                 \* getInvocationFee of each interface
  Endowment,           \* the energy each contract starts with
  MinFee,              \* MIN_OC_INVOCATION_FEE
  MaxPerEpoch,         \* MAX_OC_INVOCATIONS_PER_EPOCH
  MaxInFlight,         \* MAX_OC_IN_FLIGHT_INVOCATIONS
  StorageSize,         \* OC_REQUEST_STORAGE_SIZE
  MaxIndexInTick,      \* 0x7fffffff, counted from TXS_PER_TICK
  AuthOffset,          \* OC_AUTH_SIGNATURE_PUBLICATION_OFFSET
  TimeoutTicks,        \* OC_INVOCATION_TIMEOUT_DEFAULT_TICKS
  MaxTick              \* bound of the model: the last tick that is entered

ASSUME OcConstants ==
  /\ RequestSize \in [Interfaces -> Nat]
  /\ Fee \in [Interfaces -> Nat]
  /\ Endowment \in [Slots -> Nat]
  /\ MinFee \in Nat /\ MaxTick \in Nat
  /\ MaxPerEpoch \in Nat /\ MaxInFlight \in Nat /\ StorageSize \in Nat
  /\ MaxIndexInTick \in Nat
  /\ AuthOffset \in Nat \ {0} /\ TimeoutTicks \in Nat /\ AuthOffset <= TimeoutTicks

VARIABLES
  tick,                \* currentTick
  phase,               \* where runAdvance stands in the tick
  energy,              \* what the spectrum holds for each contract
  invocations,         \* id -> record, an id being <<tick, index>>
  inFlight,
  requestStorageBytesUsed,
  idTick,
  indexInTick          \* TXS_PER_TICK is 0 here

vars == <<tick, phase, energy, invocations, inFlight, requestStorageBytesUsed,
          idTick, indexInTick>>

Status == {"PENDING_AUTH", "AUTHORIZED", "TIMEOUT"}
Phases == {"closed", "endEpoch", "open", "pumped"}
Ids == Nat \X (0 .. MaxIndexInTick)
Invocation == [slot : Slots, interface : Interfaces, status : Status,
               creationTick : Nat, holdsInFlight : BOOLEAN]

Init ==
  /\ tick = 0 /\ phase = "closed"
  /\ energy = Endowment
  /\ invocations = << >> /\ inFlight = 0 /\ requestStorageBytesUsed = 0
  /\ idTick = -1 /\ indexInTick = 0

(***************************************************************************)
(* startContractInvocation.                                                *)
(***************************************************************************)

\* newInvocationId: the counter restarts with the first id of a tick.
IdExhausted == idTick >= tick /\ indexInTick >= MaxIndexInTick
NextIndex_restarts == IF idTick <= tick THEN 0 ELSE indexInTick + 1
NextIndex == IF idTick < tick THEN 0 ELSE indexInTick + 1

Full(i) ==
  \/ Cardinality(DOMAIN invocations) >= MaxPerEpoch
  \/ inFlight >= MaxInFlight
  \/ requestStorageBytesUsed + RequestSize[i] > StorageSize

\* record, for a request that is not refused.
Record(s, i) ==
  LET id == <<tick, NextIndex>>
      invocation == [slot |-> s, interface |-> i, status |-> "PENDING_AUTH",
                     creationTick |-> tick, holdsInFlight |-> TRUE]
  IN /\ idTick' = tick /\ indexInTick' = NextIndex
     /\ invocations' = [j \in DOMAIN invocations \cup {id} |->
                          IF j = id THEN invocation ELSE invocations[j]]
     /\ inFlight' = inFlight + 1
     /\ requestStorageBytesUsed' = requestStorageBytesUsed + RequestSize[i]

\* The fee is taken before the manager records, and handed back when it
\* refuses: a refusal leaves no trace.
StartContractInvocation(s, i) ==
  /\ Fee[i] >= MinFee /\ energy[s] >= Fee[i]
  /\ IF Full(i) \/ IdExhausted
       THEN UNCHANGED vars
       ELSE /\ Record(s, i)
            /\ energy' = [energy EXCEPT ![s] = @ - Fee[i]]
            /\ UNCHANGED <<tick, phase>>

(***************************************************************************)
(* The tick.  Contracts run, and may invoke, in every phase: in END_EPOCH  *)
(* under the new tick number and before the reset, in BEGIN_EPOCH,         *)
(* BEGIN_TICK and the tick's transactions before the pump, in the          *)
(* notifications and END_TICK after it, and between ticks when procedures  *)
(* are called directly.                                                    *)
(***************************************************************************)

EnterTick ==
  /\ phase = "closed" /\ tick < MaxTick
  /\ tick' = tick + 1
  /\ phase' \in {"open", "endEpoch"}
  /\ UNCHANGED <<energy, invocations, inFlight, requestStorageBytesUsed,
                 idTick, indexInTick>>

\* beginEpoch: everything the previous epoch recorded is dropped.
BeginEpoch ==
  /\ phase = "endEpoch" /\ phase' = "open"
  /\ invocations' = << >> /\ inFlight' = 0 /\ requestStorageBytesUsed' = 0
  /\ idTick' = -1 /\ indexInTick' = 0
  /\ UNCHANGED <<tick, energy>>

Age(id) == tick - invocations[id].creationTick

Authorised_late(id) ==
  invocations[id].status = "PENDING_AUTH" /\ Age(id) > AuthOffset
Authorised(id) ==
  invocations[id].status = "PENDING_AUTH" /\ Age(id) >= AuthOffset

TimedOut(id) ==
  /\ invocations[id].status = "PENDING_AUTH" /\ ~Authorised(id)
  /\ Age(id) >= TimeoutTicks

\* releaseInFlight, for what the pump leaves authorised or timed out.
Released_again(id) ==
  Authorised(id) \/ TimedOut(id) \/ invocations[id].status = "AUTHORIZED"
Released(id) ==
  /\ invocations[id].holdsInFlight
  /\ Authorised(id) \/ TimedOut(id) \/ invocations[id].status = "AUTHORIZED"

Pump ==
  /\ phase = "open" /\ phase' = "pumped"
  /\ invocations' = [id \in DOMAIN invocations |->
       [invocations[id] EXCEPT
          !.status = IF Authorised(id) THEN "AUTHORIZED"
                     ELSE IF TimedOut(id) THEN "TIMEOUT" ELSE @,
          !.holdsInFlight = @ /\ ~Released(id)]]
  /\ inFlight' = inFlight - Cardinality({id \in DOMAIN invocations : Released(id)})
  /\ UNCHANGED <<tick, energy, requestStorageBytesUsed, idTick, indexInTick>>

FinishTick ==
  /\ phase = "pumped" /\ phase' = "closed"
  /\ UNCHANGED <<tick, energy, invocations, inFlight, requestStorageBytesUsed,
                 idTick, indexInTick>>

Next ==
  \/ \E s \in Slots, i \in Interfaces : StartContractInvocation(s, i)
  \/ EnterTick \/ BeginEpoch \/ Pump \/ FinishTick

Spec == Init /\ [][Next]_vars

(***************************************************************************)
(* Properties.                                                             *)
(***************************************************************************)

\* The type invariant of the manager's state.
TypeOK ==
  /\ tick \in Nat /\ phase \in Phases
  /\ energy \in [Slots -> Nat]
  /\ DOMAIN invocations \subseteq Ids
  /\ invocations \in [DOMAIN invocations -> Invocation]
  /\ inFlight \in Nat /\ requestStorageBytesUsed \in Nat
  /\ idTick \in Int /\ indexInTick \in 0 .. MaxIndexInTick

Holding == {id \in DOMAIN invocations : invocations[id].holdsInFlight}

\* inFlight, which the manager only ever counts up and down (record,
\* releaseInFlight), is the number of invocations that hold a place, and stays
\* within the admission limit: no place is freed twice, none is leaked.
InFlightIsHeld == inFlight = Cardinality(Holding) /\ inFlight <= MaxInFlight

\* An invocation that holds a place is waiting for its signatures, and the
\* pump of the tick AuthOffset ticks after the call frees it at the latest, so
\* a full manager admits again; an authorised one never holds a place.
PlacesAreFreedInTime ==
  \A id \in Holding :
    /\ invocations[id].status = "PENDING_AUTH"
    /\ \/ Age(id) < AuthOffset
       \/ Age(id) = AuthOffset /\ phase \in {"open", "endEpoch"}

\* The id newInvocationId would give next is above every id in use, also after
\* a tick in which the epoch changed: recording never overwrites an invocation.
NextIdIsFresh ==
  \A id \in DOMAIN invocations :
    id[1] < tick \/ (id[1] = tick /\ id[2] < NextIndex)

=============================================================================
