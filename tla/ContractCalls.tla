--------------------------- MODULE ContractCalls ---------------------------
(***************************************************************************)
(* How contracts run inside one another: transactions, the procedures and  *)
(* queries of a harness, the phases of ticks and epochs, oracle            *)
(* notifications, inter-contract calls, the callbacks of shareholders and  *)
(* of management rights, and transfer notices of packages/engine/src/      *)
(* qubic-simulator.ts, the energy they move (ledger/spectrum.ts), the      *)
(* execution time they are charged (contract/fees.ts, contract/            *)
(* registry.ts, the meter of contract/runtime.ts), and what a trap or an   *)
(* abort unwinds.                                                          *)
(*                                                                         *)
(* Calls are synchronous, so the open calls form one stack of frames; the  *)
(* depth counters and flags of the code, which its finally blocks restore, *)
(* are read off the stack.  A running frame may make any call that enters  *)
(* a contract, but for distributeDividends, whose notices are those of as  *)
(* many transfers one after another (Assets has them).  A call weighs one  *)
(* unit of time; a frame's base time is one unit too.  Fees are metered.   *)
(* Amounts are positive, so every account that pays has a record.  What    *)
(* advance does in a fixed order are operations of their own here, as the  *)
(* simulator offers them.  Contracts stay deployed: INITIALIZE and MIGRATE *)
(* are in Deployments; the epochs a contract lives in are left out.        *)
(***************************************************************************)
EXTENDS Integers, Sequences, FiniteSets, Sums

Sets == INSTANCE FiniteSetsExt

CONSTANTS
  Slots,        \* indices of the deployed contracts
  Users,
  Notified,     \* the contracts that define POST_INCOMING_TRANSFER
  Hooked,       \* the contracts that define the procedures of ticks and epochs
  Oracles,      \* the contracts that define an oracle notification procedure
  Buffers,      \* NUMBER_OF_CONTRACT_EXECUTION_BUFFERS
  Computors,    \* numberOfComputors, the ticks of a fee phase
  Endowment,    \* what each user and contract has at first
  Amounts,
  DefaultReserve,
  MaxTick,      \* bound of the model
  MaxCalls      \* bound of the model: transactions, settings of reserves and calls of contracts

ASSUME CallConstants ==
  /\ Slots \subseteq Nat \ {0} /\ IsFiniteSet(Slots) /\ IsFiniteSet(Users)
  /\ Slots \cap Users = {}
  /\ Notified \subseteq Slots /\ Hooked \subseteq Slots /\ Oracles \subseteq Slots
  /\ Buffers \in Nat /\ Computors \in Nat \ {0}
  /\ Endowment \in Nat /\ Amounts \subseteq Nat \ {0} /\ DefaultReserve \in Nat
  /\ MaxTick \in Nat /\ MaxCalls \in Nat

Ids == Slots \cup Users

VARIABLES
  balance,
  reserve, failed,       \* FeeManager: reserves, contracts whose IPO failed
  executionTime,         \* contractExecutionTimePerPhase
  settledPhaseNumber,
  contractErrors,
  currentTick,
  hooks,                 \* the phase and the slots contractProcessor has still to visit
  frames,                \* the open calls, the outermost first
  cost,                  \* each contract's meter
  terminalFault,
  haltOnContractFault,   \* the option, fixed when the node starts
  calls,                 \* how many of the calls of MaxCalls were made
  burned,                \* history: energy that was burned
  credited, charged,     \* history: what each reserve was given, and charged
  worked, unpaid,        \* history: time contracts ran, and what of it nobody pays
  passed                 \* history: contracts an uncaught error passed through

feeVars == <<reserve, failed, executionTime, settledPhaseNumber, credited, charged>>
meterVars == <<cost, worked, unpaid>>
nodeVars == <<currentTick, hooks, haltOnContractFault>>
vars == <<balance, feeVars, contractErrors, nodeVars, frames, meterVars, terminalFault, calls, burned, passed>>

(***************************************************************************)
(* Frames.  via says what opened one: a delivery is an oracle notification *)
(* of its own, a notification one inside the call it answers, pre and post *)
(* are asked and told of rights that move.  next is what follows a notice, *)
(* on the same contract; saved is what the contract's meter showed before. *)
(***************************************************************************)

Roots == {"transaction", "procedure", "query", "hook", "epoch", "delivery"}
Vias == Roots \cup {"notice", "invoke", "function", "proposal", "pre", "post", "notification"}
IsFunction(f) == f.via \in {"function", "query"}

Top == frames[Len(frames)]
Running == frames # << >> /\ ~terminalFault
Idle == frames = << >> /\ hooks = {} /\ ~terminalFault

\* runSystemCallback counts itself before the notice of its reward, invokeProcedure
\* after it.  A notification inside a call is counted by nobody.
InCallback(f) == f.via \in {"proposal", "pre", "post"} \/ f.next = "proposal"
PitDepth == Cardinality({i \in DOMAIN frames : frames[i].via = "notice"})
CallDepth == Cardinality({i \in DOMAIN frames :
                            frames[i].via \in {"invoke", "function"} \/ InCallback(frames[i])})
InProposal == \E i \in DOMAIN frames : frames[i].via = "proposal" \/ frames[i].next = "proposal"
InRights == \E i \in DOMAIN frames : frames[i].via \in {"pre", "post"}

ContractErrorOf(s) == s \in contractErrors \cup failed
ReserveOk(s) == reserve[s] > 0

Moved_stale(from, to, amount) == [balance EXCEPT ![from] = balance[from] - amount, ![to] = balance[to] + amount]
Moved(from, to, amount) == [[balance EXCEPT ![from] = @ - amount] EXCEPT ![to] = @ + amount]

\* The meters, and the time worked, as they stand and once the top frame's call
\* is weighed.
Meters == [cost |-> cost, worked |-> worked]
Weighed == [cost   |-> [cost EXCEPT ![Top.slot] = @ + 1],
            worked |-> [worked EXCEPT ![Top.slot] = @ + 1]]

\* Contract s is entered on top of a stack: invoke keeps the meter it finds and
\* starts at zero.
Enter(stack, meters, s, via, next) ==
  /\ frames' = Append(stack, [slot |-> s, via |-> via, next |-> next, saved |-> meters.cost[s]])
  /\ cost' = [meters.cost EXCEPT ![s] = 0]
  /\ worked' = [meters.worked EXCEPT ![s] = @ + 1]

Stay(stack, meters) == frames' = stack /\ cost' = meters.cost /\ worked' = meters.worked

IsNotified(d, amount) == d \in Notified /\ amount > 0 /\ ~ContractErrorOf(d)

\* A notice of an incoming transfer if the contract takes one, then the entry
\* the transfer pays for.
EnterPaid(stack, meters, s, amount, via) ==
  IF IsNotified(s, amount) THEN Enter(stack, meters, s, "notice", via)
  ELSE Enter(stack, meters, s, via, "none")

Init ==
  /\ balance = [i \in Ids |-> Endowment]
  /\ reserve = [s \in Slots |-> DefaultReserve] /\ failed = {}
  /\ executionTime = [s \in Slots |-> 0] /\ settledPhaseNumber = -1
  /\ contractErrors = {}
  /\ currentTick = 0 /\ hooks = {} /\ haltOnContractFault \in BOOLEAN
  /\ frames = << >> /\ terminalFault = FALSE /\ calls = 0 /\ burned = 0
  /\ cost = [s \in Slots |-> 0]
  /\ credited = reserve /\ charged = [s \in Slots |-> 0]
  /\ worked = [s \in Slots |-> 0] /\ unpaid = [s \in Slots |-> 0]
  /\ passed = {}

(***************************************************************************)
(* What starts a stack: transactions, a harness, phases, notifications.    *)
(***************************************************************************)

Counted == calls < MaxCalls /\ calls' = calls + 1

\* A contract in an error state or without a reserve returns the amount.
Returned(u, d, amount) ==
  [[Moved(u, d, amount) EXCEPT ![d] = @ - amount] EXCEPT ![u] = @ + amount]

RefundTransaction(u, d, amount) ==
  /\ Counted /\ Idle /\ balance[u] >= amount
  /\ ~ReserveOk(d) \/ ContractErrorOf(d)
  /\ balance' = Returned(u, d, amount)
  /\ UNCHANGED <<feeVars, contractErrors, nodeVars, frames, meterVars, terminalFault, burned, passed>>

ProcedureTransaction(u, d, amount) ==
  /\ Counted /\ Idle /\ balance[u] >= amount
  /\ ReserveOk(d) /\ ~ContractErrorOf(d)
  /\ balance' = Moved(u, d, amount)
  /\ EnterPaid(<< >>, Meters, d, amount, "transaction")
  /\ UNCHANGED <<feeVars, contractErrors, nodeVars, unpaid, terminalFault, burned, passed>>

\* One with an input type the contract has no procedure for.
PlainTransaction(u, d, amount) ==
  /\ Counted /\ Idle /\ amount > 0 /\ balance[u] >= amount
  /\ ReserveOk(d) /\ ~ContractErrorOf(d)
  /\ balance' = Moved(u, d, amount)
  /\ IF IsNotified(d, amount) THEN Enter(<< >>, Meters, d, "notice", "none") ELSE Stay(frames, Meters)
  /\ UNCHANGED <<feeVars, contractErrors, nodeVars, unpaid, terminalFault, burned, passed>>

\* procedure: a harness's call looks at the reserve only.
DirectProcedure(u, d, reward) ==
  /\ Counted /\ Idle /\ balance[u] >= reward
  /\ ReserveOk(d)
  /\ balance' = Moved(u, d, reward)
  /\ EnterPaid(<< >>, Meters, d, reward, "procedure")
  /\ UNCHANGED <<feeVars, contractErrors, nodeVars, unpaid, terminalFault, burned, passed>>

\* A query, and a notification the oracle engine hands out, look at nothing.
Ungated(s, via) ==
  /\ Counted /\ Idle
  /\ Enter(<< >>, Meters, s, via, "none")
  /\ UNCHANGED <<balance, feeVars, contractErrors, nodeVars, unpaid, terminalFault, burned, passed>>

Query(s) == Ungated(s, "query")
DeliverNotification(s) == s \in Oracles /\ Ungated(s, "delivery")

PhaseNumber(tick) == tick \div Computors
Settles(tick) == PhaseNumber(tick) # settledPhaseNumber

Deducted(s) == reserve[s] - executionTime[s]

\* The tick number moves, the phase that ended is charged, and contractProcessor
\* sets out over the contracts.
EnterTick ==
  /\ Idle /\ currentTick < MaxTick
  /\ currentTick' = currentTick + 1
  /\ IF Settles(currentTick + 1)
     THEN /\ settledPhaseNumber' = PhaseNumber(currentTick + 1)
          /\ reserve' = [s \in Slots |-> Deducted(s)]
          /\ charged' = [s \in Slots |-> charged[s] + executionTime[s]]
          /\ executionTime' = [s \in Slots |-> 0]
     ELSE UNCHANGED <<settledPhaseNumber, reserve, charged, executionTime>>
  /\ hooks' = {"BEGIN_TICK"} \X Hooked
  /\ UNCHANGED <<balance, failed, credited, contractErrors, haltOnContractFault, frames, meterVars,
                 terminalFault, calls, burned, passed>>

TickPhases == {"BEGIN_TICK", "END_TICK"}
EpochPhases == {"BEGIN_EPOCH", "END_EPOCH"}

\* endTick, beginEpoch and endEpoch.
StartPhase(phase) ==
  /\ Counted /\ Idle
  /\ hooks' = {phase} \X Hooked
  /\ UNCHANGED <<balance, feeVars, contractErrors, currentTick, haltOnContractFault, frames, meterVars,
                 terminalFault, burned, passed>>

\* Contracts are visited in ascending order by what begins, in descending order by
\* what ends; an epoch's phases do not ask for a reserve.
IsNextOf(phase, s) ==
  \A h \in hooks : IF phase \in {"BEGIN_TICK", "BEGIN_EPOCH"} THEN s <= h[2] ELSE h[2] <= s

PhaseSkips(phase, s) == ContractErrorOf(s) \/ (phase \in TickPhases /\ ~ReserveOk(s))

VisitHook(phase, s) ==
  /\ frames = << >> /\ ~terminalFault
  /\ IsNextOf(phase, s)
  /\ hooks' = hooks \ {<<phase, s>>}
  /\ IF PhaseSkips(phase, s) THEN Stay(frames, Meters)
     ELSE Enter(<< >>, Meters, s, IF phase \in TickPhases THEN "hook" ELSE "epoch", "none")
  /\ UNCHANGED <<balance, feeVars, contractErrors, currentTick, haltOnContractFault, unpaid,
                 terminalFault, calls, burned, passed>>

\* setContractFeeReserve and ipo, from outside.
SetReserve(s, amount) ==
  /\ Counted /\ Idle
  /\ reserve' = [reserve EXCEPT ![s] = amount]
  /\ credited' = [credited EXCEPT ![s] = amount + charged[s]]
  /\ failed' = IF amount > 0 THEN failed \ {s} ELSE failed
  /\ UNCHANGED <<balance, executionTime, settledPhaseNumber, charged, contractErrors, nodeVars,
                 frames, meterVars, terminalFault, burned, passed>>

FailIpo(s) ==
  /\ Counted /\ Idle
  /\ reserve' = [reserve EXCEPT ![s] = 0]
  /\ credited' = [credited EXCEPT ![s] = charged[s]]
  /\ failed' = failed \cup {s}
  /\ UNCHANGED <<balance, executionTime, settledPhaseNumber, charged, contractErrors, nodeVars,
                 frames, meterVars, terminalFault, burned, passed>>

(***************************************************************************)
(* The calls of a running contract.                                        *)
(***************************************************************************)

Calls ==
  /\ Counted /\ Running
  /\ UNCHANGED <<contractErrors, nodeVars, unpaid, terminalFault, passed>>

\* A function may only call functions.
Mutates == Calls /\ ~IsFunction(Top)

TransferRefused_nested(from, d, amount) == (d \in Slots /\ ContractErrorOf(d)) \/ balance[from] < amount

TransferRefused(from, d, amount) ==
  \/ d \in Slots /\ (PitDepth > 0 \/ ContractErrorOf(d))
  \/ balance[from] < amount

Transfer(d, amount) ==
  /\ Mutates
  /\ IF TransferRefused(Top.slot, d, amount) THEN Stay(frames, Weighed) /\ UNCHANGED balance
     ELSE /\ balance' = Moved(Top.slot, d, amount)
          /\ IF IsNotified(d, amount) THEN Enter(frames, Weighed, d, "notice", "none")
             ELSE Stay(frames, Weighed)
  /\ UNCHANGED <<feeVars, burned>>

\* burn turns energy into a reserve, the caller's or another contract's.
Burn(target, amount) ==
  /\ Mutates
  /\ Stay(frames, Weighed)
  /\ IF target \in failed \/ balance[Top.slot] < amount THEN UNCHANGED <<balance, burned, reserve, credited>>
     ELSE /\ balance' = [balance EXCEPT ![Top.slot] = @ - amount]
          /\ burned' = burned + amount
          /\ reserve' = [reserve EXCEPT ![target] = @ + amount]
          /\ credited' = [credited EXCEPT ![target] = @ + amount]
  /\ UNCHANGED <<failed, executionTime, settledPhaseNumber, charged>>

DepthExhausted == CallDepth >= Buffers

\* transferInvocationReward: what the callee gets of the reward.
PaidReward(reward) == IF PitDepth > 0 \/ balance[Top.slot] < reward THEN 0 ELSE reward

\* invokeProcedure, of a contract with a lower index only.
CallRefused_fees(callee) == callee >= Top.slot \/ DepthExhausted
CallRefused(callee) == callee >= Top.slot \/ ~ReserveOk(callee) \/ DepthExhausted

InvokeProcedure(callee, reward) ==
  /\ Mutates
  /\ IF CallRefused(callee) THEN Stay(frames, Weighed) /\ UNCHANGED balance
     ELSE /\ balance' = Moved(Top.slot, callee, PaidReward(reward))
          /\ EnterPaid(frames, Weighed, callee, PaidReward(reward), "invoke")
  /\ UNCHANGED <<feeVars, burned>>

CallFunction(callee) ==
  /\ Calls
  /\ IF CallRefused(callee) THEN Stay(frames, Weighed)
     ELSE Enter(frames, Weighed, callee, "function", "none")
  /\ UNCHANGED <<balance, feeVars, burned>>

\* setShareholderProposal and setShareholderVotes, of any other contract.  One in
\* an error state makes the caller abort, see Fail.
ProposalRefused(callee) == InProposal \/ callee = Top.slot \/ DepthExhausted

SetShareholderProposal(callee, reward) ==
  /\ Mutates
  /\ IF ProposalRefused(callee) THEN Stay(frames, Weighed) /\ UNCHANGED balance
     ELSE /\ ~ContractErrorOf(callee)
          /\ balance' = Moved(Top.slot, callee, PaidReward(reward))
          /\ EnterPaid(frames, Weighed, callee, PaidReward(reward), "proposal")
  /\ UNCHANGED <<feeVars, burned>>

\* acquireShares and releaseShares, with any other contract's rights: its PRE is
\* asked, unless the call is refused for the shares.  No depth is checked.
RightsRefused(callee) == InRights \/ callee = Top.slot

MoveRights(callee) ==
  /\ Mutates
  /\ \/ Stay(frames, Weighed)
     \/ /\ ~RightsRefused(callee) /\ ~ContractErrorOf(callee)
        /\ Enter(frames, Weighed, callee, "pre", "none")
  /\ UNCHANGED <<balance, feeVars, burned>>

\* queryOracle and subscribeOracle.  The caller's own notification procedure runs
\* inside the call that is refused, and inside a subscription with a reply at hand.
Notification == Top.slot \in Oracles /\ Enter(frames, Weighed, Top.slot, "notification", "none")

OracleRefused ==
  /\ Mutates
  /\ Stay(frames, Weighed) \/ Notification
  /\ UNCHANGED <<balance, feeVars, burned>>

OracleStarted(fee) ==
  /\ Mutates /\ Top.slot \in Oracles /\ balance[Top.slot] >= fee
  /\ balance' = [balance EXCEPT ![Top.slot] = @ - fee]
  /\ burned' = burned + fee
  /\ Stay(frames, Weighed) \/ Notification
  /\ UNCHANGED feeVars

(***************************************************************************)
(* How a frame ends.                                                       *)
(***************************************************************************)

Restored_lost(m, s, saved) == [cost |-> [m.cost EXCEPT ![s] = 0], worked |-> m.worked]
Restored(m, s, saved) == [cost |-> [m.cost EXCEPT ![s] = saved], worked |-> m.worked]

Below == SubSeq(frames, 1, Len(frames) - 1)
MetersBelow == Restored(Meters, Top.slot, Top.saved)

\* fire adds the frame's time to the phase, unless it was a function's.
Accrue ==
  LET time == 1 + cost[Top.slot]
  IN  IF IsFunction(Top)
      THEN unpaid' = [unpaid EXCEPT ![Top.slot] = @ + time] /\ UNCHANGED executionTime
      ELSE executionTime' = [executionTime EXCEPT ![Top.slot] = @ + time] /\ UNCHANGED unpaid

Ends ==
  /\ Running /\ Accrue
  /\ UNCHANGED <<reserve, failed, settledPhaseNumber, credited, charged, contractErrors,
                 nodeVars, terminalFault, calls, burned, passed>>

\* A notice is followed by what it was the notice of; rights may not move after
\* all once their fee is paid, and POST need not be defined.
Return ==
  /\ Ends
  /\ \/ Top.next \in {"none", "post"} /\ Stay(Below, MetersBelow)
     \/ Top.next # "none" /\ Enter(Below, MetersBelow, Top.slot, Top.next, "none")
  /\ UNCHANGED balance

\* PRE agrees for a fee, which moveManagementRights transfers from the caller.
Agree(fee) ==
  LET caller == frames[Len(frames) - 1].slot
  IN  /\ Ends /\ Top.via = "pre"
      /\ ~TransferRefused(caller, Top.slot, fee)
      /\ balance' = Moved(caller, Top.slot, fee)
      /\ \/ EnterPaid(Below, MetersBelow, Top.slot, fee, "post")
         \/ ~IsNotified(Top.slot, fee) /\ Stay(Below, MetersBelow)

\* What a frame keeps of its contract's time: its base, and the meter it found.
HeldTime == [i \in DOMAIN frames |-> frames[i].saved + 1]
FramesOf(s, among) == {i \in among : frames[i].slot = s}

\* The frames of the stack from a given one on are left with an error.
Unwind(from) ==
  LET popped == from .. Len(frames)
      restored(s) == IF FramesOf(s, popped) = {} THEN cost[s]
                     ELSE frames[Sets!Min(FramesOf(s, popped))].saved
      held(s) == Total(HeldTime, FramesOf(s, popped))
  IN  /\ frames' = SubSeq(frames, 1, from - 1)
      /\ cost' = [s \in Slots |-> restored(s)]
      /\ unpaid' = [s \in Slots |-> unpaid[s] + cost[s] + held(s) - restored(s)]

\* Only invokeProcedure and callFunction catch an error.
Catchers == {i \in DOMAIN frames : frames[i].via \in {"invoke", "function"}}

\* A trap of a nested call is the caller's to see: it gets an empty answer.
TrapCaught ==
  /\ Running /\ Catchers # {}
  /\ Unwind(Sets!Max(Catchers))
  /\ UNCHANGED <<balance, feeVars, contractErrors, nodeVars, worked, terminalFault, calls, burned, passed>>

\* A nested abort halts the node; an error nobody catches does too, or is noted
\* against the contract it came from: the error keeps the innermost frame's slot.
\* Nobody notes the errors of a query.
PassedThrough == {frames[i].slot : i \in {j \in DOMAIN frames : ~IsFunction(frames[j])}}
Noted == IF IsFunction(Top) THEN {} ELSE {Top.slot}

Fail(aborts) ==
  /\ Running
  /\ aborts \/ Catchers = {}
  /\ Unwind(1)
  /\ hooks' = {}
  /\ terminalFault' = ((haltOnContractFault /\ frames[1].via # "query") \/ Catchers # {})
  /\ IF haltOnContractFault THEN UNCHANGED <<contractErrors, passed>>
     ELSE /\ contractErrors' = contractErrors \cup Noted
          /\ passed' = passed \cup PassedThrough
  /\ UNCHANGED <<balance, feeVars, currentTick, haltOnContractFault, worked, calls, burned>>

Rewards == Amounts \cup {0}

Next ==
  \/ \E u \in Users, d \in Slots, amount \in Rewards :
       \/ ProcedureTransaction(u, d, amount)
       \/ PlainTransaction(u, d, amount)
       \/ RefundTransaction(u, d, amount)
       \/ DirectProcedure(u, d, amount)
  \/ \E s \in Slots : Query(s) \/ DeliverNotification(s)
  \/ EnterTick
  \/ \E phase \in EpochPhases \cup {"END_TICK"} : StartPhase(phase)
  \/ \E h \in hooks : VisitHook(h[1], h[2])
  \/ \E s \in Slots : SetReserve(s, DefaultReserve) \/ FailIpo(s)
  \/ \E d \in Ids, amount \in Amounts : Transfer(d, amount)
  \/ \E target \in Slots, amount \in Amounts : Burn(target, amount)
  \/ \E callee \in Slots, reward \in Rewards : InvokeProcedure(callee, reward)
  \/ \E callee \in Slots : CallFunction(callee)
  \/ \E callee \in Slots, reward \in Rewards : SetShareholderProposal(callee, reward)
  \/ \E callee \in Slots : MoveRights(callee)
  \/ OracleRefused \/ \E fee \in Amounts : OracleStarted(fee)
  \/ Return \/ \E fee \in Rewards : Agree(fee)
  \/ TrapCaught
  \/ \E aborts \in BOOLEAN : Fail(aborts)

Spec == Init /\ [][Next]_vars

-----------------------------------------------------------------------------

Frames == [slot : Slots, via : Vias, next : Vias \cup {"none"}, saved : Nat]

TypeOK ==
  /\ balance \in [Ids -> Nat] /\ burned \in Nat
  /\ reserve \in [Slots -> Int] /\ credited \in [Slots -> Int] /\ charged \in [Slots -> Nat]
  /\ executionTime \in [Slots -> Nat] /\ cost \in [Slots -> Nat]
  /\ worked \in [Slots -> Nat] /\ unpaid \in [Slots -> Nat]
  /\ failed \subseteq Slots /\ contractErrors \subseteq Slots /\ passed \subseteq Slots
  /\ currentTick \in 0 .. MaxTick /\ calls \in 0 .. MaxCalls /\ settledPhaseNumber \in Int
  /\ terminalFault \in BOOLEAN /\ haltOnContractFault \in BOOLEAN
  /\ hooks \subseteq (TickPhases \cup EpochPhases) \X Hooked
  /\ frames \in Seq(Frames)

\* Whatever contracts call in whatever order, and wherever an error unwinds them,
\* no energy is made or lost: what is not on an account was burned.
EnergyConserved == Total(balance, Ids) + burned = Cardinality(Ids) * Endowment

\* A reserve is what it was given less what its contract was charged.
ReserveIsExplained == \A s \in Slots : reserve[s] = credited[s] - charged[s]

\* A contract that is entered again while it runs keeps two meters apart: all of
\* its time is accumulated, charged to its reserve or given up exactly once.
TimeIsChargedOnce ==
  ReserveIsExplained /\ \A s \in Slots :
    worked[s] = executionTime[s] + charged[s] + unpaid[s] + cost[s]
                  + Total(HeldTime, FramesOf(s, DOMAIN frames))

\* A contract told of a transfer cannot make another one be told of one: no
\* notice runs inside a notice, over transfers, rewards and callbacks.
NoticesDoNotNest == PitDepth <= 1

\* Nothing but a contract's own notifications, each inside the request it answers,
\* makes the stack grow without end: no other frames outnumber the call buffers or
\* the contracts, though notices and callbacks run contracts with a higher index
\* than their caller's, and the callbacks of rights check no depth.
Entered == {i \in DOMAIN frames : frames[i].via # "notification"}

OnlyNotificationsRecurse ==
  /\ TypeOK /\ NoticesDoNotNest
  /\ Cardinality(Entered) <= Buffers + 3 /\ Cardinality(Entered) <= 4 * Cardinality(Slots)
  /\ \A i \in DOMAIN frames \ Entered : i > 1 /\ frames[i].slot = frames[i - 1].slot

\* A contract in an error state runs no transaction, phase, notice or callback.
ErroredIsOutOfService ==
  \A i \in DOMAIN frames : ContractErrorOf(frames[i].slot) =>
    frames[i].via \in {"procedure", "query", "delivery", "notification", "invoke", "function"}

\* A contract whose reserve is used up runs no transaction or procedure, tick phase
\* or other contract's call, until somebody refills it.
DormantIsNotCalled ==
  \A i \in DOMAIN frames :
    ReserveOk(frames[i].slot) \/ frames[i].via \notin {"transaction", "procedure", "hook", "invoke", "function"}

Runs(s) == \E i \in DOMAIN frames : frames[i].slot = s

\* What a client sends a contract out of service comes back, unless it runs for it.
OutOfServiceKeepsNothing ==
  [][frames = << >> =>
       \A s \in Slots : (ContractErrorOf(s) \/ ~ReserveOk(s)) /\ ~Runs(s)' => balance'[s] = balance[s]]_vars

\* A contract that erred, failed its IPO or ran dry is out of service for all that
\* asks first: for clients, and what each of the two states closes.
OutOfServiceIsGated ==
  [](ErroredIsOutOfService /\ DormantIsNotCalled) /\ OutOfServiceKeepsNothing

\* As noteContractError says: an error leaves every procedure frame that it
\* passed through on its way to the root in the error state.
ErrorsClimb == passed \subseteq contractErrors

\* As invoke says of the journal it clears: no contract is entered while it runs.
NeverReentered == \A i, j \in DOMAIN frames : frames[i].slot = frames[j].slot => i = j
=============================================================================
