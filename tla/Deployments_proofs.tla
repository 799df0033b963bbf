-------------------------- MODULE Deployments_proofs --------------------------
(***************************************************************************)
(* Proofs about Deployments, for all slots, sessions and modules, any      *)
(* sizes of states and any length of run; then about its clients.          *)
(***************************************************************************)
EXTENDS UploadClient, FiniteSetTheorems, TLAPS

\* INITIALIZE ran on a state at most once, and never on a staged one.
InitsInOrder(state) == state.inits <= IF state.seeded THEN 0 ELSE 1
Untouched(state) == state.inits = 0 /\ ~state.seeded

\* What makes InitializedOnce inductive: a slot that waits for INITIALIZE holds
\* bytes nobody initialised or staged, and one that waits for MIGRATE has set
\* aside a state that is itself in order.
WaitingInv ==
  \A s \in Slots : pendingConstruction[s] # None =>
    /\ contracts[s] # None
    /\ pendingConstruction[s].oldState = None => Untouched(contracts[s].state)
    /\ pendingConstruction[s].oldState # None => InitsInOrder(pendingConstruction[s].oldState)

DeployInv == TypeOK /\ WaitingInv /\ InitializedOnce /\ RegistryReportsWhatRuns

LEMMA DeployInit == Init => DeployInv
<1> SUFFICES ASSUME Init PROVE DeployInv
  OBVIOUS
<1>1. TypeOK
  BY DEF Init, TypeOK
<1>2. WaitingInv /\ InitializedOnce /\ RegistryReportsWhatRuns
  BY DEF Init, WaitingInv, InitializedOnce, RegistryReportsWhatRuns
<1> QED
  BY <1>1, <1>2 DEF DeployInv

SlotsType ==
  /\ contracts \in [Slots -> Contract \cup {None}]
  /\ pendingConstruction \in [Slots -> Pending \cup {None}]
  /\ slotMeta \in [Slots -> Description \cup {None}]

LEMMA TypedSlots == ASSUME TypeOK PROVE SlotsType
BY DEF TypeOK, SlotsType

LEMMA VersionType ==
  ASSUME SlotsType, NEW slot \in Slots
  PROVE  Version(slot) \in Nat
BY DEF SlotsType, Version, Description

LEMMA BlankType ==
  ASSUME SlotsType, NEW slot \in Slots, NEW module \in Modules
  PROVE  Blank(slot, module) \in State /\ Untouched(Blank(slot, module))
BY DeploymentConstants, VersionType DEF Blank, State, Untouched

LEMMA ResizedType ==
  ASSUME NEW module \in Modules, NEW state \in State
  PROVE  /\ Resized(module, state) \in State
         /\ InitsInOrder(state) => InitsInOrder(Resized(module, state))
         /\ Untouched(state) => Untouched(Resized(module, state))
BY DeploymentConstants DEF Resized, State, InitsInOrder, Untouched

LEMMA InitializedType ==
  ASSUME NEW state \in State, Untouched(state)
  PROVE  Initialized(state) \in State /\ InitsInOrder(Initialized(state))
BY DEF Initialized, State, InitsInOrder, Untouched

LEMMA UntouchedIsInOrder ==
  ASSUME NEW state \in State, Untouched(state)
  PROVE  InitsInOrder(state)
BY DEF State, InitsInOrder, Untouched

\* A complete staged state is a state, staged and not initialised.
LEMMA TakenSeedType ==
  ASSUME TypeOK, NEW slot \in Slots
  PROVE  /\ TakenSeed(slot) \in State \cup {None}
         /\ TakenSeed(slot) # None => InitsInOrder(TakenSeed(slot))
BY TypedSlots, VersionType DEF TypeOK, TakenSeed, Staged, State, InitsInOrder

LEMMA ResidentStateType ==
  ASSUME DeployInv, NEW slot \in Slots
  PROVE  /\ ResidentState(slot) \in State \cup {None}
         /\ ResidentState(slot) # None => InitsInOrder(ResidentState(slot))
<1>1. CASE pendingConstruction[slot] # None /\ pendingConstruction[slot].oldState # None
  <2>1. pendingConstruction[slot] \in Pending
    BY <1>1 DEF DeployInv, TypeOK
  <2>2. ResidentState(slot) = pendingConstruction[slot].oldState
    BY <1>1 DEF ResidentState
  <2> QED
    BY <1>1, <2>1, <2>2 DEF DeployInv, WaitingInv, Pending
<1>2. CASE ~(pendingConstruction[slot] # None /\ pendingConstruction[slot].oldState # None)
           /\ contracts[slot] # None
  <2>1. contracts[slot] \in Contract
    BY <1>2 DEF DeployInv, TypeOK
  <2>2. ResidentState(slot) = contracts[slot].state
    BY <1>2 DEF ResidentState
  <2> QED
    BY <1>2, <2>1, <2>2 DEF DeployInv, InitializedOnce, Contract, InitsInOrder
<1>3. CASE ~(pendingConstruction[slot] # None /\ pendingConstruction[slot].oldState # None)
           /\ contracts[slot] = None
  BY <1>3 DEF ResidentState
<1> QED
  BY <1>1, <1>2, <1>3

\* What a deploy puts into a slot keeps the slot's part of the invariant.
LEMMA InstalledType ==
  ASSUME DeployInv, NEW slot \in Slots, NEW module \in Modules, NEW defer \in BOOLEAN
  PROVE  LET i == Installed(slot, module, TakenSeed(slot), defer) IN
         /\ i.contract \in Contract /\ i.contract.module = module
         /\ InitsInOrder(i.contract.state)
         /\ i.pending \in Pending \cup {None}
         /\ i.pending # None =>
              /\ i.pending.oldState = None => Untouched(i.contract.state)
              /\ i.pending.oldState # None => InitsInOrder(i.pending.oldState)
<1> DEFINE seed == TakenSeed(slot)
           prev == IF seed # None THEN seed ELSE ResidentState(slot)
           i == Installed(slot, module, seed, defer)
           With(state, pending) ==
             [contract |-> [module |-> module, state |-> state], pending |-> pending]
           Goal ==
             /\ i.contract \in Contract /\ i.contract.module = module
             /\ InitsInOrder(i.contract.state)
             /\ i.pending \in Pending \cup {None}
             /\ i.pending # None =>
                  /\ i.pending.oldState = None => Untouched(i.contract.state)
                  /\ i.pending.oldState # None => InitsInOrder(i.pending.oldState)
<1> SUFFICES Goal
  OBVIOUS
<1>1. prev \in State \cup {None} /\ (prev # None => InitsInOrder(prev))
  BY TakenSeedType, ResidentStateType DEF DeployInv
<1>3. CASE defer /\ (prev = None \/ Migrates(module, prev))
  <2>1. i = With(Blank(slot, module), [oldState |-> IF Migrates(module, prev) THEN prev ELSE None])
    BY <1>3 DEF Installed
  <2>2. Migrates(module, prev) => prev # None
    BY DEF Migrates
  <2> HIDE DEF i, prev, seed
  <2>3. Blank(slot, module) \in State /\ Untouched(Blank(slot, module)) /\ InitsInOrder(Blank(slot, module))
    BY BlankType, UntouchedIsInOrder, TypedSlots DEF DeployInv
  <2> QED
    BY <2>1, <2>2, <2>3, <1>1, NoneIsNothing DEF Contract, Pending
<1>4. CASE ~(defer /\ (prev = None \/ Migrates(module, prev))) /\ prev = None
  <2>1. i = With(Initialized(Blank(slot, module)), None)
    BY <1>4 DEF Installed
  <2> HIDE DEF i, prev, seed
  <2>2. Initialized(Blank(slot, module)) \in State /\ InitsInOrder(Initialized(Blank(slot, module)))
    BY BlankType, InitializedType, TypedSlots DEF DeployInv
  <2> QED
    BY <2>1, <2>2 DEF Contract
<1>5. CASE /\ ~(defer /\ (prev = None \/ Migrates(module, prev))) /\ prev # None
           /\ Migrates(module, prev) \/ ~OwedInitialize(slot, seed)
  <2>1. i = With(Resized(module, prev), None)
    BY <1>5 DEF Installed
  <2> HIDE DEF i, prev, seed
  <2>2. Resized(module, prev) \in State /\ InitsInOrder(Resized(module, prev))
    BY <1>1, <1>5, ResizedType
  <2> QED
    BY <2>1, <2>2 DEF Contract
<1>6. CASE /\ prev # None /\ ~Migrates(module, prev) /\ OwedInitialize(slot, seed)
  <2>1. i = IF defer THEN With(Resized(module, prev), [oldState |-> None])
            ELSE With(Initialized(Resized(module, prev)), None)
    BY <1>6 DEF Installed
  <2>2. prev = contracts[slot].state /\ contracts[slot] # None /\ Untouched(prev)
    BY <1>6 DEF OwedInitialize, ResidentState, DeployInv, WaitingInv
  <2> HIDE DEF i, prev, seed
  <2>3. Resized(module, prev) \in State /\ Untouched(Resized(module, prev))
    BY <1>1, <1>6, <2>2, ResizedType
  <2>4. /\ InitsInOrder(Resized(module, prev))
        /\ Initialized(Resized(module, prev)) \in State
        /\ InitsInOrder(Initialized(Resized(module, prev)))
    BY <2>3, UntouchedIsInOrder, InitializedType
  <2>5. CASE defer
    BY <2>1, <2>3, <2>4, <2>5 DEF Contract, Pending
  <2>6. CASE ~defer
    BY <2>1, <2>4, <2>6 DEF Contract
  <2> QED
    BY <2>5, <2>6
<1> QED
  BY <1>3, <1>4, <1>5, <1>6

(***************************************************************************)
(* The invariant in three parts, so that an action is looked at only where *)
(* it changes something.                                                   *)
(***************************************************************************)

NodeInv ==
  /\ tick \in Nat /\ halted \in BOOLEAN
  /\ upload \in Upload \cup {None}
  /\ upload # None => upload.lastProgressTick <= tick
  /\ lastDeploy \in Outcome \cup {None}

StagedInv ==
  /\ stagedStates \in [Slots -> Staged \cup {None}]
  /\ \A s \in Slots : stagedStates[s] # None => stagedStates[s].received <= stagedStates[s].total

SlotsInv == SlotsType /\ WaitingInv /\ InitializedOnce /\ RegistryReportsWhatRuns

LEMMA DeployInvParts == DeployInv <=> NodeInv /\ StagedInv /\ SlotsInv
BY DEF DeployInv, TypeOK, NodeInv, StagedInv, SlotsType, SlotsInv

LEMMA SlotsUnchanged ==
  ASSUME SlotsInv, UNCHANGED slotVars, halted' = halted
  PROVE  SlotsInv'
BY DEF SlotsInv, SlotsType, WaitingInv, InitializedOnce, RegistryReportsWhatRuns, slotVars

LEMMA StagedCleared ==
  ASSUME StagedInv, NEW slot \in Slots, stagedStates' = [stagedStates EXCEPT ![slot] = None]
  PROVE  StagedInv'
BY DEF StagedInv

LEMMA LoadKeeps ==
  ASSUME DeployInv, NEW slot \in Slots, NEW module \in Modules, NEW defer \in BOOLEAN,
         Load(slot, module, defer), ~halted, ~halted'
  PROVE  StagedInv' /\ SlotsInv'
<1> DEFINE i == Installed(slot, module, TakenSeed(slot), defer)
<1>1. StagedInv /\ SlotsInv
  BY DeployInvParts
<1>2. /\ stagedStates' = [stagedStates EXCEPT ![slot] = None]
      /\ contracts' = [contracts EXCEPT ![slot] = i.contract]
      /\ pendingConstruction' = [pendingConstruction EXCEPT ![slot] = i.pending]
      /\ slotMeta' = [slotMeta EXCEPT ![slot] =
           [codeHash |-> module, version |-> Version(slot) + 1]]
  BY DEF Load, Described
<1>3. /\ i.contract \in Contract /\ i.contract.module = module
      /\ InitsInOrder(i.contract.state)
      /\ i.pending \in Pending \cup {None}
      /\ i.pending # None =>
           /\ i.pending.oldState = None => Untouched(i.contract.state)
           /\ i.pending.oldState # None => InitsInOrder(i.pending.oldState)
  BY InstalledType
<1> HIDE DEF i
<1>4. StagedInv'
  BY <1>1, <1>2, StagedCleared
<1>5. [codeHash |-> module, version |-> Version(slot) + 1] \in Description
  BY <1>1, VersionType DEF SlotsInv, Description
<1>6. SlotsType'
  BY <1>1, <1>2, <1>3, <1>5 DEF SlotsInv, SlotsType
<1>7. i.contract # None /\ [codeHash |-> module, version |-> Version(slot) + 1] # None
  BY <1>3, <1>5, NoneIsNothing
<1>8. WaitingInv'
  BY <1>1, <1>2, <1>3, <1>7 DEF SlotsInv, SlotsType, WaitingInv
<1>9. InitializedOnce'
  BY <1>1, <1>2, <1>3 DEF SlotsInv, SlotsType, InitializedOnce, InitsInOrder
<1>10. RegistryReportsWhatRuns'
  BY <1>1, <1>2, <1>3, <1>7 DEF SlotsInv, SlotsType, RegistryReportsWhatRuns
<1> QED
  BY <1>4, <1>6, <1>8, <1>9, <1>10 DEF SlotsInv

LEMMA FailToLoadKeeps ==
  ASSUME DeployInv, NEW slot \in Slots, NEW module \in Modules,
         FailToLoad(slot, module), halted' = halted
  PROVE  StagedInv' /\ SlotsInv'
BY DeployInvParts, StagedCleared, SlotsUnchanged DEF FailToLoad

LEMMA UploadBeginKeeps ==
  ASSUME DeployInv, NEW session \in Sessions, NEW module \in Modules, UploadBegin(session, module)
  PROVE  DeployInv'
<1>1. NodeInv /\ StagedInv /\ SlotsInv
  BY DeployInvParts
<1>2. NodeInv'
  BY <1>1 DEF UploadBegin, NodeInv, Upload
<1>3. StagedInv' /\ SlotsInv'
  BY <1>1, SlotsUnchanged DEF UploadBegin, StagedInv
<1> QED
  BY <1>2, <1>3, DeployInvParts, PTL

LEMMA UploadChunkKeeps ==
  ASSUME DeployInv, NEW session \in Sessions, NEW c \in Chunks, NEW module \in Modules,
         UploadChunk(session, c, module)
  PROVE  DeployInv'
<1>1. NodeInv /\ StagedInv /\ SlotsInv
  BY DeployInvParts
<1>2. NodeInv'
  <2> DEFINE bytes == [upload.bytes EXCEPT ![c] = module]
  <2>1. upload \in Upload /\ upload # None
    BY <1>1 DEF UploadChunk, ChunkRefused, NodeInv
  <2>2. bytes \in [Chunks -> Modules \cup {None}]
    BY <2>1 DEF Upload
  <2>3. upload' = [upload EXCEPT !.bytes = bytes, !.lastProgressTick = tick]
    BY <2>1 DEF UploadChunk, Upload
  <2> HIDE DEF bytes
  <2>4. upload' \in Upload /\ upload'.lastProgressTick = tick
    BY <1>1, <2>1, <2>2, <2>3 DEF Upload, NodeInv
  <2> QED
    BY <1>1, <2>4 DEF UploadChunk, NodeInv
<1>3. StagedInv' /\ SlotsInv'
  BY <1>1, SlotsUnchanged DEF UploadChunk, StagedInv
<1> QED
  BY <1>2, <1>3, DeployInvParts, PTL

LEMMA DynUploadKeeps == ASSUME DeployInv, DynUpload PROVE DeployInv'
<1>1. NodeInv /\ StagedInv /\ SlotsInv
  BY DeployInvParts
<1>2. NodeInv'
  BY <1>1 DEF DynUpload, LiveUpload, NodeInv
<1>3. StagedInv' /\ SlotsInv'
  BY <1>1, SlotsUnchanged DEF DynUpload, StagedInv
<1> QED
  BY <1>2, <1>3, DeployInvParts, PTL

LEMMA DeployTxKeeps ==
  ASSUME DeployInv, NEW session \in Sessions, NEW slot \in Slots \cup {None},
         NEW fits \in BOOLEAN, NEW module \in Modules, DeployTx(session, slot, fits, module)
  PROVE  DeployInv'
<1> DEFINE code == Verdict(session, slot, fits, module)
<1>1. NodeInv /\ StagedInv /\ SlotsInv
  BY DeployInvParts
<1>2. code \in Codes
  BY DEF Verdict, Codes
<1>3. code \in {"ok", "load-failed"} => slot \in Slots
  BY DEF Verdict
<1>4. /\ ~halted /\ halted' = halted /\ tick' = tick
      /\ upload' = upload \/ upload' = None
      /\ lastDeploy' = Recorded(session, slot, code)
      /\ code = "ok" => Load(slot, module, TRUE)
      /\ code = "load-failed" => FailToLoad(slot, module)
      /\ code \notin {"ok", "load-failed"} => UNCHANGED <<stagedStates, slotVars>>
  BY DEF DeployTx
<1> HIDE DEF code
<1>5. NodeInv'
  BY <1>1, <1>2, <1>4 DEF NodeInv, Recorded, Outcome
<1>6. StagedInv' /\ SlotsInv'
  <2>1. CASE code = "ok"
    BY <1>3, <1>4, <2>1, LoadKeeps
  <2>2. CASE code = "load-failed"
    BY <1>3, <1>4, <2>2, FailToLoadKeeps
  <2>3. CASE code \notin {"ok", "load-failed"}
    BY <1>1, <1>4, <2>3, SlotsUnchanged DEF StagedInv
  <2> QED
    BY <2>1, <2>2, <2>3
<1> QED
  BY <1>5, <1>6, DeployInvParts, PTL

LEMMA DeployKeeps ==
  ASSUME DeployInv, NEW slot \in Slots, NEW module \in Modules, NEW defer \in BOOLEAN,
         Deploy(slot, module, defer)
  PROVE  DeployInv'
<1>1. NodeInv /\ StagedInv /\ SlotsInv
  BY DeployInvParts
<1>2. NodeInv'
  BY <1>1 DEF Deploy, NodeInv
<1>3. StagedInv' /\ SlotsInv'
  BY LoadKeeps, FailToLoadKeeps DEF Deploy
<1> QED
  BY <1>2, <1>3, DeployInvParts, PTL

LEMMA DeployTrapsKeeps ==
  ASSUME DeployInv, NEW slot \in Slots, NEW module \in Modules, DeployTraps(slot, module)
  PROVE  DeployInv'
<1> DEFINE blank == [module |-> module, state |-> Blank(slot, module)]
<1>1. NodeInv /\ StagedInv /\ SlotsInv
  BY DeployInvParts
<1>2. /\ halted' = TRUE /\ UNCHANGED <<tick, upload, lastDeploy, slotMeta>>
      /\ stagedStates' = [stagedStates EXCEPT ![slot] = None]
      /\ contracts' = [contracts EXCEPT ![slot] = blank]
      /\ pendingConstruction' = [pendingConstruction EXCEPT ![slot] = None]
  BY DEF DeployTraps
<1>3. blank \in Contract /\ InitsInOrder(blank.state)
  BY <1>1, BlankType, UntouchedIsInOrder DEF Contract, SlotsInv
<1> HIDE DEF blank
<1>4. NodeInv' /\ StagedInv'
  BY <1>1, <1>2, StagedCleared DEF NodeInv
<1>5. SlotsInv'
  <2>1. SlotsType'
    BY <1>1, <1>2, <1>3 DEF SlotsInv, SlotsType
  <2>2. WaitingInv'
    BY <1>1, <1>2 DEF SlotsInv, SlotsType, WaitingInv
  <2>3. InitializedOnce'
    BY <1>1, <1>2, <1>3 DEF SlotsInv, SlotsType, InitializedOnce, InitsInOrder
  <2> QED
    BY <1>2, <2>1, <2>2, <2>3 DEF SlotsInv, RegistryReportsWhatRuns
<1> QED
  BY <1>4, <1>5, DeployInvParts, PTL

LEMMA StageStateKeeps ==
  ASSUME DeployInv, NEW slot \in Slots, NEW total \in StagedSizes, NEW offset \in 0 .. total,
         NEW len \in 0 .. MaxStaged, StageState(slot, offset, total, len)
  PROVE  DeployInv'
<1> DEFINE staged == Restaged(slot, offset, total)
           next == IF Overruns(offset, total, len) THEN staged
                   ELSE [staged EXCEPT !.received = @ + len]
<1>1. NodeInv /\ StagedInv /\ SlotsInv
  BY DeployInvParts
<1>2. total \in Nat /\ offset \in Nat /\ len \in Nat
  BY DeploymentConstants
<1>3. /\ staged # None /\ staged.total = total /\ staged.received = offset
      /\ stagedStates' = [stagedStates EXCEPT ![slot] = next]
  BY DEF StageState
<1>4. staged \in Staged /\ staged.received <= staged.total
  BY <1>1, <1>2, <1>3 DEF Restaged, StagedInv, Staged
<1>5. next \in Staged /\ next.received <= next.total
  BY <1>2, <1>3, <1>4 DEF Overruns, Staged
<1> HIDE DEF next, staged
<1>6. StagedInv'
  BY <1>1, <1>3, <1>5 DEF StagedInv
<1>7. NodeInv' /\ SlotsInv'
  BY <1>1, SlotsUnchanged DEF StageState, NodeInv
<1> QED
  BY <1>6, <1>7, DeployInvParts, PTL

LEMMA ClearStagedKeeps ==
  ASSUME DeployInv, NEW slot \in Slots, ClearStaged(slot)
  PROVE  DeployInv'
<1>1. NodeInv /\ StagedInv /\ SlotsInv
  BY DeployInvParts
<1>2. NodeInv' /\ StagedInv' /\ SlotsInv'
  BY <1>1, StagedCleared, SlotsUnchanged DEF ClearStaged, NodeInv
<1> QED
  BY <1>2, DeployInvParts, PTL

LEMMA UndeployKeeps ==
  ASSUME DeployInv, NEW slot \in Slots, Undeploy(slot)
  PROVE  DeployInv'
<1>1. NodeInv /\ StagedInv /\ SlotsInv
  BY DeployInvParts
<1>2. NodeInv' /\ StagedInv'
  BY <1>1 DEF Undeploy, NodeInv, StagedInv
<1>3. SlotsType'
  BY <1>1 DEF Undeploy, SlotsInv, SlotsType
<1>4. WaitingInv' /\ InitializedOnce' /\ RegistryReportsWhatRuns'
  BY <1>1 DEF Undeploy, SlotsInv, SlotsType, WaitingInv, InitializedOnce, RegistryReportsWhatRuns
<1> QED
  BY <1>2, <1>3, <1>4, DeployInvParts, PTL DEF SlotsInv

\* A construction leaves the contract's code alone, and a state in order.
LEMMA ConstructedType ==
  ASSUME SlotsInv, NEW slot \in Slots
  PROVE  /\ Constructed(slot) \in Contract \cup {None}
         /\ Constructed(slot) = None <=> contracts[slot] = None
         /\ Constructed(slot) # None =>
              /\ Constructed(slot).module = contracts[slot].module
              /\ InitsInOrder(Constructed(slot).state)
<1>1. contracts[slot] \in Contract \cup {None} /\ pendingConstruction[slot] \in Pending \cup {None}
  BY DEF SlotsInv, SlotsType
<1>2. CASE pendingConstruction[slot] = None
  BY <1>1, <1>2 DEF Constructed, SlotsInv, InitializedOnce, InitsInOrder
<1>3. CASE pendingConstruction[slot] # None
  <2> DEFINE c == contracts[slot]
             old == pendingConstruction[slot].oldState
             next == IF old # None THEN Resized(c.module, old) ELSE Initialized(c.state)
  <2>1. c \in Contract /\ c.module \in Modules /\ c.state \in State /\ old \in State \cup {None}
    BY <1>1, <1>3 DEF SlotsInv, WaitingInv, Contract, Pending
  <2>2. Constructed(slot) = [c EXCEPT !.state = next]
    BY <1>3 DEF Constructed
  <2>3. /\ old = None => Untouched(c.state)
        /\ old # None => InitsInOrder(old)
    BY <1>3 DEF SlotsInv, WaitingInv
  <2> HIDE DEF c, old
  <2>4. next \in State /\ InitsInOrder(next)
    <3>1. CASE old # None
      BY <2>1, <2>3, <3>1, ResizedType
    <3>2. CASE old = None
      BY <2>1, <2>3, <3>2, InitializedType
    <3> QED
      BY <3>1, <3>2
  <2> HIDE DEF next
  <2>5. /\ [c EXCEPT !.state = next] \in Contract
        /\ [c EXCEPT !.state = next].module = c.module
        /\ [c EXCEPT !.state = next].state = next
    BY <2>1, <2>4 DEF Contract
  <2>6. c # None
    BY <2>1, NoneIsNothing
  <2> QED
    BY <2>2, <2>4, <2>5, <2>6, NoneIsNothing DEF c
<1> QED
  BY <1>2, <1>3

LEMMA NextTickKeeps == ASSUME DeployInv, NextTick PROVE DeployInv'
<1>1. NodeInv /\ StagedInv /\ SlotsInv
  BY DeployInvParts
<1>2. NodeInv' /\ StagedInv'
  BY <1>1 DEF NextTick, NodeInv, StagedInv, Upload
<1>3. /\ contracts' = [s \in Slots |-> Constructed(s)]
      /\ pendingConstruction' = [s \in Slots |-> None]
      /\ slotMeta' = slotMeta /\ halted' = halted
  BY DEF NextTick
<1>4. SlotsType'
  BY <1>1, <1>3, ConstructedType DEF SlotsInv, SlotsType
<1>5. WaitingInv'
  BY <1>3 DEF WaitingInv
<1>6. InitializedOnce'
  BY <1>1, <1>3, ConstructedType DEF InitializedOnce, InitsInOrder
<1>7. RegistryReportsWhatRuns'
  BY <1>1, <1>3, ConstructedType DEF RegistryReportsWhatRuns, SlotsInv
<1> QED
  BY <1>2, <1>4, <1>5, <1>6, <1>7, DeployInvParts, PTL DEF SlotsInv

LEMMA ConstructionTrapsKeeps ==
  ASSUME DeployInv, NEW slot \in Slots, NEW done \in SUBSET Slots, ConstructionTraps(slot, done)
  PROVE  DeployInv'
<1>1. NodeInv /\ StagedInv /\ SlotsInv
  BY DeployInvParts
<1>2. NodeInv' /\ StagedInv'
  BY <1>1 DEF ConstructionTraps, NodeInv, StagedInv, Upload
<1>3. /\ contracts' = [s \in Slots |-> IF s \in done THEN Constructed(s) ELSE contracts[s]]
      /\ pendingConstruction' =
           [s \in Slots |-> IF s \in done \cup {slot} THEN None ELSE pendingConstruction[s]]
      /\ slotMeta' = slotMeta /\ halted' = TRUE
  BY DEF ConstructionTraps
<1>4. SlotsType'
  BY <1>1, <1>3, ConstructedType DEF SlotsInv, SlotsType
<1>5. WaitingInv'
  BY <1>1, <1>3 DEF SlotsInv, WaitingInv
<1>6. InitializedOnce'
  BY <1>1, <1>3, ConstructedType DEF SlotsInv, InitializedOnce, InitsInOrder
<1>7. RegistryReportsWhatRuns'
  BY <1>3 DEF RegistryReportsWhatRuns
<1> QED
  BY <1>2, <1>4, <1>5, <1>6, <1>7, DeployInvParts, PTL DEF SlotsInv

LEMMA DeployInductive == DeployInv /\ [Next]_vars => DeployInv'
<1> SUFFICES ASSUME DeployInv, [Next]_vars PROVE DeployInv'
  OBVIOUS
<1>1. CASE UploadStep
  BY <1>1, UploadBeginKeeps, UploadChunkKeeps, DeployTxKeeps DEF UploadStep
<1>2. CASE DynUpload
  BY <1>2, DynUploadKeeps
<1>3. CASE SlotStep
  BY <1>3, DeployKeeps, DeployTrapsKeeps, StageStateKeeps, ClearStagedKeeps, UndeployKeeps,
     ConstructionTrapsKeeps DEF SlotStep
<1>4. CASE NextTick
  BY <1>4, NextTickKeeps
<1>5. CASE UNCHANGED vars
  <2>1. NodeInv /\ StagedInv /\ SlotsInv
    BY DeployInvParts
  <2>2. NodeInv' /\ StagedInv' /\ SlotsInv'
    BY <1>5, <2>1, SlotsUnchanged DEF vars, NodeInv, StagedInv
  <2> QED
    BY <2>2, DeployInvParts, PTL
<1> QED
  BY <1>1, <1>2, <1>3, <1>4, <1>5 DEF Next

\* The node's deployments stay well typed: no staged state outgrows its total and
\* no upload has progressed later than now.
THEOREM DeployTypeCorrect == Spec => []TypeOK
<1>1. DeployInv => TypeOK
  BY DEF DeployInv
<1> QED
  BY DeployInit, DeployInductive, <1>1, PTL DEF Spec

\* INITIALIZE runs at most once on a slot's bytes and never on a staged state,
\* for any sequence of deploys, redeploys, undeploys, stagings and traps.
THEOREM DeployInitializedOnce == Spec => []InitializedOnce
<1>1. DeployInv => InitializedOnce
  BY DEF DeployInv
<1> QED
  BY DeployInit, DeployInductive, <1>1, PTL DEF Spec

\* While the node has not halted, the registry describes exactly the contracts
\* that run, each by the hash of its own code.
THEOREM DeployRegistry == Spec => []RegistryReportsWhatRuns
<1>1. DeployInv => RegistryReportsWhatRuns
  BY DEF DeployInv
<1> QED
  BY DeployInit, DeployInductive, <1>1, PTL DEF Spec

(***************************************************************************)
(* What a step may not do: lose a state that is in use, or take the upload *)
(* slot from a session that is fed.                                        *)
(***************************************************************************)

StateKept ==
  \A s \in Slots : contracts'[s] # None /\ ~halted' =>
    LET seed == IF slotMeta'[s] # slotMeta[s] THEN TakenSeed(s) ELSE None
        kept == IF seed # None THEN seed ELSE StateToBe(s)
    IN kept # None => SameBytes(kept, StateToBe(s)')

HolderKept ==
  upload # None /\ IdleTicks <= StaleTicks =>
    IF upload' # None /\ upload'.session = upload.session
    THEN \A c \in Chunks : upload.bytes[c] # None => upload'.bytes[c] = upload.bytes[c]
    ELSE lastDeploy' # None /\ lastDeploy'.session = upload.session

LEMMA SameAsItself ==
  ASSUME NEW state \in State
  PROVE  SameBytes(state, state)
BY DEF SameBytes

LEMMA ResizedIsSame ==
  ASSUME NEW module \in Modules, NEW state \in State
  PROVE  SameBytes(state, Resized(module, state))
BY DEF Resized, State, SameBytes

LEMMA InitializedIsSame ==
  ASSUME NEW state \in State, NEW other \in State, Untouched(state), SameBytes(state, other)
  PROVE  SameBytes(state, Initialized(other))
BY DEF Initialized, State, SameBytes, Untouched

LEMMA ToBeIsResident ==
  ASSUME NEW s \in Slots
  PROVE  StateToBe(s) = ResidentState(s)
BY DEF StateToBe, ResidentState

LEMMA SameSlotIsKept ==
  ASSUME NEW s \in Slots, contracts'[s] = contracts[s],
         pendingConstruction'[s] = pendingConstruction[s]
  PROVE  StateToBe(s)' = StateToBe(s)
BY DEF StateToBe

LEMMA SameSlotSameBytes ==
  ASSUME DeployInv, NEW s \in Slots, contracts'[s] = contracts[s],
         pendingConstruction'[s] = pendingConstruction[s]
  PROVE  StateToBe(s) # None => SameBytes(StateToBe(s), StateToBe(s)')
BY SameSlotIsKept, SameAsItself, ToBeIsResident, ResidentStateType

\* The bytes a deploy starts from, staged or resident, are what the slot will hold:
\* at once, or set aside for the MIGRATE of the next tick.  The one case that runs
\* INITIALIZE on them owes it to a slot of blank ones.
LEMMA InstalledIsSame ==
  ASSUME DeployInv, NEW slot \in Slots, NEW module \in Modules, NEW defer \in BOOLEAN,
         Load(slot, module, defer), ResidentState(slot) # None \/ TakenSeed(slot) # None
  PROVE  SameBytes(IF TakenSeed(slot) # None THEN TakenSeed(slot) ELSE StateToBe(slot),
                   StateToBe(slot)')
<1> DEFINE seed == TakenSeed(slot)
           prev == IF seed # None THEN seed ELSE ResidentState(slot)
           i == Installed(slot, module, seed, defer)
           With(state, pending) ==
             [contract |-> [module |-> module, state |-> state], pending |-> pending]
<1> SUFFICES SameBytes(prev, StateToBe(slot)')
  BY ToBeIsResident
<1>1. /\ SlotsType
      /\ contracts' = [contracts EXCEPT ![slot] = i.contract]
      /\ pendingConstruction' = [pendingConstruction EXCEPT ![slot] = i.pending]
  BY DeployInvParts DEF Load, SlotsInv
<1>2. prev \in State /\ prev # None
  BY TakenSeedType, ResidentStateType DEF DeployInv
<1>3. ASSUME NEW state \in State, NEW pending \in Pending \cup {None},
             pending = None \/ pending.oldState = None, i = With(state, pending)
      PROVE  StateToBe(slot)' = state
  <2> HIDE DEF i, prev, seed
  <2>1. /\ pendingConstruction'[slot] = pending
        /\ contracts'[slot] = [module |-> module, state |-> state]
    BY <1>1, <1>3 DEF SlotsType
  <2>2. contracts'[slot] # None
    BY <2>1, NoneIsNothing DEF Contract
  <2> QED
    BY <1>3, <2>1, <2>2 DEF StateToBe
<1>4. CASE defer /\ Migrates(module, prev)
  <2>1. i = With(Blank(slot, module), [oldState |-> prev])
    BY <1>2, <1>4 DEF Installed
  <2> HIDE DEF i, prev, seed
  <2>2. pendingConstruction'[slot] = [oldState |-> prev]
    BY <1>1, <2>1 DEF SlotsType
  <2>3. [oldState |-> prev] # None
    BY <1>2, NoneIsNothing DEF Pending
  <2>4. StateToBe(slot)' = prev
    BY <1>2, <2>2, <2>3 DEF StateToBe
  <2> QED
    BY <1>2, <2>4, SameAsItself
<1>5. CASE /\ ~(defer /\ Migrates(module, prev))
           /\ Migrates(module, prev) \/ ~OwedInitialize(slot, seed)
  <2>1. i = With(Resized(module, prev), None)
    BY <1>2, <1>5 DEF Installed
  <2> HIDE DEF i, prev, seed
  <2>2. StateToBe(slot)' = Resized(module, prev)
    BY <1>2, <1>3, <2>1, ResizedType
  <2> QED
    BY <1>2, <2>2, ResizedIsSame
<1>6. CASE ~Migrates(module, prev) /\ OwedInitialize(slot, seed)
  <2>1. i = IF defer THEN With(Resized(module, prev), [oldState |-> None])
            ELSE With(Initialized(Resized(module, prev)), None)
    BY <1>2, <1>6 DEF Installed
  <2>2. Untouched(prev)
    BY <1>2, <1>6 DEF OwedInitialize, ResidentState, DeployInv, WaitingInv
  <2> HIDE DEF i, prev, seed
  <2>3. /\ Resized(module, prev) \in State /\ Untouched(Resized(module, prev))
        /\ SameBytes(prev, Resized(module, prev))
    BY <1>2, <2>2, ResizedType, ResizedIsSame
  <2>4. /\ Initialized(Resized(module, prev)) \in State
        /\ SameBytes(prev, Initialized(Resized(module, prev)))
    BY <1>2, <2>2, <2>3, InitializedType, InitializedIsSame
  <2>5. [oldState |-> None] \in Pending
    BY DEF Pending
  <2>6. CASE defer
    BY <1>3, <2>1, <2>3, <2>5, <2>6
  <2>7. CASE ~defer
    BY <1>3, <2>1, <2>4, <2>7
  <2> QED
    BY <2>6, <2>7
<1> QED
  BY <1>4, <1>5, <1>6

LEMMA LoadKeepsStates ==
  ASSUME DeployInv, NEW slot \in Slots, NEW module \in Modules, NEW defer \in BOOLEAN,
         Load(slot, module, defer)
  PROVE  StateKept
<1>1. /\ SlotsType
      /\ slotMeta' = [slotMeta EXCEPT ![slot] =
           [codeHash |-> module, version |-> Version(slot) + 1]]
  BY DeployInvParts DEF Load, Described, SlotsInv
<1>2. slotMeta'[slot] # slotMeta[slot]
  <2>1. slotMeta[slot] # None => slotMeta'[slot].version # slotMeta[slot].version
    BY <1>1, VersionType DEF Version, SlotsType
  <2>2. slotMeta'[slot] \in Description
    BY <1>1, VersionType DEF Description, SlotsType
  <2> QED
    BY <2>1, <2>2, NoneIsNothing
<1>3. ASSUME NEW s \in Slots \ {slot}
      PROVE  /\ contracts'[s] = contracts[s] /\ pendingConstruction'[s] = pendingConstruction[s]
             /\ slotMeta'[s] = slotMeta[s]
  BY <1>1 DEF Load, SlotsType
<1>4. ResidentState(slot) # None \/ TakenSeed(slot) # None =>
        SameBytes(IF TakenSeed(slot) # None THEN TakenSeed(slot) ELSE StateToBe(slot),
                  StateToBe(slot)')
  BY InstalledIsSame
<1> QED
  BY <1>2, <1>3, <1>4, ToBeIsResident, SameSlotSameBytes DEF StateKept

LEMMA SameSlotsKeepStates ==
  ASSUME DeployInv, UNCHANGED slotVars
  PROVE  StateKept
BY SameSlotSameBytes DEF StateKept, slotVars

\* The head of a tick migrates the bytes that were set aside; what it initialises
\* was blank.
LEMMA NextTickKeepsStates == ASSUME DeployInv, NextTick PROVE StateKept
<1> SUFFICES ASSUME NEW s \in Slots, StateToBe(s) # None, contracts'[s] # None
             PROVE  SameBytes(StateToBe(s), StateToBe(s)')
  BY DEF StateKept, NextTick
<1>1. contracts'[s] = Constructed(s) /\ pendingConstruction'[s] = None
  BY DEF NextTick
<1>2. /\ contracts[s] \in Contract \cup {None}
      /\ pendingConstruction[s] \in Pending \cup {None} /\ SlotsInv
  BY DeployInvParts DEF SlotsInv, SlotsType
<1>3. StateToBe(s)' = Constructed(s).state
  BY <1>1 DEF StateToBe
<1>4. CASE pendingConstruction[s] = None
  <2>1. Constructed(s) = contracts[s]
    BY <1>4 DEF Constructed
  <2> QED
    BY <1>1, <1>4, <2>1, SameSlotSameBytes
<1>5. CASE pendingConstruction[s] # None
  <2> DEFINE c == contracts[s]
             old == pendingConstruction[s].oldState
  <2>1. /\ c \in Contract /\ c # None /\ c.module \in Modules /\ c.state \in State
        /\ old \in State \cup {None}
    BY <1>2, <1>5 DEF SlotsInv, WaitingInv, Contract, Pending
  <2>2. CASE old # None
    <3>1. StateToBe(s) = old
      BY <1>5, <2>2 DEF StateToBe
    <3>2. Constructed(s) = [c EXCEPT !.state = Resized(c.module, old)]
      BY <1>5, <2>2 DEF Constructed
    <3> HIDE DEF c, old
    <3>3. Constructed(s).state = Resized(c.module, old)
      BY <2>1, <3>2 DEF Contract
    <3> QED
      BY <1>3, <2>1, <2>2, <3>1, <3>3, ResizedIsSame
  <2>3. CASE old = None
    <3>1. StateToBe(s) = c.state /\ Untouched(c.state)
      BY <1>2, <1>5, <2>1, <2>3 DEF StateToBe, SlotsInv, WaitingInv
    <3>2. Constructed(s) = [c EXCEPT !.state = Initialized(c.state)]
      BY <1>5, <2>3 DEF Constructed
    <3> HIDE DEF c, old
    <3>3. Constructed(s).state = Initialized(c.state)
      BY <2>1, <3>2 DEF Contract
    <3> QED
      BY <1>3, <2>1, <3>1, <3>3, SameAsItself, InitializedIsSame
  <2> QED
    BY <2>2, <2>3
<1> QED
  BY <1>4, <1>5

LEMMA UndeployKeepsStates ==
  ASSUME DeployInv, NEW slot \in Slots, Undeploy(slot)
  PROVE  StateKept
<1> SUFFICES ASSUME NEW s \in Slots, contracts'[s] # None
             PROVE  /\ contracts'[s] = contracts[s]
                    /\ pendingConstruction'[s] = pendingConstruction[s]
                    /\ slotMeta'[s] = slotMeta[s]
  BY SameSlotSameBytes DEF StateKept
<1> QED
  BY DeployInvParts DEF Undeploy, SlotsInv, SlotsType

LEMMA StateKeptByStep == DeployInv /\ [Next]_vars => StateKept
<1> SUFFICES ASSUME DeployInv, [Next]_vars PROVE StateKept
  OBVIOUS
<1>1. ASSUME NEW session \in Sessions, NEW slot \in Slots \cup {None}, NEW fits \in BOOLEAN,
             NEW module \in Modules, DeployTx(session, slot, fits, module)
      PROVE  StateKept
  <2> DEFINE code == Verdict(session, slot, fits, module)
  <2>1. /\ code = "ok" => Load(slot, module, TRUE)
        /\ code = "load-failed" => FailToLoad(slot, module)
        /\ code \notin {"ok", "load-failed"} => UNCHANGED slotVars
        /\ code = "ok" => slot \in Slots
    BY <1>1 DEF DeployTx, Verdict
  <2> HIDE DEF code
  <2>2. CASE code = "ok"
    BY <2>1, <2>2, LoadKeepsStates
  <2>3. CASE code # "ok"
    BY <2>1, <2>3, SameSlotsKeepStates DEF FailToLoad, slotVars
  <2> QED
    BY <2>2, <2>3
<1>2. ASSUME NEW slot \in Slots, NEW module \in Modules, NEW defer \in BOOLEAN,
             Deploy(slot, module, defer)
      PROVE  StateKept
  BY <1>2, LoadKeepsStates, SameSlotsKeepStates DEF Deploy, FailToLoad, slotVars
<1>3. CASE UploadStep
  BY <1>1, <1>3, SameSlotsKeepStates DEF UploadStep, UploadBegin, UploadChunk, slotVars
<1>4. CASE SlotStep
  <2>1. ASSUME NEW slot \in Slots, NEW module \in Modules, DeployTraps(slot, module)
        PROVE  StateKept
    BY <2>1 DEF DeployTraps, StateKept
  <2>2. ASSUME NEW slot \in Slots, NEW done \in SUBSET Slots, ConstructionTraps(slot, done)
        PROVE  StateKept
    BY <2>2 DEF ConstructionTraps, StateKept
  <2> QED
    BY <1>2, <1>4, <2>1, <2>2, UndeployKeepsStates, SameSlotsKeepStates
       DEF SlotStep, StageState, ClearStaged, slotVars
<1>5. CASE NextTick
  BY <1>5, NextTickKeepsStates
<1>6. CASE DynUpload \/ UNCHANGED vars
  BY <1>6, SameSlotsKeepStates DEF DynUpload, vars, slotVars
<1> QED
  BY <1>3, <1>4, <1>5, <1>6 DEF Next

\* No upgrade loses a contract's state: through every redeploy, failed load and
\* tick a slot keeps the very bytes it held or had set aside, unless the deploy
\* installs a complete staged state, and INITIALIZE runs on them only while they
\* are blank; for any modules and sizes, until the slot is undeployed or the node
\* halts.
THEOREM DeployStateSurvives == Spec => StateSurvivesUpgrade
<1>1. StateSurvivesUpgrade <=> [][StateKept]_vars
  BY DEF StateSurvivesUpgrade, StateKept
<1> QED
  BY <1>1, DeployInit, DeployInductive, StateKeptByStep, PTL DEF Spec

LEMMA HolderKeptByStep == DeployInv /\ [Next]_vars => HolderKept
<1> SUFFICES ASSUME DeployInv, [Next]_vars, upload # None, IdleTicks <= StaleTicks
             PROVE  HolderKept
  BY DEF HolderKept
<1>1. upload \in Upload /\ tick \in Nat /\ upload.lastProgressTick \in Nat
  BY DEF DeployInv, TypeOK, Upload
<1>2. ~IsStale /\ LiveUpload = upload
  BY <1>1, DeploymentConstants DEF IsStale, LiveUpload, IdleTicks
<1>3. ASSUME upload' = upload PROVE HolderKept
  BY <1>3 DEF HolderKept
<1>4. ASSUME NEW session \in Sessions, NEW slot \in Slots \cup {None}, NEW fits \in BOOLEAN,
             NEW module \in Modules, DeployTx(session, slot, fits, module)
      PROVE  HolderKept
  <2> DEFINE code == Verdict(session, slot, fits, module)
  <2>1. CASE code \in {"ok", "load-failed", "not-wasm"}
    <3>1. upload.session = session
      BY <2>1 DEF Verdict
    <3>2. lastDeploy' = Recorded(session, slot, code) /\ upload' = None /\ code \in Codes
      BY <1>4, <2>1 DEF DeployTx, Codes
    <3>3. [session |-> session, slot |-> slot, code |-> code] # None
      BY <3>2, NoneIsNothing DEF Outcome
    <3> HIDE DEF code
    <3>4. lastDeploy' # None /\ lastDeploy'.session = session
      BY <3>2, <3>3 DEF Recorded
    <3> QED
      BY <3>1, <3>2, <3>4 DEF HolderKept
  <2>2. CASE code \notin {"ok", "load-failed", "not-wasm"}
    BY <1>3, <1>4, <2>2 DEF DeployTx
  <2> QED
    BY <2>1, <2>2
<1>5. ASSUME NEW session \in Sessions, NEW c \in Chunks, NEW module \in Modules,
             UploadChunk(session, c, module)
      PROVE  HolderKept
  <2> DEFINE bytes == [upload.bytes EXCEPT ![c] = module]
  <2>1. upload.bytes[c] = None /\ upload.bytes \in [Chunks -> Modules \cup {None}]
    BY <1>1, <1>5 DEF UploadChunk, ChunkRefused, Upload
  <2>2. upload' = [upload EXCEPT !.bytes = bytes, !.lastProgressTick = tick]
    BY <1>1, <1>5 DEF UploadChunk, Upload
  <2>3. bytes \in [Chunks -> Modules \cup {None}]
        /\ \A d \in Chunks : upload.bytes[d] # None => bytes[d] = upload.bytes[d]
    BY <2>1
  <2> HIDE DEF bytes
  <2>4. upload'.session = upload.session /\ upload'.bytes = bytes /\ upload' \in Upload
    BY <1>1, <2>2, <2>3 DEF Upload
  <2> QED
    BY <2>3, <2>4, NoneIsNothing DEF HolderKept
<1>6. ASSUME NEW session \in Sessions, NEW module \in Modules, UploadBegin(session, module)
      PROVE  HolderKept
  BY <1>2, <1>3, <1>6 DEF UploadBegin
<1>7. CASE UploadStep
  BY <1>4, <1>5, <1>6, <1>7 DEF UploadStep
<1>8. CASE DynUpload
  BY <1>2, <1>3, <1>8 DEF DynUpload
<1>9. CASE SlotStep
  BY <1>3, <1>9 DEF SlotStep, Deploy, DeployTraps, StageState, ClearStaged, Undeploy,
     ConstructionTraps
<1>10. CASE NextTick \/ UNCHANGED vars
  BY <1>3, <1>10 DEF NextTick, vars
<1> QED
  BY <1>7, <1>8, <1>9, <1>10 DEF Next

\* A client that makes progress keeps the node's one upload slot, and the bytes it
\* has sent: for any number of sessions and chunks, only its own DEPLOY or more
\* than StaleTicks idle ticks end its session.
THEOREM DeployHolders == Spec => HoldersKeepTheirSlot
<1>1. HoldersKeepTheirSlot <=> [][HolderKept]_vars
  BY DEF HoldersKeepTheirSlot, HolderKept
<1> QED
  BY <1>1, DeployInit, DeployInductive, HolderKeptByStep, PTL DEF Spec

(***************************************************************************)
(* Part two: the clients of UploadClient.                                  *)
(***************************************************************************)

Tx == [from : Sessions, kind : {"begin", "chunk", "deploy"}, seq : Nat, tick : Nat]
Sighting == [session : Sessions, received : SUBSET Chunks]
Client == [pc : Running \cup Ended, tries : Nat, until : Nat, txTick : Nat, polls : 0 .. MaxPolls,
           begun : BOOLEAN, pending : SUBSET Chunks, seen : Sighting \cup {None}]

ClientsType ==
  /\ client \in [Sessions -> Client]
  /\ \A c \in Sessions : client[c].pc = "watching" => client[c].seen \in Sighting
  /\ losses \in [Sessions -> 0 .. MaxLosses]
  /\ verdicts \in [Sessions -> SUBSET Codes]

MempoolType ==
  /\ IsFiniteSet(mempool) /\ mempool \subseteq Tx
  /\ \A tx \in mempool : tx.tick >= tick /\ (tx.kind = "chunk" => tx.seq \in Chunks)

TypesInv == DeployInv /\ ClientsType /\ MempoolType

(***************************************************************************)
(* What every step of a client has in common: only its own record changes, *)
(* it broadcasts transactions of one kind, and the node only looks whether *)
(* its upload has expired.                                                 *)
(***************************************************************************)

Moves(c) ==
  /\ client' \in [Sessions -> Client]
  /\ client'[c].pc = "watching" => client'[c].seen \in Sighting
  /\ losses' \in [Sessions -> 0 .. MaxLosses] /\ losses'[c] >= losses[c]
  /\ \A d \in Sessions \ {c} : client'[d] = client[d] /\ losses'[d] = losses[d]
  /\ verdicts' = verdicts

Sends(c, kind) ==
  /\ IsFiniteSet(mempool') /\ mempool \subseteq mempool'
  /\ \A tx \in mempool' \ mempool :
       /\ tx \in Tx /\ tx.from = c /\ tx.kind = kind /\ tx.tick > tick
       /\ IF kind = "chunk" THEN tx.seq \in Chunks ELSE tx.tick = tick + TxTickOffset

Looks ==
  /\ UNCHANGED <<tick, lastDeploy, stagedStates, slotVars, halted>>
  /\ upload' \in {upload, LiveUpload}

LEMMA LooksIsStep == ASSUME Looks PROVE [Next]_vars
<1>1. CASE upload' = upload
  BY <1>1 DEF Looks, vars, slotVars
<1>2. CASE upload' = LiveUpload
  BY <1>2 DEF Looks, DynUpload, Next
<1> QED
  BY <1>1, <1>2 DEF Looks

LEMMA StandsStill == ASSUME UNCHANGED vars PROVE Looks
BY DEF vars, slotVars, Looks

LEMMA ReadLooks ==
  ASSUME NEW c \in Sessions, NEW read \in BOOLEAN, NEW upl, Reads(c, upl, read)
  PROVE  /\ Looks
         /\ upl # None => upl = upload /\ upload' = upload /\ ~IsStale
BY DEF Reads, Looks, LiveUpload

LEMMA RestingType ==
  ASSUME NEW pc \in Running \cup Ended
  PROVE  Resting(pc) \in Client
BY ClientConstants DEF Resting, Client

LEMMA SaysNothing ==
  ASSUME MempoolType, NEW c \in Sessions, NEW kind, mempool' = mempool
  PROVE  Sends(c, kind)
BY DEF MempoolType, Sends

LEMMA LossType ==
  ASSUME losses \in [Sessions -> 0 .. MaxLosses], NEW c \in Sessions, NEW n \in Nat,
         losses[c] + n <= MaxLosses, losses' = [losses EXCEPT ![c] = @ + n]
  PROVE  /\ losses' \in [Sessions -> 0 .. MaxLosses] /\ losses'[c] = losses[c] + n
         /\ \A d \in Sessions \ {c} : losses'[d] = losses[d]
BY ClientConstants

LEMMA BroadcastSends ==
  ASSUME TypesInv, NEW c \in Sessions, NEW kind \in {"begin", "chunk", "deploy"}, NEW txs,
         NEW arrived, NEW answered, Broadcast(c, txs, arrived, answered),
         IsFiniteSet(txs), txs \subseteq Tx,
         \A tx \in txs : /\ tx.from = c /\ tx.kind = kind
                         /\ IF kind = "chunk" THEN tx.seq \in Chunks
                            ELSE tx.tick = tick + TxTickOffset
  PROVE  /\ Sends(c, kind) /\ mempool' = mempool \cup arrived
         /\ losses' \in [Sessions -> 0 .. MaxLosses] /\ losses'[c] >= losses[c]
         /\ \A d \in Sessions \ {c} : losses'[d] = losses[d]
<1> DEFINE timely == {tx \in txs : tx.tick > tick}
           n == Cardinality(timely \ answered)
<1>1. /\ arrived \subseteq timely /\ answered \subseteq arrived
      /\ losses[c] + n <= MaxLosses
      /\ losses' = [losses EXCEPT ![c] = @ + n]
      /\ mempool' = mempool \cup arrived
  BY DEF Broadcast
<1>2. IsFiniteSet(timely \ answered) /\ IsFiniteSet(arrived)
  BY <1>1, FS_Subset
<1>3. n \in Nat
  BY <1>2, FS_CardinalityType
<1>4. IsFiniteSet(mempool')
  BY <1>1, <1>2, FS_Union DEF TypesInv, MempoolType
<1>5. Sends(c, kind)
  BY <1>1, <1>4 DEF Sends
<1> HIDE DEF n
<1>6. losses \in [Sessions -> 0 .. MaxLosses]
  BY DEF TypesInv, ClientsType
<1>7. /\ losses' \in [Sessions -> 0 .. MaxLosses] /\ losses'[c] = losses[c] + n
      /\ \A d \in Sessions \ {c} : losses'[d] = losses[d]
  BY <1>1, <1>3, <1>6, LossType
<1> QED
  BY <1>1, <1>3, <1>5, <1>6, <1>7

LEMMA ForgetsType ==
  ASSUME TypesInv, NEW c \in Sessions, NEW read \in BOOLEAN,
         read \/ losses[c] < MaxLosses, Forgets(c, read)
  PROVE  /\ losses' \in [Sessions -> 0 .. MaxLosses] /\ losses'[c] >= losses[c]
         /\ losses[c] + (IF read THEN 0 ELSE 1) = losses'[c]
         /\ \A d \in Sessions \ {c} : losses'[d] = losses[d]
<1>1. losses \in [Sessions -> 0 .. MaxLosses]
  BY DEF TypesInv, ClientsType
<1>2. CASE read
  BY <1>1, <1>2 DEF Forgets
<1>3. CASE ~read
  <2>1. losses' = [losses EXCEPT ![c] = @ + 1] /\ losses[c] + 1 <= MaxLosses
    BY <1>1, <1>3, ClientConstants DEF Forgets
  <2> QED
    BY <1>1, <1>3, <2>1, LossType, ClientConstants
<1> QED
  BY <1>2, <1>3

\* A client's new record, and nothing else of the clients.
LEMMA RecordMoves ==
  ASSUME TypesInv, NEW c \in Sessions, NEW new \in Client,
         client' = [client EXCEPT ![c] = new],
         new.pc = "watching" => new.seen \in Sighting,
         losses' \in [Sessions -> 0 .. MaxLosses], losses'[c] >= losses[c],
         \A d \in Sessions \ {c} : losses'[d] = losses[d],
         verdicts' = verdicts
  PROVE  Moves(c) /\ client'[c] = new
BY DEF TypesInv, ClientsType, Moves

LEMMA RecordAlone ==
  ASSUME TypesInv, NEW c \in Sessions, NEW new \in Client,
         client' = [client EXCEPT ![c] = new],
         new.pc = "watching" => new.seen \in Sighting,
         losses' = losses, verdicts' = verdicts
  PROVE  Moves(c) /\ client'[c] = new
<1>1. losses \in [Sessions -> 0 .. MaxLosses]
  BY DEF TypesInv, ClientsType
<1>2. /\ losses' \in [Sessions -> 0 .. MaxLosses] /\ losses'[c] >= losses[c]
      /\ \A d \in Sessions \ {c} : losses'[d] = losses[d]
  <2>1. losses[c] \in Int
    BY <1>1, ClientConstants
  <2> QED
    BY <1>1, <2>1
<1> QED
  BY <1>2, RecordMoves

(***************************************************************************)
(* What each step of a client does.                                        *)
(***************************************************************************)

ClaimingNow(c) ==
  /\ client'[c].pc = "claiming" /\ client'[c].tries = 0
  /\ client'[c].until = tick + ReadyTicks

LEMMA ClaimingType == ASSUME TypesInv, NEW c PROVE Claiming(c) \in Client
<1>1. tick \in Nat
  BY DEF TypesInv, DeployInv, TypeOK
<1>2. Resting("claiming") \in Client
  BY RestingType DEF Running
<1> QED
  BY <1>1, <1>2, ClientConstants DEF Claiming, Client

LEMMA TicksLeftType ==
  ASSUME TypesInv, upload # None
  PROVE  /\ TicksLeft(upload) \in Nat /\ Received(upload) \in SUBSET Chunks
         /\ upload \in Upload /\ tick \in Nat
         /\ ~IsStale => TicksLeft(upload) = StaleTicks + 1 - (tick - upload.lastProgressTick)
<1>1. upload \in Upload /\ tick \in Nat
  BY DEF TypesInv, DeployInv, TypeOK
<1> QED
  BY <1>1, DeploymentConstants DEF TicksLeft, Received, Upload, IsStale, IdleTicks

LEMMA PreflightMoves ==
  ASSUME TypesInv, NEW c \in Sessions, NEW read \in BOOLEAN, Preflight(c, read)
  PROVE  /\ Moves(c) /\ Looks /\ mempool' = mempool /\ client[c].pc = "start"
         /\ \/ ClaimingNow(c)
            \/ /\ upload # None /\ ~IsStale /\ upload' = upload
               /\ client'[c].pc = "watching" /\ client'[c].until = tick + 1
               /\ client'[c].tries = TicksLeft(upload)
               /\ client'[c].seen = [session |-> upload.session, received |-> Received(upload)]
<1>1. PICK upl : Preflight(c, read)!(upl)
  BY DEF Preflight
<1> DEFINE new == IF upl = None THEN Claiming(c)
                  ELSE [client[c] EXCEPT !.pc = "watching", !.until = tick + 1,
                        !.tries = TicksLeft(upl),
                        !.seen = [session |-> upl.session, received |-> Received(upl)]]
<1>2. /\ client[c].pc = "start" /\ Reads(c, upl, read) /\ Forgets(c, read)
      /\ client' = [client EXCEPT ![c] = new]
      /\ mempool' = mempool /\ verdicts' = verdicts
  BY <1>1 DEF At
<1>3. /\ Looks /\ (upl # None => upl = upload /\ upload' = upload /\ ~IsStale)
      /\ read \/ losses[c] < MaxLosses
  BY <1>2, ReadLooks DEF Reads
<1>4. client[c] \in Client
  BY DEF TypesInv, ClientsType
<1>5. /\ new \in Client /\ (new.pc = "watching" => new.seen \in Sighting)
  <2>1. CASE upl = None
    BY <2>1, ClaimingType DEF Claiming, Resting
  <2>2. CASE upl # None
    <3> DEFINE sight == [session |-> upl.session, received |-> Received(upl)]
    <3>1. TicksLeft(upl) \in Nat /\ sight \in Sighting /\ tick + 1 \in Nat
      BY <1>3, <2>2, TicksLeftType DEF Sighting, Upload
    <3> HIDE DEF sight
    <3>2. [client[c] EXCEPT !.pc = "watching", !.until = tick + 1, !.tries = TicksLeft(upl),
             !.seen = sight] \in Client
      BY <1>4, <3>1 DEF Client, Running
    <3> QED
      BY <1>4, <2>2, <3>1, <3>2 DEF sight, Client
  <2> QED
    BY <2>1, <2>2
<1>6. /\ losses' \in [Sessions -> 0 .. MaxLosses] /\ losses'[c] >= losses[c]
      /\ \A d \in Sessions \ {c} : losses'[d] = losses[d]
  BY <1>2, <1>3, ForgetsType
<1> HIDE DEF new
<1>7. Moves(c) /\ client'[c] = new
  BY <1>2, <1>5, <1>6, RecordMoves
<1>8. CASE upl = None
  BY <1>2, <1>3, <1>7, <1>8 DEF new, ClaimingNow, Claiming, Resting
<1>9. CASE upl # None
  <2>1. /\ new.pc = "watching" /\ new.until = tick + 1 /\ new.tries = TicksLeft(upload)
        /\ new.seen = [session |-> upload.session, received |-> Received(upload)]
    BY <1>3, <1>4, <1>9 DEF new, Client
  <2> QED
    BY <1>2, <1>3, <1>7, <1>9, <2>1
<1> QED
  BY <1>8, <1>9

LEMMA WatchMoves ==
  ASSUME TypesInv, NEW c \in Sessions, NEW read \in BOOLEAN, Watch(c, read)
  PROVE  /\ Moves(c) /\ Looks /\ mempool' = mempool
         /\ client[c].pc = "watching" /\ tick >= client[c].until
         /\ \/ ClaimingNow(c)
            \/ /\ upload # None /\ ~IsStale /\ upload' = upload
               /\ upload.session = client[c].seen.session
               /\ \/ /\ client'[c].pc = "busy"
                     /\ Received(upload) # client[c].seen.received \/ client[c].tries = 0
                  \/ /\ client'[c].pc = "watching" /\ client'[c].until = tick + 1
                     /\ client'[c].tries = client[c].tries - 1
                     /\ client'[c].seen = client[c].seen
<1>1. PICK upl : Watch(c, read)!(upl)
  BY DEF Watch
<1> DEFINE seen == client[c].seen
           next == [client[c] EXCEPT !.tries = client[c].tries - 1, !.until = tick + 1]
           new == IF upl = None \/ upl.session # seen.session THEN Claiming(c)
                  ELSE IF Received(upl) # seen.received \/ client[c].tries = 0 THEN Resting("busy")
                  ELSE next
<1>2. client[c].pc = "watching" /\ tick >= client[c].until
  BY <1>1 DEF At
<1>3. /\ Reads(c, upl, read) /\ Forgets(c, read)
      /\ client' = [client EXCEPT ![c] = new]
      /\ mempool' = mempool /\ verdicts' = verdicts
  BY <1>1
<1>4. client[c] \in Client /\ client[c].seen \in Sighting /\ tick \in Nat
  BY <1>2 DEF TypesInv, ClientsType, DeployInv, TypeOK
<1>5. client[c].tries # 0 =>
        /\ next \in Client /\ next.pc = "watching" /\ next.seen = seen /\ next.until = tick + 1
        /\ next.tries = client[c].tries - 1
  <2> SUFFICES ASSUME client[c].tries # 0
               PROVE  /\ next \in Client /\ next.pc = "watching" /\ next.seen = seen
                      /\ next.until = tick + 1 /\ next.tries = client[c].tries - 1
    OBVIOUS
  <2>1. client[c].tries - 1 \in Nat /\ tick + 1 \in Nat
    BY <1>4 DEF Client
  <2> QED
    BY <1>2, <1>4, <2>1 DEF Client
<1>6. /\ Claiming(c) \in Client /\ Claiming(c).pc = "claiming"
      /\ Resting("busy") \in Client /\ Resting("busy").pc = "busy"
  BY ClaimingType, RestingType DEF Claiming, Resting, Ended
<1>7. /\ Looks /\ (upl # None => upl = upload /\ upload' = upload /\ ~IsStale)
      /\ read \/ losses[c] < MaxLosses
  BY <1>3, ReadLooks DEF Reads
<1>8. /\ losses' \in [Sessions -> 0 .. MaxLosses] /\ losses'[c] >= losses[c]
      /\ \A d \in Sessions \ {c} : losses'[d] = losses[d]
  BY <1>3, <1>7, ForgetsType
<1> HIDE DEF next
<1>9. new \in Client /\ (new.pc = "watching" => new.seen \in Sighting)
  BY <1>4, <1>5, <1>6
<1> HIDE DEF new
<1>10. Moves(c) /\ client'[c] = new
  BY <1>3, <1>8, <1>9, RecordMoves
<1>11. CASE upl = None \/ upl.session # seen.session
  <2>1. ClaimingNow(c)
    BY <1>10, <1>11 DEF new, ClaimingNow, Claiming, Resting
  <2> QED
    BY <1>2, <1>3, <1>7, <1>10, <2>1
<1>12. CASE ~(upl = None \/ upl.session # seen.session)
  <2>1. /\ upload # None /\ ~IsStale /\ upload' = upload
        /\ upload.session = client[c].seen.session /\ upl = upload
    BY <1>7, <1>12
  <2>2. CASE Received(upl) # seen.received \/ client[c].tries = 0
    <3>1. client'[c].pc = "busy"
      BY <1>6, <1>10, <1>12, <2>2 DEF new
    <3> QED
      BY <1>2, <1>3, <1>7, <1>10, <2>1, <2>2, <3>1
  <2>3. CASE ~(Received(upl) # seen.received \/ client[c].tries = 0)
    <3>1. client'[c] = next
      BY <1>10, <1>12, <2>3 DEF new
    <3> QED
      BY <1>2, <1>3, <1>5, <1>7, <1>10, <2>1, <2>3, <3>1
  <2> QED
    BY <2>2, <2>3
<1> QED
  BY <1>11, <1>12

LEMMA NodeNow ==
  ASSUME TypesInv, NEW c \in Sessions
  PROVE  /\ tick \in Nat /\ client[c] \in Client
         /\ (client[c].pc = "watching" => client[c].seen \in Sighting)
BY DEF TypesInv, ClientsType, DeployInv, TypeOK

LEMMA SendBeginMoves ==
  ASSUME TypesInv, NEW c \in Sessions, SendBegin(c)
  PROVE  /\ Moves(c) /\ Looks /\ Sends(c, "begin") /\ upload' = upload
         /\ client[c].pc = "claiming" /\ tick >= client[c].until
         /\ client'[c].pc = "checking" /\ client'[c].tries = client[c].tries
         /\ client'[c].until \in {tick, tick + TxTickOffset + 1}
<1>1. PICK arrived \in SUBSET {Begin(c)}, answered \in SUBSET {Begin(c)} :
        /\ Broadcast(c, {Begin(c)}, arrived, answered)
        /\ client' = [client EXCEPT ![c] =
            [client[c] EXCEPT !.pc = "checking", !.begun = client[c].begun \/ answered # {},
                      !.until = ClaimedUntil(Begin(c), answered)]]
  BY DEF SendBegin
<1> DEFINE until == ClaimedUntil(Begin(c), answered)
           begun == client[c].begun \/ answered # {}
           new == [client[c] EXCEPT !.pc = "checking", !.begun = begun, !.until = until]
<1>2. client[c].pc = "claiming" /\ tick >= client[c].until /\ UNCHANGED vars /\ verdicts' = verdicts
  BY DEF SendBegin, At
<1>3. client[c] \in Client /\ tick \in Nat
  BY NodeNow
<1>4. until \in {tick, tick + TxTickOffset + 1} /\ begun \in BOOLEAN /\ until \in Nat
  BY <1>3, ClientConstants DEF ClaimedUntil, Begin, Client
<1>5. /\ client' = [client EXCEPT ![c] = new]
  BY <1>1
<1> HIDE DEF until, begun
<1>6. /\ new \in Client /\ new.pc = "checking" /\ new.tries = client[c].tries /\ new.until = until
  BY <1>3, <1>4 DEF Client, Running
<1> HIDE DEF new
<1>7. /\ Begin(c) \in Tx /\ Begin(c).from = c /\ Begin(c).kind = "begin"
      /\ Begin(c).tick = tick + TxTickOffset
  BY <1>3, ClientConstants DEF Begin, Tx
<1>8. IsFiniteSet({Begin(c)})
  BY FS_Singleton
<1>9. /\ Sends(c, "begin")
      /\ losses' \in [Sessions -> 0 .. MaxLosses] /\ losses'[c] >= losses[c]
      /\ \A d \in Sessions \ {c} : losses'[d] = losses[d]
  BY <1>1, <1>7, <1>8, BroadcastSends
<1>10. Moves(c) /\ client'[c] = new
  BY <1>2, <1>5, <1>6, <1>9, RecordMoves
<1> QED
  BY <1>2, <1>4, <1>6, <1>9, <1>10, StandsStill DEF vars

LEMMA CheckClaimMoves ==
  ASSUME TypesInv, NEW c \in Sessions, NEW read \in BOOLEAN, CheckClaim(c, read)
  PROVE  /\ Moves(c) /\ Looks /\ mempool' = mempool
         /\ client[c].pc = "checking" /\ tick >= client[c].until
         /\ \/ /\ upload # None /\ ~IsStale /\ upload' = upload /\ upload.session = c
               /\ client'[c].pc = "sending" /\ client'[c].txTick = tick + TxTickOffset
               /\ client'[c].until = tick /\ client'[c].tries = 0
            \/ client'[c].pc \in {"busy", "unclaimed"}
            \/ /\ client[c].tries < Retries
               /\ client'[c].pc = "claiming" /\ client'[c].until = tick
               /\ client'[c].tries = client[c].tries + 1
<1>1. PICK upl : CheckClaim(c, read)!(upl)
  BY DEF CheckClaim
<1> DEFINE send == [client[c] EXCEPT !.pc = "sending", !.tries = 0, !.pending = Chunks,
                          !.until = tick, !.txTick = tick + TxTickOffset]
           again == [client[c] EXCEPT !.pc = "claiming", !.tries = client[c].tries + 1,
                                      !.until = tick]
           new == IF upl # None /\ upl.session = c THEN send
                  ELSE IF upl # None THEN Resting("busy")
                  ELSE IF client[c].tries < Retries THEN again
                  ELSE Resting("unclaimed")
<1>2. client[c].pc = "checking" /\ tick >= client[c].until
  BY <1>1 DEF At
<1>3. /\ Reads(c, upl, read) /\ Forgets(c, read)
      /\ client' = [client EXCEPT ![c] = new]
      /\ mempool' = mempool /\ verdicts' = verdicts
  BY <1>1
<1>4. client[c] \in Client /\ tick \in Nat
  BY NodeNow
<1>5. /\ send \in Client /\ send.pc = "sending" /\ send.txTick = tick + TxTickOffset
      /\ send.until = tick /\ send.tries = 0
  <2>1. tick + TxTickOffset \in Nat /\ Chunks \in SUBSET Chunks /\ "sending" \in Running
    BY <1>4, ClientConstants DEF Running
  <2> HIDE DEF again, new
  <2>2. send \in Client
    BY <1>4, <2>1 DEF Client
  <2> QED
    BY <1>4, <2>2 DEF Client
<1>6. /\ again \in Client /\ again.pc = "claiming" /\ again.until = tick
      /\ again.tries = client[c].tries + 1
  <2>1. client[c].tries + 1 \in Nat /\ "claiming" \in Running
    BY <1>4 DEF Client, Running
  <2> HIDE DEF send, new
  <2>2. again \in Client
    BY <1>4, <2>1 DEF Client
  <2> QED
    BY <1>4, <2>2 DEF Client
<1>7. /\ Resting("busy") \in Client /\ Resting("busy").pc = "busy"
      /\ Resting("unclaimed") \in Client /\ Resting("unclaimed").pc = "unclaimed"
  BY RestingType DEF Resting, Ended, Failures
<1>8. /\ Looks /\ (upl # None => upl = upload /\ upload' = upload /\ ~IsStale)
      /\ read \/ losses[c] < MaxLosses
  BY <1>3, ReadLooks DEF Reads
<1>9. /\ losses' \in [Sessions -> 0 .. MaxLosses] /\ losses'[c] >= losses[c]
      /\ \A d \in Sessions \ {c} : losses'[d] = losses[d]
  BY <1>3, <1>8, ForgetsType
<1> HIDE DEF send, again
<1>10. new \in Client /\ new.pc # "watching"
  BY <1>5, <1>6, <1>7
<1> HIDE DEF new
<1>11. Moves(c) /\ client'[c] = new
  BY <1>3, <1>9, <1>10, RecordMoves
<1>12. \/ upl # None /\ upl.session = c /\ new = send
       \/ new \in {Resting("busy"), Resting("unclaimed")}
       \/ client[c].tries < Retries /\ new = again
  BY DEF new
<1> QED
  BY <1>2, <1>3, <1>5, <1>6, <1>7, <1>8, <1>11, <1>12

LEMMA ChunkTxsType ==
  ASSUME NEW c \in Sessions, NEW chunks \in SUBSET Chunks, NEW at \in Nat, NEW txs,
         \A tx \in txs : \E q \in chunks : tx = ChunkTx(c, q, at)
  PROVE  /\ IsFiniteSet(txs) /\ txs \subseteq Tx
         /\ \A tx \in txs : tx.from = c /\ tx.kind = "chunk" /\ tx.seq \in Chunks /\ tx.tick = at
<1> DEFINE some == {q \in chunks : ChunkTx(c, q, at) \in txs}
           f == [q \in some |-> ChunkTx(c, q, at)]
<1>1. IsFiniteSet(Chunks) /\ Chunks \subseteq Nat
  BY FS_Interval, DeploymentConstants DEF Chunks
<1>2. IsFiniteSet(some)
  BY <1>1, FS_Subset
<1>3. f \in Surjection(some, txs)
  BY DEF Surjection
<1>4. IsFiniteSet(txs)
  BY <1>2, <1>3, FS_Surjection
<1>5. /\ txs \subseteq Tx
      /\ \A tx \in txs : tx.from = c /\ tx.kind = "chunk" /\ tx.seq \in Chunks /\ tx.tick = at
  BY <1>1 DEF ChunkTx, Tx
<1> QED
  BY <1>4, <1>5

LEMMA SendChunksMoves ==
  ASSUME TypesInv, NEW c \in Sessions, SendChunks(c)
  PROVE  /\ Moves(c) /\ Looks /\ Sends(c, "chunk") /\ upload' = upload
         /\ client[c].pc = "sending" /\ tick >= client[c].until
         /\ \/ client'[c].pc = "assembling" /\ client'[c].until = client[c].txTick + 1
            \/ client'[c].pc \in {"uncounted", "unsent"}
            \/ client'[c].pc = "sending" /\ client'[c].txTick = client[c].txTick
<1> DEFINE txs == {ChunkTx(c, q, client[c].txTick) : q \in client[c].pending}
<1>1. PICK arrived \in SUBSET txs, answered \in SUBSET txs :
        LET left == {q \in client[c].pending : ChunkTx(c, q, client[c].txTick) \notin answered} IN
        /\ Broadcast(c, txs, arrived, answered)
        /\ client' = [client EXCEPT ![c] =
            IF left = {} /\ SentAll(client[c])
              THEN [client[c] EXCEPT !.pc = "assembling", !.tries = 0, !.pending = {},
                              !.until = SentUntil(c)]
            ELSE IF left = {} THEN Resting("uncounted")
            ELSE IF client[c].tries < Retries
              THEN [client[c] EXCEPT !.pending = left, !.tries = client[c].tries + 1,
                                     !.until = tick]
            ELSE Resting("unsent")]
  BY DEF SendChunks
<1> DEFINE left == {q \in client[c].pending : ChunkTx(c, q, client[c].txTick) \notin answered}
           assemble == [client[c] EXCEPT !.pc = "assembling", !.tries = 0, !.pending = {},
                                         !.until = SentUntil(c)]
           again == [client[c] EXCEPT !.pending = left, !.tries = client[c].tries + 1,
                                      !.until = tick]
           new == IF left = {} /\ SentAll(client[c]) THEN assemble
                  ELSE IF left = {} THEN Resting("uncounted")
                  ELSE IF client[c].tries < Retries THEN again
                  ELSE Resting("unsent")
<1>2. client' = [client EXCEPT ![c] = new] /\ Broadcast(c, txs, arrived, answered)
  BY <1>1
<1>3. client[c].pc = "sending" /\ tick >= client[c].until /\ UNCHANGED vars /\ verdicts' = verdicts
  BY DEF SendChunks, At
<1>4. client[c] \in Client /\ tick \in Nat
  BY NodeNow
<1>5. /\ client[c].pending \in SUBSET Chunks /\ client[c].txTick \in Nat
      /\ client[c].tries + 1 \in Nat
  BY <1>4 DEF Client
<1>6. /\ IsFiniteSet(txs) /\ txs \subseteq Tx
      /\ \A tx \in txs : tx.from = c /\ tx.kind = "chunk" /\ tx.seq \in Chunks
  <2>1. \A tx \in txs : \E q \in client[c].pending : tx = ChunkTx(c, q, client[c].txTick)
    OBVIOUS
  <2> HIDE DEF txs
  <2>2. client[c].pending \in SUBSET Chunks /\ client[c].txTick \in Nat
    BY <1>5
  <2> QED
    BY ONLY <2>1, <2>2, c \in Sessions, ChunkTxsType
<1>7. /\ Sends(c, "chunk")
      /\ losses' \in [Sessions -> 0 .. MaxLosses] /\ losses'[c] >= losses[c]
      /\ \A d \in Sessions \ {c} : losses'[d] = losses[d]
  <2> HIDE DEF txs
  <2> QED
    BY <1>2, <1>6, BroadcastSends
<1>8. left \in SUBSET Chunks
  BY <1>5
<1> HIDE DEF txs, left, new
<1>9. /\ assemble \in Client /\ assemble.pc = "assembling"
      /\ assemble.until = client[c].txTick + 1
  <2>1. SentUntil(c) = client[c].txTick + 1 /\ SentUntil(c) \in Nat /\ "assembling" \in Running
    BY <1>5 DEF SentUntil, Running
  <2> HIDE DEF again
  <2>2. assemble \in Client
    BY <1>4, <2>1 DEF Client
  <2> QED
    BY <1>4, <2>1, <2>2 DEF Client
<1>10. again \in Client /\ again.pc = "sending" /\ again.txTick = client[c].txTick
  <2> HIDE DEF assemble
  <2>1. again \in Client
    BY <1>4, <1>5, <1>8 DEF Client
  <2> QED
    BY <1>3, <1>4, <2>1 DEF Client
<1> HIDE DEF assemble, again
<1>11. /\ Resting("uncounted") \in Client /\ Resting("uncounted").pc = "uncounted"
       /\ Resting("unsent") \in Client /\ Resting("unsent").pc = "unsent"
  BY RestingType DEF Resting, Ended, Failures
<1>12. new \in {assemble, again, Resting("uncounted"), Resting("unsent")}
  BY DEF new
<1>13. new \in Client /\ new.pc # "watching"
  BY <1>9, <1>10, <1>11, <1>12
<1>14. Moves(c) /\ client'[c] = new
  BY <1>2, <1>3, <1>7, <1>13, RecordMoves
<1> QED
  BY <1>3, <1>7, <1>9, <1>10, <1>11, <1>12, <1>14, StandsStill DEF vars

\* The next round of the assembly, or the end of it.
LEMMA NextRoundType ==
  ASSUME TypesInv, NEW c \in Sessions, NEW until \in Nat, client[c].pc = "assembling"
  PROVE  /\ NextRound(c, until) \in Client /\ NextRound(c, until).until = until
         /\ NextRound(c, until).pc \in {"assembling", "arming"}
<1>1. client[c] \in Client
  BY NodeNow
<1>2. client[c].tries + 1 \in Nat
  BY <1>1 DEF Client
<1>3. CASE client[c].tries < Retries
  <2> DEFINE new == [client[c] EXCEPT !.tries = client[c].tries + 1, !.until = until]
  <2>1. NextRound(c, until) = new
    BY <1>3 DEF NextRound
  <2>2. new \in Client /\ new.until = until /\ new.pc = "assembling"
    BY <1>1, <1>2 DEF Client
  <2> HIDE DEF new
  <2> QED
    BY <2>1, <2>2
<1>4. CASE ~(client[c].tries < Retries)
  <2> DEFINE new == [client[c] EXCEPT !.pc = "arming", !.tries = 0, !.until = until]
  <2>1. NextRound(c, until) = new
    BY <1>4 DEF NextRound
  <2>2. new \in Client /\ new.until = until /\ new.pc = "arming"
    BY <1>1 DEF Client, Running
  <2> HIDE DEF new
  <2> QED
    BY <2>1, <2>2
<1> QED
  BY <1>3, <1>4

AssembleResult(c) ==
  \/ /\ client'[c].pc = "busy" /\ mempool' = mempool
     /\ upload # None /\ upload.session # c
  \/ client'[c].pc = "threw"
  \/ client'[c].pc = "arming"
  \/ client'[c].pc = "assembling" /\ client'[c].until >= tick + 1

LEMMA AssembleMoves ==
  ASSUME TypesInv, NEW c \in Sessions, NEW read \in BOOLEAN, Assemble(c, read)
  PROVE  /\ Moves(c) /\ Looks /\ Sends(c, "chunk")
         /\ client[c].pc = "assembling" /\ tick >= client[c].until
         /\ AssembleResult(c)
<1>1. PICK upl : Assemble(c, read)!(upl)
  BY DEF Assemble
<1>2. /\ client[c].pc = "assembling" /\ tick >= client[c].until
      /\ Reads(c, upl, read) /\ verdicts' = verdicts
  BY <1>1 DEF At
<1>3. client[c] \in Client /\ tick \in Nat /\ MempoolType
  BY NodeNow DEF TypesInv
<1>4. /\ Looks /\ (upl # None => upl = upload /\ upload' = upload /\ ~IsStale)
      /\ read \/ losses[c] < MaxLosses
  BY <1>2, ReadLooks DEF Reads
<1>5. /\ tick + 1 \in Nat /\ tick + TxTickOffset + 1 \in Nat /\ tick + TxTickOffset \in Nat
      /\ tick + TxTickOffset + 1 >= tick + 1
  BY <1>3, ClientConstants
<1>6. /\ Resting("busy") \in Client /\ Resting("busy").pc = "busy"
      /\ Resting("threw") \in Client /\ Resting("threw").pc = "threw"
  BY RestingType DEF Resting, Ended
<1> DEFINE arm == [client[c] EXCEPT !.pc = "arming", !.tries = 0, !.until = tick]
           late == tick + TxTickOffset + 1
           soon == tick + 1
           txs == {ChunkTx(c, q, tick + TxTickOffset) : q \in Missing(upl)}
<1>7. arm \in Client /\ arm.pc = "arming"
  BY <1>3 DEF Client, Running
<1>8. /\ NextRound(c, soon) \in Client /\ NextRound(c, soon).until = soon
      /\ NextRound(c, soon).pc \in {"assembling", "arming"}
  BY <1>2, <1>5, NextRoundType
<1>9. /\ NextRound(c, late) \in Client /\ NextRound(c, late).until = late
      /\ NextRound(c, late).pc \in {"assembling", "arming"}
  BY <1>2, <1>5, NextRoundType
<1>10. \/ /\ Forgets(c, read) /\ mempool' = mempool
          /\ \/ client' = [client EXCEPT ![c] = NextRound(c, soon)]
             \/ /\ upl # None /\ upl.session # c
                /\ client' = [client EXCEPT ![c] = Resting("busy")]
             \/ client' = [client EXCEPT ![c] = arm]
       \/ \E arrived, answered \in SUBSET txs :
            /\ Broadcast(c, txs, arrived, answered)
            /\ \/ client' = [client EXCEPT ![c] = NextRound(c, late)]
               \/ client' = [client EXCEPT ![c] = Resting("threw")]
  BY <1>1
<1> HIDE DEF arm, txs, soon, late
<1>11. CASE /\ Forgets(c, read) /\ mempool' = mempool
            /\ \/ client' = [client EXCEPT ![c] = NextRound(c, soon)]
               \/ /\ upl # None /\ upl.session # c
                  /\ client' = [client EXCEPT ![c] = Resting("busy")]
               \/ client' = [client EXCEPT ![c] = arm]
  <2>1. /\ losses' \in [Sessions -> 0 .. MaxLosses] /\ losses'[c] >= losses[c]
        /\ \A d \in Sessions \ {c} : losses'[d] = losses[d]
    BY <1>4, <1>11, ForgetsType
  <2>2. Sends(c, "chunk")
    BY <1>3, <1>11, SaysNothing
  <2>3. CASE client' = [client EXCEPT ![c] = NextRound(c, soon)]
    <3>1. Moves(c) /\ client'[c] = NextRound(c, soon)
      BY <1>2, <1>8, <2>1, <2>3, RecordMoves
    <3> QED
      BY <1>2, <1>4, <1>5, <1>8, <2>2, <3>1 DEF AssembleResult, soon
  <2>4. CASE upl # None /\ upl.session # c /\ client' = [client EXCEPT ![c] = Resting("busy")]
    <3>1. Moves(c) /\ client'[c] = Resting("busy")
      BY <1>2, <1>6, <2>1, <2>4, RecordMoves
    <3> QED
      BY <1>2, <1>4, <1>6, <1>11, <2>2, <2>4, <3>1 DEF AssembleResult
  <2>5. CASE client' = [client EXCEPT ![c] = arm]
    <3>1. Moves(c) /\ client'[c] = arm
      BY <1>2, <1>7, <2>1, <2>5, RecordMoves
    <3> QED
      BY <1>2, <1>4, <1>7, <2>2, <3>1 DEF AssembleResult
  <2> QED
    BY <1>11, <2>3, <2>4, <2>5
<1>12. CASE \E arrived, answered \in SUBSET txs :
              /\ Broadcast(c, txs, arrived, answered)
              /\ \/ client' = [client EXCEPT ![c] = NextRound(c, late)]
                 \/ client' = [client EXCEPT ![c] = Resting("threw")]
  <2>1. PICK arrived \in SUBSET txs, answered \in SUBSET txs :
          /\ Broadcast(c, txs, arrived, answered)
          /\ \/ client' = [client EXCEPT ![c] = NextRound(c, late)]
             \/ client' = [client EXCEPT ![c] = Resting("threw")]
    BY <1>12
  <2>2. /\ IsFiniteSet(txs) /\ txs \subseteq Tx
        /\ \A tx \in txs : tx.from = c /\ tx.kind = "chunk" /\ tx.seq \in Chunks
    <3> DEFINE missing == Missing(upl)
               at == tick + TxTickOffset
    <3>1. missing \in SUBSET Chunks /\ at \in Nat
      BY <1>5 DEF Missing
    <3>2. \A tx \in txs : \E q \in missing : tx = ChunkTx(c, q, at)
      BY DEF txs
    <3> HIDE DEF missing, at
    <3> QED
      BY <3>1, <3>2, ChunkTxsType
  <2>3. /\ Sends(c, "chunk")
        /\ losses' \in [Sessions -> 0 .. MaxLosses] /\ losses'[c] >= losses[c]
        /\ \A d \in Sessions \ {c} : losses'[d] = losses[d]
    BY <2>1, <2>2, BroadcastSends
  <2>4. CASE client' = [client EXCEPT ![c] = NextRound(c, late)]
    <3>1. Moves(c) /\ client'[c] = NextRound(c, late)
      BY <1>2, <1>9, <2>3, <2>4, RecordMoves
    <3> QED
      BY <1>2, <1>4, <1>5, <1>9, <2>3, <3>1 DEF AssembleResult, late
  <2>5. CASE client' = [client EXCEPT ![c] = Resting("threw")]
    <3>1. Moves(c) /\ client'[c] = Resting("threw")
      BY <1>2, <1>6, <2>3, <2>5, RecordMoves
    <3> QED
      BY <1>2, <1>4, <1>6, <2>3, <3>1 DEF AssembleResult
  <2> QED
    BY <2>1, <2>4, <2>5
<1> QED
  BY <1>10, <1>11, <1>12

LEMMA DeploymentType ==
  ASSUME TypesInv, NEW c \in Sessions
  PROVE  /\ Deployment(c) \in Tx /\ Deployment(c).from = c /\ Deployment(c).kind = "deploy"
         /\ Deployment(c).tick = tick + TxTickOffset
         /\ IsFiniteSet({Deployment(c)})
<1>1. tick \in Nat
  BY NodeNow
<1>2. IsFiniteSet({Deployment(c)})
  BY FS_Singleton
<1> QED
  BY <1>1, <1>2, ClientConstants DEF Deployment, Tx

LEMMA SendDeployMoves ==
  ASSUME TypesInv, NEW c \in Sessions, SendDeploy(c)
  PROVE  /\ Moves(c) /\ Looks /\ Sends(c, "deploy") /\ upload' = upload
         /\ client[c].pc = "arming"
         /\ \/ client'[c].pc = "threw"
            \/ /\ client'[c].pc = "confirming" /\ client'[c].txTick = tick + TxTickOffset
               /\ client'[c].tries = 0 /\ client'[c].polls = 0 /\ client'[c].until = tick
<1> DEFINE new(answered) ==
             IF answered = {} THEN Resting("threw")
             ELSE [client[c] EXCEPT !.pc = "confirming", !.txTick = tick + TxTickOffset,
                           !.tries = 0, !.polls = 0, !.until = tick]
           sent == [client[c] EXCEPT !.pc = "confirming", !.txTick = tick + TxTickOffset,
                           !.tries = 0, !.polls = 0, !.until = tick]
<1>1. PICK arrived \in SUBSET {Deployment(c)}, answered \in SUBSET {Deployment(c)} :
        /\ Broadcast(c, {Deployment(c)}, arrived, answered)
        /\ client' = [client EXCEPT ![c] = new(answered)]
  BY DEF SendDeploy
<1>2. client[c].pc = "arming" /\ UNCHANGED vars /\ verdicts' = verdicts
  BY DEF SendDeploy, At
<1>3. client[c] \in Client /\ tick \in Nat
  BY NodeNow
<1>4. /\ sent \in Client /\ sent.pc = "confirming" /\ sent.txTick = tick + TxTickOffset
      /\ sent.tries = 0 /\ sent.polls = 0 /\ sent.until = tick
  <2>1. tick + TxTickOffset \in Nat /\ 0 \in 0 .. MaxPolls /\ "confirming" \in Running
    BY <1>3, ClientConstants DEF Running
  <2>2. sent \in Client
    BY <1>3, <2>1 DEF Client
  <2> QED
    BY <1>3, <2>2 DEF Client
<1>5. Resting("threw") \in Client /\ Resting("threw").pc = "threw"
  BY RestingType DEF Resting, Ended
<1>6. new(answered) \in {sent, Resting("threw")}
  OBVIOUS
<1>7. /\ Sends(c, "deploy")
      /\ losses' \in [Sessions -> 0 .. MaxLosses] /\ losses'[c] >= losses[c]
      /\ \A d \in Sessions \ {c} : losses'[d] = losses[d]
  BY <1>1, DeploymentType, BroadcastSends
<1> HIDE DEF sent, new
<1>8. Moves(c) /\ client'[c] = new(answered)
  BY <1>1, <1>2, <1>4, <1>5, <1>6, <1>7, RecordMoves
<1> QED
  BY <1>2, <1>4, <1>5, <1>6, <1>7, <1>8, StandsStill DEF vars

\* The record after a poll: the client polls on, or has polled enough.
Polled(self, next) ==
  \/ /\ self.polls < MaxPolls /\ next.pc = self.pc /\ next.polls = self.polls + 1
     /\ next.until = tick + 1 /\ next.tries = self.tries /\ next.txTick = self.txTick
  \/ /\ self.polls = MaxPolls /\ next.pc = IF self.pc = "armed" THEN "ok" ELSE "unarmed"

LEMMA NextPollType ==
  ASSUME TypesInv, NEW self \in Client
  PROVE  NextPoll(self) \in Client /\ Polled(self, NextPoll(self))
<1>1. tick \in Nat
  BY DEF TypesInv, DeployInv, TypeOK
<1>2. CASE self.polls < MaxPolls
  <2> DEFINE new == [self EXCEPT !.polls = self.polls + 1, !.until = tick + 1]
  <2>1. NextPoll(self) = new
    BY <1>2 DEF NextPoll
  <2>2. self.polls + 1 \in 0 .. MaxPolls /\ tick + 1 \in Nat
    BY <1>1, <1>2, ClientConstants DEF Client
  <2>3. new \in Client
    BY <2>2 DEF Client
  <2>4. /\ new.pc = self.pc /\ new.polls = self.polls + 1 /\ new.until = tick + 1
        /\ new.tries = self.tries /\ new.txTick = self.txTick
    BY <2>3 DEF Client
  <2> HIDE DEF new
  <2> QED
    BY <1>2, <2>1, <2>3, <2>4 DEF Polled
<1>3. CASE ~(self.polls < MaxPolls)
  <2>1. self.polls = MaxPolls
    BY <1>3, ClientConstants DEF Client
  <2>2. NextPoll(self) = Resting(IF self.pc = "armed" THEN "ok" ELSE "unarmed")
    BY <1>3 DEF NextPoll
  <2>3. Resting(IF self.pc = "armed" THEN "ok" ELSE "unarmed") \in Client
    BY RestingType DEF Ended, Failures
  <2> QED
    BY <2>1, <2>2, <2>3 DEF Polled, Resting
<1> QED
  BY <1>2, <1>3

LEMMA PollArmedMoves ==
  ASSUME TypesInv, NEW c \in Sessions, PollArmed(c)
  PROVE  /\ Moves(c) /\ Looks /\ mempool' = mempool
         /\ client[c].pc \in {"confirming", "armed"} /\ tick >= client[c].until
         /\ RunsMine(c)
         /\ client'[c].pc \in {"ok", "armed"}
         /\ client'[c].pc = "armed" => client'[c].until = tick + 1
<1> DEFINE me == [client[c] EXCEPT !.pc = "armed"]
<1>1. /\ client[c].pc \in {"confirming", "armed"} /\ tick >= client[c].until /\ RunsMine(c)
      /\ client' = [client EXCEPT ![c] = IF IsConstructed(c) THEN Resting("ok") ELSE NextPoll(me)]
      /\ UNCHANGED <<vars, mempool, losses, verdicts>>
  BY DEF PollArmed, At
<1>2. client[c] \in Client /\ tick \in Nat /\ losses \in [Sessions -> 0 .. MaxLosses]
  BY NodeNow DEF TypesInv, ClientsType
<1>3. me \in Client /\ me.pc = "armed"
  BY <1>2 DEF Client, Running
<1> HIDE DEF me
<1>4. NextPoll(me) \in Client /\ Polled(me, NextPoll(me))
  BY <1>3, NextPollType
<1>5. Resting("ok") \in Client /\ Resting("ok").pc = "ok"
  BY RestingType DEF Resting, Ended
<1> DEFINE new == IF IsConstructed(c) THEN Resting("ok") ELSE NextPoll(me)
<1>6. /\ new \in Client /\ new.pc \in {"ok", "armed"}
      /\ new.pc = "armed" => new.until = tick + 1
  BY <1>3, <1>4, <1>5 DEF Polled
<1>7. client' = [client EXCEPT ![c] = new]
  BY <1>1
<1> HIDE DEF new
<1>8. Moves(c) /\ client'[c] = new
  BY <1>1, <1>2, <1>6, <1>7, RecordAlone
<1> QED
  BY <1>1, <1>6, <1>8, StandsStill

\* The client resends its DEPLOY, and may throw before it notes the new tick.
Resends(c) ==
  /\ ~Refused(c) /\ MissedItsTick(c) /\ client[c].tries < Retries
  /\ Sends(c, "deploy")
  /\ \/ /\ client[c].polls < MaxPolls /\ client'[c].pc = client[c].pc
        /\ client'[c].polls = client[c].polls + 1
        /\ client'[c].until = tick + 1 /\ client'[c].tries = client[c].tries + 1
        /\ client'[c].txTick \in {client[c].txTick, tick + TxTickOffset}
     \/ /\ client[c].polls = MaxPolls
        /\ client'[c].pc = IF client[c].pc = "armed" THEN "ok" ELSE "unarmed"

PollResult(c) ==
  \/ /\ Refused(c) /\ mempool' = mempool
     /\ client'[c].pc = IF client[c].pc = "armed" THEN "ok" ELSE "refused"
  \/ Resends(c)
  \/ /\ ~Refused(c) /\ ~(MissedItsTick(c) /\ client[c].tries < Retries) /\ mempool' = mempool
     /\ Polled(client[c], client'[c])

LEMMA PollUnarmedMoves ==
  ASSUME TypesInv, NEW c \in Sessions, PollUnarmed(c)
  PROVE  /\ Moves(c) /\ Looks /\ Sends(c, "deploy")
         /\ client[c].pc \in {"confirming", "armed"} /\ tick >= client[c].until
         /\ ~RunsMine(c) /\ PollResult(c)
<1>1. /\ client[c].pc \in {"confirming", "armed"} /\ tick >= client[c].until /\ ~RunsMine(c)
      /\ verdicts' = verdicts
  BY DEF PollUnarmed, At
<1>2. Looks
  BY DEF PollUnarmed, Looks
<1>3. /\ client[c] \in Client /\ tick \in Nat /\ losses \in [Sessions -> 0 .. MaxLosses]
      /\ MempoolType
  BY NodeNow DEF TypesInv, ClientsType
<1>4. CASE /\ Refused(c) /\ Ends(c, IF client[c].pc = "armed" THEN "ok" ELSE "refused")
           /\ UNCHANGED <<mempool, losses>>
  <2> DEFINE end == IF client[c].pc = "armed" THEN "ok" ELSE "refused"
  <2>1. Resting(end) \in Client /\ Resting(end).pc = end /\ end # "watching"
    BY RestingType DEF Resting, Ended, Failures
  <2>2. client' = [client EXCEPT ![c] = Resting(end)]
    BY <1>4 DEF Ends
  <2> HIDE DEF end
  <2>3. Moves(c) /\ client'[c] = Resting(end)
    BY <1>1, <1>3, <1>4, <2>1, <2>2, RecordAlone
  <2>4. Sends(c, "deploy")
    BY <1>3, <1>4, SaysNothing
  <2> QED
    BY <1>1, <1>2, <1>4, <2>1, <2>3, <2>4 DEF PollResult, end
<1>5. CASE /\ ~Refused(c) /\ MissedItsTick(c) /\ client[c].tries < Retries
           /\ \E arrived, answered \in SUBSET {Deployment(c)},
              thrown \in BOOLEAN :
                /\ Broadcast(c, {Deployment(c)}, arrived, answered)
                /\ thrown => answered = {}
                /\ client' = [client EXCEPT ![c] =
                     NextPoll([client[c] EXCEPT !.tries = client[c].tries + 1,
                       !.txTick = IF thrown THEN client[c].txTick ELSE tick + TxTickOffset])]
  <2>1. PICK arrived \in SUBSET {Deployment(c)}, answered \in SUBSET {Deployment(c)},
              thrown \in BOOLEAN :
                /\ Broadcast(c, {Deployment(c)}, arrived, answered)
                /\ client' = [client EXCEPT ![c] =
                     NextPoll([client[c] EXCEPT !.tries = client[c].tries + 1,
                       !.txTick = IF thrown THEN client[c].txTick ELSE tick + TxTickOffset])]
    BY <1>5
  <2> DEFINE at == IF thrown THEN client[c].txTick ELSE tick + TxTickOffset
             me == [client[c] EXCEPT !.tries = client[c].tries + 1, !.txTick = at]
  <2>2. /\ at \in Nat /\ at \in {client[c].txTick, tick + TxTickOffset}
        /\ client[c].tries + 1 \in Nat
    BY <1>3, ClientConstants DEF Client
  <2>3. client' = [client EXCEPT ![c] = NextPoll(me)]
    BY <2>1
  <2> HIDE DEF at
  <2>4. /\ me \in Client /\ me.tries = client[c].tries + 1 /\ me.txTick = at
        /\ me.pc = client[c].pc /\ me.polls = client[c].polls
    BY <1>3, <2>2 DEF Client
  <2> HIDE DEF me
  <2>5. NextPoll(me) \in Client /\ Polled(me, NextPoll(me))
    BY <2>4, NextPollType
  <2>6. /\ Sends(c, "deploy")
        /\ losses' \in [Sessions -> 0 .. MaxLosses] /\ losses'[c] >= losses[c]
        /\ \A d \in Sessions \ {c} : losses'[d] = losses[d]
    BY <2>1, DeploymentType, BroadcastSends
  <2>7. NextPoll(me).pc # "watching"
    BY <1>1, <2>4, <2>5 DEF Polled
  <2>8. Moves(c) /\ client'[c] = NextPoll(me)
    BY <1>1, <2>3, <2>5, <2>6, <2>7, RecordMoves
  <2>9. Resends(c)
    BY <1>5, <2>2, <2>4, <2>5, <2>6, <2>8 DEF Polled, Resends
  <2> QED
    BY <1>1, <1>2, <2>6, <2>8, <2>9 DEF PollResult
<1>6. CASE /\ ~Refused(c) /\ ~(MissedItsTick(c) /\ client[c].tries < Retries)
           /\ client' = [client EXCEPT ![c] = NextPoll(client[c])]
           /\ UNCHANGED <<mempool, losses>>
  <2>1. NextPoll(client[c]) \in Client /\ Polled(client[c], NextPoll(client[c]))
    BY <1>3, NextPollType
  <2>2. NextPoll(client[c]).pc # "watching"
    BY <1>1, <2>1 DEF Polled
  <2>3. Moves(c) /\ client'[c] = NextPoll(client[c])
    BY <1>1, <1>3, <1>6, <2>1, <2>2, RecordAlone
  <2>4. Sends(c, "deploy")
    BY <1>3, <1>6, SaysNothing
  <2> QED
    BY <1>1, <1>2, <1>6, <2>1, <2>3, <2>4 DEF PollResult
<1> QED
  BY <1>4, <1>5, <1>6 DEF PollUnarmed

LEMMA PollFailsMoves ==
  ASSUME TypesInv, NEW c \in Sessions, PollFails(c)
  PROVE  /\ Moves(c) /\ Looks /\ mempool' = mempool /\ upload' = upload
         /\ client[c].pc \in {"confirming", "armed"} /\ tick >= client[c].until
         /\ losses'[c] = losses[c] + 1
         /\ Polled(client[c], client'[c])
<1>1. /\ client[c].pc \in {"confirming", "armed"} /\ tick >= client[c].until
      /\ losses[c] < MaxLosses /\ losses' = [losses EXCEPT ![c] = @ + 1]
      /\ client' = [client EXCEPT ![c] = NextPoll(client[c])]
      /\ UNCHANGED <<vars, mempool, verdicts>>
  BY DEF PollFails, At
<1>2. client[c] \in Client /\ tick \in Nat /\ losses \in [Sessions -> 0 .. MaxLosses]
  BY NodeNow DEF TypesInv, ClientsType
<1>3. losses[c] + 1 <= MaxLosses
  BY <1>1, <1>2, ClientConstants
<1>4. /\ losses' \in [Sessions -> 0 .. MaxLosses] /\ losses'[c] = losses[c] + 1
      /\ \A d \in Sessions \ {c} : losses'[d] = losses[d]
  BY <1>1, <1>2, <1>3, LossType
<1>5. NextPoll(client[c]) \in Client /\ Polled(client[c], NextPoll(client[c]))
  BY <1>2, NextPollType
<1>6. NextPoll(client[c]).pc # "watching"
  BY <1>1, <1>5 DEF Polled
<1>7. Moves(c) /\ client'[c] = NextPoll(client[c])
  <2>1. losses'[c] >= losses[c]
    BY <1>2, <1>4, ClientConstants
  <2> QED
    BY <1>1, <1>4, <1>5, <1>6, <2>1, RecordMoves
<1> QED
  BY <1>1, <1>4, <1>5, <1>7, StandsStill DEF vars

LEMMA CrashMoves ==
  ASSUME TypesInv, NEW c \in Sessions, Crash(c)
  PROVE  /\ Moves(c) /\ Looks /\ mempool' = mempool /\ upload' = upload
         /\ client[c].pc \in Running \ {"start"} /\ client'[c].pc = "crashed"
<1>1. /\ client[c].pc \in Running \ {"start"}
      /\ client' = [client EXCEPT ![c] = Resting("crashed")]
      /\ UNCHANGED <<vars, mempool, losses, verdicts>>
  BY DEF Crash, Ends
<1>2. losses \in [Sessions -> 0 .. MaxLosses]
  BY DEF TypesInv, ClientsType
<1>3. Resting("crashed") \in Client /\ Resting("crashed").pc = "crashed"
  BY RestingType DEF Resting, Ended
<1>4. Moves(c) /\ client'[c] = Resting("crashed")
  BY <1>1, <1>2, <1>3, RecordAlone
<1> QED
  BY <1>1, <1>3, <1>4, StandsStill DEF vars

(***************************************************************************)
(* What the node does: it handles a transaction, or a tick passes.         *)
(***************************************************************************)

Delivery(tx) ==
  /\ tx \in Tx /\ tick <= tx.tick /\ tick' = tick
  /\ mempool' = mempool \ {tx} /\ UNCHANGED <<client, losses>>
  /\ verdicts' \in [Sessions -> SUBSET Codes]
  /\ \A c \in Sessions : tx.kind # "deploy" \/ tx.from # c => verdicts'[c] = verdicts[c]
  /\ \/ tx.kind = "begin" /\ UploadBegin(tx.from, Wants[tx.from])
     \/ tx.kind = "chunk" /\ UNCHANGED vars
     \/ tx.kind = "chunk" /\ tx.seq \in Chunks /\ UploadChunk(tx.from, tx.seq, Wants[tx.from])
     \/ /\ tx.kind = "deploy" /\ DeployTx(tx.from, Target[tx.from], TRUE, Wants[tx.from])
        /\ verdicts'[tx.from] =
             verdicts[tx.from] \cup {Verdict(tx.from, Target[tx.from], TRUE, Wants[tx.from])}

LEMMA VerdictType ==
  ASSUME NEW session, NEW slot, NEW fits \in BOOLEAN, NEW module
  PROVE  Verdict(session, slot, fits, module) \in Codes
BY DEF Verdict, Codes

LEMMA DeliverMoves ==
  ASSUME TypesInv, NEW tx \in mempool, Deliver(tx)
  PROVE  Delivery(tx) /\ [Next]_vars
<1>1. /\ tx \in Tx /\ tick <= tx.tick /\ (tx.kind = "chunk" => tx.seq \in Chunks)
      /\ tick \in Nat
  BY DEF TypesInv, MempoolType, DeployInv, TypeOK, Tx
<1>2. /\ tx.from \in Sessions /\ tx.kind \in {"begin", "chunk", "deploy"}
      /\ Wants[tx.from] \in Modules /\ Target[tx.from] \in Slots
  BY <1>1, ClientConstants DEF Tx
<1>3. /\ Handled(tx) /\ mempool' = mempool \ {tx} /\ UNCHANGED <<client, losses>>
  BY DEF Deliver
<1> DEFINE code == Verdict(tx.from, Target[tx.from], TRUE, Wants[tx.from])
<1>4. verdicts' = IF tx.kind # "deploy" THEN verdicts
                  ELSE [verdicts EXCEPT ![tx.from] = verdicts[tx.from] \cup {code}]
  BY DEF Deliver
<1>5. code \in Codes
  BY VerdictType
<1> HIDE DEF code
<1>6. /\ verdicts' \in [Sessions -> SUBSET Codes]
      /\ \A c \in Sessions : tx.kind # "deploy" \/ tx.from # c => verdicts'[c] = verdicts[c]
      /\ tx.kind = "deploy" => verdicts'[tx.from] = verdicts[tx.from] \cup {code}
  BY <1>2, <1>4, <1>5 DEF TypesInv, ClientsType
<1>7. CASE tx.kind = "begin"
  <2>1. UploadBegin(tx.from, Wants[tx.from])
    BY <1>3, <1>7 DEF Handled
  <2>2. tick' = tick
    BY <2>1 DEF UploadBegin
  <2>3. Next
    BY <1>2, <2>1 DEF Next, UploadStep
  <2> QED
    BY <1>1, <1>3, <1>6, <1>7, <2>1, <2>2, <2>3 DEF Delivery
<1>8. CASE tx.kind = "chunk"
  <2>1. CASE ChunkRefused(tx.from, tx.seq)
    <3>1. UNCHANGED vars
      BY <1>3, <1>8, <2>1 DEF Handled
    <3>2. tick' = tick
      BY <3>1 DEF vars
    <3> QED
      BY <1>1, <1>3, <1>6, <1>8, <3>1, <3>2 DEF Delivery
  <2>2. CASE ~ChunkRefused(tx.from, tx.seq)
    <3>1. UploadChunk(tx.from, tx.seq, Wants[tx.from])
      BY <1>3, <1>8, <2>2 DEF Handled
    <3>2. tick' = tick
      BY <3>1 DEF UploadChunk
    <3>3. Next
      BY <1>1, <1>2, <1>8, <3>1 DEF Next, UploadStep
    <3> QED
      BY <1>1, <1>3, <1>6, <1>8, <3>1, <3>2, <3>3 DEF Delivery
  <2> QED
    BY <2>1, <2>2
<1>9. CASE tx.kind = "deploy"
  <2>1. DeployTx(tx.from, Target[tx.from], TRUE, Wants[tx.from])
    BY <1>3, <1>9 DEF Handled
  <2>2. tick' = tick
    BY <2>1 DEF DeployTx
  <2>3. Next
    BY <1>2, <2>1 DEF Next, UploadStep
  <2> QED
    BY <1>1, <1>3, <1>6, <1>9, <2>1, <2>2, <2>3 DEF Delivery, code
<1> QED
  BY <1>2, <1>7, <1>8, <1>9

TickPasses ==
  /\ tick' = tick + 1 /\ UNCHANGED <<client, verdicts, upload, lastDeploy, slotMeta>>
  /\ IsFiniteSet(mempool') /\ mempool' \subseteq mempool
  /\ \A tx \in mempool' : tx.tick > tick
  /\ losses' \in [Sessions -> 0 .. MaxLosses] /\ \A c \in Sessions : losses'[c] >= losses[c]
  /\ \A c \in Sessions : client[c].pc \in Running => tick < Deadline(c)

LEMMA TickMoves == ASSUME TypesInv, Tick PROVE TickPasses /\ Next
<1> DEFINE gone == {tx \in mempool : tx.tick <= tick}
           sum(c) == losses[c] + Cardinality({tx \in gone : tx.from = c})
<1>1. /\ NextTick /\ mempool' = mempool \ gone /\ UNCHANGED <<client, verdicts>>
      /\ losses' = [c \in Sessions |-> sum(c)]
      /\ \A c \in Sessions : client[c].pc \in Running => tick < Deadline(c)
      /\ \A c \in Sessions : [d \in Sessions |-> sum(d)][c] <= MaxLosses
  BY DEF Tick
<1>2. /\ mempool \subseteq Tx /\ IsFiniteSet(mempool) /\ tick \in Nat
      /\ losses \in [Sessions -> 0 .. MaxLosses]
  BY DEF TypesInv, MempoolType, DeployInv, TypeOK, ClientsType
<1>3. \A tx \in mempool' : tx.tick > tick
  BY <1>1, <1>2 DEF Tx
<1>4. IsFiniteSet(mempool')
  BY <1>1, <1>2, FS_Subset
<1>5. ASSUME NEW c \in Sessions PROVE sum(c) \in 0 .. MaxLosses /\ sum(c) >= losses[c]
  <2>1. IsFiniteSet({tx \in gone : tx.from = c})
    BY <1>2, FS_Subset
  <2>2. Cardinality({tx \in gone : tx.from = c}) \in Nat
    BY <2>1, FS_CardinalityType
  <2>3. sum(c) <= MaxLosses
    BY <1>1
  <2> QED
    BY <1>2, <2>2, <2>3, ClientConstants
<1> HIDE DEF sum
<1>6. losses' \in [Sessions -> 0 .. MaxLosses] /\ \A c \in Sessions : losses'[c] >= losses[c]
  BY <1>1, <1>5
<1>7. tick' = tick + 1 /\ UNCHANGED <<upload, lastDeploy, slotMeta>>
  BY <1>1 DEF NextTick
<1> QED
  BY <1>1, <1>3, <1>4, <1>6, <1>7 DEF TickPasses, Next

(***************************************************************************)
(* The clients only do what any sender may do to the node.                 *)
(***************************************************************************)

\* The steps of a client, with all that is known of each.
LEMMA ClientCases ==
  ASSUME TypesInv, ClientNext
  PROVE  \/ \E tx \in mempool : Deliver(tx)
         \/ Tick
         \/ \E c \in Sessions : Crash(c) \/ SendBegin(c) \/ SendChunks(c) \/ SendDeploy(c)
              \/ PollArmed(c) \/ PollUnarmed(c) \/ PollFails(c)
         \/ \E c \in Sessions, read \in BOOLEAN :
              Preflight(c, read) \/ Watch(c, read) \/ CheckClaim(c, read) \/ Assemble(c, read)
BY DEF ClientNext, Handle, Step

LEMMA StepMoves ==
  ASSUME TypesInv, NEW c \in Sessions, Step(c) \/ Crash(c)
  PROVE  Moves(c) /\ Looks /\ \E kind \in {"begin", "chunk", "deploy"} : Sends(c, kind)
<1>1. MempoolType
  BY DEF TypesInv
<1>2. CASE SendBegin(c)
  BY <1>2, SendBeginMoves
<1>3. CASE SendChunks(c)
  BY <1>3, SendChunksMoves
<1>4. CASE SendDeploy(c)
  BY <1>4, SendDeployMoves
<1>5. CASE PollArmed(c)
  BY <1>1, <1>5, PollArmedMoves, SaysNothing
<1>6. CASE PollUnarmed(c)
  BY <1>6, PollUnarmedMoves
<1>7. CASE PollFails(c)
  BY <1>1, <1>7, PollFailsMoves, SaysNothing
<1>8. CASE Crash(c)
  BY <1>1, <1>8, CrashMoves, SaysNothing
<1>9. ASSUME NEW read \in BOOLEAN, Preflight(c, read) PROVE Moves(c) /\ Looks /\ Sends(c, "begin")
  BY <1>1, <1>9, PreflightMoves, SaysNothing
<1>10. ASSUME NEW read \in BOOLEAN, Watch(c, read) PROVE Moves(c) /\ Looks /\ Sends(c, "begin")
  BY <1>1, <1>10, WatchMoves, SaysNothing
<1>11. ASSUME NEW read \in BOOLEAN, CheckClaim(c, read) PROVE Moves(c) /\ Looks /\ Sends(c, "begin")
  BY <1>1, <1>11, CheckClaimMoves, SaysNothing
<1>12. ASSUME NEW read \in BOOLEAN, Assemble(c, read) PROVE Moves(c) /\ Looks /\ Sends(c, "chunk")
  BY <1>12, AssembleMoves
<1> QED
  BY <1>2, <1>3, <1>4, <1>5, <1>6, <1>7, <1>8, <1>9, <1>10, <1>11, <1>12 DEF Step

LEMMA ClientStepIsStep == TypesInv /\ [ClientNext]_allVars => [Next]_vars
<1> SUFFICES ASSUME TypesInv, [ClientNext]_allVars PROVE [Next]_vars
  OBVIOUS
<1>1. ASSUME NEW tx \in mempool, Deliver(tx) PROVE [Next]_vars
  BY <1>1, DeliverMoves
<1>2. CASE Tick
  BY <1>2, TickMoves
<1>3. ASSUME NEW c \in Sessions, Step(c) \/ Crash(c) PROVE [Next]_vars
  BY <1>3, StepMoves, LooksIsStep
<1>4. CASE UNCHANGED allVars
  BY <1>4 DEF allVars
<1> QED
  BY <1>1, <1>2, <1>3, <1>4 DEF ClientNext, Handle

LEMMA TypesInductive == TypesInv /\ [ClientNext]_allVars => TypesInv'
<1> SUFFICES ASSUME TypesInv, [ClientNext]_allVars PROVE TypesInv'
  OBVIOUS
<1>1. DeployInv'
  BY ClientStepIsStep, DeployInductive DEF TypesInv
<1>2. /\ mempool \subseteq Tx /\ IsFiniteSet(mempool) /\ tick \in Nat
      /\ \A tx \in mempool : tx.tick >= tick /\ (tx.kind = "chunk" => tx.seq \in Chunks)
      /\ ClientsType
  BY DEF TypesInv, MempoolType, DeployInv, TypeOK
<1>3. ASSUME NEW tx \in mempool, Deliver(tx) PROVE ClientsType' /\ MempoolType'
  <2>1. Delivery(tx)
    BY <1>3, DeliverMoves
  <2>2. IsFiniteSet(mempool')
    BY <1>2, <2>1, FS_Subset DEF Delivery
  <2> QED
    BY <1>2, <2>1, <2>2 DEF Delivery, ClientsType, MempoolType
<1>4. ASSUME Tick PROVE ClientsType' /\ MempoolType'
  <2>1. TickPasses
    BY <1>4, TickMoves
  <2> QED
    BY <1>2, <2>1 DEF TickPasses, ClientsType, MempoolType, Tx
<1>5. ASSUME NEW c \in Sessions, Step(c) \/ Crash(c) PROVE ClientsType' /\ MempoolType'
  <2>1. Moves(c) /\ Looks
    BY <1>5, StepMoves
  <2>2. PICK kind \in {"begin", "chunk", "deploy"} : Sends(c, kind)
    BY <1>5, StepMoves
  <2>3. ClientsType'
    BY <1>2, <2>1 DEF Moves, ClientsType
  <2>4. tick' = tick
    BY <2>1 DEF Looks
  <2>5. ASSUME NEW tx \in mempool'
        PROVE  tx \in Tx /\ tx.tick >= tick /\ (tx.kind = "chunk" => tx.seq \in Chunks)
    BY <1>2, <2>2, <2>5 DEF Sends, Tx
  <2> QED
    BY <2>2, <2>3, <2>4, <2>5 DEF MempoolType, Sends
<1>6. ASSUME UNCHANGED allVars PROVE ClientsType' /\ MempoolType'
  BY <1>2, <1>6 DEF allVars, clientVars, vars, ClientsType, MempoolType
<1> QED
  BY <1>1, <1>3, <1>4, <1>5, <1>6 DEF TypesInv, ClientNext, Handle

LEMMA TypesInit == ClientInit => TypesInv
<1> SUFFICES ASSUME ClientInit PROVE TypesInv
  OBVIOUS
<1>1. DeployInv
  BY DeployInit DEF ClientInit
<1>2. IsFiniteSet(mempool) /\ mempool = {}
  BY FS_EmptySet DEF ClientInit
<1>3. Resting("start") \in Client /\ Resting("start").pc = "start"
  BY RestingType DEF Resting, Running
<1> QED
  BY <1>1, <1>2, <1>3, ClientConstants DEF ClientInit, TypesInv, ClientsType, MempoolType

LEMMA ClientSteps == ClientSpec => ClientInit /\ [][ClientNext]_allVars
BY PTL DEF ClientSpec

\* The clients' protocol is one way of using the node of Deployments: whatever the
\* clients and the network do, the node takes steps that module allows.
THEOREM ClientsUseTheNode == ClientSpec => Spec
<1>1. ClientInit => Init
  BY DEF ClientInit
<1> QED
  BY <1>1, ClientSteps, TypesInit, TypesInductive, ClientStepIsStep, PTL DEF Spec

\* The type invariant of the clients: no transaction is for a tick that is past.
THEOREM ClientTypeCorrect == ClientSpec => []ClientTypeOK
<1>1. TypesInv => ClientTypeOK
  BY DEF TypesInv, ClientsType, MempoolType, ClientTypeOK, Client
<1> QED
  BY <1>1, ClientSteps, TypesInit, TypesInductive, PTL

(***************************************************************************)
(* What a client has broadcast, and what the node knows of it, fits the    *)
(* phase it is in: no BEGIN is left when the DEPLOY is sent.               *)
(***************************************************************************)

Sent(c, kind) == \E tx \in mempool : tx.from = c /\ tx.kind = kind
Deployed(c) == Sent(c, "deploy") \/ verdicts[c] # {}
Holds(c) == upload # None /\ upload.session = c
BeginsBy(c, t) == \A tx \in mempool : tx.from = c /\ tx.kind = "begin" => tx.tick <= t

Early == {"start", "watching", "claiming", "checking"}
Undeployed ==
  Early \cup {"sending", "assembling", "arming", "busy", "unclaimed", "unsent", "uncounted"}

PhaseOf(c) ==
  /\ client[c].pc \in {"start", "watching", "arming", "confirming", "armed"} => ~Sent(c, "begin")
  /\ client[c].pc \in Undeployed => ~Deployed(c)
  /\ client[c].pc = "sending" => BeginsBy(c, client[c].txTick)
  /\ client[c].pc = "assembling" => BeginsBy(c, client[c].until - 1)
  /\ Deployed(c) => ~Sent(c, "begin")
  /\ BeginsBy(c, tick + TxTickOffset)

PhaseInv == TypesInv /\ \A c \in Sessions : PhaseOf(c)

\* A client that does not move, while its transactions only become fewer.
LEMMA PhaseStays ==
  ASSUME TypesInv, NEW c \in Sessions, PhaseOf(c), client'[c] = client[c],
         \A tx \in mempool' : tx.from = c => tx \in mempool,
         verdicts'[c] # {} => Deployed(c), tick' \in {tick, tick + 1}
  PROVE  PhaseOf(c)'
<1>1. /\ tick \in Nat /\ mempool \subseteq Tx /\ client[c] \in Client /\ tick' >= tick
      /\ tick' \in Nat
  BY NodeNow DEF TypesInv, MempoolType
<1>2. /\ Sent(c, "begin")' => Sent(c, "begin")
      /\ Deployed(c)' => Deployed(c)
  BY DEF Sent, Deployed
<1>3. ASSUME NEW t \in Int, BeginsBy(c, t), NEW u \in Int, t <= u PROVE
        \A tx \in mempool' : tx.from = c /\ tx.kind = "begin" => tx.tick <= u
  BY <1>1, <1>3 DEF BeginsBy, Tx
<1>4. BeginsBy(c, tick + TxTickOffset)'
  BY <1>1, <1>3, ClientConstants DEF PhaseOf, BeginsBy
<1>5. client[c].pc = "sending" => BeginsBy(c, client[c].txTick)'
  BY <1>1, <1>3 DEF PhaseOf, BeginsBy, Client
<1>6. client[c].pc = "assembling" => BeginsBy(c, client[c].until - 1)'
  BY <1>1, <1>3 DEF PhaseOf, BeginsBy, Client
<1> QED
  BY <1>2, <1>4, <1>5, <1>6 DEF PhaseOf

\* The same for the client that moves: what it sent before, and its new transactions.
LEMMA SentByMover ==
  ASSUME TypesInv, NEW c \in Sessions, NEW kind, Moves(c), Looks, Sends(c, kind)
  PROVE  /\ tick' = tick /\ tick \in Nat /\ client[c] \in Client /\ client'[c] \in Client
         /\ kind # "begin" => /\ Sent(c, "begin")' <=> Sent(c, "begin")
                              /\ \A t \in Int : BeginsBy(c, t) =>
                                   \A tx \in mempool' :
                                     tx.from = c /\ tx.kind = "begin" => tx.tick <= t
         /\ kind # "deploy" => (Deployed(c)' <=> Deployed(c))
         /\ BeginsBy(c, tick + TxTickOffset) => BeginsBy(c, tick + TxTickOffset)'
<1>1. tick' = tick /\ tick \in Nat /\ client[c] \in Client /\ client'[c] \in Client
  BY NodeNow DEF Looks, Moves
<1>2. kind # "begin" => /\ Sent(c, "begin")' <=> Sent(c, "begin")
                        /\ \A t \in Int : BeginsBy(c, t) => 
                             \A tx \in mempool' : tx.from = c /\ tx.kind = "begin" => tx.tick <= t
  BY DEF Sends, Sent, BeginsBy
<1>3. kind # "deploy" => (Deployed(c)' <=> Deployed(c))
  BY DEF Sends, Sent, Deployed, Moves
<1>4. BeginsBy(c, tick + TxTickOffset) => BeginsBy(c, tick + TxTickOffset)'
  <2> SUFFICES ASSUME BeginsBy(c, tick + TxTickOffset), NEW tx \in mempool',
                      tx.from = c, tx.kind = "begin"
               PROVE  tx.tick <= tick + TxTickOffset
    BY <1>1 DEF BeginsBy
  <2>1. CASE tx \in mempool
    BY <2>1 DEF BeginsBy
  <2>2. CASE tx \notin mempool
    BY <1>1, <2>2, ClientConstants DEF Sends
  <2> QED
    BY <2>1, <2>2
<1> QED
  BY <1>1, <1>2, <1>3, <1>4

LEMMA PhaseMoves ==
  ASSUME TypesInv, NEW c \in Sessions, PhaseOf(c), Step(c) \/ Crash(c)
  PROVE  PhaseOf(c)'
<1>1. MempoolType /\ tick \in Nat /\ client[c] \in Client /\ mempool \subseteq Tx
  BY NodeNow DEF TypesInv, MempoolType
<1>2. ASSUME NEW read \in BOOLEAN, Preflight(c, read) PROVE PhaseOf(c)'
  <2>1. Sends(c, "chunk")
    BY <1>1, <1>2, PreflightMoves, SaysNothing
  <2>2. Moves(c) /\ Looks /\ client[c].pc = "start" /\ client'[c].pc \in {"claiming", "watching"}
    BY <1>2, PreflightMoves DEF ClaimingNow
  <2> QED
    BY <2>1, <2>2, SentByMover DEF PhaseOf, Undeployed, Early
<1>3. ASSUME NEW read \in BOOLEAN, Watch(c, read) PROVE PhaseOf(c)'
  <2>1. Sends(c, "chunk")
    BY <1>1, <1>3, WatchMoves, SaysNothing
  <2>2. /\ Moves(c) /\ Looks /\ client[c].pc = "watching"
        /\ client'[c].pc \in {"claiming", "watching", "busy"}
    BY <1>3, WatchMoves DEF ClaimingNow
  <2> QED
    BY <2>1, <2>2, SentByMover DEF PhaseOf, Undeployed, Early
<1>4. CASE SendBegin(c)
  <2>1. /\ Moves(c) /\ Looks /\ Sends(c, "begin") /\ client[c].pc = "claiming"
        /\ client'[c].pc = "checking"
    BY <1>4, SendBeginMoves
  <2> QED
    BY <2>1, SentByMover DEF PhaseOf, Undeployed, Early
<1>5. ASSUME NEW read \in BOOLEAN, CheckClaim(c, read) PROVE PhaseOf(c)'
  <2>1. Sends(c, "chunk")
    BY <1>1, <1>5, CheckClaimMoves, SaysNothing
  <2>2. /\ Moves(c) /\ Looks /\ client[c].pc = "checking"
        /\ \/ client'[c].pc \in {"claiming", "busy", "unclaimed"}
           \/ client'[c].pc = "sending" /\ client'[c].txTick = tick + TxTickOffset
    BY <1>5, CheckClaimMoves
  <2> QED
    BY <1>1, <2>1, <2>2, SentByMover, ClientConstants DEF PhaseOf, Undeployed, Early, BeginsBy
<1>6. CASE SendChunks(c)
  <2>1. /\ Moves(c) /\ Looks /\ Sends(c, "chunk") /\ client[c].pc = "sending"
        /\ \/ client'[c].pc = "assembling" /\ client'[c].until = client[c].txTick + 1
           \/ client'[c].pc \in {"uncounted", "unsent"}
           \/ client'[c].pc = "sending" /\ client'[c].txTick = client[c].txTick
    BY <1>6, SendChunksMoves
  <2>2. client[c].txTick \in Nat /\ client[c].txTick + 1 - 1 = client[c].txTick
    BY <1>1 DEF Client
  <2>3. /\ ~Deployed(c)'
        /\ BeginsBy(c, tick + TxTickOffset)'
        /\ \A tx \in mempool' : tx.from = c /\ tx.kind = "begin" => tx.tick <= client[c].txTick
    BY <2>1, <2>2, SentByMover DEF PhaseOf, Undeployed, Early
  <2>4. CASE client'[c].pc = "assembling" /\ client'[c].until = client[c].txTick + 1
    <3>1. BeginsBy(c, client[c].until - 1)'
      BY <2>2, <2>3, <2>4 DEF BeginsBy
    <3> QED
      BY <2>3, <2>4, <3>1 DEF PhaseOf
  <2>5. CASE client'[c].pc \in {"uncounted", "unsent"}
    BY <2>3, <2>5 DEF PhaseOf
  <2>6. CASE client'[c].pc = "sending" /\ client'[c].txTick = client[c].txTick
    <3>1. BeginsBy(c, client[c].txTick)'
      BY <2>3, <2>6 DEF BeginsBy
    <3> QED
      BY <2>3, <2>6, <3>1 DEF PhaseOf
  <2> QED
    BY <2>1, <2>4, <2>5, <2>6
<1>7. ASSUME NEW read \in BOOLEAN, Assemble(c, read) PROVE PhaseOf(c)'
  <2>1. /\ Moves(c) /\ Looks /\ Sends(c, "chunk") /\ client[c].pc = "assembling"
        /\ tick >= client[c].until
        /\ client'[c].pc \in {"busy", "threw", "arming", "assembling"}
    BY <1>7, AssembleMoves DEF AssembleResult
  <2>2. ~Sent(c, "begin")
    BY <1>1, <2>1 DEF PhaseOf, Sent, BeginsBy, MempoolType, Tx, Client
  <2>3. /\ ~Deployed(c)' /\ ~Sent(c, "begin")' /\ BeginsBy(c, tick + TxTickOffset)'
    BY <2>1, <2>2, SentByMover DEF PhaseOf, Undeployed, Early
  <2>4. BeginsBy(c, client[c].until - 1)'
    BY <2>3 DEF BeginsBy, Sent
  <2> QED
    BY <2>1, <2>3, <2>4 DEF PhaseOf
<1>8. CASE SendDeploy(c)
  <2>1. /\ Moves(c) /\ Looks /\ Sends(c, "deploy") /\ client[c].pc = "arming"
        /\ client'[c].pc \in {"threw", "confirming"}
    BY <1>8, SendDeployMoves
  <2> QED
    BY <2>1, SentByMover DEF PhaseOf, Undeployed, Early
<1>9. CASE PollArmed(c)
  <2>1. /\ Moves(c) /\ Looks /\ Sends(c, "chunk") /\ client[c].pc \in {"confirming", "armed"}
        /\ client'[c].pc \in {"ok", "armed"}
    BY <1>1, <1>9, PollArmedMoves, SaysNothing
  <2> QED
    BY <2>1, SentByMover DEF PhaseOf, Undeployed, Early
<1>10. CASE PollUnarmed(c)
  <2>1. /\ Moves(c) /\ Looks /\ Sends(c, "deploy") /\ client[c].pc \in {"confirming", "armed"}
        /\ client'[c].pc \in {"ok", "refused", "unarmed", "confirming", "armed"}
    BY <1>10, PollUnarmedMoves DEF PollResult, Resends, Polled
  <2> QED
    BY <2>1, SentByMover DEF PhaseOf, Undeployed, Early
<1>11. CASE PollFails(c)
  <2>1. /\ Moves(c) /\ Looks /\ Sends(c, "chunk") /\ client[c].pc \in {"confirming", "armed"}
        /\ client'[c].pc \in {"ok", "unarmed", "confirming", "armed"}
    BY <1>1, <1>11, PollFailsMoves, SaysNothing DEF Polled
  <2> QED
    BY <2>1, SentByMover DEF PhaseOf, Undeployed, Early
<1>12. CASE Crash(c)
  <2>1. /\ Moves(c) /\ Looks /\ Sends(c, "chunk") /\ client'[c].pc = "crashed"
    BY <1>1, <1>12, CrashMoves, SaysNothing
  <2> QED
    BY <2>1, SentByMover DEF PhaseOf, Undeployed, Early
<1> QED
  BY <1>2, <1>3, <1>4, <1>5, <1>6, <1>7, <1>8, <1>9, <1>10, <1>11, <1>12 DEF Step

LEMMA PhaseInductive == PhaseInv /\ [ClientNext]_allVars => PhaseInv'
<1> SUFFICES ASSUME PhaseInv, [ClientNext]_allVars PROVE PhaseInv'
  OBVIOUS
<1>1. TypesInv /\ TypesInv'
  BY TypesInductive DEF PhaseInv
<1>2. ASSUME NEW c \in Sessions, NEW tx \in mempool, Deliver(tx) PROVE PhaseOf(c)'
  <2>1. /\ client'[c] = client[c] /\ mempool' = mempool \ {tx} /\ tick' = tick
        /\ (tx.kind = "deploy" /\ tx.from = c) \/ verdicts'[c] = verdicts[c]
    BY <1>1, <1>2, DeliverMoves DEF Delivery
  <2>2. verdicts'[c] # {} => Deployed(c)
    BY <2>1 DEF Deployed, Sent
  <2> QED
    BY <1>1, <2>1, <2>2, PhaseStays DEF PhaseInv
<1>3. ASSUME NEW c \in Sessions, Tick PROVE PhaseOf(c)'
  <2>1. TickPasses
    BY <1>1, <1>3, TickMoves
  <2>2. /\ client'[c] = client[c] /\ (\A tx \in mempool' : tx.from = c => tx \in mempool)
        /\ (verdicts'[c] # {} => Deployed(c)) /\ tick' \in {tick, tick + 1}
    BY <2>1 DEF TickPasses, Deployed
  <2> QED
    BY <1>1, <2>2, PhaseStays DEF PhaseInv
<1>4. ASSUME NEW c \in Sessions, NEW d \in Sessions, Step(d) \/ Crash(d) PROVE PhaseOf(c)'
  <2>1. CASE d = c
    BY <1>1, <1>4, <2>1, PhaseMoves DEF PhaseInv
  <2>2. CASE d # c
    <3>1. Moves(d) /\ Looks
      BY <1>1, <1>4, StepMoves
    <3>2. PICK kind \in {"begin", "chunk", "deploy"} : Sends(d, kind)
      BY <1>1, <1>4, StepMoves
    <3>3. /\ client'[c] = client[c] /\ (\A tx \in mempool' : tx.from = c => tx \in mempool)
          /\ (verdicts'[c] # {} => Deployed(c)) /\ tick' = tick
      BY <2>2, <3>1, <3>2 DEF Moves, Sends, Looks, Deployed
    <3> QED
      BY <1>1, <3>3, PhaseStays DEF PhaseInv
  <2> QED
    BY <2>1, <2>2
<1>5. ASSUME NEW c \in Sessions, UNCHANGED allVars PROVE PhaseOf(c)'
  <2>1. /\ client'[c] = client[c] /\ (\A tx \in mempool' : tx.from = c => tx \in mempool)
        /\ (verdicts'[c] # {} => Deployed(c)) /\ tick' = tick
    BY <1>5 DEF allVars, clientVars, vars, Deployed
  <2> QED
    BY <1>1, <2>1, PhaseStays DEF PhaseInv
<1> QED
  BY <1>1, <1>2, <1>3, <1>4, <1>5 DEF PhaseInv, ClientNext, Handle

LEMMA PhaseInit == ClientInit => PhaseInv
<1> SUFFICES ASSUME ClientInit PROVE PhaseInv
  OBVIOUS
<1>1. TypesInv
  BY TypesInit
<1>2. ASSUME NEW c \in Sessions PROVE PhaseOf(c)
  BY DEF ClientInit, PhaseOf, Sent, Deployed, BeginsBy, Resting
<1> QED
  BY <1>1, <1>2 DEF PhaseInv

(***************************************************************************)
(* The node's upload session: only a BEGIN opens it.                       *)
(***************************************************************************)

Opens(tx) ==
  upload' = [session |-> tx.from, announced |-> Wants[tx.from],
             bytes |-> [q \in Chunks |-> None], lastProgressTick |-> tick]

LEMMA LooksKeepsHolder ==
  ASSUME Looks, upload # None => upload \in Upload
  PROVE  upload' = upload \/ (upload' = None /\ IsStale)
BY DEF Looks, LiveUpload

LEMMA BeginDelivered ==
  ASSUME NEW tx, tx.kind = "begin", Delivery(tx)
  PROVE  /\ verdicts' = verdicts \/ (verdicts' \in [Sessions -> SUBSET Codes])
         /\ \/ upload' = upload /\ upload # None
            \/ Opens(tx) /\ (upload = None \/ IsStale)
         /\ UNCHANGED <<slotMeta, lastDeploy>>
BY DEF Delivery, UploadBegin, LiveUpload, Opens, slotVars

LEMMA ChunkDelivered ==
  ASSUME TypesInv, NEW tx, tx.kind = "chunk", Delivery(tx)
  PROVE  /\ UNCHANGED <<slotMeta, lastDeploy>>
         /\ \/ upload' = upload
            \/ /\ upload # None /\ upload.session = tx.from /\ tx.seq \in Chunks
               /\ upload.bytes[tx.seq] = None
               /\ upload' = [upload EXCEPT !.bytes = [upload.bytes EXCEPT ![tx.seq] = Wants[tx.from]],
                                           !.lastProgressTick = tick]
<1>1. upload # None => upload \in Upload
  BY DEF TypesInv, DeployInv, TypeOK
<1>2. CASE UNCHANGED vars
  BY <1>2 DEF vars, slotVars
<1>3. CASE tx.seq \in Chunks /\ UploadChunk(tx.from, tx.seq, Wants[tx.from])
  BY <1>1, <1>3 DEF UploadChunk, ChunkRefused, Upload, slotVars
<1> QED
  BY <1>2, <1>3 DEF Delivery

LEMMA DeployDelivered ==
  ASSUME NEW tx, tx.kind = "deploy", Delivery(tx)
  PROVE  LET code == Verdict(tx.from, Target[tx.from], TRUE, Wants[tx.from]) IN
         /\ verdicts'[tx.from] = verdicts[tx.from] \cup {code}
         /\ lastDeploy' = Recorded(tx.from, Target[tx.from], code)
         /\ upload' = IF code \in {"ok", "load-failed", "not-wasm"} THEN None ELSE upload
         /\ code = "ok" => Described(Target[tx.from], Wants[tx.from])
         /\ code # "ok" => slotMeta' = slotMeta
BY DEF Delivery, DeployTx, Load, FailToLoad, slotVars

\* A session gets the slot only by a BEGIN of its own.
LEMMA OpenedByBegin ==
  ASSUME TypesInv, [ClientNext]_allVars, NEW c \in Sessions, Holds(c)', ~Holds(c)
  PROVE  /\ Sent(c, "begin") /\ upload'.lastProgressTick = tick /\ tick' = tick
         /\ UNCHANGED <<client, losses, verdicts>> /\ mempool' \subseteq mempool
         /\ upload'.announced = Wants[c] /\ upload'.bytes = [q \in Chunks |-> None]
         /\ UNCHANGED <<slotMeta, lastDeploy>>
         /\ upload = None \/ IsStale
<1> DEFINE Goal ==
      /\ Sent(c, "begin") /\ upload'.lastProgressTick = tick /\ tick' = tick
      /\ UNCHANGED <<client, losses, verdicts>> /\ mempool' \subseteq mempool
      /\ upload'.announced = Wants[c] /\ upload'.bytes = [q \in Chunks |-> None]
      /\ UNCHANGED <<slotMeta, lastDeploy>>
      /\ upload = None \/ IsStale
<1> SUFFICES Goal
  OBVIOUS
<1>1. upload # None => upload \in Upload
  BY DEF TypesInv, DeployInv, TypeOK
<1>2. upload' # upload /\ upload' # None
  BY DEF Holds
<1>3. ASSUME NEW tx \in mempool, Deliver(tx) PROVE Goal
  <2>1. Delivery(tx)
    BY <1>3, DeliverMoves
  <2>2. CASE tx.kind = "begin"
    <3>1. Opens(tx) /\ (upload = None \/ IsStale) /\ UNCHANGED <<slotMeta, lastDeploy>>
      BY <1>2, <2>1, <2>2, BeginDelivered
    <3>2. tx.from = c
      BY <3>1 DEF Opens, Holds
    <3>3. verdicts' = verdicts
      BY <2>1, <2>2 DEF Delivery, TypesInv, ClientsType
    <3> QED
      BY <2>1, <2>2, <3>1, <3>2, <3>3 DEF Delivery, Opens, Sent
  <2>3. CASE tx.kind = "chunk"
    BY <1>1, <2>1, <2>3, ChunkDelivered DEF Holds, Upload
  <2>4. CASE tx.kind = "deploy"
    BY <1>2, <2>1, <2>4, DeployDelivered
  <2> QED
    BY <2>1, <2>2, <2>3, <2>4 DEF Delivery
<1>4. ASSUME Tick PROVE Goal
  BY <1>2, <1>4, TickMoves DEF TickPasses
<1>5. ASSUME NEW d \in Sessions, Step(d) \/ Crash(d) PROVE Goal
  <2>1. Looks
    BY <1>5, StepMoves
  <2> QED
    BY <1>1, <1>2, <2>1, LooksKeepsHolder
<1>6. ASSUME UNCHANGED allVars PROVE Goal
  BY <1>2, <1>6 DEF allVars, vars
<1> QED
  BY <1>3, <1>4, <1>5, <1>6 DEF ClientNext, Handle

\* A verdict is only given on a DEPLOY.
LEMMA VerdictGiven ==
  ASSUME TypesInv, [ClientNext]_allVars, NEW c \in Sessions, verdicts'[c] # verdicts[c]
  PROVE  \E tx \in mempool :
           tx.kind = "deploy" /\ tx.from = c /\ Delivery(tx)
<1>1. ASSUME NEW tx \in mempool, Deliver(tx) PROVE tx.kind = "deploy" /\ tx.from = c /\ Delivery(tx)
  BY <1>1, DeliverMoves DEF Delivery
<1>2. ASSUME Tick PROVE FALSE
  BY <1>2, TickMoves DEF TickPasses
<1>3. ASSUME NEW d \in Sessions, Step(d) \/ Crash(d) PROVE FALSE
  BY <1>3, StepMoves DEF Moves
<1>4. ASSUME UNCHANGED allVars PROVE FALSE
  BY <1>4 DEF allVars, clientVars
<1> QED
  BY <1>1, <1>2, <1>3, <1>4 DEF ClientNext, Handle

ClosedInv == PhaseInv /\ \A c \in Sessions : "ok" \in verdicts[c] => ~Holds(c)

LEMMA ClosedInductive == ClosedInv /\ [ClientNext]_allVars => ClosedInv'
<1> SUFFICES ASSUME ClosedInv, [ClientNext]_allVars PROVE ClosedInv'
  OBVIOUS
<1>1. PhaseInv /\ PhaseInv' /\ TypesInv
  BY PhaseInductive DEF ClosedInv, PhaseInv
<1>2. ASSUME NEW c \in Sessions, "ok" \in verdicts'[c], Holds(c)' PROVE FALSE
  <2>1. CASE "ok" \in verdicts[c]
    <3>1. ~Holds(c) /\ Deployed(c)
      BY <2>1 DEF ClosedInv, Deployed
    <3>2. Sent(c, "begin")
      BY <1>1, <1>2, <3>1, OpenedByBegin
    <3> QED
      BY <1>1, <3>1, <3>2 DEF PhaseInv, PhaseOf
  <2>2. CASE "ok" \notin verdicts[c]
    <3>1. PICK tx \in mempool : tx.kind = "deploy" /\ tx.from = c /\ Delivery(tx)
      BY <1>1, <1>2, <2>2, VerdictGiven
    <3>2. upload' = None
      BY <1>2, <2>2, <3>1, DeployDelivered
    <3> QED
      BY <1>2, <3>2 DEF Holds
  <2> QED
    BY <2>1, <2>2
<1> QED
  BY <1>1, <1>2 DEF ClosedInv

LEMMA ClosedInit == ClientInit => ClosedInv
BY PhaseInit DEF ClosedInv, ClientInit

\* A BEGIN that is repeated, or late, never opens a session again that its DEPLOY
\* has closed, for any number of clients, retries and losses, and however late the
\* clients run.
THEOREM ClosedSessionsStayClosed == ClientSpec => []ClosedStaysClosed
<1>1. ClosedInv => ClosedStaysClosed
  BY DEF ClosedInv, ClosedStaysClosed, Holds, PhaseInv, TypesInv, DeployInv, TypeOK, Upload
<1> QED
  BY <1>1, ClientSteps, ClosedInit, ClosedInductive, PTL

(***************************************************************************)
(* A session outlives the retries of its own BEGIN, so it is opened once.  *)
(***************************************************************************)

\* From one BEGIN of a client to its next.
ClaimRound == TxTickOffset + 1 + 2 * Lag
Rounds(n) == n * ClaimRound

\* With the code's three retries, three ticks ahead and 32 ticks before a session is
\* stale, this is so for clients that run up to two ticks late.
RetriesFitASession == Rounds(Retries + 1) <= StaleTicks

LEMMA RoundsType ==
  /\ ClaimRound \in Nat
  /\ \A n \in Nat : Rounds(n) \in Nat /\ Rounds(n + 1) = Rounds(n) + ClaimRound
  /\ \A m, n \in Nat : m <= n => Rounds(m) <= Rounds(n)
<1>1. ClaimRound \in Nat
  BY ClientConstants DEF ClaimRound
<1> HIDE DEF ClaimRound
<1>2. \A n \in Nat : Rounds(n) \in Nat /\ Rounds(n + 1) = Rounds(n) + ClaimRound
  BY <1>1 DEF Rounds
<1>3. ASSUME NEW m \in Nat, NEW n \in Nat, m <= n PROVE Rounds(m) <= Rounds(n)
  <2>1. (n - m) \in Nat /\ n * ClaimRound = m * ClaimRound + (n - m) * ClaimRound
    BY <1>1, <1>3
  <2>2. (n - m) * ClaimRound \in Nat /\ m * ClaimRound \in Nat
    BY <1>1, <2>1
  <2> QED
    BY <2>1, <2>2 DEF Rounds
<1> QED
  BY <1>1, <1>2, <1>3

Past == {"sending", "assembling", "arming", "confirming", "armed"}
Prompt == {"claiming", "checking", "confirming", "armed"}
Limit == upload.lastProgressTick + StaleTicks

\* Claiming and checking clients are in time, and their next BEGINs will be handled
\* before the session they have could expire.
ClaimOf(c) ==
  /\ client[c].pc \in Prompt => tick <= client[c].until + Lag
  /\ client[c].pc \in {"start", "watching"} => ~Holds(c)
  /\ client[c].pc = "claiming" =>
       \/ client[c].tries = 0 /\ ~Holds(c) /\ ~Sent(c, "begin")
       \/ client[c].tries >= 1 /\ client[c].until <= tick
  /\ client[c].pc \in {"claiming", "checking"} => client[c].tries <= Retries
  /\ client[c].pc = "checking" => client[c].until <= tick + TxTickOffset + 1

RoundsLeft(c) ==
  /\ client[c].pc = "claiming" =>
       client[c].until + Lag + Rounds(Retries - client[c].tries + 1) <= Limit
  /\ client[c].pc = "checking" =>
       client[c].until + 2 * Lag + Rounds(Retries - client[c].tries) <= Limit
  /\ BeginsBy(c, Limit)

FitOf(c) ==
  /\ ClaimOf(c)
  /\ Holds(c) => RoundsLeft(c)
  /\ client[c].pc \in Past \/ Deployed(c) => Holds(c) \/ ~Sent(c, "begin")

FitInv == ClosedInv /\ \A c \in Sessions : FitOf(c)

\* A session that has expired is not claimed any more.
LEMMA StaleHolder ==
  ASSUME TypesInv, NEW c \in Sessions, FitOf(c), Holds(c), IsStale
  PROVE  /\ ~Sent(c, "begin") /\ client[c].pc \notin Early
         /\ tick > Limit
<1>1. /\ tick \in Nat /\ client[c] \in Client /\ upload \in Upload
      /\ \A tx \in mempool : tx.tick \in Nat /\ tx.tick >= tick
  BY NodeNow DEF TypesInv, MempoolType, DeployInv, TypeOK, Holds, Tx
<1>2. /\ upload.lastProgressTick \in Nat /\ Limit \in Nat /\ tick > Limit
      /\ client[c].until \in Nat /\ client[c].tries \in Nat
  BY <1>1, DeploymentConstants DEF IsStale, IdleTicks, Upload, Limit, Client
<1>3. ~Sent(c, "begin")
  BY <1>1, <1>2 DEF FitOf, RoundsLeft, Sent, BeginsBy
<1>4. client[c].pc \notin {"start", "watching"}
  BY DEF FitOf, ClaimOf
<1>5. client[c].pc # "claiming"
  <2> SUFFICES ASSUME client[c].pc = "claiming" PROVE FALSE
    OBVIOUS
  <2>1. Retries - client[c].tries + 1 \in Nat
    BY <1>2, ClientConstants DEF FitOf, ClaimOf
  <2>2. Rounds(Retries - client[c].tries + 1) \in Nat
    BY <2>1, RoundsType
  <2> QED
    BY <1>1, <1>2, <2>2, ClientConstants DEF FitOf, ClaimOf, RoundsLeft, Prompt
<1>6. client[c].pc # "checking"
  <2> SUFFICES ASSUME client[c].pc = "checking" PROVE FALSE
    OBVIOUS
  <2>1. Retries - client[c].tries \in Nat
    BY <1>2, ClientConstants DEF FitOf, ClaimOf
  <2>2. Rounds(Retries - client[c].tries) \in Nat
    BY <2>1, RoundsType
  <2> QED
    BY <1>1, <1>2, <2>2, ClientConstants DEF FitOf, ClaimOf, RoundsLeft, Prompt
<1> QED
  BY <1>2, <1>3, <1>4, <1>5, <1>6 DEF Early

\* How a step of the system may change who holds the slot.
Keeps(c) == Holds(c) /\ Holds(c)' /\ upload'.lastProgressTick >= upload.lastProgressTick
Lacks(c) == ~Holds(c)' /\ (Holds(c) => ~Sent(c, "begin") /\ client[c].pc \notin Early)
Gains(c) ==
  /\ ~Holds(c) /\ Holds(c)' /\ Sent(c, "begin")
  /\ upload'.lastProgressTick = tick /\ tick' = tick

LEMMA HolderChanges ==
  ASSUME FitInv, [ClientNext]_allVars, NEW c \in Sessions
  PROVE  Keeps(c) \/ Lacks(c) \/ Gains(c)
<1>1. TypesInv /\ PhaseOf(c) /\ FitOf(c)
  BY DEF FitInv, ClosedInv, PhaseInv
<1>2. /\ tick \in Nat /\ (upload # None => upload \in Upload /\ upload.lastProgressTick <= tick)
      /\ (upload # None => upload.lastProgressTick \in Nat)
  BY <1>1 DEF TypesInv, DeployInv, TypeOK, Upload
<1>3. CASE ~Holds(c)
  <2>1. CASE Holds(c)'
    BY <1>1, <1>3, <2>1, OpenedByBegin DEF Gains
  <2>2. CASE ~Holds(c)'
    BY <1>3, <2>2 DEF Lacks
  <2> QED
    BY <2>1, <2>2
<1>4. CASE Holds(c)
  <2> DEFINE Goal == Keeps(c) \/ Lacks(c)
  <2>1. upload # None /\ upload \in Upload
    BY <1>2, <1>4 DEF Holds
  <2>2. upload' = upload => Goal
    BY <1>2, <1>4, <2>1 DEF Holds, Keeps
  <2>3. upload' = None /\ IsStale => Goal
    BY <1>1, <1>4, StaleHolder DEF Holds, Lacks
  <2>4. ASSUME NEW tx \in mempool, Deliver(tx) PROVE Goal
    <3>1. Delivery(tx)
      BY <1>1, <2>4, DeliverMoves
    <3>2. CASE tx.kind = "begin"
      <4>1. CASE IsStale
        <5>1. ~Sent(c, "begin") /\ client[c].pc \notin Early
          BY <1>1, <1>4, <4>1, StaleHolder
        <5>2. tx.from # c
          BY <3>2, <5>1 DEF Sent
        <5> QED
          BY <2>2, <3>1, <3>2, <5>1, <5>2, BeginDelivered DEF Opens, Holds, Lacks
      <4>2. CASE ~IsStale
        BY <2>1, <2>2, <3>1, <3>2, <4>2, BeginDelivered
      <4> QED
        BY <4>1, <4>2
    <3>3. CASE tx.kind = "chunk"
      <4>1. CASE upload' = upload
        BY <2>2, <4>1
      <4>2. CASE upload' # upload
        <5> DEFINE bytes == [upload.bytes EXCEPT ![tx.seq] = Wants[tx.from]]
        <5>1. upload' = [upload EXCEPT !.bytes = bytes, !.lastProgressTick = tick]
          BY <1>1, <3>1, <3>3, <4>2, ChunkDelivered
        <5>2. /\ upload'.session = upload.session /\ upload'.lastProgressTick = tick
              /\ upload' \in [session : Sessions, announced : Modules, bytes : {bytes},
                              lastProgressTick : Nat]
          BY <1>2, <2>1, <5>1 DEF Upload
        <5>3. TypesInv'
          BY <1>1, TypesInductive
        <5>4. upload' # None
          <6>1. bytes \in [Chunks -> Modules \cup {None}]
            <7>1. tx.from \in Sessions
              BY <1>1 DEF TypesInv, MempoolType, Tx
            <7> QED
              BY <2>1, <7>1, ClientConstants DEF Upload
          <6> HIDE DEF bytes
          <6>2. upload' \in Upload
            BY <5>2, <6>1 DEF Upload
          <6> QED
            BY <6>2, NoneIsNothing
        <5> QED
          BY <1>2, <1>4, <5>2, <5>4 DEF Holds, Keeps
      <4> QED
        BY <4>1, <4>2
    <3>4. CASE tx.kind = "deploy"
      <4> DEFINE code == Verdict(tx.from, Target[tx.from], TRUE, Wants[tx.from])
      <4>1. upload' = IF code \in {"ok", "load-failed", "not-wasm"} THEN None ELSE upload
        BY <3>1, <3>4, DeployDelivered
      <4>2. CASE code \in {"ok", "load-failed", "not-wasm"}
        <5>1. upload.session = tx.from
          BY <4>2 DEF Verdict
        <5>2. Sent(c, "deploy")
          BY <1>4, <3>4, <5>1 DEF Holds, Sent
        <5> QED
          BY <1>1, <4>1, <4>2, <5>2 DEF PhaseOf, Deployed, Undeployed, Holds, Lacks
      <4>3. CASE code \notin {"ok", "load-failed", "not-wasm"}
        BY <2>2, <4>1, <4>3
      <4> QED
        BY <4>2, <4>3
    <3> QED
      BY <3>1, <3>2, <3>3, <3>4 DEF Delivery
  <2>5. ASSUME Tick PROVE Goal
    BY <1>1, <2>2, <2>5, TickMoves DEF TickPasses
  <2>6. ASSUME NEW d \in Sessions, Step(d) \/ Crash(d) PROVE Goal
    <3>1. Looks
      BY <1>1, <2>6, StepMoves
    <3> QED
      BY <2>1, <2>2, <2>3, <3>1, LooksKeepsHolder
  <2>7. ASSUME UNCHANGED allVars PROVE Goal
    BY <2>2, <2>7 DEF allVars, vars
  <2> QED
    BY <2>4, <2>5, <2>6, <2>7 DEF ClientNext, Handle
<1> QED
  BY <1>3, <1>4

\* A session that is opened now has time for the retries that are left.
LEMMA FreshSession ==
  ASSUME RetriesFitASession, NEW tries \in 0 .. Retries
  PROVE  /\ ClaimRound \in Nat /\ ClaimRound <= StaleTicks
         /\ Rounds(Retries - tries) \in Nat /\ Rounds(Retries - tries + 1) \in Nat
         /\ Rounds(Retries - tries + 1) = Rounds(Retries - tries) + ClaimRound
         /\ Rounds(Retries - tries) + ClaimRound <= StaleTicks
         /\ tries >= 1 => Rounds(Retries - tries + 1) + ClaimRound <= StaleTicks
<1>1. /\ Retries \in Nat /\ StaleTicks \in Nat /\ Retries - tries \in Nat
      /\ Retries - tries + 1 \in Nat /\ Retries - tries <= Retries /\ Retries + 1 \in Nat
      /\ tries >= 1 => Retries - tries + 1 <= Retries
  BY ClientConstants, DeploymentConstants
<1>2. ClaimRound \in Nat
  BY RoundsType
<1>3. /\ Rounds(Retries - tries) \in Nat /\ Rounds(Retries - tries + 1) \in Nat
      /\ Rounds(Retries - tries + 1) = Rounds(Retries - tries) + ClaimRound
  BY <1>1, RoundsType
<1>4. /\ Rounds(Retries) \in Nat /\ Rounds(Retries + 1) = Rounds(Retries) + ClaimRound
      /\ Rounds(Retries - tries) <= Rounds(Retries)
      /\ tries >= 1 => Rounds(Retries - tries + 1) <= Rounds(Retries)
  BY <1>1, RoundsType
<1> QED
  BY <1>1, <1>2, <1>3, <1>4 DEF RetriesFitASession

\* A client that does not move.
LEMMA ClaimStays ==
  ASSUME TypesInv, NEW c \in Sessions, FitOf(c), PhaseOf(c), client'[c] = client[c],
         \A tx \in mempool' : tx.from = c => tx \in mempool,
         tick' \in {tick, tick + 1},
         client[c].pc \in Prompt => tick' <= client[c].until + Lag,
         Keeps(c) \/ Lacks(c) \/ Gains(c)
  PROVE  ClaimOf(c)'
<1>1. /\ tick \in Nat /\ client[c] \in Client /\ tick' \in Nat /\ tick' >= tick
  BY NodeNow
<1>2. /\ client[c].until \in Nat /\ client[c].tries \in Nat /\ TxTickOffset \in Nat
  BY <1>1, ClientConstants DEF Client
<1>3. Sent(c, "begin")' => Sent(c, "begin")
  BY DEF Sent
<1>4. ~Holds(c) /\ ~Sent(c, "begin") => ~Holds(c)'
  BY DEF Keeps, Lacks, Gains
<1>5. client[c].pc \in {"start", "watching"} => ~Holds(c)'
  BY <1>4 DEF FitOf, ClaimOf, PhaseOf
<1>6. client[c].pc = "claiming" =>
        \/ client[c].tries = 0 /\ ~Holds(c)' /\ ~Sent(c, "begin")'
        \/ client[c].tries >= 1 /\ client[c].until <= tick'
  BY <1>1, <1>2, <1>3, <1>4 DEF FitOf, ClaimOf
<1>7. client[c].pc = "checking" => client[c].until <= tick' + TxTickOffset + 1
  BY <1>1, <1>2 DEF FitOf, ClaimOf
<1>8. client[c].pc \in {"claiming", "checking"} => client[c].tries <= Retries
  BY DEF FitOf, ClaimOf
<1> QED
  BY <1>5, <1>6, <1>7, <1>8 DEF ClaimOf

LEMMA RoundsStay ==
  ASSUME RetriesFitASession, TypesInv, TypesInv', NEW c \in Sessions, FitOf(c), PhaseOf(c),
         client'[c] = client[c],
         \A tx \in mempool' : tx.from = c => tx \in mempool,
         Keeps(c) \/ Gains(c)
  PROVE  RoundsLeft(c)'
<1>1. /\ tick \in Nat /\ client[c] \in Client /\ mempool \subseteq Tx
  BY NodeNow DEF TypesInv, MempoolType
<1>2. /\ client[c].until \in Nat /\ client[c].tries \in Nat /\ TxTickOffset \in Nat /\ Lag \in Nat
      /\ StaleTicks \in Nat /\ Retries \in Nat
  BY <1>1, ClientConstants, DeploymentConstants DEF Client
<1>3. upload' # None /\ upload'.lastProgressTick \in Nat
  BY DEF TypesInv, DeployInv, TypeOK, Upload, Keeps, Gains, Holds
<1>4. /\ client[c].pc = "claiming" => client[c].tries \in 0 .. Retries
      /\ client[c].pc = "checking" => client[c].tries \in 0 .. Retries
  BY <1>2 DEF FitOf, ClaimOf
<1>5. CASE Keeps(c)
  <2>1. upload # None /\ upload.lastProgressTick \in Nat
        /\ upload'.lastProgressTick >= upload.lastProgressTick
    BY <1>5 DEF TypesInv, DeployInv, TypeOK, Upload, Keeps, Holds
  <2>2. Limit \in Nat /\ Limit' \in Nat /\ Limit' >= Limit
    BY <1>2, <1>3, <2>1 DEF Limit
  <2>3. RoundsLeft(c)
    BY <1>5 DEF FitOf, Keeps
  <2>4. client[c].pc = "claiming" =>
          client[c].until + Lag + Rounds(Retries - client[c].tries + 1) <= Limit'
    <3> DEFINE r == Rounds(Retries - client[c].tries + 1)
    <3>1. client[c].pc = "claiming" => r \in Nat
      BY <1>4, FreshSession
    <3>2. client[c].pc = "claiming" => client[c].until + Lag + r <= Limit
      BY <2>3 DEF RoundsLeft
    <3> HIDE DEF r
    <3>3. client[c].pc = "claiming" => client[c].until + Lag + r <= Limit'
      BY <1>2, <2>2, <3>1, <3>2
    <3> QED
      BY <3>3 DEF r
  <2>5. client[c].pc = "checking" =>
          client[c].until + 2 * Lag + Rounds(Retries - client[c].tries) <= Limit'
    <3> DEFINE r == Rounds(Retries - client[c].tries)
    <3>1. client[c].pc = "checking" => r \in Nat
      BY <1>4, FreshSession
    <3>2. client[c].pc = "checking" => client[c].until + 2 * Lag + r <= Limit
      BY <2>3 DEF RoundsLeft
    <3> HIDE DEF r
    <3>3. client[c].pc = "checking" => client[c].until + 2 * Lag + r <= Limit'
      BY <1>2, <2>2, <3>1, <3>2
    <3> QED
      BY <3>3 DEF r
  <2>6. BeginsBy(c, Limit)'
    BY <1>1, <2>2, <2>3 DEF RoundsLeft, BeginsBy, Tx
  <2> QED
    BY <2>4, <2>5, <2>6 DEF RoundsLeft
<1>6. CASE Gains(c)
  <2>1. Limit' = tick + StaleTicks /\ Sent(c, "begin")
    BY <1>6 DEF Gains, Limit
  <2>2. 2 * Lag + TxTickOffset + 1 = ClaimRound
    BY <1>2 DEF ClaimRound
  <2>3. client[c].pc = "claiming" =>
          client[c].until + Lag + Rounds(Retries - client[c].tries + 1) <= Limit'
    <3> SUFFICES ASSUME client[c].pc = "claiming"
                 PROVE  client[c].until + Lag + Rounds(Retries - client[c].tries + 1) <= Limit'
      OBVIOUS
    <3> DEFINE r == Rounds(Retries - client[c].tries + 1)
    <3>1. client[c].tries >= 1 /\ client[c].until <= tick
      BY <2>1 DEF FitOf, ClaimOf
    <3>2. r \in Nat /\ ClaimRound \in Nat /\ r + ClaimRound <= StaleTicks
      BY <1>4, <3>1, FreshSession
    <3> HIDE DEF r
    <3>3. client[c].until + Lag + r <= tick + StaleTicks
      BY <1>1, <1>2, <2>2, <3>1, <3>2
    <3> QED
      BY <2>1, <3>3 DEF r
  <2>4. client[c].pc = "checking" =>
          client[c].until + 2 * Lag + Rounds(Retries - client[c].tries) <= Limit'
    <3> SUFFICES ASSUME client[c].pc = "checking"
                 PROVE  client[c].until + 2 * Lag + Rounds(Retries - client[c].tries) <= Limit'
      OBVIOUS
    <3> DEFINE r == Rounds(Retries - client[c].tries)
    <3>1. client[c].until <= tick + TxTickOffset + 1
      BY DEF FitOf, ClaimOf
    <3>2. r \in Nat /\ ClaimRound \in Nat /\ r + ClaimRound <= StaleTicks
      BY <1>4, FreshSession
    <3> HIDE DEF r
    <3>3. client[c].until + 2 * Lag + r <= tick + StaleTicks
      BY <1>1, <1>2, <2>2, <3>1, <3>2
    <3> QED
      BY <2>1, <3>3 DEF r
  <2>5. BeginsBy(c, Limit)'
    <3>1. 0 \in 0 .. Retries
      BY <1>2
    <3>2. ClaimRound \in Nat /\ ClaimRound <= StaleTicks
      BY <3>1, FreshSession
    <3>3. tick + TxTickOffset <= tick + StaleTicks
      BY <1>1, <1>2, <2>2, <3>2
    <3> QED
      BY <1>1, <1>2, <2>1, <3>3 DEF BeginsBy, PhaseOf, Tx
  <2> QED
    BY <2>3, <2>4, <2>5 DEF RoundsLeft
<1> QED
  BY <1>5, <1>6

LEMMA FitStays ==
  ASSUME RetriesFitASession, TypesInv, TypesInv', NEW c \in Sessions, FitOf(c), PhaseOf(c),
         client'[c] = client[c],
         \A tx \in mempool' : tx.from = c => tx \in mempool,
         verdicts'[c] # {} => Deployed(c), tick' \in {tick, tick + 1},
         client[c].pc \in Prompt => tick' <= client[c].until + Lag,
         Keeps(c) \/ Lacks(c) \/ Gains(c)
  PROVE  FitOf(c)'
<1>1. ClaimOf(c)'
  BY ClaimStays
<1>2. Holds(c)' => RoundsLeft(c)'
  <2>1. Holds(c)' => Keeps(c) \/ Gains(c)
    BY DEF Lacks
  <2> QED
    BY <2>1, RoundsStay
<1>3. client'[c].pc \in Past \/ Deployed(c)' => Holds(c)' \/ ~Sent(c, "begin")'
  <2>1. Sent(c, "begin")' => Sent(c, "begin")
    BY DEF Sent
  <2>2. Deployed(c)' => Deployed(c)
    BY DEF Deployed, Sent
  <2> QED
    BY <2>1, <2>2 DEF FitOf, Keeps, Lacks, Gains
<1> QED
  BY <1>1, <1>2, <1>3 DEF FitOf

\* A client that moves, and sends no BEGIN: first one that has left the claim behind.
LEMMA LaterMoves ==
  ASSUME TypesInv, TypesInv', NEW c \in Sessions, NEW kind, kind # "begin", FitOf(c),
         Moves(c), Looks, Sends(c, kind), client'[c].pc \notin Early,
         client'[c].pc \in {"confirming", "armed"} => tick <= client'[c].until + Lag,
         client'[c].pc \in Past \/ Deployed(c)' =>
           client[c].pc \in Past \/ Deployed(c) \/ Holds(c)'
  PROVE  FitOf(c)'
<1>1. /\ tick' = tick /\ tick \in Nat /\ (upload # None => upload \in Upload)
      /\ Sent(c, "begin")' <=> Sent(c, "begin")
  BY SentByMover DEF TypesInv, DeployInv, TypeOK
<1>2. upload' = upload \/ (upload' = None /\ IsStale)
  BY <1>1, LooksKeepsHolder
<1>3. ClaimOf(c)'
  BY <1>1 DEF ClaimOf, Early, Prompt
<1>4. ASSUME Holds(c)' PROVE RoundsLeft(c)'
  <2>1. upload' = upload /\ Holds(c) /\ Limit' = Limit
    BY <1>2, <1>4 DEF Holds, Limit
  <2>2. BeginsBy(c, Limit)
    BY <2>1 DEF FitOf, RoundsLeft
  <2>3. BeginsBy(c, Limit)'
    BY <2>1, <2>2 DEF BeginsBy, Sends
  <2> QED
    BY <2>3 DEF RoundsLeft, Early
<1>5. ASSUME client[c].pc \in Past \/ Deployed(c) PROVE Holds(c)' \/ ~Sent(c, "begin")'
  <2>1. CASE upload' = upload
    BY <1>1, <1>5, <2>1 DEF FitOf, Holds
  <2>2. CASE upload' = None /\ IsStale
    BY <1>1, <1>5, <2>2, StaleHolder DEF FitOf
  <2> QED
    BY <1>2, <2>1, <2>2
<1> QED
  BY <1>3, <1>4, <1>5 DEF FitOf

\* Then one that has not begun to claim.
LEMMA EarlierMoves ==
  ASSUME TypesInv, TypesInv', NEW c \in Sessions, FitOf(c), PhaseOf(c),
         client[c].pc \in {"start", "watching"}, Moves(c), Looks, mempool' = mempool,
         ClaimingNow(c) \/ client'[c].pc \in {"watching", "busy"}
  PROVE  FitOf(c)'
<1>1. /\ tick' = tick /\ tick \in Nat /\ (upload # None => upload \in Upload)
  BY DEF Looks, TypesInv, DeployInv, TypeOK
<1>2. upload' = upload \/ upload' = None
  BY <1>1, LooksKeepsHolder
<1>3. ~Holds(c)' /\ ~Sent(c, "begin")'
  BY <1>2 DEF FitOf, ClaimOf, PhaseOf, Holds, Sent
<1>4. ClaimingNow(c) => tick <= client'[c].until + Lag
  BY <1>1, ClientConstants DEF ClaimingNow
<1>5. ClaimOf(c)'
  BY <1>1, <1>3, <1>4, ClientConstants DEF ClaimOf, ClaimingNow, Prompt
<1> QED
  BY <1>3, <1>5 DEF FitOf

LEMMA BeginMoves ==
  ASSUME RetriesFitASession, TypesInv, TypesInv', NEW c \in Sessions, FitOf(c), PhaseOf(c),
         SendBegin(c)
  PROVE  FitOf(c)'
<1>1. /\ Moves(c) /\ Looks /\ Sends(c, "begin") /\ upload' = upload
      /\ client[c].pc = "claiming" /\ client'[c].pc = "checking"
      /\ client'[c].tries = client[c].tries
      /\ client'[c].until \in {tick, tick + TxTickOffset + 1}
  BY SendBeginMoves
<1>2. /\ tick' = tick /\ tick \in Nat /\ client[c] \in Client /\ mempool' \subseteq Tx
      /\ ~Deployed(c)'
  BY <1>1, SentByMover DEF PhaseOf, Undeployed, Early, TypesInv, MempoolType
<1>3. /\ client[c].tries \in 0 .. Retries /\ client[c].until \in Nat
      /\ TxTickOffset \in Nat /\ Lag \in Nat /\ tick <= client[c].until + Lag
  BY <1>1, <1>2, ClientConstants DEF Client, FitOf, ClaimOf, Prompt
<1>4. ClaimOf(c)'
  BY <1>1, <1>2, <1>3 DEF ClaimOf, Prompt
<1>5. ASSUME Holds(c)' PROVE RoundsLeft(c)'
  <2> DEFINE r == Rounds(Retries - client[c].tries)
             s == Rounds(Retries - client[c].tries + 1)
  <2>1. Holds(c) /\ Limit' = Limit /\ Limit \in Nat
    BY <1>1, <1>5, DeploymentConstants DEF Holds, Limit, TypesInv, DeployInv, TypeOK, Upload
  <2>2. /\ client[c].until + Lag + s <= Limit /\ BeginsBy(c, Limit)
    BY <1>1, <2>1 DEF FitOf, RoundsLeft
  <2>3. r \in Nat /\ s \in Nat /\ s = r + ClaimRound
    BY <1>3, FreshSession
  <2> HIDE DEF r, s
  <2>4. tick + TxTickOffset + 1 + 2 * Lag + r <= Limit
    BY <1>2, <1>3, <2>1, <2>2, <2>3 DEF ClaimRound
  <2>5. client'[c].until + 2 * Lag + r <= Limit
    BY <1>1, <1>2, <1>3, <2>1, <2>3, <2>4
  <2>6. tick + TxTickOffset <= Limit
    BY <1>2, <1>3, <2>1, <2>3, <2>4
  <2>7. BeginsBy(c, Limit)'
    BY <1>1, <2>1, <2>2, <2>6 DEF BeginsBy, Sends
  <2> QED
    BY <1>1, <2>1, <2>5, <2>7 DEF r, RoundsLeft
<1> QED
  BY <1>1, <1>2, <1>4, <1>5 DEF FitOf, Past

LEMMA ClaimMoves ==
  ASSUME RetriesFitASession, TypesInv, TypesInv', NEW c \in Sessions, FitOf(c), PhaseOf(c),
         NEW read \in BOOLEAN, CheckClaim(c, read)
  PROVE  FitOf(c)'
<1>1. /\ Moves(c) /\ Looks /\ mempool' = mempool /\ client[c].pc = "checking"
  BY CheckClaimMoves
<1>2. Sends(c, "chunk") /\ tick \in Nat
  BY <1>1, SaysNothing DEF TypesInv, DeployInv, TypeOK
<1>3. tick' = tick /\ client[c] \in Client /\ ~Deployed(c)'
  BY <1>1, <1>2, SentByMover DEF PhaseOf, Undeployed, Early
<1>4. CASE /\ upload # None /\ ~IsStale /\ upload' = upload /\ upload.session = c
           /\ client'[c].pc = "sending"
  <2>1. Holds(c)'
    BY <1>4 DEF Holds
  <2> QED
    BY <1>1, <1>2, <1>4, <2>1, LaterMoves DEF Early
<1>5. CASE client'[c].pc \in {"busy", "unclaimed"}
  <2>1. client'[c].pc \notin Past /\ client'[c].pc \notin Early
        /\ client'[c].pc \notin {"confirming", "armed"}
    BY <1>5 DEF Past, Early
  <2> QED
    BY <1>1, <1>2, <1>3, <2>1, LaterMoves
<1>6. CASE /\ client[c].tries < Retries
           /\ client'[c].pc = "claiming" /\ client'[c].until = tick
           /\ client'[c].tries = client[c].tries + 1
  <2>1. /\ client[c].tries \in 0 .. Retries /\ client[c].until \in Nat /\ Retries \in Nat
        /\ TxTickOffset \in Nat /\ Lag \in Nat /\ tick <= client[c].until + Lag
    BY <1>1, <1>3, ClientConstants DEF Client, FitOf, ClaimOf, Prompt
  <2>2. ClaimOf(c)'
    BY <1>2, <1>3, <1>6, <2>1 DEF ClaimOf, Prompt
  <2>3. ASSUME Holds(c)' PROVE RoundsLeft(c)'
    <3> DEFINE r == Rounds(Retries - client[c].tries)
    <3>1. upload # None => upload \in Upload
      BY DEF TypesInv, DeployInv, TypeOK
    <3>2. upload' = upload
      BY <1>1, <2>3, <3>1, LooksKeepsHolder DEF Holds
    <3>3. Holds(c) /\ Limit' = Limit /\ Limit \in Nat
      BY <2>3, <3>1, <3>2, DeploymentConstants DEF Holds, Limit, Upload
    <3>4. /\ client[c].until + 2 * Lag + r <= Limit /\ BeginsBy(c, Limit)
      BY <1>1, <3>3 DEF FitOf, RoundsLeft
    <3>5. r \in Nat /\ Retries - client'[c].tries + 1 = Retries - client[c].tries
      BY <1>6, <2>1, FreshSession
    <3>6. Rounds(Retries - client'[c].tries + 1) = r
      BY <3>5
    <3> HIDE DEF r
    <3>7. client'[c].until + Lag + r <= Limit
      BY <1>2, <1>6, <2>1, <3>3, <3>4, <3>5
    <3>8. BeginsBy(c, Limit)'
      BY <1>1, <3>3, <3>4 DEF BeginsBy
    <3> QED
      BY <1>6, <3>3, <3>6, <3>7, <3>8 DEF RoundsLeft
  <2> QED
    BY <1>3, <1>6, <2>2, <2>3 DEF FitOf, Past
<1> QED
  BY <1>4, <1>5, <1>6, CheckClaimMoves

LEMMA FitMoves ==
  ASSUME RetriesFitASession, TypesInv, TypesInv', NEW c \in Sessions, FitOf(c), PhaseOf(c),
         Step(c) \/ Crash(c)
  PROVE  FitOf(c)'
<1>1. MempoolType /\ tick \in Nat /\ client[c] \in Client /\ Lag \in Nat
  BY NodeNow, ClientConstants DEF TypesInv
<1>2. ASSUME NEW read \in BOOLEAN, Preflight(c, read) PROVE FitOf(c)'
  BY <1>2, PreflightMoves, EarlierMoves
<1>3. ASSUME NEW read \in BOOLEAN, Watch(c, read) PROVE FitOf(c)'
  BY <1>3, WatchMoves, EarlierMoves
<1>4. CASE SendBegin(c)
  BY <1>4, BeginMoves
<1>5. ASSUME NEW read \in BOOLEAN, CheckClaim(c, read) PROVE FitOf(c)'
  BY <1>5, ClaimMoves
<1>6. CASE SendChunks(c)
  <2>1. /\ Moves(c) /\ Looks /\ Sends(c, "chunk") /\ client[c].pc = "sending"
        /\ client'[c].pc \in {"assembling", "uncounted", "unsent", "sending"}
    BY <1>6, SendChunksMoves
  <2> QED
    BY <2>1, LaterMoves DEF Past, Early
<1>7. ASSUME NEW read \in BOOLEAN, Assemble(c, read) PROVE FitOf(c)'
  <2>1. /\ Moves(c) /\ Looks /\ Sends(c, "chunk") /\ client[c].pc = "assembling"
        /\ client'[c].pc \in {"busy", "threw", "arming", "assembling"}
    BY <1>7, AssembleMoves DEF AssembleResult
  <2> QED
    BY <2>1, LaterMoves DEF Past, Early
<1>8. CASE SendDeploy(c)
  <2>1. /\ Moves(c) /\ Looks /\ Sends(c, "deploy") /\ client[c].pc = "arming"
        /\ \/ client'[c].pc = "threw"
           \/ client'[c].pc = "confirming" /\ client'[c].until = tick
    BY <1>8, SendDeployMoves
  <2>2. client'[c].pc \notin Early
    BY <2>1 DEF Early
  <2>3. client'[c].pc \in {"confirming", "armed"} => tick <= client'[c].until + Lag
    BY <1>1, <2>1
  <2> QED
    BY <2>1, <2>2, <2>3, LaterMoves DEF Past
<1>9. ASSUME Moves(c), Looks, NEW kind, kind # "begin", Sends(c, kind),
             client[c].pc \in {"confirming", "armed"},
             \/ client'[c].pc \in {"ok", "refused", "unarmed"}
             \/ client'[c].pc \in {"confirming", "armed"} /\ client'[c].until = tick + 1
      PROVE  FitOf(c)'
  <2>1. client'[c].pc \notin Early /\ client[c].pc \in Past
    BY <1>9 DEF Early, Past
  <2>2. client'[c].pc \in {"confirming", "armed"} => tick <= client'[c].until + Lag
    BY <1>1, <1>9
  <2> QED
    BY <1>9, <2>1, <2>2, LaterMoves
<1>10. CASE PollArmed(c)
  <2>1. /\ Moves(c) /\ Looks /\ Sends(c, "chunk") /\ client[c].pc \in {"confirming", "armed"}
        /\ client'[c].pc \in {"ok", "armed"}
        /\ (client'[c].pc = "armed" => client'[c].until = tick + 1)
    BY <1>1, <1>10, PollArmedMoves, SaysNothing
  <2> QED
    BY <1>9, <2>1
<1>11. CASE PollUnarmed(c)
  <2>1. /\ Moves(c) /\ Looks /\ Sends(c, "deploy") /\ client[c].pc \in {"confirming", "armed"}
        /\ \/ client'[c].pc \in {"ok", "refused", "unarmed"}
           \/ client'[c].pc \in {"confirming", "armed"} /\ client'[c].until = tick + 1
    BY <1>11, PollUnarmedMoves DEF PollResult, Resends, Polled
  <2> QED
    BY <1>9, <2>1
<1>12. CASE PollFails(c)
  <2>1. /\ Moves(c) /\ Looks /\ Sends(c, "chunk") /\ client[c].pc \in {"confirming", "armed"}
        /\ \/ client'[c].pc \in {"ok", "refused", "unarmed"}
           \/ client'[c].pc \in {"confirming", "armed"} /\ client'[c].until = tick + 1
    BY <1>1, <1>12, PollFailsMoves, SaysNothing DEF Polled
  <2> QED
    BY <1>9, <2>1
<1>13. CASE Crash(c)
  <2>1. /\ Moves(c) /\ Looks /\ Sends(c, "chunk") /\ client'[c].pc = "crashed"
    BY <1>1, <1>13, CrashMoves, SaysNothing
  <2>2. Deployed(c)' <=> Deployed(c)
    BY <2>1, SentByMover
  <2> QED
    BY <2>1, <2>2, LaterMoves DEF Past, Early
<1> QED
  BY <1>2, <1>3, <1>4, <1>5, <1>6, <1>7, <1>8, <1>10, <1>11, <1>12, <1>13 DEF Step

\* What a step leaves as it is, for every client but the one that moves.
Bystands(c) ==
  /\ client'[c] = client[c] /\ (\A tx \in mempool' : tx.from = c => tx \in mempool)
  /\ (verdicts'[c] # {} => Deployed(c)) /\ tick' \in {tick, tick + 1}

LEMMA Bystanders ==
  ASSUME TypesInv, [ClientNext]_allVars, NEW c \in Sessions
  PROVE  \/ Step(c) \/ Crash(c)
         \/ /\ Bystands(c)
            /\ \/ tick' = tick
               \/ tick' = tick + 1 /\ (client[c].pc \in Running => tick < Deadline(c))
<1> DEFINE Goal == /\ Bystands(c)
                   /\ \/ tick' = tick
                      \/ tick' = tick + 1 /\ (client[c].pc \in Running => tick < Deadline(c))
<1>1. ASSUME NEW tx \in mempool, Deliver(tx) PROVE Goal
  <2>1. /\ client'[c] = client[c] /\ mempool' = mempool \ {tx} /\ tick' = tick
        /\ (tx.kind = "deploy" /\ tx.from = c) \/ verdicts'[c] = verdicts[c]
    BY <1>1, DeliverMoves DEF Delivery
  <2>2. verdicts'[c] # {} => Deployed(c)
    BY <2>1 DEF Deployed, Sent
  <2> QED
    BY <2>1, <2>2 DEF Bystands
<1>2. ASSUME Tick PROVE Goal
  BY <1>2, TickMoves DEF TickPasses, Deployed, Bystands
<1>3. ASSUME NEW d \in Sessions, d # c, Step(d) \/ Crash(d) PROVE Goal
  <2>1. Moves(d) /\ Looks
    BY <1>3, StepMoves
  <2>2. PICK kind \in {"begin", "chunk", "deploy"} : Sends(d, kind)
    BY <1>3, StepMoves
  <2> QED
    BY <1>3, <2>1, <2>2 DEF Moves, Sends, Looks, Deployed, Bystands
<1>4. ASSUME UNCHANGED allVars PROVE Goal
  BY <1>4 DEF allVars, clientVars, vars, Deployed, Bystands
<1> QED
  BY <1>1, <1>2, <1>3, <1>4 DEF ClientNext, Handle

LEMMA FitInductive ==
  ASSUME RetriesFitASession
  PROVE  FitInv /\ [ClientNext]_allVars => FitInv'
<1> SUFFICES ASSUME FitInv, [ClientNext]_allVars PROVE FitInv'
  OBVIOUS
<1>1. ClosedInv' /\ TypesInv /\ TypesInv'
  BY ClosedInductive, TypesInductive DEF FitInv, ClosedInv, PhaseInv
<1>2. ASSUME NEW c \in Sessions PROVE FitOf(c)'
  <2>1. FitOf(c) /\ PhaseOf(c)
    BY DEF FitInv, ClosedInv, PhaseInv
  <2>2. CASE Step(c) \/ Crash(c)
    BY <1>1, <2>1, <2>2, FitMoves
  <2>3. CASE /\ Bystands(c)
             /\ \/ tick' = tick
                \/ tick' = tick + 1 /\ (client[c].pc \in Running => tick < Deadline(c))
    <3>1. client[c].pc \in Prompt => tick' <= client[c].until + Lag
      <4>1. tick \in Nat /\ client[c].until \in Nat /\ Lag \in Nat
        BY <1>1, NodeNow, ClientConstants DEF Client
      <4>2. CASE tick' = tick
        BY <2>1, <4>2 DEF FitOf, ClaimOf
      <4>3. CASE tick' = tick + 1 /\ (client[c].pc \in Running => tick < Deadline(c))
        BY <4>1, <4>3 DEF Deadline, Running, Prompt
      <4> QED
        BY <2>3, <4>2, <4>3
    <3>2. Keeps(c) \/ Lacks(c) \/ Gains(c)
      BY HolderChanges
    <3> QED
      BY <1>1, <2>1, <2>3, <3>1, <3>2, FitStays DEF Bystands
  <2> QED
    BY <1>1, <2>2, <2>3, Bystanders
<1> QED
  BY <1>1, <1>2 DEF FitInv

LEMMA FitInit == ClientInit => FitInv
<1> SUFFICES ASSUME ClientInit PROVE FitInv
  OBVIOUS
<1>1. ClosedInv /\ PhaseInv
  BY ClosedInit DEF ClosedInv
<1>2. ASSUME NEW c \in Sessions PROVE FitOf(c)
  <2>1. client[c].pc = "start" /\ upload = None
    BY <1>2 DEF ClientInit, Resting, Init
  <2>2. ~Sent(c, "begin")
    BY <1>1, <2>1 DEF PhaseInv, PhaseOf
  <2> QED
    BY <2>1, <2>2 DEF FitOf, ClaimOf, Holds, Prompt
<1> QED
  BY <1>1, <1>2 DEF FitInv

(***************************************************************************)
(* What a client that waits knows of the session it waits for.             *)
(***************************************************************************)

\* A client past its claim never claims again.
LEMMA ClaimIsOver ==
  ASSUME TypesInv, [ClientNext]_allVars, NEW d \in Sessions,
         client[d].pc \notin Early, ~Sent(d, "begin")
  PROVE  client'[d].pc \notin Early /\ ~Sent(d, "begin")'
<1>1. CASE Bystands(d)
  BY <1>1 DEF Bystands, Sent
<1>2. ASSUME client'[d].pc \notin Early, NEW kind, kind # "begin", Sends(d, kind)
      PROVE  client'[d].pc \notin Early /\ ~Sent(d, "begin")'
  BY <1>2 DEF Sends, Sent
<1>3. MempoolType
  BY DEF TypesInv
<1>4. ASSUME NEW read \in BOOLEAN, Preflight(d, read) PROVE FALSE
  BY <1>4, PreflightMoves DEF Early
<1>5. ASSUME NEW read \in BOOLEAN, Watch(d, read) PROVE FALSE
  BY <1>5, WatchMoves DEF Early
<1>6. CASE SendBegin(d)
  BY <1>6, SendBeginMoves DEF Early
<1>7. ASSUME NEW read \in BOOLEAN, CheckClaim(d, read) PROVE FALSE
  BY <1>7, CheckClaimMoves DEF Early
<1>8. CASE SendChunks(d)
  BY <1>2, <1>8, SendChunksMoves DEF Early
<1>9. ASSUME NEW read \in BOOLEAN, Assemble(d, read)
      PROVE  client'[d].pc \notin Early /\ ~Sent(d, "begin")'
  BY <1>2, <1>9, AssembleMoves DEF Early, AssembleResult
<1>10. CASE SendDeploy(d)
  BY <1>2, <1>10, SendDeployMoves DEF Early
<1>11. CASE PollArmed(d)
  <2>1. Sends(d, "chunk") /\ client'[d].pc \in {"ok", "armed"}
    BY <1>3, <1>11, PollArmedMoves, SaysNothing
  <2> QED
    BY <1>2, <2>1 DEF Early
<1>12. CASE PollUnarmed(d)
  <2>1. Sends(d, "deploy") /\ client'[d].pc \in {"ok", "refused", "unarmed", "confirming", "armed"}
    BY <1>12, PollUnarmedMoves DEF PollResult, Resends, Polled
  <2> QED
    BY <1>2, <2>1 DEF Early
<1>13. CASE PollFails(d)
  <2>1. Sends(d, "chunk") /\ client'[d].pc \in {"ok", "unarmed", "confirming", "armed"}
    BY <1>3, <1>13, PollFailsMoves, SaysNothing DEF Polled
  <2> QED
    BY <1>2, <2>1 DEF Early
<1>14. CASE Crash(d)
  <2>1. Sends(d, "chunk") /\ client'[d].pc = "crashed"
    BY <1>3, <1>14, CrashMoves, SaysNothing
  <2> QED
    BY <1>2, <2>1 DEF Early
<1> QED
  BY <1>1, <1>4, <1>5, <1>6, <1>7, <1>8, <1>9, <1>10, <1>11, <1>12, <1>13, <1>14,
     Bystanders DEF Step

\* While a session lasts, its upload only grows, and is fresh whenever it does.
Grows ==
  \E q \in Chunks : /\ upload.bytes[q] = None
                    /\ upload'.bytes[q] = Wants[upload.session]
                    /\ \A r \in Chunks \ {q} : upload'.bytes[r] = upload.bytes[r]

LEMMA HolderGrows ==
  ASSUME FitInv, [ClientNext]_allVars, NEW d \in Sessions, Holds(d), Holds(d)'
  PROVE  upload' = upload \/ (Grows /\ upload'.announced = upload.announced)
<1>1. TypesInv /\ FitOf(d) /\ upload # None /\ upload \in Upload /\ upload' # None
  BY DEF FitInv, ClosedInv, PhaseInv, TypesInv, DeployInv, TypeOK, Holds
<1> DEFINE Goal == upload' = upload \/ (Grows /\ upload'.announced = upload.announced)
<1>2. ASSUME NEW tx \in mempool, Deliver(tx) PROVE Goal
  <2>1. Delivery(tx)
    BY <1>1, <1>2, DeliverMoves
  <2>2. CASE tx.kind = "begin"
    <3>1. CASE Opens(tx) /\ IsStale
      <4>1. tx.from = d
        BY <3>1 DEF Opens, Holds
      <4>2. ~Sent(d, "begin")
        BY <1>1, <3>1, StaleHolder
      <4> QED
        BY <2>2, <4>1, <4>2 DEF Sent
    <3>2. CASE upload' = upload
      BY <3>2
    <3> QED
      BY <1>1, <2>1, <2>2, <3>1, <3>2, BeginDelivered
  <2>3. CASE tx.kind = "chunk"
    <3>1. CASE upload' = upload
      BY <3>1
    <3>2. CASE upload' # upload
      <4> DEFINE bytes == [upload.bytes EXCEPT ![tx.seq] = Wants[tx.from]]
      <4>1. /\ upload.session = tx.from /\ tx.seq \in Chunks /\ upload.bytes[tx.seq] = None
            /\ upload' = [upload EXCEPT !.bytes = bytes, !.lastProgressTick = tick]
        BY <1>1, <2>1, <2>3, <3>2, ChunkDelivered
      <4>2. upload'.bytes = bytes /\ upload'.announced = upload.announced
        BY <1>1, <4>1 DEF Upload
      <4>3. upload.bytes \in [Chunks -> Modules \cup {None}]
        BY <1>1 DEF Upload
      <4>4. bytes[tx.seq] = Wants[upload.session]
            /\ \A r \in Chunks \ {tx.seq} : bytes[r] = upload.bytes[r]
        BY <4>1, <4>3
      <4> HIDE DEF bytes
      <4> QED
        BY <4>1, <4>2, <4>4 DEF Grows
    <3> QED
      BY <3>1, <3>2
  <2>4. CASE tx.kind = "deploy"
    BY <1>1, <2>1, <2>4, DeployDelivered
  <2> QED
    BY <2>1, <2>2, <2>3, <2>4 DEF Delivery
<1>3. ASSUME Tick PROVE Goal
  BY <1>1, <1>3, TickMoves DEF TickPasses
<1>4. ASSUME NEW e \in Sessions, Step(e) \/ Crash(e) PROVE Goal
  <2>1. Looks
    BY <1>1, <1>4, StepMoves
  <2> QED
    BY <1>1, <2>1, LooksKeepsHolder
<1>5. ASSUME UNCHANGED allVars PROVE Goal
  BY <1>5 DEF allVars, vars
<1> QED
  BY <1>2, <1>3, <1>4, <1>5 DEF ClientNext, Handle

\* The session a client waits for is there, or its client has left the claim behind;
\* it has what it was seen to have; and if it has no more, it expires in time.
WatchOf(c) ==
  LET d == client[c].seen.session
      received == client[c].seen.received
  IN /\ Holds(d) \/ (client[d].pc \notin Early /\ ~Sent(d, "begin"))
     /\ Holds(d) => received \subseteq Received(upload)
     /\ Holds(d) /\ received = Received(upload) =>
          client[c].until + client[c].tries >= Limit + 2

WatchInv == FitInv /\ \A c \in Sessions : client[c].pc = "watching" => WatchOf(c)

LEMMA WatchStays ==
  ASSUME FitInv, TypesInv', [ClientNext]_allVars, NEW c \in Sessions, client[c].pc = "watching",
         WatchOf(c), client'[c] = client[c]
  PROVE  WatchOf(c)'
<1>1. TypesInv /\ client[c].seen \in Sighting
  BY NodeNow DEF FitInv, ClosedInv, PhaseInv
<1>7. PICK d \in Sessions, received \in SUBSET Chunks :
        d = client[c].seen.session /\ received = client[c].seen.received
  BY <1>1 DEF Sighting
<1>2. /\ Holds(d) \/ (client[d].pc \notin Early /\ ~Sent(d, "begin"))
      /\ Holds(d) => received \subseteq Received(upload)
      /\ Holds(d) /\ received = Received(upload) =>
           client[c].until + client[c].tries >= Limit + 2
  BY <1>7 DEF WatchOf
<1>3. Keeps(d) \/ Lacks(d) \/ Gains(d)
  BY <1>1, HolderChanges
<1>4. Holds(d)' \/ (client'[d].pc \notin Early /\ ~Sent(d, "begin")')
  <2>1. CASE client[d].pc \notin Early /\ ~Sent(d, "begin")
    BY <1>1, <2>1, ClaimIsOver
  <2> QED
    BY <1>1, <1>2, <1>3, <2>1, ClaimIsOver DEF Keeps, Lacks, Gains
<1>5. ASSUME Holds(d)'
      PROVE  /\ received \subseteq Received(upload')
             /\ received = Received(upload') =>
                  client[c].until + client[c].tries >= Limit' + 2
  <2>1. Holds(d)
    BY <1>2, <1>3, <1>5 DEF Keeps, Lacks, Gains
  <2>2. CASE upload' = upload
    BY <1>2, <2>1, <2>2 DEF Limit
  <2>3. CASE Grows
    <3>1. PICK q \in Chunks : /\ upload.bytes[q] = None
                    /\ upload'.bytes[q] = Wants[upload.session]
                    /\ \A r \in Chunks \ {q} : upload'.bytes[r] = upload.bytes[r]
      BY <2>3 DEF Grows
    <3>2. Wants[upload.session] # None
      BY <1>1, <2>1, ClientConstants, NoneIsNothing DEF Holds, TypesInv, DeployInv, TypeOK, Upload
    <3>3. /\ q \notin Received(upload) /\ q \in Received(upload')
          /\ Received(upload) \subseteq Received(upload')
      BY <3>1, <3>2 DEF Received
    <3> QED
      BY <1>2, <2>1, <3>3
  <2> QED
    BY <1>1, <1>5, <2>1, <2>2, <2>3, HolderGrows
<1>6. Received(upload)' = Received(upload')
  BY DEF Received
<1> QED
  BY <1>4, <1>5, <1>6, <1>7 DEF WatchOf

LEMMA WatchInductive ==
  ASSUME RetriesFitASession
  PROVE  WatchInv /\ [ClientNext]_allVars => WatchInv'
<1> SUFFICES ASSUME WatchInv, [ClientNext]_allVars PROVE WatchInv'
  OBVIOUS
<1>1. FitInv /\ FitInv' /\ TypesInv /\ TypesInv'
  BY FitInductive, TypesInductive DEF WatchInv, FitInv, ClosedInv, PhaseInv
<1>2. ASSUME NEW c \in Sessions, client'[c].pc = "watching" PROVE WatchOf(c)'
  <2>1. /\ tick \in Nat /\ client[c] \in Client
    BY <1>1, NodeNow
  <2>2. ASSUME NEW read \in BOOLEAN, Preflight(c, read) PROVE WatchOf(c)'
    <3>1. /\ upload # None /\ ~IsStale /\ upload' = upload
          /\ client'[c].until = tick + 1 /\ client'[c].tries = TicksLeft(upload)
          /\ client'[c].seen = [session |-> upload.session, received |-> Received(upload)]
      BY <1>1, <1>2, <2>2, PreflightMoves DEF ClaimingNow
    <3>2. /\ TicksLeft(upload) = StaleTicks + 1 - (tick - upload.lastProgressTick)
          /\ upload.lastProgressTick \in Nat
      BY <1>1, <3>1, TicksLeftType DEF Upload
    <3>3. client'[c].until + client'[c].tries = Limit + 2 /\ Limit' = Limit
      BY <2>1, <3>1, <3>2, DeploymentConstants DEF Limit
    <3>4. Received(upload)' = Received(upload) /\ upload'.session = upload.session
      BY <3>1 DEF Received
    <3>5. Limit \in Nat
      BY <3>2, DeploymentConstants DEF Limit
    <3> QED
      BY <3>1, <3>3, <3>4, <3>5 DEF WatchOf, Holds
  <2>3. ASSUME NEW read \in BOOLEAN, Watch(c, read) PROVE WatchOf(c)'
    <3>1. /\ client[c].pc = "watching" /\ tick >= client[c].until
          /\ upload # None /\ upload' = upload /\ upload.session = client[c].seen.session
          /\ client'[c].until = tick + 1 /\ client'[c].tries = client[c].tries - 1
          /\ client'[c].seen = client[c].seen
      BY <1>1, <1>2, <2>3, WatchMoves DEF ClaimingNow
    <3>2. /\ client[c].until \in Nat /\ client[c].tries \in Nat /\ upload.lastProgressTick \in Nat
          /\ Limit \in Nat /\ Limit' = Limit
      BY <1>1, <2>1, <3>1, DeploymentConstants 
         DEF Limit, Client, TypesInv, DeployInv, TypeOK, Upload
    <3>3. Received(upload)' = Received(upload)
      BY <3>1 DEF Received
    <3>4. WatchOf(c)
      BY <3>1 DEF WatchInv
    <3>5. client'[c].until + client'[c].tries >= client[c].until + client[c].tries
      BY <2>1, <3>1, <3>2
    <3>6. Received(upload) = client[c].seen.received =>
            client'[c].until + client'[c].tries >= Limit + 2
      BY <3>1, <3>2, <3>4, <3>5, <2>1 DEF WatchOf, Holds
    <3> QED
      BY <3>1, <3>2, <3>3, <3>4, <3>6 DEF WatchOf, Holds
  <2>4. CASE Bystands(c)
    BY <1>1, <1>2, <2>4, WatchStays DEF Bystands, WatchInv
  <2>5. \/ SendBegin(c) \/ SendChunks(c) \/ SendDeploy(c) \/ PollArmed(c) \/ PollUnarmed(c)
        \/ PollFails(c) \/ Crash(c)
        \/ (\E read \in BOOLEAN : CheckClaim(c, read) \/ Assemble(c, read))
        => FALSE
    BY <1>1, <1>2, SendBeginMoves, SendChunksMoves, SendDeployMoves, PollArmedMoves,
       PollUnarmedMoves, PollFailsMoves, CrashMoves, CheckClaimMoves, AssembleMoves
       DEF PollResult, Polled, Resends, AssembleResult
  <2> QED
    BY <1>1, <2>2, <2>3, <2>4, <2>5, Bystanders DEF Step
<1> QED
  BY <1>1, <1>2 DEF WatchInv

Respects ==
  \A c \in Sessions : client[c].pc = "watching" /\ client'[c].pc = "busy" =>
    Received(upload) # client[c].seen.received

\* A session that was abandoned is waited out: with a StaleTicks that a session's own
\* retries fit in, only one that was fed since it was first seen turns a client away.
THEOREM OnlyTheFedTurnClientsAway ==
  ASSUME RetriesFitASession
  PROVE  ClientSpec => OnlyTheFedAreRespected
<1>1. ClientInit => WatchInv
  <2>1. ClientInit => \A c \in Sessions : client[c].pc = "start"
    BY DEF ClientInit, Resting
  <2> QED
    BY <2>1, FitInit DEF WatchInv
<1>2. WatchInv /\ [ClientNext]_allVars => [Respects]_allVars
  <2> SUFFICES ASSUME WatchInv, [ClientNext]_allVars, NEW c \in Sessions,
                      client[c].pc = "watching", client'[c].pc = "busy",
                      Received(upload) = client[c].seen.received
               PROVE  FALSE
    BY DEF Respects
  <2>1. TypesInv /\ WatchOf(c) /\ tick \in Nat /\ client[c] \in Client
    BY NodeNow DEF WatchInv, FitInv, ClosedInv, PhaseInv
  <2>2. ASSUME NEW read \in BOOLEAN, Watch(c, read) PROVE FALSE
    <3>1. /\ tick >= client[c].until /\ upload # None /\ ~IsStale
          /\ upload.session = client[c].seen.session /\ client[c].tries = 0
      BY <2>1, <2>2, WatchMoves DEF ClaimingNow
    <3>2. client[c].until + client[c].tries >= Limit + 2
      BY <2>1, <3>1 DEF WatchOf, Holds
    <3>3. upload.lastProgressTick \in Nat /\ client[c].until \in Nat
      BY <2>1, <3>1 DEF TypesInv, DeployInv, TypeOK, Upload, Client
    <3> QED
      BY <2>1, <3>1, <3>2, <3>3, DeploymentConstants DEF Limit, IsStale, IdleTicks
  <2>3. ASSUME NEW read \in BOOLEAN, Preflight(c, read) PROVE FALSE
    BY <2>1, <2>3, PreflightMoves
  <2>4. ~Bystands(c)
    BY DEF Bystands
  <2>5. \/ SendBegin(c) \/ SendChunks(c) \/ SendDeploy(c) \/ PollArmed(c) \/ PollUnarmed(c)
        \/ PollFails(c) \/ Crash(c)
        \/ (\E read \in BOOLEAN : CheckClaim(c, read) \/ Assemble(c, read))
        => FALSE
    BY <2>1, SendBeginMoves, SendChunksMoves, SendDeployMoves, PollArmedMoves,
       PollUnarmedMoves, PollFailsMoves, CrashMoves, CheckClaimMoves, AssembleMoves
  <2> QED
    BY <2>1, <2>2, <2>3, <2>4, <2>5, Bystanders DEF Step
<1>3. OnlyTheFedAreRespected <=> [][Respects]_allVars
  BY DEF OnlyTheFedAreRespected, Respects
<1> QED
  BY <1>1, <1>2, <1>3, WatchInductive, ClientSteps, PTL

(***************************************************************************)
(* What a client reports.  Its losses count against it: the more polls it  *)
(* has missed, the later it may notice that its module was armed.          *)
(***************************************************************************)

\* A client may only report by what it sees in its slot, so no two of them deploy the
\* same module to the same slot.
ClientsDiffer ==
  \A c, d \in Sessions : Target[c] = Target[d] /\ Wants[c] = Wants[d] => c = d

\* The ticks, since the first DEPLOY of a client, by which its n-th repetition is due
\* when no poll fails.
ResendRound == GraceTicks + 1 + TxTickOffset
DueBy(n) == TxTickOffset + n * ResendRound

\* A client goes on to poll until its last DEPLOY must have been handled (the code:
\* 420 polls, for DEPLOYs that are all handled within 24 ticks and the three it may lose).
PollsOutlastResends == DueBy(Retries) + TxTickOffset < MaxPolls

LEMMA DueByType ==
  /\ ResendRound \in Nat
  /\ \A n \in Nat : DueBy(n) \in Nat /\ DueBy(n + 1) = DueBy(n) + ResendRound
  /\ \A m, n \in Nat : m <= n => DueBy(m) <= DueBy(n)
<1>1. ResendRound \in Nat
  BY ClientConstants DEF ResendRound
<1> HIDE DEF ResendRound
<1>2. \A n \in Nat : DueBy(n) \in Nat /\ DueBy(n + 1) = DueBy(n) + ResendRound
  BY <1>1, ClientConstants DEF DueBy
<1>3. ASSUME NEW m \in Nat, NEW n \in Nat, m <= n PROVE DueBy(m) <= DueBy(n)
  <2>1. (n - m) \in Nat /\ n * ResendRound = m * ResendRound + (n - m) * ResendRound
    BY <1>1, <1>3
  <2>2. (n - m) * ResendRound \in Nat /\ m * ResendRound \in Nat
    BY <1>1, <2>1
  <2> QED
    BY <2>1, <2>2, ClientConstants DEF DueBy
<1> QED
  BY <1>1, <1>2, <1>3

\* A client that sees that its module was armed before another could have deployed.
Watchful(c) == losses[c] < TxTickOffset

LEMMA LossesGrow ==
  ASSUME TypesInv, [ClientNext]_allVars, NEW c \in Sessions
  PROVE  losses'[c] >= losses[c] /\ losses[c] \in Nat /\ losses'[c] \in Nat
<1>1. losses[c] \in Nat /\ losses'[c] \in Nat
  BY TypesInductive, ClientConstants DEF TypesInv, ClientsType
<1>2. ASSUME NEW tx \in mempool, Deliver(tx) PROVE losses' = losses
  BY <1>2, DeliverMoves DEF Delivery
<1>3. ASSUME Tick PROVE losses'[c] >= losses[c]
  BY <1>3, TickMoves DEF TickPasses
<1>4. ASSUME NEW d \in Sessions, Step(d) \/ Crash(d) PROVE losses'[c] >= losses[c]
  BY <1>1, <1>4, StepMoves DEF Moves
<1>5. ASSUME UNCHANGED allVars PROVE losses' = losses
  BY <1>5 DEF allVars, clientVars
<1> QED
  BY <1>1, <1>2, <1>3, <1>4, <1>5 DEF ClientNext, Handle

\* Only a DEPLOY changes what runs, and what the node says of DEPLOYs.
LEMMA OnlyDeploysTell ==
  ASSUME TypesInv, [ClientNext]_allVars
  PROVE  \/ UNCHANGED <<lastDeploy, slotMeta, verdicts>>
         \/ \E tx \in mempool : tx.kind = "deploy" /\ Delivery(tx)
<1>1. ASSUME NEW tx \in mempool, Deliver(tx), tx.kind # "deploy"
      PROVE  UNCHANGED <<lastDeploy, slotMeta, verdicts>>
  <2>1. Delivery(tx)
    BY <1>1, DeliverMoves
  <2>2. verdicts' = verdicts
    BY <1>1, <2>1 DEF Delivery, TypesInv, ClientsType
  <2> QED
    BY <1>1, <2>1, <2>2, BeginDelivered, ChunkDelivered DEF Delivery
<1>2. ASSUME NEW tx \in mempool, Deliver(tx) PROVE Delivery(tx)
  BY <1>2, DeliverMoves
<1>3. ASSUME Tick PROVE UNCHANGED <<lastDeploy, slotMeta, verdicts>>
  BY <1>3, TickMoves DEF TickPasses
<1>4. ASSUME NEW d \in Sessions, Step(d) \/ Crash(d)
      PROVE  UNCHANGED <<lastDeploy, slotMeta, verdicts>>
  BY <1>4, StepMoves DEF Moves, Looks, slotVars
<1>5. ASSUME UNCHANGED allVars PROVE UNCHANGED <<lastDeploy, slotMeta, verdicts>>
  BY <1>5 DEF allVars, clientVars, vars, slotVars
<1> QED
  BY <1>1, <1>2, <1>3, <1>4, <1>5 DEF ClientNext, Handle

\* The bytes of a session are those its client wants to deploy.
BytesInv ==
  upload # None =>
    /\ upload.announced = Wants[upload.session]
    /\ \A q \in Chunks : upload.bytes[q] \in {None, Wants[upload.session]}

LEMMA BytesInductive == FitInv /\ BytesInv /\ [ClientNext]_allVars => BytesInv'
<1> SUFFICES ASSUME FitInv, BytesInv, [ClientNext]_allVars, upload' # None
             PROVE  /\ upload'.announced = Wants[upload'.session]
                    /\ \A q \in Chunks : upload'.bytes[q] \in {None, Wants[upload'.session]}
  BY DEF BytesInv
<1>1. TypesInv /\ TypesInv'
  BY TypesInductive DEF FitInv, ClosedInv, PhaseInv
<1>2. PICK d \in Sessions : upload'.session = d
  BY <1>1 DEF TypesInv, DeployInv, TypeOK, Upload
<1>3. Holds(d)'
  BY <1>2 DEF Holds
<1>4. CASE Holds(d)
  <2>1. upload # None /\ upload.session = d /\ upload.announced = Wants[d]
        /\ \A q \in Chunks : upload.bytes[q] \in {None, Wants[d]}
    BY <1>4 DEF Holds, BytesInv
  <2> QED
    BY <1>2, <1>3, <1>4, <2>1, HolderGrows DEF Grows
<1>5. CASE ~Holds(d)
  BY <1>1, <1>2, <1>3, <1>5, OpenedByBegin
<1> QED
  BY <1>4, <1>5

\* The verdict on a DEPLOY of the session that has the slot, and of any other.
LEMMA VerdictMeans ==
  ASSUME TypesInv, BytesInv, NEW c \in Sessions, NEW code,
         code = Verdict(c, Target[c], TRUE, Wants[c])
  PROVE  /\ code = "ok" => Holds(c)
         /\ code \notin {"ok", "incomplete", "not-wasm", "load-failed"} => ~Holds(c)
<1>1. Target[c] \in Slots
  BY ClientConstants
<1>2. CASE upload = None \/ upload.session # c
  BY <1>1, <1>2 DEF Verdict, Holds
<1>3. CASE ~(upload = None \/ upload.session # c)
  <2>1. Holds(c) /\ upload.announced = Wants[c]
        /\ \A q \in Chunks : upload.bytes[q] \in {None, Wants[c]}
    BY <1>3 DEF Holds, BytesInv
  <2>2. IsComplete => HashesTo(upload.announced)
    BY <2>1 DEF IsComplete, HashesTo
  <2>3. code \in {"ok", "incomplete", "not-wasm", "load-failed"}
    BY <1>1, <1>3, <2>1, <2>2 DEF Verdict
  <2> QED
    BY <2>1, <2>3
<1> QED
  BY <1>2, <1>3

\* What the node remembers of a client's DEPLOYs, and what runs in a slot.
OutcomeOf(c) ==
  lastDeploy # None /\ lastDeploy.session = c =>
    /\ verdicts[c] # {}
    /\ lastDeploy.code \notin {"ok", "incomplete"} => ~Holds(c)

MetaInv ==
  \A s \in Slots : slotMeta[s] # None =>
    \E d \in Sessions : Target[d] = s /\ Wants[d] = slotMeta[s].codeHash /\ "ok" \in verdicts[d]

LEMMA OutcomeInductive ==
  ASSUME FitInv, BytesInv, [ClientNext]_allVars, NEW c \in Sessions, OutcomeOf(c)
  PROVE  OutcomeOf(c)'
<1> SUFFICES ASSUME lastDeploy' # None, lastDeploy'.session = c
             PROVE  /\ verdicts'[c] # {}
                    /\ lastDeploy'.code \notin {"ok", "incomplete"} => ~Holds(c)'
  BY DEF OutcomeOf
<1>1. TypesInv /\ PhaseOf(c) /\ (Keeps(c) \/ Lacks(c) \/ Gains(c))
  BY HolderChanges DEF FitInv, ClosedInv, PhaseInv
<1>2. verdicts[c] # {} /\ ~Holds(c) => ~Holds(c)'
  BY <1>1 DEF PhaseOf, Deployed, Keeps, Lacks, Gains
<1>3. CASE UNCHANGED <<lastDeploy, slotMeta, verdicts>>
  BY <1>2, <1>3 DEF OutcomeOf
<1>4. ASSUME NEW tx \in mempool, tx.kind = "deploy", Delivery(tx)
      PROVE  /\ verdicts'[c] # {}
             /\ lastDeploy'.code \notin {"ok", "incomplete"} => ~Holds(c)'
  <2>1. tx.from \in Sessions
    BY <1>4 DEF Delivery, Tx
  <2>2. PICK code : code = Verdict(tx.from, Target[tx.from], TRUE, Wants[tx.from])
    OBVIOUS
  <2>3. /\ verdicts'[tx.from] = verdicts[tx.from] \cup {code}
        /\ lastDeploy' = Recorded(tx.from, Target[tx.from], code)
        /\ upload' = IF code \in {"ok", "load-failed", "not-wasm"} THEN None ELSE upload
    BY <1>4, <2>2, DeployDelivered
  <2>4. verdicts[c] \subseteq verdicts'[c]
    BY <1>4, <2>3 DEF Delivery
  <2>5. CASE lastDeploy' = lastDeploy
    BY <1>2, <2>4, <2>5 DEF OutcomeOf
  <2>6. CASE lastDeploy' # lastDeploy
    <3>1. tx.from = c /\ lastDeploy'.code = code
      BY <2>3, <2>6 DEF Recorded
    <3>2. code \notin {"ok", "incomplete", "not-wasm", "load-failed"} => ~Holds(c)
      BY <1>1, <2>2, <3>1, VerdictMeans
    <3> QED
      BY <2>3, <3>1, <3>2 DEF Holds
  <2> QED
    BY <2>5, <2>6
<1> QED
  BY <1>1, <1>3, <1>4, OnlyDeploysTell

\* A DEPLOY that succeeds arms the module of its sender, and no other DEPLOY arms any.
LEMMA ArmedByDeploy ==
  ASSUME TypesInv, TypesInv', NEW tx \in mempool, tx.kind = "deploy", Delivery(tx), NEW code,
         code = Verdict(tx.from, Target[tx.from], TRUE, Wants[tx.from])
  PROVE  /\ tx.from \in Sessions
         /\ code = "ok" => /\ RunsMine(tx.from)'
                           /\ \A s \in Slots \ {Target[tx.from]} : slotMeta'[s] = slotMeta[s]
         /\ code # "ok" => slotMeta' = slotMeta
<1>1. tx.from \in Sessions
  BY DEF Delivery, Tx
<1>2. ASSUME code = "ok"
      PROVE  RunsMine(tx.from)' /\ \A s \in Slots \ {Target[tx.from]} : slotMeta'[s] = slotMeta[s]
  <2>1. Described(Target[tx.from], Wants[tx.from])
    BY <1>2, DeployDelivered
  <2>2. slotMeta \in [Slots -> Description \cup {None}] /\ Target[tx.from] \in Slots
        /\ slotMeta'[Target[tx.from]] \in Description \cup {None}
    BY <1>1, ClientConstants DEF TypesInv, DeployInv, TypeOK
  <2> DEFINE new == [codeHash |-> Wants[tx.from], version |-> Version(Target[tx.from]) + 1]
  <2>3. slotMeta' = [slotMeta EXCEPT ![Target[tx.from]] = new]
    BY <2>1 DEF Described
  <2>4. new.codeHash = Wants[tx.from] /\ new \in Description
    <3>1. Version(Target[tx.from]) + 1 \in Nat
      BY <2>2 DEF Version, Description
    <3> QED
      BY <1>1, <3>1, ClientConstants DEF Description
  <2> HIDE DEF new
  <2> QED
    BY <2>2, <2>3, <2>4, NoneIsNothing DEF RunsMine
<1> QED
  BY <1>1, <1>2, DeployDelivered

LEMMA MetaInductive ==
  ASSUME TypesInv, TypesInv', MetaInv, [ClientNext]_allVars
  PROVE  MetaInv'
<1> SUFFICES ASSUME NEW s \in Slots, slotMeta'[s] # None
             PROVE  \E d \in Sessions : /\ Target[d] = s /\ Wants[d] = slotMeta'[s].codeHash
                                        /\ "ok" \in verdicts'[d]
  BY DEF MetaInv
<1>1. CASE UNCHANGED <<lastDeploy, slotMeta, verdicts>>
  BY <1>1 DEF MetaInv
<1>2. ASSUME NEW tx \in mempool, tx.kind = "deploy", Delivery(tx)
      PROVE  \E d \in Sessions : /\ Target[d] = s /\ Wants[d] = slotMeta'[s].codeHash
                                 /\ "ok" \in verdicts'[d]
  <2>1. PICK code : code = Verdict(tx.from, Target[tx.from], TRUE, Wants[tx.from])
    OBVIOUS
  <2>2. verdicts'[tx.from] = verdicts[tx.from] \cup {code}
    BY <1>2, <2>1, DeployDelivered
  <2>3. \A d \in Sessions : verdicts[d] \subseteq verdicts'[d]
    BY <1>2, <2>2 DEF Delivery
  <2>4. CASE slotMeta'[s] = slotMeta[s]
    BY <2>3, <2>4 DEF MetaInv
  <2>5. CASE slotMeta'[s] # slotMeta[s]
    <3>1. code = "ok" /\ s = Target[tx.from] /\ RunsMine(tx.from)' /\ tx.from \in Sessions
      BY <1>2, <2>1, <2>5, ArmedByDeploy
    <3> QED
      BY <2>2, <3>1 DEF RunsMine
  <2> QED
    BY <2>4, <2>5
<1> QED
  BY <1>1, <1>2, OnlyDeploysTell

\* A client that cannot interfere any more.
Spent(d) == ~Holds(d) /\ ~Sent(d, "begin") /\ client[d].pc \notin Early

\* How far the client of another deployment to the same slot can be, while c has yet
\* to see that its module was armed: it will not deploy before c has polled.
Behind(c, d) ==
  /\ ~Sent(d, "deploy") /\ client[d].pc \notin {"arming", "confirming", "armed"}
  /\ client[d].pc = "sending" =>
       client[d].txTick + 1 >= client[c].until + TxTickOffset - losses[c]
  /\ client[d].pc = "assembling" =>
       client[d].until >= client[c].until + TxTickOffset - losses[c]

\* When a client confirms, "until - polls" is the tick of its first poll.
ConfirmOf(c) ==
  LET self == client[c]  due == DueBy(client[c].tries) + losses[c] IN
  /\ self.tries <= Retries /\ self.polls <= self.until
  /\ self.txTick + self.polls <= self.until + due
  /\ \A tx \in mempool : tx.from = c /\ tx.kind = "deploy" =>
       tx.tick + self.polls <= self.until + due
  /\ self.tries < Retries => self.polls <= due + GraceTicks + 1
  /\ "ok" \in verdicts[c] => self.polls <= due + 1

AheadOf(c) ==
  "ok" \in verdicts[c] =>
    /\ RunsMine(c)
    /\ \A d \in Sessions \ {c} : Target[d] = Target[c] => Spent(d) \/ Behind(c, d)

AnswerOf(c) ==
  /\ client[c].pc \in {"confirming", "armed"} => client[c].until <= tick + 1
  /\ client[c].pc \in {"armed", "ok"} => "ok" \in verdicts[c]
  /\ client[c].pc = "confirming" /\ ("ok" \notin verdicts[c] \/ Watchful(c)) => ConfirmOf(c)
  /\ Watchful(c) =>
       /\ client[c].pc = "refused" => "ok" \notin verdicts[c] /\ ~Holds(c) /\ ~Sent(c, "begin")
       /\ client[c].pc = "unarmed" => "ok" \notin verdicts[c] /\ ~Sent(c, "deploy")
       /\ client[c].pc = "confirming" => AheadOf(c)

ReportInv ==
  /\ FitInv /\ BytesInv /\ MetaInv
  /\ \A c \in Sessions : OutcomeOf(c) /\ AnswerOf(c)

LEMMA WatchfulStays ==
  ASSUME TypesInv, TypesInv', [ClientNext]_allVars, NEW c \in Sessions, Watchful(c)'
  PROVE  Watchful(c)
<1>1. losses[c] \in Nat /\ losses'[c] \in Nat /\ losses'[c] >= losses[c] /\ TxTickOffset \in Nat
  BY LossesGrow, ClientConstants
<1> QED
  BY <1>1 DEF Watchful

LEMMA SpentStays ==
  ASSUME FitInv, [ClientNext]_allVars, NEW d \in Sessions, Spent(d)
  PROVE  Spent(d)'
<1>1. TypesInv /\ (Keeps(d) \/ Lacks(d) \/ Gains(d))
  BY HolderChanges DEF FitInv, ClosedInv, PhaseInv
<1>2. client'[d].pc \notin Early /\ ~Sent(d, "begin")'
  BY <1>1, ClaimIsOver DEF Spent
<1> QED
  BY <1>1, <1>2 DEF Spent, Keeps, Lacks, Gains

\* When the module of a client is armed, the others have not got anywhere.
LEMMA OthersAreBehind ==
  ASSUME FitInv, FitInv', [ClientNext]_allVars, NEW c \in Sessions, NEW tx \in mempool,
         tx.kind = "deploy", tx.from = c, Delivery(tx),
         "ok" = Verdict(c, Target[c], TRUE, Wants[c]), Holds(c), NEW d \in Sessions \ {c}
  PROVE  Spent(d)' \/ Behind(c, d)'
<1>1. /\ FitOf(d) /\ PhaseOf(d) /\ TypesInv
  BY DEF FitInv, ClosedInv, PhaseInv
<1>2. /\ ~Holds(d) /\ ~Holds(d)' /\ client' = client /\ mempool' \subseteq mempool
  BY DeployDelivered DEF Holds, Delivery
<1>3. ~Sent(d, "begin") => ~Sent(d, "begin")'
  BY <1>2 DEF Sent
<1>4. ~Sent(d, "deploy") => ~Sent(d, "deploy")'
  BY <1>2 DEF Sent
<1>5. CASE client[d].pc \in Early
  BY <1>1, <1>2, <1>4, <1>5 DEF PhaseOf, Undeployed, Deployed, Behind, Early
<1>6. CASE client[d].pc \notin Early /\ ~Sent(d, "begin")
  BY <1>2, <1>3, <1>6 DEF Spent
<1>7. CASE client[d].pc \notin Early /\ Sent(d, "begin")
  <2>1. client[d].pc \notin Past /\ ~Deployed(d)
    BY <1>1, <1>2, <1>7 DEF FitOf
  <2> QED
    BY <1>2, <1>4, <2>1 DEF Behind, Past, Deployed
<1> QED
  BY <1>5, <1>6, <1>7

\* While the module of a client runs in its slot, the others stay behind.
LEMMA OthersStayBehind ==
  ASSUME Lag = 0, FitInv, TypesInv', [ClientNext]_allVars, NEW c \in Sessions, AnswerOf(c),
         client[c].pc = "confirming", losses'[c] < TxTickOffset,
         \/ client'[c].until = client[c].until
         \/ client'[c].until = client[c].until + 1 /\ losses'[c] = losses[c] + 1,
         NEW d \in Sessions \ {c}, Behind(c, d)
  PROVE  Behind(c, d)'
<1> DEFINE x == client[c].until + TxTickOffset - losses[c]
           y == client'[c].until + TxTickOffset - losses'[c]
<1>1. /\ TypesInv /\ FitOf(c) /\ tick \in Nat /\ client[c] \in Client /\ client[d] \in Client
      /\ losses[c] \in Nat /\ losses'[c] \in Nat /\ losses'[c] >= losses[c]
  BY NodeNow, LossesGrow DEF FitInv, ClosedInv, PhaseInv
<1>2. /\ client[c].until \in Nat /\ client[d].until \in Nat /\ client[d].txTick \in Nat
      /\ TxTickOffset \in Nat
  BY <1>1, ClientConstants DEF Client
<1>3. x \in Int /\ y \in Int /\ y <= x /\ x >= client[c].until + 1 /\ x <= tick + TxTickOffset + 1
  BY <1>1, <1>2 DEF AnswerOf
<1>4. tick <= client[c].until
  BY <1>1, <1>2 DEF FitOf, ClaimOf, Prompt
<1>5. /\ ~Sent(d, "deploy") /\ client[d].pc \notin {"arming", "confirming", "armed"}
      /\ client[d].pc = "sending" => client[d].txTick + 1 >= x
      /\ client[d].pc = "assembling" => client[d].until >= x
  BY DEF Behind
<1> HIDE DEF x
<1>6. SUFFICES /\ ~Sent(d, "deploy")' /\ client'[d].pc \notin {"arming", "confirming", "armed"}
               /\ client'[d].pc = "sending" => client'[d].txTick + 1 >= x
               /\ client'[d].pc = "assembling" => client'[d].until >= x
  <2>1. client'[d] \in Client
    BY DEF TypesInv, ClientsType
  <2>2. client'[d].txTick \in Nat /\ client'[d].until \in Nat
    BY <2>1 DEF Client
  <2> QED
    BY <1>3, <2>2 DEF Behind
<1>7. CASE Bystands(d)
  BY <1>5, <1>7 DEF Bystands, Sent
<1>8. ASSUME NEW kind, kind # "deploy", Sends(d, kind)
      PROVE  ~Sent(d, "deploy")'
  BY <1>5, <1>8 DEF Sends, Sent
<1>9. MempoolType
  BY <1>1 DEF TypesInv
<1> DEFINE Goal == /\ ~Sent(d, "deploy")' /\ client'[d].pc \notin {"arming", "confirming", "armed"}
                   /\ client'[d].pc = "sending" => client'[d].txTick + 1 >= x
                   /\ client'[d].pc = "assembling" => client'[d].until >= x
<1>10. ASSUME NEW read \in BOOLEAN, Preflight(d, read) PROVE Goal
  <2>1. Sends(d, "chunk") /\ client'[d].pc \in {"claiming", "watching"}
    BY <1>1, <1>9, <1>10, PreflightMoves, SaysNothing DEF ClaimingNow
  <2> QED
    BY <1>8, <2>1
<1>11. ASSUME NEW read \in BOOLEAN, Watch(d, read) PROVE Goal
  <2>1. Sends(d, "chunk") /\ client'[d].pc \in {"claiming", "watching", "busy"}
    BY <1>1, <1>9, <1>11, WatchMoves, SaysNothing DEF ClaimingNow
  <2> QED
    BY <1>8, <2>1
<1>12. CASE SendBegin(d)
  <2>1. Sends(d, "begin") /\ client'[d].pc = "checking"
    BY <1>1, <1>12, SendBeginMoves
  <2> QED
    BY <1>8, <2>1
<1>13. ASSUME NEW read \in BOOLEAN, CheckClaim(d, read) PROVE Goal
  <2>1. /\ Sends(d, "chunk")
        /\ \/ client'[d].pc \in {"claiming", "busy", "unclaimed"}
           \/ client'[d].pc = "sending" /\ client'[d].txTick = tick + TxTickOffset
    BY <1>1, <1>9, <1>13, CheckClaimMoves, SaysNothing
  <2>2. tick + TxTickOffset + 1 >= x
    BY <1>1, <1>2, <1>3
  <2> QED
    BY <1>8, <2>1, <2>2
<1>14. CASE SendChunks(d)
  <2>1. /\ Sends(d, "chunk") /\ client[d].pc = "sending"
        /\ \/ client'[d].pc = "assembling" /\ client'[d].until = client[d].txTick + 1
           \/ client'[d].pc \in {"uncounted", "unsent"}
           \/ client'[d].pc = "sending" /\ client'[d].txTick = client[d].txTick
    BY <1>1, <1>14, SendChunksMoves
  <2> QED
    BY <1>5, <1>8, <2>1
<1>15. ASSUME NEW read \in BOOLEAN, Assemble(d, read) PROVE FALSE
  <2>1. client[d].pc = "assembling" /\ tick >= client[d].until
    BY <1>1, <1>15, AssembleMoves
  <2> QED
    BY <1>1, <1>2, <1>3, <1>4, <1>5, <2>1
<1>16. SendDeploy(d) \/ PollArmed(d) \/ PollUnarmed(d) \/ PollFails(d) => FALSE
  BY <1>1, <1>5, SendDeployMoves, PollArmedMoves, PollUnarmedMoves, PollFailsMoves
<1>17. CASE Crash(d)
  <2>1. Sends(d, "chunk") /\ client'[d].pc = "crashed"
    BY <1>1, <1>9, <1>17, CrashMoves, SaysNothing
  <2> QED
    BY <1>8, <2>1
<1> QED
  BY <1>1, <1>7, <1>10, <1>11, <1>12, <1>13, <1>14, <1>15, <1>16, <1>17, Bystanders DEF Step

LEMMA AheadStays ==
  ASSUME Lag = 0, FitInv, FitInv', BytesInv, [ClientNext]_allVars, NEW c \in Sessions,
         AnswerOf(c), client[c].pc = "confirming", Watchful(c)',
         \/ client'[c].until = client[c].until
         \/ client'[c].until = client[c].until + 1 /\ losses'[c] = losses[c] + 1
  PROVE  AheadOf(c)'
<1>1. TypesInv /\ TypesInv'
  BY DEF FitInv, ClosedInv, PhaseInv
<1>2. AheadOf(c)
  BY <1>1, WatchfulStays DEF AnswerOf
<1> SUFFICES ASSUME "ok" \in verdicts'[c]
             PROVE  /\ RunsMine(c)'
                    /\ \A d \in Sessions \ {c} : Target[d] = Target[c] => Spent(d)' \/ Behind(c, d)'
  BY DEF AheadOf
<1>3. CASE "ok" \notin verdicts[c]
  <2>1. PICK tx \in mempool : tx.kind = "deploy" /\ tx.from = c /\ Delivery(tx)
    BY <1>1, <1>3, VerdictGiven
  <2>2. PICK code : code = Verdict(c, Target[c], TRUE, Wants[c])
    OBVIOUS
  <2>3. verdicts'[c] = verdicts[c] \cup {code}
    BY <2>1, <2>2, DeployDelivered
  <2>4. code = "ok"
    BY <1>3, <2>3
  <2>5. Holds(c)
    BY <1>1, <2>2, <2>4, VerdictMeans
  <2>6. RunsMine(c)'
    BY <1>1, <2>1, <2>2, <2>4, ArmedByDeploy
  <2>7. ASSUME NEW d \in Sessions \ {c} PROVE Spent(d)' \/ Behind(c, d)'
    BY <2>1, <2>2, <2>4, <2>5, OthersAreBehind
  <2> QED
    BY <2>6, <2>7
<1>4. CASE "ok" \in verdicts[c]
  <2>1. /\ RunsMine(c)
        /\ \A d \in Sessions \ {c} : Target[d] = Target[c] => Spent(d) \/ Behind(c, d)
    BY <1>2, <1>4 DEF AheadOf
  <2>2. ASSUME NEW d \in Sessions \ {c}, Target[d] = Target[c] PROVE Spent(d)' \/ Behind(c, d)'
    <3>1. CASE Spent(d)
      BY <3>1, SpentStays
    <3>2. CASE Behind(c, d)
      <4>1. losses'[c] < TxTickOffset
        BY DEF Watchful
      <4> QED
        BY <1>1, <3>2, <4>1, OthersStayBehind
    <3> QED
      BY <2>1, <2>2, <3>1, <3>2
  <2>3. RunsMine(c)'
    <3>1. slotMeta'[Target[c]] = slotMeta[Target[c]] => RunsMine(c)'
      BY <2>1 DEF RunsMine
    <3>2. ASSUME NEW tx \in mempool, tx.kind = "deploy", Delivery(tx),
                 slotMeta'[Target[c]] # slotMeta[Target[c]]
          PROVE  tx.from = c /\ RunsMine(tx.from)'
      <4>1. PICK code : code = Verdict(tx.from, Target[tx.from], TRUE, Wants[tx.from])
        OBVIOUS
      <4>2. /\ code = "ok" /\ tx.from \in Sessions /\ RunsMine(tx.from)'
            /\ Target[tx.from] = Target[c]
        BY <1>1, <3>2, <4>1, ArmedByDeploy, ClientConstants
      <4>3. Holds(tx.from) /\ Sent(tx.from, "deploy")
        BY <1>1, <3>2, <4>1, <4>2, VerdictMeans DEF Sent
      <4> QED
        BY <2>1, <4>2, <4>3 DEF Spent, Behind
    <3> QED
      BY <1>1, <3>1, <3>2, OnlyDeploysTell
  <2> QED
    BY <2>2, <2>3
<1> QED
  BY <1>3, <1>4

LEMMA DueType ==
  ASSUME TypesInv, NEW c \in Sessions
  PROVE  /\ client[c] \in Client /\ client[c].until \in Nat /\ client[c].polls \in Nat
         /\ client[c].txTick \in Nat /\ client[c].tries \in Nat /\ tick \in Nat
         /\ client[c].polls <= MaxPolls /\ MaxPolls \in Nat
         /\ DueBy(client[c].tries) \in Nat /\ losses[c] \in Nat
         /\ TxTickOffset \in Nat /\ TxTickOffset >= 1 /\ GraceTicks \in Nat /\ Retries \in Nat
         /\ \A tx \in mempool : tx.tick \in Nat /\ tx.tick >= tick
<1>1. client[c] \in Client /\ tick \in Nat /\ losses[c] \in Nat
  BY NodeNow, ClientConstants DEF TypesInv, ClientsType
<1>2. client[c].tries \in Nat
  BY <1>1 DEF Client
<1>3. DueBy(client[c].tries) \in Nat
  BY <1>2, DueByType
<1>4. \A tx \in mempool : tx.tick \in Nat /\ tx.tick >= tick
  BY DEF TypesInv, MempoolType, Tx
<1> QED
  BY <1>1, <1>2, <1>3, <1>4, ClientConstants DEF Client

\* While a client does not move, its deadlines only get later.
LEMMA ConfirmStays ==
  ASSUME TypesInv, [ClientNext]_allVars, NEW c \in Sessions, Bystands(c),
         client[c].until <= tick + 1, ConfirmOf(c)
  PROVE  ConfirmOf(c)'
<1> DEFINE due == DueBy(client[c].tries)
<1>1. /\ client[c].until \in Nat /\ client[c].polls \in Nat /\ client[c].txTick \in Nat
      /\ due \in Nat /\ losses[c] \in Nat /\ GraceTicks \in Nat /\ tick \in Nat
      /\ \A tx \in mempool : tx.tick \in Nat /\ tx.tick >= tick
  BY DueType
<1>2. losses'[c] \in Nat /\ losses'[c] >= losses[c]
  BY LossesGrow
<1>3. /\ client[c].tries <= Retries /\ client[c].polls <= client[c].until
      /\ client[c].txTick + client[c].polls <= client[c].until + (due + losses[c])
      /\ \A tx \in mempool : tx.from = c /\ tx.kind = "deploy" =>
           tx.tick + client[c].polls <= client[c].until + (due + losses[c])
      /\ client[c].tries < Retries => client[c].polls <= due + losses[c] + GraceTicks + 1
      /\ "ok" \in verdicts[c] => client[c].polls <= due + losses[c] + 1
  BY DEF ConfirmOf
<1> HIDE DEF due
<1>4. /\ client[c].txTick + client[c].polls <= client[c].until + (due + losses'[c])
      /\ client[c].tries < Retries => client[c].polls <= due + losses'[c] + GraceTicks + 1
  BY <1>1, <1>2, <1>3
<1>5. ASSUME NEW tx \in mempool, tx.from = c, tx.kind = "deploy"
      PROVE  /\ tx.tick + client[c].polls <= client[c].until + (due + losses'[c])
             /\ client[c].polls <= due + losses'[c] + 1
  BY <1>1, <1>2, <1>3, <1>5
<1>6. "ok" \in verdicts'[c] => client[c].polls <= due + losses'[c] + 1
  <2>1. CASE "ok" \in verdicts[c]
    BY <1>1, <1>2, <1>3, <2>1
  <2>2. CASE "ok" \in verdicts'[c] /\ "ok" \notin verdicts[c]
    BY <1>5, <2>2, VerdictGiven
  <2> QED
    BY <2>1, <2>2
<1>7. client'[c] = client[c] /\ \A tx \in mempool' : tx.from = c => tx \in mempool
  BY DEF Bystands
<1>8. due = DueBy(client'[c].tries)
  BY <1>7 DEF due
<1> QED
  BY <1>3, <1>4, <1>5, <1>6, <1>7, <1>8 DEF ConfirmOf

\* A poll that finds nothing, or fails.
LEMMA ConfirmPolls ==
  ASSUME TypesInv, TypesInv', NEW c \in Sessions, Moves(c), mempool' = mempool,
         ConfirmOf(c), tick = client[c].until, client[c].polls < MaxPolls,
         client'[c].polls = client[c].polls + 1, client'[c].until = tick + 1,
         client'[c].tries = client[c].tries, client'[c].txTick = client[c].txTick,
         \/ losses'[c] = losses[c] + 1
         \/ "ok" \notin verdicts[c] /\ ~(MissedItsTick(c) /\ client[c].tries < Retries)
  PROVE  ConfirmOf(c)'
<1> DEFINE due == DueBy(client[c].tries)
<1>1. /\ client[c].until \in Nat /\ client[c].polls \in Nat /\ client[c].txTick \in Nat
      /\ due \in Nat /\ losses[c] \in Nat /\ GraceTicks \in Nat
      /\ \A tx \in mempool : tx.tick \in Nat
  BY DueType
<1>2. losses'[c] \in Nat /\ losses'[c] >= losses[c] /\ verdicts' = verdicts
  BY ClientConstants DEF Moves, TypesInv, ClientsType
<1>3. /\ client[c].tries <= Retries /\ client[c].polls <= client[c].until
      /\ client[c].txTick + client[c].polls <= client[c].until + (due + losses[c])
      /\ \A tx \in mempool : tx.from = c /\ tx.kind = "deploy" =>
           tx.tick + client[c].polls <= client[c].until + (due + losses[c])
      /\ client[c].tries < Retries => client[c].polls <= due + losses[c] + GraceTicks + 1
      /\ "ok" \in verdicts[c] => client[c].polls <= due + losses[c] + 1
  BY DEF ConfirmOf
<1> HIDE DEF due
<1>4. /\ client'[c].polls <= client'[c].until
      /\ client'[c].txTick + client'[c].polls <= client'[c].until + (due + losses'[c])
  BY <1>1, <1>2, <1>3
<1>5. ASSUME NEW tx \in mempool, tx.from = c, tx.kind = "deploy"
      PROVE  tx.tick + client'[c].polls <= client'[c].until + (due + losses'[c])
  BY <1>1, <1>2, <1>3, <1>5
<1>6. client'[c].tries < Retries => client'[c].polls <= due + losses'[c] + GraceTicks + 1
  <2>1. CASE losses'[c] = losses[c] + 1
    BY <1>1, <1>2, <1>3, <2>1
  <2>2. CASE ~MissedItsTick(c)
    BY <1>1, <1>2, <1>3, <2>2 DEF MissedItsTick
  <2> QED
    BY <2>1, <2>2
<1>7. "ok" \in verdicts'[c] => client'[c].polls <= due + losses'[c] + 1
  BY <1>1, <1>2, <1>3
<1>8. due = DueBy(client'[c].tries)
  BY DEF due
<1> QED
  BY <1>3, <1>4, <1>5, <1>6, <1>7, <1>8 DEF ConfirmOf

\* A poll that sends the DEPLOY again.
LEMMA ConfirmResends ==
  ASSUME TypesInv, TypesInv', NEW c \in Sessions, Moves(c), Sends(c, "deploy"),
         ConfirmOf(c), tick = client[c].until, client[c].tries < Retries,
         client'[c].polls = client[c].polls + 1, client'[c].until = tick + 1,
         client'[c].tries = client[c].tries + 1,
         client'[c].txTick \in {client[c].txTick, tick + TxTickOffset},
         "ok" \notin verdicts[c]
  PROVE  ConfirmOf(c)'
<1> DEFINE due == DueBy(client[c].tries)
           next == DueBy(client'[c].tries)
<1>1. /\ client[c].until \in Nat /\ client[c].polls \in Nat /\ client[c].txTick \in Nat
      /\ client[c].tries \in Nat /\ Retries \in Nat /\ TxTickOffset \in Nat
      /\ due \in Nat /\ losses[c] \in Nat /\ GraceTicks \in Nat
      /\ \A tx \in mempool : tx.tick \in Nat
  BY DueType
<1>2. losses'[c] \in Nat /\ losses'[c] >= losses[c] /\ verdicts' = verdicts
  BY ClientConstants DEF Moves, TypesInv, ClientsType
<1>3. /\ client[c].tries <= Retries /\ client[c].polls <= client[c].until
      /\ client[c].txTick + client[c].polls <= client[c].until + (due + losses[c])
      /\ \A tx \in mempool : tx.from = c /\ tx.kind = "deploy" =>
           tx.tick + client[c].polls <= client[c].until + (due + losses[c])
      /\ client[c].polls <= due + losses[c] + GraceTicks + 1
  BY DEF ConfirmOf
<1>4. next \in Nat /\ next = due + ResendRound /\ ResendRound = GraceTicks + 1 + TxTickOffset
  <2>1. client[c].tries + 1 \in Nat
    BY <1>1
  <2>2. DueBy(client[c].tries + 1) \in Nat /\ DueBy(client[c].tries + 1) = due + ResendRound
    BY <1>1, <2>1, DueByType
  <2>3. next = DueBy(client[c].tries + 1)
    OBVIOUS
  <2> HIDE DEF due, next
  <2> QED
    BY <2>2, <2>3 DEF ResendRound
<1> HIDE DEF due, next
<1>5. /\ client'[c].polls <= client'[c].until /\ client'[c].tries <= Retries
      /\ tick + TxTickOffset + client'[c].polls <= client'[c].until + (next + losses'[c])
  BY <1>1, <1>2, <1>3, <1>4
<1>6. client'[c].txTick + client'[c].polls <= client'[c].until + (next + losses'[c])
  BY <1>1, <1>2, <1>3, <1>4, <1>5
<1>7. ASSUME NEW tx \in mempool', tx.from = c, tx.kind = "deploy"
      PROVE  tx.tick + client'[c].polls <= client'[c].until + (next + losses'[c])
  <2>1. CASE tx \in mempool
    BY <1>1, <1>2, <1>3, <1>4, <1>7, <2>1
  <2>2. CASE tx \notin mempool
    <3>1. tx.tick = tick + TxTickOffset
      BY <1>7, <2>2 DEF Sends
    <3> QED
      BY <1>5, <3>1
  <2> QED
    BY <2>1, <2>2
<1>8. client'[c].polls <= next + losses'[c] + GraceTicks + 1
  BY <1>1, <1>2, <1>3, <1>4
<1>9. next = DueBy(client'[c].tries)
  BY DEF next
<1> QED
  BY <1>2, <1>5, <1>6, <1>7, <1>8, <1>9 DEF ConfirmOf

\* A client that gives up has nothing under way, and was not armed.
LEMMA EnoughPolls ==
  ASSUME TypesInv, NEW c \in Sessions, ConfirmOf(c),
         DueBy(Retries) + losses[c] + 1 < MaxPolls,
         tick = client[c].until, client[c].polls = MaxPolls
  PROVE  /\ "ok" \notin verdicts[c] /\ ~Sent(c, "deploy") /\ ~(client[c].tries < Retries)
<1> DEFINE due == DueBy(client[c].tries)
           last == DueBy(Retries)
<1>1. /\ client[c].until \in Nat /\ client[c].polls \in Nat /\ client[c].txTick \in Nat
      /\ client[c].tries \in Nat /\ Retries \in Nat /\ TxTickOffset \in Nat
      /\ due \in Nat /\ losses[c] \in Nat /\ GraceTicks \in Nat
      /\ \A tx \in mempool : tx.tick \in Nat /\ tx.tick >= tick
  BY DueType
<1>2. /\ client[c].tries <= Retries
      /\ \A tx \in mempool : tx.from = c /\ tx.kind = "deploy" =>
           tx.tick + client[c].polls <= client[c].until + (due + losses[c])
      /\ client[c].tries < Retries => client[c].polls <= due + losses[c] + GraceTicks + 1
      /\ "ok" \in verdicts[c] => client[c].polls <= due + losses[c] + 1
  BY DEF ConfirmOf
<1>3. last \in Nat /\ due <= last /\ last + losses[c] + 1 < MaxPolls /\ MaxPolls \in Nat
  <2>1. last \in Nat /\ due <= last
    BY <1>1, <1>2, DueByType
  <2>2. MaxPolls \in Nat
    BY ClientConstants
  <2> HIDE DEF due
  <2> QED
    BY <1>1, <2>1, <2>2
<1>4. client[c].tries < Retries => due + (GraceTicks + 1 + TxTickOffset) <= last
  <2> SUFFICES ASSUME client[c].tries < Retries
               PROVE  due + (GraceTicks + 1 + TxTickOffset) <= last
    OBVIOUS
  <2>1. client[c].tries + 1 \in Nat /\ client[c].tries + 1 <= Retries
    BY <1>1
  <2>2. DueBy(client[c].tries + 1) = due + ResendRound /\ DueBy(client[c].tries + 1) <= last
    BY <1>1, <2>1, DueByType
  <2> HIDE DEF due, last
  <2> QED
    BY <2>2 DEF ResendRound
<1> HIDE DEF due, last
<1>5. client[c].polls > due + losses[c] + 1
  BY <1>1, <1>3
<1>6. ~(client[c].tries < Retries)
  BY <1>1, <1>2, <1>3, <1>4
<1>7. ASSUME NEW tx \in mempool, tx.from = c, tx.kind = "deploy" PROVE FALSE
  BY <1>1, <1>2, <1>5, <1>7
<1>8. "ok" \notin verdicts[c]
  BY <1>1, <1>2, <1>5
<1> QED
  BY <1>6, <1>7, <1>8 DEF Sent

LEMMA PollsOfWatchful ==
  ASSUME PollsOutlastResends, TypesInv, NEW c \in Sessions, Watchful(c)
  PROVE  DueBy(Retries) + losses[c] + 1 < MaxPolls
<1>1. /\ losses[c] \in Nat /\ TxTickOffset \in Nat /\ MaxPolls \in Nat /\ DueBy(Retries) \in Nat
  BY DueType, DueByType
<1> QED
  BY <1>1 DEF Watchful, PollsOutlastResends

LEMMA ArmedIsMine ==
  ASSUME ClientsDiffer, MetaInv, NEW c \in Sessions, RunsMine(c)
  PROVE  "ok" \in verdicts[c]
BY ClientConstants DEF MetaInv, RunsMine, ClientsDiffer

LEMMA ConfirmingTick ==
  ASSUME Lag = 0, TypesInv, NEW c \in Sessions, FitOf(c), tick >= client[c].until,
         client[c].pc \in {"confirming", "armed"}
  PROVE  tick = client[c].until
<1>1. tick \in Nat /\ client[c].until \in Nat
  BY DueType
<1> QED
  BY <1>1 DEF FitOf, ClaimOf, Prompt

LEMMA SendDeployAnswers ==
  ASSUME TypesInv, TypesInv', NEW c \in Sessions, PhaseOf(c), SendDeploy(c)
  PROVE  AnswerOf(c)'
<1>1. /\ Moves(c) /\ Looks /\ Sends(c, "deploy") /\ client[c].pc = "arming" /\ tick' = tick
      /\ \/ client'[c].pc = "threw"
         \/ /\ client'[c].pc = "confirming" /\ client'[c].txTick = tick + TxTickOffset
            /\ client'[c].tries = 0 /\ client'[c].polls = 0 /\ client'[c].until = tick
  BY SendDeployMoves DEF Looks
<1>2. CASE client'[c].pc = "threw"
  BY <1>2 DEF AnswerOf
<1>3. CASE /\ client'[c].pc = "confirming" /\ client'[c].txTick = tick + TxTickOffset
           /\ client'[c].tries = 0 /\ client'[c].polls = 0 /\ client'[c].until = tick
  <2>1. ~Deployed(c) /\ verdicts' = verdicts
    BY <1>1 DEF PhaseOf, Undeployed, Moves
  <2>2. /\ tick \in Nat /\ TxTickOffset \in Nat /\ Retries \in Nat /\ GraceTicks \in Nat
        /\ losses'[c] \in Nat
    BY NodeNow, ClientConstants DEF TypesInv, ClientsType
  <2>3. DueBy(0) = TxTickOffset
    BY <2>2, ClientConstants DEF DueBy, ResendRound
  <2>4. \A tx \in mempool' : tx.from = c /\ tx.kind = "deploy" => tx.tick = tick + TxTickOffset
    BY <1>1, <2>1 DEF Deployed, Sent, Sends
  <2>5. "ok" \notin verdicts'[c]
    BY <2>1 DEF Deployed
  <2>6. ConfirmOf(c)'
    BY <1>3, <2>2, <2>3, <2>4, <2>5 DEF ConfirmOf
  <2>7. AheadOf(c)'
    BY <2>5 DEF AheadOf
  <2> QED
    BY <1>1, <1>3, <2>2, <2>6, <2>7 DEF AnswerOf
<1> QED
  BY <1>1, <1>2, <1>3

LEMMA PollArmedAnswers ==
  ASSUME ClientsDiffer, MetaInv, TypesInv, TypesInv', NEW c \in Sessions, PollArmed(c)
  PROVE  AnswerOf(c)'
<1>1. /\ Moves(c) /\ RunsMine(c) /\ tick' = tick /\ client'[c].pc \in {"ok", "armed"}
      /\ client'[c].pc = "armed" => client'[c].until = tick + 1
  BY PollArmedMoves DEF Looks
<1>2. "ok" \in verdicts'[c] /\ tick \in Nat
  BY <1>1, ArmedIsMine, NodeNow DEF Moves
<1> QED
  BY <1>1, <1>2 DEF AnswerOf

LEMMA PollUnarmedAnswers ==
  ASSUME Lag = 0, PollsOutlastResends, TypesInv, TypesInv', [ClientNext]_allVars, NEW c \in Sessions,
         FitOf(c), PhaseOf(c), OutcomeOf(c), AnswerOf(c), PollUnarmed(c)
  PROVE  AnswerOf(c)'
<1>1. /\ Moves(c) /\ Looks /\ Sends(c, "deploy") /\ tick' = tick
      /\ client[c].pc \in {"confirming", "armed"} /\ tick >= client[c].until
      /\ ~RunsMine(c) /\ PollResult(c)
  BY PollUnarmedMoves DEF Looks
<1>2. /\ tick = client[c].until /\ tick \in Nat /\ verdicts' = verdicts
      /\ losses[c] \in Nat /\ losses'[c] \in Nat /\ losses'[c] >= losses[c] /\ TxTickOffset \in Nat
  BY <1>1, ConfirmingTick, NodeNow, ClientConstants DEF Moves, TypesInv, ClientsType
<1>3. client'[c].pc \in {"confirming", "armed"} =>
        client'[c].until = tick + 1 /\ client'[c].pc = client[c].pc
  BY <1>1 DEF PollResult, Resends, Polled
<1>4. CASE client[c].pc = "armed"
  <2>1. client'[c].pc \in {"armed", "ok"}
    BY <1>1, <1>4 DEF PollResult, Resends, Polled
  <2>2. "ok" \in verdicts'[c]
    BY <1>2, <1>4 DEF AnswerOf
  <2> QED
    BY <1>1, <1>2, <1>3, <2>1, <2>2 DEF AnswerOf
<1>5. CASE client[c].pc = "confirming"
  <2>1. client'[c].pc \in {"confirming", "refused", "unarmed"}
    BY <1>1, <1>5 DEF PollResult, Resends, Polled
  <2> SUFFICES ASSUME "ok" \notin verdicts'[c] \/ Watchful(c)'
               PROVE  /\ client'[c].pc = "refused" =>
                           "ok" \notin verdicts'[c] /\ ~Holds(c)' /\ ~Sent(c, "begin")'
                      /\ client'[c].pc = "unarmed" /\ Watchful(c)' =>
                           "ok" \notin verdicts'[c] /\ ~Sent(c, "deploy")'
                      /\ client'[c].pc = "confirming" => ConfirmOf(c)' /\ AheadOf(c)'
    BY <1>1, <1>2, <1>3, <2>1 DEF AnswerOf
  <2>2. Watchful(c)' => Watchful(c) /\ DueBy(Retries) + losses[c] + 1 < MaxPolls
    BY WatchfulStays, PollsOfWatchful
  <2>3. ConfirmOf(c) /\ "ok" \notin verdicts[c] /\ "ok" \notin verdicts'[c]
    BY <1>1, <1>2, <1>5, <2>2 DEF AnswerOf, AheadOf
  <2>4. AheadOf(c)'
    BY <2>3 DEF AheadOf
  <2>5. ASSUME Refused(c), mempool' = mempool, client'[c].pc = "refused"
        PROVE  ~Holds(c)' /\ ~Sent(c, "begin")'
    <3>1. ~Holds(c)
      BY <2>5 DEF Refused, OutcomeOf
    <3>2. upload # None => upload \in Upload
      BY DEF TypesInv, DeployInv, TypeOK
    <3>3. ~Holds(c)'
      BY <1>1, <3>1, <3>2, LooksKeepsHolder DEF Holds
    <3> QED
      BY <1>5, <2>5, <3>3 DEF PhaseOf, Sent
  <2>6. ASSUME client[c].polls = MaxPolls, Watchful(c)'
        PROVE  ~Sent(c, "deploy") /\ ~(client[c].tries < Retries)
    BY <1>2, <2>2, <2>3, <2>6, EnoughPolls
  <2>7. CASE /\ Refused(c) /\ mempool' = mempool
             /\ client'[c].pc = IF client[c].pc = "armed" THEN "ok" ELSE "refused"
    BY <1>5, <2>3, <2>5, <2>7
  <2>8. CASE Resends(c)
    <3>1. CASE client'[c].pc = "confirming"
      <4>1. /\ client'[c].polls = client[c].polls + 1
            /\ client'[c].until = tick + 1 /\ client'[c].tries = client[c].tries + 1
            /\ client'[c].txTick \in {client[c].txTick, tick + TxTickOffset}
            /\ client[c].tries < Retries
        BY <2>8, <3>1 DEF Resends
      <4>2. ConfirmOf(c)'
        BY <1>1, <1>2, <2>3, <4>1, ConfirmResends
      <4> QED
        BY <2>4, <3>1, <4>2
    <3>2. CASE client'[c].pc # "confirming"
      <4>1. client[c].polls = MaxPolls /\ client[c].tries < Retries
        BY <1>5, <2>8, <3>2 DEF Resends
      <4> QED
        BY <2>6, <2>1, <3>2, <4>1, <2>8, <1>5 DEF Resends
    <3> QED
      BY <3>1, <3>2
  <2>9. CASE /\ ~Refused(c) /\ ~(MissedItsTick(c) /\ client[c].tries < Retries)
             /\ mempool' = mempool /\ Polled(client[c], client'[c])
    <3>1. CASE client[c].polls < MaxPolls
      <4>1. /\ client'[c].pc = "confirming" /\ client'[c].polls = client[c].polls + 1
            /\ client'[c].until = tick + 1 /\ client'[c].tries = client[c].tries
            /\ client'[c].txTick = client[c].txTick
        BY <1>5, <2>9, <3>1, ClientConstants DEF Polled
      <4>2. ConfirmOf(c)'
        BY <1>1, <1>2, <2>3, <2>9, <3>1, <4>1, ConfirmPolls
      <4> QED
        BY <2>4, <4>1, <4>2
    <3>2. CASE client[c].polls = MaxPolls
      <4>1. client'[c].pc = "unarmed"
        BY <1>5, <2>9, <3>2, ClientConstants DEF Polled
      <4>2. Watchful(c)' => ~Sent(c, "deploy")'
        BY <2>6, <2>9, <3>2 DEF Sent
      <4> QED
        BY <2>3, <4>1, <4>2
    <3> QED
      BY <2>9, <3>1, <3>2 DEF Polled
  <2> QED
    BY <1>1, <2>7, <2>8, <2>9 DEF PollResult
<1> QED
  BY <1>1, <1>4, <1>5

LEMMA PollFailsAnswers ==
  ASSUME Lag = 0, PollsOutlastResends, FitInv, FitInv', BytesInv, [ClientNext]_allVars,
         NEW c \in Sessions, AnswerOf(c), PollFails(c)
  PROVE  AnswerOf(c)'
<1>1. TypesInv /\ TypesInv' /\ FitOf(c)
  BY DEF FitInv, ClosedInv, PhaseInv
<1>2. /\ Moves(c) /\ mempool' = mempool /\ tick' = tick
      /\ client[c].pc \in {"confirming", "armed"} /\ tick >= client[c].until
      /\ losses'[c] = losses[c] + 1 /\ Polled(client[c], client'[c])
  BY <1>1, PollFailsMoves DEF Looks
<1>3. /\ tick = client[c].until /\ tick \in Nat /\ verdicts' = verdicts /\ losses[c] \in Nat
      /\ TxTickOffset \in Nat
  BY <1>1, <1>2, ConfirmingTick, NodeNow, ClientConstants DEF Moves, TypesInv, ClientsType
<1>4. CASE client[c].pc = "armed"
  <2>1. /\ client'[c].pc \in {"armed", "ok"}
        /\ (client'[c].pc = "armed" => client'[c].until = tick + 1)
    BY <1>2, <1>4 DEF Polled
  <2>2. "ok" \in verdicts'[c]
    BY <1>3, <1>4 DEF AnswerOf
  <2> QED
    BY <1>2, <1>3, <2>1, <2>2 DEF AnswerOf
<1>5. CASE client[c].pc = "confirming"
  <2>1. client'[c].pc \in {"confirming", "unarmed"}
        /\ (client'[c].pc = "confirming" => client'[c].until = tick + 1)
    BY <1>2, <1>5 DEF Polled
  <2> SUFFICES ASSUME "ok" \notin verdicts'[c] \/ Watchful(c)'
               PROVE  /\ client'[c].pc = "unarmed" /\ Watchful(c)' =>
                           "ok" \notin verdicts'[c] /\ ~Sent(c, "deploy")'
                      /\ client'[c].pc = "confirming" =>
                           ConfirmOf(c)' /\ (Watchful(c)' => AheadOf(c)')
    BY <1>2, <1>3, <2>1 DEF AnswerOf
  <2>2. ConfirmOf(c)
    BY <1>1, <1>3, <1>5, WatchfulStays DEF AnswerOf
  <2>3. CASE client[c].polls < MaxPolls
    <3>1. /\ client'[c].pc = "confirming" /\ client'[c].polls = client[c].polls + 1
          /\ client'[c].until = tick + 1 /\ client'[c].tries = client[c].tries
          /\ client'[c].txTick = client[c].txTick
      BY <1>2, <1>5, <2>3, ClientConstants DEF Polled
    <3>2. ConfirmOf(c)'
      BY <1>1, <1>2, <1>3, <2>2, <2>3, <3>1, ConfirmPolls
    <3>3. Watchful(c)' => AheadOf(c)'
      BY <1>2, <1>3, <1>5, <3>1, AheadStays
    <3> QED
      BY <3>1, <3>2, <3>3
  <2>4. CASE client[c].polls = MaxPolls
    <3>1. client'[c].pc = "unarmed"
      BY <1>2, <1>5, <2>4, ClientConstants DEF Polled
    <3>2. ASSUME Watchful(c)' PROVE "ok" \notin verdicts[c] /\ ~Sent(c, "deploy")
      <4>1. DueBy(Retries) + losses[c] + 1 < MaxPolls
        BY <1>1, <3>2, WatchfulStays, PollsOfWatchful
      <4> QED
        BY <1>1, <1>3, <2>2, <2>4, <4>1, EnoughPolls
    <3> QED
      BY <1>2, <1>3, <3>1, <3>2 DEF Sent
  <2> QED
    BY <1>2, <2>3, <2>4 DEF Polled
<1> QED
  BY <1>2, <1>4, <1>5

LEMMA AnswerStays ==
  ASSUME Lag = 0, FitInv, FitInv', BytesInv, [ClientNext]_allVars, NEW c \in Sessions,
         AnswerOf(c), Bystands(c)
  PROVE  AnswerOf(c)'
<1>1. /\ TypesInv /\ TypesInv' /\ PhaseOf(c) /\ (Keeps(c) \/ Lacks(c) \/ Gains(c))
      /\ losses'[c] >= losses[c] /\ losses[c] \in Nat /\ losses'[c] \in Nat
      /\ client'[c] = client[c] /\ tick' \in {tick, tick + 1}
      /\ tick \in Nat /\ client[c].until \in Nat /\ TxTickOffset \in Nat
  BY HolderChanges, LossesGrow, DueType DEF FitInv, ClosedInv, PhaseInv, Bystands
<1>2. /\ Sent(c, "begin")' => Sent(c, "begin")
      /\ Sent(c, "deploy")' => Sent(c, "deploy")
  BY DEF Bystands, Sent
<1>3. ASSUME NEW tx \in mempool, tx.kind = "deploy", tx.from = c, Delivery(tx)
      PROVE  /\ Sent(c, "deploy") /\ verdicts[c] \subseteq verdicts'[c]
             /\ "ok" \in verdicts'[c] /\ "ok" \notin verdicts[c] => Holds(c)
  <2>1. PICK code : code = Verdict(c, Target[c], TRUE, Wants[c])
    OBVIOUS
  <2>2. verdicts'[c] = verdicts[c] \cup {code}
    BY <1>3, <2>1, DeployDelivered
  <2>3. code = "ok" => Holds(c)
    BY <1>1, <2>1, VerdictMeans
  <2> QED
    BY <1>3, <2>2, <2>3 DEF Sent
<1>4. /\ verdicts[c] \subseteq verdicts'[c]
      /\ "ok" \in verdicts'[c] /\ "ok" \notin verdicts[c] => Sent(c, "deploy") /\ Holds(c)
  <2>1. CASE verdicts'[c] = verdicts[c]
    BY <2>1
  <2>2. CASE verdicts'[c] # verdicts[c]
    BY <1>1, <1>3, <2>2, VerdictGiven
  <2> QED
    BY <2>1, <2>2
<1>5. client[c].pc \in {"confirming", "armed"} => client[c].until <= tick' + 1
  BY <1>1 DEF AnswerOf
<1>6. client[c].pc \in {"armed", "ok"} => "ok" \in verdicts'[c]
  BY <1>4 DEF AnswerOf
<1>7. ASSUME Watchful(c)'
      PROVE  /\ client[c].pc = "refused" =>
                  "ok" \notin verdicts'[c] /\ ~Holds(c)' /\ ~Sent(c, "begin")'
             /\ client[c].pc = "unarmed" => "ok" \notin verdicts'[c] /\ ~Sent(c, "deploy")'
             /\ client[c].pc = "confirming" => AheadOf(c)'
  <2>1. Watchful(c)
    BY <1>1, <1>7, WatchfulStays
  <2>2. /\ client[c].pc = "refused" => "ok" \notin verdicts[c] /\ ~Holds(c) /\ ~Sent(c, "begin")
        /\ client[c].pc = "unarmed" => "ok" \notin verdicts[c] /\ ~Sent(c, "deploy")
    BY <2>1 DEF AnswerOf
  <2>3. ~Holds(c) /\ ~Sent(c, "begin") => ~Holds(c)'
    BY <1>1 DEF Keeps, Lacks, Gains
  <2>4. client[c].pc = "confirming" => AheadOf(c)'
    BY <1>1, <1>7, AheadStays
  <2> QED
    BY <1>2, <1>4, <2>2, <2>3, <2>4
<1>8. ASSUME client[c].pc = "confirming", "ok" \notin verdicts'[c] \/ Watchful(c)'
      PROVE  ConfirmOf(c)'
  <2>1. "ok" \notin verdicts[c] \/ Watchful(c)
    BY <1>1, <1>4, <1>8, WatchfulStays
  <2>2. ConfirmOf(c) /\ client[c].until <= tick + 1
    BY <1>8, <2>1 DEF AnswerOf
  <2> QED
    BY <1>1, <2>2, ConfirmStays
<1> QED
  BY <1>1, <1>5, <1>6, <1>7, <1>8 DEF AnswerOf

LEMMA ReportInductive ==
  ASSUME Lag = 0, RetriesFitASession, PollsOutlastResends, ClientsDiffer
  PROVE  ReportInv /\ [ClientNext]_allVars => ReportInv'
<1> SUFFICES ASSUME ReportInv, [ClientNext]_allVars PROVE ReportInv'
  OBVIOUS
<1>1. FitInv /\ FitInv' /\ TypesInv /\ TypesInv'
  BY FitInductive DEF ReportInv, FitInv, ClosedInv, PhaseInv
<1>2. BytesInv /\ BytesInv' /\ MetaInv /\ MetaInv'
  BY <1>1, BytesInductive, MetaInductive DEF ReportInv
<1>3. ASSUME NEW c \in Sessions PROVE OutcomeOf(c)'
  BY <1>1, <1>2, OutcomeInductive DEF ReportInv
<1>4. ASSUME NEW c \in Sessions PROVE AnswerOf(c)'
  <2>1. FitOf(c) /\ PhaseOf(c) /\ OutcomeOf(c) /\ AnswerOf(c)
    BY DEF ReportInv, FitInv, ClosedInv, PhaseInv
  <2>2. CASE client'[c].pc \notin {"confirming", "armed", "ok", "refused", "unarmed"}
    BY <2>2 DEF AnswerOf
  <2>3. CASE Bystands(c)
    BY <1>1, <1>2, <2>1, <2>3, AnswerStays
  <2>4. ASSUME NEW read \in BOOLEAN, Preflight(c, read) \/ Watch(c, read)
        PROVE  client'[c].pc \in {"claiming", "watching", "busy"}
    BY <1>1, <2>4, PreflightMoves, WatchMoves DEF ClaimingNow
  <2>5. ASSUME NEW read \in BOOLEAN, CheckClaim(c, read)
        PROVE  client'[c].pc \in {"sending", "busy", "unclaimed", "claiming"}
    BY <1>1, <2>5, CheckClaimMoves
  <2>6. ASSUME NEW read \in BOOLEAN, Assemble(c, read)
        PROVE  client'[c].pc \in {"busy", "threw", "arming", "assembling"}
    BY <1>1, <2>6, AssembleMoves DEF AssembleResult
  <2>7. SendBegin(c) => client'[c].pc = "checking"
    BY <1>1, SendBeginMoves
  <2>8. SendChunks(c) => client'[c].pc \in {"assembling", "uncounted", "unsent", "sending"}
    BY <1>1, SendChunksMoves
  <2>9. Crash(c) => client'[c].pc = "crashed"
    BY <1>1, CrashMoves
  <2>10. CASE SendDeploy(c)
    BY <1>1, <2>1, <2>10, SendDeployAnswers
  <2>11. CASE PollArmed(c)
    BY <1>1, <1>2, <2>11, PollArmedAnswers
  <2>12. CASE PollUnarmed(c)
    BY <1>1, <2>1, <2>12, PollUnarmedAnswers
  <2>13. CASE PollFails(c)
    BY <1>1, <1>2, <2>1, <2>13, PollFailsAnswers
  <2> QED
    BY <1>1, <2>2, <2>3, <2>4, <2>5, <2>6, <2>7, <2>8, <2>9, <2>10, <2>11, <2>12, <2>13,
       Bystanders DEF Step
<1> QED
  BY <1>1, <1>2, <1>3, <1>4 DEF ReportInv

\* What a client reports is what happened to its own module, when it polls in every
\* tick, its session outlives its retries, it polls until its last DEPLOY is handled,
\* and no other client deploys the same module to the same slot.
THEOREM ReportsTellWhatHappened ==
  ASSUME Lag = 0, RetriesFitASession, PollsOutlastResends, ClientsDiffer
  PROVE  ClientSpec => []ReportsAreTrue
<1>1. ClientInit => ReportInv
  <2> SUFFICES ASSUME ClientInit PROVE ReportInv
    OBVIOUS
  <2>1. /\ upload = None /\ lastDeploy = None /\ \A s \in Slots : slotMeta[s] = None
        /\ \A c \in Sessions : client[c].pc = "start"
    BY DEF ClientInit, Init, Resting
  <2> QED
    BY <2>1, FitInit DEF ReportInv, BytesInv, MetaInv, OutcomeOf, AnswerOf
<1>2. ReportInv => ReportsAreTrue
  <2> SUFFICES ASSUME ReportInv PROVE ReportsAreTrue
    OBVIOUS
  <2>1. TypesInv
    BY DEF ReportInv, FitInv, ClosedInv, PhaseInv
  <2>2. ClientTypeOK
    BY <2>1 DEF TypesInv, ClientsType, MempoolType, ClientTypeOK, Client
  <2>3. ASSUME NEW c \in Sessions
        PROVE  /\ client[c].pc = "ok" => "ok" \in verdicts[c]
               /\ client[c].pc \in Failures \cup {"busy"} /\ losses[c] < TxTickOffset =>
                    "ok" \notin verdicts[c]
    <3>1. PhaseOf(c) /\ AnswerOf(c)
      BY DEF ReportInv, FitInv, ClosedInv, PhaseInv
    <3>2. client[c].pc \in {"unclaimed", "unsent", "uncounted", "busy"} => verdicts[c] = {}
      BY <3>1 DEF PhaseOf, Undeployed, Deployed
    <3> QED
      BY <3>1, <3>2 DEF AnswerOf, Failures, Watchful
  <2> QED
    BY <2>2, <2>3 DEF ReportsAreTrue
<1> QED
  BY <1>1, <1>2, ReportInductive, ClientSteps, PTL

(***************************************************************************)
(* Part three: what a client loses is made good.                           *)
(*                                                                         *)
(* A loss costs a client ticks, and its session may be idle meanwhile.     *)
(* The invariant prices them: how long the session of a client has been    *)
(* idle is bounded by what the client has lost, and the rounds and resends *)
(* it has used up by the same losses.                                      *)
(***************************************************************************)

\* A session outlives a client that claims and assembles, and one that resends its
\* DEPLOY, when each loss costs a round (with the code's numbers 20 and 28 of 32 ticks).
SessionsOutlastLosses ==
  /\ Rounds(Retries + 2) <= StaleTicks
  /\ DueBy(Retries) + TxTickOffset + 1 <= StaleTicks

\* A client polls until its last DEPLOY is handled, whatever it may lose meanwhile
\* (with the code's numbers 28 of 420 polls).
PollsOutlastLosses == DueBy(Retries) + Retries + 1 < MaxPolls

\* What the clients deploy is accepted.
ModulesLoad == \A c \in Sessions : Wants[c] \notin NotWasm \cup Unloadable

Got(q) == upload.bytes[q] # None
UnderWay(c, q) == \E tx \in mempool : tx.from = c /\ tx.kind = "chunk" /\ tx.seq = q
Idle(t) == t - upload.lastProgressTick

\* An assembly is empty until its client sends chunks.
EmptyOf(c) ==
  client[c].pc \in Early =>
    ~Sent(c, "chunk") /\ (Holds(c) => \A q \in Chunks : ~Got(q))

NothingStaged == \A s \in Slots : stagedStates[s] = None

ClaimingOf(c) ==
  Holds(c) =>
    /\ client[c].pc = "claiming" => Idle(client[c].until) <= Rounds(losses[c])
    /\ client[c].pc = "checking" => Idle(client[c].until) <= Rounds(losses[c] + 1)

\* Each attempt has lost something, and what needs no further attempt has arrived.
SendingOf(c) ==
  /\ Holds(c) /\ tick = client[c].until /\ client[c].txTick = tick + TxTickOffset
  /\ client[c].tries <= losses[c]
  /\ \A tx \in mempool : tx.from = c /\ tx.kind = "chunk" => tx.tick = client[c].txTick
  /\ \A q \in Chunks \ client[c].pending : Got(q) \/ UnderWay(c, q)
  /\ Idle(tick) <= Rounds(losses[c] + 1)
  /\ IsComplete => Idle(tick) <= losses[c]

\* A chunk is received, under way, or lost, and then a further round is paid for.
AssemblingOf(c) ==
  /\ Holds(c) /\ tick <= client[c].until /\ client[c].until <= tick + TxTickOffset + 1
  /\ client[c].tries <= losses[c]
  /\ \A tx \in mempool : tx.from = c /\ tx.kind = "chunk" => tx.tick < client[c].until
  /\ Idle(client[c].until) <= Rounds(losses[c] + 2)
  /\ \/ \A q \in Chunks : Got(q) \/ UnderWay(c, q)
     \/ client[c].tries < losses[c] /\ Idle(client[c].until) <= Rounds(losses[c] + 1)
  /\ IsComplete => Idle(client[c].until) <= TxTickOffset + 1 + losses[c]

ArmingOf(c) ==
  /\ Holds(c) /\ IsComplete /\ tick = client[c].until
  /\ Idle(tick) <= TxTickOffset + 1 + losses[c]

\* By when the n-th repetition of a DEPLOY is handled, after the last chunk, when so
\* many further ticks were lost.
Reach(n, spare) == DueBy(n) + TxTickOffset + 1 + spare

\* The last DEPLOY is under way, or lost, and then the next is paid for.
Awaited(c) ==
  /\ client[c].tries <= losses[c] /\ tick <= client[c].txTick
  /\ \E tx \in mempool : tx.from = c /\ tx.kind = "deploy" /\ tx.tick <= client[c].txTick
  /\ Idle(client[c].txTick) <= Reach(client[c].tries, losses[c] - client[c].tries)
Missed(c) ==
  LET spare == losses[c] - client[c].tries - 1 IN
  /\ client[c].tries < losses[c]
  /\ Idle(client[c].txTick) <= Reach(client[c].tries, spare)
  /\ Idle(client[c].until) <= Reach(client[c].tries, spare) + GraceTicks + 1
UnansweredOf(c) ==
  /\ Holds(c) /\ IsComplete
  /\ \A tx \in mempool : tx.from = c /\ tx.kind = "deploy" =>
       Idle(tx.tick) <= Reach(client[c].tries, losses[c] - client[c].tries)
  /\ Awaited(c) \/ Missed(c)

MadeGoodOf(c) ==
  losses[c] <= Retries =>
    /\ client[c].pc # "unsent"
    /\ client[c].pc \in {"refused", "unarmed"} => "ok" \in verdicts[c]
    /\ ClaimingOf(c)
    /\ client[c].pc = "sending" => SendingOf(c)
    /\ client[c].pc = "assembling" => AssemblingOf(c)
    /\ client[c].pc = "arming" => ArmingOf(c)
    /\ client[c].pc = "confirming" =>
         (verdicts[c] = {} /\ UnansweredOf(c)) \/ "ok" \in verdicts[c]

LossInv ==
  /\ ReportInv /\ NothingStaged
  /\ \A c \in Sessions : EmptyOf(c) /\ MadeGoodOf(c)

LEMMA RoundsAre ==
  ASSUME Lag = 0
  PROVE  /\ ClaimRound = TxTickOffset + 1
         /\ Rounds(0) = 0 /\ Rounds(1) = TxTickOffset + 1
         /\ \A n \in Nat : Rounds(n) \in Nat /\ Rounds(n + 1) = Rounds(n) + TxTickOffset + 1
         /\ \A m, n \in Nat : m <= n => Rounds(m) <= Rounds(n)
<1>1. ClaimRound = TxTickOffset + 1 /\ ClaimRound \in Nat
  BY ClientConstants DEF ClaimRound
<1>2. Rounds(0) = 0 /\ Rounds(1) = ClaimRound
  BY <1>1 DEF Rounds
<1>3. ASSUME NEW n \in Nat
      PROVE  Rounds(n) \in Nat /\ Rounds(n + 1) = Rounds(n) + TxTickOffset + 1
  <2>1. Rounds(n) \in Nat /\ Rounds(n + 1) = Rounds(n) + ClaimRound
    BY RoundsType
  <2> QED
    BY <1>1, <2>1, ClientConstants
<1>4. \A m, n \in Nat : m <= n => Rounds(m) <= Rounds(n)
  BY RoundsType
<1> QED
  BY <1>1, <1>2, <1>3, <1>4

\* A loss costs less than a resend.
LEMMA DueSum ==
  ASSUME NEW n \in Nat, NEW s \in Nat, n + s <= Retries
  PROVE  DueBy(n) + s <= DueBy(Retries) /\ DueBy(n) \in Nat /\ DueBy(Retries) \in Nat
<1> DEFINE r == ResendRound - 1
<1>1. ResendRound \in Nat /\ r \in Nat /\ ResendRound = r + 1
  BY ClientConstants DEF ResendRound
<1>2. s * r \in Nat /\ (n + s) * ResendRound = n * ResendRound + s * r + s
  <2> HIDE DEF r
  <2> QED
    BY <1>1
<1>3. DueBy(n + s) = TxTickOffset + (n + s) * ResendRound /\ DueBy(n) = TxTickOffset + n * ResendRound
  BY DEF DueBy
<1>4. DueBy(n) \in Nat /\ DueBy(Retries) \in Nat /\ DueBy(n + s) <= DueBy(Retries)
  <2>1. Retries \in Nat /\ n + s \in Nat
    BY ClientConstants
  <2>2. DueBy(n) \in Nat /\ DueBy(Retries) \in Nat
    BY <2>1, DueByType
  <2>3. DueBy(n + s) <= DueBy(Retries)
    BY <2>1, DueByType
  <2> QED
    BY <2>2, <2>3
<1>5. n * ResendRound \in Nat /\ TxTickOffset \in Nat
  BY <1>1, ClientConstants
<1> HIDE DEF r
<1> QED
  BY <1>2, <1>3, <1>4, <1>5

\* What the numbers of the invariant come to.
LEMMA RoundFacts ==
  ASSUME Lag = 0, NEW l \in Nat, NEW m \in Nat, l <= m
  PROVE  /\ Rounds(l) \in Nat /\ Rounds(m) \in Nat /\ Rounds(l) <= Rounds(m)
         /\ Rounds(l + 1) = Rounds(l) + TxTickOffset + 1
         /\ Rounds(l + 2) = Rounds(l) + 2 * (TxTickOffset + 1)
         /\ Rounds(m + 1) = Rounds(m) + TxTickOffset + 1
         /\ Rounds(m + 2) = Rounds(m) + 2 * (TxTickOffset + 1)
         /\ l < m => Rounds(l) + TxTickOffset + 1 <= Rounds(m)
         /\ TxTickOffset \in Nat /\ TxTickOffset >= 1
<1>1. /\ \A n \in Nat : Rounds(n) \in Nat /\ Rounds(n + 1) = Rounds(n) + TxTickOffset + 1
      /\ \A i, j \in Nat : i <= j => Rounds(i) <= Rounds(j)
  BY RoundsAre
<1>2. l + 1 \in Nat /\ m + 1 \in Nat /\ (l + 1) + 1 = l + 2 /\ (m + 1) + 1 = m + 2
      /\ (l < m => l + 1 <= m) /\ TxTickOffset \in Nat /\ TxTickOffset >= 1
  BY ClientConstants
<1>3. /\ Rounds(l) \in Nat /\ Rounds(l + 1) = Rounds(l) + TxTickOffset + 1
      /\ Rounds(m) \in Nat /\ Rounds(m + 1) = Rounds(m) + TxTickOffset + 1
      /\ Rounds(l + 2) = Rounds(l + 1) + TxTickOffset + 1
      /\ Rounds(m + 2) = Rounds(m + 1) + TxTickOffset + 1
  BY <1>1, <1>2
<1>4. Rounds(l) <= Rounds(m) /\ (l < m => Rounds(l + 1) <= Rounds(m))
  BY <1>1, <1>2
<1> QED
  BY <1>2, <1>3, <1>4

LEMMA ReachFacts ==
  ASSUME NEW n \in Nat, NEW s \in Nat
  PROVE  /\ Reach(n, s) \in Nat /\ Reach(n, s + 1) = Reach(n, s) + 1
         /\ Reach(n + 1, s) = Reach(n, s) + GraceTicks + 1 + TxTickOffset
         /\ Reach(0, s) = 2 * TxTickOffset + 1 + s
         /\ \A t \in Nat : s <= t => Reach(n, s) <= Reach(n, t)
         /\ n + s <= Retries => Reach(n, s) <= DueBy(Retries) + TxTickOffset + 1
         /\ GraceTicks \in Nat /\ TxTickOffset \in Nat /\ TxTickOffset >= 1
         /\ DueBy(Retries) \in Nat
<1>1. /\ DueBy(n) \in Nat /\ DueBy(n + 1) = DueBy(n) + ResendRound /\ DueBy(Retries) \in Nat
  BY DueByType, ClientConstants
<1>2. DueBy(0) = TxTickOffset /\ GraceTicks \in Nat /\ TxTickOffset \in Nat /\ TxTickOffset >= 1
  BY ClientConstants DEF DueBy, ResendRound
<1>3. ResendRound = GraceTicks + 1 + TxTickOffset
  BY DEF ResendRound
<1>4. n + s <= Retries => DueBy(n) + s <= DueBy(Retries)
  BY DueSum
<1> QED
  BY <1>1, <1>2, <1>3, <1>4 DEF Reach

\* What a step of the system does to the upload of a client that has the slot.
Fed(c, tx) ==
  /\ tx.from = c /\ tx.kind = "chunk" /\ Delivery(tx)
  /\ tx.seq \in Chunks /\ upload.bytes[tx.seq] = None
  /\ Holds(c)' /\ upload'.lastProgressTick = tick
  /\ upload'.bytes = [upload.bytes EXCEPT ![tx.seq] = Wants[c]]

LEMMA HolderSteps ==
  ASSUME FitInv, [ClientNext]_allVars, NEW c \in Sessions, Holds(c)
  PROVE  \/ upload' = upload
         \/ IsStale /\ ~Holds(c)'
         \/ \E tx \in mempool : Fed(c, tx)
         \/ \E tx \in mempool : tx.from = c /\ tx.kind = "deploy" /\ Delivery(tx)
<1>1. TypesInv /\ FitOf(c) /\ upload # None /\ upload \in Upload
  BY DEF FitInv, ClosedInv, PhaseInv, TypesInv, DeployInv, TypeOK, Holds
<1> DEFINE Goal == \/ upload' = upload
                   \/ IsStale /\ ~Holds(c)'
                   \/ \E tx \in mempool : Fed(c, tx)
                   \/ \E tx \in mempool : tx.from = c /\ tx.kind = "deploy" /\ Delivery(tx)
<1>2. ASSUME NEW tx \in mempool, Deliver(tx) PROVE Goal
  <2>1. Delivery(tx)
    BY <1>1, <1>2, DeliverMoves
  <2>2. CASE tx.kind = "begin"
    <3>1. CASE Opens(tx) /\ IsStale
      <4>1. tx.from # c
        BY <1>1, <2>2, <3>1, StaleHolder DEF Sent
      <4> QED
        BY <3>1, <4>1 DEF Opens, Holds
    <3>2. CASE upload' = upload
      BY <3>2
    <3> QED
      BY <1>1, <2>1, <2>2, <3>1, <3>2, BeginDelivered
  <2>3. CASE tx.kind = "chunk"
    <3>1. CASE upload' = upload
      BY <3>1
    <3>2. CASE upload' # upload
      <4> DEFINE bytes == [upload.bytes EXCEPT ![tx.seq] = Wants[tx.from]]
      <4>1. /\ upload.session = tx.from /\ tx.seq \in Chunks /\ upload.bytes[tx.seq] = None
            /\ upload' = [upload EXCEPT !.bytes = bytes, !.lastProgressTick = tick]
        BY <1>1, <2>1, <2>3, <3>2, ChunkDelivered
      <4>2. tx.from = c /\ bytes = [upload.bytes EXCEPT ![tx.seq] = Wants[c]]
        BY <4>1 DEF Holds
      <4>3. upload.bytes \in [Chunks -> Modules \cup {None}] /\ tick \in Nat
        BY <1>1 DEF Upload, TypesInv, DeployInv, TypeOK
      <4>4. bytes \in [Chunks -> Modules \cup {None}]
        BY <4>2, <4>3, ClientConstants
      <4> HIDE DEF bytes
      <4>5. /\ upload' \in Upload /\ upload'.bytes = bytes /\ upload'.lastProgressTick = tick
            /\ upload'.session = upload.session
        BY <1>1, <4>1, <4>3, <4>4 DEF Upload
      <4>6. Holds(c)'
        BY <4>5, NoneIsNothing DEF Holds
      <4> QED
        BY <2>1, <2>3, <4>1, <4>2, <4>5, <4>6 DEF Fed
    <3> QED
      BY <3>1, <3>2
  <2>4. CASE tx.kind = "deploy"
    <3> DEFINE code == Verdict(tx.from, Target[tx.from], TRUE, Wants[tx.from])
    <3>1. upload' = IF code \in {"ok", "load-failed", "not-wasm"} THEN None ELSE upload
      BY <2>1, <2>4, DeployDelivered
    <3>2. code \in {"ok", "load-failed", "not-wasm"} => upload.session = tx.from
      BY DEF Verdict
    <3> HIDE DEF code
    <3> QED
      BY <2>1, <2>4, <3>1, <3>2 DEF Holds
  <2> QED
    BY <2>1, <2>2, <2>3, <2>4 DEF Delivery
<1>3. ASSUME Tick PROVE Goal
  BY <1>1, <1>3, TickMoves DEF TickPasses
<1>4. ASSUME NEW e \in Sessions, Step(e) \/ Crash(e) PROVE Goal
  <2>1. Looks
    BY <1>1, <1>4, StepMoves
  <2> QED
    BY <1>1, <2>1, LooksKeepsHolder DEF Holds
<1>5. ASSUME UNCHANGED allVars PROVE Goal
  BY <1>5 DEF allVars, vars
<1> QED
  BY <1>2, <1>3, <1>4, <1>5 DEF ClientNext, Handle

LEMMA NothingStagedStays ==
  ASSUME TypesInv, NothingStaged, [ClientNext]_allVars
  PROVE  NothingStaged'
<1>1. stagedStates \in [Slots -> Staged \cup {None}]
  BY DEF TypesInv, DeployInv, TypeOK
<1>2. ASSUME NEW tx \in mempool, Deliver(tx)
      PROVE  \/ stagedStates' = stagedStates
             \/ \E s \in Slots : stagedStates' = [stagedStates EXCEPT ![s] = None]
  <2>1. Delivery(tx) /\ (tx.from \in Sessions => Target[tx.from] \in Slots) /\ tx.from \in Sessions
    BY <1>2, DeliverMoves, ClientConstants DEF Delivery, Tx
  <2>2. CASE tx.kind = "deploy" /\ DeployTx(tx.from, Target[tx.from], TRUE, Wants[tx.from])
    BY <2>1, <2>2 DEF DeployTx, Load, FailToLoad
  <2>3. UploadBegin(tx.from, Wants[tx.from]) => stagedStates' = stagedStates
    BY DEF UploadBegin
  <2>4. UploadChunk(tx.from, tx.seq, Wants[tx.from]) => stagedStates' = stagedStates
    BY DEF UploadChunk
  <2>5. UNCHANGED vars => stagedStates' = stagedStates
    BY DEF vars
  <2> QED
    BY <2>1, <2>2, <2>3, <2>4, <2>5 DEF Delivery
<1>3. ASSUME Tick PROVE stagedStates' = stagedStates
  BY <1>3 DEF Tick, NextTick
<1>4. ASSUME NEW d \in Sessions, Step(d) \/ Crash(d) PROVE stagedStates' = stagedStates
  BY <1>4, StepMoves DEF Looks
<1>5. ASSUME UNCHANGED allVars PROVE stagedStates' = stagedStates
  BY <1>5 DEF allVars, vars
<1>6. \/ stagedStates' = stagedStates
      \/ \E s \in Slots : stagedStates' = [stagedStates EXCEPT ![s] = None]
  BY <1>2, <1>3, <1>4, <1>5 DEF ClientNext, Handle
<1> QED
  BY <1>1, <1>6 DEF NothingStaged

\* A transaction that misses its tick counts.
LEMMA TickLoses ==
  ASSUME TypesInv, Tick, NEW tx \in mempool, tx \notin mempool', NEW c \in Sessions, tx.from = c
  PROVE  losses'[c] >= losses[c] + 1 /\ tx.tick = tick
<1> DEFINE gone == {t \in mempool : t.tick <= tick}
           mine == {t \in gone : t.from = c}
<1>1. /\ mempool' = mempool \ gone
      /\ losses'[c] = losses[c] + Cardinality(mine)
  BY DEF Tick
<1>2. IsFiniteSet(mempool) /\ tx.tick >= tick /\ tx.tick \in Nat /\ tick \in Nat /\ losses[c] \in Nat
  BY NodeNow, ClientConstants DEF TypesInv, MempoolType, Tx, ClientsType
<1>3. IsFiniteSet(mine)
  BY <1>2, FS_Subset
<1>4. tx \in mine /\ tx.tick <= tick
  BY <1>1
<1>5. Cardinality(mine) \in Nat /\ Cardinality(mine) # 0
  BY <1>3, <1>4, FS_CardinalityType, FS_EmptySet
<1> HIDE DEF mine
<1> QED
  BY <1>1, <1>2, <1>4, <1>5

\* What a client has broadcast, and did not hear of, counts.
LEMMA BroadcastLoses ==
  ASSUME TypesInv, NEW c \in Sessions, NEW txs, IsFiniteSet(txs), NEW arrived, NEW answered,
         Broadcast(c, txs, arrived, answered), \A tx \in txs : tx.tick > tick
  PROVE  /\ answered \subseteq arrived /\ arrived \subseteq txs /\ mempool' = mempool \cup arrived
         /\ losses[c] \in Nat /\ losses'[c] \in Nat /\ losses'[c] >= losses[c]
         /\ answered # txs => losses'[c] >= losses[c] + 1
<1> DEFINE timely == {tx \in txs : tx.tick > tick}
           n == Cardinality(timely \ answered)
<1>1. /\ arrived \subseteq timely /\ answered \subseteq arrived
      /\ losses' = [losses EXCEPT ![c] = @ + n]
      /\ mempool' = mempool \cup arrived
  BY DEF Broadcast
<1>2. timely = txs
  OBVIOUS
<1>3. IsFiniteSet(timely \ answered)
  BY <1>2, FS_Subset
<1>4. n \in Nat /\ (n = 0 => timely \ answered = {})
  BY <1>3, FS_CardinalityType, FS_EmptySet
<1>5. losses \in [Sessions -> 0 .. MaxLosses] /\ losses[c] \in Nat
  BY ClientConstants DEF TypesInv, ClientsType
<1>6. answered # txs => n # 0
  BY <1>1, <1>2, <1>4
<1> HIDE DEF n, timely
<1>7. losses'[c] = losses[c] + n
  BY <1>1, <1>5
<1> QED
  BY <1>1, <1>2, <1>4, <1>5, <1>6, <1>7

LEMMA HolderType ==
  ASSUME TypesInv, NEW c \in Sessions, Holds(c)
  PROVE  /\ upload \in Upload /\ upload.lastProgressTick \in Nat
         /\ upload.lastProgressTick <= tick /\ tick \in Nat /\ upload # None
BY DEF TypesInv, DeployInv, TypeOK, Upload, Holds

\* A client that has lost no more than it may still has its session.
LEMMA NotStale ==
  ASSUME Lag = 0, SessionsOutlastLosses, TypesInv, NEW c \in Sessions, FitOf(c),
         MadeGoodOf(c), losses[c] <= Retries,
         \/ client[c].pc \in {"sending", "assembling", "arming"}
         \/ client[c].pc = "confirming" /\ verdicts[c] = {}
  PROVE  Holds(c) /\ ~IsStale
<1>1. Holds(c)
  BY DEF MadeGoodOf, SendingOf, AssemblingOf, ArmingOf, UnansweredOf
<1>2. /\ client[c].until \in Nat /\ client[c].txTick \in Nat /\ client[c].tries \in Nat
      /\ tick \in Nat /\ losses[c] \in Nat /\ Retries \in Nat
  BY DueType
<1>3. upload.lastProgressTick \in Nat /\ upload # None
  BY <1>1, HolderType
<1>4. SUFFICES Idle(tick) <= StaleTicks
  BY <1>1, <1>2, <1>3, DeploymentConstants DEF Idle, IsStale, IdleTicks
<1> DEFINE l == losses[c]
<1>8. /\ l \in Nat /\ Rounds(l + 1) \in Nat /\ Rounds(l + 2) \in Nat /\ Rounds(Retries + 2) \in Nat
      /\ Rounds(l + 1) <= Rounds(l + 2) /\ Rounds(l + 2) <= Rounds(Retries + 2)
  <2>1. l + 1 \in Nat /\ l + 2 \in Nat /\ Retries + 2 \in Nat
        /\ l + 1 <= l + 2 /\ l + 2 <= Retries + 2
    BY <1>2
  <2> HIDE DEF l
  <2>2. /\ \A n \in Nat : Rounds(n) \in Nat
        /\ \A m, n \in Nat : m <= n => Rounds(m) <= Rounds(n)
    BY RoundsType
  <2>3. Rounds(l + 1) \in Nat /\ Rounds(l + 2) \in Nat /\ Rounds(Retries + 2) \in Nat
    BY <2>1, <2>2
  <2>4. Rounds(l + 1) <= Rounds(l + 2) /\ Rounds(l + 2) <= Rounds(Retries + 2)
    BY <2>1, <2>2
  <2> QED
    BY <1>2, <2>3, <2>4 DEF l
<1>5. CASE client[c].pc \in {"sending", "assembling"}
  <2>1. Idle(tick) <= Rounds(l + 2)
    <3>1. CASE client[c].pc = "sending"
      <4>1. Idle(tick) <= Rounds(l + 1)
        BY <3>1 DEF MadeGoodOf, SendingOf
      <4> QED
        BY <1>2, <1>3, <1>8, <4>1 DEF Idle
    <3>2. CASE client[c].pc = "assembling"
      <4>1. Idle(client[c].until) <= Rounds(l + 2) /\ tick <= client[c].until
        BY <3>2 DEF MadeGoodOf, AssemblingOf
      <4> QED
        BY <1>2, <1>3, <1>8, <4>1 DEF Idle
    <3> QED
      BY <1>5, <3>1, <3>2
  <2> QED
    BY <1>2, <1>3, <1>8, <2>1, DeploymentConstants DEF SessionsOutlastLosses, Idle
<1>6. CASE client[c].pc = "arming"
  <2>1. Idle(tick) <= TxTickOffset + 1 + l
    BY <1>6 DEF MadeGoodOf, ArmingOf
  <2>2. Reach(0, l) = 2 * TxTickOffset + 1 + l /\ Reach(0, l) <= DueBy(Retries) + TxTickOffset + 1
        /\ TxTickOffset \in Nat /\ DueBy(Retries) \in Nat
    <3>1. 0 \in Nat /\ l \in Nat /\ 0 + l <= Retries
      BY <1>2
    <3> HIDE DEF l
    <3> QED
      BY <3>1, ReachFacts
  <2> QED
    BY <1>2, <1>3, <2>1, <2>2, DeploymentConstants DEF SessionsOutlastLosses, Idle
<1>7. CASE client[c].pc = "confirming" /\ verdicts[c] = {}
  <2>1. UnansweredOf(c)
    BY <1>7 DEF MadeGoodOf
  <2>2. CASE Awaited(c)
    <3> DEFINE n == client[c].tries
               s == l - n
    <3>1. n \in Nat /\ s \in Nat /\ n + s <= Retries /\ tick <= client[c].txTick
          /\ Idle(client[c].txTick) <= Reach(n, s)
      BY <1>2, <2>2 DEF Awaited
    <3> HIDE DEF n, s
    <3>2. /\ Reach(n, s) <= DueBy(Retries) + TxTickOffset + 1
          /\ Reach(n, s) \in Nat /\ TxTickOffset \in Nat /\ DueBy(Retries) \in Nat
      BY <3>1, ReachFacts
    <3> QED
      BY <1>2, <1>3, <3>1, <3>2, DeploymentConstants DEF SessionsOutlastLosses, Idle
  <2>3. CASE Missed(c)
    <3> DEFINE s == l - client[c].tries - 1
               n == client[c].tries
    <3>1. s \in Nat /\ (n + 1) + s = l
          /\ Idle(client[c].until) <= Reach(n, s) + GraceTicks + 1
      BY <1>2, <2>3 DEF Missed
    <3>2. tick <= client[c].until
      BY <1>2, <1>7 DEF FitOf, ClaimOf, Prompt
    <3>3. n \in Nat /\ n + 1 \in Nat /\ (n + 1) + s <= Retries
      BY <1>2, <3>1
    <3> HIDE DEF s, n
    <3>4. /\ Reach(n + 1, s) = Reach(n, s) + GraceTicks + 1 + TxTickOffset
          /\ Reach(n, s) \in Nat /\ TxTickOffset \in Nat /\ DueBy(Retries) \in Nat
          /\ GraceTicks \in Nat
      BY <3>1, <3>3, ReachFacts
    <3>5. Reach(n + 1, s) <= DueBy(Retries) + TxTickOffset + 1
      BY <3>1, <3>3, ReachFacts
    <3> QED
      BY <1>2, <1>3, <3>1, <3>2, <3>4, <3>5, DeploymentConstants DEF SessionsOutlastLosses, Idle
  <2> QED
    BY <2>1, <2>2, <2>3 DEF UnansweredOf
<1> QED
  BY <1>5, <1>6, <1>7

\* What leaves a client that has the slot as far as it was, or further.
Undisturbed(c) ==
  /\ tick' = tick /\ client'[c] = client[c] /\ losses'[c] = losses[c] /\ verdicts'[c] = verdicts[c]
  /\ Holds(c)' /\ (upload' = upload \/ upload'.lastProgressTick = tick)
  /\ IsComplete => upload' = upload
  /\ \A q \in Chunks : Got(q) => Got(q)'
  /\ \A q \in Chunks : UnderWay(c, q) => UnderWay(c, q)' \/ Got(q)'
  /\ \A tx \in mempool' : tx.from = c => tx \in mempool
  /\ \A tx \in mempool : tx.from = c /\ tx.kind = "deploy" => tx \in mempool'

\* A transaction that is handled, other than its own DEPLOY, does not disturb a client.
LEMMA DeliveryKeeps ==
  ASSUME FitInv, [ClientNext]_allVars, NEW c \in Sessions, Holds(c), ~IsStale,
         NEW tx \in mempool, Deliver(tx), ~(tx.from = c /\ tx.kind = "deploy")
  PROVE  Undisturbed(c)
<1>1. TypesInv /\ upload # None /\ upload \in Upload
  BY DEF FitInv, ClosedInv, PhaseInv, TypesInv, DeployInv, TypeOK, Holds
<1>2. /\ Delivery(tx) /\ tick' = tick /\ client' = client /\ losses' = losses
      /\ mempool' = mempool \ {tx}
  BY <1>1, DeliverMoves DEF Delivery
<1>3. /\ \A t \in mempool' : t \in mempool
      /\ \A t \in mempool : t.from = c /\ t.kind = "deploy" => t \in mempool'
  BY <1>2
<1>4. verdicts'[c] = verdicts[c]
  BY <1>2 DEF Delivery
<1>5. upload' = upload \/ Fed(c, tx)
  <2>1. \A t \in mempool : Delivery(t) => t = tx
    BY <1>2 DEF Delivery
  <2> QED
    BY <2>1, HolderSteps DEF Fed
<1>6. ASSUME NEW q \in Chunks, Got(q) PROVE Got(q)'
  <2>1. CASE upload' = upload
    BY <1>6, <2>1 DEF Got
  <2>2. CASE Fed(c, tx)
    <3>1. q # tx.seq /\ upload.bytes \in [Chunks -> Modules \cup {None}]
      BY <1>1, <1>6, <2>2 DEF Fed, Got, Upload
    <3> QED
      BY <1>6, <2>2, <3>1 DEF Got, Fed
  <2> QED
    BY <1>5, <2>1, <2>2
<1>7. ASSUME NEW q \in Chunks, UnderWay(c, q) PROVE UnderWay(c, q)' \/ Got(q)'
  <2>1. PICK t \in mempool : t.from = c /\ t.kind = "chunk" /\ t.seq = q
    BY <1>7 DEF UnderWay
  <2>2. CASE t # tx
    BY <1>2, <2>1, <2>2 DEF UnderWay
  <2>3. CASE t = tx
    <3>1. CASE Got(q)
      BY <1>6, <3>1
    <3>2. CASE ~Got(q)
      <4>1. ~ChunkRefused(c, q)
        BY <1>1, <3>2 DEF ChunkRefused, Got, Holds
      <4>2. UploadChunk(c, q, Wants[c])
        BY <2>1, <2>3, <4>1 DEF Deliver, Handled
      <4>3. upload.bytes \in [Chunks -> Modules \cup {None}] /\ Wants[c] \in Modules
        BY <1>1, ClientConstants DEF Upload
      <4>4. upload'.bytes[q] = Wants[c]
        BY <1>1, <4>2, <4>3 DEF UploadChunk, Upload
      <4> QED
        BY <4>3, <4>4, NoneIsNothing DEF Got
    <3> QED
      BY <3>1, <3>2
  <2> QED
    BY <2>2, <2>3
<1>8. IsComplete => upload' = upload
  BY <1>5 DEF IsComplete, Fed
<1>9. Holds(c)' /\ (upload' = upload \/ upload'.lastProgressTick = tick)
  BY <1>5 DEF Holds, Fed
<1> QED
  BY <1>2, <1>3, <1>4, <1>6, <1>7, <1>8, <1>9 DEF Undisturbed

LEMMA HolderCases ==
  ASSUME FitInv, [ClientNext]_allVars, NEW c \in Sessions, Holds(c), ~IsStale
  PROVE  \/ Undisturbed(c) \/ Tick \/ Step(c) \/ Crash(c)
         \/ \E tx \in mempool : tx.from = c /\ tx.kind = "deploy" /\ Deliver(tx)
<1>1. TypesInv /\ upload # None
  BY DEF FitInv, ClosedInv, PhaseInv, Holds
<1>2. ASSUME NEW d \in Sessions, d # c, Step(d) \/ Crash(d) PROVE Undisturbed(c)
  <2>1. Moves(d) /\ Looks
    BY <1>1, <1>2, StepMoves
  <2>2. PICK kind \in {"begin", "chunk", "deploy"} : Sends(d, kind)
    BY <1>1, <1>2, StepMoves
  <2>3. upload' = upload
    BY <2>1 DEF Looks, LiveUpload
  <2>4. /\ \A tx \in mempool' : tx.from = c => tx \in mempool
        /\ \A tx \in mempool : tx \in mempool'
    BY <1>2, <2>2 DEF Sends
  <2>5. /\ Holds(c)' /\ \A q \in Chunks : Got(q)' = Got(q)
        /\ \A q \in Chunks : UnderWay(c, q) => UnderWay(c, q)'
    BY <2>3, <2>4 DEF Holds, Got, UnderWay
  <2> QED
    BY <1>2, <2>1, <2>3, <2>4, <2>5 DEF Undisturbed, Moves, Looks
<1>3. ASSUME UNCHANGED allVars PROVE Undisturbed(c)
  BY <1>3 DEF allVars, clientVars, vars, Undisturbed, Holds, Got, UnderWay
<1> QED
  BY <1>2, <1>3, DeliveryKeeps DEF ClientNext, Handle

\* A client that does not move, in each of its phases.
LEMMA ClaimingStays ==
  ASSUME Lag = 0, FitInv, FitInv', [ClientNext]_allVars, NEW c \in Sessions, client'[c] = client[c],
         ClaimingOf(c)
  PROVE  ClaimingOf(c)'
<1> SUFFICES ASSUME Holds(c)'
             PROVE  /\ client[c].pc = "claiming" => Idle(client[c].until)' <= Rounds(losses'[c])
                    /\ client[c].pc = "checking" => Idle(client[c].until)' <= Rounds(losses'[c] + 1)
  BY DEF ClaimingOf
<1>1. /\ TypesInv /\ TypesInv' /\ FitOf(c)
  BY DEF FitInv, ClosedInv, PhaseInv
<1>2. /\ client[c].until \in Nat /\ tick \in Nat /\ losses[c] \in Nat /\ losses'[c] \in Nat
      /\ losses'[c] >= losses[c]
  BY <1>1, DueType, LossesGrow
<1> DEFINE l == losses[c]
           m == losses'[c]
<1>3. /\ Rounds(l) \in Nat /\ Rounds(m) \in Nat /\ Rounds(l) <= Rounds(m)
      /\ Rounds(l + 1) = Rounds(l) + TxTickOffset + 1
      /\ Rounds(m + 1) = Rounds(m) + TxTickOffset + 1
      /\ TxTickOffset \in Nat
  BY <1>2, RoundFacts
<1>4. upload'.lastProgressTick \in Nat
  BY <1>1 DEF TypesInv, DeployInv, TypeOK, Upload, Holds
<1>5. Idle(client[c].until)' = client[c].until - upload'.lastProgressTick
  BY DEF Idle
<1>6. CASE Keeps(c)
  <2>1. /\ client[c].pc = "claiming" => Idle(client[c].until) <= Rounds(l)
        /\ client[c].pc = "checking" => Idle(client[c].until) <= Rounds(l + 1)
        /\ upload.lastProgressTick \in Nat
        /\ upload'.lastProgressTick >= upload.lastProgressTick
    BY <1>1, <1>6, HolderType DEF ClaimingOf, Keeps
  <2> HIDE DEF l, m
  <2> QED
    BY <1>2, <1>3, <1>4, <1>5, <2>1 DEF Idle, l, m
<1>7. CASE Gains(c)
  <2>1. upload'.lastProgressTick = tick /\ Sent(c, "begin")
    BY <1>7 DEF Gains
  <2>2. /\ client[c].pc = "claiming" => client[c].until <= tick
        /\ client[c].pc = "checking" => client[c].until <= tick + TxTickOffset + 1
    BY <1>1, <2>1 DEF FitOf, ClaimOf
  <2> QED
    BY <1>2, <1>3, <1>5, <2>1, <2>2
<1> QED
  BY <1>6, <1>7, HolderChanges DEF Lacks

LEMMA SendingStays ==
  ASSUME Lag = 0, TypesInv, NEW c \in Sessions, SendingOf(c), Undisturbed(c)
  PROVE  SendingOf(c)'
<1>1. /\ tick \in Nat /\ losses[c] \in Nat /\ Rounds(losses[c] + 1) \in Nat
  BY DueType, RoundsType
<1>2. upload' = upload \/ upload'.lastProgressTick = tick
  BY DEF Undisturbed
<1>3. Idle(tick)' = tick - upload'.lastProgressTick /\ losses'[c] = losses[c]
      /\ client'[c] = client[c] /\ tick' = tick /\ Holds(c)'
  BY DEF Undisturbed, Idle
<1>4. Idle(tick)' <= Rounds(losses[c] + 1)
  BY <1>1, <1>2, <1>3 DEF SendingOf, Idle
<1>5. IsComplete' => Idle(tick)' <= losses[c]
  BY <1>1, <1>2, <1>3 DEF SendingOf, Idle, IsComplete
<1>6. \A q \in Chunks \ client[c].pending : Got(q)' \/ UnderWay(c, q)'
  BY DEF SendingOf, Undisturbed
<1>7. \A tx \in mempool' : tx.from = c /\ tx.kind = "chunk" => tx.tick = client[c].txTick
  BY DEF SendingOf, Undisturbed
<1> QED
  BY <1>3, <1>4, <1>5, <1>6, <1>7 DEF SendingOf

LEMMA AssemblingStays ==
  ASSUME Lag = 0, TypesInv, NEW c \in Sessions, AssemblingOf(c), Undisturbed(c)
  PROVE  AssemblingOf(c)'
<1> DEFINE l == losses[c]
<1>1. /\ tick \in Nat /\ l \in Nat /\ client[c].until \in Nat
      /\ Rounds(l) \in Nat /\ Rounds(l + 1) = Rounds(l) + TxTickOffset + 1
      /\ Rounds(l + 2) = Rounds(l) + 2 * (TxTickOffset + 1) /\ TxTickOffset \in Nat
  <2>1. tick \in Nat /\ l \in Nat /\ l <= l /\ client[c].until \in Nat
    BY DueType
  <2> HIDE DEF l
  <2> QED
    BY <2>1, RoundFacts
<1>2. upload' = upload \/ upload'.lastProgressTick = tick
  BY DEF Undisturbed
<1>3. /\ Idle(client[c].until)' = client[c].until - upload'.lastProgressTick
      /\ losses'[c] = l /\ client'[c] = client[c] /\ tick' = tick /\ Holds(c)'
  BY DEF Undisturbed, Idle
<1>4. /\ tick <= client[c].until /\ client[c].until <= tick + TxTickOffset + 1
      /\ client[c].tries <= l
      /\ Idle(client[c].until) <= Rounds(l + 2)
  BY DEF AssemblingOf
<1>5. Idle(client[c].until)' <= Rounds(l + 2)
  BY <1>1, <1>2, <1>3, <1>4 DEF Idle
<1>6. Idle(client[c].until) <= Rounds(l + 1) => Idle(client[c].until)' <= Rounds(l + 1)
  BY <1>1, <1>2, <1>3, <1>4 DEF Idle
<1>7. IsComplete' => Idle(client[c].until)' <= TxTickOffset + 1 + l
  <2>1. CASE upload' = upload
    <3>1. IsComplete' = IsComplete /\ Idle(client[c].until)' = Idle(client[c].until)
      BY <1>3, <2>1 DEF Idle, IsComplete
    <3> QED
      BY <3>1 DEF AssemblingOf
  <2>2. CASE upload'.lastProgressTick = tick
    BY <1>1, <1>3, <1>4, <2>2
  <2> QED
    BY <1>2, <2>1, <2>2
<1>8. \/ \A q \in Chunks : Got(q)' \/ UnderWay(c, q)'
      \/ client[c].tries < l /\ Idle(client[c].until)' <= Rounds(l + 1)
  BY <1>6 DEF AssemblingOf, Undisturbed
<1>9. \A tx \in mempool' : tx.from = c /\ tx.kind = "chunk" => tx.tick < client[c].until
  BY DEF AssemblingOf, Undisturbed
<1> QED
  BY <1>3, <1>4, <1>5, <1>7, <1>8, <1>9 DEF AssemblingOf

LEMMA ArmingStays ==
  ASSUME TypesInv, NEW c \in Sessions, ArmingOf(c), Undisturbed(c)
  PROVE  ArmingOf(c)'
BY DEF ArmingOf, Undisturbed, Idle, IsComplete

LEMMA UnansweredStays ==
  ASSUME TypesInv, NEW c \in Sessions, UnansweredOf(c), Undisturbed(c)
  PROVE  UnansweredOf(c)'
<1>1. /\ upload' = upload /\ tick' = tick /\ client'[c] = client[c] /\ losses'[c] = losses[c]
      /\ Holds(c)' /\ IsComplete /\ IsComplete'
  BY DEF UnansweredOf, Undisturbed, IsComplete
<1>2. Missed(c) => Missed(c)'
  BY <1>1 DEF Missed, Idle, Reach
<1>3. Awaited(c) => Awaited(c)'
  <2> SUFFICES ASSUME Awaited(c) PROVE Awaited(c)'
    OBVIOUS
  <2>1. PICK tx \in mempool : tx.from = c /\ tx.kind = "deploy" /\ tx.tick <= client[c].txTick
    BY DEF Awaited
  <2>2. tx \in mempool'
    BY <2>1 DEF Undisturbed
  <2>3. Idle(client[c].txTick)' = Idle(client[c].txTick)
    BY <1>1 DEF Idle
  <2> QED
    BY <1>1, <2>1, <2>2, <2>3 DEF Awaited
<1>4. \A tx \in mempool' : tx.from = c /\ tx.kind = "deploy" =>
        tx.tick - upload'.lastProgressTick <= Reach(client[c].tries, losses[c] - client[c].tries)
  BY <1>1 DEF UnansweredOf, Undisturbed, Idle
<1> QED
  BY <1>1, <1>2, <1>3, <1>4 DEF UnansweredOf, Idle

\* A tick, in the phases that a tick may pass in.
LEMMA AssemblingTick ==
  ASSUME Lag = 0, TypesInv, Tick, NEW c \in Sessions, AssemblingOf(c), client[c].pc = "assembling"
  PROVE  AssemblingOf(c)'
<1> DEFINE l == losses[c]
           m == losses'[c]
<1>1. /\ tick' = tick + 1 /\ client' = client /\ upload' = upload /\ mempool' \subseteq mempool
      /\ m >= l /\ tick < client[c].until
  <2>1. Deadline(c) = client[c].until + Lag /\ client[c].pc \in Running
    BY DEF Deadline, Running
  <2>2. client[c].until \in Nat
    BY DueType
  <2> QED
    BY <2>1, <2>2, TickMoves DEF TickPasses
<1>2. /\ tick \in Nat /\ l \in Nat /\ client[c].until \in Nat /\ client[c].tries \in Nat
  BY DueType
<1>3. m \in Nat
  BY ClientConstants, TickMoves DEF TickPasses
<1>4. /\ Rounds(l) \in Nat /\ Rounds(m) \in Nat /\ Rounds(l) <= Rounds(m)
      /\ Rounds(l + 1) = Rounds(l) + TxTickOffset + 1
      /\ Rounds(l + 2) = Rounds(l) + 2 * (TxTickOffset + 1)
      /\ Rounds(m + 1) = Rounds(m) + TxTickOffset + 1
      /\ Rounds(m + 2) = Rounds(m) + 2 * (TxTickOffset + 1)
      /\ l < m => Rounds(l) + TxTickOffset + 1 <= Rounds(m)
      /\ TxTickOffset \in Nat
  BY <1>1, <1>2, <1>3, RoundFacts
<1>5. /\ Holds(c) /\ upload.lastProgressTick \in Nat
  BY HolderType DEF AssemblingOf
<1>6. /\ client[c].tries <= l /\ Idle(client[c].until) <= Rounds(l + 2)
      /\ client[c].until <= tick + TxTickOffset + 1
      /\ IsComplete => Idle(client[c].until) <= TxTickOffset + 1 + l
  BY DEF AssemblingOf
<1>7. \A n : Idle(n) = n - upload.lastProgressTick
  BY DEF Idle
<1>8. /\ Holds(c)' /\ \A q \in Chunks : Got(q)' = Got(q)
      /\ IsComplete' = IsComplete /\ Idle(client[c].until)' = Idle(client[c].until)
  BY <1>1, <1>5 DEF Holds, Got, IsComplete, Idle
<1>9. Idle(client[c].until) \in Int
  BY <1>2, <1>5 DEF Idle
<1>10. CASE \E tx \in mempool : tx.from = c /\ tx \notin mempool'
  <2>1. m >= l + 1
    BY <1>10, TickLoses
  <2>2. Idle(client[c].until) <= Rounds(m + 1) /\ client[c].tries < m
    BY <1>1, <1>2, <1>3, <1>4, <1>6, <1>9, <2>1
  <2> QED
    BY <1>1, <1>2, <1>3, <1>4, <1>6, <1>8, <1>9, <2>2 DEF AssemblingOf
<1>11. CASE \A tx \in mempool : tx.from = c => tx \in mempool'
  <2>1. \A q \in Chunks : UnderWay(c, q) => UnderWay(c, q)'
    BY <1>11 DEF UnderWay
  <2>2. \/ \A q \in Chunks : Got(q)' \/ UnderWay(c, q)'
        \/ client[c].tries < l /\ Idle(client[c].until) <= Rounds(l + 1)
    BY <1>8, <2>1 DEF AssemblingOf
  <2>3. \/ \A q \in Chunks : Got(q)' \/ UnderWay(c, q)'
        \/ client[c].tries < m /\ Idle(client[c].until) <= Rounds(m + 1)
    BY <1>1, <1>2, <1>3, <1>4, <1>9, <2>2
  <2> QED
    BY <1>1, <1>2, <1>3, <1>4, <1>6, <1>8, <1>9, <2>3 DEF AssemblingOf
<1> QED
  BY <1>10, <1>11

LEMMA UnansweredTick ==
  ASSUME TypesInv, Tick, NEW c \in Sessions, UnansweredOf(c), client[c].until <= tick + 1
  PROVE  UnansweredOf(c)'
<1> DEFINE l == losses[c]
           m == losses'[c]
           n == client[c].tries
<1>1. /\ tick' = tick + 1 /\ client' = client /\ upload' = upload /\ mempool' \subseteq mempool
      /\ m >= l /\ verdicts' = verdicts
      /\ \A tx \in mempool' : tx.tick > tick
  BY TickMoves DEF TickPasses
<1>2. /\ tick \in Nat /\ l \in Nat /\ client[c].until \in Nat /\ n \in Nat
      /\ client[c].txTick \in Nat /\ GraceTicks \in Nat
      /\ \A tx \in mempool : tx.tick \in Nat
  BY DueType
<1>3. m \in Nat
  BY ClientConstants, TickMoves DEF TickPasses
<1>4. Holds(c) /\ IsComplete /\ upload.lastProgressTick \in Nat /\ (Awaited(c) \/ Missed(c))
  BY HolderType DEF UnansweredOf
<1>5. Holds(c)' /\ IsComplete' /\ upload.lastProgressTick \in Nat /\ n <= l
  BY <1>1, <1>2, <1>4, HolderType DEF Holds, IsComplete, UnansweredOf, Awaited, Missed
<1>6. \A i : Idle(i) = i - upload.lastProgressTick
  BY DEF Idle
<1>7. l - n \in Nat /\ m - n \in Nat /\ l - n <= m - n
  BY <1>1, <1>2, <1>3, <1>5
<1>8. /\ Reach(n, l - n) \in Nat /\ Reach(n, m - n) \in Nat
      /\ Reach(n, l - n) <= Reach(n, m - n)
  BY <1>2, <1>7, ReachFacts
<1>9. \A tx \in mempool' : tx.from = c /\ tx.kind = "deploy" =>
        tx.tick - upload.lastProgressTick <= Reach(n, m - n)
  BY <1>1, <1>2, <1>5, <1>8 DEF UnansweredOf, Idle
<1>10. CASE Missed(c)
  <2> DEFINE s == l - n - 1
             t == m - n - 1
  <2>1. /\ n < l /\ Idle(client[c].txTick) <= Reach(n, s)
        /\ Idle(client[c].until) <= Reach(n, s) + GraceTicks + 1
    BY <1>10 DEF Missed
  <2>2. s \in Nat /\ t \in Nat /\ s <= t
    BY <1>1, <1>2, <1>3, <2>1
  <2>3. Reach(n, s) <= Reach(n, t) /\ Reach(n, s) \in Nat /\ Reach(n, t) \in Nat
    BY <1>2, <2>2, ReachFacts
  <2> HIDE DEF s, t
  <2>4. /\ client[c].txTick - upload.lastProgressTick <= Reach(n, t)
        /\ client[c].until - upload.lastProgressTick <= Reach(n, t) + GraceTicks + 1
    BY <1>2, <1>5, <2>1, <2>3 DEF Idle
  <2>5. n < m
    BY <1>1, <1>2, <1>3, <2>1
  <2>6. Missed(c)'
    BY <1>1, <2>4, <2>5 DEF Missed, Idle, t
  <2> QED
    BY <1>1, <1>5, <1>9, <2>6 DEF UnansweredOf, Idle
<1>11. CASE Awaited(c)
  <2>1. PICK tx \in mempool : tx.from = c /\ tx.kind = "deploy" /\ tx.tick <= client[c].txTick
    BY <1>11 DEF Awaited
  <2>2. client[c].txTick - upload.lastProgressTick <= Reach(n, l - n)
    BY <1>11 DEF Awaited, Idle
  <2>3. CASE tx \in mempool'
    <3>1. tick' <= client[c].txTick
      BY <1>1, <1>2, <2>1, <2>3
    <3>2. client[c].txTick - upload.lastProgressTick <= Reach(n, m - n)
      BY <1>2, <1>5, <1>8, <2>2
    <3>3. n <= m
      BY <1>1, <1>2, <1>3, <1>5
    <3>4. Awaited(c)'
      BY <1>1, <2>1, <2>3, <3>1, <3>2, <3>3 DEF Awaited, Idle
    <3> QED
      BY <1>1, <1>5, <1>9, <3>4 DEF UnansweredOf, Idle
  <2>4. CASE tx \notin mempool'
    <3> DEFINE t == m - n - 1
    <3>1. m >= l + 1 /\ tx.tick = tick
      BY <2>1, <2>4, TickLoses
    <3>2. n < m /\ t \in Nat /\ l - n <= t
      BY <1>2, <1>3, <1>5, <3>1
    <3>3. Reach(n, l - n) <= Reach(n, t) /\ Reach(n, t) \in Nat
      BY <1>2, <1>7, <3>2, ReachFacts
    <3> HIDE DEF t
    <3>4. /\ client[c].txTick - upload.lastProgressTick <= Reach(n, t)
          /\ client[c].until - upload.lastProgressTick <= Reach(n, t) + GraceTicks + 1
      BY <1>2, <1>5, <1>8, <2>1, <2>2, <3>1, <3>3
    <3>5. Missed(c)'
      BY <1>1, <3>2, <3>4 DEF Missed, Idle, t
    <3> QED
      BY <1>1, <1>5, <1>9, <3>5 DEF UnansweredOf, Idle
  <2> QED
    BY <2>3, <2>4
<1> QED
  BY <1>10, <1>11 DEF UnansweredOf

\* A DEPLOY that finds its session complete arms the module.
LEMMA DeployArms ==
  ASSUME TypesInv, BytesInv, NothingStaged, ModulesLoad, NEW c \in Sessions, Holds(c), IsComplete,
         NEW tx \in mempool, tx.from = c, tx.kind = "deploy", Deliver(tx)
  PROVE  "ok" \in verdicts'[c]
<1>1. Target[c] \in Slots /\ Wants[c] \in Modules /\ Wants[c] \notin NotWasm
      /\ Wants[c] \notin Unloadable
  BY ClientConstants DEF ModulesLoad
<1>2. /\ upload # None /\ upload.session = c /\ upload.announced = Wants[c]
      /\ \A q \in Chunks : upload.bytes[q] = Wants[c]
  BY DEF Holds, BytesInv, IsComplete
<1>3. HashesTo(upload.announced)
  BY <1>2 DEF HashesTo
<1>4. TakenSeed(Target[c]) = None
  BY <1>1 DEF TakenSeed, NothingStaged
<1>5. ~LoadFails(Wants[c], TakenSeed(Target[c]))
  BY <1>1, <1>4 DEF LoadFails
<1>6. Verdict(c, Target[c], TRUE, Wants[c]) = "ok"
  BY <1>1, <1>2, <1>3, <1>5 DEF Verdict
<1> QED
  BY <1>6, DeliverMoves, DeployDelivered

LEMMA EmptyStays ==
  ASSUME FitInv, [ClientNext]_allVars, NEW c \in Sessions, EmptyOf(c)
  PROVE  EmptyOf(c)'
<1> SUFFICES ASSUME client'[c].pc \in Early
             PROVE  ~Sent(c, "chunk")' /\ (Holds(c)' => \A q \in Chunks : ~Got(q)')
  BY DEF EmptyOf
<1>1. TypesInv /\ PhaseOf(c)
  BY DEF FitInv, ClosedInv, PhaseInv
<1> DEFINE Goal == /\ client[c].pc \in Early
                   /\ \A tx \in mempool' : tx.from = c /\ tx.kind = "chunk" => tx \in mempool
<1>2. Goal
  <2>1. Bystands(c) => Goal
    BY DEF Bystands
  <2>2. ASSUME NEW read \in BOOLEAN, Preflight(c, read) \/ Watch(c, read) \/ CheckClaim(c, read)
        PROVE  Goal
    BY <1>1, <2>2, PreflightMoves, WatchMoves, CheckClaimMoves DEF Early
  <2>3. SendBegin(c) => Goal
    BY <1>1, SendBeginMoves DEF Early, Sends
  <2>4. ASSUME NEW read \in BOOLEAN, Assemble(c, read) PROVE FALSE
    BY <1>1, <2>4, AssembleMoves DEF AssembleResult, Early
  <2>5. SendChunks(c) \/ SendDeploy(c) \/ PollArmed(c) \/ Crash(c) => FALSE
    BY <1>1, SendChunksMoves, SendDeployMoves, PollArmedMoves, CrashMoves DEF Early
  <2>6. PollUnarmed(c) \/ PollFails(c) => FALSE
    BY <1>1, PollUnarmedMoves, PollFailsMoves DEF PollResult, Resends, Polled, Early
  <2> HIDE DEF Goal
  <2> QED
    BY <1>1, <2>1, <2>2, <2>3, <2>4, <2>5, <2>6, Bystanders DEF Step
<1>3. ~Sent(c, "chunk") /\ ~Sent(c, "chunk")' /\ ~Sent(c, "deploy")
      /\ (Holds(c) => \A q \in Chunks : ~Got(q))
  BY <1>1, <1>2 DEF EmptyOf, Sent, PhaseOf, Undeployed, Deployed
<1>4. ASSUME Holds(c)' PROVE \A q \in Chunks : ~Got(q)'
  <2>1. CASE Holds(c)
    <3>1. upload' = upload
      BY <1>3, <1>4, <2>1, HolderSteps DEF Fed, Sent
    <3> QED
      BY <1>3, <2>1, <3>1 DEF Got
  <2>2. CASE ~Holds(c)
    <3>1. upload'.bytes = [q \in Chunks |-> None]
      BY <1>1, <1>4, <2>2, OpenedByBegin
    <3> QED
      BY <3>1 DEF Got
  <2> QED
    BY <2>1, <2>2
<1> QED
  BY <1>3, <1>4

\* The steps of a client that claims the slot.
LEMMA BeginIsPaid ==
  ASSUME Lag = 0, TypesInv, TypesInv', NEW c \in Sessions, FitOf(c), ClaimingOf(c), SendBegin(c)
  PROVE  client'[c].pc = "checking" /\ ClaimingOf(c)'
<1>1. /\ Moves(c) /\ upload' = upload /\ client[c].pc = "claiming" /\ client'[c].pc = "checking"
      /\ tick >= client[c].until /\ client'[c].until \in {tick, tick + TxTickOffset + 1}
  BY SendBeginMoves
<1>2. /\ tick \in Nat /\ client[c].until \in Nat /\ losses[c] \in Nat /\ losses'[c] \in Nat
      /\ losses'[c] >= losses[c] /\ tick = client[c].until
  <2>1. losses'[c] \in Nat
    BY ClientConstants DEF TypesInv, ClientsType
  <2>2. tick \in Nat /\ client[c].until \in Nat /\ losses[c] \in Nat
    BY DueType
  <2> QED
    BY <1>1, <2>1, <2>2 DEF Moves, FitOf, ClaimOf, Prompt
<1> DEFINE l == losses[c]
           m == losses'[c]
<1>3. /\ Rounds(l) \in Nat /\ Rounds(m) \in Nat /\ Rounds(l) <= Rounds(m)
      /\ Rounds(m + 1) = Rounds(m) + TxTickOffset + 1 /\ TxTickOffset \in Nat
  <2>1. l \in Nat /\ m \in Nat /\ l <= m
    BY <1>2
  <2> HIDE DEF l, m
  <2> QED
    BY <2>1, RoundFacts
<1>4. ASSUME Holds(c)' PROVE client'[c].until - upload'.lastProgressTick <= Rounds(m + 1)
  <2>1. Holds(c) /\ upload.lastProgressTick \in Nat
    BY <1>1, <1>4, HolderType DEF Holds
  <2>2. Idle(client[c].until) <= Rounds(l)
    BY <1>1, <2>1 DEF ClaimingOf
  <2> HIDE DEF l, m
  <2> QED
    BY <1>1, <1>2, <1>3, <2>1, <2>2 DEF Idle
<1> QED
  BY <1>1, <1>4 DEF ClaimingOf, Idle

\* A client that reads its own session goes on; when it must claim again it has lost a read.
LEMMA ClaimIsPaid ==
  ASSUME Lag = 0, TypesInv, TypesInv', NEW c \in Sessions, FitOf(c), EmptyOf(c), ClaimingOf(c),
         NEW read \in BOOLEAN, CheckClaim(c, read)
  PROVE  /\ client'[c].pc \in {"claiming", "sending", "busy", "unclaimed"}
         /\ client'[c].pc = "claiming" => ClaimingOf(c)'
         /\ client'[c].pc = "sending" => SendingOf(c)'
<1>1. PICK upl : CheckClaim(c, read)!(upl)
  BY DEF CheckClaim
<1>2. /\ Reads(c, upl, read) /\ Forgets(c, read)
      /\ client' = [client EXCEPT ![c] =
           IF upl # None /\ upl.session = c
             THEN [client[c] EXCEPT !.pc = "sending", !.tries = 0, !.pending = Chunks,
                            !.until = tick, !.txTick = tick + TxTickOffset]
           ELSE IF upl # None THEN Resting("busy")
           ELSE IF client[c].tries < Retries
             THEN [client[c] EXCEPT !.pc = "claiming", !.tries = client[c].tries + 1,
                                    !.until = tick]
           ELSE Resting("unclaimed")]
  BY <1>1
<1>3. /\ Moves(c) /\ Looks /\ mempool' = mempool /\ client[c].pc = "checking"
      /\ tick >= client[c].until /\ tick' = tick
  BY CheckClaimMoves DEF Looks
<1>4. client[c] \in Client /\ tick = client[c].until /\ tick \in Nat /\ losses[c] \in Nat
      /\ TxTickOffset \in Nat
  <2>1. client[c] \in Client /\ tick \in Nat /\ client[c].until \in Nat /\ losses[c] \in Nat
        /\ TxTickOffset \in Nat
    BY DueType
  <2> QED
    BY <1>3, <2>1 DEF FitOf, ClaimOf, Prompt
<1>5. /\ Looks /\ (upl # None => upl = upload /\ upload' = upload)
      /\ read \/ losses[c] < MaxLosses
  BY <1>2, ReadLooks DEF Reads
<1>6. losses[c] + (IF read THEN 0 ELSE 1) = losses'[c]
  BY <1>2, <1>5, ForgetsType
<1>7. client \in [Sessions -> Client]
  BY DEF TypesInv, ClientsType
<1>8. CASE upl # None /\ upl.session = c
  <2>1. Holds(c) /\ Holds(c)' /\ upload' = upload
    BY <1>5, <1>8 DEF Holds
  <2>2. /\ client'[c].pc = "sending" /\ client'[c].tries = 0 /\ client'[c].pending = Chunks
        /\ client'[c].until = tick /\ client'[c].txTick = tick + TxTickOffset
    BY <1>2, <1>4, <1>7, <1>8 DEF Client
  <2>3. Idle(tick) <= Rounds(losses[c] + 1)
    BY <1>3, <1>4, <2>1 DEF ClaimingOf
  <2>4. losses'[c] = losses[c]
    BY <1>2, <1>4, <1>6, <1>8 DEF Reads
  <2>5. ~Sent(c, "chunk") /\ \A q \in Chunks : ~Got(q)
    BY <1>3, <2>1 DEF EmptyOf, Early
  <2>6. 1 \in Chunks
    BY DeploymentConstants DEF Chunks
  <2>7. ~IsComplete'
    BY <2>1, <2>5, <2>6 DEF IsComplete, Got
  <2>8. \A tx \in mempool' : tx.from = c /\ tx.kind = "chunk" => FALSE
    BY <1>3, <2>5 DEF Sent
  <2>9. Idle(tick)' = Idle(tick)
    BY <1>3, <2>1 DEF Idle
  <2>10. SendingOf(c)'
    BY <1>3, <1>4, <2>1, <2>2, <2>3, <2>4, <2>7, <2>8, <2>9 DEF SendingOf
  <2> QED
    BY <2>2, <2>10
<1>9. CASE upl # None /\ upl.session # c
  BY <1>2, <1>7, <1>9 DEF Resting
<1>10. CASE upl = None /\ client[c].tries < Retries
  <2>1. client'[c].pc = "claiming" /\ client'[c].until = tick
    BY <1>2, <1>4, <1>7, <1>10 DEF Client
  <2>2. ASSUME Holds(c)' PROVE Idle(tick)' <= Rounds(losses'[c])
    <3>1. ~read
      BY <1>2, <1>10, <2>2 DEF Reads, Holds
    <3>2. upload' = upload /\ Holds(c)
      BY <1>2, <2>2, <3>1 DEF Reads, Holds
    <3>3. Idle(tick) <= Rounds(losses[c] + 1) /\ losses'[c] = losses[c] + 1
      BY <1>3, <1>4, <1>6, <3>1, <3>2 DEF ClaimingOf
    <3> QED
      BY <1>3, <3>2, <3>3 DEF Idle
  <2>3. ClaimingOf(c)'
    BY <1>3, <2>1, <2>2 DEF ClaimingOf
  <2> QED
    BY <2>1, <2>3
<1>11. CASE upl = None /\ ~(client[c].tries < Retries)
  BY <1>2, <1>7, <1>11 DEF Resting
<1> QED
  BY <1>8, <1>9, <1>10, <1>11

\* The steps of a client that sends chunks.
LEMMA ChunksArePaid ==
  ASSUME Lag = 0, TypesInv, TypesInv', NEW c \in Sessions, SendingOf(c), SendChunks(c),
         losses'[c] <= Retries
  PROVE  /\ client'[c].pc \in {"sending", "assembling", "uncounted"}
         /\ client'[c].pc = "sending" => SendingOf(c)'
         /\ client'[c].pc = "assembling" => AssemblingOf(c)'
<1> DEFINE txs == {ChunkTx(c, q, client[c].txTick) : q \in client[c].pending}
<1>1. PICK arrived \in SUBSET txs, answered \in SUBSET txs :
        LET left == {q \in client[c].pending : ChunkTx(c, q, client[c].txTick) \notin answered} IN
        /\ Broadcast(c, txs, arrived, answered)
        /\ client' = [client EXCEPT ![c] =
            IF left = {} /\ SentAll(client[c])
              THEN [client[c] EXCEPT !.pc = "assembling", !.tries = 0, !.pending = {},
                              !.until = SentUntil(c)]
            ELSE IF left = {} THEN Resting("uncounted")
            ELSE IF client[c].tries < Retries
              THEN [client[c] EXCEPT !.pending = left, !.tries = client[c].tries + 1,
                                     !.until = tick]
            ELSE Resting("unsent")]
  BY DEF SendChunks
<1> DEFINE left == {q \in client[c].pending : ChunkTx(c, q, client[c].txTick) \notin answered}
<1>2. /\ client[c].pc = "sending" /\ UNCHANGED vars
  BY DEF SendChunks, At
<1>3. /\ client[c] \in Client /\ client \in [Sessions -> Client] /\ tick \in Nat
      /\ client[c].tries \in Nat /\ losses[c] \in Nat /\ TxTickOffset \in Nat /\ TxTickOffset >= 1
      /\ Retries \in Nat /\ client[c].pending \in SUBSET Chunks
  BY DueType DEF TypesInv, ClientsType, Client
<1>4. /\ Holds(c) /\ tick = client[c].until /\ client[c].txTick = tick + TxTickOffset
      /\ client[c].tries <= losses[c]
      /\ \A tx \in mempool : tx.from = c /\ tx.kind = "chunk" => tx.tick = client[c].txTick
      /\ \A q \in Chunks \ client[c].pending : Got(q) \/ UnderWay(c, q)
      /\ Idle(tick) <= Rounds(losses[c] + 1)
      /\ IsComplete => Idle(tick) <= losses[c]
  BY DEF SendingOf
<1>5. /\ IsFiniteSet(txs)
      /\ \A tx \in txs : tx.from = c /\ tx.kind = "chunk" /\ tx.tick = client[c].txTick
  <2> DEFINE at == client[c].txTick
             chunks == client[c].pending
  <2>1. at \in Nat /\ chunks \in SUBSET Chunks
    BY <1>3 DEF Client
  <2>2. \A tx \in txs : \E q \in chunks : tx = ChunkTx(c, q, at)
    OBVIOUS
  <2> HIDE DEF txs, at, chunks
  <2>3. /\ IsFiniteSet(txs)
        /\ \A tx \in txs : tx.from = c /\ tx.kind = "chunk" /\ tx.seq \in Chunks /\ tx.tick = at
    BY <2>1, <2>2, ChunkTxsType
  <2> QED
    BY <2>3 DEF at
<1>6. \A tx \in txs : tx.tick > tick
  BY <1>3, <1>4, <1>5
<1>7. /\ answered \subseteq arrived /\ arrived \subseteq txs /\ mempool' = mempool \cup arrived
      /\ losses'[c] \in Nat /\ losses'[c] >= losses[c]
      /\ answered # txs => losses'[c] >= losses[c] + 1
  <2> HIDE DEF txs
  <2> QED
    BY <1>1, <1>5, <1>6, BroadcastLoses
<1>8. left # {} => answered # txs
  OBVIOUS
<1>9. \A q \in Chunks \ left : Got(q)' \/ UnderWay(c, q)'
  <2> SUFFICES ASSUME NEW q \in Chunks \ left PROVE Got(q)' \/ UnderWay(c, q)'
    OBVIOUS
  <2>1. CASE q \in client[c].pending
    <3>1. ChunkTx(c, q, client[c].txTick) \in mempool'
      BY <1>7, <2>1
    <3> QED
      BY <3>1 DEF UnderWay, ChunkTx
  <2>2. CASE q \notin client[c].pending
    <3>1. Got(q) \/ UnderWay(c, q)
      BY <1>4, <2>2
    <3> QED
      BY <1>2, <1>7, <3>1 DEF vars, Got, UnderWay
  <2> QED
    BY <2>1, <2>2
<1>10. \A tx \in mempool' : tx.from = c /\ tx.kind = "chunk" => tx.tick = client[c].txTick
  <2> HIDE DEF txs
  <2> QED
    BY <1>4, <1>5, <1>7
<1>11. /\ tick' = tick /\ upload' = upload /\ Holds(c)' /\ IsComplete' = IsComplete
  BY <1>2, <1>4 DEF vars, Holds, IsComplete
<1> DEFINE l == losses[c]
           m == losses'[c]
<1>12. /\ Rounds(l) \in Nat /\ Rounds(m) \in Nat /\ Rounds(l) <= Rounds(m)
       /\ Rounds(l + 1) = Rounds(l) + TxTickOffset + 1
       /\ Rounds(m + 1) = Rounds(m) + TxTickOffset + 1
       /\ Rounds(m + 2) = Rounds(m) + 2 * (TxTickOffset + 1)
  <2>1. l \in Nat /\ m \in Nat /\ l <= m
    BY <1>3, <1>7
  <2> HIDE DEF l, m
  <2> QED
    BY <2>1, RoundFacts
<1>13. upload.lastProgressTick \in Nat
  BY <1>4, HolderType
<1>14. \A t : Idle(t) = t - upload.lastProgressTick
  BY DEF Idle
<1> HIDE DEF txs, left, l, m
<1>15. CASE left = {} /\ SentAll(client[c])
  <2>1. client'[c] = [client[c] EXCEPT !.pc = "assembling", !.tries = 0, !.pending = {},
                                       !.until = client[c].txTick + 1]
    BY <1>1, <1>3, <1>15 DEF left, SentUntil
  <2>2. /\ client'[c].pc = "assembling" /\ client'[c].tries = 0
        /\ client'[c].until = tick + TxTickOffset + 1
    BY <1>3, <1>4, <2>1 DEF Client
  <2>3. \A q \in Chunks : Got(q)' \/ UnderWay(c, q)'
    BY <1>9, <1>15
  <2>4. \A tx \in mempool' : tx.from = c /\ tx.kind = "chunk" => tx.tick < client'[c].until
    <3>1. client[c].txTick < client'[c].until
      BY <1>3, <1>4, <2>2
    <3> QED
      BY <1>10, <3>1
  <2>5. /\ client'[c].until - upload.lastProgressTick <= Rounds(m + 2)
        /\ IsComplete => client'[c].until - upload.lastProgressTick <= TxTickOffset + 1 + m
    BY <1>3, <1>4, <1>7, <1>12, <1>13, <2>2 DEF Idle, l, m
  <2>6. /\ tick' <= client'[c].until /\ client'[c].until <= tick' + TxTickOffset + 1
        /\ client'[c].tries <= losses'[c]
    BY <1>3, <1>7, <1>11, <2>2
  <2>7. AssemblingOf(c)'
    BY <1>11, <2>3, <2>4, <2>5, <2>6 DEF AssemblingOf, Idle, m
  <2> QED
    BY <2>2, <2>7
<1>16. CASE left = {} /\ ~SentAll(client[c])
  BY <1>1, <1>3, <1>16 DEF left, Resting
<1>17. CASE left # {} /\ client[c].tries < Retries
  <2>1. client'[c] = [client[c] EXCEPT !.pending = left, !.tries = client[c].tries + 1,
                                       !.until = tick]
    BY <1>1, <1>3, <1>17 DEF left
  <2>2. /\ client'[c].pc = "sending" /\ client'[c].tries = client[c].tries + 1
        /\ client'[c].until = tick /\ client'[c].pending = left
        /\ client'[c].txTick = client[c].txTick
    BY <1>2, <1>3, <2>1 DEF Client
  <2>3. m >= l + 1
    BY <1>7, <1>8, <1>17 DEF l, m
  <2>4. client'[c].tries <= losses'[c]
    BY <1>3, <1>4, <1>7, <2>2, <2>3 DEF l, m
  <2>5. /\ tick - upload.lastProgressTick <= Rounds(m + 1)
        /\ IsComplete => tick - upload.lastProgressTick <= losses'[c]
    BY <1>3, <1>4, <1>7, <1>12, <1>13 DEF Idle, l, m
  <2>6. SendingOf(c)'
    BY <1>4, <1>9, <1>10, <1>11, <2>2, <2>4, <2>5 DEF SendingOf, Idle, m
  <2> QED
    BY <2>2, <2>6
<1>18. CASE left # {} /\ ~(client[c].tries < Retries)
  BY <1>3, <1>4, <1>7, <1>8, <1>18
<1> QED
  BY <1>15, <1>16, <1>17, <1>18

\* The steps of a client that waits for its assembly.
LEMMA OneMoreRound ==
  ASSUME TypesInv, NEW c \in Sessions, NEW until, client[c].tries < Retries,
         client' = [client EXCEPT ![c] = NextRound(c, until)]
  PROVE  /\ client'[c].pc = client[c].pc /\ client'[c].until = until
         /\ client'[c].tries = client[c].tries + 1
<1>1. client \in [Sessions -> Client] /\ client[c] \in Client
  BY DEF TypesInv, ClientsType
<1>2. client'[c] = [client[c] EXCEPT !.tries = client[c].tries + 1, !.until = until]
  BY <1>1 DEF NextRound
<1> QED
  BY <1>1, <1>2 DEF Client

LEMMA RoundIsPaid ==
  ASSUME Lag = 0, TypesInv, TypesInv', NEW c \in Sessions, AssemblingOf(c), ~IsStale,
         NEW read \in BOOLEAN, Assemble(c, read), losses'[c] <= Retries
  PROVE  /\ client'[c].pc \in {"assembling", "arming", "threw"}
         /\ client'[c].pc = "assembling" => AssemblingOf(c)'
         /\ client'[c].pc = "arming" => ArmingOf(c)'
<1>1. PICK upl : Assemble(c, read)!(upl)
  BY DEF Assemble
<1>2. /\ client[c].pc = "assembling" /\ tick >= client[c].until /\ tick' = tick
      /\ Reads(c, upl, read)
  BY <1>1, AssembleMoves DEF At, Looks
<1>3. /\ client[c] \in Client /\ tick \in Nat /\ client[c].until \in Nat
      /\ client[c].tries \in Nat /\ losses[c] \in Nat /\ Retries \in Nat
      /\ TxTickOffset \in Nat /\ TxTickOffset >= 1
      /\ \A tx \in mempool : tx.tick \in Nat /\ tx.tick >= tick
  BY DueType
<1>4. client \in [Sessions -> Client]
  BY DEF TypesInv, ClientsType
<1>5. /\ Holds(c) /\ tick = client[c].until /\ client[c].tries <= losses[c]
      /\ \A tx \in mempool : ~(tx.from = c /\ tx.kind = "chunk")
      /\ Idle(tick) <= Rounds(losses[c] + 2)
      /\ IsComplete => Idle(tick) <= TxTickOffset + 1 + losses[c]
  <2>1. tick <= client[c].until
    BY DEF AssemblingOf
  <2>2. tick = client[c].until
    BY <1>2, <1>3, <2>1
  <2>3. \A tx \in mempool : ~(tx.from = c /\ tx.kind = "chunk")
    BY <1>3, <2>2 DEF AssemblingOf
  <2> QED
    BY <2>2, <2>3 DEF AssemblingOf
<1>6. \/ \A q \in Chunks : Got(q)
      \/ client[c].tries < losses[c] /\ Idle(tick) <= Rounds(losses[c] + 1)
  BY <1>5 DEF AssemblingOf, UnderWay
<1>7. /\ upload # None /\ upload.session = c /\ LiveUpload = upload /\ upload' = upload
      /\ upload.lastProgressTick \in Nat /\ Holds(c)' /\ IsComplete' = IsComplete
      /\ \A q \in Chunks : Got(q)' = Got(q)
  <2>1. upload # None /\ upload.session = c /\ LiveUpload = upload
    BY <1>5 DEF Holds, LiveUpload
  <2>2. upload' = upload
    BY <1>2, <2>1 DEF Reads
  <2>3. upload.lastProgressTick \in Nat
    BY <1>5, HolderType
  <2> QED
    BY <1>5, <2>1, <2>2, <2>3 DEF Holds, IsComplete, Got
<1>8. upl = (IF read THEN upload ELSE None) /\ (read \/ losses[c] < MaxLosses)
  BY <1>2, <1>7 DEF Reads
<1>9. losses'[c] \in Nat /\ losses'[c] >= losses[c]
  BY <1>3, AssembleMoves, ClientConstants DEF Moves
<1> DEFINE l == losses[c]
           m == losses'[c]
<1>10. /\ Rounds(l) \in Nat /\ Rounds(m) \in Nat /\ Rounds(l) <= Rounds(m)
       /\ Rounds(l + 1) = Rounds(l) + TxTickOffset + 1
       /\ Rounds(l + 2) = Rounds(l) + 2 * (TxTickOffset + 1)
       /\ Rounds(m + 1) = Rounds(m) + TxTickOffset + 1
       /\ Rounds(m + 2) = Rounds(m) + 2 * (TxTickOffset + 1)
       /\ l < m => Rounds(l) + TxTickOffset + 1 <= Rounds(m)
  <2>1. l \in Nat /\ m \in Nat /\ l <= m
    BY <1>3, <1>9
  <2> HIDE DEF l, m
  <2> QED
    BY <2>1, RoundFacts
<1>11. \A t : Idle(t) = t - upload.lastProgressTick
  BY DEF Idle
<1> DEFINE txs == {ChunkTx(c, q, tick + TxTickOffset) : q \in Missing(upl)}
           arm == [client[c] EXCEPT !.pc = "arming", !.tries = 0, !.until = tick]
<1>12. \/ /\ upl = None /\ Forgets(c, read) /\ mempool' = mempool
          /\ client' = [client EXCEPT ![c] = NextRound(c, tick + 1)]
       \/ /\ upl # None /\ Missing(upl) = {} /\ Forgets(c, read) /\ mempool' = mempool
          /\ client' = [client EXCEPT ![c] = arm]
       \/ /\ upl # None /\ Missing(upl) # {}
          /\ \E arrived, answered \in SUBSET txs :
               /\ Broadcast(c, txs, arrived, answered)
               /\ \/ client' = [client EXCEPT ![c] = NextRound(c, tick + TxTickOffset + 1)]
                  \/ client' = [client EXCEPT ![c] = Resting("threw")]
  BY <1>1, <1>7, <1>8
<1>13. upl # None => (Missing(upl) = {} <=> IsComplete) /\ \A q \in Chunks \ Missing(upl) : Got(q)
  BY <1>8 DEF Missing, Received, IsComplete, Got
<1> HIDE DEF txs, arm, l, m
<1>14. CASE /\ upl = None /\ Forgets(c, read) /\ mempool' = mempool
            /\ client' = [client EXCEPT ![c] = NextRound(c, tick + 1)]
  <2>1. m = l + 1
    BY <1>3, <1>7, <1>8, <1>14, ForgetsType DEF l, m
  <2>2. client[c].tries < Retries
    BY <1>3, <1>5, <1>9, <2>1 DEF l, m
  <2>3. /\ client'[c].pc = "assembling" /\ client'[c].until = tick + 1
        /\ client'[c].tries = client[c].tries + 1
    BY <1>2, <1>14, <2>2, OneMoreRound
  <2>4. \/ \A q \in Chunks : Got(q)' \/ UnderWay(c, q)'
        \/ /\ client'[c].tries < losses'[c]
           /\ client'[c].until - upload.lastProgressTick <= Rounds(m + 1)
    <3>1. CASE \A q \in Chunks : Got(q)
      BY <1>7, <3>1
    <3>2. CASE client[c].tries < l /\ Idle(tick) <= Rounds(l + 1)
      BY <1>3, <1>7, <1>9, <1>10, <1>11, <2>1, <2>3, <3>2 DEF l, m
    <3> QED
      BY <1>6, <3>1, <3>2 DEF l
  <2>5. /\ client'[c].until - upload.lastProgressTick <= Rounds(m + 2)
        /\ IsComplete => client'[c].until - upload.lastProgressTick <= TxTickOffset + 1 + m
        /\ client'[c].tries <= m
    BY <1>3, <1>5, <1>7, <1>9, <1>10, <1>11, <2>1, <2>3 DEF l, m
  <2>6. tick' <= client'[c].until /\ client'[c].until <= tick' + TxTickOffset + 1
    BY <1>2, <1>3, <2>3
  <2>7. \A tx \in mempool' : tx.from = c /\ tx.kind = "chunk" => tx.tick < client'[c].until
    BY <1>5, <1>14
  <2>8. AssemblingOf(c)'
    BY <1>7, <2>4, <2>5, <2>6, <2>7 DEF AssemblingOf, Idle, m
  <2> QED
    BY <2>3, <2>8
<1>15. CASE /\ upl # None /\ Missing(upl) = {} /\ Forgets(c, read) /\ mempool' = mempool
            /\ client' = [client EXCEPT ![c] = arm]
  <2>1. client'[c] = [client[c] EXCEPT !.pc = "arming", !.tries = 0, !.until = tick]
    BY <1>4, <1>15 DEF arm
  <2>2. client'[c].pc = "arming" /\ client'[c].until = tick
    BY <1>3, <2>1 DEF Client
  <2>3. IsComplete /\ l <= m
    BY <1>9, <1>13, <1>15 DEF l, m
  <2>4. tick - upload.lastProgressTick <= TxTickOffset + 1 + m
    BY <1>3, <1>5, <1>7, <1>9, <1>11, <2>3 DEF l, m
  <2>5. ArmingOf(c)'
    BY <1>2, <1>7, <2>2, <2>3, <2>4 DEF ArmingOf, Idle, m
  <2> QED
    BY <2>2, <2>5
<1>16. CASE /\ upl # None /\ Missing(upl) # {}
            /\ \E arrived, answered \in SUBSET txs :
                 /\ Broadcast(c, txs, arrived, answered)
                 /\ \/ client' = [client EXCEPT ![c] = NextRound(c, tick + TxTickOffset + 1)]
                    \/ client' = [client EXCEPT ![c] = Resting("threw")]
  <2>1. PICK arrived \in SUBSET txs, answered \in SUBSET txs :
          /\ Broadcast(c, txs, arrived, answered)
          /\ \/ client' = [client EXCEPT ![c] = NextRound(c, tick + TxTickOffset + 1)]
             \/ client' = [client EXCEPT ![c] = Resting("threw")]
    BY <1>16
  <2>2. CASE client' = [client EXCEPT ![c] = Resting("threw")]
    BY <1>4, <2>1, <2>2 DEF Resting
  <2>3. CASE client' = [client EXCEPT ![c] = NextRound(c, tick + TxTickOffset + 1)]
    <3> DEFINE at == tick + TxTickOffset
               missing == Missing(upl)
    <3>1. ~IsComplete /\ client[c].tries < l /\ Idle(tick) <= Rounds(l + 1)
      BY <1>6, <1>13, <1>16 DEF IsComplete, Got, l
    <3>2. client[c].tries < Retries
      BY <1>3, <1>9, <3>1 DEF l
    <3>3. /\ client'[c].pc = "assembling" /\ client'[c].until = at + 1
          /\ client'[c].tries = client[c].tries + 1
      BY <1>2, <2>3, <3>2, OneMoreRound
    <3>4. at \in Nat /\ missing \in SUBSET Chunks /\ at > tick
      BY <1>3 DEF Missing
    <3>5. /\ \A tx \in txs : \E q \in missing : tx = ChunkTx(c, q, at)
          /\ \A q \in missing : ChunkTx(c, q, at) \in txs
      BY DEF txs
    <3> HIDE DEF at, missing
    <3>6. /\ IsFiniteSet(txs)
          /\ \A tx \in txs : tx.from = c /\ tx.kind = "chunk" /\ tx.seq \in Chunks /\ tx.tick = at
      BY <3>4, <3>5, ChunkTxsType
    <3>7. /\ mempool' = mempool \cup arrived /\ answered \subseteq arrived /\ arrived \subseteq txs
          /\ answered # txs => m >= l + 1
      BY <2>1, <3>4, <3>6, BroadcastLoses DEF l, m
    <3>8. ASSUME NEW q \in Chunks, answered = txs
          PROVE  Got(q)' \/ UnderWay(c, q)'
      <4>1. CASE q \in missing
        <5>1. ChunkTx(c, q, at) \in mempool'
          BY <3>5, <3>7, <3>8, <4>1
        <5> QED
          BY <5>1 DEF UnderWay, ChunkTx
      <4>2. CASE q \notin missing
        BY <1>7, <1>13, <1>16, <4>2 DEF missing
      <4> QED
        BY <4>1, <4>2
    <3>9. \A tx \in mempool' : tx.from = c /\ tx.kind = "chunk" => tx.tick < client'[c].until
      <4>1. \A tx \in mempool' : tx.from = c /\ tx.kind = "chunk" => tx.tick = at
        BY <1>5, <3>6, <3>7
      <4> QED
        BY <3>3, <3>4, <4>1
    <3>10. /\ client'[c].until - upload.lastProgressTick <= Rounds(m + 2)
           /\ client'[c].tries <= m
      BY <1>3, <1>7, <1>9, <1>10, <1>11, <3>1, <3>3 DEF l, m, at
    <3>11. tick' <= client'[c].until /\ client'[c].until <= tick' + TxTickOffset + 1
      BY <1>2, <1>3, <3>3 DEF at
    <3>12. \/ \A q \in Chunks : Got(q)' \/ UnderWay(c, q)'
           \/ /\ client'[c].tries < losses'[c]
              /\ client'[c].until - upload.lastProgressTick <= Rounds(m + 1)
      <4>1. CASE answered = txs
        BY <3>8, <4>1
      <4>2. CASE answered # txs
        BY <1>3, <1>7, <1>9, <1>10, <1>11, <3>1, <3>3, <3>7, <4>2 DEF l, m, at
      <4> QED
        BY <4>1, <4>2
    <3>13. AssemblingOf(c)'
      BY <1>7, <3>1, <3>9, <3>10, <3>11, <3>12 DEF AssemblingOf, Idle, m
    <3> QED
      BY <3>3, <3>13
  <2> QED
    BY <2>1, <2>2, <2>3
<1> QED
  BY <1>12, <1>14, <1>15, <1>16

\* The steps of a client that sends its DEPLOY, and waits for the answer.
LEMMA ReachGrows ==
  ASSUME NEW n \in Nat, NEW l \in Nat, NEW m \in Nat, n <= l, l <= m
  PROVE  /\ Reach(n, l - n) \in Nat /\ Reach(n, m - n) \in Nat
         /\ Reach(n, l - n) <= Reach(n, m - n)
         /\ n < l => /\ Reach(n, l - n - 1) \in Nat /\ Reach(n, m - n - 1) \in Nat
                     /\ Reach(n, l - n - 1) <= Reach(n, m - n - 1)
                     /\ Reach(n, l - n) = Reach(n, l - n - 1) + 1
<1>1. l - n \in Nat /\ m - n \in Nat /\ l - n <= m - n
  OBVIOUS
<1>2. /\ Reach(n, l - n) \in Nat /\ Reach(n, m - n) \in Nat
      /\ Reach(n, l - n) <= Reach(n, m - n)
  BY <1>1, ReachFacts
<1>3. ASSUME n < l
      PROVE  /\ Reach(n, l - n - 1) \in Nat /\ Reach(n, m - n - 1) \in Nat
             /\ Reach(n, l - n - 1) <= Reach(n, m - n - 1)
             /\ Reach(n, l - n) = Reach(n, l - n - 1) + 1
  <2> DEFINE s == l - n - 1
             t == m - n - 1
  <2>1. s \in Nat /\ t \in Nat /\ s <= t /\ l - n = s + 1
    BY <1>3
  <2> HIDE DEF s, t
  <2>2. /\ Reach(n, s) \in Nat /\ Reach(n, t) \in Nat /\ Reach(n, s) <= Reach(n, t)
        /\ Reach(n, s + 1) = Reach(n, s) + 1
    BY <2>1, ReachFacts
  <2> QED
    BY <2>1, <2>2 DEF s, t
<1> QED
  BY <1>2, <1>3

LEMMA DeployIsPaid ==
  ASSUME TypesInv, TypesInv', NEW c \in Sessions, PhaseOf(c), ArmingOf(c), SendDeploy(c)
  PROVE  /\ client'[c].pc \in {"confirming", "threw"}
         /\ client'[c].pc = "confirming" => verdicts'[c] = {} /\ UnansweredOf(c)'
<1>1. PICK arrived \in SUBSET {Deployment(c)}, answered \in SUBSET {Deployment(c)} :
        /\ Broadcast(c, {Deployment(c)}, arrived, answered)
        /\ client' = [client EXCEPT ![c] =
             IF answered = {} THEN Resting("threw")
             ELSE [client[c] EXCEPT !.pc = "confirming", !.txTick = tick + TxTickOffset,
                            !.tries = 0, !.polls = 0, !.until = tick]]
  BY DEF SendDeploy
<1>2. /\ client[c].pc = "arming" /\ UNCHANGED vars /\ verdicts' = verdicts
  BY DEF SendDeploy, At
<1>3. /\ client \in [Sessions -> Client] /\ client[c] \in Client /\ tick \in Nat /\ losses[c] \in Nat
      /\ TxTickOffset \in Nat /\ TxTickOffset >= 1
  BY DueType DEF TypesInv, ClientsType
<1>4. ~Sent(c, "deploy") /\ verdicts'[c] = {}
  BY <1>2 DEF PhaseOf, Undeployed, Deployed
<1>5. /\ Holds(c) /\ IsComplete /\ Idle(tick) <= TxTickOffset + 1 + losses[c]
      /\ Holds(c)' /\ IsComplete' /\ upload' = upload /\ tick' = tick
      /\ upload.lastProgressTick \in Nat
  BY <1>2, HolderType DEF ArmingOf, vars, Holds, IsComplete
<1>6. CASE answered = {}
  BY <1>1, <1>3, <1>6 DEF Resting
<1>7. CASE answered # {}
  <2> DEFINE tx == Deployment(c)
  <2>1. /\ tx.from = c /\ tx.kind = "deploy" /\ tx.tick = tick + TxTickOffset
        /\ IsFiniteSet({tx})
    BY DeploymentType
  <2>2. answered = {tx}
    BY <1>7
  <2> HIDE DEF tx
  <2>3. /\ answered \subseteq arrived /\ arrived \subseteq {tx}
        /\ mempool' = mempool \cup arrived /\ losses'[c] \in Nat /\ losses'[c] >= losses[c]
    <3>1. tx.tick > tick
      BY <1>3, <2>1
    <3> QED
      BY <1>1, <2>1, <3>1, BroadcastLoses DEF tx
  <2>4. client'[c] = [client[c] EXCEPT !.pc = "confirming", !.txTick = tick + TxTickOffset,
                                       !.tries = 0, !.polls = 0, !.until = tick]
    BY <1>1, <1>3, <1>7
  <2>5. /\ client'[c].pc = "confirming" /\ client'[c].txTick = tick + TxTickOffset
        /\ client'[c].tries = 0
    BY <1>3, <2>4 DEF Client
  <2>6. /\ tx \in mempool'
        /\ \A t \in mempool' : t.from = c /\ t.kind = "deploy" => t.tick = tick + TxTickOffset
    BY <1>4, <2>1, <2>2, <2>3 DEF Sent
  <2>7. tick + TxTickOffset - upload.lastProgressTick <= Reach(0, losses'[c] - 0)
    <3> DEFINE m == losses'[c] - 0
    <3>1. m \in Nat /\ m = losses'[c]
      BY <2>3
    <3> HIDE DEF m
    <3>2. Reach(0, m) = 2 * TxTickOffset + 1 + m
      BY <3>1, ReachFacts
    <3>3. tick + TxTickOffset - upload.lastProgressTick <= Reach(0, m)
      BY <1>3, <1>5, <2>3, <3>1, <3>2 DEF Idle
    <3> QED
      BY <3>3 DEF m
  <2>8. client'[c].txTick - upload'.lastProgressTick <=
          Reach(client'[c].tries, losses'[c] - client'[c].tries)
    <3>1. Reach(client'[c].tries, losses'[c] - client'[c].tries) = Reach(0, losses'[c] - 0)
      BY <2>5
    <3>2. client'[c].txTick - upload'.lastProgressTick = tick + TxTickOffset - upload.lastProgressTick
      BY <1>3, <1>5, <2>5
    <3> QED
      BY <2>7, <3>1, <3>2
  <2>9. Awaited(c)'
    <3>1. client'[c].tries <= losses'[c] /\ tick' <= client'[c].txTick
      BY <1>3, <1>5, <2>3, <2>5
    <3>2. \E t \in mempool' : t.from = c /\ t.kind = "deploy" /\ t.tick <= client'[c].txTick
      BY <1>3, <2>1, <2>5, <2>6
    <3> QED
      BY <2>8, <3>1, <3>2 DEF Awaited, Idle
  <2>10. \A t \in mempool' : t.from = c /\ t.kind = "deploy" =>
           t.tick - upload'.lastProgressTick <=
             Reach(client'[c].tries, losses'[c] - client'[c].tries)
    BY <2>5, <2>6, <2>8
  <2>11. UnansweredOf(c)'
    BY <1>5, <2>9, <2>10 DEF UnansweredOf, Idle
  <2> QED
    BY <1>4, <2>5, <2>11
<1> QED
  BY <1>6, <1>7

LEMMA PollFailsIsPaid ==
  ASSUME Lag = 0, TypesInv, TypesInv', NEW c \in Sessions, FitOf(c), UnansweredOf(c), PollFails(c),
         client[c].pc = "confirming"
  PROVE  /\ client'[c].pc \in {"confirming", "unarmed"}
         /\ client'[c].pc = "confirming" => UnansweredOf(c)'
<1>1. /\ mempool' = mempool /\ upload' = upload /\ tick >= client[c].until
      /\ losses'[c] = losses[c] + 1 /\ tick' = tick
      /\ Polled(client[c], client'[c])
  BY PollFailsMoves DEF Looks
<1>2. client'[c].pc \in {"confirming", "unarmed"}
  BY <1>1 DEF Polled
<1>3. SUFFICES ASSUME client'[c].pc = "confirming" PROVE UnansweredOf(c)'
  BY <1>2
<1> DEFINE l == losses[c]
           m == losses'[c]
           n == client[c].tries
<1>4. /\ client'[c].until = tick + 1 /\ client'[c].tries = n
      /\ client'[c].txTick = client[c].txTick
  BY <1>1, <1>3 DEF Polled
<1>5. /\ tick \in Nat /\ l \in Nat /\ n \in Nat /\ client[c].until \in Nat
      /\ client[c].txTick \in Nat /\ GraceTicks \in Nat /\ m = l + 1
      /\ \A tx \in mempool : tx.tick \in Nat
  BY <1>1, DueType
<1>6. tick = client[c].until
  BY <1>1, <1>5 DEF FitOf, ClaimOf, Prompt
<1>7. /\ Holds(c) /\ IsComplete /\ Holds(c)' /\ IsComplete' /\ upload.lastProgressTick \in Nat
  BY <1>1, HolderType DEF UnansweredOf, Holds, IsComplete
<1>8. n <= l
  BY <1>5 DEF UnansweredOf, Awaited, Missed
<1>9. /\ Reach(n, l - n) \in Nat /\ Reach(n, m - n) \in Nat
      /\ Reach(n, l - n) <= Reach(n, m - n)
      /\ n < l => /\ Reach(n, l - n - 1) \in Nat /\ Reach(n, m - n - 1) \in Nat
                  /\ Reach(n, m - n - 1) = Reach(n, l - n - 1) + 1
  <2> HIDE DEF l, m, n
  <2>1. l <= m /\ m \in Nat
    BY <1>5
  <2>2. /\ Reach(n, l - n) \in Nat /\ Reach(n, m - n) \in Nat
        /\ Reach(n, l - n) <= Reach(n, m - n)
        /\ n < l => /\ Reach(n, l - n - 1) \in Nat /\ Reach(n, m - n - 1) \in Nat
                    /\ Reach(n, l - n) = Reach(n, l - n - 1) + 1
    BY <1>5, <1>8, <2>1, ReachGrows
  <2>3. m - n - 1 = l - n
    BY <1>5
  <2> QED
    BY <2>2, <2>3
<1>10. \A tx \in mempool' : tx.from = c /\ tx.kind = "deploy" =>
         tx.tick - upload.lastProgressTick <= Reach(n, m - n)
  BY <1>1, <1>5, <1>7, <1>9 DEF UnansweredOf, Idle
<1>11. Awaited(c) => Awaited(c)'
  <2> SUFFICES ASSUME Awaited(c) PROVE Awaited(c)'
    OBVIOUS
  <2>1. client[c].txTick - upload.lastProgressTick <= Reach(n, l - n)
    BY DEF Awaited, Idle
  <2>2. client[c].txTick - upload.lastProgressTick <= Reach(n, m - n)
    BY <1>5, <1>7, <1>9, <2>1
  <2>3. n <= m
    BY <1>5, <1>8
  <2> QED
    BY <1>1, <1>4, <2>2, <2>3 DEF Awaited, Idle
<1>12. Missed(c) => Missed(c)'
  <2> SUFFICES ASSUME Missed(c) PROVE Missed(c)'
    OBVIOUS
  <2>1. /\ n < l
        /\ client[c].txTick - upload.lastProgressTick <= Reach(n, l - n - 1)
        /\ client[c].until - upload.lastProgressTick <= Reach(n, l - n - 1) + GraceTicks + 1
    BY DEF Missed, Idle
  <2>2. /\ n < m
        /\ client[c].txTick - upload.lastProgressTick <= Reach(n, m - n - 1)
        /\ tick + 1 - upload.lastProgressTick <= Reach(n, m - n - 1) + GraceTicks + 1
    BY <1>5, <1>6, <1>7, <1>9, <2>1
  <2>3. /\ client'[c].tries < losses'[c]
        /\ client'[c].txTick - upload'.lastProgressTick <=
             Reach(client'[c].tries, losses'[c] - client'[c].tries - 1)
        /\ client'[c].until - upload'.lastProgressTick <=
             Reach(client'[c].tries, losses'[c] - client'[c].tries - 1) + GraceTicks + 1
    <3>1. Reach(client'[c].tries, losses'[c] - client'[c].tries - 1) = Reach(n, m - n - 1)
      BY <1>4
    <3>2. client'[c].until - upload'.lastProgressTick = tick + 1 - upload.lastProgressTick
      BY <1>1, <1>4, <1>5, <1>7
    <3>3. client'[c].txTick - upload'.lastProgressTick = client[c].txTick - upload.lastProgressTick
      BY <1>1, <1>4
    <3> QED
      BY <1>4, <2>2, <3>1, <3>2, <3>3
  <2> QED
    BY <2>3 DEF Missed, Idle
<1>13. UnansweredOf(c)'
  BY <1>1, <1>4, <1>7, <1>10, <1>11, <1>12 DEF UnansweredOf, Idle
<1> QED
  BY <1>13

\* What a client that polls on may not yet have lost.
LEMMA PollIsPaid ==
  ASSUME Lag = 0, TypesInv, TypesInv', NEW c \in Sessions, FitOf(c), UnansweredOf(c), ~IsStale,
         OutcomeOf(c), verdicts[c] = {}, PollUnarmed(c), client[c].pc = "confirming",
         losses'[c] <= Retries
  PROVE  /\ client'[c].pc \in {"confirming", "unarmed"}
         /\ client'[c].pc = "confirming" => UnansweredOf(c)'
<1>1. /\ tick >= client[c].until /\ tick' = tick /\ losses'[c] >= losses[c]
      /\ losses'[c] \in Nat /\ PollResult(c)
  BY PollUnarmedMoves, ClientConstants DEF Looks, Moves
<1>2. ~Refused(c)
  BY DEF OutcomeOf, Refused
<1> DEFINE l == losses[c]
           m == losses'[c]
           n == client[c].tries
<1>3. /\ tick \in Nat /\ l \in Nat /\ m \in Nat /\ l <= m /\ m <= Retries /\ n \in Nat
      /\ client[c].until \in Nat /\ client[c].txTick \in Nat /\ GraceTicks \in Nat
      /\ Retries \in Nat /\ TxTickOffset \in Nat /\ TxTickOffset >= 1
      /\ \A tx \in mempool : tx.tick \in Nat
  BY <1>1, DueType
<1>4. client \in [Sessions -> Client] /\ client[c] \in Client
  BY DEF TypesInv, ClientsType
<1>5. tick = client[c].until
  BY <1>1, <1>3 DEF FitOf, ClaimOf, Prompt
<1>6. /\ Holds(c) /\ IsComplete /\ Holds(c)' /\ IsComplete' /\ upload' = upload
      /\ upload.lastProgressTick \in Nat
  <2>1. Holds(c) /\ IsComplete
    BY DEF UnansweredOf
  <2>2. upload' = upload
    BY <2>1 DEF PollUnarmed, LiveUpload
  <2> QED
    BY <2>1, <2>2, HolderType DEF Holds, IsComplete
<1>7. n <= l
  BY <1>3 DEF UnansweredOf, Awaited, Missed
<1> DEFINE s == l - n - 1
<1>8. /\ Reach(n, l - n) \in Nat /\ Reach(n, m - n) \in Nat
      /\ Reach(n, l - n) <= Reach(n, m - n)
      /\ n < l => /\ Reach(n, s) \in Nat /\ Reach(n, m - n - 1) \in Nat
                  /\ Reach(n, s) <= Reach(n, m - n - 1) /\ Reach(n, l - n) = Reach(n, s) + 1
  BY <1>3, <1>7, ReachGrows
<1>9. \A tx \in mempool : tx.from = c /\ tx.kind = "deploy" =>
        tx.tick - upload.lastProgressTick <= Reach(n, l - n)
  BY DEF UnansweredOf, Idle
<1>10. CASE MissedItsTick(c) /\ client[c].tries < Retries
  <2>1. PICK arrived \in SUBSET {Deployment(c)}, answered \in SUBSET {Deployment(c)},
             thrown \in BOOLEAN :
          /\ Broadcast(c, {Deployment(c)}, arrived, answered)
          /\ thrown => answered = {}
          /\ client' = [client EXCEPT ![c] =
               NextPoll([client[c] EXCEPT !.tries = client[c].tries + 1,
                 !.txTick = IF thrown THEN client[c].txTick ELSE tick + TxTickOffset])]
    BY <1>2, <1>10 DEF PollUnarmed
  <2> DEFINE at == IF thrown THEN client[c].txTick ELSE tick + TxTickOffset
             me == [client[c] EXCEPT !.tries = client[c].tries + 1, !.txTick = at]
             tx == Deployment(c)
  <2>2. /\ me \in Client /\ me.tries = n + 1 /\ me.txTick = at /\ me.pc = "confirming"
        /\ client'[c] = NextPoll(me)
    <3>1. client'[c] = NextPoll(me)
      BY <1>4, <2>1
    <3>2. at \in Nat /\ client[c].tries + 1 \in Nat
      BY <1>3
    <3> HIDE DEF at
    <3> QED
      BY <1>4, <3>1, <3>2 DEF Client
  <2>3. Polled(me, client'[c])
    <3> HIDE DEF me, at
    <3> QED
      BY <2>2, NextPollType
  <2>4. client'[c].pc \in {"confirming", "unarmed"}
    <3> HIDE DEF me, at
    <3> QED
      BY <2>2, <2>3 DEF Polled
  <2>5. SUFFICES ASSUME client'[c].pc = "confirming" PROVE UnansweredOf(c)'
    BY <2>4
  <2>6. /\ client'[c].until = tick + 1 /\ client'[c].tries = n + 1 /\ client'[c].txTick = at
    <3> HIDE DEF me, at, n
    <3> QED
      BY <2>2, <2>3, <2>5 DEF Polled
  <2>7. /\ tx.from = c /\ tx.kind = "deploy" /\ tx.tick = tick + TxTickOffset
        /\ IsFiniteSet({tx})
    BY DeploymentType
  <2> HIDE DEF tx
  <2>8. /\ answered \subseteq arrived /\ arrived \subseteq {tx} /\ mempool' = mempool \cup arrived
        /\ answered # {tx} => m >= l + 1
    <3>1. tx.tick > tick
      BY <1>3, <2>7
    <3> QED
      BY <2>1, <2>7, <3>1, BroadcastLoses DEF tx
  <2>9. /\ n < l
        /\ client[c].txTick - upload.lastProgressTick <= Reach(n, s)
        /\ tick - upload.lastProgressTick <= Reach(n, s) + GraceTicks + 1
    <3>1. ~Awaited(c)
      BY <1>3, <1>10 DEF MissedItsTick, Awaited
    <3> QED
      BY <1>5, <3>1 DEF UnansweredOf, Missed, Idle
  <2>10. /\ s \in Nat /\ n + 1 \in Nat /\ n + 1 <= l /\ n + 1 <= m /\ l - (n + 1) = s
    BY <1>3, <2>9
  <2>11. /\ Reach(n, s) \in Nat /\ Reach(n + 1, s) \in Nat
         /\ Reach(n + 1, s) = Reach(n, s) + GraceTicks + 1 + TxTickOffset
    <3> HIDE DEF s, n
    <3> QED
      BY <1>3, <2>10, ReachFacts
  <2>12. Reach(n + 1, m - (n + 1)) \in Nat /\ Reach(n + 1, s) <= Reach(n + 1, m - (n + 1))
    <3>1. /\ Reach(n + 1, l - (n + 1)) <= Reach(n + 1, m - (n + 1))
          /\ Reach(n + 1, m - (n + 1)) \in Nat
      <4> DEFINE k == n + 1
      <4>1. k \in Nat /\ k <= l
        BY <2>10
      <4> HIDE DEF k, l, m
      <4>2. Reach(k, l - k) <= Reach(k, m - k) /\ Reach(k, m - k) \in Nat
        BY <1>3, <4>1, ReachGrows
      <4> QED
        BY <4>2 DEF k
    <3> QED
      BY <2>10, <3>1
  <2>13. \A t \in mempool' : t.from = c /\ t.kind = "deploy" =>
           t.tick - upload.lastProgressTick <= Reach(n + 1, m - (n + 1))
    <3> HIDE DEF l, m, n, s
    <3>1. \A t \in mempool : t.from = c /\ t.kind = "deploy" =>
            t.tick - upload.lastProgressTick <= Reach(n + 1, m - (n + 1))
      BY <1>3, <1>6, <1>8, <1>9, <2>9, <2>11, <2>12
    <3>2. tx.tick - upload.lastProgressTick <= Reach(n + 1, m - (n + 1))
      BY <1>3, <1>6, <2>7, <2>9, <2>11, <2>12
    <3> QED
      BY <2>8, <3>1, <3>2
  <2>14. \A t \in mempool' : t.from = c /\ t.kind = "deploy" =>
           t.tick - upload'.lastProgressTick <=
             Reach(client'[c].tries, losses'[c] - client'[c].tries)
    <3>1. Reach(client'[c].tries, losses'[c] - client'[c].tries) = Reach(n + 1, m - (n + 1))
      BY <2>6
    <3> QED
      BY <1>6, <2>13, <3>1
  <2>15. CASE answered = {tx}
    <3>1. at = tick + TxTickOffset /\ tx \in mempool'
      BY <2>1, <2>8, <2>15
    <3>2. client'[c].txTick - upload'.lastProgressTick <=
            Reach(client'[c].tries, losses'[c] - client'[c].tries)
      <4>1. client'[c].txTick - upload'.lastProgressTick = tx.tick - upload'.lastProgressTick
        BY <2>6, <2>7, <3>1
      <4> QED
        BY <2>7, <2>14, <3>1, <4>1
    <3>3. client'[c].tries <= losses'[c] /\ tick' <= client'[c].txTick
      BY <1>1, <1>3, <2>6, <2>10, <3>1
    <3>4. \E t \in mempool' : t.from = c /\ t.kind = "deploy" /\ t.tick <= client'[c].txTick
      BY <1>3, <2>6, <2>7, <3>1
    <3>5. Awaited(c)'
      BY <3>2, <3>3, <3>4 DEF Awaited, Idle
    <3> QED
      BY <1>6, <2>14, <3>5 DEF UnansweredOf, Idle
  <2>16. CASE answered # {tx}
    <3> DEFINE t == m - (n + 1) - 1
    <3>1. m >= l + 1 /\ t \in Nat /\ s <= t
      BY <1>3, <2>8, <2>10, <2>16
    <3>2. Reach(n + 1, t) \in Nat /\ Reach(n + 1, s) <= Reach(n + 1, t)
      <4> HIDE DEF n, s, t
      <4> QED
        BY <2>10, <3>1, ReachFacts
    <3>3. at - upload.lastProgressTick <= Reach(n + 1, t)
      <4> HIDE DEF n, s, t
      <4>1. CASE at = client[c].txTick
        BY <1>3, <1>6, <2>9, <2>11, <3>2, <4>1
      <4>2. CASE at = tick + TxTickOffset
        BY <1>3, <1>6, <2>9, <2>11, <3>2, <4>2
      <4> QED
        BY <4>1, <4>2
    <3>4. tick + 1 - upload.lastProgressTick <= Reach(n + 1, t) + GraceTicks + 1
      <4> HIDE DEF n, s, t
      <4> QED
        BY <1>3, <1>6, <2>9, <2>11, <3>2
    <3>5. /\ client'[c].txTick - upload'.lastProgressTick <=
               Reach(client'[c].tries, losses'[c] - client'[c].tries - 1)
          /\ client'[c].until - upload'.lastProgressTick <=
               Reach(client'[c].tries, losses'[c] - client'[c].tries - 1) + GraceTicks + 1
      <4>1. Reach(client'[c].tries, losses'[c] - client'[c].tries - 1) = Reach(n + 1, t)
        BY <2>6
      <4>2. client'[c].until - upload'.lastProgressTick = tick + 1 - upload.lastProgressTick
        BY <1>3, <1>6, <2>6
      <4>3. client'[c].txTick - upload'.lastProgressTick = at - upload.lastProgressTick
        BY <1>6, <2>6
      <4> HIDE DEF t, at
      <4> QED
        BY <3>3, <3>4, <4>1, <4>2, <4>3
    <3>6. client'[c].tries < losses'[c]
      BY <1>3, <2>6, <2>10, <3>1
    <3>7. Missed(c)'
      BY <3>5, <3>6 DEF Missed, Idle
    <3> QED
      BY <1>6, <2>14, <3>7 DEF UnansweredOf, Idle
  <2> QED
    BY <2>15, <2>16
<1>11. CASE ~(MissedItsTick(c) /\ client[c].tries < Retries)
  <2>1. mempool' = mempool /\ Polled(client[c], client'[c])
    BY <1>1, <1>2, <1>11 DEF PollResult, Resends
  <2>2. client'[c].pc \in {"confirming", "unarmed"}
    BY <2>1 DEF Polled
  <2>3. SUFFICES ASSUME client'[c].pc = "confirming" PROVE UnansweredOf(c)'
    BY <2>2
  <2>4. /\ client'[c].until = tick + 1 /\ client'[c].tries = n
        /\ client'[c].txTick = client[c].txTick
    BY <2>1, <2>3 DEF Polled
  <2>5. /\ Reach(client'[c].tries, losses'[c] - client'[c].tries) = Reach(n, m - n)
        /\ Reach(client'[c].tries, losses'[c] - client'[c].tries - 1) = Reach(n, m - n - 1)
        /\ client'[c].until - upload'.lastProgressTick = tick + 1 - upload.lastProgressTick
        /\ client'[c].txTick - upload'.lastProgressTick = client[c].txTick - upload.lastProgressTick
    BY <1>3, <1>6, <2>4
  <2>6. \A tx \in mempool' : tx.from = c /\ tx.kind = "deploy" =>
          tx.tick - upload'.lastProgressTick <=
            Reach(client'[c].tries, losses'[c] - client'[c].tries)
    <3>1. \A tx \in mempool : tx.from = c /\ tx.kind = "deploy" =>
            tx.tick - upload.lastProgressTick <= Reach(n, m - n)
      BY <1>3, <1>6, <1>8, <1>9
    <3> QED
      BY <1>6, <2>1, <2>5, <3>1
  <2>7. CASE Awaited(c)
    <3>1. client[c].txTick - upload.lastProgressTick <= Reach(n, l - n)
      BY <2>7 DEF Awaited, Idle
    <3>2. client[c].txTick - upload.lastProgressTick <= Reach(n, m - n)
      BY <1>3, <1>6, <1>8, <3>1
    <3>3. client'[c].txTick - upload'.lastProgressTick <=
            Reach(client'[c].tries, losses'[c] - client'[c].tries)
      BY <2>5, <3>2
    <3>4. client'[c].tries <= losses'[c] /\ tick' <= client'[c].txTick
      BY <1>1, <1>3, <1>7, <2>4, <2>7 DEF Awaited
    <3>5. \E tx \in mempool' : tx.from = c /\ tx.kind = "deploy" /\ tx.tick <= client'[c].txTick
      BY <2>1, <2>4, <2>7 DEF Awaited
    <3>6. Awaited(c)'
      BY <3>3, <3>4, <3>5 DEF Awaited, Idle
    <3> QED
      BY <1>6, <2>6, <3>6 DEF UnansweredOf, Idle
  <2>8. CASE Missed(c)
    <3>1. n < l /\ client[c].txTick - upload.lastProgressTick <= Reach(n, s)
      BY <2>8 DEF Missed, Idle
    <3>2. tick <= client[c].txTick + GraceTicks
      BY <1>3, <1>11, <3>1 DEF MissedItsTick
    <3>3. /\ client[c].txTick - upload.lastProgressTick <= Reach(n, m - n - 1)
          /\ tick + 1 - upload.lastProgressTick <= Reach(n, m - n - 1) + GraceTicks + 1
      BY <1>3, <1>6, <1>8, <3>1, <3>2
    <3>4. /\ client'[c].txTick - upload'.lastProgressTick <=
               Reach(client'[c].tries, losses'[c] - client'[c].tries - 1)
          /\ client'[c].until - upload'.lastProgressTick <=
               Reach(client'[c].tries, losses'[c] - client'[c].tries - 1) + GraceTicks + 1
      BY <2>5, <3>3
    <3>5. client'[c].tries < losses'[c]
      BY <1>3, <2>4, <3>1
    <3>6. Missed(c)'
      BY <3>4, <3>5 DEF Missed, Idle
    <3> QED
      BY <1>6, <2>6, <3>6 DEF UnansweredOf, Idle
  <2> QED
    BY <2>7, <2>8 DEF UnansweredOf
<1> QED
  BY <1>10, <1>11

\* A client that has lost no more than it may sees its module in time.
\* It does not give up while its DEPLOY is unanswered.
LEMMA NeverUnarmed ==
  ASSUME Lag = 0, PollsOutlastLosses, TypesInv, NEW c \in Sessions,
         FitOf(c), AnswerOf(c), losses[c] <= Retries, client[c].pc = "confirming",
         tick >= client[c].until, client[c].polls = MaxPolls,
         verdicts[c] = {}, UnansweredOf(c)
  PROVE  FALSE
<1>1. /\ tick \in Nat /\ client[c].until \in Nat /\ client[c].tries \in Nat
      /\ losses[c] \in Nat /\ Retries \in Nat /\ DueBy(Retries) \in Nat /\ MaxPolls \in Nat
  BY DueType, DueByType
<1>2. tick = client[c].until
  BY <1>1 DEF FitOf, ClaimOf, Prompt
<1>3. ConfirmOf(c) /\ DueBy(Retries) + losses[c] + 1 < MaxPolls
  BY <1>1 DEF AnswerOf, PollsOutlastLosses
<1>4. ~Sent(c, "deploy") /\ ~(client[c].tries < Retries)
  BY <1>2, <1>3, EnoughPolls
<1>5. ~Awaited(c)
  BY <1>4 DEF Awaited, Sent
<1>6. ~Missed(c)
  BY <1>1, <1>4 DEF Missed
<1> QED
  BY <1>5, <1>6 DEF UnansweredOf

\* A client that waits, in the phases in which it has the slot.
Waits(c) ==
  \/ client[c].pc \in {"sending", "assembling", "arming"}
  \/ client[c].pc = "confirming" /\ verdicts[c] = {}

PhaseGood(c) ==
  /\ client[c].pc = "sending" => SendingOf(c)
  /\ client[c].pc = "assembling" => AssemblingOf(c)
  /\ client[c].pc = "arming" => ArmingOf(c)
  /\ client[c].pc = "confirming" =>
       (verdicts[c] = {} /\ UnansweredOf(c)) \/ "ok" \in verdicts[c]

LEMMA WaitingStays ==
  ASSUME Lag = 0, ModulesLoad, ReportInv, TypesInv', NothingStaged, [ClientNext]_allVars,
         NEW c \in Sessions, PhaseGood(c), Waits(c), Holds(c), ~IsStale
  PROVE  (PhaseGood(c)' /\ client'[c] = client[c]) \/ Step(c) \/ Crash(c)
<1>1. /\ FitInv /\ TypesInv /\ BytesInv /\ PhaseOf(c) /\ FitOf(c) /\ AnswerOf(c)
  BY DEF ReportInv, FitInv, ClosedInv, PhaseInv
<1>2. CASE Undisturbed(c)
  <2>1. client'[c] = client[c] /\ verdicts'[c] = verdicts[c]
    BY <1>2 DEF Undisturbed
  <2>2. SendingOf(c) => SendingOf(c)'
    BY <1>1, <1>2, SendingStays
  <2>3. AssemblingOf(c) => AssemblingOf(c)'
    BY <1>1, <1>2, AssemblingStays
  <2>4. ArmingOf(c) => ArmingOf(c)'
    BY <1>1, <1>2, ArmingStays
  <2>5. UnansweredOf(c) => UnansweredOf(c)'
    BY <1>1, <1>2, UnansweredStays
  <2> QED
    BY <2>1, <2>2, <2>3, <2>4, <2>5 DEF PhaseGood
<1>3. CASE Tick
  <2>1. client'[c] = client[c] /\ verdicts'[c] = verdicts[c] /\ tick < Deadline(c)
    BY <1>1, <1>3, TickMoves DEF TickPasses, Waits, Running
  <2>2. client[c].pc \notin {"sending", "arming"}
    <3>1. tick < client[c].until + 0
      BY <2>1 DEF Deadline, Waits
    <3>2. tick \in Nat /\ client[c].until \in Nat
      BY <1>1, DueType
    <3> QED
      BY <3>1, <3>2 DEF PhaseGood, SendingOf, ArmingOf
  <2>3. CASE client[c].pc = "assembling"
    <3>1. AssemblingOf(c)'
      BY <1>1, <1>3, <2>3, AssemblingTick DEF PhaseGood
    <3> QED
      BY <2>1, <2>3, <3>1 DEF PhaseGood
  <2>4. CASE client[c].pc = "confirming" /\ verdicts[c] = {}
    <3>1. UnansweredOf(c) /\ client[c].until <= tick + 1
      BY <1>1, <2>4 DEF PhaseGood, AnswerOf
    <3>2. UnansweredOf(c)'
      BY <1>1, <1>3, <3>1, UnansweredTick
    <3> QED
      BY <2>1, <2>4, <3>2 DEF PhaseGood
  <2> QED
    BY <2>2, <2>3, <2>4 DEF Waits
<1>4. ASSUME NEW tx \in mempool, tx.from = c, tx.kind = "deploy", Deliver(tx)
      PROVE  PhaseGood(c)' /\ client'[c] = client[c]
  <2>1. client'[c] = client[c]
    BY <1>1, <1>4, DeliverMoves DEF Delivery
  <2>2. client[c].pc = "confirming" /\ verdicts[c] = {}
    BY <1>1, <1>4 DEF Waits, PhaseOf, Undeployed, Deployed, Sent
  <2>3. Holds(c) /\ IsComplete
    BY <2>2 DEF PhaseGood, UnansweredOf
  <2>4. "ok" \in verdicts'[c]
    BY <1>1, <1>4, <2>3, DeployArms
  <2> QED
    BY <2>1, <2>2, <2>4 DEF PhaseGood
<1> QED
  BY <1>1, <1>2, <1>3, <1>4, HolderCases

LEMMA VerdictsGrow ==
  ASSUME TypesInv, [ClientNext]_allVars, NEW c \in Sessions
  PROVE  verdicts[c] \subseteq verdicts'[c]
<1>1. CASE verdicts'[c] = verdicts[c]
  BY <1>1
<1>2. CASE verdicts'[c] # verdicts[c]
  <2>1. PICK tx \in mempool : tx.kind = "deploy" /\ tx.from = c /\ Delivery(tx)
    BY <1>2, VerdictGiven
  <2> QED
    BY <2>1 DEF Delivery
<1> QED
  BY <1>1, <1>2

Good(c) ==
  /\ client[c].pc # "unsent"
  /\ client[c].pc \in {"refused", "unarmed"} => "ok" \in verdicts[c]
  /\ ClaimingOf(c) /\ PhaseGood(c)

LEMMA GoodIs == ASSUME NEW c PROVE MadeGoodOf(c) <=> (losses[c] <= Retries => Good(c))
BY DEF MadeGoodOf, Good, PhaseGood

\* The polls of a client.
LEMMA PollsArePaid ==
  ASSUME Lag = 0, PollsOutlastLosses, ReportInv, ReportInv', NEW c \in Sessions,
         Good(c), ~(client[c].pc = "confirming" /\ verdicts[c] = {}) \/ ~IsStale,
         losses[c] <= Retries, losses'[c] <= Retries, PollUnarmed(c) \/ PollFails(c)
  PROVE  Good(c)'
<1>1. /\ TypesInv /\ TypesInv' /\ FitOf(c) /\ OutcomeOf(c) /\ AnswerOf(c) /\ AnswerOf(c)'
  BY DEF ReportInv, FitInv, ClosedInv, PhaseInv
<1>2. /\ client[c].pc \in {"confirming", "armed"} /\ tick >= client[c].until
      /\ verdicts' = verdicts
      /\ PollUnarmed(c) => PollResult(c)
      /\ PollFails(c) => Polled(client[c], client'[c])
  BY <1>1, PollUnarmedMoves, PollFailsMoves DEF Moves
<1>3. CASE client[c].pc = "armed"
  <2>1. client'[c].pc \in {"ok", "armed"}
    BY <1>2, <1>3 DEF PollResult, Resends, Polled
  <2> QED
    BY <2>1 DEF Good, PhaseGood, ClaimingOf
<1>4. CASE client[c].pc = "confirming"
  <2>1. (verdicts[c] = {} /\ UnansweredOf(c)) \/ "ok" \in verdicts[c]
    BY <1>4 DEF Good, PhaseGood
  <2>2. client'[c].pc \in {"confirming", "refused", "unarmed"}
    BY <1>2, <1>4 DEF PollResult, Resends, Polled
  <2>3. CASE "ok" \in verdicts[c]
    BY <1>2, <2>2, <2>3 DEF Good, PhaseGood, ClaimingOf
  <2>4. CASE verdicts[c] = {} /\ UnansweredOf(c)
    <3>1. /\ client'[c].pc \in {"confirming", "unarmed"}
          /\ client'[c].pc = "confirming" => UnansweredOf(c)'
      BY <1>1, <1>4, <2>4, PollIsPaid, PollFailsIsPaid
    <3>2. client[c].polls # MaxPolls
      BY <1>1, <1>2, <1>4, <2>4, NeverUnarmed
    <3>3. client'[c].pc # "unarmed"
      BY <1>2, <1>4, <3>2 DEF PollResult, Resends, Polled
    <3> QED
      BY <1>2, <2>4, <3>1, <3>3 DEF Good, PhaseGood, ClaimingOf
  <2> QED
    BY <2>1, <2>3, <2>4
<1> QED
  BY <1>2, <1>3, <1>4

\* A step of the client itself.
LEMMA StepsArePaid ==
  ASSUME Lag = 0, PollsOutlastLosses, ReportInv, ReportInv', NEW c \in Sessions,
         EmptyOf(c), Good(c), Waits(c) => Holds(c) /\ ~IsStale,
         losses[c] <= Retries, losses'[c] <= Retries, Step(c) \/ Crash(c)
  PROVE  Good(c)'
<1>1. /\ TypesInv /\ TypesInv' /\ FitOf(c) /\ PhaseOf(c)
  BY DEF ReportInv, FitInv, ClosedInv, PhaseInv
<1>2. ASSUME NEW read \in BOOLEAN, Preflight(c, read) \/ Watch(c, read) PROVE Good(c)'
  <2>1. client'[c].pc \in {"claiming", "watching", "busy"} /\ Looks
        /\ client[c].pc \in {"start", "watching"}
    BY <1>1, <1>2, PreflightMoves, WatchMoves DEF ClaimingNow
  <2>2. ~Holds(c)'
    BY <1>1, <2>1 DEF FitOf, ClaimOf, Holds, Looks, LiveUpload
  <2> QED
    BY <2>1, <2>2 DEF Good, PhaseGood, ClaimingOf
<1>3. CASE SendBegin(c)
  <2>1. client'[c].pc = "checking" /\ ClaimingOf(c)'
    BY <1>1, <1>3, BeginIsPaid DEF Good
  <2> QED
    BY <2>1 DEF Good, PhaseGood
<1>4. ASSUME NEW read \in BOOLEAN, CheckClaim(c, read) PROVE Good(c)'
  <2>1. /\ client'[c].pc \in {"claiming", "sending", "busy", "unclaimed"}
        /\ client'[c].pc = "claiming" => ClaimingOf(c)'
        /\ client'[c].pc = "sending" => SendingOf(c)'
    BY <1>1, <1>4, ClaimIsPaid DEF Good
  <2> QED
    BY <2>1 DEF Good, PhaseGood, ClaimingOf
<1>5. CASE SendChunks(c)
  <2>1. client[c].pc = "sending"
    BY <1>1, <1>5, SendChunksMoves
  <2>2. /\ client'[c].pc \in {"sending", "assembling", "uncounted"}
        /\ client'[c].pc = "sending" => SendingOf(c)'
        /\ client'[c].pc = "assembling" => AssemblingOf(c)'
    BY <1>1, <1>5, <2>1, ChunksArePaid DEF Good, PhaseGood
  <2> QED
    BY <2>2 DEF Good, PhaseGood, ClaimingOf
<1>6. ASSUME NEW read \in BOOLEAN, Assemble(c, read) PROVE Good(c)'
  <2>1. client[c].pc = "assembling"
    BY <1>1, <1>6, AssembleMoves
  <2>2. /\ client'[c].pc \in {"assembling", "arming", "threw"}
        /\ client'[c].pc = "assembling" => AssemblingOf(c)'
        /\ client'[c].pc = "arming" => ArmingOf(c)'
    BY <1>1, <1>6, <2>1, RoundIsPaid DEF Good, PhaseGood, Waits
  <2> QED
    BY <2>2 DEF Good, PhaseGood, ClaimingOf
<1>7. CASE SendDeploy(c)
  <2>1. client[c].pc = "arming"
    BY <1>1, <1>7, SendDeployMoves
  <2>2. /\ client'[c].pc \in {"confirming", "threw"}
        /\ client'[c].pc = "confirming" => verdicts'[c] = {} /\ UnansweredOf(c)'
    BY <1>1, <1>7, <2>1, DeployIsPaid DEF Good, PhaseGood
  <2> QED
    BY <2>2 DEF Good, PhaseGood, ClaimingOf
<1>8. CASE PollArmed(c)
  <2>1. client'[c].pc \in {"ok", "armed"}
    BY <1>1, <1>8, PollArmedMoves
  <2> QED
    BY <2>1 DEF Good, PhaseGood, ClaimingOf
<1>9. CASE PollUnarmed(c) \/ PollFails(c)
  BY <1>9, PollsArePaid DEF Waits
<1>10. CASE Crash(c)
  <2>1. client'[c].pc = "crashed"
    BY <1>1, <1>10, CrashMoves
  <2> QED
    BY <2>1 DEF Good, PhaseGood, ClaimingOf
<1> QED
  BY <1>2, <1>3, <1>4, <1>5, <1>6, <1>7, <1>8, <1>9, <1>10 DEF Step

LEMMA LossInductive ==
  ASSUME Lag = 0, RetriesFitASession, PollsOutlastResends, ClientsDiffer, SessionsOutlastLosses,
         PollsOutlastLosses, ModulesLoad
  PROVE  LossInv /\ [ClientNext]_allVars => LossInv'
<1> SUFFICES ASSUME LossInv, [ClientNext]_allVars PROVE LossInv'
  OBVIOUS
<1>1. ReportInv /\ ReportInv' /\ FitInv /\ FitInv' /\ TypesInv /\ TypesInv' /\ NothingStaged
  BY ReportInductive DEF LossInv, ReportInv, FitInv, ClosedInv, PhaseInv
<1>2. NothingStaged'
  BY <1>1, NothingStagedStays
<1>3. ASSUME NEW c \in Sessions PROVE EmptyOf(c)' /\ MadeGoodOf(c)'
  <2>1. EmptyOf(c) /\ MadeGoodOf(c) /\ FitOf(c) /\ PhaseOf(c)
    BY <1>1 DEF LossInv, FitInv, ClosedInv, PhaseInv
  <2>2. EmptyOf(c)'
    BY <1>1, <2>1, EmptyStays
  <2>3. ASSUME losses'[c] <= Retries PROVE Good(c)'
    <3>1. losses[c] <= Retries /\ Good(c)
      <4>1. /\ losses[c] \in Nat /\ losses'[c] \in Nat /\ losses'[c] >= losses[c]
            /\ Retries \in Nat
        BY <1>1, LossesGrow, ClientConstants
      <4>2. losses[c] <= Retries
        BY <2>3, <4>1
      <4> QED
        BY <2>1, <4>2, GoodIs
    <3>2. Waits(c) => Holds(c) /\ ~IsStale
      BY <1>1, <2>1, <3>1, NotStale DEF Waits
    <3>3. CASE Step(c) \/ Crash(c)
      BY <1>1, <2>1, <2>3, <3>1, <3>2, <3>3, StepsArePaid
    <3>4. CASE ~(Step(c) \/ Crash(c))
      <4>1. client'[c] = client[c]
        BY <1>1, <3>4, Bystanders DEF Bystands
      <4>2. ClaimingOf(c)'
        BY <1>1, <3>1, <4>1, ClaimingStays DEF Good
      <4>3. PhaseGood(c)'
        <5>1. CASE Waits(c)
          BY <1>1, <3>1, <3>2, <3>4, <5>1, WaitingStays DEF Good
        <5>2. CASE ~Waits(c) /\ client[c].pc = "confirming"
          <6>1. "ok" \in verdicts'[c]
            BY <1>1, <3>1, <5>2, VerdictsGrow DEF Good, PhaseGood, Waits
          <6> QED
            BY <4>1, <5>2, <6>1 DEF PhaseGood
        <5>3. CASE ~Waits(c) /\ client[c].pc # "confirming"
          BY <4>1, <5>3 DEF PhaseGood, Waits
        <5> QED
          BY <5>1, <5>2, <5>3
      <4> QED
        BY <1>1, <3>1, <4>1, <4>2, <4>3, VerdictsGrow DEF Good
    <3> QED
      BY <3>3, <3>4
  <2>4. MadeGoodOf(c)'
    BY <2>3 DEF MadeGoodOf, Good, PhaseGood
  <2> QED
    BY <2>2, <2>4
<1> QED
  BY <1>1, <1>2, <1>3 DEF LossInv

\* A client that owns the upload slot and knows it bears as many losses as it has
\* retries, wherever they fall, until the node has armed its module: for any number of
\* clients, slots shared between them, when each client polls in every tick and often
\* enough, sessions outlast what the losses cost, no two clients deploy the same module
\* to one slot, and the modules load.
THEOREM LossesAreBorne ==
  ASSUME Lag = 0, PollsOutlastResends, ClientsDiffer, SessionsOutlastLosses,
         PollsOutlastLosses, ModulesLoad
  PROVE  ClientSpec => []LossesAreMadeGood
<1>1. RetriesFitASession
  <2>1. Rounds(Retries + 1) \in Nat /\ Rounds(Retries + 2) \in Nat
        /\ Rounds(Retries + 1) <= Rounds(Retries + 2)
    <3> DEFINE i == Retries + 1
               j == Retries + 2
    <3>1. i \in Nat /\ j \in Nat /\ i <= j
      BY ClientConstants
    <3> HIDE DEF i, j
    <3>2. Rounds(i) \in Nat /\ Rounds(j) \in Nat /\ Rounds(i) <= Rounds(j)
      BY <3>1, RoundsType
    <3> QED
      BY <3>2 DEF i, j
  <2> QED
    BY <2>1, DeploymentConstants DEF SessionsOutlastLosses, RetriesFitASession
<1>2. ClientInit => LossInv
  <2> SUFFICES ASSUME ClientInit PROVE LossInv
    OBVIOUS
  <2>1. /\ upload = None /\ lastDeploy = None /\ \A s \in Slots : slotMeta[s] = None
        /\ \A c \in Sessions : client[c].pc = "start"
    BY DEF ClientInit, Init, Resting
  <2>2. ReportInv
    BY <2>1, FitInit DEF ReportInv, BytesInv, MetaInv, OutcomeOf, AnswerOf
  <2>3. NothingStaged
    BY DEF ClientInit, Init, NothingStaged
  <2>4. ASSUME NEW c \in Sessions PROVE EmptyOf(c) /\ MadeGoodOf(c)
    <3>1. client[c].pc = "start" /\ ~Holds(c) /\ ~Sent(c, "chunk")
      BY <2>1 DEF ClientInit, Holds, Sent
    <3> QED
      BY <3>1 DEF EmptyOf, MadeGoodOf, ClaimingOf
  <2> QED
    BY <2>2, <2>3, <2>4 DEF LossInv
<1>3. LossInv => LossesAreMadeGood
  <2> SUFFICES ASSUME LossInv, NEW c \in Sessions,
                      client[c].pc \in {"unsent", "refused", "unarmed"}, ~(losses[c] > Retries)
               PROVE  "ok" \in verdicts[c]
    BY DEF LossesAreMadeGood
  <2>1. TypesInv
    BY DEF LossInv, ReportInv, FitInv, ClosedInv, PhaseInv
  <2>2. losses[c] <= Retries
    BY <2>1, DueType
  <2> QED
    BY <2>2 DEF LossInv, MadeGoodOf
<1> QED
  BY <1>1, <1>2, <1>3, LossInductive, ClientSteps, PTL
=============================================================================
