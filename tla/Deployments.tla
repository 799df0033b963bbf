----------------------------- MODULE Deployments -----------------------------
(***************************************************************************)
(* How a module gets into a contract slot of the node: the upload session  *)
(* and the DEPLOY of packages/engine/src/transport.ts, the staged state,   *)
(* and the life of a slot in contract/registry.ts, up to the tick that     *)
(* runs its INITIALIZE or MIGRATE.                                         *)
(*                                                                         *)
(* A module is its own hash.  A chunk holds bytes of some module, so the   *)
(* uploaded bytes hash to the announced digest when all are of that        *)
(* module.  A contract state is known by the deploy that brought its bytes *)
(* into the slot, blank or staged; a state that is copied, cut to another  *)
(* size, migrated or initialised descends from the same bytes.  Messages   *)
(* arrive in any order and any number of times.  Left out: names, minted   *)
(* shares, deploys that skip INITIALIZE for a fixture, and the window a    *)
(* broadcast has to meet (TickEngine).                                     *)
(***************************************************************************)
EXTENDS Integers, FiniteSets

CONSTANTS
  Slots,        \* contract slots a DEPLOY may name
  Sessions,     \* upload session ids
  Modules,      \* what may be uploaded
  NotWasm,      \* modules without the wasm magic
  Unloadable,   \* modules that Contract.load refuses
  StateSize,    \* module -> size of its state
  MigrateFrom,  \* module -> size of the state its MIGRATE reads, 0 for none
  StagedSizes,  \* sizes of staged states, in chunks
  ChunkCount,   \* chunks of an upload
  StaleTicks,   \* UPLOAD_STALE_TICKS
  MaxTick,      \* bound of the model
  MaxVersion,   \* bound of the model: deploys into a slot
  MaxStaged,    \* bound of the model: length of a chunk of staged state
  None

ASSUME DeploymentConstants ==
  /\ NotWasm \subseteq Modules /\ Unloadable \subseteq Modules
  /\ StateSize \in [Modules -> Nat \ {0}] /\ MigrateFrom \in [Modules -> Nat]
  /\ StagedSizes \subseteq Nat \ {0}
  /\ ChunkCount \in Nat \ {0} /\ StaleTicks \in Nat
  /\ MaxTick \in Nat /\ MaxVersion \in Nat /\ MaxStaged \in Nat

VARIABLES
  tick,
  upload,               \* the node's one session, or None
  lastDeploy,           \* the last verdict, or None
  stagedStates,         \* slot -> [total, received], or None
  contracts,            \* slot -> [module, state], or None
  pendingConstruction,  \* slot -> [oldState], or None
  slotMeta,             \* slot -> [codeHash, version], or None
  halted                \* INITIALIZE or MIGRATE trapped

slotVars == <<contracts, pendingConstruction, slotMeta>>
vars == <<tick, upload, lastDeploy, stagedStates, slotVars, halted>>

Chunks == 1 .. ChunkCount
Codes == {"ok", "bad-slot", "abi-mismatch", "session-mismatch", "incomplete",
          "hash-mismatch", "not-wasm", "load-failed"}
\* The size, which deploy into the slot brought the bytes, whether they were
\* staged, and how often INITIALIZE ran on them.
State == [size : Nat, version : Nat, seeded : BOOLEAN, inits : Nat]
Upload == [session : Sessions, announced : Modules, bytes : [Chunks -> Modules \cup {None}],
           lastProgressTick : Nat]
Outcome == [session : Sessions, slot : Slots \cup {None}, code : Codes]
Staged == [total : Nat, received : Nat]
Contract == [module : Modules, state : State]
Pending == [oldState : State \cup {None}]
Description == [codeHash : Modules, version : Nat]

ASSUME NoneIsNothing ==
  /\ None \notin State /\ None \notin Upload /\ None \notin Outcome /\ None \notin Staged
  /\ None \notin Contract /\ None \notin Pending /\ None \notin Description /\ None \notin Modules

Init ==
  /\ tick = 0 /\ upload = None /\ lastDeploy = None /\ halted = FALSE
  /\ stagedStates = [s \in Slots |-> None] /\ contracts = [s \in Slots |-> None]
  /\ pendingConstruction = [s \in Slots |-> None] /\ slotMeta = [s \in Slots |-> None]

(***************************************************************************)
(* The upload session.                                                     *)
(***************************************************************************)

IdleTicks == tick - upload.lastProgressTick
IsStale_eager == upload # None /\ IdleTicks >= StaleTicks
IsStale == upload # None /\ IdleTicks > StaleTicks

\* dropStaleUpload: a session nobody feeds is dropped when it is looked at.
LiveUpload == IF IsStale THEN None ELSE upload

\* UPLOAD_BEGIN: the slot is claimed, or it is already this session's.
UploadBegin(session, module) ==
  /\ ~halted
  /\ upload' = IF LiveUpload # None THEN upload
               ELSE [session |-> session, announced |-> module,
                     bytes |-> [c \in Chunks |-> None], lastProgressTick |-> tick]
  /\ UNCHANGED <<tick, lastDeploy, stagedStates, slotVars, halted>>

\* UPLOAD_CHUNK: in any order, but none twice.
ChunkRefused(session, c) ==
  upload = None \/ upload.session # session \/ upload.bytes[c] # None

UploadChunk(session, c, module) ==
  /\ ~halted /\ ~ChunkRefused(session, c)
  /\ upload' = [upload EXCEPT !.bytes[c] = module, !.lastProgressTick = tick]
  /\ UNCHANGED <<tick, lastDeploy, stagedStates, slotVars, halted>>

\* dynUpload, which every client polls.
DynUpload ==
  /\ upload' = LiveUpload
  /\ UNCHANGED <<tick, lastDeploy, stagedStates, slotVars, halted>>

(***************************************************************************)
(* ContractRegistry.deploy.                                                *)
(***************************************************************************)

Version(slot) == IF slotMeta[slot] = None THEN 0 ELSE slotMeta[slot].version

Blank(slot, module) ==
  [size |-> StateSize[module], version |-> Version(slot) + 1, seeded |-> FALSE, inits |-> 0]
Resized(module, state) == [state EXCEPT !.size = StateSize[module]]
Initialized(state) == [state EXCEPT !.inits = @ + 1]
Migrates(module, state) == state # None /\ MigrateFrom[module] = state.size

\* What a redeploy carries over: a resident that still waits to migrate hands on
\* the state it was waiting with.
ResidentState_resident(slot) ==
  IF contracts[slot] # None THEN contracts[slot].state ELSE None
ResidentState(slot) ==
  IF pendingConstruction[slot] # None /\ pendingConstruction[slot].oldState # None
    THEN pendingConstruction[slot].oldState
  ELSE IF contracts[slot] # None THEN contracts[slot].state
  ELSE None

\* The INITIALIZE the first deploy never reached.
OwedInitialize_always(slot, seed) == seed = None
OwedInitialize(slot, seed) ==
  /\ seed = None
  /\ pendingConstruction[slot] # None /\ pendingConstruction[slot].oldState = None

LoadFails(module, seed) ==
  \/ module \in Unloadable
  \/ seed # None /\ ~Migrates(module, seed) /\ seed.size # StateSize[module]

\* The slot after a deploy that loads: the contract, and what it waits for.
Installed(slot, module, seed, defer) ==
  LET prev     == IF seed # None THEN seed ELSE ResidentState(slot)
      migrates == Migrates(module, prev)
      owed     == OwedInitialize(slot, seed)
      slotWith(state, pending) ==
        [contract |-> [module |-> module, state |-> state], pending |-> pending]
  IN IF defer /\ (prev = None \/ migrates)
       THEN slotWith(Blank(slot, module), [oldState |-> IF migrates THEN prev ELSE None])
     ELSE IF prev = None THEN slotWith(Initialized(Blank(slot, module)), None)
     ELSE IF migrates \/ ~owed THEN slotWith(Resized(module, prev), None)
     ELSE IF defer THEN slotWith(Resized(module, prev), [oldState |-> None])
     ELSE slotWith(Initialized(Resized(module, prev)), None)

\* takeStagedState: only a complete one is handed on, and a deploy always
\* consumes the entry.
TakenSeed(slot) ==
  LET staged == stagedStates[slot] IN
  IF staged = None \/ staged.received # staged.total THEN None
  ELSE [size |-> staged.total, version |-> Version(slot) + 1, seeded |-> TRUE, inits |-> 0]

Described(slot, module) ==
  slotMeta' = [slotMeta EXCEPT ![slot] = [codeHash |-> module, version |-> Version(slot) + 1]]

FailToLoad_described(slot, module) ==
  /\ Described(slot, module)
  /\ stagedStates' = [stagedStates EXCEPT ![slot] = None]
  /\ UNCHANGED <<contracts, pendingConstruction>>

FailToLoad(slot, module) ==
  /\ stagedStates' = [stagedStates EXCEPT ![slot] = None]
  /\ UNCHANGED slotVars

Load(slot, module, defer) ==
  LET installed == Installed(slot, module, TakenSeed(slot), defer) IN
  /\ Version(slot) < MaxVersion
  /\ stagedStates' = [stagedStates EXCEPT ![slot] = None]
  /\ contracts' = [contracts EXCEPT ![slot] = installed.contract]
  /\ pendingConstruction' = [pendingConstruction EXCEPT ![slot] = installed.pending]
  /\ Described(slot, module)

\* VirtualNode.deploy, called by an embedder or by the direct route.
Deploy(slot, module, defer) ==
  /\ ~halted
  /\ IF LoadFails(module, TakenSeed(slot)) THEN FailToLoad(slot, module)
     ELSE Load(slot, module, defer)
  /\ UNCHANGED <<tick, upload, lastDeploy, halted>>

\* The INITIALIZE or MIGRATE that a deploy runs at once traps: the contract is in
\* its slot, the node halts before the slot is described.
DeployTraps(slot, module) ==
  LET seed == TakenSeed(slot)
      prev == IF seed # None THEN seed ELSE ResidentState(slot) IN
  /\ ~halted /\ ~LoadFails(module, seed)
  /\ prev = None \/ Migrates(module, prev) \/ OwedInitialize(slot, seed)
  /\ halted' = TRUE
  /\ stagedStates' = [stagedStates EXCEPT ![slot] = None]
  /\ contracts' = [contracts EXCEPT ![slot] = [module |-> module, state |-> Blank(slot, module)]]
  /\ pendingConstruction' = [pendingConstruction EXCEPT ![slot] = None]
  /\ UNCHANGED <<tick, upload, lastDeploy, slotMeta>>

(***************************************************************************)
(* The DEPLOY transaction.                                                 *)
(***************************************************************************)

\* recordDeployOutcome: a session's verdict stands, unless it was "incomplete".
Recorded(session, slot, code) ==
  IF lastDeploy # None /\ lastDeploy.session = session /\ lastDeploy.code # "incomplete"
    THEN lastDeploy
    ELSE [session |-> session, slot |-> slot, code |-> code]

IsComplete == \A c \in Chunks : upload.bytes[c] # None
HashesTo(module) == \A c \in Chunks : upload.bytes[c] = module

\* The verdict on a DEPLOY, the first check that fails.
Verdict(session, slot, abiFits, module) ==
  CASE slot \notin Slots -> "bad-slot"
    [] slot \in Slots /\ ~abiFits -> "abi-mismatch"
    [] slot \in Slots /\ abiFits ->
         IF upload = None \/ upload.session # session THEN "session-mismatch"
         ELSE IF ~IsComplete THEN "incomplete"
         ELSE IF ~HashesTo(upload.announced) \/ module # upload.announced THEN "hash-mismatch"
         ELSE IF module \in NotWasm THEN "not-wasm"
         ELSE IF LoadFails(module, TakenSeed(slot)) THEN "load-failed"
         ELSE "ok"

\* Once the bytes are known to be right the session is freed, whichever way the
\* load goes.
DeployTx(session, slot, abiFits, module) ==
  LET code == Verdict(session, slot, abiFits, module) IN
  /\ ~halted
  /\ CASE code = "ok" -> Load(slot, module, TRUE)
       [] code = "load-failed" -> FailToLoad(slot, module)
       [] OTHER -> UNCHANGED <<stagedStates, slotVars>>
  /\ upload' = IF code \in {"ok", "load-failed", "not-wasm"} THEN None ELSE upload
  /\ lastDeploy' = Recorded(session, slot, code)
  /\ UNCHANGED <<tick, halted>>

(***************************************************************************)
(* stageState, undeploy and the tick.                                      *)
(***************************************************************************)

\* A chunk at offset 0 starts over, also when it is then refused; the next one
\* has to continue, and none may overrun the total.
Restaged(slot, offset, total) ==
  IF offset = 0 THEN [total |-> total, received |-> 0] ELSE stagedStates[slot]
Overruns(offset, total, len) == offset + len > total

StageState(slot, offset, total, len) ==
  LET staged == Restaged(slot, offset, total) IN
  /\ staged # None /\ staged.total = total /\ staged.received = offset
  /\ stagedStates' = [stagedStates EXCEPT ![slot] =
       IF Overruns(offset, total, len) THEN staged ELSE [staged EXCEPT !.received = @ + len]]
  /\ UNCHANGED <<tick, upload, lastDeploy, slotVars, halted>>

\* A total of zero clears the entry.
ClearStaged(slot) ==
  /\ stagedStates' = [stagedStates EXCEPT ![slot] = None]
  /\ UNCHANGED <<tick, upload, lastDeploy, slotVars, halted>>

Undeploy(slot) ==
  /\ ~halted
  /\ contracts' = [contracts EXCEPT ![slot] = None]
  /\ pendingConstruction' = [pendingConstruction EXCEPT ![slot] = None]
  /\ slotMeta' = [slotMeta EXCEPT ![slot] = None]
  /\ UNCHANGED <<tick, upload, lastDeploy, stagedStates, halted>>

\* constructPending: MIGRATE when there is an old state, INITIALIZE otherwise.
Constructed(slot) ==
  LET c == contracts[slot]  wait == pendingConstruction[slot] IN
  IF wait = None THEN c
  ELSE [c EXCEPT !.state = IF wait.oldState # None THEN Resized(c.module, wait.oldState)
                           ELSE Initialized(c.state)]

\* activatePendingContracts, at the head of a tick.
NextTick ==
  /\ ~halted /\ tick < MaxTick
  /\ tick' = tick + 1
  /\ contracts' = [slot \in Slots |-> Constructed(slot)]
  /\ pendingConstruction' = [slot \in Slots |-> None]
  /\ UNCHANGED <<upload, lastDeploy, stagedStates, slotMeta, halted>>

\* The entry that a pending contract owes traps; the contracts that were armed
\* before it are constructed, the others wait on in a node that has halted.
ConstructionTraps(slot, done) ==
  /\ ~halted /\ tick < MaxTick /\ pendingConstruction[slot] # None /\ slot \notin done
  /\ halted' = TRUE /\ tick' = tick + 1
  /\ contracts' = [s \in Slots |-> IF s \in done THEN Constructed(s) ELSE contracts[s]]
  /\ pendingConstruction' =
       [s \in Slots |-> IF s \in done \cup {slot} THEN None ELSE pendingConstruction[s]]
  /\ UNCHANGED <<upload, lastDeploy, stagedStates, slotMeta>>

UploadStep ==
  \E session \in Sessions :
    \/ \E m \in Modules : UploadBegin(session, m)
    \/ \E c \in Chunks, m \in Modules : UploadChunk(session, c, m)
    \/ \E slot \in Slots \cup {None}, fits \in BOOLEAN, m \in Modules :
         DeployTx(session, slot, fits, m)

SlotStep ==
  \E slot \in Slots :
    \/ \E m \in Modules, defer \in BOOLEAN : Deploy(slot, m, defer)
    \/ \E m \in Modules : DeployTraps(slot, m)
    \/ \E total \in StagedSizes : \E offset \in 0 .. total, len \in 0 .. MaxStaged :
         StageState(slot, offset, total, len)
    \/ ClearStaged(slot)
    \/ Undeploy(slot)
    \/ \E done \in SUBSET Slots : ConstructionTraps(slot, done)

Next == UploadStep \/ DynUpload \/ SlotStep \/ NextTick

Spec == Init /\ [][Next]_vars

(***************************************************************************)
(* Properties.                                                             *)
(***************************************************************************)

\* The type invariant of the node's deployments.  A staged state never holds more
\* than the total it was announced with.
TypeOK ==
  /\ tick \in Nat /\ halted \in BOOLEAN
  /\ upload \in Upload \cup {None}
  /\ upload # None => upload.lastProgressTick <= tick
  /\ lastDeploy \in Outcome \cup {None}
  /\ stagedStates \in [Slots -> Staged \cup {None}]
  /\ \A s \in Slots : stagedStates[s] # None => stagedStates[s].received <= stagedStates[s].total
  /\ contracts \in [Slots -> Contract \cup {None}]
  /\ pendingConstruction \in [Slots -> Pending \cup {None}]
  /\ slotMeta \in [Slots -> Description \cup {None}]

\* dynRegistry reports what runs: a slot is described exactly when a contract is
\* in it, by the hash of that contract's code, and only a resident contract
\* waits for its construction; also after loads that failed over a resident, as
\* long as the node has not halted.
RegistryReportsWhatRuns ==
  ~halted => \A s \in Slots :
    /\ slotMeta[s] = None <=> contracts[s] = None
    /\ contracts[s] # None => slotMeta[s].codeHash = contracts[s].module
    /\ pendingConstruction[s] # None => contracts[s] # None

\* INITIALIZE runs at most once on the bytes of a slot and never on a staged
\* state, however often the slot is redeployed before and after its tick.
InitializedOnce ==
  \A s \in Slots : contracts[s] # None =>
    contracts[s].state.inits <= IF contracts[s].state.seeded THEN 0 ELSE 1

\* The bytes a slot will hold once it is constructed: those set aside for MIGRATE,
\* or those its contract has.
StateToBe(s) ==
  LET c == contracts[s]  wait == pendingConstruction[s] IN
  IF wait # None /\ wait.oldState # None THEN wait.oldState
  ELSE IF c = None THEN None ELSE c.state

\* b descends from the bytes of a, and INITIALIZE did not run on them in between
\* unless they were blank.
SameBytes(a, b) ==
  /\ a.version = b.version /\ a.seeded = b.seeded
  /\ a.seeded \/ a.inits > 0 => a.inits = b.inits

\* No upgrade loses a contract's state: a deploy over a complete staged state
\* installs that one, and through every other step, redeploys that resize or
\* migrate included, a slot keeps the bytes it held or had set aside, and
\* INITIALIZE runs on them only while they are blank; until an undeploy.
StateSurvivesUpgrade ==
  [][\A s \in Slots : contracts'[s] # None /\ ~halted' =>
       LET seed == IF slotMeta'[s] # slotMeta[s] THEN TakenSeed(s) ELSE None
           kept == IF seed # None THEN seed ELSE StateToBe(s)
       IN kept # None => SameBytes(kept, StateToBe(s)')]_vars

\* A session that is fed keeps the node's one upload slot, which only its own
\* DEPLOY ends before it has been idle for more than StaleTicks ticks, and the
\* bytes that were received, which no repeated or late chunk rewrites.
HoldersKeepTheirSlot ==
  [][upload # None /\ IdleTicks <= StaleTicks =>
       IF upload' # None /\ upload'.session = upload.session
       THEN \A c \in Chunks : upload.bytes[c] # None => upload'.bytes[c] = upload.bytes[c]
       ELSE lastDeploy' # None /\ lastDeploy'.session = upload.session]_vars

(***************************************************************************)
(* What the repository says of itself, and the model refutes.              *)
(***************************************************************************)

\* ContractRegistry.deploy: a redeployed slot is still owed the INITIALIZE its
\* first deploy never reached.
OwedInitializeRuns ==
  \A s \in Slots : contracts[s] # None /\ pendingConstruction[s] = None /\ ~halted =>
    contracts[s].state.seeded \/ contracts[s].state.inits > 0

=============================================================================
