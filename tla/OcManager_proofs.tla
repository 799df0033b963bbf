--------------------------- MODULE OcManager_proofs ---------------------------
(***************************************************************************)
(* Proofs about OcManager, for every number of contracts, every limit and  *)
(* every length of run.                                                    *)
(***************************************************************************)
EXTENDS OcManager, FiniteSetTheorems, TLAPS

\* What the counters need beyond their types: finitely many records, and an id
\* counter that belongs to this tick or an earlier one.
CountersInv ==
  /\ IsFiniteSet(DOMAIN invocations)
  /\ idTick <= tick

OcInv == TypeOK /\ CountersInv /\ NextIdIsFresh /\ InFlightIsHeld

LEMMA OcInit == Init => OcInv
<1> SUFFICES ASSUME Init PROVE OcInv
  OBVIOUS
<1> USE OcConstants DEF Init
<1>1. DOMAIN invocations = {}
  OBVIOUS
<1>2. TypeOK
  BY <1>1 DEF TypeOK, Phases
<1>3. CountersInv /\ NextIdIsFresh
  BY <1>1, FS_EmptySet DEF CountersInv, NextIdIsFresh
<1>4. Holding = {}
  BY <1>1 DEF Holding
<1> QED
  BY <1>2, <1>3, <1>4, FS_EmptySet DEF OcInv, InFlightIsHeld

\* Recording an invocation under a fresh id adds one holder and one record.
LEMMA RecordPreserves ==
  ASSUME OcInv, NEW s \in Slots, NEW i \in Interfaces,
         ~Full(i), ~IdExhausted, Record(s, i), UNCHANGED <<tick, phase>>,
         energy' \in [Slots -> Nat]
  PROVE  OcInv'
<1> DEFINE id == <<tick, NextIndex>>
<1> USE OcConstants
<1>1. id \in Ids /\ NextIndex \in 0 .. MaxIndexInTick /\ tick \in Nat
  BY DEF OcInv, TypeOK, CountersInv, IdExhausted, NextIndex, Ids
<1>2. id \notin DOMAIN invocations
  BY <1>1 DEF OcInv, NextIdIsFresh
<1>3. DOMAIN invocations' = DOMAIN invocations \cup {id}
  BY DEF Record
<1>4. \A j \in DOMAIN invocations : invocations'[j] = invocations[j]
  BY <1>2 DEF Record
<1>5. invocations'[id] = [slot |-> s, interface |-> i, status |-> "PENDING_AUTH",
                          creationTick |-> tick, holdsInFlight |-> TRUE]
  BY DEF Record
<1>6. TypeOK'
  <2>1. invocations' \in [DOMAIN invocations' -> Invocation]
    <3>1. invocations'[id] \in Invocation
      BY <1>1, <1>5 DEF Invocation, Status
    <3>2. \A j \in DOMAIN invocations : invocations'[j] \in Invocation
      BY <1>4 DEF OcInv, TypeOK
    <3>3. invocations' = [j \in DOMAIN invocations' |-> invocations'[j]]
      BY DEF Record
    <3> QED
      BY <3>1, <3>2, <3>3, <1>3
  <2>2. DOMAIN invocations' \subseteq Ids
    BY <1>1, <1>3 DEF OcInv, TypeOK
  <2>3. requestStorageBytesUsed' \in Nat /\ inFlight' \in Nat
    BY DEF OcInv, TypeOK, Record
  <2>4. idTick' \in Int /\ indexInTick' \in 0 .. MaxIndexInTick
    BY <1>1 DEF Record
  <2>5. tick' \in Nat /\ phase' \in Phases
    BY <1>1 DEF OcInv, TypeOK
  <2>6. energy' \in [Slots -> Nat]
    OBVIOUS
  <2> QED
    BY ONLY <2>1, <2>2, <2>3, <2>4, <2>5, <2>6 DEF TypeOK
<1>7. CountersInv'
  <2>1. IsFiniteSet(DOMAIN invocations')
    <3>1. IsFiniteSet(DOMAIN invocations)
      BY DEF OcInv, CountersInv
    <3> HIDE DEF id
    <3> QED
      BY ONLY <1>3, <3>1, FS_AddElement
  <2>2. idTick' <= tick'
    BY <1>1 DEF Record
  <2> QED
    BY <2>1, <2>2 DEF CountersInv
<1>8. NextIdIsFresh'
  <2>1. NextIndex' = NextIndex + 1
    BY <1>1 DEF Record, NextIndex
  <2> QED
    BY <1>1, <1>3, <2>1 DEF OcInv, TypeOK, NextIdIsFresh, Ids
<1>9. InFlightIsHeld'
  <2>1. Holding' = Holding \cup {id}
    BY <1>2, <1>3, <1>4, <1>5 DEF Holding
  <2>2. id \notin Holding /\ IsFiniteSet(Holding)
    BY <1>2, FS_Subset DEF Holding, OcInv, CountersInv
  <2>3. Cardinality(Holding') = Cardinality(Holding) + 1
    BY <2>1, <2>2, FS_AddElement
  <2> QED
    BY <2>3 DEF OcInv, InFlightIsHeld, TypeOK, Record, Full
<1> QED
  BY <1>6, <1>7, <1>8, <1>9 DEF OcInv

\* The pump frees each place it takes off the count exactly once.
LEMMA PumpPreserves ==
  ASSUME OcInv, Pump
  PROVE  OcInv'
<1> USE OcConstants
<1> DEFINE released == {id \in DOMAIN invocations : Released(id)}
<1>1. DOMAIN invocations' = DOMAIN invocations
  BY DEF Pump
<1>2. \A id \in DOMAIN invocations :
        /\ invocations'[id] \in Invocation
        /\ invocations'[id].holdsInFlight = (invocations[id].holdsInFlight /\ ~Released(id))
  <2> SUFFICES ASSUME NEW id \in DOMAIN invocations
               PROVE /\ invocations'[id] \in Invocation
                     /\ invocations'[id].holdsInFlight = (invocations[id].holdsInFlight /\ ~Released(id))
    OBVIOUS
  <2>1. invocations[id] \in Invocation
    BY DEF OcInv, TypeOK
  <2>2. invocations'[id] = [invocations[id] EXCEPT
          !.status = IF Authorised(id) THEN "AUTHORIZED"
                     ELSE IF TimedOut(id) THEN "TIMEOUT" ELSE @,
          !.holdsInFlight = @ /\ ~Released(id)]
    BY DEF Pump
  <2>3. (invocations[id].holdsInFlight /\ ~Released(id)) \in BOOLEAN
    BY <2>1 DEF Invocation
  <2>4. (IF Authorised(id) THEN "AUTHORIZED"
         ELSE IF TimedOut(id) THEN "TIMEOUT" ELSE invocations[id].status) \in Status
    BY <2>1 DEF Invocation, Status
  <2> QED
    BY <2>1, <2>2, <2>3, <2>4 DEF Invocation
<1>3. Holding' = Holding \ released /\ Holding \cap released = released
  BY <1>1, <1>2 DEF Holding, Released
<1>4. IsFiniteSet(Holding)
  BY FS_Subset DEF Holding, OcInv, CountersInv
<1>5. IsFiniteSet(released) /\ Cardinality(released) \in Nat
  BY FS_Subset, FS_CardinalityType DEF OcInv, CountersInv
<1>6. Cardinality(Holding') = inFlight - Cardinality(released) /\ IsFiniteSet(Holding')
  BY <1>3, <1>4, FS_Difference DEF OcInv, InFlightIsHeld
<1>7. inFlight' = inFlight - Cardinality(released)
  BY DEF Pump
<1>8. inFlight' \in Nat /\ inFlight' = Cardinality(Holding') /\ inFlight' <= MaxInFlight
  <2>1. Cardinality(Holding') \in Nat
    BY <1>6, FS_CardinalityType
  <2> QED
    BY <2>1, <1>5, <1>6, <1>7 DEF OcInv, InFlightIsHeld, TypeOK
<1>9. TypeOK'
  <2>1. invocations' \in [DOMAIN invocations' -> Invocation]
    BY <1>1, <1>2 DEF Pump
  <2> QED
    BY <1>1, <1>8, <2>1 DEF OcInv, TypeOK, Pump, Phases
<1>10. CountersInv' /\ NextIdIsFresh'
  BY <1>1 DEF OcInv, CountersInv, NextIdIsFresh, NextIndex, Pump
<1> QED
  BY <1>8, <1>9, <1>10 DEF OcInv, InFlightIsHeld

LEMMA OcStep == OcInv /\ [Next]_vars => OcInv'
<1> SUFFICES ASSUME OcInv, [Next]_vars PROVE OcInv'
  OBVIOUS
<1> USE OcConstants
<1>1. ASSUME NEW s \in Slots, NEW i \in Interfaces, StartContractInvocation(s, i)
      PROVE  OcInv'
  <2>1. CASE Full(i) \/ IdExhausted
    BY <1>1, <2>1 DEF StartContractInvocation, vars, OcInv, TypeOK, CountersInv,
       NextIdIsFresh, NextIndex, InFlightIsHeld, Holding
  <2>2. CASE ~(Full(i) \/ IdExhausted)
    <3>1. Record(s, i) /\ UNCHANGED <<tick, phase>>
      BY <1>1, <2>2 DEF StartContractInvocation
    <3>2. energy' \in [Slots -> Nat]
      BY <1>1, <2>2 DEF StartContractInvocation, OcInv, TypeOK
    <3> QED
      BY <2>2, <3>1, <3>2, RecordPreserves
  <2> QED
    BY <2>1, <2>2
<1>2. CASE EnterTick
  BY <1>2 DEF EnterTick, OcInv, TypeOK, CountersInv, NextIdIsFresh, NextIndex,
     InFlightIsHeld, Holding, Phases, Ids
<1>3. CASE BeginEpoch
  <2>1. DOMAIN invocations' = {} /\ Holding' = {}
    BY <1>3 DEF BeginEpoch, Holding
  <2> QED
    BY <1>3, <2>1, FS_EmptySet DEF BeginEpoch, OcInv, TypeOK, CountersInv,
       NextIdIsFresh, InFlightIsHeld, Phases
<1>4. CASE Pump
  BY <1>4, PumpPreserves
<1>5. CASE FinishTick
  BY <1>5 DEF FinishTick, OcInv, TypeOK, CountersInv, NextIdIsFresh, NextIndex,
     InFlightIsHeld, Holding, Phases
<1>6. CASE UNCHANGED vars
  BY <1>6 DEF vars, OcInv, TypeOK, CountersInv, NextIdIsFresh, NextIndex,
     InFlightIsHeld, Holding
<1> QED
  BY <1>1, <1>2, <1>3, <1>4, <1>5, <1>6 DEF Next

\* The state of the OC manager keeps its types in every run.
THEOREM OcTypeCorrect == Spec => []TypeOK
<1>1. OcInv => TypeOK
  BY DEF OcInv
<1> QED
  BY <1>1, OcInit, OcStep, PTL DEF Spec

\* inFlight counts the invocations that hold a place and never passes the
\* limit, whatever the limits, the fees and the order of calls and ticks.
THEOREM OcInFlight == Spec => []InFlightIsHeld
<1>1. OcInv => InFlightIsHeld
  BY DEF OcInv
<1> QED
  BY <1>1, OcInit, OcStep, PTL DEF Spec

\* newInvocationId never repeats an id of the epoch.
THEOREM OcFreshIds == Spec => []NextIdIsFresh
<1>1. OcInv => NextIdIsFresh
  BY DEF OcInv
<1> QED
  BY <1>1, OcInit, OcStep, PTL DEF Spec

\* What holds a place keeps waiting for as long as it may, and no step but the
\* pump of its last tick has to free it: every other step keeps its age, or starts
\* a tick from a state in which all ages are below the offset.
LEMMA PlacesStep == OcInv /\ PlacesAreFreedInTime /\ [Next]_vars => PlacesAreFreedInTime'
<1> SUFFICES ASSUME OcInv, PlacesAreFreedInTime, [Next]_vars, NEW id \in Holding'
             PROVE  /\ invocations'[id].status = "PENDING_AUTH"
                    /\ \/ Age(id)' < AuthOffset
                       \/ Age(id)' = AuthOffset /\ phase' \in {"open", "endEpoch"}
  BY DEF PlacesAreFreedInTime
<1> USE OcConstants
<1>1. id \in DOMAIN invocations' /\ invocations'[id].holdsInFlight
  BY DEF Holding
<1>2. ASSUME id \in DOMAIN invocations, invocations'[id] = invocations[id]
      PROVE  /\ id \in Holding /\ invocations'[id].status = "PENDING_AUTH"
             /\ Age(id) \in Int /\ Age(id)' = Age(id) + (tick' - tick)
             /\ \/ Age(id) < AuthOffset
                \/ Age(id) = AuthOffset /\ phase \in {"open", "endEpoch"}
  <2>1. id \in Holding
    BY <1>1, <1>2 DEF Holding
  <2>2. invocations[id].creationTick \in Nat /\ tick \in Nat /\ tick' \in Nat
    BY <1>2, OcStep DEF OcInv, TypeOK, Invocation
  <2> QED
    BY <1>2, <2>1, <2>2 DEF PlacesAreFreedInTime, Age
<1>3. ASSUME NEW s \in Slots, NEW i \in Interfaces, StartContractInvocation(s, i),
             ~(Full(i) \/ IdExhausted)
      PROVE  /\ invocations'[id].status = "PENDING_AUTH"
             /\ \/ Age(id)' < AuthOffset
                \/ Age(id)' = AuthOffset /\ phase' \in {"open", "endEpoch"}
  <2>1. Record(s, i) /\ tick' = tick /\ phase' = phase
    BY <1>3 DEF StartContractInvocation
  <2>2. CASE id = <<tick, NextIndex>>
    <3>1. invocations'[id].status = "PENDING_AUTH" /\ invocations'[id].creationTick = tick
      BY <2>1, <2>2 DEF Record
    <3> QED
      BY <2>1, <3>1 DEF Age, OcInv, TypeOK
  <2>3. CASE id # <<tick, NextIndex>>
    <3>1. id \in DOMAIN invocations /\ invocations'[id] = invocations[id]
      BY <1>1, <2>1, <2>3 DEF Record
    <3> QED
      BY <1>2, <2>1, <3>1 DEF OcInv, TypeOK
  <2> QED
    BY <2>2, <2>3
<1>4. CASE EnterTick
  <2>1. id \in DOMAIN invocations /\ invocations'[id] = invocations[id]
    BY <1>1, <1>4 DEF EnterTick
  <2> QED
    BY <1>2, <1>4, <2>1 DEF EnterTick, OcInv, TypeOK
<1>5. CASE BeginEpoch
  BY <1>1, <1>5 DEF BeginEpoch
<1>6. CASE Pump
  <2>1. /\ id \in DOMAIN invocations /\ tick' = tick /\ phase = "open"
        /\ invocations'[id] = [invocations[id] EXCEPT
             !.status = IF Authorised(id) THEN "AUTHORIZED"
                        ELSE IF TimedOut(id) THEN "TIMEOUT" ELSE @,
             !.holdsInFlight = @ /\ ~Released(id)]
    BY <1>1, <1>6 DEF Pump
  <2>2. invocations[id] \in Invocation /\ tick \in Nat
    BY <2>1 DEF OcInv, TypeOK
  <2>3. invocations[id].holdsInFlight /\ ~Released(id)
    BY <1>1, <2>1, <2>2 DEF Invocation
  <2>4. /\ id \in Holding /\ invocations[id].status = "PENDING_AUTH"
        /\ ~Authorised(id) /\ ~TimedOut(id)
    BY <2>1, <2>3 DEF Holding, PlacesAreFreedInTime, Released
  <2>5. invocations'[id].status = "PENDING_AUTH" /\ Age(id)' = Age(id)
    BY <2>1, <2>2, <2>4 DEF Invocation, Age
  <2>6. Age(id) < AuthOffset
    BY <2>2, <2>4 DEF Authorised, Age, Invocation
  <2> QED
    BY <2>5, <2>6
<1>7. CASE FinishTick
  <2>1. id \in DOMAIN invocations /\ invocations'[id] = invocations[id]
    BY <1>1, <1>7 DEF FinishTick
  <2> QED
    BY <1>2, <1>7, <2>1 DEF FinishTick, OcInv, TypeOK
<1>8. CASE UNCHANGED vars
  <2>1. id \in DOMAIN invocations /\ invocations'[id] = invocations[id]
    BY <1>1, <1>8 DEF vars
  <2> QED
    BY <1>2, <1>8, <2>1 DEF vars, OcInv, TypeOK
<1>9. ASSUME NEW s \in Slots, NEW i \in Interfaces, StartContractInvocation(s, i),
             Full(i) \/ IdExhausted
      PROVE  UNCHANGED vars
  BY <1>9 DEF StartContractInvocation
<1> QED
  BY <1>3, <1>4, <1>5, <1>6, <1>7, <1>8, <1>9 DEF Next

\* A place in flight is freed in time, by the pump of the tick AuthOffset ticks
\* after the call, whatever the limits and offsets: a full manager admits again.
THEOREM OcPlaces == Spec => []PlacesAreFreedInTime
<1>1. Init => PlacesAreFreedInTime
  BY DEF Init, PlacesAreFreedInTime, Holding
<1> QED
  BY <1>1, OcInit, OcStep, PlacesStep, PTL DEF Spec
=============================================================================
