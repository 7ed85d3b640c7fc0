---------------------------- MODULE VehicleProofs ----------------------------
(***************************************************************************)
(* The two tasks together, for every set of frames and buttons, every      *)
(* timeout and every lag of the VCU task: the composition is made of       *)
(* nothing but its components, so what is proved of them holds of it, and  *)
(* what the CAN task sees reaches the contactors in time.  Telemetry may   *)
(* be all of TelemetryData, and then nothing published is held back.       *)
(***************************************************************************)
EXTENDS Vehicle, VcuLogicProofs

\* The steps of the CAN task, and the start of it, leave the VCU task's state
\* alone.
CanSide ==
    \/ Startup
    \/ CanArrive
    \/ CanReadAlerts
    \/ CanDrain
    \/ CanPublish

\* A frame may set the fault flag, which only run() clears.
LEMMA CanSideFacts ==
    ASSUME faultPending \in BOOLEAN, CanSide
    PROVE  /\ UNCHANGED vcuOwn
           /\ faultPending' = faultPending \/ faultPending' = TRUE
  <1>1. CASE Startup
    BY <1>1 DEF Startup, CanTaskStarts, TryBitRate, FallBack
  <1>2. CASE CanArrive
    BY <1>2 DEF CanArrive, Can!Arrive
  <1>3. CASE CanReadAlerts
    BY <1>3 DEF CanReadAlerts, Can!ReadAlerts
  <1>4. CASE CanEndDrain
    BY <1>4 DEF CanEndDrain, Can!EndDrain
  <1>5. CASE CanPublish
    BY <1>5 DEF CanPublish, Can!Publish
  <1>6. ASSUME NEW f \in Frames, CanReceive(f)
        PROVE  /\ UNCHANGED vcuOwn
               /\ faultPending' = faultPending \/ faultPending' = TRUE
    <2>1. UNCHANGED vcuOwn
      BY <1>6 DEF CanReceive
    <2>2. \/ UNCHANGED faultPending
          \/ \E p, c : Can!notifyFaultIfNeeded(p, c)
      <3>1. Can!Receive(f)
        BY <1>6 DEF CanReceive
      <3>2. CASE Can!Ignored(f) /\ UNCHANGED faultPending
        BY <3>2
      <3>3. CASE Can!handleMotorStatus(f.data)
        BY <3>3, Zenon DEF Can!handleMotorStatus
      <3>4. CASE Can!handleLbBmsE000(f.data)
        BY <3>4, Zenon DEF Can!handleLbBmsE000
      <3>5. CASE Can!handleLbBmsE001(f.data)
        BY <3>5, Zenon DEF Can!handleLbBmsE001
      <3>6. CASE Can!handleCellGroup(f.id)
        BY <3>6, Zenon DEF Can!handleCellGroup
      <3>7. CASE Can!handleCharger1806E5F4
        BY <3>7, Zenon DEF Can!handleCharger1806E5F4
      <3> QED
        BY <3>1, <3>2, <3>3, <3>4, <3>5, <3>6, <3>7, Zenon DEF Can!Receive
    <2>3. faultPending' = faultPending \/ faultPending' = TRUE
      BY <2>2, Zenon DEF Can!notifyFaultIfNeeded
    <2> QED
      BY <2>1, <2>3
  <1> QED
    BY <1>1, <1>2, <1>3, <1>4, <1>5, <1>6, Zenon DEF CanSide, CanDrain

\* Every step is a step of VcuLogic or leaves its variables alone.
LEMMA VehicleStepIsVcu ==
    ASSUME IInv, [VehicleNext]_vehVars
    PROVE  [Next]_vars
  <1>1. faultPending \in BOOLEAN
    BY DEF IInv, TypeOK
  <1>2. CASE UNCHANGED vehVars
    BY <1>2 DEF vehVars, vcuOwn, machine, vars
  <1>3. CASE CanSide
    <2>1. UNCHANGED vcuOwn /\ (faultPending' = faultPending \/ faultPending' = TRUE)
      BY <1>1, <1>3, CanSideFacts
    <2>2. CASE faultPending' = faultPending
      BY <2>1, <2>2 DEF vcuOwn, machine, vars
    <2>3. CASE faultPending' = TRUE
      <3>1. PostFault
        BY <2>1, <2>3 DEF vcuOwn, machine, PostFault
      <3> QED
        BY <3>1 DEF Next
    <2> QED
      BY <2>1, <2>2, <2>3
  <1>4. CASE VcuRunFlags \/ VcuRunBody \/ Touch
    BY <1>4 DEF VcuRunFlags, VcuRunBody, Touch, Next
  <1> QED
    BY <1>2, <1>3, <1>4 DEF VehicleNext, CanSide

\* The inductive invariant of VcuLogic, and with it every invariant proved
\* from it, holds of the composition.
THEOREM VehicleKeepsVcu == VehicleSpec => []IInv
  <1>1. VehicleInit => IInv
    BY InitIInv DEF VehicleInit
  <1>2. IInv /\ [VehicleNext]_vehVars => IInv'
    BY VehicleStepIsVcu, NextIInv
  <1> QED
    BY <1>1, <1>2, PTL DEF VehicleSpec

\* Erased of the CAN task, a behaviour of the composition is one of VcuLogic:
\* the CAN task reaches the VCU only through PostFault and the telemetry.
THEOREM VehicleImplementsVcu == VehicleSpec => Init /\ [][Next]_vars
  <1>1. VehicleInit => Init
    BY DEF VehicleInit
  <1>2. IInv /\ [VehicleNext]_vehVars => [Next]_vars
    BY VehicleStepIsVcu
  <1> QED
    BY <1>1, <1>2, VehicleKeepsVcu, PTL DEF VehicleSpec

\* Every step is a step of CanManager or leaves its variables alone: run()
\* takes the posted fault, or leaves it for later when an E-STOP comes first.
LEMMA VehicleStepIsCan ==
    ASSUME IInv, [VehicleNext]_vehVars
    PROVE  [Can!CanNext]_(Can!canVars)
  <1>1. CASE UNCHANGED <<canOwn, faultPending>>
    BY <1>1 DEF canOwn, Can!canVars
  <1>2. CASE UNCHANGED vehVars
    BY <1>1, <1>2 DEF vehVars
  <1>3. CASE Startup
    BY <1>1, <1>3 DEF Startup, CanTaskStarts, TryBitRate, FallBack
  <1>4. CASE CanArrive \/ CanReadAlerts \/ CanDrain \/ CanPublish
    <2>1. CASE CanDrain
      <3>1. Can!DrainStep
        BY <2>1, Zenon DEF CanDrain, CanReceive, CanEndDrain, Can!DrainStep
      <3> QED
        BY <3>1 DEF Can!CanNext
    <2>2. CASE CanArrive \/ CanReadAlerts \/ CanPublish
      BY <2>2 DEF CanArrive, CanReadAlerts, CanPublish, Can!CanNext
    <2> QED
      BY <1>4, <2>1, <2>2
  <1>5. CASE VcuRunBody \/ Touch
    BY <1>1, <1>5 DEF VcuRunBody, RunBody, Touch, PostEStop, PostQueued
  <1>6. CASE VcuRunFlags
    <2>1. UNCHANGED canOwn /\ (faultPending' = faultPending \/ faultPending' = FALSE)
      BY <1>6 DEF VcuRunFlags, RunFlags
    <2>2. CASE faultPending' = faultPending
      BY <1>1, <2>1, <2>2
    <2>3. CASE faultPending' # faultPending
      <3>1. faultPending /\ faultPending' = FALSE
        BY <2>1, <2>3, Zenon DEF IInv, TypeOK
      <3>2. Can!TakeFault
        BY <2>1, <3>1 DEF canOwn, Can!TakeFault, Can!decoded
      <3> QED
        BY <3>2 DEF Can!CanNext
    <2> QED
      BY <2>2, <2>3
  <1> QED
    BY <1>2, <1>3, <1>4, <1>5, <1>6 DEF VehicleNext

\* Erased of the VCU task, a behaviour of the composition is one of CanManager
\* whose posted faults are the flag that run() exchanges.
THEOREM VehicleImplementsCan ==
    VehicleSpec => Can!CanInit /\ [][Can!CanNext]_(Can!canVars)
  <1>1. VehicleInit => Can!CanInit
    BY DEF VehicleInit
  <1>2. IInv /\ [VehicleNext]_vehVars => [Can!CanNext]_(Can!canVars)
    BY VehicleStepIsCan
  <1> QED
    BY <1>1, <1>2, VehicleKeepsVcu, PTL DEF VehicleSpec

-----------------------------------------------------------------------------
(* What the steps of the CAN task do to the four flags the VCU looks at,   *)
(* and to what they are derived from.                                      *)

Battery == {"E000", "E001"}

\* No decoder and no validity update changes which fields there are.
CanTelShape == DOMAIN canTel = DOMAIN BlankTelemetry

LEMMA ShapeFacts ==
    ASSUME NEW t, DOMAIN t = DOMAIN BlankTelemetry
    PROVE  {"bmsDataValid", "bmsTimeoutActive", "motorDataValid", "motorTimeoutActive",
            "motorErrorFlags", "packVoltageDeciV", "currentCentiA", "cellMin", "cellMax",
            "tempHighestC", "cellVoltageDataValid"} \subseteq DOMAIN t
  BY DEF BlankTelemetry

VehicleTypeOK ==
    /\ CanTelShape
    /\ age \in [Can!Streams -> Nat]
    /\ silence \in Nat
    /\ danger \in Nat
    /\ lag \in 0..MaxLag

LEMMA ConstantFacts ==
    /\ Quiet \in Battery /\ Battery \subseteq Can!Streams
    /\ Timeout["E000"] \in Nat \ {0} /\ \A q \in Battery : Timeout[q] = Timeout["E000"]
    /\ MaxLag \in Nat \ {0}
    /\ Quiet \notin Group \cup {"MOTOR", "CHARGER"}
  BY VehicleAssumption DEF Battery, Can!Streams

\* Of a stream that was not heard nothing changes.
LEMMA HeardFacts ==
    ASSUME VehicleTypeOK, NEW s \in Can!Streams, Can!Heard(s)
    PROVE  /\ seen \subseteq seen' /\ age' \in [Can!Streams -> Nat]
           /\ \A q \in Battery : q # s => /\ q \in seen' <=> q \in seen
                                          /\ age'[q] = age[q]
  <1>1. \A q \in Battery : q \in Can!Streams
    BY ConstantFacts
  <1> QED
    BY <1>1 DEF VehicleTypeOK, Can!Heard

\* What a decoded frame leaves of the four flags.
FlagsKept ==
    /\ canTel'.bmsDataValid = canTel.bmsDataValid
    /\ canTel'.bmsTimeoutActive = canTel.bmsTimeoutActive
MotorKept ==
    /\ canTel'.motorDataValid = canTel.motorDataValid
    /\ canTel'.motorTimeoutActive = canTel.motorTimeoutActive

LEMMA ReceiveFacts ==
    ASSUME VehicleTypeOK, NEW f \in Frames, CanReceive(f)
    PROVE  /\ rx > 0 /\ canPhase = "drain" /\ canPhase' = "drain"
           /\ UNCHANGED <<vcuOwn, startup, telQueue, lag, danger>>
           /\ CanTelShape' /\ age' \in [Can!Streams -> Nat]
           /\ seen \subseteq seen'
           /\ \/ silence' = 0
              \/ /\ silence' = silence /\ age'[Quiet] = age[Quiet]
                 /\ Quiet \in seen' <=> Quiet \in seen
           /\ FlagsKept
           /\ MotorKept \/ (canTel'.motorDataValid = TRUE /\ canTel'.motorTimeoutActive = FALSE)
  <1>1. /\ rx > 0 /\ canPhase = "drain" /\ canPhase' = "drain"
        /\ UNCHANGED <<vcuOwn, startup, telQueue, lag, danger>>
    BY DEF CanReceive, Can!Receive, Can!MayReceive
  <1>2. silence' = IF f.id = Quiet /\ ~Can!Ignored(f) THEN 0 ELSE silence
    BY DEF CanReceive
  <1>3. /\ Quiet \in Battery /\ Quiet \notin Group \cup {"MOTOR", "CHARGER"}
        /\ {"motor", "E000", "E001", "cell", "charger"} = Can!Streams
    BY ConstantFacts DEF Can!Streams
  <1>4. /\ "bmsDataValid" \in DOMAIN canTel /\ "bmsTimeoutActive" \in DOMAIN canTel
        /\ "motorDataValid" \in DOMAIN canTel /\ "motorTimeoutActive" \in DOMAIN canTel
    BY ShapeFacts DEF VehicleTypeOK, CanTelShape
  <1>5. CASE Can!Ignored(f) /\ UNCHANGED <<Can!decoded, faultPending>>
    <2>1. UNCHANGED <<canTel, seen, age>> /\ silence' = silence
      BY <1>2, <1>5 DEF Can!decoded
    <2> QED
      BY <1>1, <2>1 DEF VehicleTypeOK, CanTelShape, FlagsKept, MotorKept
  <1>6. CASE ~Can!Ignored(f) /\ f.id = "MOTOR" /\ Can!handleMotorStatus(f.data)
    <2>1. PICK x : canTel' = [canTel EXCEPT !.motorErrorFlags = x, !.motorDataValid = TRUE,
                                            !.motorTimeoutActive = FALSE]
      BY <1>6, Zenon DEF Can!handleMotorStatus
    <2>2. CanTelShape' /\ FlagsKept
          /\ canTel'.motorDataValid = TRUE /\ canTel'.motorTimeoutActive = FALSE
      BY <1>4, <2>1 DEF VehicleTypeOK, CanTelShape, FlagsKept
    <2>3. Can!Heard("motor") /\ silence' = silence
      BY <1>2, <1>3, <1>6 DEF Can!handleMotorStatus
    <2> QED
      BY <1>1, <1>3, <2>2, <2>3, HeardFacts DEF Battery
  <1>7. CASE ~Can!Ignored(f) /\ f.id = "E000" /\ Can!handleLbBmsE000(f.data)
    <2>1. PICK v, i : canTel' = [canTel EXCEPT !.packVoltageDeciV = v, !.currentCentiA = i]
      BY <1>7, Zenon DEF Can!handleLbBmsE000
    <2>2. CanTelShape' /\ FlagsKept /\ MotorKept
      BY <1>4, <2>1 DEF VehicleTypeOK, CanTelShape, FlagsKept, MotorKept
    <2>3. Can!Heard("E000") /\ (silence' = 0 \/ (Quiet # "E000" /\ silence' = silence))
      BY <1>2, <1>3, <1>7 DEF Can!handleLbBmsE000
    <2> QED
      BY <1>1, <1>3, <2>2, <2>3, HeardFacts DEF Battery
  <1>8. CASE ~Can!Ignored(f) /\ f.id = "E001" /\ Can!handleLbBmsE001(f.data)
    <2>1. PICK v, w, c : canTel' = [canTel EXCEPT !.cellMin = v, !.cellMax = w,
                                                  !.tempHighestC = c]
      BY <1>8, Zenon DEF Can!handleLbBmsE001
    <2>2. CanTelShape' /\ FlagsKept /\ MotorKept
      BY <1>4, <2>1 DEF VehicleTypeOK, CanTelShape, FlagsKept, MotorKept
    <2>3. Can!Heard("E001") /\ (silence' = 0 \/ (Quiet # "E001" /\ silence' = silence))
      BY <1>2, <1>3, <1>8 DEF Can!handleLbBmsE001
    <2> QED
      BY <1>1, <1>3, <2>2, <2>3, HeardFacts DEF Battery
  <1>9. CASE ~Can!Ignored(f) /\ f.id \in Group /\ Can!handleCellGroup(f.id)
    <2>1. PICK v : canTel' = [canTel EXCEPT !.cellVoltageDataValid = v]
      BY <1>9 DEF Can!handleCellGroup
    <2>2. CanTelShape' /\ FlagsKept /\ MotorKept
      BY <1>4, <2>1 DEF VehicleTypeOK, CanTelShape, FlagsKept, MotorKept
    <2>3. Can!Heard("cell") /\ silence' = silence
      BY <1>2, <1>3, <1>9 DEF Can!handleCellGroup
    <2> QED
      BY <1>1, <1>3, <2>2, <2>3, HeardFacts DEF Battery
  <1>10. CASE ~Can!Ignored(f) /\ f.id = "CHARGER" /\ Can!handleCharger1806E5F4
    <2>1. Can!Heard("charger") /\ silence' = silence /\ canTel' = canTel
      BY <1>2, <1>3, <1>10 DEF Can!handleCharger1806E5F4
    <2>2. CanTelShape' /\ FlagsKept /\ MotorKept
      BY <2>1 DEF VehicleTypeOK, CanTelShape, FlagsKept, MotorKept
    <2> QED
      BY <1>1, <1>3, <2>1, <2>2, HeardFacts DEF Battery
  <1> QED
    <2>1. Can!Receive(f)
      BY DEF CanReceive
    <2> QED
      BY <2>1, <1>5, <1>6, <1>7, <1>8, <1>9, <1>10, Zenon DEF Can!Receive

BmsFresh ==
    /\ "E000" \in seen /\ age["E000"] < Timeout["E000"]
    /\ "E001" \in seen /\ age["E001"] < Timeout["E000"]
BmsStale ==
    \/ "E000" \in seen /\ ~(age["E000"] < Timeout["E000"])
    \/ "E001" \in seen /\ ~(age["E001"] < Timeout["E000"])

\* The validity updates recompute the battery's two flags from scratch and
\* latch the motor's.
LEMMA EndDrainFacts ==
    ASSUME VehicleTypeOK, CanEndDrain
    PROVE  /\ canPhase' = "publish"
           /\ UNCHANGED <<vcuOwn, startup, watch, seen, age, telQueue, rx>>
           /\ CanTelShape'
           /\ canTel'.bmsDataValid = BmsFresh
           /\ canTel'.bmsTimeoutActive = BmsStale
           /\ MotorKept \/ (canTel'.motorDataValid = FALSE /\ canTel'.motorTimeoutActive = TRUE)
  <1>1. /\ canPhase' = "publish"
        /\ UNCHANGED <<vcuOwn, startup, watch, seen, age, telQueue, rx>>
    BY DEF CanEndDrain, Can!EndDrain
  <1> DEFINE t1 == Can!updateMotorStatusValidity(canTel)
             t2 == Can!updateBmsValidity(t1)
             t3 == Can!updateCellVoltageValidity(t2)
  <1>2. canTel' = t3
    BY DEF CanEndDrain, Can!EndDrain
  <1>3. /\ "bmsDataValid" \in DOMAIN canTel /\ "bmsTimeoutActive" \in DOMAIN canTel
        /\ "motorDataValid" \in DOMAIN canTel /\ "motorTimeoutActive" \in DOMAIN canTel
    BY ShapeFacts DEF VehicleTypeOK, CanTelShape
  <1>4. /\ DOMAIN t1 = DOMAIN canTel
        /\ \/ /\ t1.motorDataValid = canTel.motorDataValid
              /\ t1.motorTimeoutActive = canTel.motorTimeoutActive
           \/ t1.motorDataValid = FALSE /\ t1.motorTimeoutActive = TRUE
    <2>1. t1 = canTel \/ t1 = [canTel EXCEPT !.motorDataValid = FALSE,
                                             !.motorTimeoutActive = TRUE]
      BY Zenon DEF Can!updateMotorStatusValidity
    <2> HIDE DEF t1
    <2> QED
      BY <1>3, <2>1
  <1> HIDE DEF t1
  <1>5. t2 = [t1 EXCEPT !.bmsDataValid = BmsFresh, !.bmsTimeoutActive = BmsStale]
    <2>1. t2 = [t1 EXCEPT
            !.bmsDataValid = Can!bms_evaluate_freshness("E000" \in seen, age["E000"],
                                "E001" \in seen, age["E001"], Timeout["E000"]).dataValid,
            !.bmsTimeoutActive = Can!bms_evaluate_freshness("E000" \in seen, age["E000"],
                                "E001" \in seen, age["E001"], Timeout["E000"]).timeoutActive]
      BY Zenon DEF Can!updateBmsValidity
    <2>2. Can!bms_evaluate_freshness("E000" \in seen, age["E000"],
                                "E001" \in seen, age["E001"], Timeout["E000"]).dataValid
            = ("E000" \in seen /\ age["E000"] < Timeout["E000"]
               /\ "E001" \in seen /\ age["E001"] < Timeout["E000"])
      BY DEF Can!bms_evaluate_freshness, Can!bms_id_fresh
    <2>3. Can!bms_evaluate_freshness("E000" \in seen, age["E000"],
                                "E001" \in seen, age["E001"], Timeout["E000"]).timeoutActive
            = BmsStale
      BY DEF Can!bms_evaluate_freshness, Can!bms_id_fresh, BmsStale
    <2> HIDE DEF t2
    <2> QED
      BY <2>1, <2>2, <2>3 DEF BmsFresh
  <1> HIDE DEF t2
  <1>6. /\ DOMAIN t2 = DOMAIN canTel
        /\ t2.bmsDataValid = BmsFresh /\ t2.bmsTimeoutActive = BmsStale
        /\ t2.motorDataValid = t1.motorDataValid
        /\ t2.motorTimeoutActive = t1.motorTimeoutActive
    BY <1>3, <1>4, <1>5
  <1>7. t3 = t2 \/ t3 = [t2 EXCEPT !.cellVoltageDataValid = FALSE]
    BY Zenon DEF Can!updateCellVoltageValidity
  <1> HIDE DEF t3
  <1>8. /\ DOMAIN t3 = DOMAIN canTel
        /\ t3.bmsDataValid = BmsFresh /\ t3.bmsTimeoutActive = BmsStale
        /\ t3.motorDataValid = t1.motorDataValid
        /\ t3.motorTimeoutActive = t1.motorTimeoutActive
    BY <1>3, <1>6, <1>7
  <1> QED
    BY <1>1, <1>2, <1>4, <1>8 DEF VehicleTypeOK, CanTelShape, MotorKept

\* The steps that decode and publish nothing.
Aside == Startup \/ CanArrive \/ CanReadAlerts

LEMMA AsideFacts ==
    ASSUME Aside
    PROVE  /\ UNCHANGED <<vcuOwn, canTel, seen, age, telQueue, watch>>
           /\ canPhase' = canPhase \/ canPhase' = "drain"
           /\ (CanRuns /\ tuned) \/ rx' = rx
           /\ CanRuns /\ tuned => (CanRuns /\ tuned)'
  BY DEF Aside, Startup, CanTaskStarts, TryBitRate, FallBack, CanArrive, CanReadAlerts,
     Can!Arrive, Can!ReadAlerts, Can!decoded, canOwn, startup, CanRuns

\* Publishing overwrites the queue and lets a period pass.
LEMMA PublishFacts ==
    ASSUME VehicleTypeOK, CanPublish
    PROVE  /\ canPhase = "publish" /\ canPhase' = "alerts" /\ telQueue' = {canTel}
           /\ UNCHANGED <<vcuOwn, startup, canTel, seen, rx>>
           /\ age' \in [Can!Streams -> Nat]
           /\ \A q \in Battery : age'[q] = IF age[q] < Timeout["E000"] THEN age[q] + 1
                                           ELSE age[q]
           /\ silence' \in Nat /\ silence' <= silence + 1
           /\ lag' = lag + 1 /\ lag' \in 0..MaxLag
           /\ danger' = IF hasCriticalCondition(canTel, "READY")
                        THEN Saturate(danger, DangerMax) ELSE 0
  <1>1. /\ canPhase = "publish" /\ canPhase' = "alerts" /\ telQueue' = {canTel}
        /\ UNCHANGED <<vcuOwn, startup, canTel, seen, rx>>
        /\ age' = [s \in Can!Streams |-> IF age[s] < Timeout[s] THEN age[s] + 1 ELSE age[s]]
        /\ lag < MaxLag /\ lag' = lag + 1
        /\ silence' = Saturate(silence, SilenceMax)
        /\ danger' = IF hasCriticalCondition(canTel, "READY")
                     THEN Saturate(danger, DangerMax) ELSE 0
    BY DEF CanPublish, Can!Publish
  <1>2. age' \in [Can!Streams -> Nat]
    BY <1>1 DEF VehicleTypeOK
  <1>3. \A q \in Battery : age'[q] = IF age[q] < Timeout["E000"] THEN age[q] + 1 ELSE age[q]
    BY <1>1, ConstantFacts
  <1>4. silence' \in Nat /\ silence' <= silence + 1
    BY <1>1 DEF VehicleTypeOK, Saturate
  <1>5. lag' \in 0..MaxLag
    BY <1>1, ConstantFacts DEF VehicleTypeOK
  <1> QED
    BY <1>1, <1>2, <1>3, <1>4, <1>5

\* The top of run() enters no live state.
LEMMA RunFlagsLive ==
    ASSUME IInv, RunFlags
    PROVE  /\ state' \in LiveStates => state' = state
           /\ relay'.shadow = relay.shadow
  <1>1. state' = state \/ state' \in SafeStates
    BY DEF RunFlags, transitionTo, SafeStates
  <1>2. relay'.shadow = relay.shadow
    BY ElapseFacts DEF IInv, TypeOK, RunFlags
  <1> QED
    BY <1>1, <1>2 DEF LiveStates, SafeStates

\* The body of run() enters READY only where isReadyEntryPermitted says so,
\* and commands nothing on that it does not enter READY with.
LEMMA RunBodyLive ==
    ASSUME IInv, RunBody
    PROVE  /\ tel' = tel
           /\ state' \in LiveStates => state \in LiveStates \/ isReadyEntryPermitted(tel)
           /\ state' \notin LiveStates /\ relay.shadow = {} => relay'.shadow = {}
  <1> USE DEF VcuStates, LiveStates, SafeStates
  <1>1. PICK r \in verifyIfDue(relay, spi) :
           ForceFault(r) \/ HandleReset(r) \/ HandleSafe(r) \/ HandleIdle(r)
           \/ HandleLive(r)
    BY DEF RunBody
  <1>2. tel' = tel
    BY DEF RunBody
  <1>3. r \in RelayState /\ r.shadow = relay.shadow
    BY VerifyIfDueFacts DEF IInv, TypeOK
  <1>4. CASE ForceFault(r)
    BY <1>2, <1>3, <1>4 DEF ForceFault, transitionTo
  <1>5. CASE HandleReset(r)
    <2>1. clearActuatorFault(r).shadow = r.shadow
      BY <1>3 DEF clearActuatorFault, RelayState
    <2> QED
      BY <1>2, <1>3, <1>5, <2>1 DEF HandleReset, transitionTo, machine
  <1>6. CASE HandleSafe(r)
    <2>1. state' \notin LiveStates /\ relay' \in handleSafe(r)
      BY <1>6 DEF HandleSafe
    <2>2. relay' = r \/ relay' \in command(r, {}, spi)
      BY <2>1 DEF handleSafe, allOff
    <2>3. relay'.shadow = {} \/ relay'.shadow = relay.shadow
      BY <1>3, <2>2, CommandFacts
    <2> QED
      BY <1>2, <2>1, <2>3
  <1>7. CASE HandleIdle(r)
    BY <1>2, <1>3, <1>7 DEF HandleIdle, transitionTo, machine
  <1>8. CASE HandleLive(r)
    BY <1>2, <1>8 DEF HandleLive, transitionTo, machine
  <1> QED
    BY <1>1, <1>4, <1>5, <1>6, <1>7, <1>8

\* What the three steps that run or feed the VCU task do.
LEMMA VcuSideFacts ==
    ASSUME IInv, VcuRunFlags \/ VcuRunBody \/ Touch
    PROVE  /\ UNCHANGED <<canOwn, startup, silence, danger>>
           /\ \/ VcuRunFlags /\ tel' \in Peeked /\ lag' = 0
                 /\ (state' \in LiveStates => state' = state)
                 /\ relay'.shadow = relay.shadow
              \/ /\ VcuRunBody /\ tel' = tel /\ lag' = lag
                 /\ state' \in LiveStates => state \in LiveStates \/ isReadyEntryPermitted(tel)
                 /\ state' \notin LiveStates /\ relay.shadow = {} => relay'.shadow = {}
              \/ Touch /\ UNCHANGED <<tel, lag, state, relay>>
  <1>1. CASE VcuRunFlags
    BY <1>1, RunFlagsLive DEF VcuRunFlags
  <1>2. CASE VcuRunBody
    BY <1>2, RunBodyLive DEF VcuRunBody, watch
  <1>3. CASE Touch
    BY <1>3 DEF Touch, PostEStop, PostQueued, machine, watch
  <1> QED
    BY <1>1, <1>2, <1>3

LEMMA VehicleTypes ==
    ASSUME IInv, VehicleTypeOK, VehicleNext
    PROVE  VehicleTypeOK'
  <1>1. CASE Aside
    BY <1>1, AsideFacts DEF VehicleTypeOK, CanTelShape, watch
  <1>2. ASSUME NEW f \in Frames, CanReceive(f) PROVE VehicleTypeOK'
    <2>1. /\ CanTelShape' /\ age' \in [Can!Streams -> Nat]
          /\ UNCHANGED <<lag, danger>> /\ (silence' = 0 \/ silence' = silence)
      BY <1>2, ReceiveFacts
    <2> QED
      BY <2>1 DEF VehicleTypeOK
  <1>3. CASE CanEndDrain
    BY <1>3, EndDrainFacts DEF VehicleTypeOK, watch
  <1>4. CASE CanPublish
    <2>1. danger' \in Nat
      BY <1>4, PublishFacts DEF VehicleTypeOK, Saturate
    <2> QED
      BY <1>4, <2>1, PublishFacts DEF VehicleTypeOK, CanTelShape
  <1>5. CASE VcuRunFlags \/ VcuRunBody \/ Touch
    <2>1. UNCHANGED <<canTel, age, silence, danger>> /\ (lag' = 0 \/ lag' = lag)
      BY <1>5, VcuSideFacts DEF canOwn
    <2> QED
      BY <2>1, ConstantFacts DEF VehicleTypeOK, CanTelShape
  <1> QED
    BY <1>1, <1>2, <1>3, <1>4, <1>5, Zenon DEF VehicleNext, CanDrain, Aside

-----------------------------------------------------------------------------
(* No contactor without the bus.                                           *)

\* Until the CAN task runs at the bus's bit rate nothing is received, so no
\* telemetry anywhere says the battery's data is valid.
NoCanInv ==
    ~(CanRuns /\ tuned) =>
        /\ rx = 0 /\ seen = {}
        /\ ~canTel.bmsDataValid
        /\ \A t \in telQueue : ~t.bmsDataValid
        /\ ~tel.bmsDataValid
        /\ state \notin LiveStates /\ relay.shadow = {}

LEMMA NoCanInit == VehicleInit => NoCanInv
  <1> SUFFICES ASSUME VehicleInit PROVE NoCanInv
    OBVIOUS
  <1>1. PICK r \in begin(spi) : relay \in allOff(r, spi)
    BY DEF VehicleInit, Init
  <1>2. relay.shadow = {}
    BY <1>1, BeginFacts, CommandFacts DEF allOff
  <1> QED
    BY <1>2 DEF VehicleInit, Init, Can!CanInit, Can!BlankTelemetry, BlankTelemetry,
       NoCanInv, LiveStates

LEMMA NoCanStep ==
    ASSUME IInv, VehicleTypeOK, NoCanInv, VehicleNext
    PROVE  NoCanInv'
  <1>1. CASE Aside
    BY <1>1, AsideFacts DEF NoCanInv, vcuOwn, machine, CanRuns
  <1>2. ASSUME NEW f \in Frames, CanReceive(f) PROVE NoCanInv'
    <2>1. rx > 0 /\ UNCHANGED <<canTask, tuned>>
      BY <1>2, ReceiveFacts DEF startup
    <2>2. CanRuns /\ tuned
      BY <2>1 DEF NoCanInv
    <2> QED
      BY <2>1, <2>2 DEF NoCanInv, CanRuns
  <1>3. CASE CanEndDrain
    <2>1. /\ UNCHANGED <<state, relay, tel, seen, telQueue, rx, canTask, tuned>>
          /\ canTel'.bmsDataValid = BmsFresh
      BY <1>3, EndDrainFacts DEF vcuOwn, machine, startup
    <2>2. seen = {} => ~canTel'.bmsDataValid
      BY <2>1 DEF BmsFresh
    <2> QED
      BY <2>1, <2>2 DEF NoCanInv, CanRuns
  <1>4. CASE CanPublish
    <2>1. /\ UNCHANGED <<state, relay, tel, seen, canTel, rx, canTask, tuned>>
          /\ telQueue' = {canTel}
      BY <1>4, PublishFacts DEF vcuOwn, machine, startup
    <2> QED
      BY <2>1 DEF NoCanInv, CanRuns
  <1>5. CASE VcuRunFlags \/ VcuRunBody \/ Touch
    <2>1. UNCHANGED <<seen, canTel, telQueue, rx, canTask, tuned>>
      BY <1>5, VcuSideFacts DEF canOwn, startup
    <2>2. ASSUME ~(CanRuns /\ tuned)
          PROVE  ~tel'.bmsDataValid /\ state' \notin LiveStates /\ relay'.shadow = {}
      BY <1>5, <2>2, VcuSideFacts DEF NoCanInv, Peeked, isReadyEntryPermitted
    <2> QED
      BY <2>1, <2>2 DEF NoCanInv, CanRuns
  <1> QED
    BY <1>1, <1>2, <1>3, <1>4, <1>5, Zenon DEF VehicleNext, CanDrain, Aside

-----------------------------------------------------------------------------
(* A battery that falls silent.                                            *)

Judged(t) == t.bmsDataValid \/ t.bmsTimeoutActive

\* The age the CAN task keeps is what the observer counts.
AgeHonest ==
    Quiet \in seen /\ age[Quiet] < Timeout["E000"] => silence <= age[Quiet]

\* Data about to be published as valid was fresh when it was judged.
PublishHonest == canPhase = "publish" /\ canTel.bmsDataValid => BmsFresh

\* Valid data in the queue, and in the VCU task's copy, is this old at most.
QueueInTime == \A t \in telQueue : t.bmsDataValid => silence <= Timeout["E000"]
TelInTime   == tel.bmsDataValid => silence <= Timeout["E000"] + lag
QueueFirst  == telQueue = {} => ~tel.bmsDataValid

\* Once valid data has been seen, whatever is published is judged.
BatteryKnown ==
    state \in LiveStates \/ tel.bmsDataValid \/ (\E t \in telQueue : t.bmsDataValid) =>
        /\ Battery \subseteq seen
        /\ \A t \in telQueue : Judged(t)
        /\ canPhase = "publish" => Judged(canTel)
LiveJudged == state \in LiveStates => Judged(tel)

SilenceInv ==
    /\ AgeHonest
    /\ PublishHonest
    /\ QueueInTime
    /\ TelInTime
    /\ QueueFirst
    /\ BatteryKnown
    /\ LiveJudged

LEMMA SilenceInit == VehicleInit => SilenceInv
  BY DEF VehicleInit, Init, Can!CanInit, Can!BlankTelemetry, BlankTelemetry, SilenceInv,
     AgeHonest, PublishHonest, QueueInTime, TelInTime, QueueFirst, BatteryKnown,
     LiveJudged, LiveStates

LEMMA SilenceStep ==
    ASSUME IInv, VehicleTypeOK, SilenceInv, VehicleNext
    PROVE  SilenceInv'
  <1> DEFINE T == Timeout["E000"]
  <1>0. /\ T \in Nat \ {0} /\ MaxLag \in Nat /\ lag \in Nat /\ silence \in Nat
        /\ Quiet \in Battery /\ age[Quiet] \in Nat
        /\ age["E000"] \in Nat /\ age["E001"] \in Nat
    BY ConstantFacts DEF VehicleTypeOK, Battery
  <1>1. CASE Aside
    <2>1. UNCHANGED <<state, tel, canTel, seen, age, telQueue, silence, lag>>
          /\ (canPhase' = canPhase \/ canPhase' = "drain")
      BY <1>1, AsideFacts DEF vcuOwn, machine, watch
    <2> QED
      BY <2>1 DEF SilenceInv, AgeHonest, PublishHonest, QueueInTime, TelInTime,
         QueueFirst, BatteryKnown, LiveJudged, BmsFresh, Judged
  <1>2. ASSUME NEW f \in Frames, CanReceive(f) PROVE SilenceInv'
    <2>1. /\ UNCHANGED <<state, tel, telQueue, lag>> /\ canPhase' = "drain"
          /\ seen \subseteq seen' /\ age' \in [Can!Streams -> Nat]
          /\ \/ silence' = 0
             \/ /\ silence' = silence /\ age'[Quiet] = age[Quiet]
                /\ Quiet \in seen' <=> Quiet \in seen
      BY <1>2, ReceiveFacts DEF vcuOwn, machine
    <2>2. age'[Quiet] \in Nat
      BY <2>1, ConstantFacts
    <2>3. AgeHonest'
      BY <1>0, <2>1, <2>2 DEF SilenceInv, AgeHonest
    <2>4. QueueInTime' /\ TelInTime'
      BY <1>0, <2>1 DEF SilenceInv, QueueInTime, TelInTime
    <2> QED
      BY <2>1, <2>3, <2>4 DEF SilenceInv, PublishHonest, QueueFirst, BatteryKnown,
         LiveJudged, Judged
  <1>3. CASE CanEndDrain
    <2>1. /\ UNCHANGED <<state, tel, telQueue, seen, age, silence, lag>>
          /\ canPhase' = "publish"
          /\ canTel'.bmsDataValid = BmsFresh /\ canTel'.bmsTimeoutActive = BmsStale
      BY <1>3, EndDrainFacts DEF vcuOwn, machine, watch
    <2>2. PublishHonest'
      BY <2>1 DEF PublishHonest, BmsFresh
    <2>3. Battery \subseteq seen => Judged(canTel')
      BY <2>1 DEF Judged, Battery, BmsFresh, BmsStale
    <2>4. BatteryKnown'
      BY <2>1, <2>3 DEF SilenceInv, BatteryKnown, Judged
    <2> QED
      BY <2>1, <2>2, <2>4 DEF SilenceInv, AgeHonest, QueueInTime, TelInTime, QueueFirst,
         LiveJudged, Judged
  <1>4. CASE CanPublish
    <2>1. /\ UNCHANGED <<state, tel, canTel, seen>> /\ telQueue' = {canTel}
          /\ canPhase = "publish" /\ canPhase' = "alerts"
          /\ age'[Quiet] = IF age[Quiet] < T THEN age[Quiet] + 1 ELSE age[Quiet]
          /\ silence' \in Nat /\ silence' <= silence + 1 /\ lag' = lag + 1
      BY <1>0, <1>4, PublishFacts DEF vcuOwn, machine
    <2>2. AgeHonest'
      BY <1>0, <2>1 DEF SilenceInv, AgeHonest
    <2>3. canTel.bmsDataValid => /\ Battery \subseteq seen /\ silence < T
      BY <1>0, <2>1 DEF SilenceInv, PublishHonest, AgeHonest, BmsFresh, Battery
    <2>4. QueueInTime'
      BY <1>0, <2>1, <2>3 DEF QueueInTime
    <2>5. TelInTime'
      BY <1>0, <2>1 DEF SilenceInv, TelInTime
    <2>6. BatteryKnown'
      BY <2>1, <2>3 DEF SilenceInv, BatteryKnown, Judged
    <2> QED
      BY <2>1, <2>2, <2>4, <2>5, <2>6 DEF SilenceInv, PublishHonest, QueueFirst,
         LiveJudged, Judged
  <1>5. CASE VcuRunFlags \/ VcuRunBody \/ Touch
    <2>1. UNCHANGED <<canTel, seen, age, telQueue, canPhase, silence>>
      BY <1>5, VcuSideFacts DEF canOwn
    <2>2. AgeHonest' /\ PublishHonest' /\ QueueInTime'
      BY <2>1 DEF SilenceInv, AgeHonest, PublishHonest, QueueInTime, BmsFresh
    <2>3. CASE VcuRunFlags
      <3>1. tel' \in Peeked /\ lag' = 0 /\ (state' \in LiveStates => state' = state)
        BY <2>3, RunFlagsLive DEF VcuRunFlags
      <3>2. TelInTime' /\ QueueFirst'
        BY <1>0, <2>1, <3>1 DEF SilenceInv, TelInTime, QueueInTime, QueueFirst, Peeked
      <3>3. BatteryKnown' /\ LiveJudged'
        BY <2>1, <3>1 DEF SilenceInv, BatteryKnown, LiveJudged, Judged, Peeked
      <3> QED
        BY <2>2, <3>2, <3>3 DEF SilenceInv
    <2>4. CASE VcuRunBody \/ Touch
      <3>1. /\ tel' = tel /\ lag' = lag
            /\ state' \in LiveStates => state \in LiveStates \/ isReadyEntryPermitted(tel)
        BY <2>4, VcuSideFacts DEF VcuRunBody, Touch, RunBody, PostEStop, PostQueued,
           machine, watch
      <3>2. state' \in LiveStates => state \in LiveStates \/ tel.bmsDataValid
        BY <3>1 DEF isReadyEntryPermitted
      <3> QED
        BY <2>1, <2>2, <3>1, <3>2 DEF SilenceInv, TelInTime, QueueFirst, BatteryKnown,
           LiveJudged, Judged
    <2> QED
      BY <1>5, <2>3, <2>4
  <1> QED
    BY <1>1, <1>2, <1>3, <1>4, <1>5, Zenon DEF VehicleNext, CanDrain, Aside

-----------------------------------------------------------------------------
(* A critical condition that is published again and again.                 *)

\* No stream is valid and timed out at once.
Exclusive(t) ==
    /\ ~(t.bmsDataValid /\ t.bmsTimeoutActive)
    /\ ~(t.motorDataValid /\ t.motorTimeoutActive)
AllExclusive == Exclusive(canTel) /\ Exclusive(tel) /\ \A t \in telQueue : Exclusive(t)

\* Telemetry that is not critical dates from before the current series of
\* critical publications, which is as long as the VCU task has not peeked.
QueueDanger == \A t \in telQueue : ~hasCriticalCondition(t, "READY") => danger = 0
TelDanger   == ~hasCriticalCondition(tel, "READY") => danger <= lag
FirstDanger == telQueue = {} => danger = 0

DangerInv == AllExclusive /\ QueueDanger /\ TelDanger /\ FirstDanger

LEMMA DangerInit == VehicleInit => DangerInv
  BY DEF VehicleInit, Init, Can!CanInit, Can!BlankTelemetry, BlankTelemetry, DangerInv,
     AllExclusive, Exclusive, QueueDanger, TelDanger, FirstDanger

LEMMA ExclusiveStep ==
    ASSUME IInv, VehicleTypeOK, AllExclusive, VehicleNext
    PROVE  AllExclusive'
  <1>1. CASE Aside
    BY <1>1, AsideFacts DEF AllExclusive, Exclusive, vcuOwn
  <1>2. ASSUME NEW f \in Frames, CanReceive(f) PROVE AllExclusive'
    <2>1. /\ UNCHANGED <<tel, telQueue>> /\ FlagsKept
          /\ MotorKept \/ (canTel'.motorDataValid = TRUE /\ canTel'.motorTimeoutActive = FALSE)
      BY <1>2, ReceiveFacts DEF vcuOwn
    <2> QED
      BY <2>1 DEF AllExclusive, Exclusive, FlagsKept, MotorKept
  <1>3. CASE CanEndDrain
    <2>1. /\ UNCHANGED <<tel, telQueue>>
          /\ canTel'.bmsDataValid = BmsFresh /\ canTel'.bmsTimeoutActive = BmsStale
          /\ MotorKept \/ (canTel'.motorDataValid = FALSE /\ canTel'.motorTimeoutActive = TRUE)
      BY <1>3, EndDrainFacts DEF vcuOwn
    <2>2. ~(BmsFresh /\ BmsStale)
      BY DEF BmsFresh, BmsStale
    <2> QED
      BY <2>1, <2>2 DEF AllExclusive, Exclusive, MotorKept
  <1>4. CASE CanPublish
    BY <1>4, PublishFacts DEF AllExclusive, Exclusive, vcuOwn
  <1>5. CASE VcuRunFlags \/ VcuRunBody \/ Touch
    <2>1. UNCHANGED <<canTel, telQueue>> /\ (tel' = tel \/ tel' \in telQueue)
      BY <1>5, VcuSideFacts DEF canOwn, Peeked
    <2> QED
      BY <2>1 DEF AllExclusive, Exclusive
  <1> QED
    BY <1>1, <1>2, <1>3, <1>4, <1>5, Zenon DEF VehicleNext, CanDrain, Aside

LEMMA DangerStep ==
    ASSUME IInv, VehicleTypeOK, DangerInv, VehicleNext
    PROVE  DangerInv'
  <1>0. AllExclusive' /\ danger \in Nat /\ lag \in Nat
    BY ExclusiveStep DEF DangerInv, VehicleTypeOK
  <1> SUFFICES QueueDanger' /\ TelDanger' /\ FirstDanger'
    BY <1>0 DEF DangerInv
  <1>1. CASE CanPublish
    <2>1. /\ tel' = tel /\ telQueue' = {canTel} /\ lag' = lag + 1
          /\ danger' = IF hasCriticalCondition(canTel, "READY")
                       THEN Saturate(danger, DangerMax) ELSE 0
      BY <1>1, PublishFacts DEF vcuOwn
    <2>2. danger' = 0 \/ danger' <= danger + 1
      BY <1>0, <2>1 DEF Saturate
    <2>3. QueueDanger'
      BY <2>1 DEF QueueDanger
    <2>4. danger <= lag => danger' <= lag'
      BY <1>0, <2>1, <2>2 DEF Saturate
    <2>5. TelDanger'
      BY <2>1, <2>4, Zenon DEF DangerInv, TelDanger
    <2> QED
      BY <2>1, <2>3, <2>5 DEF FirstDanger
  <1>2. CASE Aside \/ CanDrain
    <2>1. UNCHANGED <<tel, telQueue, danger, lag>>
      <3>1. CASE Aside
        BY <3>1, AsideFacts DEF vcuOwn, watch
      <3>2. CASE CanEndDrain
        BY <3>2, EndDrainFacts DEF vcuOwn, watch
      <3>3. ASSUME NEW f \in Frames, CanReceive(f)
            PROVE  UNCHANGED <<tel, telQueue, danger, lag>>
        BY <3>3, ReceiveFacts DEF vcuOwn
      <3> QED
        BY <1>2, <3>1, <3>2, <3>3, Zenon DEF CanDrain
    <2> QED
      BY <2>1, Zenon DEF DangerInv, QueueDanger, TelDanger, FirstDanger
  <1>3. CASE VcuRunFlags \/ VcuRunBody \/ Touch
    <2>1. /\ UNCHANGED <<telQueue, danger>>
          /\ \/ tel' \in Peeked /\ lag' = 0
             \/ tel' = tel /\ lag' = lag
      BY <1>3, VcuSideFacts DEF canOwn
    <2>2. QueueDanger' /\ FirstDanger'
      BY <2>1, Zenon DEF DangerInv, QueueDanger, FirstDanger
    <2>3. CASE tel' = tel /\ lag' = lag
      BY <2>1, <2>2, <2>3, Zenon DEF DangerInv, TelDanger
    <2>4. CASE tel' \in Peeked /\ lag' = 0
      <3>1. CASE telQueue = {}
        <4>1. danger' = 0
          BY <2>1, <3>1, Zenon DEF DangerInv, FirstDanger
        <4> QED
          BY <2>2, <2>4, <4>1 DEF TelDanger
      <3>2. CASE telQueue # {}
        <4>1. ~hasCriticalCondition(tel', "READY") => danger = 0
          BY <2>4, <3>2, Zenon DEF DangerInv, QueueDanger, Peeked
        <4>2. ~hasCriticalCondition(tel', "READY") => danger' <= lag'
          BY <2>1, <2>4, <4>1
        <4> QED
          BY <2>2, <4>2, Zenon DEF TelDanger
      <3> QED
        BY <3>1, <3>2
    <2> QED
      BY <2>1, <2>3, <2>4
  <1> QED
    BY <1>1, <1>2, <1>3 DEF VehicleNext, Aside

-----------------------------------------------------------------------------
VehicleInv == IInv /\ VehicleTypeOK /\ NoCanInv /\ SilenceInv /\ DangerInv

LEMMA VehicleTypesInit == VehicleInit => VehicleTypeOK
  <1> SUFFICES ASSUME VehicleInit PROVE VehicleTypeOK
    OBVIOUS
  <1>1. CanTelShape /\ age \in [Can!Streams -> Nat]
    BY DEF VehicleInit, Can!CanInit, Can!BlankTelemetry, BlankTelemetry, CanTelShape
  <1> QED
    BY <1>1, ConstantFacts DEF VehicleInit, VehicleTypeOK, SilenceMax

LEMMA VehicleInvStep ==
    ASSUME VehicleInv, [VehicleNext]_vehVars
    PROVE  VehicleInv'
  <1>1. IInv'
    BY VehicleStepIsVcu, NextIInv DEF VehicleInv
  <1>2. CASE VehicleNext
    BY <1>1, <1>2, VehicleTypes, NoCanStep, SilenceStep, DangerStep DEF VehicleInv
  <1>3. CASE UNCHANGED vehVars
    <2>1. UNCHANGED <<state, tel, relay, canTel, seen, age, telQueue, rx, canPhase,
                      canTask, tuned, lag, silence, danger>>
      BY <1>3 DEF vehVars, vcuOwn, machine, canOwn, startup, watch
    <2>2. VehicleTypeOK'
      BY <2>1 DEF VehicleInv, VehicleTypeOK, CanTelShape
    <2>3. NoCanInv'
      BY <2>1 DEF VehicleInv, NoCanInv, CanRuns
    <2>4. SilenceInv'
      BY <2>1 DEF VehicleInv, SilenceInv, AgeHonest, PublishHonest, QueueInTime, TelInTime,
         QueueFirst, BatteryKnown, LiveJudged, BmsFresh, Judged
    <2>5. DangerInv'
      BY <2>1, Zenon DEF VehicleInv, DangerInv, AllExclusive, Exclusive, QueueDanger, TelDanger,
         FirstDanger
    <2> QED
      BY <1>1, <2>2, <2>3, <2>4, <2>5 DEF VehicleInv
  <1> QED
    BY <1>2, <1>3

\* The joint invariant of both tasks.
THEOREM VehicleInductive == VehicleSpec => []VehicleInv
  <1>1. VehicleInit => VehicleInv
    <2>1. VehicleInit => IInv
      BY InitIInv DEF VehicleInit
    <2> QED
      BY <2>1, VehicleTypesInit, NoCanInit, SilenceInit, DangerInit DEF VehicleInv
  <1> QED
    BY <1>1, VehicleInvStep, PTL DEF VehicleSpec

\* Without a CAN task that runs at the bus's bit rate no contactor is ever
\* commanded on, for every number of bit rates and every telemetry.
THEOREM NoContactorsWithoutCan == VehicleSpec => []NoCanNoContactors
  <1>1. VehicleInv => NoCanNoContactors
    BY DEF VehicleInv, NoCanInv, NoCanNoContactors
  <1> QED
    BY <1>1, VehicleInductive, PTL

\* The machine is live at the end of a run() at most Timeout + MaxLag periods
\* after the last frame of either battery identifier, for every timeout and
\* every lag, whatever else is on the bus.
THEOREM SilenceIsNoticed == VehicleSpec => []SilenceReaction
  <1>1. ASSUME VehicleInv PROVE SilenceReaction
    <2>1. SUFFICES ASSUME phase = "top", state \in LiveStates
                   PROVE  silence <= Timeout["E000"] + MaxLag
      BY DEF SilenceReaction
    <2>2. /\ Timeout["E000"] \in Nat /\ MaxLag \in Nat /\ lag \in 0..MaxLag
          /\ silence \in Nat
      BY <1>1, ConstantFacts DEF VehicleInv, VehicleTypeOK
    <2>3. tel.bmsDataValid
      <3>1. CASE state = "READY" /\ stateTimer = 0
        BY <1>1, <2>1, <3>1 DEF VehicleInv, IInv, LiveTelemetryClean, isReadyEntryPermitted
      <3>2. CASE ~(state = "READY" /\ stateTimer = 0)
        <4>1. ~hasCriticalCondition(tel, state) /\ state # "IDLE"
          BY <1>1, <2>1, <3>2 DEF VehicleInv, IInv, LiveTelemetryClean, LiveStates
        <4>2. ~tel.bmsTimeoutActive
          BY <4>1 DEF hasCriticalCondition
        <4> QED
          BY <1>1, <2>1, <4>2 DEF VehicleInv, SilenceInv, LiveJudged, Judged
      <3> QED
        BY <3>1, <3>2
    <2>4. silence <= Timeout["E000"] + lag
      BY <1>1, <2>3 DEF VehicleInv, SilenceInv, TelInTime
    <2> QED
      BY <2>2, <2>4
  <1> QED
    BY <1>1, VehicleInductive, PTL

\* A live state survives a critical condition for at most MaxLag publications,
\* the ignored motor timeout at the entry of READY apart.
THEOREM CriticalIsNoticed == VehicleSpec => []CriticalReaction
  <1>1. ASSUME VehicleInv PROVE CriticalReaction
    <2>1. SUFFICES ASSUME phase = "top", state \in LiveStates, ~EntersOnMotorTimeout
                   PROVE  danger <= MaxLag
      BY DEF CriticalReaction
    <2>2. MaxLag \in Nat /\ lag \in 0..MaxLag /\ danger \in Nat
      BY <1>1, ConstantFacts DEF VehicleInv, VehicleTypeOK
    <2>3. ~hasCriticalCondition(tel, "READY")
      <3>1. CASE state = "READY" /\ stateTimer = 0
        <4>1. isReadyEntryPermitted(tel)
          BY <1>1, <2>1, <3>1 DEF VehicleInv, IInv, LiveTelemetryClean
        <4>2. /\ tel.bmsDataValid /\ ~hasCriticalCondition(tel, "IDLE")
              /\ MotorDriverPresent => tel.motorDataValid
          BY <4>1 DEF isReadyEntryPermitted
        <4>3. ~tel.bmsTimeoutActive /\ ~tel.motorTimeoutActive
          BY <1>1, <2>1, <3>1, <4>2 DEF VehicleInv, DangerInv, AllExclusive, Exclusive,
             EntersOnMotorTimeout
        <4> QED
          BY <4>2, <4>3 DEF hasCriticalCondition
      <3>2. CASE ~(state = "READY" /\ stateTimer = 0)
        <4>1. ~hasCriticalCondition(tel, state) /\ state # "IDLE"
          BY <1>1, <2>1, <3>2 DEF VehicleInv, IInv, LiveTelemetryClean, LiveStates
        <4> QED
          BY <4>1 DEF hasCriticalCondition
      <3> QED
        BY <3>1, <3>2
    <2>4. danger <= lag
      BY <1>1, <2>3 DEF VehicleInv, DangerInv, TelDanger
    <2> QED
      BY <2>2, <2>4
  <1> QED
    BY <1>1, VehicleInductive, PTL
=============================================================================
