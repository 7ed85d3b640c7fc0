----------------------------- MODULE CanManager -----------------------------
(***************************************************************************)
(* The CAN task: lib/CanManager's processRxMessages and the telemetry      *)
(* hand-over of vTask_CAN_Comm in src/main.cpp.                            *)
(*                                                                         *)
(* A period of the task reads the controller's alerts, drains at most      *)
(* DrainMax frames of the receive queue, re-evaluates the four validity    *)
(* flags, overwrites the one-place telemetry queue and sleeps.  Frames     *)
(* keep arriving meanwhile, and a fault is posted to the VCU in the middle *)
(* of the drain, before the telemetry that shows it is published.  Time is *)
(* counted in task periods; an age saturates at the timeout it is compared *)
(* with.                                                                   *)
(***************************************************************************)
EXTENDS SafetyPredicates, CanParse

CONSTANTS
    Frames,         \* the frames that may be on the bus
    Group,          \* the cell-voltage identifiers (E015..E020)
    Timeout,        \* CAN_*_TIMEOUT_MS per stream, in periods
    DebounceFrames, \* MOTOR_ERROR_DEBOUNCE_FRAMES
    RxQueueLen,     \* CAN_RX_QUEUE_LEN
    DrainMax        \* CAN_RX_DRAIN_MAX

Streams == {"motor", "E000", "E001", "cell", "charger"}
FrameIds == {"MOTOR", "E000", "E001", "CHARGER", "STUB"} \cup Group

ASSUME CanAssumption ==
    /\ \A f \in Frames : /\ f.id \in FrameIds /\ f.rtr \in BOOLEAN /\ f.dlc \in 0..8
                         /\ f.data \in [0..7 -> Byte]
    /\ Group \cap {"MOTOR", "E000", "E001", "CHARGER", "STUB"} = {}
    /\ Timeout \in [Streams -> Nat \ {0}]
    /\ Timeout["E000"] = Timeout["E001"]  \* CAN_BMS_STATUS_TIMEOUT_MS for both
    /\ DebounceFrames \in Nat \ {0}
    /\ RxQueueLen \in Nat \ {0} /\ DrainMax \in Nat \ {0}

VARIABLES
    canTel,       \* s_telemetryData
    seen,         \* CAN_hasSeen*: the streams heard at least once
    age,          \* periods since CAN_last*Tick, per stream
    consecutive,  \* CAN_motorErrorConsecutive
    packFlags,    \* CAN_bmsPackFaultFlags
    seenMask,     \* CAN_cellVoltageSeenMask
    cellTimeout,  \* TEL_cellVoltageTimeoutActive
    chargerValid, \* CAN_chargerValid
    telQueue,     \* TEL_sensorDataQueue: empty, or its one element
    posted,       \* FAULT_DETECTED was posted and not yet taken by the VCU
    rx,           \* frames waiting in the driver's receive queue
    drained,      \* frames taken in this period
    bus,          \* state of the TWAI driver
    alerts,       \* alerts raised and not yet read
    canPhase      \* where the task is in its period

canVars == <<canTel, seen, age, consecutive, packFlags, seenMask, cellTimeout,
             chargerValid, telQueue, posted, rx, drained, bus, alerts, canPhase>>

\* What the handlers and the validity updates work on.
decoded == <<canTel, seen, age, consecutive, packFlags, seenMask, cellTimeout,
             chargerValid>>

CanTypeOK ==
    /\ canTel \in TelemetryData
    /\ seen \subseteq Streams
    /\ age \in [Streams -> Nat] /\ \A s \in Streams : age[s] <= Timeout[s]
    /\ consecutive \in 0..DebounceFrames
    /\ packFlags \in 0..2
    /\ seenMask \subseteq Group
    /\ cellTimeout \in BOOLEAN /\ chargerValid \in BOOLEAN
    /\ telQueue \subseteq TelemetryData
    /\ posted \in BOOLEAN
    /\ rx \in 0..RxQueueLen /\ drained \in 0..DrainMax
    /\ bus \in {"running", "off", "recovering", "stopped"}
    /\ alerts \subseteq {"BUS_OFF", "BUS_RECOVERED"}
    /\ canPhase \in {"alerts", "drain", "publish"}

\* begin() succeeded: the driver runs and nothing has been decoded.
CanInit ==
    /\ canTel = BlankTelemetry
    /\ seen = {} /\ age = [s \in Streams |-> 0]
    /\ consecutive = 0 /\ packFlags = 0 /\ seenMask = {}
    /\ cellTimeout = FALSE /\ chargerValid = FALSE
    /\ telQueue = {} /\ posted = FALSE
    /\ rx = 0 /\ drained = 0
    /\ bus = "running" /\ alerts = {}
    /\ canPhase = "alerts"

-----------------------------------------------------------------------------
(* The bus and the controller.                                             *)

\* A frame enters the receive queue; a full queue loses it.
Arrive ==
    /\ bus = "running" /\ rx < RxQueueLen
    /\ rx' = rx + 1
    /\ UNCHANGED <<decoded, telQueue, posted, drained, bus, alerts, canPhase>>

BusOff ==
    /\ bus = "running"
    /\ bus' = "off" /\ alerts' = alerts \cup {"BUS_OFF"}
    /\ UNCHANGED <<decoded, telQueue, posted, rx, drained, canPhase>>

BusRecovered ==
    /\ bus = "recovering"
    /\ bus' = "stopped" /\ alerts' = alerts \cup {"BUS_RECOVERED"}
    /\ UNCHANGED <<decoded, telQueue, posted, rx, drained, canPhase>>

-----------------------------------------------------------------------------
(* processRxMessages                                                       *)

\* Mutant: the recovered driver is not started again.
MutNoRestart ==
    /\ canPhase = "alerts"
    /\ bus' = IF "BUS_OFF" \in alerts /\ bus = "off" THEN "recovering" ELSE bus
    /\ alerts' = {} /\ drained' = 0
    /\ canPhase' = "drain"
    /\ UNCHANGED <<decoded, telQueue, posted, rx>>

\* twai_read_alerts clears what it returns; each call takes effect only in
\* the driver state it is meant for.
ReadAlerts ==
    /\ canPhase = "alerts"
    /\ bus' = IF "BUS_OFF" \in alerts /\ bus = "off" THEN "recovering"
              ELSE IF "BUS_RECOVERED" \in alerts /\ bus = "stopped" THEN "running"
              ELSE bus
    /\ alerts' = {} /\ drained' = 0
    /\ canPhase' = "drain"
    /\ UNCHANGED <<decoded, telQueue, posted, rx>>

\* Each handler stamps its stream.
Heard(s) == seen' = seen \cup {s} /\ age' = [age EXCEPT ![s] = 0]

\* FAULT_DETECTED goes to the VCU when the flags are set and have changed.
notifyFaultIfNeeded(previous, current) ==
    posted' = (posted \/ (current # 0 /\ current # previous))

\* Mutant: a frame after a timeout does not lift it.
MutMotorKeepsTimeout(d) ==
    LET flags == parseMotorStatus(d).errorFlags
        confirmed == IF motorErrorFaultConfirmed(flags, consecutive, DebounceFrames)
                     THEN flags ELSE 0
    IN  /\ canTel' = [canTel EXCEPT !.motorErrorFlags = confirmed,
                                    !.motorDataValid = TRUE]
        /\ consecutive' = NextConsecutive(flags, consecutive, DebounceFrames)
        /\ Heard("motor")
        /\ notifyFaultIfNeeded(canTel.motorErrorFlags, confirmed)
        /\ UNCHANGED <<packFlags, seenMask, cellTimeout, chargerValid>>

handleMotorStatus(d) ==
    LET flags == parseMotorStatus(d).errorFlags
        confirmed == IF motorErrorFaultConfirmed(flags, consecutive, DebounceFrames)
                     THEN flags ELSE 0
    IN  /\ canTel' = [canTel EXCEPT !.motorErrorFlags = confirmed,
                                    !.motorDataValid = TRUE,
                                    !.motorTimeoutActive = FALSE]
        /\ consecutive' = NextConsecutive(flags, consecutive, DebounceFrames)
        /\ Heard("motor")
        /\ notifyFaultIfNeeded(canTel.motorErrorFlags, confirmed)
        /\ UNCHANGED <<packFlags, seenMask, cellTimeout, chargerValid>>

handleLbBmsE000(d) ==
    LET p == parseLbBmsE000(d)
        flags == checkPackVoltageFault(p.packVoltageDeciV, PackCritMin, PackCritMax)
    IN  /\ canTel' = [canTel EXCEPT !.packVoltageDeciV = p.packVoltageDeciV,
                                    !.currentCentiA = p.currentCentiA]
        /\ packFlags' = flags
        /\ Heard("E000")
        /\ notifyFaultIfNeeded(packFlags, flags)
        /\ UNCHANGED <<consecutive, seenMask, cellTimeout, chargerValid>>

handleLbBmsE001(d) ==
    LET p == parseLbBmsE001(d)
    IN  /\ canTel' = [canTel EXCEPT !.cellMin = p.cellMin, !.cellMax = p.cellMax,
                                    !.tempHighestC = p.tempHighestC]
        /\ Heard("E001")
        /\ UNCHANGED <<consecutive, packFlags, seenMask, cellTimeout, chargerValid,
                       posted>>

\* handleLbBmsE015 .. handleLbBmsE020: all six share one stamp.
handleCellGroup(g) ==
    /\ seenMask' = seenMask \cup {g}
    /\ canTel' = [canTel EXCEPT !.cellVoltageDataValid = @ \/ seenMask' = Group]
    /\ Heard("cell")
    /\ UNCHANGED <<consecutive, packFlags, cellTimeout, chargerValid, posted>>

handleCharger1806E5F4 ==
    /\ chargerValid' = TRUE
    /\ Heard("charger")
    /\ UNCHANGED <<canTel, consecutive, packFlags, seenMask, cellTimeout, posted>>

\* Remote, short and unknown frames, and the stub identifiers, change nothing.
Ignored(f) == f.rtr \/ f.id = "STUB" \/ f.dlc < MinDlc(f.id)

\* Mutant: the drain goes on while frames keep coming.
MutDrainAll == rx > 0

\* The period's share of the receive queue is not used up.
MayReceive == rx > 0 /\ drained < DrainMax

Receive(f) ==
    /\ canPhase = "drain" /\ MayReceive
    /\ rx' = rx - 1
    /\ drained' = IF drained < DrainMax THEN drained + 1 ELSE drained
    /\ \/ Ignored(f) /\ UNCHANGED <<decoded, posted>>
       \/ /\ ~Ignored(f)
          /\ \/ f.id = "MOTOR" /\ handleMotorStatus(f.data)
             \/ f.id = "E000" /\ handleLbBmsE000(f.data)
             \/ f.id = "E001" /\ handleLbBmsE001(f.data)
             \/ f.id \in Group /\ handleCellGroup(f.id)
             \/ f.id = "CHARGER" /\ handleCharger1806E5F4
    /\ UNCHANGED <<telQueue, bus, alerts, canPhase>>

\* Latched: only the next motor frame lifts the timeout.
updateMotorStatusValidity(t) ==
    IF isMotorStatusTimedOut("motor" \in seen, t.motorDataValid, age["motor"],
                             Timeout["motor"])
    THEN [t EXCEPT !.motorDataValid = FALSE, !.motorTimeoutActive = TRUE]
    ELSE t

\* Mutant: only the pack-voltage identifier is watched.
MutBmsE000Only(t) ==
    [t EXCEPT !.bmsDataValid = bms_id_fresh("E000" \in seen, age["E000"], Timeout["E000"]),
              !.bmsTimeoutActive = "E000" \in seen /\ age["E000"] >= Timeout["E000"]]

updateBmsValidity(t) ==
    LET r == bms_evaluate_freshness("E000" \in seen, age["E000"],
                                    "E001" \in seen, age["E001"], Timeout["E000"])
    IN  [t EXCEPT !.bmsDataValid = r.dataValid, !.bmsTimeoutActive = r.timeoutActive]

CellSilent == "cell" \in seen /\ age["cell"] >= Timeout["cell"]

updateCellVoltageValidity(t) ==
    IF CellSilent THEN [t EXCEPT !.cellVoltageDataValid = FALSE] ELSE t

\* Mutant: the mask survives the timeout.
MutMaskKept == seenMask

\* The mask is emptied only when the data had been complete.
MaskAfterUpdate ==
    IF CellSilent /\ canTel.cellVoltageDataValid THEN {} ELSE seenMask

CellTimeoutAfterUpdate ==
    CellSilent \/ (cellTimeout /\ ~canTel.cellVoltageDataValid)

updateChargerValidity ==
    chargerValid /\ ~isBmsStatusTimedOut("charger" \in seen, chargerValid,
                                         age["charger"], Timeout["charger"])

EndDrain ==
    /\ canPhase = "drain" /\ ~MayReceive
    /\ canTel' = updateCellVoltageValidity(
                    updateBmsValidity(updateMotorStatusValidity(canTel)))
    /\ seenMask' = MaskAfterUpdate
    /\ cellTimeout' = CellTimeoutAfterUpdate
    /\ chargerValid' = updateChargerValidity
    /\ canPhase' = "publish"
    /\ UNCHANGED <<seen, age, consecutive, packFlags, telQueue, posted, rx, drained,
                   bus, alerts>>

\* xQueueOverwrite, then one period of sleep.
Publish ==
    /\ canPhase = "publish"
    /\ telQueue' = {canTel}
    /\ age' = [s \in Streams |-> IF age[s] < Timeout[s] THEN age[s] + 1 ELSE age[s]]
    /\ canPhase' = "alerts"
    /\ UNCHANGED <<canTel, seen, consecutive, packFlags, seenMask, cellTimeout,
                   chargerValid, posted, rx, drained, bus, alerts>>

\* The VCU takes the posted fault.
TakeFault ==
    /\ posted /\ posted' = FALSE
    /\ UNCHANGED <<decoded, telQueue, rx, drained, bus, alerts, canPhase>>

DrainStep == (\E f \in Frames : Receive(f)) \/ EndDrain

CanNext ==
    \/ Arrive
    \/ BusOff
    \/ BusRecovered
    \/ ReadAlerts
    \/ DrainStep
    \/ Publish
    \/ TakeFault

\* The task's loop never blocks for long, and the controller completes a
\* recovery it was asked for.  Nothing makes frames arrive.
CanFairness ==
    /\ WF_canVars(ReadAlerts)
    /\ WF_canVars(DrainStep)
    /\ WF_canVars(Publish)
    /\ WF_canVars(BusRecovered)

CanSpec == CanInit /\ [][CanNext]_canVars /\ CanFairness

-----------------------------------------------------------------------------
\* What the VCU may peek never says of one stream that its data is valid and
\* that it timed out: the motor's pair is latched by two different functions,
\* the battery's is recomputed every period.
ValidityExclusive ==
    \A t \in telQueue :
        /\ ~(t.motorDataValid /\ t.motorTimeoutActive)
        /\ ~(t.bmsDataValid /\ t.bmsTimeoutActive)

\* A pack-voltage identifier that falls silent for good is published as timed
\* out for good, whatever telemetry keeps arriving from the others: the bounded
\* drain always gets to updateBmsValidity.
SilenceNoticed ==
    <>[][\A f \in Frames : f.id = "E000" => ~Receive(f)]_canVars =>
        <>[]("E000" \in seen =>
                \E t \in telQueue : t.bmsTimeoutActive /\ ~t.bmsDataValid)

\* A bus-off never ends reception: it is noticed at the next read of the
\* alerts, recovery is requested and the recovered driver is started.
BusComesBack == []<>(bus = "running")

\* "raw/10 = mV" (VehicleData.h): telemetry decoded from frames of a pack at
\* its nominal voltages is not critical.
NominalNotCritical ==
    \A t \in telQueue : ~hasCriticalCondition(t, "IDLE")
=============================================================================
