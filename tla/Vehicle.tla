------------------------------ MODULE Vehicle -------------------------------
(***************************************************************************)
(* The CAN task and the VCU task of src/main.cpp together.  They share the *)
(* one-place telemetry queue, which the CAN task overwrites and the VCU    *)
(* task peeks at the top of its period, the fault flag, which the CAN task *)
(* sets in the middle of its drain, and the pointer through which the VCU  *)
(* task asks the CAN task's object for zero torque.                        *)
(*                                                                         *)
(* The CAN task first looks for the bus's bit rate, which takes up to      *)
(* three seconds, and deletes itself when the controller cannot be         *)
(* started; the VCU task runs all the while.  Time is counted in CAN task  *)
(* periods, and the VCU task is at most MaxLag of them late.  The relay     *)
(* driver's SPI bus is healthy and the controller stays on the bus: their   *)
(* faults are the subject of VcuLogic and CanManager alone.                 *)
(***************************************************************************)
EXTENDS VcuLogic

CONSTANTS
    Frames, Group, Timeout, DebounceFrames, RxQueueLen, DrainMax,
    Buttons,   \* the touch commands that are used
    Quiet,     \* the battery identifier whose silence is watched
    BitRates,  \* how many bit rates begin() tries (500, 125, 250 kbit/s)
    MaxLag     \* CAN periods between two peeks of the VCU task (20 ms / 10 ms)

VARIABLES
    canTel, seen, age, consecutive, packFlags, seenMask, cellTimeout,
    chargerValid, telQueue, rx, drained, bus, alerts, canPhase,
    canTask,  \* the CAN task: "unborn", "begin", "up" or, deleted, "dead"
    tried,    \* bit rates begin() has given up on, 0 once it has returned
    tuned,    \* the controller runs at the bit rate of the bus
    lag,      \* publications since the VCU task last peeked
    silence,  \* observer: periods since a usable frame of Quiet
    danger    \* observer: publications in a row that a live state must not survive

\* postEvent(FAULT_DETECTED) sets the flag that run() exchanges.
Can == INSTANCE CanManager WITH posted <- faultPending

ASSUME VehicleAssumption ==
    /\ Buttons \subseteq QueuedEvents \cup {"EMERGENCY_STOP"}
    /\ Quiet \in {"E000", "E001"}
    /\ BitRates \in Nat /\ MaxLag \in Nat \ {0}
    /\ Group \cap {"MOTOR", "E000", "E001", "CHARGER", "STUB"} = {}
    /\ Timeout \in [Can!Streams -> Nat \ {0}]
    /\ Timeout["E000"] = Timeout["E001"]  \* CAN_BMS_STATUS_TIMEOUT_MS for both

canOwn  == <<canTel, seen, age, consecutive, packFlags, seenMask, cellTimeout,
             chargerValid, telQueue, rx, drained, bus, alerts, canPhase>>
vcuOwn  == <<machine, eventQueue, eStopPending, zeroTorque, tel, relay, spi, phase,
             hmiWait>>
startup == <<canTask, tried, tuned>>
watch   == <<lag, silence, danger>>
vehVars == <<vcuOwn, faultPending, canOwn, startup, watch>>

SilenceMax == Timeout["E000"] + MaxLag + 1
DangerMax  == MaxLag + 1

VehicleInit ==
    /\ Init /\ spi = "ok" /\ Can!CanInit
    /\ canTask = "unborn" /\ tried = 0 /\ tuned = FALSE
    /\ lag = 0
    /\ silence = SilenceMax
    /\ danger = 0

-----------------------------------------------------------------------------
(* vTask_CAN_Comm up to its loop                                           *)

\* The instance is built and the torque sink's pointer set before begin().
CanTaskStarts ==
    /\ canTask = "unborn"
    /\ canTask' = "begin"
    /\ UNCHANGED <<vcuOwn, faultPending, canOwn, tried, tuned, watch>>

\* One bit rate: a frame within the second settles it, and is not decoded;
\* otherwise the driver is stopped and removed again.
TryBitRate(frameHeard) ==
    /\ canTask = "begin" /\ tried < BitRates
    /\ IF frameHeard THEN canTask' = "up" /\ tuned' = TRUE /\ tried' = 0
       ELSE tried' = tried + 1 /\ UNCHANGED <<canTask, tuned>>
    /\ UNCHANGED <<vcuOwn, faultPending, canOwn, watch>>

\* No rate was heard: 500 kbit/s blindly, or the end of the task.
FallBack(started, rateFits) ==
    /\ canTask = "begin" /\ tried = BitRates
    /\ canTask' = IF started THEN "up" ELSE "dead"
    /\ tuned' = (started /\ rateFits)
    /\ tried' = 0
    /\ UNCHANGED <<vcuOwn, faultPending, canOwn, watch>>

\* Where s_canForTorque leads: it is set once and never cleared, and the
\* instance lives on the stack of the task.
CAN_torqueSink ==
    CASE canTask = "unborn" -> "null"
      [] canTask \in {"begin", "up"} -> "instance"
      [] canTask = "dead" -> "freed"

-----------------------------------------------------------------------------
(* The loop of the CAN task                                                *)

CanRuns == canTask = "up"

\* At another bit rate than the bus's nothing is received.
CanArrive ==
    CanRuns /\ tuned /\ Can!Arrive /\ UNCHANGED <<vcuOwn, startup, watch>>

CanReadAlerts ==
    CanRuns /\ Can!ReadAlerts /\ UNCHANGED <<vcuOwn, startup, watch>>

CanReceive(f) ==
    /\ CanRuns /\ Can!Receive(f)
    /\ silence' = IF f.id = Quiet /\ ~Can!Ignored(f) THEN 0 ELSE silence
    /\ UNCHANGED <<vcuOwn, startup, lag, danger>>

CanEndDrain ==
    CanRuns /\ Can!EndDrain /\ UNCHANGED <<vcuOwn, startup, watch>>

\* The VCU task has a core for itself: it peeks before MaxLag periods pass.
CanPublish ==
    /\ CanRuns /\ Can!Publish
    /\ lag < MaxLag /\ lag' = lag + 1
    /\ silence' = Saturate(silence, SilenceMax)
    /\ danger' = IF hasCriticalCondition(canTel, "READY")
                 THEN Saturate(danger, DangerMax) ELSE 0
    /\ UNCHANGED <<vcuOwn, startup>>

-----------------------------------------------------------------------------
(* The VCU task and the HMI task's posts                                   *)

\* Mutant: only the first telemetry is ever taken over.
MutPeekOnce == IF tel = BlankTelemetry THEN telQueue \cup {tel} ELSE {tel}

\* xQueuePeek: an empty queue leaves the last telemetry in place.
Peeked == IF telQueue = {} THEN {tel} ELSE telQueue

VcuRunFlags ==
    /\ tel' \in Peeked
    /\ RunFlags
    /\ lag' = 0
    /\ UNCHANGED <<canOwn, startup, silence, danger>>

VcuRunBody ==
    RunBody /\ UNCHANGED <<canOwn, startup, watch>>

Touch ==
    /\ \/ "EMERGENCY_STOP" \in Buttons /\ PostEStop
       \/ \E e \in Buttons \cap QueuedEvents : PostQueued(e)
    /\ UNCHANGED <<canOwn, startup, watch>>

CanDrain == (\E f \in Frames : CanReceive(f)) \/ CanEndDrain

Startup ==
    \/ CanTaskStarts
    \/ \E ok \in BOOLEAN : TryBitRate(ok)
    \/ \E ok, fits \in BOOLEAN : FallBack(ok, fits)

VehicleNext ==
    \/ Startup
    \/ CanArrive
    \/ CanReadAlerts
    \/ CanDrain
    \/ CanPublish
    \/ VcuRunFlags
    \/ VcuRunBody
    \/ Touch

\* Both tasks' loops never block for long.  No frame has to arrive.
VehicleFairness ==
    /\ WF_vehVars(Startup)
    /\ WF_vehVars(CanReadAlerts)
    /\ WF_vehVars(CanDrain)
    /\ WF_vehVars(CanPublish)
    /\ WF_vehVars(VcuRunFlags)
    /\ WF_vehVars(VcuRunBody)

VehicleSpec == VehicleInit /\ [][VehicleNext]_vehVars /\ VehicleFairness

-----------------------------------------------------------------------------
\* A run() that leaves the machine live comes at most Timeout + MaxLag CAN
\* periods after the last frame of the battery identifier watched: the
\* publication in between, the peek before run() and the reading of old
\* telemetry in the body add no more, although nothing looks at a time stamp.
SilenceReaction ==
    phase = "top" /\ state \in LiveStates => silence <= Timeout["E000"] + MaxLag

\* A build without the motor driver lets READY be entered on a motor timeout,
\* which READY does not tolerate: the next run() goes to FAULT.
EntersOnMotorTimeout ==
    /\ state = "READY" /\ stateTimer = 0
    /\ ~MotorDriverPresent /\ tel.motorTimeoutActive

\* A critical condition the CAN task keeps publishing is survived by the live
\* states for at most MaxLag publications: also when its fault was already
\* posted before the publication, cleared by a RESET that still saw the old
\* telemetry, and followed by a START.  The one exception is the motor timeout
\* that isReadyEntryPermitted ignores, for the run() that enters READY.
CriticalReaction ==
    phase = "top" /\ state \in LiveStates /\ ~EntersOnMotorTimeout =>
        danger <= MaxLag

\* Without a CAN task that runs at the bus's bit rate the contactors are never
\* commanded on: no telemetry, or blank telemetry, permits no start.
NoCanNoContactors == ~(CanRuns /\ tuned) => relay.shadow = {}

-----------------------------------------------------------------------------
\* "When the sink is called, the valid instance is reached through this
\* file-scope pointer" (main.cpp): requestZeroTorque never goes through the
\* pointer to the instance of a deleted task.
TorqueSinkValid ==
    [][zeroTorque = -1 /\ zeroTorque' = 0 => CAN_torqueSink # "freed"]_vehVars
=============================================================================
