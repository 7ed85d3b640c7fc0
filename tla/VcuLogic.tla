------------------------------ MODULE VcuLogic ------------------------------
(***************************************************************************)
(* The vehicle control unit of lib/VcuLogic, driving the relay driver of   *)
(* lib/RelayManager, as scheduled by the tasks of src/main.cpp:            *)
(*                                                                         *)
(*   VCU task   every 20 ms: peek the telemetry queue, then run();         *)
(*   HMI task   every 100 ms, at most one touch command: postEvent;        *)
(*   CAN task   any time: postEvent(FAULT_DETECTED) and fresh telemetry.   *)
(*                                                                         *)
(* The tasks run on two cores, so a post may land between the moment run() *)
(* consumes the two bypass flags and the moment it polls the queue: run()  *)
(* is two steps, RunFlags and RunBody.  Nothing else it reads is shared.   *)
(* Time is counted in VCU task periods.                                    *)
(***************************************************************************)
EXTENDS RelayOps, SafetyPredicates, Sequences

CONSTANTS
    Telemetry,      \* the telemetry the CAN task may publish
    QueueLen,       \* capacity of s_eventQueue (8)
    OpenDelay,      \* VCU_CONTACTOR_OPEN_DELAY_MS in periods (20 ms = 1)
    ReassertTicks,  \* periods between two re-asserts of allOff (1000 ms = 50)
    HmiGap          \* VCU periods between two touch commands (100 ms: at least 3)

ASSUME VcuAssumption ==
    /\ Telemetry \subseteq TelemetryData
    /\ QueueLen \in Nat \ {0}
    /\ OpenDelay \in Nat \ {0}
    /\ ReassertTicks \in Nat \ {0}
    /\ HmiGap \in Nat

VARIABLES
    state,      \* s_state
    stateTimer, \* s_stateTimer in periods, saturated at TimerMax
    sinceLog,   \* s_stateTimer - s_last{Estop,Fault}LogMs, saturated
    opened,     \* s_relaysOpenedInEstop, s_relaysOpenedInFault
    eventQueue, \* s_eventQueue
    eStopPending, faultPending,  \* the two bypass flags
    zeroTorque, \* periods since s_torqueSink(0) was called in this visit of a
                \* safe state, saturated at OpenDelay; -1 before the call
    tel,        \* s_TEL_latestData
    relay,      \* the relay driver and its chip
    spi,        \* condition of the SPI bus
    phase,      \* where the VCU task is: at the top or in the body of run()
    hmiWait     \* periods before the HMI task may post again

vars == <<state, stateTimer, sinceLog, opened, eventQueue, eStopPending,
          faultPending, zeroTorque, tel, relay, spi, phase, hmiWait>>

\* What only the VCU task touches, the telemetry and the driver apart.
machine == <<state, stateTimer, sinceLog, opened, zeroTorque>>

SafeStates == {"EMERGENCY_STOP", "FAULT"}
LiveStates == {"READY", "DRIVE"}
VcuStates  == {"IDLE"} \cup LiveStates \cup SafeStates
\* The events that go through the queue; the other two bypass it.
QueuedEvents == {"START_REQUEST", "DRIVE_ENABLE", "RESET"}

TimerMax == OpenDelay + 1

TypeOK ==
    /\ state \in VcuStates
    /\ stateTimer \in 0..TimerMax
    /\ sinceLog \in 0..ReassertTicks
    /\ opened \in [SafeStates -> BOOLEAN]
    /\ eventQueue \in Seq(QueuedEvents) /\ Len(eventQueue) <= QueueLen
    /\ eStopPending \in BOOLEAN /\ faultPending \in BOOLEAN
    /\ zeroTorque \in -1..OpenDelay
    /\ tel \in Telemetry \cup {BlankTelemetry}
    /\ relay \in RelayState
    /\ spi \in SpiStates
    /\ phase \in {"top", "body"}
    /\ hmiWait \in 0..HmiGap

Saturate(n, max) == IF n < max THEN n + 1 ELSE n

(***************************************************************************)
(* app_main: RelayManager::begin, VcuLogic::init (allOff, then IDLE), task *)
(* creation.  No task runs earlier, so INIT is never observed.             *)
(***************************************************************************)
Init ==
    /\ state = "IDLE"
    /\ stateTimer = 0
    /\ sinceLog = 0
    /\ opened = [s \in SafeStates |-> FALSE]
    /\ eventQueue = <<>>
    /\ eStopPending = FALSE /\ faultPending = FALSE
    /\ zeroTorque = -1
    /\ tel = BlankTelemetry
    /\ spi \in SpiStates
    /\ \E r \in begin(spi) : relay \in allOff(r, spi)
    /\ phase = "top"
    /\ hmiWait = 0

-----------------------------------------------------------------------------
(* postEvent                                                               *)

PostEStop ==
    /\ hmiWait = 0
    /\ eStopPending' = TRUE
    /\ hmiWait' = HmiGap
    /\ UNCHANGED <<machine, eventQueue, faultPending, tel, relay, spi, phase>>

PostFault ==
    /\ faultPending' = TRUE
    /\ UNCHANGED <<machine, eventQueue, eStopPending, tel, relay, spi, phase,
                   hmiWait>>

\* Mutant: no room is checked for and the touch poll is not paced.
MutPostUnbounded(e) ==
    /\ eventQueue' = Append(eventQueue, e)
    /\ UNCHANGED <<machine, eStopPending, faultPending, tel, relay, spi, phase,
                   hmiWait>>

\* Mutant: the touch poll is not paced.
MutPostUnpaced(e) ==
    /\ eventQueue' = IF Len(eventQueue) < QueueLen THEN Append(eventQueue, e)
                                                    ELSE eventQueue
    /\ UNCHANGED <<machine, eStopPending, faultPending, tel, relay, spi, phase,
                   hmiWait>>

\* xQueueSend with no timeout: a full queue drops the event.
PostQueued(e) ==
    /\ hmiWait = 0
    /\ eventQueue' = IF Len(eventQueue) < QueueLen THEN Append(eventQueue, e)
                                                    ELSE eventQueue
    /\ hmiWait' = HmiGap
    /\ UNCHANGED <<machine, eStopPending, faultPending, tel, relay, spi, phase>>

-----------------------------------------------------------------------------
(* The world outside: the SPI bus and the expander's supply.               *)

SpiChange ==
    /\ spi' \in SpiStates \ {spi}
    /\ UNCHANGED <<machine, eventQueue, eStopPending, faultPending, tel, relay,
                   phase, hmiWait>>

BrownOut ==
    /\ relay' = BrownedOut(relay)
    /\ UNCHANGED <<machine, eventQueue, eStopPending, faultPending, tel, spi,
                   phase, hmiWait>>

-----------------------------------------------------------------------------
(* run()                                                                   *)

\* Mutant: the opened flag of an earlier visit survives.
MutTransitionKeepsOpened(next) ==
    /\ state' = next
    /\ stateTimer' = 0
    /\ UNCHANGED opened
    /\ sinceLog' = ReassertTicks
    /\ zeroTorque' = -1

\* transitionTo: on entry to a safe state its flag is cleared and its log
\* stamp set 1000 ms back, so that the first handler pass is due at once.
transitionTo(next) ==
    /\ state' = next
    /\ stateTimer' = 0
    /\ opened' = [s \in SafeStates |-> IF s = next THEN FALSE ELSE opened[s]]
    /\ sinceLog' = ReassertTicks
    /\ zeroTorque' = -1

\* Mutant: a fault reported in FAULT enters it again.
MutFaultReenters == faultPending

\* A set flag counts only when its state is not already the current one.
EStopDue == eStopPending /\ state # "EMERGENCY_STOP"
FaultDue == faultPending /\ state # "FAULT"

(***************************************************************************)
(* The top of run(), after the task copied the queued telemetry (none has  *)
(* been queued yet at boot): timers advance, each flag is exchanged for    *)
(* FALSE, a flag that is due transitions and ends this run().  The E-STOP  *)
(* that does so leaves the fault flag set.                                 *)
(***************************************************************************)
RunFlags ==
    /\ phase = "top"
    /\ tel' \in Telemetry \cup {tel}
    /\ relay' = Elapse(relay)
    /\ hmiWait' = IF hmiWait > 0 THEN hmiWait - 1 ELSE 0
    /\ eStopPending' = FALSE
    /\ \/ /\ EStopDue
          /\ transitionTo("EMERGENCY_STOP")
          /\ phase' = "top"
          /\ UNCHANGED faultPending
       \/ /\ ~EStopDue /\ FaultDue
          /\ transitionTo("FAULT")
          /\ phase' = "top"
          /\ faultPending' = FALSE
       \/ /\ ~EStopDue /\ ~FaultDue
          /\ stateTimer' = Saturate(stateTimer, TimerMax)
          /\ sinceLog' = Saturate(sinceLog, ReassertTicks)
          /\ zeroTorque' = IF zeroTorque = -1 THEN -1
                           ELSE Saturate(zeroTorque, OpenDelay)
          /\ UNCHANGED <<state, opened>>
          /\ phase' = "body"
          /\ faultPending' = FALSE
    /\ UNCHANGED <<eventQueue, spi>>

\* Mutant: the event is looked at and left in the queue.
MutPeeked == eventQueue

Poll == IF eventQueue = <<>> THEN "NONE" ELSE Head(eventQueue)
Polled == IF eventQueue = <<>> THEN <<>> ELSE Tail(eventQueue)

\* handleReady: allOn while stateTimer is at most one period.
handleReady(r, timer) == IF timer <= 1 THEN allOn(r, spi) ELSE {r}

\* Mutant: the guard is stateTimer < TASK_PERIOD_MS.
MutZeroTorqueStrict == IF stateTimer < 1 THEN 0 ELSE zeroTorque

\* requestZeroTorque is called while stateTimer is at most one period.
requestZeroTorque == IF stateTimer <= 1 THEN 0 ELSE zeroTorque

\* Mutant: the delay is compared with == instead of >=.
MutOpenOnlyAtDelay(r) ==
    IF stateTimer = OpenDelay /\ (~opened[state] \/ sinceLog >= ReassertTicks)
    THEN allOff(r, spi) ELSE {r}

\* handleEmergencyStop and handleFault: open once after the delay, then
\* re-assert whenever the one-second log is due.
handleSafe(r) ==
    IF stateTimer >= OpenDelay /\ (~opened[state] \/ sinceLog >= ReassertTicks)
    THEN allOff(r, spi) ELSE {r}

\* Mutant: the telemetry is not looked at in DRIVE.
MutFaultNotInDrive(r) ==
    \/ state \in LiveStates /\ hasActuatorFault(r)
    \/ state \in {"IDLE", "READY"} /\ hasCriticalCondition(tel, state)

\* The actuator fault or the telemetry forces FAULT before any event is read.
MustFault(r) ==
    \/ state \in LiveStates /\ hasActuatorFault(r)
    \/ state \notin SafeStates /\ hasCriticalCondition(tel, state)

ForceFault(r) ==
    /\ MustFault(r)
    /\ transitionTo("FAULT")
    /\ relay' = r
    /\ UNCHANGED eventQueue

\* RESET in a safe state ends the run() whether accepted or rejected.
HandleReset(r) ==
    /\ state \in SafeStates /\ Poll = "RESET"
    /\ eventQueue' = Polled
    /\ IF isResetInterlockSatisfied(tel, state)
       THEN transitionTo("IDLE") /\ relay' = clearActuatorFault(r)
       ELSE relay' = r /\ UNCHANGED machine

\* Every other event is dropped in a safe state, and the handler runs.
HandleSafe(r) ==
    /\ state \in SafeStates /\ Poll # "RESET"
    /\ eventQueue' = Polled
    /\ relay' \in handleSafe(r)
    /\ opened' = [opened EXCEPT ![state] = @ \/ stateTimer >= OpenDelay]
    /\ sinceLog' = IF sinceLog >= ReassertTicks THEN 0 ELSE sinceLog
    /\ zeroTorque' = requestZeroTorque
    /\ UNCHANGED <<state, stateTimer>>

HandleIdle(r) ==
    /\ state = "IDLE" /\ ~MustFault(r)
    /\ eventQueue' = Polled
    /\ IF /\ Poll = "START_REQUEST"
          /\ isReadyEntryPermitted(tel) /\ ~hasActuatorFault(r)
       THEN transitionTo("READY") /\ relay' \in handleReady(r, 0)
       ELSE relay' = r /\ UNCHANGED machine

\* handleDrive does nothing: no torque command is produced.
HandleLive(r) ==
    /\ state \in LiveStates /\ ~MustFault(r)
    /\ eventQueue' = Polled
    /\ IF state = "READY" /\ Poll = "DRIVE_ENABLE"
       THEN transitionTo("DRIVE") /\ relay' = r
       ELSE /\ UNCHANGED machine
            /\ relay' \in IF state = "READY" THEN handleReady(r, stateTimer) ELSE {r}

\* The rest of run(): periodic read-back, forced faults, one event, handler.
RunBody ==
    /\ phase = "body"
    /\ \E r \in verifyIfDue(relay, spi) :
          \/ ForceFault(r)
          \/ HandleReset(r)
          \/ HandleSafe(r)
          \/ HandleIdle(r)
          \/ HandleLive(r)
    /\ phase' = "top"
    /\ UNCHANGED <<eStopPending, faultPending, tel, spi, hmiWait>>

Next ==
    \/ PostEStop
    \/ PostFault
    \/ \E e \in QueuedEvents : PostQueued(e)
    \/ SpiChange
    \/ BrownOut
    \/ RunFlags
    \/ RunBody

\* Only RunBody ends a body of run(), and nothing it meets keeps it from ending:
\* a read-back has an outcome on either bus and every state has its handler.
BodyEnds == phase = "body" /\ phase' = "top"

\* The VCU task has the highest priority and core 1 for itself.
Fairness == WF_vars(RunFlags) /\ WF_phase(BodyEnds)

Spec == Init /\ [][Next]_vars /\ Fairness

-----------------------------------------------------------------------------
(* What the contactors are told, against the state machine.                *)

\* READY and DRIVE have every contactor commanded on (handleReady runs in the
\* run() that enters READY), and a safe state whose handler has opened them
\* (s_relaysOpenedInEstop, s_relaysOpenedInFault) has none commanded on.
CommandMatchesState ==
    /\ state \in LiveStates => relay.shadow = Channel
    /\ \A s \in SafeStates : state = s /\ opened[s] => relay.shadow = {}

\* The high-voltage bus is only kept live on clean telemetry: a run that
\* leaves the machine in DRIVE, or in READY for more than the entry tick,
\* used telemetry that is not critical there, and the entry tick of READY
\* used telemetry that isReadyEntryPermitted accepts.
LiveTelemetryClean ==
    phase = "top" /\ state \in LiveStates =>
        IF state = "READY" /\ stateTimer = 0 THEN isReadyEntryPermitted(tel)
        ELSE ~hasCriticalCondition(tel, state)

\* While READY or DRIVE reports no actuator fault, the bank is energized as
\* a whole or, after a supply dip the next read-back will find, not at all:
\* a half-closed bank never goes unnoticed, even right after a RESET that
\* cleared the fault of a chip that is still wrong.
LiveOutputsTrusted ==
    state \in LiveStates /\ ~hasActuatorFault(relay) =>
        Energized(relay) \in {Channel, {}}

-----------------------------------------------------------------------------
(* What the source's comments claim and the code does not keep.            *)

\* "All relays off - safe resting state" (handleIdle): IDLE has no contactor
\* commanded on.
IdleIsOpen == state = "IDLE" => relay.shadow = {}

\* "(1) request zero torque at t=0 -> (2) wait -> (3) open the contactors"
\* (handleEmergencyStop): a safe state that has opened the contactors has
\* asked for zero torque first.
ZeroTorqueFirst ==
    \A s \in SafeStates : state = s /\ opened[s] => zeroTorque # -1

-----------------------------------------------------------------------------
(* What must eventually happen.                                            *)

\* Once the SPI bus works for good, a safe state that is not left has its
\* contactors physically open: a lost or corrupted allOff is repeated by the
\* re-assert of the handler and by verifyIfDue, whatever events keep coming.
ShutdownReachesContactors ==
    <>[](spi = "ok") =>
        [](state \in SafeStates =>
              <>(Energized(relay) = {} \/ state \notin SafeStates))

\* Once the bus works for good and the chip's supply is steady, the chip ends
\* up agreeing with the shadow word in whatever state the machine is.
RepairConverges ==
    <>[](spi = "ok") /\ <>[][~BrownOut]_vars => <>[]ChipMatches(relay)
=============================================================================
