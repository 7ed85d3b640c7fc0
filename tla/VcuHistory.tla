----------------------------- MODULE VcuHistory -----------------------------
(***************************************************************************)
(* VcuLogic with observers.  They follow every step and constrain none:    *)
(* erasing them gives back a behaviour of VcuLogic.                        *)
(***************************************************************************)
EXTENDS VcuLogic

VARIABLES
    closedRuns,   \* completed runs of a safe state with contactors commanded on
    blindRuns,    \* completed runs in READY or DRIVE over a disagreeing chip
    brokenRuns,   \* completed runs over a disagreeing chip and a working bus
    older,        \* queued events that were posted before the last E-STOP press
    rejected      \* a RESET was rejected during this visit of a safe state

observers == <<closedRuns, blindRuns, brokenRuns, older, rejected>>
hvars == <<vars, observers>>

\* The counters saturate one above the bounds they are compared with.
ClosedBound == 4
BlindBound  == VerifyTicks
RepairBound == VerifyTicks + 2

RunEnds == phase' = "top" /\ (phase = "body" \/ state' # state)

HInit ==
    /\ Init
    /\ closedRuns = 0 /\ blindRuns = 0 /\ brokenRuns = 0
    /\ older = 0 /\ rejected = FALSE

Observe ==
    /\ closedRuns' =
         IF state' \notin SafeStates \/ relay'.shadow = {} THEN 0
         ELSE IF RunEnds THEN Saturate(closedRuns, ClosedBound + 1) ELSE closedRuns
    /\ blindRuns' =
         IF state' \notin LiveStates \/ ChipMatches(relay') THEN 0
         ELSE IF RunEnds THEN Saturate(blindRuns, BlindBound + 1) ELSE blindRuns
    /\ brokenRuns' =
         IF spi' = "bad" \/ ChipMatches(relay') \/ ~relay.started THEN 0
         ELSE IF RunEnds THEN Saturate(brokenRuns, RepairBound + 1) ELSE brokenRuns
    /\ older' =
         IF eStopPending' /\ ~eStopPending THEN Len(eventQueue)
         ELSE IF Len(eventQueue') < Len(eventQueue) /\ older > 0 THEN older - 1
         ELSE older
    /\ rejected' =
         /\ state' = state
         /\ rejected \/ (/\ phase = "body" /\ state \in SafeStates
                         /\ phase' = "top" /\ Poll = "RESET")

HNext ==
    \/ PostEStop /\ Observe
    \/ PostFault /\ Observe
    \/ (\E e \in QueuedEvents : PostQueued(e)) /\ Observe
    \/ SpiChange /\ Observe
    \/ BrownOut /\ Observe
    \/ RunFlags /\ Observe
    \/ RunBody /\ Observe

HSpec == HInit /\ [][HNext]_hvars /\ Fairness

-----------------------------------------------------------------------------
\* verifyIfDue notices a chip that disagrees with the shadow word within one
\* verify period of completed runs, whatever transitions come in between.
DisagreementNoticed == blindRuns <= BlindBound

\* While the bus works, a chip that disagrees with the shadow word is written
\* again within one verify period and two runs, in every state and however it
\* came to disagree: transitions on the E-STOP and fault flags end run() before
\* verifyIfDue, but no more than three of them follow each other.
RepairBounded == brokenRuns <= RepairBound

\* A safe state opens the contactors within ClosedBound runs although every
\* transition, and every rejected RESET, ends run() before the handler: the
\* E-STOP and fault flags cannot keep postponing it.
ShutdownBounded == closedRuns <= ClosedBound

\* Once a safe state has opened the contactors it has asked for zero torque,
\* unless a RESET was rejected on the way: requestZeroTorque is tied to the
\* first period, and a rejected RESET uses that period up.
ZeroTorqueUnlessRejected ==
    \A s \in SafeStates :
        state = s /\ opened[s] /\ ~rejected => zeroTorque # -1

\* RESET never overtakes an E-STOP: the RESET that leaves EMERGENCY_STOP was
\* pressed after the last E-STOP, although E-STOP bypasses the queue in which
\* an earlier RESET may still wait.
NoStaleReset ==
    [][state = "EMERGENCY_STOP" /\ state' = "IDLE" => older = 0]_hvars

\* A touch command is never dropped for want of room in s_eventQueue: runs
\* that return before polling never let the queue fill up.
NoDroppedCommand == Len(eventQueue) < QueueLen
=============================================================================
