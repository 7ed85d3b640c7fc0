-------------------------- MODULE VcuHistoryProofs --------------------------
(***************************************************************************)
(* What several runs of VcuLogic do together, for every wiring, telemetry  *)
(* and value of the periods: the read-back bound and the order of a        *)
(* shutdown need nothing more; the bounds on the queue, on a repair and on *)
(* a shutdown rest on the pace of the touch poll, which is their only      *)
(* hypothesis besides the delay of one period the code compiles in.        *)
(***************************************************************************)
EXTENDS VcuHistory, VcuLogicProofs

\* The observers stay in their ranges.
ObserverTypeOK ==
    /\ closedRuns \in 0..(ClosedBound + 1)
    /\ blindRuns \in 0..(BlindBound + 1)
    /\ brokenRuns \in 0..(RepairBound + 1)
    /\ older \in Nat
    /\ rejected \in BOOLEAN

\* A disagreeing chip in READY or DRIVE has been passed over at most once per
\* period counted since the last read-back, so the next one is not late.
BlindInv ==
    /\ state \notin LiveStates \/ ChipMatches(relay) => blindRuns = 0
    /\ state \in LiveStates =>
          /\ relay.started
          /\ IF phase = "top"
             THEN relay.age < VerifyTicks /\ blindRuns <= relay.age + 1
             ELSE blindRuns <= relay.age

\* A safe state in which no RESET was rejected has not asked for zero torque
\* only while its first period is under way and its contactors untouched.
TorqueInv ==
    state \in SafeStates /\ ~rejected /\ zeroTorque = -1 =>
        /\ ~opened[state]
        /\ \/ phase = "top" /\ stateTimer = 0
           \/ phase = "body" /\ stateTimer = 1

HistoryInv == IInv /\ ObserverTypeOK /\ BlindInv /\ TorqueInv

-----------------------------------------------------------------------------
\* What pollEvent does to the length of the queue.
LEMMA PollFacts ==
    ASSUME TypeOK
    PROVE  /\ Len(eventQueue) \in Nat /\ Len(Polled) \in Nat
           /\ Len(Polled) = IF Len(eventQueue) = 0 THEN 0 ELSE Len(eventQueue) - 1
           /\ Poll = "RESET" => Len(eventQueue) > 0
  BY DEF TypeOK, Poll, Polled

\* The steps that are not the VCU task's move nothing the observers of a run
\* look at, the chip of a supply dip apart.
Outside ==
    \/ PostEStop
    \/ PostFault
    \/ \E e \in QueuedEvents : PostQueued(e)
    \/ SpiChange
    \/ BrownOut

LEMMA OutsideFacts ==
    ASSUME IInv, Outside
    PROVE  /\ UNCHANGED <<state, stateTimer, opened, zeroTorque, phase>>
           /\ relay'.shadow = relay.shadow /\ relay'.started = relay.started
           /\ relay'.age = relay.age
           /\ ~RunEnds
  <1>1. UNCHANGED <<state, stateTimer, opened, zeroTorque, phase>>
    BY DEF Outside, PostEStop, PostFault, PostQueued, SpiChange, BrownOut, machine
  <1>2. /\ relay'.shadow = relay.shadow /\ relay'.started = relay.started
        /\ relay'.age = relay.age
    <2>1. CASE BrownOut
      BY <2>1 DEF BrownOut, BrownedOut, IInv, TypeOK, RelayState
    <2>2. CASE ~BrownOut
      BY <2>2 DEF Outside, PostEStop, PostFault, PostQueued, SpiChange
    <2> QED
      BY <2>1, <2>2
  <1>3. ~RunEnds
    <2>1. phase' = phase /\ state' = state
      BY <1>1
    <2> QED
      BY <2>1 DEF RunEnds
  <1> QED
    BY <1>1, <1>2, <1>3

\* The top of run() enters a safe state or goes on to the body.
LEMMA RunFlagsFacts ==
    ASSUME IInv, RunFlags
    PROVE  /\ phase = "top" /\ eventQueue' = eventQueue /\ eStopPending' = FALSE
           /\ hmiWait' = IF hmiWait > 0 THEN hmiWait - 1 ELSE 0
           /\ relay'.shadow = relay.shadow /\ relay'.olat = relay.olat
           /\ relay'.out = relay.out /\ relay'.started = relay.started
           /\ relay'.age = IF relay.age < VerifyTicks THEN relay.age + 1 ELSE relay.age
           /\ \/ /\ phase' = "top" /\ state' # state /\ state' \in SafeStates
                 /\ stateTimer' = 0 /\ ~opened'[state'] /\ zeroTorque' = -1
                 /\ state' = "EMERGENCY_STOP" => eStopPending
                 /\ state' = "FAULT" /\ state # "EMERGENCY_STOP" => ~eStopPending
              \/ /\ phase' = "body" /\ UNCHANGED <<state, opened>>
                 /\ stateTimer' = Saturate(stateTimer, TimerMax)
                 /\ zeroTorque' = IF zeroTorque = -1 THEN -1
                                  ELSE Saturate(zeroTorque, OpenDelay)
                 /\ state = "EMERGENCY_STOP" \/ ~eStopPending
  <1>1. /\ phase = "top" /\ eventQueue' = eventQueue /\ eStopPending' = FALSE
        /\ hmiWait' = IF hmiWait > 0 THEN hmiWait - 1 ELSE 0
    BY DEF RunFlags
  <1>2. /\ relay'.shadow = relay.shadow /\ relay'.olat = relay.olat
        /\ relay'.out = relay.out /\ relay'.started = relay.started
        /\ relay'.age = IF relay.age < VerifyTicks THEN relay.age + 1 ELSE relay.age
    BY ElapseFacts DEF IInv, TypeOK, RunFlags
  <1>3. CASE EStopDue
    <2>1. transitionTo("EMERGENCY_STOP") /\ phase' = "top"
      BY <1>3 DEF RunFlags
    <2>2. state' = "EMERGENCY_STOP" /\ stateTimer' = 0 /\ ~opened'["EMERGENCY_STOP"]
      BY <2>1, TransitionFacts DEF IInv, VcuStates, SafeStates
    <2>3. zeroTorque' = -1
      BY <2>1 DEF transitionTo
    <2> QED
      BY <1>1, <1>2, <1>3, <2>1, <2>2, <2>3 DEF EStopDue, SafeStates
  <1>4. CASE ~EStopDue /\ FaultDue
    <2>1. transitionTo("FAULT") /\ phase' = "top"
      BY <1>4 DEF RunFlags
    <2>2. state' = "FAULT" /\ stateTimer' = 0 /\ ~opened'["FAULT"]
      BY <2>1, TransitionFacts DEF IInv, VcuStates, SafeStates
    <2>3. zeroTorque' = -1
      BY <2>1 DEF transitionTo
    <2> QED
      BY <1>1, <1>2, <1>4, <2>1, <2>2, <2>3 DEF EStopDue, FaultDue, SafeStates
  <1>5. CASE ~EStopDue /\ ~FaultDue
    BY <1>1, <1>2, <1>5 DEF RunFlags, EStopDue
  <1> QED
    BY <1>3, <1>4, <1>5

\* How a body of run() may end.
Moves    == state' \notin SafeStates /\ eventQueue' = Polled
Forced   == /\ state \notin SafeStates /\ state' = "FAULT"
            /\ eventQueue' = eventQueue
            /\ stateTimer' = 0 /\ ~opened'[state'] /\ zeroTorque' = -1
Rejects  == /\ state \in SafeStates /\ state' = state /\ Poll = "RESET"
            /\ eventQueue' = Polled /\ relay'.shadow = relay.shadow
Settles  == /\ state \in SafeStates /\ state' = state /\ Poll # "RESET"
            /\ eventQueue' = Polled
            /\ zeroTorque' = requestZeroTorque
            /\ stateTimer >= OpenDelay => relay'.shadow = {}

\* Every body ends in one of these ways, and one that ends in READY or DRIVE
\* leaves a read-back period that has not elapsed: the read-back that was due
\* found the chip in agreement.
LEMMA RunBodyFacts ==
    ASSUME IInv, RunBody
    PROVE  /\ phase = "body" /\ phase' = "top" /\ UNCHANGED <<eStopPending, hmiWait>>
           /\ Moves \/ Forced \/ Rejects \/ Settles
           /\ state' \in LiveStates =>
                 /\ relay'.started /\ relay'.age < VerifyTicks
                 /\ state \in LiveStates /\ relay.started =>
                       relay'.age = relay.age \/ ChipMatches(relay)
  <1> USE DEF VcuStates, LiveStates, SafeStates
  <1>1. PICK r \in verifyIfDue(relay, spi) :
           ForceFault(r) \/ HandleReset(r) \/ HandleSafe(r) \/ HandleIdle(r)
           \/ HandleLive(r)
    BY DEF RunBody
  <1>2. phase = "body" /\ phase' = "top" /\ UNCHANGED <<eStopPending, hmiWait>>
    BY DEF RunBody
  <1>3. TypeOK /\ relay \in RelayState
    BY DEF IInv, TypeOK
  <1>4. /\ r \in RelayState /\ r.shadow = relay.shadow
        /\ r.started /\ r.age < VerifyTicks
        /\ ~hasActuatorFault(r) /\ relay.started => r.age = relay.age \/ ChipMatches(relay)
    BY <1>3, VerifyIfDueFacts
  <1>5. CASE ForceFault(r)
    <2>1. transitionTo("FAULT") /\ eventQueue' = eventQueue /\ state \notin SafeStates
      BY <1>5 DEF ForceFault, MustFault
    <2>2. state' = "FAULT" /\ stateTimer' = 0 /\ ~opened'["FAULT"]
      BY <1>3, <2>1, TransitionFacts
    <2>3. zeroTorque' = -1
      BY <2>1 DEF transitionTo
    <2> QED
      BY <1>2, <2>1, <2>2, <2>3 DEF Forced
  <1>6. CASE HandleReset(r)
    BY <1>2, <1>4, <1>6 DEF HandleReset, Moves, Rejects, transitionTo, machine
  <1>7. CASE HandleSafe(r)
    <2>1. /\ state \in SafeStates /\ state' = state /\ Poll # "RESET"
          /\ eventQueue' = Polled /\ zeroTorque' = requestZeroTorque
          /\ relay' \in handleSafe(r)
      BY <1>7 DEF HandleSafe
    <2>2. ASSUME stateTimer >= OpenDelay PROVE relay'.shadow = {}
      <3>1. CASE ~opened[state] \/ sinceLog >= ReassertTicks
        <4>1. relay' \in command(r, {}, spi)
          BY <2>1, <2>2, <3>1 DEF handleSafe, allOff
        <4> QED
          BY <1>4, <4>1, CommandFacts
      <3>2. CASE ~(~opened[state] \/ sinceLog >= ReassertTicks)
        <4>1. relay' = r
          BY <2>1, <3>2 DEF handleSafe
        <4>2. relay.shadow = {}
          BY <2>1, <3>2, Zenon DEF IInv, CommandMatchesState
        <4> QED
          BY <1>4, <4>1, <4>2
      <3> QED
        BY <3>1, <3>2
    <2> QED
      BY <1>2, <2>1, <2>2 DEF Settles
  <1>8. CASE HandleIdle(r)
    <2>1. state = "IDLE" /\ eventQueue' = Polled
      BY <1>8 DEF HandleIdle
    <2>2. state' \in {"IDLE", "READY"}
      BY <1>8, <2>1 DEF HandleIdle, transitionTo, machine
    <2>3. ASSUME state' = "READY" PROVE relay'.started /\ relay'.age < VerifyTicks
      <3>1. relay' \in command(r, Channel, spi)
        BY <1>8, <2>1, <2>3 DEF HandleIdle, handleReady, allOn, machine
      <3> QED
        BY <1>4, <3>1, CommandFacts
    <2> QED
      BY <1>2, <2>1, <2>2, <2>3 DEF Moves
  <1>9. CASE HandleLive(r)
    <2>1. state \in LiveStates /\ eventQueue' = Polled /\ ~hasActuatorFault(r)
      BY <1>9 DEF HandleLive, MustFault
    <2>2. state' \in LiveStates
      BY <1>9, <2>1 DEF HandleLive, transitionTo, machine
    <2>3. relay' = r \/ relay' \in command(r, Channel, spi)
      BY <1>9 DEF HandleLive, handleReady, allOn
    <2>4. relay'.started /\ relay'.age = r.age
      <3>1. CASE relay' = r
        BY <1>4, <3>1
      <3>2. CASE relay' \in command(r, Channel, spi)
        BY <1>4, <3>2, CommandFacts
      <3> QED
        BY <2>3, <3>1, <3>2
    <2>5. Moves
      BY <2>1, <2>2 DEF Moves
    <2> QED
      BY <1>2, <1>4, <2>1, <2>4, <2>5
  <1> QED
    BY <1>1, <1>5, <1>6, <1>7, <1>8, <1>9

-----------------------------------------------------------------------------
(* The read-back and the zero-torque request: no hypothesis.               *)

\* The observers add no step of their own.
LEMMA HNextFacts ==
    ASSUME HNext
    PROVE  Next /\ Observe /\ (Outside \/ RunFlags \/ RunBody)
  BY DEF HNext, Next, Outside

LEMMA ObserverTypes ==
    ASSUME IInv, ObserverTypeOK, Observe
    PROVE  ObserverTypeOK'
  <1>1. closedRuns' \in 0..(ClosedBound + 1)
    BY DEF ObserverTypeOK, Observe, Saturate, ClosedBound
  <1>2. blindRuns' \in 0..(BlindBound + 1)
    BY RelayAssumption DEF ObserverTypeOK, Observe, Saturate, BlindBound
  <1>3. brokenRuns' \in 0..(RepairBound + 1)
    BY RelayAssumption DEF ObserverTypeOK, Observe, Saturate, RepairBound
  <1>4. older' \in Nat
    <2>1. Len(eventQueue) \in Nat
      BY DEF IInv, TypeOK
    <2> QED
      BY <2>1 DEF ObserverTypeOK, Observe
  <1>5. rejected' \in BOOLEAN
    BY Zenon DEF Observe
  <1> QED
    BY <1>1, <1>2, <1>3, <1>4, <1>5 DEF ObserverTypeOK, ClosedBound, BlindBound, RepairBound

LEMMA BlindStep ==
    ASSUME IInv, ObserverTypeOK, BlindInv, Observe,
           Outside \/ RunFlags \/ RunBody, IInv'
    PROVE  BlindInv'
  <1> USE RelayAssumption DEF BlindInv
  <1>1. /\ blindRuns \in Nat /\ relay.age \in Nat /\ relay.age <= VerifyTicks
        /\ relay'.age \in Nat /\ relay'.age <= VerifyTicks
        /\ VerifyTicks \in Nat \ {0}
    BY DEF ObserverTypeOK, IInv, TypeOK, RelayState, BlindBound
  <1>2. state' \notin LiveStates \/ ChipMatches(relay') => blindRuns' = 0
    BY DEF Observe
  <1>3. blindRuns' = 0 \/ blindRuns' = (IF RunEnds THEN Saturate(blindRuns, BlindBound + 1)
                                       ELSE blindRuns)
    BY DEF Observe
  <1> SUFFICES ASSUME state' \in LiveStates
               PROVE  /\ relay'.started
                      /\ IF phase' = "top"
                         THEN relay'.age < VerifyTicks /\ blindRuns' <= relay'.age + 1
                         ELSE blindRuns' <= relay'.age
    BY <1>2
  <1>4. CASE Outside
    <2>1. /\ state \in LiveStates /\ phase' = phase /\ relay'.age = relay.age
          /\ blindRuns' = 0 \/ blindRuns' = blindRuns
      BY <1>3, <1>4, OutsideFacts
    <2>2. relay'.started
      BY <1>4, <2>1, OutsideFacts, Zenon DEF BlindInv
    <2> QED
      BY <1>1, <2>1, <2>2
  <1>5. CASE RunFlags
    <2>1. /\ state \in LiveStates /\ phase = "top" /\ phase' = "body" /\ state' = state
          /\ relay'.age = IF relay.age < VerifyTicks THEN relay.age + 1 ELSE relay.age
      BY <1>5, RunFlagsFacts DEF LiveStates, SafeStates
    <2>2. ~RunEnds
      BY <2>1 DEF RunEnds
    <2>3. relay'.started
      BY <1>5, <2>1, RunFlagsFacts, Zenon DEF BlindInv
    <2> QED
      BY <1>1, <1>3, <2>1, <2>2, <2>3
  <1>6. CASE RunBody
    <2>1. /\ phase = "body" /\ phase' = "top"
          /\ relay'.started /\ relay'.age < VerifyTicks
          /\ state \in LiveStates /\ relay.started =>
                relay'.age = relay.age \/ ChipMatches(relay)
      BY <1>6, RunBodyFacts
    <2>2. blindRuns' = 0 \/ blindRuns' <= blindRuns + 1
      BY <1>1, <1>3 DEF Saturate, BlindBound
    <2>3. blindRuns = 0 \/ blindRuns <= relay'.age
      BY <1>1, <2>1
    <2>4. blindRuns' \in Nat
      BY <1>1, <1>3 DEF Saturate, BlindBound
    <2> QED
      BY <1>1, <2>1, <2>2, <2>3, <2>4
  <1> QED
    BY <1>4, <1>5, <1>6

LEMMA TorqueStep ==
    ASSUME IInv, ObserverTypeOK, TorqueInv, Observe,
           Outside \/ RunFlags \/ RunBody
    PROVE  TorqueInv'
  <1> SUFFICES ASSUME state' \in SafeStates, ~rejected', zeroTorque' = -1
               PROVE  /\ ~opened'[state']
                      /\ \/ phase' = "top" /\ stateTimer' = 0
                         \/ phase' = "body" /\ stateTimer' = 1
    BY DEF TorqueInv
  <1>1. ASSUME state' = state PROVE ~rejected
    BY <1>1, Zenon DEF Observe
  <1>2. stateTimer \in Nat /\ OpenDelay \in Nat \ {0} /\ zeroTorque \in -1..OpenDelay
    BY VcuAssumption DEF IInv, TypeOK, TimerMax
  <1>3. CASE Outside
    <2>1. UNCHANGED <<state, stateTimer, opened, zeroTorque, phase>>
      BY <1>3, OutsideFacts
    <2> QED
      BY <1>1, <2>1 DEF TorqueInv
  <1>4. CASE RunFlags
    <2>1. CASE phase' = "top"
      BY <1>4, <2>1, RunFlagsFacts
    <2>2. CASE phase' # "top"
      <3>1. /\ phase = "top" /\ phase' = "body" /\ UNCHANGED <<state, opened>>
            /\ stateTimer' = Saturate(stateTimer, TimerMax)
            /\ zeroTorque' = IF zeroTorque = -1 THEN -1
                             ELSE Saturate(zeroTorque, OpenDelay)
        BY <1>4, <2>2, RunFlagsFacts
      <3>2. zeroTorque = -1
        BY <1>2, <3>1 DEF Saturate
      <3>3. ~opened[state] /\ stateTimer = 0
        BY <1>1, <3>1, <3>2 DEF TorqueInv
      <3> QED
        BY <1>2, <3>1, <3>3 DEF Saturate, TimerMax
    <2> QED
      BY <2>1, <2>2
  <1>5. CASE RunBody
    <2>1. phase = "body" /\ phase' = "top" /\ (Moves \/ Forced \/ Rejects \/ Settles)
      BY <1>5, RunBodyFacts
    <2>2. CASE Moves
      BY <2>2 DEF Moves
    <2>3. CASE Forced
      BY <2>1, <2>3 DEF Forced
    <2>4. CASE Rejects
      BY <2>1, <2>4, Zenon DEF Rejects, Observe
    <2>5. CASE Settles
      <3>1. zeroTorque = -1 /\ ~(stateTimer <= 1) /\ state' = state
        BY <2>5 DEF Settles, requestZeroTorque
      <3>2. stateTimer = 1
        BY <1>1, <2>1, <3>1 DEF TorqueInv
      <3> QED
        BY <3>1, <3>2
    <2> QED
      BY <2>1, <2>2, <2>3, <2>4, <2>5
  <1> QED
    BY <1>3, <1>4, <1>5

\* The observers start at rest.
LEMMA HistoryInit == HInit => HistoryInv
  <1> SUFFICES ASSUME HInit PROVE HistoryInv
    OBVIOUS
  <1>1. IInv /\ state = "IDLE"
    BY InitIInv DEF HInit, Init
  <1>2. ObserverTypeOK
    <2>1. closedRuns = 0 /\ blindRuns = 0 /\ brokenRuns = 0 /\ older = 0
      BY DEF HInit
    <2>2. rejected \in BOOLEAN
      BY Zenon DEF HInit
    <2> QED
      BY <2>1, <2>2, RelayAssumption
         DEF ObserverTypeOK, ClosedBound, BlindBound, RepairBound
  <1>3. BlindInv
    BY <1>1 DEF HInit, BlindInv, LiveStates
  <1>4. TorqueInv
    BY <1>1 DEF TorqueInv, SafeStates
  <1> QED
    BY <1>1, <1>2, <1>3, <1>4 DEF HistoryInv

LEMMA HistoryStep ==
    ASSUME HistoryInv, [HNext]_hvars
    PROVE  HistoryInv'
  <1>1. CASE HNext
    <2>1. Next /\ Observe /\ (Outside \/ RunFlags \/ RunBody)
      BY <1>1, HNextFacts
    <2>2. IInv'
      BY <2>1, NextIInv DEF HistoryInv
    <2>3. ObserverTypeOK'
      BY <2>1, ObserverTypes DEF HistoryInv
    <2>4. BlindInv'
      BY <2>1, <2>2, BlindStep DEF HistoryInv
    <2>5. TorqueInv'
      BY <2>1, TorqueStep DEF HistoryInv
    <2> QED
      BY <2>2, <2>3, <2>4, <2>5 DEF HistoryInv
  <1>2. CASE UNCHANGED hvars
    <2>1. UNCHANGED vars /\ UNCHANGED observers
      BY <1>2 DEF hvars
    <2>2. IInv'
      BY <2>1, NextIInv DEF HistoryInv
    <2> QED
      BY <2>1, <2>2 DEF vars, observers, HistoryInv, ObserverTypeOK, BlindInv, TorqueInv
  <1> QED
    BY <1>1, <1>2

\* The joint invariant of the machine and its observers.
THEOREM HistoryInductive == HSpec => []HistoryInv
  BY HistoryInit, HistoryStep, PTL DEF HSpec

\* A chip that disagrees with what READY or DRIVE commanded is found within
\* one verify period of runs, for every period and every wiring: transitions
\* and commands in between do not restart the period.
THEOREM DisagreementIsNoticed == HSpec => []DisagreementNoticed
  <1>1. ASSUME HistoryInv PROVE DisagreementNoticed
    <2>1. /\ blindRuns \in Nat /\ relay.age \in Nat /\ relay.age <= VerifyTicks
          /\ VerifyTicks \in Nat
      BY <1>1, RelayAssumption DEF HistoryInv, ObserverTypeOK, IInv, TypeOK, RelayState,
         BlindBound
    <2> QED
      BY <1>1, <2>1 DEF HistoryInv, BlindInv, DisagreementNoticed, BlindBound
  <1> QED
    BY <1>1, HistoryInductive, PTL

\* A safe state that opened its contactors asked for zero torque first unless
\* a RESET was rejected in that visit, for every opening delay.
THEOREM ZeroTorqueComesFirst == HSpec => []ZeroTorqueUnlessRejected
  <1>1. HistoryInv => ZeroTorqueUnlessRejected
    BY Zenon DEF HistoryInv, TorqueInv, ZeroTorqueUnlessRejected
  <1> QED
    BY <1>1, HistoryInductive, PTL

-----------------------------------------------------------------------------
(* The queue and the shutdown: the pace of the touch poll.                 *)

\* The touch poll is paced (the HMI task sleeps 100 ms between two polls, at
\* least three VCU task periods of 20 ms) and the queue (8) holds two events.
Paced == HmiGap >= 3 /\ QueueLen >= 2

\* Events in the queue.
Pending == Len(eventQueue)

\* VCU task periods since the last touch command, up to HmiGap.
SinceTouch == HmiGap - hmiWait

\* At most one touch command is on its way.  An event outlives the run that
\* follows it only when that run enters FAULT, and is polled by the next one.
PaceInv ==
    /\ older = 0
    /\ eStopPending => SinceTouch = 0
    /\ Pending <= 1
    /\ Pending = 1 =>
          /\ ~eStopPending
          /\ SinceTouch <= 2
          /\ SinceTouch = 1 => phase = "body" \/ state = "FAULT"
          /\ SinceTouch = 2 => phase = "body" /\ state = "FAULT"

LEMMA PaceTypes ==
    ASSUME Paced, IInv, IInv'
    PROVE  /\ HmiGap \in Nat /\ HmiGap >= 3
           /\ hmiWait \in 0..HmiGap /\ hmiWait' \in 0..HmiGap
           /\ Pending \in Nat /\ Pending' \in Nat
           /\ eStopPending \in BOOLEAN /\ eStopPending' \in BOOLEAN
  <1>1. /\ HmiGap \in Nat /\ HmiGap >= 3
        /\ hmiWait \in 0..HmiGap /\ hmiWait' \in 0..HmiGap
        /\ Pending \in Nat /\ Pending' \in Nat
    BY VcuAssumption DEF Paced, IInv, TypeOK, Pending
  <1>2. eStopPending \in BOOLEAN /\ eStopPending' \in BOOLEAN
    BY Zenon DEF IInv, TypeOK
  <1> QED
    BY <1>1, <1>2

LEMMA OlderStep ==
    ASSUME Paced, IInv, PaceInv, Observe, Outside \/ RunFlags \/ RunBody
    PROVE  older' = 0
  <1>1. ASSUME eStopPending', ~eStopPending PROVE Pending = 0
    <2>1. PostEStop
      <3>1. ~RunFlags /\ ~RunBody
        BY <1>1, RunFlagsFacts, RunBodyFacts, Zenon
      <3> QED
        BY <1>1, <3>1, Zenon DEF Outside, PostFault, PostQueued, SpiChange, BrownOut
    <2>2. /\ hmiWait = 0 /\ HmiGap >= 3 /\ HmiGap \in Nat
          /\ Pending \in Nat
      BY <2>1, VcuAssumption DEF PostEStop, Paced, IInv, TypeOK, Pending
    <2> QED
      BY <2>2 DEF PaceInv, SinceTouch
  <1>2. older = 0 /\ ~(older > 0)
    BY DEF PaceInv
  <1> QED
    BY <1>1, <1>2 DEF Observe, Pending

LEMMA PaceStep ==
    ASSUME Paced, IInv, IInv', PaceInv, Observe, Outside \/ RunFlags \/ RunBody
    PROVE  PaceInv'
  <1>1. /\ HmiGap \in Nat /\ HmiGap >= 3
        /\ hmiWait \in 0..HmiGap /\ hmiWait' \in 0..HmiGap
        /\ Pending \in Nat /\ Pending' \in Nat
        /\ eStopPending \in BOOLEAN /\ eStopPending' \in BOOLEAN
    BY PaceTypes
  <1>2. older' = 0
    BY OlderStep
  <1> SUFFICES /\ eStopPending' => SinceTouch' = 0
               /\ Pending' <= 1
               /\ Pending' = 1 =>
                    /\ ~eStopPending'
                    /\ SinceTouch' <= 2
                    /\ SinceTouch' = 1 => phase' = "body" \/ state' = "FAULT"
                    /\ SinceTouch' = 2 => phase' = "body" /\ state' = "FAULT"
    BY <1>2, Zenon DEF PaceInv
  <1>3. CASE PostEStop
    <2>1. hmiWait = 0 /\ hmiWait' = HmiGap /\ Pending' = Pending
      BY <1>3 DEF PostEStop, Pending
    <2>2. Pending' = 0
      BY <1>1, <2>1 DEF PaceInv, SinceTouch
    <2> QED
      BY <1>1, <2>1, <2>2 DEF SinceTouch
  <1>4. CASE \E e \in QueuedEvents : PostQueued(e)
    <2>1. PICK e \in QueuedEvents : PostQueued(e)
      BY <1>4
    <2>2. hmiWait = 0 /\ hmiWait' = HmiGap /\ UNCHANGED <<eStopPending, state, phase>>
      BY <2>1 DEF PostQueued, machine
    <2>3. ~eStopPending
      BY <1>1, <2>2 DEF PaceInv, SinceTouch
    <2>5. Pending = 0
      BY <1>1, <2>2 DEF PaceInv, SinceTouch
    <2>4. Pending' <= 1
      BY <1>1, <2>1, <2>5 DEF PostQueued, IInv, TypeOK, Pending
    <2> QED
      BY <1>1, <2>2, <2>3, <2>4 DEF SinceTouch
  <1>5. CASE PostFault \/ SpiChange \/ BrownOut
    <2>1. UNCHANGED <<eStopPending, hmiWait, state, phase>> /\ Pending' = Pending
      BY <1>5 DEF Pending, PostFault, SpiChange, BrownOut, machine
    <2> QED
      BY <1>1, <2>1 DEF PaceInv, SinceTouch
  <1>6. CASE RunFlags
    <2>1. /\ phase = "top" /\ Pending' = Pending /\ ~eStopPending'
          /\ hmiWait' = IF hmiWait > 0 THEN hmiWait - 1 ELSE 0
          /\ \/ phase' = "top" /\ state' # state /\ state' \in {"EMERGENCY_STOP", "FAULT"}
             \/ phase' = "body" /\ state' = state
          /\ phase' = "top" /\ state' = "EMERGENCY_STOP" => eStopPending
      BY <1>6, RunFlagsFacts DEF SafeStates, Pending
    <2> QED
      BY <1>1, <2>1 DEF PaceInv, SinceTouch
  <1>7. CASE RunBody
    <2>1. /\ phase = "body" /\ UNCHANGED <<eStopPending, hmiWait>>
          /\ Moves \/ Forced \/ Rejects \/ Settles
      BY <1>7, RunBodyFacts
    <2>2. CASE Moves \/ Rejects \/ Settles
      <3>1. Pending' = 0
        BY <1>1, <2>2, PollFacts DEF Moves, Rejects, Settles, IInv, PaceInv, Pending
      <3> QED
        BY <1>1, <2>1, <3>1 DEF PaceInv, SinceTouch
    <2>3. CASE Forced
      BY <1>1, <2>1, <2>3 DEF PaceInv, SinceTouch, Forced, SafeStates, Pending
    <2> QED
      BY <2>1, <2>2, <2>3
  <1> QED
    BY <1>3, <1>4, <1>5, <1>6, <1>7 DEF Outside

-----------------------------------------------------------------------------
(* How long a shutdown can be postponed.                                   *)

\* A safe state has not opened the contactors yet.
Closed == state \in SafeStates /\ relay.shadow # {}

\* How often the opening has been postponed, by how long ago the last touch
\* command was: an E-STOP moves FAULT to EMERGENCY_STOP, the fault flag moves
\* it back, and a RESET that arrives then is rejected; each of the three ends
\* one run() and the pace of the touch poll forbids a fourth.
PostponedInv ==
    /\ ~Closed => closedRuns = 0
    /\ Closed /\ state = "EMERGENCY_STOP" =>
          /\ closedRuns <= 2
          /\ ~eStopPending /\ Pending = 0
          /\ SinceTouch = IF phase = "top" THEN 1 ELSE 2
    /\ Closed /\ state = "FAULT" /\ phase = "top" =>
          /\ closedRuns <= 4
          /\ eStopPending \/ Pending = 1 \/ SinceTouch > 2 => closedRuns <= 1
          /\ SinceTouch = 1 => closedRuns <= 2
          /\ SinceTouch = 2 => closedRuns <= 3
    /\ Closed /\ state = "FAULT" /\ phase = "body" =>
          /\ closedRuns <= 4
          /\ eStopPending \/ Pending = 1 => closedRuns <= 3
          /\ (Pending = 1 /\ SinceTouch > 0) \/ SinceTouch > 3 => closedRuns <= 1
          /\ SinceTouch = 2 => closedRuns <= 2
          /\ SinceTouch = 3 => closedRuns <= 3

\* The contactors open in the first body of run() that polls no RESET: the
\* delay is one task period (VCU_CONTACTOR_OPEN_DELAY_MS and TASK_PERIOD_MS
\* are both 20).
ShutdownHypotheses == Paced /\ OpenDelay = 1

\* What Observe adds to the count of a shutdown.
LEMMA ClosedRunsFacts ==
    ASSUME ObserverTypeOK, Observe
    PROVE  /\ closedRuns \in Nat /\ closedRuns' \in Nat
           /\ ~Closed' => closedRuns' = 0
           /\ Closed' /\ ~RunEnds => closedRuns' = closedRuns
           /\ Closed' /\ closedRuns <= 3 => closedRuns' <= closedRuns + 1
  BY DEF ObserverTypeOK, Observe, Closed, Saturate, ClosedBound

LEMMA PostponedStep ==
    ASSUME ShutdownHypotheses, IInv, IInv', ObserverTypeOK, PaceInv, PaceInv',
           PostponedInv, Observe, Outside \/ RunFlags \/ RunBody
    PROVE  PostponedInv'
  <1>1. /\ HmiGap \in Nat /\ HmiGap >= 3
        /\ hmiWait \in 0..HmiGap /\ hmiWait' \in 0..HmiGap
        /\ Pending \in Nat /\ Pending' \in Nat
        /\ eStopPending \in BOOLEAN /\ eStopPending' \in BOOLEAN
    BY PaceTypes DEF ShutdownHypotheses
  <1>2. /\ closedRuns \in Nat /\ closedRuns' \in Nat
        /\ ~Closed' => closedRuns' = 0
        /\ Closed' /\ ~RunEnds => closedRuns' = closedRuns
        /\ Closed' /\ closedRuns <= 3 => closedRuns' <= closedRuns + 1
    BY ClosedRunsFacts
  <1>3. CASE Outside
    <2>1. /\ UNCHANGED <<state, phase>> /\ ~RunEnds /\ (Closed' <=> Closed)
      BY <1>3, OutsideFacts DEF Closed
    <2>2. Closed' => closedRuns' = closedRuns
      BY <1>2, <2>1
    <2>3. CASE hmiWait' = hmiWait /\ Pending' = Pending /\ eStopPending' = eStopPending
      BY <1>1, <1>2, <2>1, <2>2, <2>3 DEF PostponedInv, SinceTouch
    <2>4. CASE ~(hmiWait' = hmiWait /\ Pending' = Pending /\ eStopPending' = eStopPending)
      <3>1. hmiWait = 0 /\ hmiWait' = HmiGap
        BY <1>3, <2>4 DEF Outside, PostEStop, PostFault, PostQueued, SpiChange, BrownOut,
           Pending
      <3> QED
        BY <1>1, <1>2, <2>1, <2>2, <3>1 DEF PostponedInv, SinceTouch
    <2> QED
      BY <2>3, <2>4
  <1>4. CASE RunFlags
    <2>1. /\ phase = "top" /\ Pending' = Pending /\ ~eStopPending'
          /\ hmiWait' = IF hmiWait > 0 THEN hmiWait - 1 ELSE 0
          /\ relay'.shadow = relay.shadow
      BY <1>4, RunFlagsFacts DEF Pending
    <2>2. CASE phase' = "body"
      <3>1. state' = state /\ (state = "EMERGENCY_STOP" \/ ~eStopPending)
        BY <1>4, <2>2, RunFlagsFacts
      <3>2. ~RunEnds /\ (Closed' <=> Closed)
        BY <2>1, <2>2, <3>1 DEF RunEnds, Closed
      <3> QED
        BY <1>1, <1>2, <2>1, <2>2, <3>1, <3>2 DEF PostponedInv, SinceTouch
    <2>3. CASE phase' # "body"
      <3>1. /\ phase' = "top" /\ state' # state /\ state' \in {"EMERGENCY_STOP", "FAULT"}
            /\ state' = "EMERGENCY_STOP" => eStopPending
        BY <1>4, <2>3, RunFlagsFacts DEF SafeStates
      <3>2. state \in SafeStates => (Closed' <=> Closed)
        BY <2>1, <3>1 DEF Closed, SafeStates
      <3>3. CASE state \notin SafeStates
        <4>1. closedRuns' <= 1
          BY <1>2, <3>3 DEF PostponedInv, Closed
        <4> QED
          BY <1>1, <1>2, <2>1, <3>1, <4>1 DEF PostponedInv, PaceInv, SinceTouch
      <3>4. CASE state = "FAULT"
        BY <1>1, <1>2, <2>1, <3>1, <3>2, <3>4
           DEF PostponedInv, PaceInv, SinceTouch, SafeStates
      <3>5. CASE state = "EMERGENCY_STOP"
        BY <1>1, <1>2, <2>1, <3>1, <3>2, <3>5
           DEF PostponedInv, PaceInv, SinceTouch, SafeStates
      <3> QED
        BY <3>3, <3>4, <3>5 DEF SafeStates
    <2> QED
      BY <2>2, <2>3
  <1>5. CASE RunBody
    <2>1. /\ phase = "body" /\ phase' = "top" /\ UNCHANGED <<eStopPending, hmiWait>>
          /\ Moves \/ Forced \/ Rejects \/ Settles
      BY <1>5, RunBodyFacts
    <2>2. CASE Moves \/ Settles
      <3>1. stateTimer >= OpenDelay
        BY <2>1 DEF ShutdownHypotheses, IInv, BodyCounts
      <3>2. ~Closed'
        BY <2>2, <3>1 DEF Moves, Settles, Closed
      <3> QED
        BY <1>2, <3>2 DEF PostponedInv
    <2>3. CASE Forced
      <3>1. state' = "FAULT" /\ ~Closed
        BY <2>3 DEF Forced, Closed
      <3>2. closedRuns' <= 1
        BY <1>2, <3>1 DEF PostponedInv
      <3> QED
        BY <1>1, <1>2, <2>1, <3>1, <3>2 DEF PostponedInv
    <2>4. CASE Rejects
      <3>1. state' = state /\ (Closed' <=> Closed) /\ state \in {"EMERGENCY_STOP", "FAULT"}
        BY <2>4 DEF Rejects, Closed, SafeStates
      <3>2. Pending = 1 /\ Pending' = 0
        <4>1. Len(eventQueue) > 0 /\ Len(eventQueue') = Len(Polled)
          BY <2>4, PollFacts DEF Rejects, IInv
        <4>2. Pending > 0 /\ Pending' = IF Pending = 0 THEN 0 ELSE Pending - 1
          BY <4>1, PollFacts DEF IInv, Pending
        <4> QED
          BY <1>1, <4>2 DEF PaceInv
      <3> QED
        BY <1>1, <1>2, <2>1, <3>1, <3>2 DEF PostponedInv, PaceInv, SinceTouch
    <2> QED
      BY <2>1, <2>2, <2>3, <2>4
  <1> QED
    BY <1>3, <1>4, <1>5

-----------------------------------------------------------------------------
(* How long a repair can be postponed.                                     *)

\* A chip that disagrees over a working bus has been passed over at most once
\* per period counted since the last read-back.  Once that is due, every run
\* but one that transitions on a flag repairs the chip, so the longest chain is
\* FAULT, EMERGENCY_STOP, FAULT: the pace of the touch poll forbids the E-STOP
\* that would go on with it.
RepairInv ==
    /\ ~relay.started => brokenRuns = 0
    /\ relay.age < VerifyTicks => brokenRuns <= relay.age
    /\ phase = "body" /\ relay.started /\ relay.age < VerifyTicks =>
          brokenRuns < relay.age
    /\ phase = "top" /\ brokenRuns >= VerifyTicks =>
          /\ state \in SafeStates
          /\ state = "EMERGENCY_STOP" => ~eStopPending /\ hmiWait >= 2
    /\ phase = "top" /\ brokenRuns >= VerifyTicks + 1 /\ state = "FAULT" =>
          ~eStopPending /\ hmiWait >= 1
    /\ phase = "top" /\ brokenRuns >= VerifyTicks + 2 => state = "FAULT"
    /\ brokenRuns <= VerifyTicks + 2

\* What Observe adds to the count of a repair.
LEMMA BrokenRunsFacts ==
    ASSUME ObserverTypeOK, Observe
    PROVE  /\ brokenRuns \in Nat /\ brokenRuns' \in Nat
           /\ spi' = "bad" \/ ChipMatches(relay') \/ ~relay.started => brokenRuns' = 0
           /\ ~RunEnds => brokenRuns' = 0 \/ brokenRuns' = brokenRuns
           /\ brokenRuns' <= brokenRuns + 1
  BY RelayAssumption DEF ObserverTypeOK, Observe, Saturate, RepairBound

\* A body of run() over a working bus leaves the chip in agreement, unless
\* the read-back was not due; then the period runs on.
LEMMA RunBodyRepairs ==
    ASSUME IInv, RunBody, spi = "ok", relay.started
    PROVE  \/ ChipMatches(relay')
           \/ relay.age < VerifyTicks /\ relay'.age = relay.age /\ relay'.started
  <1>1. PICK r \in verifyIfDue(relay, spi) :
           ForceFault(r) \/ HandleReset(r) \/ HandleSafe(r) \/ HandleIdle(r)
           \/ HandleLive(r)
    BY DEF RunBody
  <1>2. relay \in RelayState /\ r \in RelayState
    BY VerifyIfDueFacts DEF IInv, TypeOK
  <1>3. ChipMatches(r) \/ (relay.age < VerifyTicks /\ r = relay)
    BY <1>2, VerifyIfDueRepairs
  <1>4. \/ relay' = r
        \/ relay' = clearActuatorFault(r)
        \/ relay' \in command(r, Channel, spi)
        \/ relay' \in command(r, {}, spi)
    BY <1>1 DEF ForceFault, HandleReset, HandleSafe, HandleIdle, HandleLive,
       handleSafe, handleReady, allOn, allOff
  <1>5. CASE relay' = r
    BY <1>3, <1>5
  <1>6. CASE relay' = clearActuatorFault(r)
    <2>1. /\ relay'.shadow = r.shadow /\ relay'.olat = r.olat /\ relay'.out = r.out
          /\ relay'.age = r.age /\ relay'.started = r.started
      BY <1>2, <1>6 DEF clearActuatorFault, RelayState
    <2> QED
      BY <1>3, <2>1 DEF ChipMatches
  <1>7. CASE relay' \in command(r, Channel, spi) \/ relay' \in command(r, {}, spi)
    BY <1>2, <1>7, CommandRepairs
  <1> QED
    BY <1>4, <1>5, <1>6, <1>7

LEMMA RepairStep ==
    ASSUME Paced, IInv, IInv', ObserverTypeOK, PaceInv, RepairInv, Observe,
           Outside \/ RunFlags \/ RunBody
    PROVE  RepairInv'
  <1>1. /\ HmiGap \in Nat /\ HmiGap >= 3
        /\ hmiWait \in 0..HmiGap /\ hmiWait' \in 0..HmiGap
        /\ eStopPending \in BOOLEAN /\ eStopPending' \in BOOLEAN
    BY PaceTypes
  <1>2. /\ VerifyTicks \in Nat \ {0}
        /\ relay.age \in 0..VerifyTicks /\ relay'.age \in 0..VerifyTicks
        /\ phase \in {"top", "body"}
    BY RelayAssumption DEF IInv, TypeOK, RelayState
  <1>3. /\ brokenRuns \in Nat /\ brokenRuns' \in Nat
        /\ spi' = "bad" \/ ChipMatches(relay') \/ ~relay.started => brokenRuns' = 0
        /\ ~RunEnds => brokenRuns' = 0 \/ brokenRuns' = brokenRuns
        /\ brokenRuns' <= brokenRuns + 1
    BY BrokenRunsFacts
  <1>4. CASE Outside
    <2>1. /\ UNCHANGED <<state, phase>> /\ relay'.started = relay.started
          /\ relay'.age = relay.age
          /\ brokenRuns' = 0 \/ brokenRuns' = brokenRuns
      BY <1>3, <1>4, OutsideFacts
    <2>2. \/ hmiWait' = hmiWait /\ eStopPending' = eStopPending
          \/ hmiWait = 0 /\ hmiWait' = HmiGap
      BY <1>4 DEF Outside, PostEStop, PostFault, PostQueued, SpiChange, BrownOut
    <2>3. CASE hmiWait' = hmiWait /\ eStopPending' = eStopPending
      BY <1>1, <1>2, <1>3, <2>1, <2>3 DEF RepairInv
    <2>4. CASE hmiWait = 0 /\ hmiWait' = HmiGap
      BY <1>1, <1>2, <1>3, <2>1, <2>4 DEF RepairInv, SafeStates
    <2> QED
      BY <2>2, <2>3, <2>4
  <1>5. CASE RunFlags
    <2>1. /\ phase = "top" /\ ~eStopPending'
          /\ hmiWait' = IF hmiWait > 0 THEN hmiWait - 1 ELSE 0
          /\ relay'.started = relay.started
          /\ relay'.age = IF relay.age < VerifyTicks THEN relay.age + 1 ELSE relay.age
      BY <1>5, RunFlagsFacts
    <2>2. CASE phase' = "body"
      <3>1. ~RunEnds
        BY <2>2 DEF RunEnds
      <3> QED
        BY <1>2, <1>3, <2>1, <2>2, <3>1 DEF RepairInv
    <2>3. CASE phase' # "body"
      <3>1. /\ phase' = "top" /\ state' # state /\ state' \in {"EMERGENCY_STOP", "FAULT"}
            /\ state' = "EMERGENCY_STOP" => eStopPending
        BY <1>5, <2>3, RunFlagsFacts DEF SafeStates
      <3>2. eStopPending => hmiWait = HmiGap
        BY <1>1 DEF PaceInv, SinceTouch
      <3>3. /\ ~relay'.started => brokenRuns' = 0
            /\ relay'.age < VerifyTicks => brokenRuns' <= relay'.age
        BY <1>2, <1>3, <2>1 DEF RepairInv
      <3>4. state' = "EMERGENCY_STOP" => hmiWait' >= 2 /\ brokenRuns' <= VerifyTicks + 1
        BY <1>1, <1>2, <1>3, <2>1, <3>1, <3>2 DEF RepairInv, SafeStates
      <3>5. state' = "FAULT" =>
               /\ brokenRuns' <= VerifyTicks + 2
               /\ brokenRuns' >= VerifyTicks + 1 => hmiWait' >= 1
        BY <1>1, <1>2, <1>3, <2>1, <3>1 DEF RepairInv, SafeStates
      <3> QED
        BY <1>2, <1>3, <2>1, <3>1, <3>3, <3>4, <3>5 DEF RepairInv, SafeStates
    <2> QED
      BY <2>2, <2>3
  <1>6. CASE RunBody
    <2>1. /\ phase = "body" /\ phase' = "top" /\ spi' = spi /\ spi \in {"ok", "bad"}
      BY <1>6 DEF RunBody, IInv, TypeOK, SpiStates
    <2>2. \/ brokenRuns' = 0
          \/ /\ relay.started /\ relay'.started
             /\ relay.age < VerifyTicks /\ relay'.age = relay.age
      BY <1>3, <1>6, <2>1, RunBodyRepairs
    <2>3. CASE brokenRuns' = 0
      BY <1>2, <2>1, <2>3 DEF RepairInv
    <2>4. CASE /\ relay.started /\ relay'.started
               /\ relay.age < VerifyTicks /\ relay'.age = relay.age
      <3>1. brokenRuns' <= relay'.age /\ brokenRuns' < VerifyTicks
        BY <1>2, <1>3, <2>1, <2>4 DEF RepairInv
      <3> QED
        BY <1>2, <1>3, <2>1, <2>4, <3>1 DEF RepairInv
    <2> QED
      BY <2>2, <2>3, <2>4
  <1> QED
    BY <1>4, <1>5, <1>6

-----------------------------------------------------------------------------
\* Erased of its observers HSpec is VcuLogic, and its history is HistoryInv.
LEMMA HistoryContext ==
    ASSUME HistoryInv, HNext
    PROVE  IInv /\ IInv' /\ ObserverTypeOK /\ Observe /\ (Outside \/ RunFlags \/ RunBody)
  <1>1. Next /\ Observe /\ (Outside \/ RunFlags \/ RunBody)
    BY HNextFacts
  <1>2. IInv /\ ObserverTypeOK
    BY DEF HistoryInv
  <1> QED
    BY <1>1, <1>2, NextIInv

LEMMA PaceInit == HInit /\ Paced => PaceInv
  BY DEF HInit, Init, PaceInv, Pending

LEMMA PaceNext ==
    ASSUME Paced, HistoryInv, PaceInv, [HNext]_hvars
    PROVE  PaceInv'
  <1>1. CASE HNext
    BY <1>1, HistoryContext, PaceStep
  <1>2. CASE UNCHANGED hvars
    BY <1>2 DEF hvars, vars, observers, PaceInv, Pending, SinceTouch
  <1> QED
    BY <1>1, <1>2

\* With the touch poll paced as the code paces it, at most one command waits.
THEOREM PaceInductive ==
    ASSUME Paced
    PROVE  HSpec => []PaceInv
  BY PaceInit, PaceNext, HistoryInductive, PTL DEF HSpec

\* A touch command always finds room in the event queue, however many runs
\* return before polling it, for every queue of two or more.
THEOREM CommandsNeverDropped ==
    ASSUME Paced
    PROVE  HSpec => []NoDroppedCommand
  <1>1. ASSUME HistoryInv, PaceInv PROVE NoDroppedCommand
    <2>1. Pending \in Nat /\ QueueLen \in Nat /\ QueueLen >= 2
      BY <1>1, VcuAssumption DEF HistoryInv, IInv, TypeOK, Pending, Paced
    <2>2. Pending < QueueLen
      BY <1>1, <2>1 DEF PaceInv
    <2> QED
      BY <2>2 DEF Pending, NoDroppedCommand
  <1> QED
    BY <1>1, HistoryInductive, PaceInductive, PTL

\* The RESET that leaves EMERGENCY_STOP was pressed after the last E-STOP,
\* although E-STOP bypasses the queue.
THEOREM ResetIsFresh ==
    ASSUME Paced
    PROVE  HSpec => NoStaleReset
  <1>1. ASSUME PaceInv
        PROVE  [state = "EMERGENCY_STOP" /\ state' = "IDLE" => older = 0]_hvars
    BY <1>1 DEF PaceInv
  <1> QED
    BY <1>1, PaceInductive, PTL DEF NoStaleReset

LEMMA RepairInit == HInit => RepairInv
  <1> SUFFICES ASSUME HInit PROVE RepairInv
    OBVIOUS
  <1>1. brokenRuns = 0 /\ phase = "top"
    BY DEF HInit, Init
  <1>2. relay.age \in Nat /\ VerifyTicks \in Nat \ {0}
    BY InitIInv, RelayAssumption DEF HInit, IInv, TypeOK, RelayState
  <1> QED
    BY <1>1, <1>2 DEF RepairInv

LEMMA RepairNext ==
    ASSUME Paced, HistoryInv, PaceInv, RepairInv, [HNext]_hvars
    PROVE  RepairInv'
  <1>1. CASE HNext
    BY <1>1, HistoryContext, RepairStep
  <1>2. CASE UNCHANGED hvars
    BY <1>2 DEF hvars, vars, observers, RepairInv
  <1> QED
    BY <1>1, <1>2

\* Over a working bus a disagreeing chip is rewritten within one verify period
\* and two runs, in every state, for every period, wiring and pace of the
\* touch poll from three periods up.
THEOREM RepairIsBounded ==
    ASSUME Paced
    PROVE  HSpec => []RepairBounded
  <1>1. HSpec => []RepairInv
    BY RepairInit, RepairNext, HistoryInductive, PaceInductive, PTL DEF HSpec
  <1>2. RepairInv => RepairBounded
    BY DEF RepairInv, RepairBounded, RepairBound
  <1> QED
    BY <1>1, <1>2, PTL

LEMMA PostponedInit == HInit => PostponedInv
  BY DEF HInit, Init, PostponedInv, Closed, SafeStates

LEMMA PostponedNext ==
    ASSUME ShutdownHypotheses, HistoryInv, PaceInv, PaceInv', PostponedInv, [HNext]_hvars
    PROVE  PostponedInv'
  <1>1. CASE HNext
    BY <1>1, HistoryContext, PostponedStep
  <1>2. CASE UNCHANGED hvars
    BY <1>2 DEF hvars, vars, observers, PostponedInv, Closed, Pending, SinceTouch
  <1> QED
    BY <1>1, <1>2

\* A safe state opens the contactors after at most ClosedBound runs, for every
\* pace of the touch poll from three periods up: E-STOP, fault and RESET
\* together cannot postpone it further.
THEOREM ShutdownIsBounded ==
    ASSUME ShutdownHypotheses
    PROVE  HSpec => []ShutdownBounded
  <1>1. Paced
    BY DEF ShutdownHypotheses
  <1>2. HSpec => []PaceInv
    BY <1>1, PaceInductive
  <1>3. HSpec => []PostponedInv
    BY <1>2, PostponedInit, PostponedNext, HistoryInductive, PTL DEF HSpec
  <1>4. ASSUME IInv, ObserverTypeOK, PostponedInv PROVE ShutdownBounded
    <2>1. phase \in {"top", "body"} /\ closedRuns \in Nat
      BY <1>4 DEF IInv, TypeOK, ObserverTypeOK, ClosedBound
    <2>2. closedRuns = 0 \/ closedRuns <= 4
      BY <1>4, <2>1 DEF PostponedInv, Closed, SafeStates
    <2> QED
      BY <2>1, <2>2 DEF ShutdownBounded, ClosedBound
  <1>5. HistoryInv => IInv /\ ObserverTypeOK
    BY DEF HistoryInv
  <1> QED
    BY <1>3, <1>4, <1>5, HistoryInductive, PTL
=============================================================================
