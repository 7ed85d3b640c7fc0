--------------------------- MODULE VcuLogicProofs ---------------------------
(***************************************************************************)
(* The safety invariants of VcuLogic, for every number of channels and     *)
(* ports, every pattern of lost writes, every set of telemetry records and *)
(* every value of the periods and of the queue's capacity.                 *)
(***************************************************************************)
EXTENDS VcuLogic, RelayOpsProofs

\* Inside run() at least one period has been counted in the current state:
\* without it LiveTelemetryClean could mistake a later run for the entry run.
BodyCounts == phase = "body" => stateTimer >= 1

\* The chip behind LiveOutputsTrusted: with no fault latched it agrees with
\* the shadow word, or a supply dip has made every pin an input.
LiveChip ==
    state \in LiveStates /\ ~hasActuatorFault(relay) =>
        ChipMatches(relay) \/ relay.out = {}

IInv ==
    /\ TypeOK
    /\ CommandMatchesState
    /\ BodyCounts
    /\ LiveTelemetryClean
    /\ LiveChip

\* The only fields of transitionTo that depend on the target.
LEMMA TransitionFacts ==
    ASSUME TypeOK, NEW next \in VcuStates, transitionTo(next)
    PROVE  /\ state' = next /\ stateTimer' = 0 /\ state' \in VcuStates
           /\ stateTimer' \in 0..TimerMax
           /\ sinceLog' \in 0..ReassertTicks
           /\ opened' \in [SafeStates -> BOOLEAN]
           /\ next \in SafeStates => ~opened'[next]
           /\ zeroTorque' \in -1..OpenDelay
  <1>1. opened' \in [SafeStates -> BOOLEAN] /\ (next \in SafeStates => ~opened'[next])
    BY Zenon DEF TypeOK, transitionTo
  <1>2. /\ state' = next /\ stateTimer' = 0 /\ sinceLog' = ReassertTicks
        /\ zeroTorque' = -1
    BY DEF transitionTo
  <1> QED
    BY <1>1, <1>2, VcuAssumption DEF TimerMax

\* pollEvent leaves a queue of events that is no longer than before.
LEMMA PolledFacts ==
    ASSUME TypeOK
    PROVE  Polled \in Seq(QueuedEvents) /\ Len(Polled) <= QueueLen
  BY VcuAssumption DEF TypeOK, Polled

\* The passing of a period moves the age of the last read-back and nothing else.
LEMMA ElapseFacts ==
    ASSUME NEW r \in RelayState
    PROVE  /\ Elapse(r) \in RelayState
           /\ Elapse(r).shadow = r.shadow /\ Elapse(r).olat = r.olat
           /\ Elapse(r).out = r.out /\ Elapse(r).fault = r.fault
           /\ Elapse(r).started = r.started
           /\ Elapse(r).age = IF r.age < VerifyTicks THEN r.age + 1 ELSE r.age
  BY RelayAssumption DEF Elapse, RelayState

\* clearActuatorFault (an accepted RESET) leaves a driver state.
LEMMA ClearFacts ==
    ASSUME NEW r \in RelayState
    PROVE  clearActuatorFault(r) \in RelayState
  BY DEF clearActuatorFault, RelayState

\* Boot leaves IDLE with nothing commanded on.
LEMMA InitIInv == Init => IInv
  <1> SUFFICES ASSUME Init PROVE IInv
    OBVIOUS
  <1>1. PICK r \in begin(spi) : relay \in allOff(r, spi)
    BY DEF Init
  <1>2. r \in RelayState
    BY BeginFacts
  <1>3. relay \in RelayState
    BY <1>1, <1>2, CommandFacts DEF allOff
  <1>4. TypeOK
    <2>1. opened \in [SafeStates -> BOOLEAN] /\ eStopPending \in BOOLEAN
          /\ faultPending \in BOOLEAN /\ spi \in SpiStates
      BY Zenon DEF Init
    <2>2. /\ state \in VcuStates /\ stateTimer \in 0..TimerMax
          /\ sinceLog \in 0..ReassertTicks /\ zeroTorque \in -1..OpenDelay
          /\ hmiWait \in 0..HmiGap
      BY VcuAssumption DEF Init, VcuStates, TimerMax
    <2>3. /\ eventQueue \in Seq(QueuedEvents) /\ Len(eventQueue) <= QueueLen
          /\ tel \in Telemetry \cup {BlankTelemetry} /\ phase \in {"top", "body"}
      BY VcuAssumption DEF Init
    <2> QED
      BY <1>3, <2>1, <2>2, <2>3 DEF TypeOK
  <1> QED
    BY <1>4 DEF Init, IInv, CommandMatchesState, BodyCounts, LiveTelemetryClean,
       LiveChip, LiveStates, SafeStates

\* The tasks that post, and the bus and the supply, never touch the machine.
LEMMA OthersIInv ==
    ASSUME IInv,
           \/ PostEStop
           \/ PostFault
           \/ \E e \in QueuedEvents : PostQueued(e)
           \/ SpiChange
    PROVE  IInv'
  <1>1. /\ UNCHANGED <<state, stateTimer, sinceLog, opened, zeroTorque, tel, relay, phase>>
    BY DEF PostEStop, PostFault, PostQueued, SpiChange, machine
  <1>2. /\ eStopPending' \in BOOLEAN /\ faultPending' \in BOOLEAN
        /\ spi' \in SpiStates
    BY Zenon DEF IInv, TypeOK, PostEStop, PostFault, PostQueued, SpiChange
  <1>3. hmiWait' \in 0..HmiGap
    BY VcuAssumption DEF IInv, TypeOK, PostEStop, PostFault, PostQueued, SpiChange
  <1>4. eventQueue' \in Seq(QueuedEvents) /\ Len(eventQueue') <= QueueLen
    <2>1. CASE \E e \in QueuedEvents : PostQueued(e)
      BY <2>1, VcuAssumption DEF IInv, TypeOK, PostQueued
    <2>2. CASE PostEStop \/ PostFault \/ SpiChange
      BY <2>2 DEF IInv, TypeOK, PostEStop, PostFault, SpiChange
    <2> QED
      BY <2>1, <2>2
  <1>5. TypeOK'
    BY <1>1, <1>2, <1>4, <1>3 DEF IInv, TypeOK
  <1> QED
    BY <1>1, <1>5 DEF IInv, CommandMatchesState, BodyCounts, LiveTelemetryClean,
       LiveChip

\* A supply dip leaves the shadow word alone and turns every pin to an input.
LEMMA BrownOutIInv ==
    ASSUME IInv, BrownOut
    PROVE  IInv'
  <1>1. UNCHANGED <<state, stateTimer, sinceLog, opened, zeroTorque, tel, spi, phase,
                    eventQueue, eStopPending, faultPending, hmiWait>>
    BY DEF BrownOut, machine
  <1>2. /\ relay' \in RelayState /\ relay'.shadow = relay.shadow
        /\ relay'.out = {}
    BY DEF IInv, TypeOK, BrownOut, BrownedOut, RelayState
  <1>3. TypeOK'
    BY <1>1, <1>2 DEF IInv, TypeOK
  <1> QED
    BY <1>1, <1>2, <1>3 DEF IInv, CommandMatchesState, BodyCounts,
       LiveTelemetryClean, LiveChip

\* The top of run() either enters a safe state with its flag cleared or
\* counts one more period.
LEMMA RunFlagsIInv ==
    ASSUME IInv, RunFlags
    PROVE  IInv'
  <1>1. /\ relay' \in RelayState
        /\ relay'.shadow = relay.shadow /\ relay'.olat = relay.olat
        /\ relay'.out = relay.out /\ relay'.fault = relay.fault
    BY ElapseFacts DEF IInv, TypeOK, RunFlags
  <1>2. /\ tel' \in Telemetry \cup {BlankTelemetry}
        /\ hmiWait' \in 0..HmiGap
        /\ phase' \in {"top", "body"}
        /\ UNCHANGED <<eventQueue, spi>>
    BY VcuAssumption DEF IInv, TypeOK, RunFlags
  <1>3. eStopPending' \in BOOLEAN /\ faultPending' \in BOOLEAN
    BY Zenon DEF IInv, TypeOK, RunFlags
  <1>4. CASE \E next \in SafeStates : transitionTo(next) /\ phase' = "top"
    <2>1. PICK next \in SafeStates : transitionTo(next) /\ phase' = "top"
      BY <1>4
    <2>2. /\ state' = next /\ state' \in VcuStates
          /\ stateTimer' \in 0..TimerMax /\ sinceLog' \in 0..ReassertTicks
          /\ opened' \in [SafeStates -> BOOLEAN] /\ ~opened'[next]
          /\ zeroTorque' \in -1..OpenDelay
      BY <2>1, TransitionFacts DEF IInv, VcuStates
    <2>3. TypeOK'
      BY <1>1, <1>2, <1>3, <2>2 DEF IInv, TypeOK
    <2>4. state' \notin LiveStates /\ phase' = "top"
      BY <2>1, <2>2 DEF SafeStates, LiveStates
    <2> QED
      BY <2>2, <2>3, <2>4 DEF IInv, CommandMatchesState, BodyCounts,
         LiveTelemetryClean, LiveChip
  <1>5. CASE ~\E next \in SafeStates : transitionTo(next) /\ phase' = "top"
    <2>1. /\ stateTimer' = Saturate(stateTimer, TimerMax)
          /\ sinceLog' = Saturate(sinceLog, ReassertTicks)
          /\ zeroTorque' = IF zeroTorque = -1 THEN -1
                           ELSE Saturate(zeroTorque, OpenDelay)
          /\ UNCHANGED <<state, opened>>
          /\ phase' = "body"
      BY <1>5 DEF RunFlags, SafeStates
    <2>2. /\ stateTimer' \in 0..TimerMax /\ stateTimer' >= 1
          /\ sinceLog' \in 0..ReassertTicks
          /\ zeroTorque' \in -1..OpenDelay
      BY <2>1, VcuAssumption DEF IInv, TypeOK, Saturate, TimerMax
    <2>3. TypeOK'
      BY <1>1, <1>2, <1>3, <2>1, <2>2 DEF IInv, TypeOK
    <2> QED
      BY <1>1, <2>1, <2>2, <2>3 DEF IInv, CommandMatchesState, BodyCounts,
         LiveTelemetryClean, LiveChip, ChipMatches, hasActuatorFault
  <1> QED
    BY <1>4, <1>5
\* What a run() body that stays in, or moves to, a state must establish: the
\* conjuncts of IInv that its disjuncts can disturb.
BodyDone ==
    /\ state' \in VcuStates
    /\ stateTimer' \in 0..TimerMax
    /\ sinceLog' \in 0..ReassertTicks
    /\ opened' \in [SafeStates -> BOOLEAN]
    /\ zeroTorque' \in -1..OpenDelay
    /\ eventQueue' \in Seq(QueuedEvents) /\ Len(eventQueue') <= QueueLen
    /\ relay' \in RelayState
    /\ state' \in LiveStates =>
          /\ relay'.shadow = Channel
          /\ ~hasActuatorFault(relay') => ChipMatches(relay') \/ relay'.out = {}
          /\ IF state' = "READY" /\ stateTimer' = 0 THEN isReadyEntryPermitted(tel)
             ELSE ~hasCriticalCondition(tel, state')
    /\ \A s \in SafeStates : state' = s /\ opened'[s] => relay'.shadow = {}

\* The rest of run(), outcome by outcome.
LEMMA RunBodyIInv ==
    ASSUME IInv, RunBody
    PROVE  IInv'
  <1> USE DEF VcuStates, LiveStates, SafeStates
  <1>1. PICK r \in verifyIfDue(relay, spi) :
           ForceFault(r) \/ HandleReset(r) \/ HandleSafe(r) \/ HandleIdle(r)
           \/ HandleLive(r)
    BY DEF RunBody
  <1>2. /\ phase = "body" /\ phase' = "top"
        /\ UNCHANGED <<eStopPending, faultPending, tel, spi, hmiWait>>
    BY DEF RunBody
  <1>3. TypeOK /\ relay \in RelayState
    BY DEF IInv, TypeOK
  <1>4. /\ r \in RelayState /\ r.shadow = relay.shadow
        /\ ~hasActuatorFault(r) => /\ ~hasActuatorFault(relay)
                                   /\ r.olat = relay.olat /\ r.out = relay.out
    BY <1>3, VerifyIfDueFacts
  <1>5. Polled \in Seq(QueuedEvents) /\ Len(Polled) <= QueueLen
    BY <1>3, PolledFacts
  <1> SUFFICES BodyDone
    <2>1. ASSUME BodyDone PROVE TypeOK'
      BY <1>2, <1>3, <2>1 DEF BodyDone, TypeOK
    <2> QED
      BY <1>2, <2>1 DEF BodyDone, IInv, CommandMatchesState, BodyCounts,
         LiveTelemetryClean, LiveChip
  \* The run() ends by entering a safe state, or IDLE: nothing is claimed of
  \* the contactors there yet.
  <1>6. ASSUME NEW next \in VcuStates \ LiveStates, transitionTo(next),
               relay' \in RelayState,
               eventQueue' \in Seq(QueuedEvents) /\ Len(eventQueue') <= QueueLen
        PROVE  BodyDone
    <2>1. /\ state' = next /\ stateTimer' \in 0..TimerMax
          /\ sinceLog' \in 0..ReassertTicks
          /\ opened' \in [SafeStates -> BOOLEAN]
          /\ next \in SafeStates => ~opened'[next]
          /\ zeroTorque' \in -1..OpenDelay
      BY <1>3, <1>6, TransitionFacts
    <2> QED
      BY <1>6, <2>1 DEF BodyDone
  <1>7. CASE ForceFault(r)
    BY <1>3, <1>4, <1>6, <1>7 DEF ForceFault, TypeOK
  <1>8. CASE HandleReset(r)
    <2>1. CASE isResetInterlockSatisfied(tel, state)
      BY <1>4, <1>5, <1>6, <1>8, <2>1, ClearFacts DEF HandleReset
    <2>2. CASE ~isResetInterlockSatisfied(tel, state)
      <3>1. relay' = r /\ UNCHANGED machine /\ state \in SafeStates
            /\ eventQueue' = Polled
        BY <1>8, <2>2 DEF HandleReset
      <3> QED
        BY <1>3, <1>4, <1>5, <3>1 DEF BodyDone, machine, TypeOK, IInv,
           CommandMatchesState
    <2> QED
      BY <2>1, <2>2
  <1>9. CASE HandleSafe(r)
    <2>1. /\ state \in SafeStates /\ eventQueue' = Polled
          /\ relay' \in handleSafe(r)
          /\ opened' = [opened EXCEPT ![state] = @ \/ stateTimer >= OpenDelay]
          /\ sinceLog' = IF sinceLog >= ReassertTicks THEN 0 ELSE sinceLog
          /\ zeroTorque' = requestZeroTorque
          /\ UNCHANGED <<state, stateTimer>>
      BY <1>9 DEF HandleSafe
    <2>2. relay' \in RelayState
      BY <1>4, <2>1, CommandFacts DEF handleSafe, allOff
    <2>3. opened' \in [SafeStates -> BOOLEAN]
          /\ (opened'[state] <=> opened[state] \/ stateTimer >= OpenDelay)
      BY <1>3, <2>1, Zenon DEF TypeOK
    <2>4. opened'[state] => relay'.shadow = {}
      <3>1. CASE stateTimer >= OpenDelay /\ (~opened[state] \/ sinceLog >= ReassertTicks)
        BY <1>4, <2>1, <3>1, CommandFacts DEF handleSafe, allOff
      <3>2. CASE ~(stateTimer >= OpenDelay /\ (~opened[state] \/ sinceLog >= ReassertTicks))
        <4>1. relay' = r
          BY <2>1, <3>2 DEF handleSafe
        <4>2. opened'[state] => opened[state]
          BY <2>3, <3>2
        <4> QED
          BY <1>4, <2>1, <4>1, <4>2 DEF IInv, CommandMatchesState
      <3> QED
        BY <3>1, <3>2
    <2>5. /\ sinceLog' \in 0..ReassertTicks /\ zeroTorque' \in -1..OpenDelay
          /\ stateTimer' \in 0..TimerMax
      BY <1>3, <2>1, VcuAssumption DEF TypeOK, requestZeroTorque
    <2> QED
      BY <1>5, <2>1, <2>2, <2>3, <2>4, <2>5 DEF BodyDone
  <1>10. CASE HandleIdle(r)
    <2>1. CASE transitionTo("READY")
      <3>1. eventQueue' = Polled /\ relay' \in handleReady(r, 0)
            /\ isReadyEntryPermitted(tel)
        BY <1>10, <2>1 DEF HandleIdle, machine, transitionTo
      <3>2. /\ state' = "READY" /\ stateTimer' = 0 /\ stateTimer' \in 0..TimerMax
            /\ sinceLog' \in 0..ReassertTicks
            /\ opened' \in [SafeStates -> BOOLEAN]
            /\ zeroTorque' \in -1..OpenDelay
        BY <1>3, <2>1, TransitionFacts
      <3>3. relay' \in command(r, Channel, spi)
        BY <3>1 DEF handleReady, allOn
      <3>4. relay' \in RelayState /\ relay'.shadow = Channel
            /\ (~hasActuatorFault(relay') => ChipMatches(relay'))
        BY <1>4, <3>3, CommandFacts
      <3> QED
        BY <1>5, <3>1, <3>2, <3>4 DEF BodyDone
    <2>2. CASE ~transitionTo("READY")
      BY <1>3, <1>4, <1>5, <1>10, <2>2 DEF HandleIdle, BodyDone, machine, TypeOK
    <2> QED
      BY <2>1, <2>2
  <1>11. CASE HandleLive(r)
    <2>1. /\ state \in LiveStates /\ ~hasCriticalCondition(tel, state)
          /\ ~hasActuatorFault(r) /\ eventQueue' = Polled
      BY <1>11 DEF HandleLive, MustFault
    <2>2. /\ r.shadow = Channel
          /\ ~hasActuatorFault(r) => ChipMatches(r) \/ r.out = {}
      BY <1>4, <2>1 DEF IInv, CommandMatchesState, LiveChip, ChipMatches
    <2>3. CASE state = "READY" /\ Poll = "DRIVE_ENABLE"
      <3>1. transitionTo("DRIVE") /\ relay' = r
        BY <1>11, <2>3 DEF HandleLive
      <3>2. /\ state' = "DRIVE" /\ stateTimer' \in 0..TimerMax
            /\ sinceLog' \in 0..ReassertTicks
            /\ opened' \in [SafeStates -> BOOLEAN]
            /\ zeroTorque' \in -1..OpenDelay
        BY <1>3, <3>1, TransitionFacts
      <3>3. ~hasCriticalCondition(tel, "DRIVE")
        BY <2>1, <2>3 DEF hasCriticalCondition
      <3> QED
        BY <1>4, <1>5, <2>1, <2>2, <3>1, <3>2, <3>3 DEF BodyDone
    <2>4. CASE ~(state = "READY" /\ Poll = "DRIVE_ENABLE")
      <3>1. /\ UNCHANGED machine
            /\ relay' \in IF state = "READY" THEN handleReady(r, stateTimer) ELSE {r}
        BY <1>11, <2>4 DEF HandleLive
      <3>2. relay' = r \/ relay' \in command(r, Channel, spi)
        BY <3>1 DEF handleReady, allOn
      <3>3. /\ relay' \in RelayState /\ relay'.shadow = Channel
            /\ ~hasActuatorFault(relay') => ChipMatches(relay') \/ relay'.out = {}
        BY <1>4, <2>2, <3>2, CommandFacts
      <3>4. stateTimer' # 0
        BY <1>2, <1>3, <3>1 DEF IInv, BodyCounts, machine, TypeOK
      <3> QED
        BY <1>3, <1>5, <2>1, <3>1, <3>3, <3>4 DEF BodyDone, machine, TypeOK
    <2> QED
      BY <2>3, <2>4
  <1> QED
    BY <1>1, <1>7, <1>8, <1>9, <1>10, <1>11

\* Every step of any task keeps the invariant.
LEMMA NextIInv ==
    ASSUME IInv, [Next]_vars
    PROVE  IInv'
  <1>1. CASE UNCHANGED vars
    BY <1>1 DEF vars, IInv, TypeOK, CommandMatchesState, BodyCounts,
       LiveTelemetryClean, LiveChip
  <1>2. CASE Next
    BY <1>2, OthersIInv, BrownOutIInv, RunFlagsIInv, RunBodyIInv DEF Next
  <1> QED
    BY <1>1, <1>2

\* The inductive invariant holds throughout.
THEOREM Inductive == Spec => []IInv
  BY InitIInv, NextIInv, PTL DEF Spec

\* Every variable of the VCU keeps its type: in particular the event queue
\* never exceeds its capacity and no counter leaves its range.
THEOREM TypeCorrect == Spec => []TypeOK
  <1>1. IInv => TypeOK
    BY DEF IInv
  <1> QED
    BY <1>1, Inductive, PTL

\* READY and DRIVE always have every contactor commanded on, and a safe state
\* that has run its opening none, whatever the bus loses.
THEOREM CommandsMatch == Spec => []CommandMatchesState
  <1>1. IInv => CommandMatchesState
    BY DEF IInv
  <1> QED
    BY <1>1, Inductive, PTL

\* No run() leaves the high-voltage bus live on critical telemetry.
THEOREM LiveIsClean == Spec => []LiveTelemetryClean
  <1>1. IInv => LiveTelemetryClean
    BY DEF IInv
  <1> QED
    BY <1>1, Inductive, PTL

\* With no fault latched, READY and DRIVE energize the whole bank or, after a
\* supply dip, nothing: never a part of it.
THEOREM LiveIsWhole == Spec => []LiveOutputsTrusted
  <1>1. ASSUME IInv PROVE LiveOutputsTrusted
    <2>1. SUFFICES ASSUME state \in LiveStates, ~hasActuatorFault(relay)
                   PROVE  Energized(relay) \in {Channel, {}}
      BY DEF LiveOutputsTrusted
    <2>2. relay.shadow = Channel
      BY <1>1, <2>1 DEF IInv, CommandMatchesState
    <2>3. CASE ChipMatches(relay)
      BY <2>2, <2>3, RelayAssumption DEF ChipMatches, Energized
    <2>4. CASE relay.out = {}
      BY <2>4 DEF Energized
    <2> QED
      BY <1>1, <2>1, <2>3, <2>4 DEF IInv, LiveChip
  <1> QED
    BY <1>1, Inductive, PTL
=============================================================================
