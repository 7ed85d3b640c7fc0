# TUFAN-AKS in TLA+

The AKS is the vehicle controller of an electric race car: an ESP32-S3 that
listens to the battery management system and the motor driver over CAN, closes
and opens ten contactors through an SPI port expander, takes commands from a
Nextion touch panel, and reports to the pit over a LoRa radio. This directory
holds a model of its core, the configurations that check the model with TLC,
and proofs that TLAPS checks. All source paths below are under `ESP_AKS/`.

## The system

Four FreeRTOS tasks, created by `app_main` after the relay driver and the state
machine are initialized:

| task | core, priority, period | what it does |
| --- | --- | --- |
| `vTask_VCU_Logic` | 1, 10, 20 ms | peek the telemetry queue, `VcuLogic::run()` |
| `vTask_CAN_Comm` | 0, 8, 10 ms | `CanManager::processRxMessages`, overwrite the telemetry queue |
| `vTask_LoRa_UKS` | 0, 5, 10 ms loop, TX period | heartbeat, link state, sampling, replay |
| `vTask_HMI_Display` | 0, 2, 100 ms | refresh the screen, at most one touch command |

They share: `TEL_sensorDataQueue` (one element, overwritten by CAN, peeked by
the others), `s_eventQueue` (eight events, HMI to VCU), the two atomic flags
`s_eStopPending` and `s_faultPending` that bypass that queue (HMI and CAN to
VCU), and read-only views of the state for the display.

| component | state | operations | what makes it correct |
| --- | --- | --- | --- |
| VCU state machine, `lib/VcuLogic` | state, timer, two opened flags, event queue, bypass flags, telemetry copy | `postEvent`, `run`, five handlers, `transitionTo` | contactors follow the state; a shutdown is bounded and complete, an E-STOP is not undone by an older RESET; the bus is never live on critical telemetry |
| safety predicates, `VcuLogic.h` | none | warning, critical, reset interlock, ready entry | thresholds compared in the unit they are in |
| relay driver, `lib/RelayManager` | shadow word, fault flag, verify period; the chip's OLAT and IODIR | `begin`, `allOn`, `allOff`, `setRelay`, `verifyOutputs`, `verifyIfDue` | a lost write or a chip reset is noticed and repaired; a half-closed bank is never believed |
| CAN reception, `lib/CanManager`, `lib/CanParse` | telemetry, stamps, seen flags, debounce counter, cell mask | alerts, bounded drain, one handler per identifier, four validity updates | what is published as valid is fresh; silence is always published; bus-off is survived |
| uplink, `lib/LoraLink`, `main.cpp` | heartbeat stamp, link flag, sampling clock | `onRxByte`, `updateLink`, `offlineSample`, `onTxTickLinkUp`, `LoRa_txSend` | a silent base station is noticed; what was buffered is delivered, in order |
| offline buffer, `lib/OfflineBuffer` | ring of 75 samples | `ob_push`, `ob_peek`, `ob_drop_front` | a bounded FIFO that gives up its oldest sample |
| display and touch, `lib/DisplayHMI`, `lib/HMIHelpers`, `main.cpp` | parser state, last screen data, page cache, refresh clock | `begin` with retries, refresh both pages, `readTouchCommand` | a damaged frame posts nothing and costs little; no stale charge or temperature, no OK for cells out of band; the screen catches up |
| radio setup, `LoraLink::configureE22`, `lib/E22Config` | none kept; the module's registers and key | AUX waits, read, write to RAM or flash, confirm | ends in transparent mode with the contract in the module; a logged verification is true |
| battery analytics, `lib/BmsAlgo` | the display's cache | `computePack`, `buildBmsNextionCommands` | what was not sent is not taken for shown |
| both tasks of the car, `main.cpp` | telemetry queue, fault flag, torque pointer | start of the CAN task, publication, peek | the VCU reacts in bounded time to what the CAN task publishes or no longer hears |

What is hard to test here, and what the properties aim at: posts that land
between two halves of `run()`; transitions that return before the handler;
SPI writes that are lost one port at a time; a chip that resets between two
read-backs; two CAN identifiers behind one validity flag; one time stamp behind
six; a timeout racing a late frame; a ring at its limit; a fault posted before
the telemetry that shows it; a byte lost on the line of the touch panel; a
refresh cut by its byte budget; a late answer of the radio. `PROJECT.json`
lists them line by line.

## The modules

| module | models |
| --- | --- |
| `RelayOps` | the relay driver as operators from a driver state to the set of states an operation may leave behind |
| `SafetyPredicates` | the predicates and thresholds, over the telemetry fields they read |
| `VcuLogic` | the VCU task with the posting tasks, the SPI bus and the chip's supply around it |
| `VcuHistory` | `VcuLogic` with observers that count runs and remember the order of presses; they constrain nothing |
| `CanParse` | the decoders, byte for byte for the fields a decision reads, freshness and debounce |
| `CanManager` | the CAN task, the TWAI driver and the bus |
| `CanHistory` | `CanManager` with observers of the frames that really arrived |
| `DropOldestFifo` | the abstract specification of the offline buffer |
| `OfflineBuffer` | the ring as operators |
| `Uplink` | the LoRa task and the radio; refines `DropOldestFifo` |
| `LoraLink` | `configureE22` against an E22 module whose answers may be lost, refused, garbled or late; `Uplink` runs it before its loop |
| `Vehicle` | the CAN task, from the search of the bit rate on, and the VCU task over the queue and the fault flag they share; composes `VcuLogic` and `CanManager` (an INSTANCE whose `posted` is the VCU's flag) |
| `BmsAlgo`, `BmsNextionPacket` | the cell analysis and the battery page's commands as operators |
| `TouchPanel` | the touch parser and the panel's line, byte by byte |
| `HmiTask` | the display task: start, two peeks, two pages, poll; composes the three before |
| `MCVcu`, `MCVcuHistory`, `MCCan`, `MCTraffic`, `MCUplink`, `MCVehicle`, `MCHmi` | instances for TLC |
| `RelayOpsProofs`, `VcuLogicProofs`, `VcuHistoryProofs`, `CanManagerProofs`, `LoraLinkProofs`, `UplinkProofs`, `HmiTaskProofs`, `VehicleProofs` | theorems and their proofs |

Names follow the source. How the actions correspond to the code:

* `run()` is two steps, `RunFlags` (timers, the two flags) and `RunBody` (read-back,
  forced faults, one event, handler). Other tasks run on the other core and may
  post between them; everything else `run()` reads is either private to the VCU
  task or copied before it. An early return in the code is an action that
  ends with `phase' = "top"`.
* Two transitions that look alike in the code, of `handleEmergencyStop` and
  `handleFault`, are one definition indexed by the state.
* An SPI transaction on a bad bus may be lost, per port; a read on a bad bus may
  fail. `LossPatterns` says which ports may be lost together.
* Time is a count of task periods; a counter saturates just above the bound it is
  compared with, so every comparison has the value it has in the code.
* `processRxMessages` is read alerts, one step per frame, and one step for the
  validity updates, because frames arrive and the VCU runs in between. The
  content of a frame is chosen when it is taken from the queue.
* In `Uplink` a TX tick is `SampleTick` (down), or `TransmitTick` followed by one
  step per replayed sample (up), because the radio may turn busy inside a burst.
* In `Vehicle` the queue, the flag and the pointer are the only coupling. Time is
  counted in publications of the CAN task; the VCU task, alone on its core,
  peeks before `MaxLag` of them pass. SPI faults and bus-off are left to
  `VcuLogic` and `CanManager` alone: in `Vehicle` they would only multiply states.
* A round of the display task is one step for each page and one per byte of
  the poll, since the CAN task may publish and the panel may send in between. A
  poll ends at any byte that has not arrived yet. A command of the battery page
  is its length and the value it carries. A damaged touch frame has lost one byte,
  had one altered or got one too many; the panel's boot may leave the tail of
  a frame behind `drainRxBuffer`.
* The registers of the radio are the contract's or others; the key is there or not.
* `external` entries of the map are the SPI bus, the expander, the TWAI
  controller, the radio and the touch panel, modelled from how the code uses them.

## The runs

| run | checks | states |
| --- | --- | --- |
| `vcu` | ten safety properties of `VcuLogic` and `VcuHistory`; a shutdown reaches the contactors, the chip converges | 362 k |
| `can` | types, exclusive flags, battery freshness, exact debounce, cell mask, silence of a stream, bus-off | 370 k |
| `uplink` | radio configured and truthfully confirmed, refinement of the FIFO, replay, silence of the base station | 347 k |
| `vehicle` | reaction of the VCU to silence, to critical telemetry, and to no CAN at all | 2.4 M |
| `hmi` | touch commands, warnings, stale numbers, catching up | 1.0 M |

Bounds, and why they suffice. *VCU*: one channel per port and two ports, so
that a half-closed bank exists; losing B alone is losing A alone renamed. The
delay is one period as in the code (20 ms); the verify and re-assert periods are
two instead of five (100 ms) and fifty (1 s), enough for a transition to fall
before, at and after them; the proofs hold for every value. `HmiGap` is 3: the HMI task sleeps
100 ms between polls and the VCU 20 ms, so at least three runs end in between
even when one is delayed. `QueueLen` is 3 in place of 8, which only makes
`NoDroppedCommand` stronger. Telemetry is one record per outcome of the
predicates: healthy, critical everywhere, critical outside IDLE only.
*CAN*: timeouts of two periods, a
queue and a drain of two, two cell groups in place of six (a group silent while
another is heard needs two), a debounce of two. `MCTraffic` chooses at the
start which streams the vehicle has, motor and battery or cells, charger and
battery, so that the ages of all five need not be multiplied; no property
relates a motor frame to a cell group. *Uplink*: a ring of three with
two distinguishable samples, which wraps and overflows, and a burst of one.
*Vehicle*: timeouts of two periods and a lag of two, as 20 ms to 10 ms; one
contactor, the pack at a nominal and at a critical voltage, and a motor driver
that may fall silent (a timeout of one); a queue and
a drain of one frame, one bit rate to try before the fall-back; the touch
commands unpaced, which only adds behaviours; E-STOP is left to `vcu` and
`vehicle_torque`, as it only takes the machine out of the states the bounds are
about. The watched identifier is E001, the one whose silence is easy to forget. *Display*: three cells need 177 bytes for a
full page and the budget is 90 as in the code, so that every full refresh is
cut; a second is two rounds instead of ten, which only makes the cells compete
with the warning more often; six snapshots, one per warning level and one that
needs balancing. `MCHmi` chooses at the start between telemetry that changes
and presses that come: the parser and the pages share no state, only
the order of the task's steps.

What the properties say:

* `CommandMatchesState`: READY and DRIVE have every contactor commanded on, and a
  safe state that has opened the contactors has none.
* `LiveTelemetryClean`: no run leaves the machine in READY or DRIVE on critical
  telemetry. The entry tick of READY is judged by `isReadyEntryPermitted`, which
  is weaker (it accepts a motor timeout), and the next run corrects it.
* `LiveOutputsTrusted`: without a latched actuator fault, the bank is energized as
  a whole or, after a chip reset, not at all.
* `DisagreementNoticed`: a chip that disagrees is noticed within one verify period
  (`BlindBound`, which is that period and not one more).
* `RepairBounded`: while the bus works, a chip that disagrees is rewritten within one
  verify period and two runs in every state. The two are reached: a transition on a
  flag ends `run()` before the read-back, and three may follow each other: to FAULT,
  to EMERGENCY_STOP and to FAULT again.
  With touch commands two runs apart the bound is exceeded.
* `ShutdownBounded`: at most four runs of a safe state end with the contactors
  commanded on. Four are reached: FAULT, E-STOP, FAULT again because the E-STOP left
  the fault flag pending, then a rejected RESET; no press can follow in time.
* `ZeroTorqueUnlessRejected`, `NoStaleReset`, `NoDroppedCommand`: see the comments;
  `NoStaleReset` is about E-STOP alone, as a RESET queued before a FAULT may still leave
  FAULT; the last two rest on the pacing of the touch poll (their mutants remove it
  or the polling).
* `ShutdownReachesContactors`, `RepairConverges`: under a bus that eventually works.
* `BmsFresh`, `DebounceExact`, `CellsHeardAgain`: the task's own stamps, counter and
  mask against what arrived. `SilenceNoticed`: the bounded drain always gets to the
  timeouts. `BusComesBack`: bus-off always ends in a running driver.
* `RefinesFifo`, `ReplayDrains`, `SilenceDeclared`: the buffer and the link.
* `RadioConfigured`: when traffic starts the module is in transparent mode and, unless
  AUX or a command failed, has the contract's registers and the key. The key
  cannot be read back, so the path that finds the registers right must write it
  too. `ConfirmTruthful`: a logged verification is true, even when a late answer to
  the first read was compared.
* `SilenceReaction`: READY or DRIVE outlasts the last frame of the watched identifier
  by at most its timeout and one lag, although the VCU never looks at a time
  stamp. `CriticalReaction`: a critical condition that stays published is survived
  for at most one lag, also when its fault was posted, and answered by RESET and
  START, before the telemetry that shows it. The run that enters READY is excepted
  when the condition is a motor timeout and no motor driver is fitted
  (`EntersOnMotorTimeout`): `isReadyEntryPermitted` admits it on purpose and the next
  run leaves READY again. `NoCanNoContactors`: an empty queue or
  telemetry that nobody fills closes nothing.
* `NoPhantomCommand`, `PressHeard`: one damaged byte per frame never posts a command that was
  not pressed, and an intact press that follows an intact one is always heard. The
  press right after a damaged one may be lost, an E-STOP too.
* `SickCellsNotOk`: two rounds after the voltage of a cell left the band, or the data went
  stale, the warning is not OK, although it is the last command of a packet with a byte budget; it rests on the cells
  being refreshed only once per second (the mutant refreshes them every round).
  `NoStaleNumber`: charge and temperature of a silent pack are not shown as numbers.
  `ScreenCatchesUp`: telemetry at rest is eventually on both pages.

Every property has a mutant in `PROJECT.json`: a change to one definition, as a
slip in that code would be, under which the run finds the property violated.

Runs that exhibit a disagreement between the code and what it says of itself:

* `vcu_idle_closed`: IDLE is reached with the contactors commanded on. A transition
  to FAULT or EMERGENCY_STOP returns before the handler; if a RESET is the next
  event, `run()` returns again, from IDLE. `handleIdle` claims "All relays off".
* `vcu_zero_torque`: a RESET rejected in the first period uses up the period in which
  zero torque is requested; the contactors then open without it.
* `can_stale_cells`: the six cell groups share one stamp, so a silent group stays
  part of "fresh" cell data.
* `can_cell_units`: the cell extremes are stored in tenths of a millivolt and
  compared with millivolts, so a nominal pack is critical once all groups are heard.
* `uplink_silent_drop`: `LoRa_txSend` answers true when the write failed, and the
  replayed sample is dropped unsent.
* `vehicle_torque`: the pointer of the torque sink is set before `begin()` and never
  cleared; when `begin()` fails the task deletes itself and its stack, and the next
  E-STOP calls through it. The stub of the shipped build touches no member.
* `hmi_hot_pack`: the task passes a temperature of zero to `computePack`, so a pack at 70
  degrees with its cells in band is shown as OK while the VCU is in FAULT for it;
  `BmsAlgo.h` says that the screen shows CRITICAL at the same time. With the highest
  temperature passed on instead, the property holds.

## Fairness

`VcuLogic`: weak fairness of both halves of `run()` (of the second as `BodyEnds`: `RunBody`
is the only step that ends a body, and it can always be taken); the task has the highest
priority and a core to itself, and nothing in `run()` blocks. `CanManager`: weak
fairness of the task's steps, which use zero timeouts, and of the controller
completing a recovery it was asked for; none of frames arriving. `Uplink`: weak
fairness of UART attempts, TX ticks and the steps of a transmission; none of
heartbeats or of the radio; weak fairness of the steps of `configureE22`, all of
whose waits have timeouts. `Vehicle` only has invariants to check; its fairness, for
the counterexample, is that of the two tasks. `HmiTask`: the task comes to its
next step (`Turn`); its delays end, a failing `begin` is retried finitely often, and
a poll ends because the panel sends slower than the task reads. Posts, faults,
supply dips and bus changes are never
assumed to happen.

## The proofs

Each theorem is about the whole specification of its component and holds for every
value of the constants the named assumptions admit, except where a hypothesis
is stated. All of them are of the form: an inductive invariant holds initially and
is kept by every step, and it implies the property.

**The state machine** (`RelayOpsProofs`, `VcuLogicProofs`), from `RelayAssumption`,
`VcuAssumption` and `MotorDriverAssumption`: any number of channels and ports, any
wiring and pattern of lost writes, any telemetry, periods and queue length.
`VerifyOutputsFacts` and `CommandFacts` say that a driver operation that leaves no fault
latched found the chip in agreement with the commanded word. `Inductive` proves
`Spec => []IInv`, from which follow `TypeCorrect`, `CommandsMatch`, `LiveIsClean` and
`LiveIsWhole`. `IInv` is `TypeOK`, `CommandMatchesState`, `LiveTelemetryClean` and two
strengthenings. `BodyCounts` (inside `run()` a period has been counted) is needed
because `LiveTelemetryClean` recognizes the entry tick of READY by a timer of zero.
`LiveChip` (no fault: the chip matches the shadow word, or every pin is an input) is
the statement about the registers behind `LiveOutputsTrusted`. `RunBodyIInv` treats the
five outcomes of the body of `run()` one by one.

**Several runs together** (`VcuHistoryProofs`). `DisagreementIsNoticed` and
`ZeroTorqueComesFirst` need no further hypothesis: `BlindInv` ties the runs a disagreeing
chip was passed over to the age of the last read-back, `TorqueInv` says that a safe
state that has not asked for zero torque is in its first period with its contactors
untouched. `CommandsNeverDropped` and `ResetIsFresh` assume `Paced`: at least three runs
between two touch commands (`HmiGap`; the display task sleeps 100 ms and the VCU task
20 ms) and room for two events (eight in the code). Neither holds without the pace,
since runs that return early do not poll the queue. `PaceInv` says by when a
command is gone: at most one is queued, and it survives a second run only in
FAULT. `RepairIsBounded` assumes `Paced` too: `RepairInv` says that a chip was passed over
at most as often as periods were counted since the last read-back and, once that is
due, which transitions the last runs were and how long no E-STOP can come; the lemmas
`VerifyRepairs` and `CommandRepairs` say that over a working bus any other run leaves the
chip in agreement. `ShutdownIsBounded` assumes also the compiled-in delay of one period.
`PostponedInv` is the budget behind the bound of four: for each place in the
chain FAULT, E-STOP, FAULT, rejected RESET how many runs can already have been spent,
in terms of the runs since the last touch, which is what keeps a second
E-STOP from starting the chain again.

**The CAN task** (`CanManagerProofs`), from `CanAssumption`: any frames, groups,
timeouts (the two battery identifiers have the same one, as in the code), drain and
debounce. `CanTypeCorrect`, `NeverBoth`, and from `HistInv` the three that compare
the task with what really arrived: `BatteryDataFresh` (`StampsHonest`: a stamp is
never younger than the last frame; `AboutToPublish` carries it from the validity
update to the publication), `DebounceIsExact` (`CountHonest`) and
`LostCellsHeardAgain` (`MaskHonest`).

**The uplink** (`LoraLinkProofs`, `UplinkProofs`). `RadioReady` and `ConfirmIsTrue` hold of the
hand-shake by itself (`E22Spec`). Neither is inductive; `Underway` carries them through
the steps: a late answer that shows the contract shows what the module holds, the
RAM path is taken only where the registers agree, and after the writes the module is
configured unless a command was lost. `UplinkRadioReady` is the same over
`UplinkSpec`, traffic included. `RingIsFifo` proves that the ring implements
`DropOldestFifo` for every capacity: `RingOK` (the tail is the head plus the count,
modulo the capacity) makes push, peek and drop on indices the operations on the
sequence `Contents`, lemma by lemma, and every step of the uplink a step of the queue
or a stutter.

**The display** (`HmiTaskProofs`), for any commands, stray bytes and snapshots.
`PressIsHeard`: `PressInv` says of every byte that is owed an answer which bytes precede
it, or which state the parser is in when it has read those; `EndsFrame` says that
the parser starts over after an intact frame from wherever it was. `CommandsWerePressed`:
`PhantomInv` counts the places on the line that the parser may take for a command
(its byte after a header, before its complement or before what has not been sent
yet): those still to come plus those posted are never more than the presses. A
frame with one byte damaged has at most one such place, for the command pressed
(`FrameFacts`), and none can be made of two frames, whatever the stray byte.
`NumbersAreFresh`: `ScreenInv` says the page shows what was sent last, although only
changes are sent. `HmiTypesHold`, with the snapshots typed as 16-bit words by
`HmiAssumption`: every number on the page and in the cache stays one (`PageTypeOK`); the
extremes of the cells exist by the well-foundedness of the naturals (`LeastOf`,
`GreatestOf`), for any number of cells. `SickCellsAreShown` is `SickCellsNotOk` for every
budget of 53 bytes or more (90 in the code; at 52 TLC finds it violated). The warning
is the last part of a call, so one that was sent means that everything was and that
the cache is warm (`WarningLast`, `WarningUpdated`). `AssuranceInv` says that cells
out of band are on the page after the first round unless that round also refreshed the cells;
the next round does not, and its summary of three parts fits (`SummarySent`).

**The vehicle** (`VehicleProofs`), from the assumptions of both tasks and
`VehicleAssumption`. `VehicleImplementsVcu` and `VehicleImplementsCan` show that every step
of the composition is a step of each component or leaves it alone, so what is proved
of the components holds of the composition. `VehicleInv` adds to `IInv`: `NoCanInv`
(without a CAN task at the right bit rate nothing was heard, published or believed),
`SilenceInv` (seven parts that follow the age of the watched identifier from the
stamp through the validity flag, the queue and the VCU's copy to the state) and
`DangerInv` (the same for a critical condition). They give `NoContactorsWithoutCan`,
`SilenceIsNoticed` and `CriticalIsNoticed`. The proof of the last failed at first, for
a behaviour the run did not contain (READY entered on a motor timeout); the property
now names that entry and the run has the motor frames that reach it.

Only model-checked: every liveness property (`ShutdownReachesContactors`,
`RepairConverges`, `SilenceNoticed`, `BusComesBack`, `ReplayDrains`, `SilenceDeclared`,
`ScreenCatchesUp`), since fairness is outside the prover's reach. The bounds of
`ShutdownBounded` and `RepairBounded` are the safety side of the first two, and proved.

## Not modelled, and what comes next

`MOTOR_DRIVER_PRESENT`, 0 in the shipped build, is a parameter of the predicates;
`sendTorqueCommand` is a stub in that build. Boot failures of the relay driver and
of allocation end in a halt before any task runs. The text of a telemetry packet
(`lib/Telemetry`) is left out: it is one `snprintf` after three clamps, and what matters of it
to the uplink, whether it was written, is in `LoRa_txSend`. Of the main page, the
fields that pass through the same helpers as those kept are left out, and so is
the smoothing of speed and rpm. Logging, the bench firmware `e22_diagnostic.cpp` and the
host tools are not part of the running system. The wrap of the 32-bit tick is
not modelled: it takes 497 days.

Known of the display and not stated as properties: pack voltage and current keep
their last value on the screen after a battery timeout (they have no "no data"
value); while low-numbered cells change every second the high-numbered ones and
the bars may wait; a part whose value equals the one the cache is constructed
with may never be sent after a first refresh that was cut.

Every invariant and action property of the passing runs is stated by a theorem. What
could follow: the order in which a warm page refreshes its cells, as a bound on how
long the last of them waits when the lower ones change no more often than once per
refresh; and the tick counter with its width.
