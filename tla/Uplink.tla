------------------------------- MODULE Uplink -------------------------------
(***************************************************************************)
(* The telemetry uplink: vTask_LoRa_UKS of src/main.cpp with the scheduler *)
(* of lib/LoraLink and the buffer of lib/OfflineBuffer.                    *)
(*                                                                         *)
(* The task first installs its UART, giving up after MaxAttempts failures, *)
(* and configures the radio.  Then every iteration of its loop reads the   *)
(* radio, re-evaluates the link and, once per TX period, transmits or      *)
(* samples.  Time is counted in TX periods (LORA_TX_PERIOD_MS): Loop takes *)
(* no time, TxTick one period.                                             *)
(* Ages saturate one above the bound they are compared with.               *)
(***************************************************************************)
EXTENDS OfflineBuffer, LoraLink

CONSTANTS
    MaxAttempts,   \* LORA_UART_MAX_INIT_ATTEMPTS
    LinkTimeout,   \* LINK_TIMEOUT_MS
    BootGrace,     \* BOOT_LINK_GRACE_MS
    SamplePeriod,  \* OFFLINE_SAMPLE_PERIOD_MS
    Burst          \* REPLAY_BURST_PER_TICK

ASSUME UplinkAssumption ==
    /\ MaxAttempts \in Nat /\ LinkTimeout \in Nat /\ BootGrace \in Nat
    /\ SamplePeriod \in Nat \ {0} /\ Burst \in Nat \ {0}

VARIABLES
    upPhase,    \* "init", "disabled", "config", "loop" or, in a TX tick, "replay"
    attempts,   \* failed UART installations
    heard,      \* m_lastHeartbeatMs is not 0
    hbAge,      \* periods since m_lastHeartbeatMs
    bootAge,    \* periods since LO_bootMs
    linkDown,   \* m_linkDown
    hasSamples, \* m_offlineHasSamples
    sampleAge,  \* periods since m_lastOfflineSampleMs
    ring,       \* the offline buffer
    burst,      \* replays done in this TX tick
    live,       \* TEL_sensorDataQueue: empty, or its one element
    radio,      \* the module: ready, busy (AUX low, TX ring full), failing writes
    taken,      \* observer: the sample replay removed last
    takenSent   \* observer: it was written to the radio

upVars == <<upPhase, attempts, heard, hbAge, bootAge, linkDown, hasSamples, sampleAge,
            ring, burst, live, radio, taken, takenSent, e22Vars>>

link == <<heard, hbAge, bootAge, linkDown, hasSamples, sampleAge>>

UplinkTypeOK ==
    /\ upPhase \in {"init", "disabled", "config", "loop", "replay"}
    /\ attempts \in 0..MaxAttempts
    /\ heard \in BOOLEAN /\ linkDown \in BOOLEAN /\ hasSamples \in BOOLEAN
    /\ hbAge \in 0..LinkTimeout + 1
    /\ bootAge \in 0..BootGrace + 1
    /\ sampleAge \in 0..SamplePeriod
    /\ ring \in Ring
    /\ burst \in 0..Burst
    /\ live \subseteq Sample
    /\ radio \in {"ready", "busy", "failing"}
    /\ taken \in Sample \cup {NoSample} /\ takenSent \in BOOLEAN
    /\ E22TypeOK

UplinkInit ==
    /\ upPhase = "init" /\ attempts = 0
    /\ heard = FALSE /\ hbAge = 0 /\ bootAge = 0
    /\ linkDown = FALSE /\ hasSamples = FALSE /\ sampleAge = 0
    /\ ring = EmptyRing /\ burst = 0
    /\ live = {} /\ radio = "ready"
    /\ taken = NoSample /\ takenSent = TRUE
    /\ E22Init

-----------------------------------------------------------------------------
(* The other tasks and the radio.                                          *)

CanPublish(d) ==
    /\ live' = {d}
    /\ UNCHANGED <<upPhase, attempts, link, ring, burst, radio, taken, takenSent, e22Vars>>

RadioChange ==
    /\ radio' \in {"ready", "busy", "failing"} \ {radio}
    /\ UNCHANGED <<upPhase, attempts, link, ring, burst, live, taken, takenSent, e22Vars>>

-----------------------------------------------------------------------------
(* EspLoraHal::begin                                                       *)

uart_init_retry_decision(failed) ==
    IF failed >= MaxAttempts THEN "disabled" ELSE "init"

UartInit(ok) ==
    /\ upPhase = "init"
    /\ attempts' = IF ok \/ attempts = MaxAttempts THEN attempts ELSE attempts + 1
    /\ upPhase' = IF ok THEN "config" ELSE uart_init_retry_decision(attempts + 1)
    /\ UNCHANGED <<link, ring, burst, live, radio, taken, takenSent, e22Vars>>

\* configureE22 step by step; when it returns, the scheduler is built and
\* LO_bootMs taken.
Configure ==
    /\ upPhase = "config"
    /\ configureE22
    /\ upPhase' = IF cfgStep' = "done" THEN "loop" ELSE "config"
    /\ UNCHANGED <<attempts, link, ring, burst, live, radio, taken, takenSent>>

-----------------------------------------------------------------------------
(* The loop                                                                *)

Aged(n, max, elapsed) == IF n + elapsed <= max THEN n + elapsed ELSE max

\* Mutant: without a first heartbeat the link is never considered down.
MutNoBootGrace(seen, sinceBeat, sinceBoot) == seen /\ sinceBeat > LinkTimeout

link_check_timeout_with_boot_grace(seen, sinceBeat, sinceBoot) ==
    IF seen THEN sinceBeat > LinkTimeout ELSE sinceBoot > BootGrace

\* onRxByte for what was read (only a heartbeat matters), then updateLink.
Receive(beat, elapsed) ==
    LET silent == link_check_timeout_with_boot_grace(heard', hbAge', bootAge')
    IN  /\ heard' = (heard \/ beat)
        /\ hbAge' = IF beat THEN 0 ELSE Aged(hbAge, LinkTimeout + 1, elapsed)
        /\ bootAge' = Aged(bootAge, BootGrace + 1, elapsed)
        /\ linkDown' = IF silent /\ ~linkDown THEN TRUE
                       ELSE IF ~silent /\ linkDown /\ heard' THEN FALSE
                       ELSE linkDown

\* Going down forgets the samples of an earlier outage, not the buffer.
Remembered == hasSamples /\ ~(linkDown' /\ ~linkDown)

\* An iteration that is not due to transmit.
Loop(beat) ==
    /\ upPhase = "loop"
    /\ Receive(beat, 0)
    /\ hasSamples' = Remembered
    /\ UNCHANGED <<upPhase, attempts, sampleAge, ring, burst, live, radio, taken,
                   takenSent, e22Vars>>

offline_should_sample(has, since) == ~has \/ since >= SamplePeriod

\* The link is down: buffer what the telemetry queue holds, thinned out.
SampleTick(beat) ==
    /\ upPhase = "loop"
    /\ Receive(beat, 1)
    /\ linkDown'
    /\ LET since == Aged(sampleAge, SamplePeriod, 1)
       IN  IF live # {} /\ offline_should_sample(Remembered, since)
           THEN /\ \E d \in live : ring' = ob_push(ring, d)
                /\ hasSamples' = TRUE
                /\ sampleAge' = 0
           ELSE ring' = ring /\ hasSamples' = Remembered /\ sampleAge' = since
    /\ UNCHANGED <<upPhase, attempts, burst, live, radio, taken, takenSent, e22Vars>>

\* The link is up: onTxTickLinkUp starts.
TransmitTick(beat) ==
    /\ upPhase = "loop"
    /\ Receive(beat, 1)
    /\ ~linkDown'
    /\ hasSamples' = Remembered
    /\ sampleAge' = Aged(sampleAge, SamplePeriod, 1)
    /\ burst' = 0
    /\ upPhase' = "replay"
    /\ UNCHANGED <<attempts, ring, live, radio, taken, takenSent, e22Vars>>

\* LoRa_txSend refuses a busy radio; otherwise it answers true, whether or
\* not sendStatus could write.
LoRa_txSend == radio # "busy"

MayReplay == burst < Burst /\ ob_count(ring) > 0 /\ LoRa_txSend

\* Mutant: the sample that was sent stays in the buffer.
MutReplayKeeps ==
    /\ upPhase = "replay" /\ MayReplay
    /\ taken' = ob_peek(ring)
    /\ takenSent' = (radio = "ready")
    /\ burst' = burst + 1
    /\ UNCHANGED <<upPhase, attempts, link, ring, live, radio, e22Vars>>

ReplayOne ==
    /\ upPhase = "replay" /\ MayReplay
    /\ taken' = ob_peek(ring)
    /\ takenSent' = (radio = "ready")
    /\ ring' = ob_drop_front(ring)
    /\ burst' = burst + 1
    /\ UNCHANGED <<upPhase, attempts, link, live, radio, e22Vars>>

\* The burst is over; the live packet is sent or skipped.
EndTransmit ==
    /\ upPhase = "replay" /\ ~MayReplay
    /\ upPhase' = "loop"
    /\ UNCHANGED <<attempts, link, ring, burst, live, radio, taken, takenSent, e22Vars>>

TxTick(beat) == SampleTick(beat) \/ TransmitTick(beat)
Transmit == ReplayOne \/ EndTransmit

UplinkNext ==
    \/ \E d \in Sample : CanPublish(d)
    \/ RadioChange
    \/ \E ok \in BOOLEAN : UartInit(ok)
    \/ Configure
    \/ \E beat \in BOOLEAN : Loop(beat) \/ TxTick(beat)
    \/ Transmit

\* The task never blocks: its UART attempts end, every wait of configureE22
\* has a timeout, its TX ticks keep coming.
UplinkFairness ==
    /\ WF_upVars(\E ok \in BOOLEAN : UartInit(ok))
    /\ WF_upVars(Configure)
    /\ WF_upVars(\E beat \in BOOLEAN : TxTick(beat))
    /\ WF_upVars(Transmit)

UplinkSpec == UplinkInit /\ [][UplinkNext]_upVars /\ UplinkFairness

-----------------------------------------------------------------------------
\* The ring of indices behaves like a first-in first-out queue that gives up
\* its oldest sample when full, over any number of outages, wrap-arounds and
\* interrupted replays: what is replayed is what was sampled, in order, once.
Fifo == INSTANCE DropOldestFifo WITH pending <- Contents(ring)
RefinesFifo == Fifo!FifoSpec

\* Once the link stays up and the radio stays ready, everything buffered is
\* replayed.
ReplayDrains ==
    <>[](~linkDown /\ radio = "ready" /\ upPhase \in {"loop", "replay"}) =>
        <>[](ob_count(ring) = 0)

\* When heartbeats stop for good, also when none ever came, the link is
\* declared down for good and sampling starts.
SilenceDeclared ==
    <>[][~(Loop(TRUE) \/ TxTick(TRUE))]_upVars =>
        <>[](linkDown \/ upPhase = "disabled")

\* "If it cannot transmit it returns FALSE and the replay packet is not
\* dropped from the buffer" (UplinkScheduler.h): a sample that replay removed
\* was written to the radio.
NoSilentDrop == takenSent
=============================================================================
