------------------------------ MODULE RelayOps ------------------------------
(***************************************************************************)
(* The relay driver of lib/RelayManager: an MCP23S17 port expander behind  *)
(* an SPI bus drives ten active-low contactor relays, a shadow word holds  *)
(* what was commanded and a read-back compares the chip with the shadow.   *)
(*                                                                         *)
(* Every operation is an operator from a driver state (and the condition   *)
(* of the SPI bus) to the SET of driver states it may leave behind: one    *)
(* element when the bus is healthy, one per pattern of lost transactions   *)
(* when it is not.  A caller sequences two operations by quantifying over  *)
(* the outcomes of the first.                                              *)
(***************************************************************************)
EXTENDS Naturals

CONSTANTS
    Port,        \* the chip's ports (A and B), one OLAT and one IODIR each
    Channel,     \* the relay channels (RELAY_TOTAL_CHANNELS)
    PortOf,      \* the port each channel is wired to
    LossPatterns,\* the sets of ports whose writes a bad bus may lose together
    VerifyTicks  \* RELAY_VERIFY_PERIOD_MS in VCU task periods

ASSUME RelayAssumption ==
    /\ PortOf \in [Channel -> Port]
    /\ LossPatterns \subseteq SUBSET Port
    /\ {} \in LossPatterns
    /\ VerifyTicks \in Nat \ {0}

SpiStates == {"ok", "bad"}

(***************************************************************************)
(* shadow   s_relayState, the channels commanded on                        *)
(* olat     the channels whose output latch is LOW (active-low: relay on)  *)
(* out      the ports whose IODIR is 0x00 (pins are outputs)               *)
(* fault    s_actuatorFault                                                *)
(* started  s_verifyStarted                                                *)
(* age      periods since s_lastVerifyMs, saturated at VerifyTicks         *)
(***************************************************************************)
RelayState == [shadow  : SUBSET Channel,
               olat    : SUBSET Channel,
               out     : SUBSET Port,
               fault   : BOOLEAN,
               started : BOOLEAN,
               age     : 0..VerifyTicks]

\* The relays that are energized: an input pin floats and leaves its relay off.
Energized(r) == {c \in r.olat : PortOf[c] \in r.out}

\* The ports whose next write never arrives: writeRegister logs a failed
\* transaction and carries on.
LostWrites(spi) == IF spi = "ok" THEN {{}} ELSE LossPatterns

\* writeRegister(OLATA), writeRegister(OLATB) with the inverted word of `on'.
writeOlat(r, on, lost) ==
    [r EXCEPT !.olat = {c \in Channel :
                          IF PortOf[c] \in lost THEN c \in r.olat ELSE c \in on}]

\* writeRegister(IODIRA, 0x00), writeRegister(IODIRB, 0x00).
writeIodir(r, lost) == [r EXCEPT !.out = @ \cup (Port \ lost)]

\* Safe order: every latch HIGH, pins to outputs, then the shadow word again.
reinitAndReassert(r, spi) ==
    {writeOlat(writeIodir(writeOlat(r, {}, l[1]), l[2]), r.shadow, l[3]) :
        l \in LostWrites(spi) \X LostWrites(spi) \X LostWrites(spi)}

ChipMatches(r) == r.olat = r.shadow /\ r.out = Port

(***************************************************************************)
(* Read back the four registers.  Agreement leaves everything alone; a     *)
(* mismatch, or a failed read on a bad bus, re-initializes the chip and    *)
(* latches the fault whatever the second read-back (a log line) says.      *)
(***************************************************************************)
verifyOutputs(r, spi) ==
    (IF ChipMatches(r) THEN {r} ELSE {})
    \cup
    (IF ~ChipMatches(r) \/ spi = "bad"
     THEN {[x EXCEPT !.fault = TRUE] : x \in reinitAndReassert(r, spi)}
     ELSE {})

\* Mutant: the latches are written and believed, nothing is read back.
MutCommandUnverified(r, on, spi) ==
    {writeOlat([r EXCEPT !.shadow = on], on, lost) : lost \in LostWrites(spi)}

\* Command a new shadow word, write both latches, read them back.
command(r, on, spi) ==
    UNION {verifyOutputs(writeOlat([r EXCEPT !.shadow = on], on, lost), spi) :
              lost \in LostWrites(spi)}

allOn(r, spi)  == command(r, Channel, spi)
allOff(r, spi) == command(r, {}, spi)

setRelay(r, c, on, spi) ==
    command(r, IF on THEN r.shadow \cup {c} ELSE r.shadow \ {c}, spi)

\* Mutant: the period restarts on every call, so it never elapses.
MutVerifyNeverDue(r, spi) ==
    IF r.age < VerifyTicks THEN {[r EXCEPT !.started = TRUE, !.age = 0]}
    ELSE verifyOutputs([r EXCEPT !.age = 0], spi)

\* Mutant: a chip already known to be faulty is not read back again.
MutVerifyHealthyOnly(r, spi) ==
    IF r.fault \/ r.age < VerifyTicks THEN {[r EXCEPT !.started = TRUE]}
    ELSE verifyOutputs([r EXCEPT !.age = 0], spi)

\* The first call starts the period; later ones verify once it has elapsed.
\* `age' already counts the current period.
verifyIfDue(r, spi) ==
    IF ~r.started THEN {[r EXCEPT !.started = TRUE, !.age = 0]}
    ELSE IF r.age < VerifyTicks THEN {r}
    ELSE verifyOutputs([r EXCEPT !.age = 0], spi)

hasActuatorFault(r) == r.fault

clearActuatorFault(r) == [r EXCEPT !.fault = FALSE]

\* One VCU task period passes (s_uptimeMs advances).
Elapse(r) == [r EXCEPT !.age = IF @ < VerifyTicks THEN @ + 1 ELSE @]

\* A supply dip resets the chip: pins become inputs, latches 0x00 (all LOW).
BrownedOut(r) == [r EXCEPT !.olat = Channel, !.out = {}]

\* The chip at power-on and the driver's static initializers.
PowerOn == [shadow |-> {}, olat |-> Channel, out |-> {}, fault |-> FALSE,
            started |-> FALSE, age |-> 0]

\* RelayManager::begin once the SPI device exists: latches HIGH, pins to
\* outputs, first read-back.
begin(spi) ==
    UNION {verifyOutputs(writeIodir(writeOlat(PowerOn, {}, l[1]), l[2]), spi) :
              l \in LostWrites(spi) \X LostWrites(spi)}
=============================================================================
