----------------------------- MODULE MCVehicle ------------------------------
(* One contactor, a pack that is nominal or at its critical minimum, the    *)
(* two battery identifiers and a motor without errors.                      *)
EXTENDS Vehicle

CONSTANTS c0, A

OneChannel      == {c0}
OnePort         == {A}
OnePortOf       == [c \in OneChannel |-> A]
OneLossPatterns == {{}}

Frame(id, data) == [id |-> id, rtr |-> FALSE, dlc |-> 8, data |-> data]
Bytes(a, b, c, d, e, f, g, h) ==
    [i \in 0..7 |-> <<a, b, c, d, e, f, g, h>>[i + 1]]

\* 80.0 V and 0 A; 60.0 V is the critical minimum; 25 C twice.
PackNominal == Frame("E000", Bytes(0, 0, 3, 32, 0, 0, 0, 0))
PackLow     == Frame("E000", Bytes(0, 0, 2, 88, 0, 0, 0, 0))
Temperature == Frame("E001", Bytes(0, 0, 0, 0, 0, 0, 25, 25))
MotorFine   == Frame("MOTOR", Bytes(0, 0, 0, 0, 0, 0, 0, 0))
MCFrames    == {PackNominal, PackLow, Temperature, MotorFine}
MCGroup     == {"E015"}
MCTimeout   == [s \in {"motor", "E000", "E001", "cell", "charger"} |-> IF s = "motor" THEN 1 ELSE 2]

\* Everything these frames can be decoded and validated to.
MCTelemetry ==
    {[BlankTelemetry EXCEPT !.bmsDataValid = v, !.bmsTimeoutActive = t,
                            !.motorDataValid = m, !.motorTimeoutActive = n,
                            !.packVoltageDeciV = p, !.tempHighestC = c] :
        v, t, m, n \in BOOLEAN, p \in {0, 600, 800}, c \in {0, 25}}
=============================================================================
