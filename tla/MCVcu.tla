------------------------------- MODULE MCVcu --------------------------------
(* Small instances of VcuLogic: one channel per port, and one telemetry    *)
(* record per outcome of the safety predicates.                            *)
EXTENDS VcuLogic

CONSTANTS c0, c8, A, B

MCChannel == {c0, c8}
MCPort    == {A, B}
MCPortOf  == [c \in MCChannel |-> IF c = c0 THEN A ELSE B]
\* Losing port B alone is losing port A alone with the ports renamed.
MCLossPatterns == {{}, {A}, {A, B}}

Healthy == [BlankTelemetry EXCEPT !.bmsDataValid = TRUE, !.packVoltageDeciV = 800,
                                  !.tempHighestC = 25]
Hot        == [Healthy EXCEPT !.tempHighestC = 70]
MotorLost  == [Healthy EXCEPT !.motorTimeoutActive = TRUE]

MCTelemetry == {Healthy, Hot, MotorLost}
=============================================================================
