------------------------------- MODULE MCCan --------------------------------
(* Instances of the CAN task: concrete frames, few cell groups, timeouts of *)
(* two periods.                                                             *)
EXTENDS CanHistory

Frame(id, data) == [id |-> id, rtr |-> FALSE, dlc |-> 8, data |-> data]
Bytes(a, b, c, d, e, f, g, h) ==
    [i \in 0..7 |-> <<a, b, c, d, e, f, g, h>>[i + 1]]
Zeros == Bytes(0, 0, 0, 0, 0, 0, 0, 0)

\* 80.0 V and -5.0 A; 60.0 V is the critical minimum.
PackNominal == Frame("E000", Bytes(255, 206, 3, 32, 0, 0, 0, 0))
PackLow     == Frame("E000", Bytes(0, 0, 2, 88, 0, 0, 0, 0))
\* Cells of 3350.5 and 3431.1 mV, 25 C and -4 C.
Cells       == Frame("E001", Bytes(130, 225, 134, 7, 0, 0, 25, 252))
Freezing    == Frame("E001", Bytes(130, 225, 134, 7, 0, 0, 251, 252))
MotorRuns   == Frame("MOTOR", Bytes(0, 0, 0, 0, 0, 0, 0, 1))
MotorBad    == Frame("MOTOR", Bytes(0, 0, 0, 0, 0, 0, 0, 3))
MotorShort  == [MotorRuns EXCEPT !.dlc = 7]
Remote      == [PackNominal EXCEPT !.rtr = TRUE]
Charger     == [id |-> "CHARGER", rtr |-> FALSE, dlc |-> 4, data |-> Zeros]
Stub        == Frame("STUB", Zeros)
CellFrames  == {Frame(g, Zeros) : g \in Group}

MCGroup   == {"E015", "E016"}
MCTimeout == [s \in Streams |-> 2]

DriveFrames   == {PackNominal, PackLow, Freezing, MotorRuns, MotorBad, MotorShort,
                  Remote}
CellAndPack   == CellFrames \cup {Charger, Stub, PackNominal}
MCFrames      == DriveFrames \cup CellAndPack
NominalFrames == {PackNominal, Cells, MotorRuns} \cup CellFrames
=============================================================================
