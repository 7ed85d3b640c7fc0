----------------------------- MODULE CanHistory -----------------------------
(***************************************************************************)
(* CanManager with observers of the frames that really arrived, which the  *)
(* task's own stamps, counters and masks are compared with.                *)
(***************************************************************************)
EXTENDS CanManager

VARIABLES
    silence,   \* periods since a usable frame of each identifier
    badMotor,  \* usable motor frames with error flags since a clean one
    sinceLoss  \* cell groups heard since the cell data was last declared lost

canObservers == <<silence, badMotor, sinceLoss>>
chVars == <<canVars, canObservers>>

Watched == {"E000", "E001"} \cup Group
\* One more than the longest silence that is compared with.
SilenceMax == Timeout["E000"] + Timeout["cell"] + 1

CHInit ==
    /\ CanInit
    /\ silence = [i \in Watched |-> SilenceMax]
    /\ badMotor = 0
    /\ sinceLoss = {}

\* Any frame the drain takes and does not ignore is heard.
ObserveReceive(f) ==
    /\ silence' = IF ~Ignored(f) /\ f.id \in Watched
                  THEN [silence EXCEPT ![f.id] = 0] ELSE silence
    /\ badMotor' = IF Ignored(f) \/ f.id # "MOTOR" THEN badMotor
                   ELSE IF f.data[7] \in {0, 1} THEN 0
                   ELSE IF badMotor < DebounceFrames THEN badMotor + 1 ELSE badMotor
    /\ sinceLoss' = IF ~Ignored(f) /\ f.id \in Group THEN sinceLoss \cup {f.id}
                    ELSE sinceLoss

ObserveEndDrain ==
    /\ sinceLoss' = IF canTel.cellVoltageDataValid /\ ~canTel'.cellVoltageDataValid
                    THEN {} ELSE sinceLoss
    /\ UNCHANGED <<silence, badMotor>>

ObservePublish ==
    /\ silence' = [i \in Watched |-> IF silence[i] < SilenceMax THEN silence[i] + 1
                                     ELSE silence[i]]
    /\ UNCHANGED <<badMotor, sinceLoss>>

\* A step of the task when the frames on the bus are those of `sent'.
CHNextOf(sent) ==
    \/ Arrive /\ UNCHANGED canObservers
    \/ BusOff /\ UNCHANGED canObservers
    \/ BusRecovered /\ UNCHANGED canObservers
    \/ ReadAlerts /\ UNCHANGED canObservers
    \/ \E f \in sent : Receive(f) /\ ObserveReceive(f)
    \/ EndDrain /\ ObserveEndDrain
    \/ Publish /\ ObservePublish
    \/ TakeFault /\ UNCHANGED canObservers

CHNext == CHNextOf(Frames)

CHSpec == CHInit /\ [][CHNext]_chVars /\ CanFairness

-----------------------------------------------------------------------------
\* Battery telemetry published as valid rests on a pack-voltage frame and on a
\* temperature frame that both arrived within the timeout: neither identifier
\* can hide the silence of the other.
BmsFresh ==
    (\E t \in telQueue : t.bmsDataValid) =>
        silence["E000"] <= Timeout["E000"] /\ silence["E001"] <= Timeout["E000"]

\* Motor error flags are shown exactly while the last DebounceFrames usable
\* motor frames all carried some: ignored frames neither count nor break the
\* chain, and the silence of the motor does not lift a confirmed fault.
DebounceExact == canTel.motorErrorFlags # 0 <=> badMotor >= DebounceFrames

\* After complete cell data was lost it is valid again only once every group
\* has been heard again.
CellsHeardAgain == canTel.cellVoltageDataValid => sinceLoss = Group

\* "Only if the data of all 24 cells is fresh" (VcuLogic.h): published cell
\* data that is valid has every group heard within the timeout.
CellsFresh ==
    (\E t \in telQueue : t.cellVoltageDataValid) =>
        \A g \in Group : silence[g] <= Timeout["cell"]
=============================================================================
