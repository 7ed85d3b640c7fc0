-------------------------- MODULE SafetyPredicates --------------------------
(***************************************************************************)
(* The pure safety predicates of lib/VcuLogic/VcuLogic.h over the fields of *)
(* TelemetryData that they read, with the thresholds of SystemConfig.h and  *)
(* BmsAlgo.h.  Units are the ones the code compares: decivolts, centiamps,  *)
(* degrees Celsius, and for the two cell fields whatever was stored there.  *)
(***************************************************************************)
EXTENDS Integers

CONSTANT MotorDriverPresent  \* MOTOR_DRIVER_PRESENT, 0 in the shipped build

ASSUME MotorDriverAssumption == MotorDriverPresent \in BOOLEAN

\* SystemConfig.h 306-341
PackWarnMin == 720
PackCritMin == 600
PackWarnMax == 852
PackCritMax == 876
TempWarn    == 55
TempCrit    == 70
ChargeWarn    == 1100
ChargeCrit    == 1300
DischargeWarn == 900
DischargeCrit == 1500

\* BmsAlgo.h 68-69, 82-83
CellUnderCrit == 2500
CellOverCrit  == 3650
CellUnderWarn == 2800
CellOverWarn  == 3550

\* uint8_t, uint16_t, int8_t
Uint8  == 0..255
Uint16 == 0..65535
Int8   == -128..127

TelemetryData ==
    [motorErrorFlags      : Uint8,
     motorDataValid       : BOOLEAN,
     motorTimeoutActive   : BOOLEAN,
     bmsDataValid         : BOOLEAN,
     bmsTimeoutActive     : BOOLEAN,
     bmsSystemState       : Uint8,
     packVoltageDeciV     : Uint16,
     currentCentiA        : Int,
     tempHighestC         : Int8,
     cellVoltageDataValid : BOOLEAN,
     cellMin              : Uint16,
     cellMax              : Uint16]

\* A TelemetryData value-initialized with {}.
BlankTelemetry ==
    [motorErrorFlags |-> 0, motorDataValid |-> FALSE, motorTimeoutActive |-> FALSE,
     bmsDataValid |-> FALSE, bmsTimeoutActive |-> FALSE, bmsSystemState |-> 0,
     packVoltageDeciV |-> 0, currentCentiA |-> 0, tempHighestC |-> 0,
     cellVoltageDataValid |-> FALSE, cellMin |-> 0, cellMax |-> 0]

isCurrentCritical(i) == i >= ChargeCrit \/ i <= -DischargeCrit
isCurrentWarning(i)  == i >= ChargeWarn \/ i <= -DischargeWarn
isTempCritical(t)    == t >= TempCrit
isTempWarning(t)     == t >= TempWarn

hasWarningCondition(d) ==
    /\ d.bmsDataValid
    /\ \/ d.cellVoltageDataValid /\ d.cellMin < CellUnderWarn
       \/ d.cellVoltageDataValid /\ d.cellMax > CellOverWarn
       \/ d.packVoltageDeciV <= PackWarnMin
       \/ d.packVoltageDeciV >= PackWarnMax
       \/ isTempWarning(d.tempHighestC)
       \/ isCurrentWarning(d.currentCentiA)

\* The two faults that no state tolerates and no RESET overrides.
HardFault(d) ==
    d.motorErrorFlags # 0 \/ (d.bmsDataValid /\ d.bmsSystemState = 4)

hasCriticalCondition(d, state) ==
    \/ HardFault(d)
    \/ d.motorTimeoutActive /\ state # "IDLE"
    \/ d.bmsTimeoutActive /\ state # "IDLE"
    \/ /\ d.bmsDataValid
       /\ \/ d.cellVoltageDataValid /\ d.cellMin < CellUnderCrit
          \/ d.cellVoltageDataValid /\ d.cellMax > CellOverCrit
          \/ d.packVoltageDeciV <= PackCritMin
          \/ d.packVoltageDeciV >= PackCritMax
          \/ isTempCritical(d.tempHighestC)
          \/ isCurrentCritical(d.currentCentiA)

isResetInterlockSatisfied(d, state) ==
    ~HardFault(d) /\ ~hasCriticalCondition(d, state)

\* Mutant: absence of critical and warning values is taken for clean data.
MutReadyOnNoData(d) ==
    ~hasCriticalCondition(d, "IDLE") /\ ~hasWarningCondition(d)

isReadyEntryPermitted(d) ==
    /\ d.bmsDataValid
    /\ ~hasCriticalCondition(d, "IDLE")
    /\ ~hasWarningCondition(d)
    /\ MotorDriverPresent => d.motorDataValid
=============================================================================
