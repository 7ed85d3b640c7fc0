------------------------------ MODULE BmsAlgo -------------------------------
(***************************************************************************)
(* computePack of lib/BmsAlgo: what the display task makes of one snapshot *)
(* of the pack.  The fields no caller consumes (pack voltage, SoC, the     *)
(* indices and the temperatures of the result) are left out.               *)
(***************************************************************************)
EXTENDS Integers, FiniteSetsExt

CONSTANT BMS_CELL_COUNT

ASSUME CellCountAssumption == BMS_CELL_COUNT \in Nat \ {0}

Cell == 0 .. BMS_CELL_COUNT - 1

BMS_BALANCE_THRESHOLD_MV  == 50
BMS_BALANCE_TOP_MARGIN_MV == 5
BMS_SOC_EMPTY_MV          == 2500
BMS_SOC_FULL_MV           == 3650

BMS_CELL_UNDERVOLT_CRIT_MV == 2500
BMS_CELL_OVERVOLT_CRIT_MV  == 3650
BMS_TEMP_OVERTEMP_CRIT_C   == 70
BMS_CELL_UNDERVOLT_WARN_MV == 2800
BMS_CELL_OVERVOLT_WARN_MV  == 3550
BMS_TEMP_OVERTEMP_WARN_C   == 55

BMS_WARN_OK       == 0
BMS_WARN_WARNING  == 1
BMS_WARN_CRITICAL == 2
BMS_WARN_NO_DATA  == 3

\* A BmsComputed that is zero but for its warning level.
Unknown(level) ==
    [cellMaxMv |-> 0, cellMinMv |-> 0, warningLevel |-> level,
     balanceFlag |-> [i \in Cell |-> FALSE]]

makeSafeInvalid == Unknown(BMS_WARN_CRITICAL)
makeNoCellData  == Unknown(BMS_WARN_NO_DATA)

\* The worst condition wins; voltages are compared strictly, temperatures not.
WarningLevel(minMv, maxMv, tMax) ==
    IF \/ minMv < BMS_CELL_UNDERVOLT_CRIT_MV \/ maxMv > BMS_CELL_OVERVOLT_CRIT_MV
       \/ tMax >= BMS_TEMP_OVERTEMP_CRIT_C
    THEN BMS_WARN_CRITICAL
    ELSE IF \/ minMv < BMS_CELL_UNDERVOLT_WARN_MV \/ maxMv > BMS_CELL_OVERVOLT_WARN_MV
            \/ tMax >= BMS_TEMP_OVERTEMP_WARN_C
    THEN BMS_WARN_WARNING
    ELSE BMS_WARN_OK

\* The cells to discharge: those within the margin of the highest one, when the
\* pack is out of balance.  The lower end of the band saturates at zero.
Balanced(mv, minMv, maxMv) ==
    LET lowBound == IF maxMv > BMS_BALANCE_TOP_MARGIN_MV
                    THEN maxMv - BMS_BALANCE_TOP_MARGIN_MV ELSE 0
    IN  [i \in Cell |-> maxMv - minMv > BMS_BALANCE_THRESHOLD_MV /\ mv[i] >= lowBound]

computePack(in) ==
    IF ~in.isValid THEN makeSafeInvalid
    ELSE IF ~in.cellDataValid THEN makeNoCellData
    ELSE LET volts == {in.cellVoltageMv[i] : i \in Cell}
             temps == {in.cellTempC[i] : i \in Cell}
             minMv == Min(volts)
             maxMv == Max(volts)
         IN  [cellMaxMv    |-> maxMv,
              cellMinMv    |-> minMv,
              warningLevel |-> WarningLevel(minMv, maxMv, Max(temps)),
              balanceFlag  |-> Balanced(in.cellVoltageMv, minMv, maxMv)]
=============================================================================
