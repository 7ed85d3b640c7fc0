------------------------------ MODULE HmiTask -------------------------------
(***************************************************************************)
(* vTask_HMI_Display: the start of the display with its retries, and the   *)
(* loop that peeks the telemetry twice (for DisplayHMI::updateScreen, then *)
(* for the battery page) and polls the touch panel.  The CAN task may      *)
(* publish between any two steps.                                          *)
(***************************************************************************)
EXTENDS BmsNextionPacket, TouchPanel

CONSTANTS
    Snapshots,  \* what the CAN task may publish
    CellEvery,  \* rounds of the loop per second, at the least
    MaxBegins   \* begin() attempts, 5 in the code

ASSUME HmiAssumption ==
    /\ CellEvery \in Nat \ {0, 1} /\ MaxBegins \in Nat \ {0}
    /\ \A t \in Snapshots : /\ t.bms \in BOOLEAN /\ t.cells \in BOOLEAN
                            /\ t.mv \in [Cell -> Word]

VARIABLES
    hmiStep,     \* "begin", "degraded", or the next step of the loop
    retryCount,  \* retry_count
    tel,         \* TEL_sensorDataQueue, with queued FALSE while it is empty
    lastData,    \* HMI_lastScreenData
    hasCached,   \* HMI_hasCachedScreen
    dash,        \* what the main page shows
    cache,       \* BMS_hmiCache
    isWarm,
    page,        \* what the battery page shows
    sinceCells,  \* rounds since BMS_lastCellUpdateMs, -1 before the first
    sickRounds,  \* observer: rounds that ended since the cells were last in band
    lostRounds   \* observer: rounds that ended since the pack data was last valid

screenVars == <<lastData, hasCached, dash>>
pageVars   == <<cache, isWarm, page, sinceCells>>
sights     == <<sickRounds, lostRounds>>
hmiVars    == <<hmiStep, retryCount, tel, screenVars, pageVars, sights, touchVars>>

Steps == {"begin", "degraded", "screen", "page", "touch"}

HMI_BATTERY_NO_DATA      == 255
HMI_TEMP_NO_DATA         == -127
HMI_CELL_VOLTAGE_NO_DATA == 65535

EmptyQueue ==
    [queued |-> FALSE, bms |-> FALSE, cells |-> FALSE, mv |-> [i \in Cell |-> 0],
     soc |-> 0, temp |-> 0, packv |-> 0, motorValid |-> FALSE, motorTimeout |-> FALSE]

-----------------------------------------------------------------------------
(* The main page.  Speed, torque, state, contactors and the others that go *)
(* through the same helpers are left out.                                  *)

HMI_getValidityText(valid, timeout) ==
    IF timeout THEN "TIMEOUT" ELSE IF valid THEN "VALID" ELSE "INVALID"

\* Mutant: the charge is shown whether or not the pack data is valid.
MutBatteryUnchecked(bms, soc) == IF soc \div 100 > 100 THEN 100 ELSE soc \div 100

HMI_batteryDisplayValue(bms, soc) ==
    IF ~bms THEN HMI_BATTERY_NO_DATA
    ELSE IF soc \div 100 > 100 THEN 100 ELSE soc \div 100

HMI_temperatureDisplayValue(bms, temp) == IF ~bms THEN HMI_TEMP_NO_DATA ELSE temp

ScreenData(t) ==
    [bat          |-> HMI_batteryDisplayValue(t.bms, t.soc),
     temp         |-> HMI_temperatureDisplayValue(t.bms, t.temp),
     packv        |-> t.packv,
     motorValid   |-> t.motorValid,
     motorTimeout |-> t.motorTimeout]

\* The text of each component for given data.
Shown(d) == [bat   |-> d.bat,
             temp  |-> d.temp,
             packv |-> d.packv,
             valid |-> HMI_getValidityText(d.motorValid, d.motorTimeout)]

NoText  == [bat |-> -1, temp |-> -1, packv |-> -1, valid |-> "boot"]
NoValue == -1   \* a part of the page no command has set

PageValue == NoValue .. 65535   \* a Word or NoValue

\* HMI_sendNumericIfChanged, HMI_sendTextIfChanged: what a component shows next.
HMI_sendIfChanged(shown, value, lastValue, force) ==
    IF ~force /\ value = lastValue THEN shown ELSE value

updateScreen(data) ==
    /\ dash' = [f \in DOMAIN dash |->
                  HMI_sendIfChanged(dash[f], Shown(data)[f], Shown(lastData)[f], ~hasCached)]
    /\ lastData' = data /\ hasCached' = TRUE

-----------------------------------------------------------------------------
(* The battery page.                                                       *)

PackData(t) ==
    LET known == t.bms /\ t.cells
    IN  [isValid       |-> t.bms,
         cellDataValid |-> t.cells,
         cellVoltageMv |-> [i \in Cell |-> IF known THEN t.mv[i]
                                           ELSE HMI_CELL_VOLTAGE_NO_DATA],
         cellTempC     |-> [i \in Cell |-> 0]]

\* Without valid pack data the task fills in the result itself.
PackComputed(t) ==
    IF t.bms THEN computePack(PackData(t))
    ELSE [Unknown(BMS_WARN_CRITICAL) EXCEPT !.cellMaxMv = HMI_CELL_VOLTAGE_NO_DATA,
                                            !.cellMinMv = HMI_CELL_VOLTAGE_NO_DATA]

PageFor == [t \in Snapshots \cup {EmptyQueue} |-> Wanted(PackComputed(t), PackData(t))]

updatePage ==
    LET first == sinceCells = -1
        due   == first \/ sinceCells + 1 >= CellEvery
    IN  /\ sinceCells' = IF due THEN 0 ELSE sinceCells + 1
        /\ \E want \in {PageFor[tel]} :
           \E out \in {buildBmsNextionCommands(want, cache, isWarm, first, due)} :
              /\ cache' = out.cache /\ isWarm' = out.isWarm
              /\ page' = [p \in Parts |-> IF p \in out.sent THEN want[p] ELSE page[p]]

-----------------------------------------------------------------------------
HmiInit ==
    /\ hmiStep = "begin" /\ retryCount = 0
    /\ tel = EmptyQueue
    /\ lastData = [bat |-> 0, temp |-> 0, packv |-> 0,
                   motorValid |-> FALSE, motorTimeout |-> FALSE]
    /\ hasCached = FALSE /\ dash = NoText
    /\ cache = BlankCache /\ isWarm = FALSE
    /\ page = [p \in Parts |-> NoValue] /\ sinceCells = -1
    /\ sickRounds = 0 /\ lostRounds = 0
    /\ TouchInit

BeginFails ==
    /\ hmiStep = "begin"
    /\ retryCount' = retryCount + 1
    /\ hmiStep' = IF retryCount' < MaxBegins THEN "begin" ELSE "degraded"
    /\ UNCHANGED <<tel, screenVars, pageVars, sights, touchVars>>

\* The count of attempts is dead from here on.
BeginSucceeds ==
    /\ hmiStep = "begin"
    /\ drainRxBuffer
    /\ hmiStep' = "screen" /\ retryCount' = 0
    /\ UNCHANGED <<tel, screenVars, pageVars, sights>>

\* The task only feeds the watchdog from here on.
SleepDegraded == hmiStep = "degraded" /\ UNCHANGED hmiVars

UpdateScreen ==
    /\ hmiStep = "screen"
    /\ updateScreen(ScreenData(tel))
    /\ hmiStep' = "page"
    /\ UNCHANGED <<retryCount, tel, pageVars, sights, touchVars>>

UpdatePage ==
    /\ hmiStep = "page"
    /\ updatePage
    /\ hmiStep' = "touch"
    /\ UNCHANGED <<retryCount, tel, screenVars, sights, touchVars>>

\* The cells are known and their voltages raise no warning.  Of a pack in this
\* band that is too hot, see HotPackIsCritical.
CellsInBand(t) == t.bms /\ t.cells /\ \A i \in Cell : t.mv[i] \in 2800..3550

RoundEnds ==
    /\ hmiStep' = "screen"
    /\ sickRounds' = IF CellsInBand(tel) THEN 0 ELSE Min({sickRounds + 1, 3})
    /\ lostRounds' = IF tel.bms THEN 0 ELSE Min({lostRounds + 1, 2})

\* A byte is read; the poll goes on unless it completed a command.
PollByte ==
    /\ hmiStep = "touch"
    /\ ReadByte
    /\ IF Completes THEN RoundEnds ELSE UNCHANGED <<hmiStep, sights>>
    /\ UNCHANGED <<retryCount, tel, screenVars, pageVars>>

\* No byte has arrived (yet): the poll is over, and the round after its delay.
PollEnds ==
    /\ hmiStep = "touch"
    /\ RoundEnds
    /\ UNCHANGED <<retryCount, tel, screenVars, pageVars, touchVars>>

PressButton(c) ==
    /\ hmiStep \notin {"begin", "degraded"}
    /\ Press(c)
    /\ UNCHANGED <<hmiStep, retryCount, tel, screenVars, pageVars, sights>>

Publish(t) ==
    /\ t # tel
    /\ tel' = t
    /\ sickRounds' = IF CellsInBand(t) THEN 0 ELSE sickRounds
    /\ lostRounds' = IF t.bms THEN 0 ELSE lostRounds
    /\ UNCHANGED <<hmiStep, retryCount, screenVars, pageVars, touchVars>>

HmiStep == \/ BeginFails \/ BeginSucceeds \/ SleepDegraded \/ UpdateScreen \/ UpdatePage
           \/ PollByte \/ PollEnds

HmiNext ==
    \/ HmiStep
    \/ \E c \in Commands : PressButton(c)
    \/ \E t \in Snapshots : Publish(t)

\* The task comes to its next step: it runs again after each delay, and what it
\* may repeat, a failing begin() or a byte of the poll, it repeats finitely often.
\* Nothing makes anyone publish or press.
Turn == hmiStep # "degraded" /\ hmiStep' \in Steps \ {hmiStep}

HmiFairness == WF_hmiStep(Turn)

HmiSpec == HmiInit /\ [][HmiNext]_hmiVars /\ HmiFairness

-----------------------------------------------------------------------------
HmiTypeOK ==
    /\ hmiStep \in Steps
    /\ retryCount \in 0..MaxBegins
    /\ tel \in Snapshots \cup {EmptyQueue}
    /\ hasCached \in BOOLEAN /\ isWarm \in BOOLEAN
    /\ cache \in [Parts -> Word]
    /\ page \in [Parts -> PageValue]
    /\ sinceCells \in -1 .. CellEvery - 1
    /\ sickRounds \in 0..3 /\ lostRounds \in 0..2
    /\ TouchTypeOK

\* Two whole rounds of the loop after a cell's voltage left the band, or the data
\* went stale, the warning of the battery page is no longer OK, also when the
\* byte budget is used up by cells that keep changing.
SickCellsNotOk ==
    sickRounds = 3 => page[<<"warn", -1>>] # BMS_WARN_OK

\* Charge and temperature of a pack that went silent are not shown as numbers
\* beyond the round that notices it, although the task peeks the queue once
\* per page and compares with what it sent before.
NoStaleNumber ==
    lostRounds = 2 => dash.bat \in {HMI_BATTERY_NO_DATA, NoText.bat}
                      /\ dash.temp \in {HMI_TEMP_NO_DATA, NoText.temp}

\* Every part of the page shows its value; one whose value is the one the cache was
\* constructed with may never have been set.
PageShows(t) ==
    \E want \in {PageFor[t]} :
      \A p \in Parts : page[p] = want[p] \/ (page[p] = NoValue /\ want[p] = BlankCache[p])

\* Once the telemetry no longer changes both pages come to show it and keep
\* showing it, however often the byte budget cut a call short on the way.
ScreenCatchesUp ==
    <>[][tel' = tel]_tel =>
        <>[](\/ hmiStep = "degraded"
             \/ dash = Shown(ScreenData(tel)) /\ PageShows(tel))

-----------------------------------------------------------------------------
(* What the source's comments claim and the code does not keep.            *)

\* "At exactly 70 C the screen shows CRITICAL too, at the time the VCU goes to
\* FAULT" (BmsAlgo.h): a pack that stays that hot, its cells known, comes to be
\* shown as critical.
HotPackIsCritical ==
    <>[](tel.bms /\ tel.cells /\ tel.temp >= BMS_TEMP_OVERTEMP_CRIT_C) =>
        <>[](hmiStep = "degraded" \/ page[<<"warn", -1>>] = BMS_WARN_CRITICAL)
=============================================================================
