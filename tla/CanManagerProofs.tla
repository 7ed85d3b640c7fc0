-------------------------- MODULE CanManagerProofs --------------------------
(***************************************************************************)
(* Proofs about the CAN task.  CanInv, the invariant of CanManager alone,  *)
(* gives its type and the exclusion of the two validity flags; HistInv,    *)
(* over the observers of CanHistory, ties the stamps, the debounce counter *)
(* and the cell mask to the frames that really arrived.                    *)
(***************************************************************************)
EXTENDS CanHistory, TLAPS

-----------------------------------------------------------------------------
(* The decoders stay within the types of the fields they fill.             *)

\* The arithmetic of the decoders, apart from where the bytes come from.
Pair(a, b)   == a * 256 + b
ErrorBits(b) == b - (b % 2)
CentiA(w)    == Signed(w, 16) * 10

\* A pair of bytes is a 16-bit word, bit 0 apart a byte is zero exactly when
\* it is 0 or 1, and the casts stay within their type.
LEMMA ArithmeticFacts ==
    /\ \A a, b \in Uint8 : Pair(a, b) \in Uint16
    /\ \A b \in Uint8 : ErrorBits(b) \in Uint8 /\ (ErrorBits(b) = 0 <=> b \in {0, 1})
    /\ \A w \in Uint16 : CentiA(w) \in Int
    /\ \A b \in Uint8 : Signed(b, 8) \in Int8
  <1>1. ASSUME NEW a \in Uint8, NEW b \in Uint8 PROVE Pair(a, b) \in Uint16
    BY SMTT(30) DEF Pair, Uint8, Uint16
  <1>2. ASSUME NEW b \in Uint8
        PROVE  ErrorBits(b) \in Uint8 /\ (ErrorBits(b) = 0 <=> b \in {0, 1})
    BY DEF ErrorBits, Uint8
  <1>3. ASSUME NEW w \in Uint16 PROVE CentiA(w) \in Int
    BY DEF CentiA, Signed, Uint16
  <1>4. ASSUME NEW b \in Uint8 PROVE Signed(b, 8) \in Int8
    BY SMTT(30) DEF Signed, Uint8, Int8
  <1> QED
    BY <1>1, <1>2, <1>3, <1>4, SMTT(30)

\* A big-endian field of a frame is a 16-bit word.
LEMMA BigEndianFacts ==
    ASSUME NEW d \in [0..7 -> Byte], NEW i \in 0..6
    PROVE  BigEndian16(d, i) \in Uint16
  <1>1. d[i] \in Uint8 /\ d[i + 1] \in Uint8
    BY DEF Byte, Uint8
  <1>2. BigEndian16(d, i) = Pair(d[i], d[i + 1])
    BY DEF BigEndian16, Pair
  <1>3. Pair(d[i], d[i + 1]) \in Uint16
    BY <1>1, ArithmeticFacts
  <1> QED
    BY <1>2, <1>3

\* The error flags of a motor frame are clear exactly when at most the
\* running bit is set.
LEMMA MotorStatusFacts ==
    ASSUME NEW d \in [0..7 -> Byte]
    PROVE  /\ parseMotorStatus(d).errorFlags \in Uint8
           /\ parseMotorStatus(d).errorFlags = 0 <=> d[7] \in {0, 1}
  <1>1. d[7] \in Uint8
    BY DEF Byte, Uint8
  <1>2. parseMotorStatus(d).errorFlags = ErrorBits(d[7])
    BY DEF parseMotorStatus, ErrorBits
  <1> QED
    BY <1>1, <1>2, ArithmeticFacts

\* The pack frame fills an integer and a 16-bit field.
LEMMA PackFrameFacts ==
    ASSUME NEW d \in [0..7 -> Byte]
    PROVE  /\ parseLbBmsE000(d).currentCentiA \in Int
           /\ parseLbBmsE000(d).packVoltageDeciV \in Uint16
  <1>1. BigEndian16(d, 0) \in Uint16 /\ BigEndian16(d, 2) \in Uint16
    BY BigEndianFacts
  <1>2. /\ parseLbBmsE000(d).currentCentiA = CentiA(BigEndian16(d, 0))
        /\ parseLbBmsE000(d).packVoltageDeciV = BigEndian16(d, 2)
    BY DEF parseLbBmsE000, CentiA
  <1> QED
    BY <1>1, <1>2, ArithmeticFacts

\* The cell frame fills two 16-bit fields and a signed byte.
LEMMA CellFrameFacts ==
    ASSUME NEW d \in [0..7 -> Byte]
    PROVE  /\ parseLbBmsE001(d).cellMin \in Uint16
           /\ parseLbBmsE001(d).cellMax \in Uint16
           /\ parseLbBmsE001(d).tempHighestC \in Int8
  <1>1. BigEndian16(d, 0) \in Uint16 /\ BigEndian16(d, 2) \in Uint16
    BY BigEndianFacts
  <1>2. d[6] \in Uint8 /\ d[7] \in Uint8
    BY DEF Byte, Uint8
  <1>3. Signed(d[6], 8) \in Int8 /\ Signed(d[7], 8) \in Int8
    BY <1>2, ArithmeticFacts
  <1>4. /\ parseLbBmsE001(d).cellMin = BigEndian16(d, 0)
        /\ parseLbBmsE001(d).cellMax = BigEndian16(d, 2)
        /\ \/ parseLbBmsE001(d).tempHighestC = Signed(d[6], 8)
           \/ parseLbBmsE001(d).tempHighestC = Signed(d[7], 8)
    BY DEF parseLbBmsE001
  <1> QED
    BY <1>1, <1>3, <1>4

-----------------------------------------------------------------------------
(* The invariant of the task alone.                                        *)

\* The telemetry under construction never says of one stream that its data
\* is valid and that it timed out.
TelExclusive ==
    /\ ~(canTel.motorDataValid /\ canTel.motorTimeoutActive)
    /\ ~(canTel.bmsDataValid /\ canTel.bmsTimeoutActive)

CanInv == CanTypeOK /\ TelExclusive /\ ValidityExclusive

\* A timeout is at least one period; the two battery identifiers share one.
LEMMA TimeoutFacts ==
    /\ \A s \in Streams : Timeout[s] \in Nat /\ Timeout[s] >= 1
    /\ Timeout["E000"] = Timeout["E001"]
  <1>1. Timeout \in [Streams -> Nat \ {0}] /\ Timeout["E000"] = Timeout["E001"]
    BY CanAssumption
  <1> QED
    BY <1>1

\* Stamping a stream keeps the types of the stamps.
LEMMA HeardFacts ==
    ASSUME CanTypeOK, NEW s \in Streams, Heard(s)
    PROVE  /\ seen' \subseteq Streams
           /\ age' \in [Streams -> Nat] /\ \A i \in Streams : age'[i] <= Timeout[i]
  <1>1. seen' = seen \cup {s} /\ age' = [age EXCEPT ![s] = 0]
    BY DEF Heard
  <1>2. age \in [Streams -> Nat] /\ \A i \in Streams : age[i] <= Timeout[i]
    BY DEF CanTypeOK
  <1>3. age' \in [Streams -> Nat] /\ \A i \in Streams : age'[i] <= Timeout[i]
    BY <1>1, <1>2, TimeoutFacts
  <1> QED
    BY <1>1, <1>3 DEF CanTypeOK

\* What begin() leaves behind satisfies the invariant.
LEMMA InitCanInv == CanInit => CanInv
  <1> SUFFICES ASSUME CanInit PROVE CanInv
    OBVIOUS
  <1>1. canTel \in TelemetryData
    BY DEF CanInit, BlankTelemetry, TelemetryData, Uint8, Uint16, Int8
  <1>2. age \in [Streams -> Nat] /\ \A i \in Streams : age[i] <= Timeout[i]
    BY TimeoutFacts DEF CanInit
  <1>3. /\ consecutive \in 0..DebounceFrames /\ packFlags \in 0..2
        /\ rx \in 0..RxQueueLen /\ drained \in 0..DrainMax
    BY CanAssumption DEF CanInit
  <1>4. CanTypeOK
    BY <1>1, <1>2, <1>3 DEF CanInit, CanTypeOK
  <1>5. TelExclusive /\ ValidityExclusive
    BY DEF CanInit, TelExclusive, ValidityExclusive, BlankTelemetry
  <1> QED
    BY <1>4, <1>5 DEF CanInv

\* What a handler must establish: the conjuncts it can disturb.
HandlerDone ==
    /\ canTel' \in TelemetryData
    /\ seen' \subseteq Streams
    /\ age' \in [Streams -> Nat] /\ \A s \in Streams : age'[s] <= Timeout[s]
    /\ consecutive' \in 0..DebounceFrames
    /\ packFlags' \in 0..2
    /\ seenMask' \subseteq Group
    /\ cellTimeout' \in BOOLEAN /\ chargerValid' \in BOOLEAN
    /\ posted' \in BOOLEAN
    /\ TelExclusive'

\* The motor handler: a confirmed or cleared error, and the timeout lifted.
LEMMA MotorHandler ==
    ASSUME CanTypeOK, TelExclusive, NEW d \in [0..7 -> Byte], handleMotorStatus(d)
    PROVE  HandlerDone
  <1> DEFINE flags == parseMotorStatus(d).errorFlags
             confirmed == IF motorErrorFaultConfirmed(flags, consecutive, DebounceFrames)
                          THEN flags ELSE 0
  <1>1. flags \in Uint8 /\ 0 \in Uint8
    BY MotorStatusFacts DEF Uint8
  <1>2. confirmed \in Uint8
    BY <1>1
  <1>3. /\ canTel' = [canTel EXCEPT !.motorErrorFlags = confirmed,
                                    !.motorDataValid = TRUE,
                                    !.motorTimeoutActive = FALSE]
        /\ consecutive' = NextConsecutive(flags, consecutive, DebounceFrames)
        /\ Heard("motor")
        /\ notifyFaultIfNeeded(canTel.motorErrorFlags, confirmed)
        /\ UNCHANGED <<packFlags, seenMask, cellTimeout, chargerValid>>
    BY DEF handleMotorStatus
  <1> HIDE DEF flags, confirmed
  <1>4. canTel' \in TelemetryData /\ TelExclusive'
    BY <1>2, <1>3 DEF TelemetryData, CanTypeOK, TelExclusive
  <1>5. consecutive' \in 0..DebounceFrames
    BY <1>3, CanAssumption DEF CanTypeOK, NextConsecutive
  <1>6. posted' \in BOOLEAN
    BY <1>3, Zenon DEF notifyFaultIfNeeded
  <1>7. /\ seen' \subseteq Streams
        /\ age' \in [Streams -> Nat] /\ \A i \in Streams : age'[i] <= Timeout[i]
    BY <1>3, HeardFacts DEF Streams
  <1> QED
    BY <1>3, <1>4, <1>5, <1>6, <1>7 DEF HandlerDone, CanTypeOK

\* The pack frame.
LEMMA PackHandler ==
    ASSUME CanTypeOK, TelExclusive, NEW d \in [0..7 -> Byte], handleLbBmsE000(d)
    PROVE  HandlerDone
  <1> DEFINE p == parseLbBmsE000(d)
             flags == checkPackVoltageFault(p.packVoltageDeciV, PackCritMin, PackCritMax)
  <1>1. p.currentCentiA \in Int /\ p.packVoltageDeciV \in Uint16
    BY PackFrameFacts
  <1>2. flags \in 0..2
    BY DEF checkPackVoltageFault
  <1>3. /\ canTel' = [canTel EXCEPT !.packVoltageDeciV = p.packVoltageDeciV,
                                    !.currentCentiA = p.currentCentiA]
        /\ packFlags' = flags
        /\ Heard("E000")
        /\ notifyFaultIfNeeded(packFlags, flags)
        /\ UNCHANGED <<consecutive, seenMask, cellTimeout, chargerValid>>
    BY DEF handleLbBmsE000
  <1> HIDE DEF p, flags
  <1>4. canTel' \in TelemetryData /\ TelExclusive'
    BY <1>1, <1>3 DEF TelemetryData, CanTypeOK, TelExclusive
  <1>5. posted' \in BOOLEAN
    BY <1>3, Zenon DEF notifyFaultIfNeeded
  <1>6. /\ seen' \subseteq Streams
        /\ age' \in [Streams -> Nat] /\ \A i \in Streams : age'[i] <= Timeout[i]
    BY <1>3, HeardFacts DEF Streams
  <1> QED
    BY <1>2, <1>3, <1>4, <1>5, <1>6 DEF HandlerDone, CanTypeOK

\* The frame of the cell extremes and the temperatures.
LEMMA ExtremesHandler ==
    ASSUME CanTypeOK, TelExclusive, NEW d \in [0..7 -> Byte], handleLbBmsE001(d)
    PROVE  HandlerDone
  <1> DEFINE p == parseLbBmsE001(d)
  <1>1. p.cellMin \in Uint16 /\ p.cellMax \in Uint16 /\ p.tempHighestC \in Int8
    BY CellFrameFacts
  <1>2. /\ canTel' = [canTel EXCEPT !.cellMin = p.cellMin, !.cellMax = p.cellMax,
                                    !.tempHighestC = p.tempHighestC]
        /\ Heard("E001")
        /\ UNCHANGED <<consecutive, packFlags, seenMask, cellTimeout, chargerValid,
                       posted>>
    BY DEF handleLbBmsE001
  <1> HIDE DEF p
  <1>3. canTel' \in TelemetryData /\ TelExclusive'
    BY <1>1, <1>2 DEF TelemetryData, CanTypeOK, TelExclusive
  <1>4. /\ seen' \subseteq Streams
        /\ age' \in [Streams -> Nat] /\ \A i \in Streams : age'[i] <= Timeout[i]
    BY <1>2, HeardFacts DEF Streams
  <1> QED
    BY <1>2, <1>3, <1>4 DEF HandlerDone, CanTypeOK

\* A frame of the cell groups.
LEMMA GroupHandler ==
    ASSUME CanTypeOK, TelExclusive, NEW g \in Group, handleCellGroup(g)
    PROVE  HandlerDone
  <1>1. /\ seenMask' = seenMask \cup {g}
        /\ canTel' = [canTel EXCEPT !.cellVoltageDataValid = @ \/ seenMask' = Group]
        /\ Heard("cell")
        /\ UNCHANGED <<consecutive, packFlags, cellTimeout, chargerValid, posted>>
    BY DEF handleCellGroup
  <1>2. canTel' \in TelemetryData /\ TelExclusive'
    BY <1>1 DEF TelemetryData, CanTypeOK, TelExclusive
  <1>3. /\ seen' \subseteq Streams
        /\ age' \in [Streams -> Nat] /\ \A i \in Streams : age'[i] <= Timeout[i]
    BY <1>1, HeardFacts DEF Streams
  <1> QED
    BY <1>1, <1>2, <1>3 DEF HandlerDone, CanTypeOK

\* The charger's frame.
LEMMA ChargerHandler ==
    ASSUME CanTypeOK, TelExclusive, handleCharger1806E5F4
    PROVE  HandlerDone
  <1>1. /\ chargerValid' = TRUE
        /\ Heard("charger")
        /\ UNCHANGED <<canTel, consecutive, packFlags, seenMask, cellTimeout, posted>>
    BY DEF handleCharger1806E5F4
  <1>2. /\ seen' \subseteq Streams
        /\ age' \in [Streams -> Nat] /\ \A i \in Streams : age'[i] <= Timeout[i]
    BY <1>1, HeardFacts DEF Streams
  <1>3. TelExclusive'
    BY <1>1 DEF TelExclusive
  <1> QED
    BY <1>1, <1>2, <1>3 DEF HandlerDone, CanTypeOK

\* What a frame on the bus looks like.
LEMMA FrameFacts ==
    ASSUME NEW f \in Frames
    PROVE  f.id \in FrameIds /\ f.data \in [0..7 -> Byte]
  BY CanAssumption

\* A frame taken from the receive queue, handled or ignored.
LEMMA ReceiveCanInv ==
    ASSUME CanInv, NEW f \in Frames, Receive(f)
    PROVE  CanInv'
  <1>1. CanTypeOK /\ TelExclusive /\ ValidityExclusive
    BY DEF CanInv
  <1>2. rx > 0 /\ rx' = rx - 1
        /\ drained' = (IF drained < DrainMax THEN drained + 1 ELSE drained)
        /\ UNCHANGED <<telQueue, bus, alerts, canPhase>>
    BY DEF Receive, MayReceive
  <1>3. HandlerDone
    <2>1. CASE UNCHANGED <<decoded, posted>>
      BY <1>1, <2>1 DEF HandlerDone, CanTypeOK, TelExclusive, decoded
    <2>2. CASE \/ handleMotorStatus(f.data)
               \/ handleLbBmsE000(f.data)
               \/ handleLbBmsE001(f.data)
      BY <1>1, <2>2, FrameFacts, MotorHandler, PackHandler, ExtremesHandler
    <2>3. CASE f.id \in Group /\ handleCellGroup(f.id)
      BY <1>1, <2>3, GroupHandler
    <2>4. CASE handleCharger1806E5F4
      BY <1>1, <2>4, ChargerHandler
    <2> QED
      BY <2>1, <2>2, <2>3, <2>4 DEF Receive
  <1>4. rx' \in 0..RxQueueLen /\ drained' \in 0..DrainMax
    BY <1>1, <1>2, CanAssumption DEF CanTypeOK
  <1>5. CanTypeOK'
    BY <1>1, <1>2, <1>3, <1>4 DEF CanTypeOK, HandlerDone
  <1>6. ValidityExclusive'
    BY <1>1, <1>2 DEF ValidityExclusive
  <1> QED
    BY <1>3, <1>5, <1>6 DEF CanInv, HandlerDone

\* The three updates of the telemetry keep its type; the motor's pair stays
\* exclusive and the battery's is computed afresh.
LEMMA UpdateFacts ==
    ASSUME NEW t \in TelemetryData, ~(t.motorDataValid /\ t.motorTimeoutActive)
    PROVE  LET u == updateCellVoltageValidity(
                        updateBmsValidity(updateMotorStatusValidity(t)))
           IN  /\ u \in TelemetryData
               /\ ~(u.motorDataValid /\ u.motorTimeoutActive)
               /\ ~(u.bmsDataValid /\ u.bmsTimeoutActive)
               /\ u.bmsDataValid =>
                     /\ {"E000", "E001"} \subseteq seen
                     /\ age["E000"] < Timeout["E000"] /\ age["E001"] < Timeout["E000"]
               /\ u.motorErrorFlags = t.motorErrorFlags
               /\ u.cellVoltageDataValid <=> t.cellVoltageDataValid /\ ~CellSilent
  <1> DEFINE m == updateMotorStatusValidity(t)
             b == updateBmsValidity(m)
             u == updateCellVoltageValidity(b)
             r == bms_evaluate_freshness("E000" \in seen, age["E000"],
                                         "E001" \in seen, age["E001"], Timeout["E000"])
  <1>1. /\ m \in TelemetryData /\ ~(m.motorDataValid /\ m.motorTimeoutActive)
        /\ m.motorErrorFlags = t.motorErrorFlags
        /\ m.cellVoltageDataValid = t.cellVoltageDataValid
    BY DEF updateMotorStatusValidity, TelemetryData
  <1>2. b = [m EXCEPT !.bmsDataValid = r.dataValid, !.bmsTimeoutActive = r.timeoutActive]
    BY DEF updateBmsValidity
  <1>3. /\ r.dataValid \in BOOLEAN /\ r.timeoutActive \in BOOLEAN
        /\ ~(r.dataValid /\ r.timeoutActive)
        /\ r.dataValid => /\ {"E000", "E001"} \subseteq seen
                          /\ age["E000"] < Timeout["E000"]
                          /\ age["E001"] < Timeout["E000"]
    BY DEF bms_evaluate_freshness, bms_id_fresh
  <1>4. u = IF CellSilent THEN [b EXCEPT !.cellVoltageDataValid = FALSE] ELSE b
    BY DEF updateCellVoltageValidity
  <1> HIDE DEF m, b, u, r
  <1>5. /\ b \in TelemetryData /\ ~(b.motorDataValid /\ b.motorTimeoutActive)
        /\ b.bmsDataValid = r.dataValid /\ b.bmsTimeoutActive = r.timeoutActive
        /\ b.motorErrorFlags = t.motorErrorFlags
        /\ b.cellVoltageDataValid = t.cellVoltageDataValid
    BY <1>1, <1>2, <1>3 DEF TelemetryData
  <1>6. /\ u \in TelemetryData /\ ~(u.motorDataValid /\ u.motorTimeoutActive)
        /\ u.bmsDataValid = r.dataValid /\ u.bmsTimeoutActive = r.timeoutActive
        /\ u.motorErrorFlags = t.motorErrorFlags
        /\ u.cellVoltageDataValid <=> t.cellVoltageDataValid /\ ~CellSilent
    BY <1>4, <1>5 DEF TelemetryData
  <1> QED
    BY <1>3, <1>6 DEF u, b, m

\* The end of the drain: the four validity updates.
LEMMA EndDrainCanInv ==
    ASSUME CanInv, EndDrain
    PROVE  CanInv'
  <1>1. CanTypeOK /\ TelExclusive /\ ValidityExclusive
    BY DEF CanInv
  <1>2. /\ canTel' = updateCellVoltageValidity(
                        updateBmsValidity(updateMotorStatusValidity(canTel)))
        /\ seenMask' = MaskAfterUpdate
        /\ cellTimeout' = CellTimeoutAfterUpdate
        /\ chargerValid' = updateChargerValidity
        /\ canPhase' = "publish"
        /\ UNCHANGED <<seen, age, consecutive, packFlags, telQueue, posted, rx,
                       drained, bus, alerts>>
    BY DEF EndDrain
  <1>3. canTel' \in TelemetryData /\ TelExclusive'
    BY <1>1, <1>2, UpdateFacts DEF CanTypeOK, TelExclusive
  <1>4. seenMask' \subseteq Group
    BY <1>1, <1>2 DEF CanTypeOK, MaskAfterUpdate
  <1>5. cellTimeout' \in BOOLEAN /\ chargerValid' \in BOOLEAN
    BY <1>2, Zenon DEF CellTimeoutAfterUpdate, updateChargerValidity
  <1>6. CanTypeOK'
    BY <1>1, <1>2, <1>3, <1>4, <1>5 DEF CanTypeOK
  <1> QED
    BY <1>1, <1>2, <1>3, <1>6 DEF CanInv, ValidityExclusive

\* A saturating count of periods stays below its timeout.
LEMMA PublishAges ==
    ASSUME CanTypeOK, Publish
    PROVE  age' \in [Streams -> Nat] /\ \A i \in Streams : age'[i] <= Timeout[i]
  <1>1. age' = [s \in Streams |-> IF age[s] < Timeout[s] THEN age[s] + 1 ELSE age[s]]
    BY DEF Publish
  <1>2. \A s \in Streams : age[s] \in Nat /\ age[s] <= Timeout[s] /\ Timeout[s] \in Nat
    BY TimeoutFacts DEF CanTypeOK
  <1> QED
    BY <1>1, <1>2

\* The hand-over of the telemetry and the sleep.
LEMMA PublishCanInv ==
    ASSUME CanInv, Publish
    PROVE  CanInv'
  <1>1. CanTypeOK /\ TelExclusive
    BY DEF CanInv
  <1>2. /\ telQueue' = {canTel} /\ canPhase' = "alerts"
        /\ UNCHANGED <<canTel, seen, consecutive, packFlags, seenMask, cellTimeout,
                       chargerValid, posted, rx, drained, bus, alerts>>
    BY DEF Publish
  <1>3. CanTypeOK'
    BY <1>1, <1>2, PublishAges DEF CanTypeOK
  <1> QED
    BY <1>1, <1>2, <1>3 DEF CanInv, TelExclusive, ValidityExclusive

\* The bus, the controller, the alerts and the VCU touch nothing decoded.
LEMMA OthersCanInv ==
    ASSUME CanInv, Arrive \/ BusOff \/ BusRecovered \/ ReadAlerts \/ TakeFault
    PROVE  CanInv'
  <1>1. CanTypeOK /\ TelExclusive /\ ValidityExclusive
    BY DEF CanInv
  <1>2. /\ UNCHANGED <<canTel, seen, age, consecutive, packFlags, seenMask,
                       cellTimeout, chargerValid, telQueue>>
        /\ bus' \in {"running", "off", "recovering", "stopped"}
        /\ alerts' \subseteq {"BUS_OFF", "BUS_RECOVERED"}
        /\ canPhase' \in {"alerts", "drain", "publish"}
    BY <1>1 DEF CanTypeOK, decoded, Arrive, BusOff, BusRecovered, ReadAlerts, TakeFault
  <1>3. rx' \in 0..RxQueueLen /\ drained' \in 0..DrainMax
    BY <1>1, CanAssumption DEF CanTypeOK, Arrive, BusOff, BusRecovered, ReadAlerts,
       TakeFault
  <1>4. posted' \in BOOLEAN
    BY <1>1, Zenon DEF CanTypeOK, Arrive, BusOff, BusRecovered, ReadAlerts, TakeFault
  <1>5. CanTypeOK'
    BY <1>1, <1>2, <1>3, <1>4 DEF CanTypeOK
  <1> QED
    BY <1>1, <1>2, <1>5 DEF CanInv, TelExclusive, ValidityExclusive

\* Every step keeps the invariant.
LEMMA NextCanInv ==
    ASSUME CanInv, [CanNext]_canVars
    PROVE  CanInv'
  <1>1. CASE UNCHANGED canVars
    BY <1>1 DEF canVars, CanInv, CanTypeOK, TelExclusive, ValidityExclusive
  <1>2. CASE CanNext
    BY <1>2, OthersCanInv, ReceiveCanInv, EndDrainCanInv, PublishCanInv
       DEF CanNext, DrainStep
  <1> QED
    BY <1>1, <1>2

\* Whatever frames arrive, every field keeps its type and the ages, counters
\* and queues their bounds.
THEOREM CanTypeCorrect == CanSpec => []CanTypeOK
  <1>1. CanInv => CanTypeOK
    BY DEF CanInv
  <1> QED
    BY <1>1, InitCanInv, NextCanInv, PTL DEF CanSpec

\* The VCU never peeks telemetry that says of one stream both that its data is
\* valid and that it timed out.
THEOREM NeverBoth == CanSpec => []ValidityExclusive
  <1>1. CanInv => ValidityExclusive
    BY DEF CanInv
  <1> QED
    BY <1>1, InitCanInv, NextCanInv, PTL DEF CanSpec

-----------------------------------------------------------------------------
(* The observers.                                                          *)

\* While a battery identifier counts as fresh, its stamp is no younger than
\* the last usable frame of that identifier.
StampsHonest ==
    /\ silence \in [Watched -> Nat]
    /\ \A i \in {"E000", "E001"} :
          i \in seen /\ age[i] < Timeout[i] => silence[i] <= age[i]

\* Between the validity update and the publication nothing ages.
AboutToPublish ==
    canPhase = "publish" /\ canTel.bmsDataValid =>
        \A i \in {"E000", "E001"} : i \in seen /\ age[i] < Timeout[i]

\* The debounce counter counts the bad frames since the last clean one.
CountHonest == consecutive = badMotor

\* The mask only holds groups heard since the cell data was last lost.
MaskHonest == seenMask \subseteq sinceLoss /\ sinceLoss \subseteq Group

HistInv ==
    /\ CanInv
    /\ StampsHonest /\ AboutToPublish /\ BmsFresh
    /\ CountHonest /\ DebounceExact
    /\ MaskHonest /\ CellsHeardAgain

\* The bound of the silence counters is a number.
LEMMA SilenceMaxNat == SilenceMax \in Nat
  <1>1. Timeout["E000"] \in Nat /\ Timeout["cell"] \in Nat
    BY TimeoutFacts DEF Streams
  <1> QED
    BY <1>1 DEF SilenceMax

\* The observers start with nothing heard.
LEMMA InitHistInv == CHInit => HistInv
  <1> SUFFICES ASSUME CHInit PROVE HistInv
    OBVIOUS
  <1>1. CanInit /\ CanInv
    BY InitCanInv DEF CHInit
  <1>2. seen = {} /\ telQueue = {} /\ canPhase = "alerts" /\ consecutive = 0
        /\ seenMask = {} /\ canTel.motorErrorFlags = 0
        /\ ~canTel.cellVoltageDataValid
    BY <1>1 DEF CanInit, BlankTelemetry
  <1>3. StampsHonest
    BY <1>2, SilenceMaxNat DEF StampsHonest, CHInit
  <1>4. AboutToPublish /\ BmsFresh
    BY <1>2 DEF AboutToPublish, BmsFresh
  <1>5. CountHonest /\ DebounceExact
    BY <1>2, CanAssumption DEF CountHonest, DebounceExact, CHInit
  <1>6. MaskHonest /\ CellsHeardAgain
    BY <1>2 DEF MaskHonest, CellsHeardAgain, CHInit
  <1> QED
    BY <1>1, <1>3, <1>4, <1>5, <1>6 DEF HistInv

\* The identifiers the observers tell apart.
LEMMA WatchedFacts ==
    /\ {"E000", "E001"} \subseteq Watched /\ Group \subseteq Watched
    /\ "MOTOR" \notin Group /\ "E000" \notin Group /\ "E001" \notin Group
    /\ "CHARGER" \notin Group
  BY CanAssumption DEF Watched

\* A frame that arrives renews the stamp of its identifier and no other.
LEMMA ReceiveStamps ==
    ASSUME HistInv, NEW f \in Frames, Receive(f), ObserveReceive(f)
    PROVE  StampsHonest' /\ AboutToPublish' /\ BmsFresh'
  <1>1. /\ silence \in [Watched -> Nat]
        /\ silence' = IF ~Ignored(f) /\ f.id \in Watched
                      THEN [silence EXCEPT ![f.id] = 0] ELSE silence
    BY DEF HistInv, StampsHonest, ObserveReceive
  <1>2. /\ silence' \in [Watched -> Nat]
        /\ \A i \in Watched : silence'[i] <= silence[i]
    BY <1>1
  <1>3. canPhase' = "drain" /\ telQueue' = telQueue
    BY DEF Receive
  <1>4. CanTypeOK
    BY DEF HistInv, CanInv
  <1>5. ASSUME NEW i \in {"E000", "E001"}, i \in seen', age'[i] < Timeout[i]
        PROVE  silence'[i] <= age'[i]
    <2>1. CASE f.id = i /\ ~Ignored(f)
      <3>1. silence'[i] = 0
        BY <1>1, <2>1, WatchedFacts
      <3>2. Heard(i)
        BY <2>1, WatchedFacts DEF Receive, handleLbBmsE000, handleLbBmsE001
      <3>3. age'[i] = 0
        BY <1>4, <3>2 DEF Heard, CanTypeOK, Streams
      <3> QED
        BY <3>1, <3>3
    <2>2. CASE ~(f.id = i /\ ~Ignored(f))
      <3>1. \/ UNCHANGED <<seen, age>>
            \/ \E s \in Streams \ {i} : Heard(s)
        BY <2>2 DEF Receive, decoded, handleMotorStatus, handleLbBmsE000,
           handleLbBmsE001, handleCellGroup, handleCharger1806E5F4, Streams
      <3>2. i \in seen /\ age'[i] = age[i]
        BY <1>4, <1>5, <3>1 DEF Heard, CanTypeOK, Streams
      <3>3. silence[i] <= age[i]
        BY <1>5, <3>2 DEF HistInv, StampsHonest
      <3>4. silence'[i] <= silence[i] /\ silence'[i] \in Nat /\ silence[i] \in Nat
        BY <1>1, <1>2, WatchedFacts
      <3>5. age[i] \in Nat
        BY <1>4 DEF CanTypeOK, Streams
      <3> QED
        BY <3>2, <3>3, <3>4, <3>5
    <2> QED
      BY <2>1, <2>2
  <1>6. StampsHonest'
    BY <1>2, <1>5 DEF StampsHonest
  <1>7. BmsFresh'
    <2>1. SUFFICES ASSUME \E t \in telQueue : t.bmsDataValid
                   PROVE  /\ silence'["E000"] <= Timeout["E000"]
                          /\ silence'["E001"] <= Timeout["E000"]
      BY <1>3 DEF BmsFresh
    <2>2. silence["E000"] <= Timeout["E000"] /\ silence["E001"] <= Timeout["E000"]
      BY <2>1 DEF HistInv, BmsFresh
    <2>3. Timeout["E000"] \in Nat
      BY TimeoutFacts DEF Streams
    <2>4. /\ silence'["E000"] <= silence["E000"] /\ silence'["E001"] <= silence["E001"]
          /\ silence["E000"] \in Nat /\ silence["E001"] \in Nat
          /\ silence'["E000"] \in Nat /\ silence'["E001"] \in Nat
      BY <1>1, <1>2, WatchedFacts
    <2> QED
      BY <2>2, <2>3, <2>4
  <1> QED
    BY <1>3, <1>6, <1>7 DEF AboutToPublish

\* A motor frame counts, restarts or confirms; no other frame does anything
\* to the count.
LEMMA ReceiveDebounce ==
    ASSUME HistInv, NEW f \in Frames, Receive(f), ObserveReceive(f)
    PROVE  CountHonest' /\ DebounceExact'
  <1>1. /\ consecutive = badMotor /\ consecutive \in 0..DebounceFrames
        /\ canTel.motorErrorFlags # 0 <=> badMotor >= DebounceFrames
    BY DEF HistInv, CanInv, CanTypeOK, CountHonest, DebounceExact
  <1>2. badMotor' = IF Ignored(f) \/ f.id # "MOTOR" THEN badMotor
                    ELSE IF f.data[7] \in {0, 1} THEN 0
                    ELSE IF badMotor < DebounceFrames THEN badMotor + 1 ELSE badMotor
    BY DEF ObserveReceive
  <1>3. CASE Ignored(f) \/ f.id # "MOTOR"
    <2>1. consecutive' = consecutive /\ canTel'.motorErrorFlags = canTel.motorErrorFlags
      <3>1. canTel \in TelemetryData
        BY DEF HistInv, CanInv, CanTypeOK
      <3> QED
        BY <1>3, <3>1 DEF Receive, decoded, handleLbBmsE000, handleLbBmsE001,
           handleCellGroup, handleCharger1806E5F4, TelemetryData
    <2> QED
      BY <1>1, <1>2, <1>3, <2>1 DEF CountHonest, DebounceExact
  <1>4. CASE ~(Ignored(f) \/ f.id # "MOTOR")
    <2> DEFINE flags == parseMotorStatus(f.data).errorFlags
    <2>1. handleMotorStatus(f.data)
      BY <1>4, WatchedFacts DEF Receive
    <2>2. /\ consecutive' = NextConsecutive(flags, consecutive, DebounceFrames)
          /\ canTel'.motorErrorFlags =
                IF motorErrorFaultConfirmed(flags, consecutive, DebounceFrames)
                THEN flags ELSE 0
      BY <2>1 DEF handleMotorStatus, HistInv, CanInv, CanTypeOK, TelemetryData
    <2>3. flags = 0 <=> f.data[7] \in {0, 1}
      BY FrameFacts, MotorStatusFacts
    <2> HIDE DEF flags
    <2>4. consecutive' = badMotor'
      BY <1>1, <1>2, <1>4, <2>2, <2>3 DEF NextConsecutive
    <2>5. canTel'.motorErrorFlags # 0 <=> flags # 0 /\ consecutive' >= DebounceFrames
      BY <2>2 DEF motorErrorFaultConfirmed
    <2>6. flags = 0 => ~(consecutive' >= DebounceFrames)
      BY <2>2, CanAssumption DEF NextConsecutive
    <2> QED
      BY <2>4, <2>5, <2>6 DEF CountHonest, DebounceExact
  <1> QED
    BY <1>3, <1>4

\* A cell group joins the mask and the groups heard since the last loss.
LEMMA ReceiveCells ==
    ASSUME HistInv, NEW f \in Frames, Receive(f), ObserveReceive(f)
    PROVE  MaskHonest' /\ CellsHeardAgain'
  <1>1. /\ canTel \in TelemetryData
        /\ seenMask \subseteq sinceLoss /\ sinceLoss \subseteq Group
        /\ canTel.cellVoltageDataValid => sinceLoss = Group
    BY DEF HistInv, CanInv, CanTypeOK, MaskHonest, CellsHeardAgain
  <1>2. sinceLoss' = IF ~Ignored(f) /\ f.id \in Group THEN sinceLoss \cup {f.id}
                     ELSE sinceLoss
    BY DEF ObserveReceive
  <1>3. CASE ~Ignored(f) /\ f.id \in Group
    <2>1. handleCellGroup(f.id)
      BY <1>3, WatchedFacts DEF Receive
    <2>2. /\ seenMask' = seenMask \cup {f.id}
          /\ canTel'.cellVoltageDataValid <=>
                canTel.cellVoltageDataValid \/ seenMask' = Group
      BY <1>1, <2>1 DEF handleCellGroup, TelemetryData
    <2> QED
      BY <1>1, <1>2, <1>3, <2>2 DEF MaskHonest, CellsHeardAgain
  <1>4. CASE ~(~Ignored(f) /\ f.id \in Group)
    <2>1. /\ seenMask' = seenMask
          /\ canTel'.cellVoltageDataValid = canTel.cellVoltageDataValid
      BY <1>1, <1>4 DEF Receive, decoded, handleMotorStatus, handleLbBmsE000,
         handleLbBmsE001, handleCharger1806E5F4, TelemetryData
    <2> QED
      BY <1>1, <1>2, <1>4, <2>1 DEF MaskHonest, CellsHeardAgain
  <1> QED
    BY <1>3, <1>4

\* The validity updates: battery data stays valid only on two fresh stamps,
\* and losing the cell data empties the mask with it.
LEMMA EndDrainHist ==
    ASSUME HistInv, EndDrain, ObserveEndDrain
    PROVE  /\ StampsHonest' /\ AboutToPublish' /\ BmsFresh'
           /\ CountHonest' /\ DebounceExact'
           /\ MaskHonest' /\ CellsHeardAgain'
  <1>1. /\ canTel' = updateCellVoltageValidity(
                        updateBmsValidity(updateMotorStatusValidity(canTel)))
        /\ seenMask' = MaskAfterUpdate
        /\ UNCHANGED <<seen, age, consecutive, telQueue, silence, badMotor>>
        /\ sinceLoss' = IF canTel.cellVoltageDataValid /\ ~canTel'.cellVoltageDataValid
                        THEN {} ELSE sinceLoss
    BY DEF EndDrain, ObserveEndDrain
  <1>2. /\ canTel \in TelemetryData
        /\ ~(canTel.motorDataValid /\ canTel.motorTimeoutActive)
    BY DEF HistInv, CanInv, CanTypeOK, TelExclusive
  <1>3. /\ canTel'.bmsDataValid =>
              /\ {"E000", "E001"} \subseteq seen
              /\ age["E000"] < Timeout["E000"] /\ age["E001"] < Timeout["E000"]
        /\ canTel'.motorErrorFlags = canTel.motorErrorFlags
        /\ canTel'.cellVoltageDataValid <=> canTel.cellVoltageDataValid /\ ~CellSilent
    BY <1>1, <1>2, UpdateFacts
  <1>4. StampsHonest' /\ BmsFresh' /\ CountHonest' /\ DebounceExact'
    BY <1>1, <1>3 DEF HistInv, StampsHonest, BmsFresh, CountHonest, DebounceExact
  <1>5. AboutToPublish'
    BY <1>1, <1>3, TimeoutFacts DEF AboutToPublish
  <1>6. MaskHonest' /\ CellsHeardAgain'
    <2>1. /\ seenMask \subseteq sinceLoss /\ sinceLoss \subseteq Group
          /\ canTel.cellVoltageDataValid => sinceLoss = Group
      BY DEF HistInv, MaskHonest, CellsHeardAgain
    <2> QED
      BY <1>1, <1>3, <2>1 DEF MaskHonest, CellsHeardAgain, MaskAfterUpdate
  <1> QED
    BY <1>4, <1>5, <1>6

\* A publication and the period after it: everything is one period older.
LEMMA PublishHist ==
    ASSUME HistInv, Publish, ObservePublish
    PROVE  /\ StampsHonest' /\ AboutToPublish' /\ BmsFresh'
           /\ CountHonest' /\ DebounceExact'
           /\ MaskHonest' /\ CellsHeardAgain'
  <1>1. /\ canPhase = "publish" /\ canPhase' = "alerts" /\ telQueue' = {canTel}
        /\ age' = [s \in Streams |-> IF age[s] < Timeout[s] THEN age[s] + 1 ELSE age[s]]
        /\ silence' = [i \in Watched |-> IF silence[i] < SilenceMax THEN silence[i] + 1
                                         ELSE silence[i]]
        /\ UNCHANGED <<canTel, seen, consecutive, seenMask, badMotor, sinceLoss>>
    BY DEF Publish, ObservePublish
  <1>2. /\ silence \in [Watched -> Nat]
        /\ \A i \in {"E000", "E001"} :
              i \in seen /\ age[i] < Timeout[i] => silence[i] <= age[i]
    BY DEF HistInv, StampsHonest
  <1>3. /\ silence' \in [Watched -> Nat]
        /\ \A i \in Watched : silence'[i] <= silence[i] + 1
    BY <1>1, <1>2
  <1>4. ASSUME NEW i \in {"E000", "E001"}
        PROVE  /\ age[i] \in Nat /\ Timeout[i] \in Nat /\ age[i] <= Timeout[i]
               /\ age'[i] = IF age[i] < Timeout[i] THEN age[i] + 1 ELSE age[i]
               /\ silence[i] \in Nat /\ silence'[i] \in Nat
               /\ silence'[i] <= silence[i] + 1
    <2>1. age \in [Streams -> Nat] /\ \A s \in Streams : age[s] <= Timeout[s]
      BY DEF HistInv, CanInv, CanTypeOK
    <2>2. i \in Streams /\ i \in Watched
      BY WatchedFacts DEF Streams
    <2> QED
      BY <1>1, <1>2, <1>3, <2>1, <2>2, TimeoutFacts
  <1>5. StampsHonest'
    <2>1. ASSUME NEW i \in {"E000", "E001"}, i \in seen', age'[i] < Timeout[i]
          PROVE  silence'[i] <= age'[i]
      <3>1. age[i] < Timeout[i] /\ age'[i] = age[i] + 1
        BY <1>4, <2>1
      <3>2. silence[i] <= age[i]
        BY <1>1, <1>2, <2>1, <3>1
      <3> QED
        BY <1>4, <3>1, <3>2
    <2> QED
      BY <1>3, <2>1 DEF StampsHonest
  <1>6. BmsFresh'
    <2>1. SUFFICES ASSUME canTel.bmsDataValid
                   PROVE  \A i \in {"E000", "E001"} : silence'[i] <= Timeout[i]
      BY <1>1, TimeoutFacts DEF BmsFresh
    <2>2. TAKE i \in {"E000", "E001"}
    <2>3. i \in seen /\ age[i] < Timeout[i]
      BY <1>1, <2>1 DEF HistInv, AboutToPublish
    <2>4. silence[i] <= age[i]
      BY <1>2, <2>3
    <2> QED
      BY <1>4, <2>3, <2>4
  <1>7. AboutToPublish' /\ CountHonest' /\ DebounceExact' /\ MaskHonest'
        /\ CellsHeardAgain'
    BY <1>1 DEF HistInv, AboutToPublish, CountHonest, DebounceExact, MaskHonest,
       CellsHeardAgain
  <1> QED
    BY <1>5, <1>6, <1>7

\* Every step of the observed task is a step of the task and keeps HistInv.
LEMMA NextHistInv ==
    ASSUME HistInv, [CHNext]_chVars
    PROVE  HistInv'
  <1>1. [CanNext]_canVars
    BY DEF CHNext, CHNextOf, chVars, CanNext, DrainStep
  <1>2. CanInv'
    BY <1>1, NextCanInv DEF HistInv
  <1>3. CASE \E f \in Frames : Receive(f) /\ ObserveReceive(f)
    BY <1>2, <1>3, ReceiveStamps, ReceiveDebounce, ReceiveCells DEF HistInv
  <1>4. CASE EndDrain /\ ObserveEndDrain
    BY <1>2, <1>4, EndDrainHist DEF HistInv
  <1>5. CASE Publish /\ ObservePublish
    BY <1>2, <1>5, PublishHist DEF HistInv
  <1>6. CASE /\ UNCHANGED canObservers
             /\ \/ Arrive \/ BusOff \/ BusRecovered \/ ReadAlerts \/ TakeFault
                \/ UNCHANGED canVars
    <2>1. /\ UNCHANGED <<canTel, seen, age, consecutive, seenMask, telQueue, silence,
                         badMotor, sinceLoss>>
          /\ canPhase' # "publish" \/ canPhase' = canPhase
      BY <1>6 DEF Arrive, BusOff, BusRecovered, ReadAlerts, TakeFault, decoded,
         canVars, canObservers
    <2> QED
      BY <1>2, <2>1 DEF HistInv, StampsHonest, AboutToPublish, BmsFresh, CountHonest,
         DebounceExact, MaskHonest, CellsHeardAgain
  <1> QED
    BY <1>3, <1>4, <1>5, <1>6 DEF CHNext, CHNextOf, chVars

\* The inductive invariant of the observed task.
THEOREM HistInductive == CHSpec => []HistInv
  BY InitHistInv, NextHistInv, PTL DEF CHSpec

\* Battery telemetry published as valid rests on a pack-voltage frame and on a
\* temperature frame that both arrived within the timeout.
THEOREM BatteryDataFresh == CHSpec => []BmsFresh
  <1>1. HistInv => BmsFresh
    BY DEF HistInv
  <1> QED
    BY <1>1, HistInductive, PTL

\* Motor error flags are shown exactly after DebounceFrames usable frames in a
\* row that carry some.
THEOREM DebounceIsExact == CHSpec => []DebounceExact
  <1>1. HistInv => DebounceExact
    BY DEF HistInv
  <1> QED
    BY <1>1, HistInductive, PTL

\* Lost cell data is valid again only once every group has been heard again.
THEOREM LostCellsHeardAgain == CHSpec => []CellsHeardAgain
  <1>1. HistInv => CellsHeardAgain
    BY DEF HistInv
  <1> QED
    BY <1>1, HistInductive, PTL
=============================================================================
