------------------------------ MODULE CanParse ------------------------------
(***************************************************************************)
(* The pure frame decoders of lib/CanParse and the freshness and debounce  *)
(* helpers of lib/CanManager.  A frame is a record: its identifier, the    *)
(* remote flag, the data length and eight bytes, most significant first    *)
(* within a field.                                                         *)
(***************************************************************************)
EXTENDS Integers

Byte == 0..255

BigEndian16(d, i) == d[i] * 256 + d[i + 1]

\* Mutant: the cast to a signed type is missing.
MutUnsigned(n, width) == n

Signed(n, width) == IF n < 2^(width - 1) THEN n ELSE n - 2^width

\* Data length each decoder requires before it looks at a byte.
MinDlc(id) == IF id = "CHARGER" THEN 4 ELSE 8

\* Bit 0 of the status byte says running; the other bits are error flags.
parseMotorStatus(d) == [errorFlags |-> d[7] - (d[7] % 2), isRunning |-> d[7] % 2 = 1]

\* raw 0.1 A becomes centiamps, raw 0.1 V stays.
parseLbBmsE000(d) ==
    [currentCentiA |-> Signed(BigEndian16(d, 0), 16) * 10,
     packVoltageDeciV |-> BigEndian16(d, 2)]

\* The cell extremes are stored raw; the hotter of the two sensors counts.
parseLbBmsE001(d) ==
    [cellMin |-> BigEndian16(d, 0),
     cellMax |-> BigEndian16(d, 2),
     tempHighestC |-> LET t1 == Signed(d[6], 8)
                          t2 == Signed(d[7], 8)
                      IN  IF t1 >= t2 THEN t1 ELSE t2]

\* bit 0 undervoltage, bit 1 overvoltage
checkPackVoltageFault(v, min, max) ==
    IF v <= min THEN 1 ELSE IF v >= max THEN 2 ELSE 0

\* `age' is now - lastTick: unsigned subtraction gives it for every silence
\* shorter than 2^32 ticks.
isMotorStatusTimedOut(hasSeen, lastValid, age, timeout) ==
    hasSeen /\ lastValid /\ age >= timeout
isBmsStatusTimedOut(hasSeen, lastValid, age, timeout) ==
    hasSeen /\ lastValid /\ age >= timeout

bms_id_fresh(seen, age, timeout) == seen /\ age < timeout

bms_evaluate_freshness(saw0, age0, saw1, age1, timeout) ==
    LET fresh0 == bms_id_fresh(saw0, age0, timeout)
        fresh1 == bms_id_fresh(saw1, age1, timeout)
    IN  [dataValid |-> fresh0 /\ fresh1,
         timeoutActive |-> (saw0 /\ ~fresh0) \/ (saw1 /\ ~fresh1)]

\* Mutant: a clean frame does not break the chain.
MutNextConsecutive(flags, count, n) ==
    IF flags = 0 \/ count >= n THEN count ELSE count + 1

\* motorErrorFaultConfirmed: the new consecutive count, saturated at the n
\* it is compared with.
NextConsecutive(flags, count, n) ==
    IF flags = 0 THEN 0 ELSE IF count < n THEN count + 1 ELSE count
motorErrorFaultConfirmed(flags, count, n) ==
    flags # 0 /\ NextConsecutive(flags, count, n) >= n
=============================================================================
