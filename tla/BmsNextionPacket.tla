-------------------------- MODULE BmsNextionPacket --------------------------
(***************************************************************************)
(* buildBmsNextionCommands: the commands that bring the battery page of    *)
(* the display up to date, at most maxBytes of them per call.              *)
(*                                                                         *)
(* A part of the page is <<name, index>>, with index -1 for the parts that *)
(* have none.  A command is not spelled out; its length is counted, since  *)
(* the byte budget decides which parts a call reaches.                     *)
(***************************************************************************)
EXTENDS BmsAlgo, Sequences, SequencesExt

CONSTANT MaxBytes   \* maxBytes, 90 unless the caller says otherwise

ASSUME MaxBytesAssumption == MaxBytes \in Nat

Word == 0..65535   \* uint16_t

\* The parts in the order of the code: three runs over the cells, the summary.
CellPart(k) ==
    <<CASE k < BMS_CELL_COUNT -> "cell"
        [] k \in BMS_CELL_COUNT .. 2 * BMS_CELL_COUNT - 1 -> "j"
        [] OTHER -> "bal",
      k % BMS_CELL_COUNT>>

CellParts == [k \in 1 .. 3 * BMS_CELL_COUNT |-> CellPart(k - 1)]
Summary   == <<<<"cellmax", -1>>, <<"cellmin", -1>>, <<"warn", -1>>>>
Parts     == ToSet(CellParts \o Summary)

NameLength == [cell |-> 4, j |-> 1, bal |-> 3, cellmax |-> 7, cellmin |-> 7, warn |-> 4]
Digits(n)  == IF n < 10 THEN 1 ELSE IF n < 100 THEN 2 ELSE IF n < 1000 THEN 3
              ELSE IF n < 10000 THEN 4 ELSE 5   \* of a uint16_t

\* "<name><index>.val=<value>" and the three end bytes.
CommandBytes(p, v) ==
    NameLength[p[1]] + (IF p[2] >= 0 THEN Digits(p[2]) ELSE 0) + 5 + Digits(v) + 3

\* Mutant: the bar has no lower end.
MutBarNoFloor(mv) ==
    IF mv = 65535 THEN 0
    ELSE IF mv >= BMS_SOC_FULL_MV THEN 100
    ELSE ((mv - BMS_SOC_EMPTY_MV) * 100) \div (BMS_SOC_FULL_MV - BMS_SOC_EMPTY_MV)

cellBarFill(mv) ==
    IF mv = 65535 \/ mv <= BMS_SOC_EMPTY_MV THEN 0
    ELSE IF mv >= BMS_SOC_FULL_MV THEN 100
    ELSE ((mv - BMS_SOC_EMPTY_MV) * 100) \div (BMS_SOC_FULL_MV - BMS_SOC_EMPTY_MV)

\* The value every part should show.
Wanted(comp, raw) ==
    [p \in Parts |->
        CASE p[1] = "cell"    -> raw.cellVoltageMv[p[2]]
          [] p[1] = "j"       -> cellBarFill(raw.cellVoltageMv[p[2]])
          [] p[1] = "bal"     -> IF comp.balanceFlag[p[2]] THEN 1 ELSE 0
          [] p[1] = "cellmax" -> comp.cellMaxMv
          [] p[1] = "cellmin" -> comp.cellMinMv
          [] p[1] = "warn"    -> comp.warningLevel]

\* BmsNextionCache as constructed: zero, or a value no command carries.
BlankCache ==
    [p \in Parts |-> IF p[1] \in {"cell", "cellmax", "cellmin"} THEN 0 ELSE 255]

\* Mutant: the cells are looked at on every call, not once per second.
MutEveryCall(force, updateCells, isWarm) == TRUE

mustProcessCells(force, updateCells, isWarm) == updateCells \/ force \/ ~isWarm

(***************************************************************************)
(* One call goes over its parts in order.  Past the first command that     *)
(* does not fit nothing more is sent, so what is sent are the changed      *)
(* parts up to which the commands fit together.                            *)
(***************************************************************************)
Order(withCells) == IF withCells THEN CellParts \o Summary ELSE Summary

\* The length of the commands of the first k parts, sent or not.
BytesUpTo(order, wanted, changed) ==
    LET bytes[k \in 0 .. Len(order)] ==
            IF k = 0 THEN 0
            ELSE bytes[k - 1] + (IF order[k] \in changed
                                 THEN CommandBytes(order[k], wanted[order[k]]) ELSE 0)
    IN  bytes

\* Mutant: the cache takes the value of a part whose command did not fit.
MutCacheUnsent(wanted, cache, isWarm, force, updateCells) ==
    LET order   == Order(mustProcessCells(force, updateCells, isWarm))
        changed == {p \in Parts : force \/ wanted[p] # cache[p]}
        bytes   == BytesUpTo(order, wanted, changed)
        sent    == {order[k] : k \in {i \in 1 .. Len(order) :
                                         order[i] \in changed /\ bytes[i] <= MaxBytes}}
    IN  [sent   |-> sent,
         cache  |-> [p \in Parts |-> IF p \in ToSet(order) THEN wanted[p] ELSE cache[p]],
         isWarm |-> isWarm \/ bytes[Len(order)] <= MaxBytes]

\* Only what was sent is cached, and a call that sent everything warms the cache.
buildBmsNextionCommands(wanted, cache, isWarm, force, updateCells) ==
    LET order   == Order(mustProcessCells(force, updateCells, isWarm))
        changed == {p \in Parts : force \/ wanted[p] # cache[p]}
        bytes   == BytesUpTo(order, wanted, changed)
        sent    == {order[k] : k \in {i \in 1 .. Len(order) :
                                         order[i] \in changed /\ bytes[i] <= MaxBytes}}
    IN  [sent   |-> sent,
         cache  |-> [p \in Parts |-> IF p \in sent THEN wanted[p] ELSE cache[p]],
         isWarm |-> isWarm \/ bytes[Len(order)] <= MaxBytes]
=============================================================================
