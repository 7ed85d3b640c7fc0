--------------------------- MODULE OfflineBuffer ----------------------------
(***************************************************************************)
(* The circular buffer of lib/OfflineBuffer as a record and operators on   *)
(* it.  ob_pop, ob_reset and ob_is_empty have no caller in the firmware.   *)
(***************************************************************************)
EXTENDS Naturals

CONSTANTS
    Sample,    \* telemetry samples
    NoSample,  \* what a slot holds before its first use
    Capacity   \* OB_CAPACITY

ASSUME BufferAssumption == Capacity \in Nat \ {0} /\ NoSample \notin Sample

Slots == 0..Capacity - 1

\* s_buf, s_head, s_tail, s_count
Ring == [buf   : [Slots -> Sample \cup {NoSample}],
         head  : Slots,
         tail  : Slots,
         count : 0..Capacity]

EmptyRing == [buf |-> [i \in Slots |-> NoSample], head |-> 0, tail |-> 0, count |-> 0]

\* Mutant: a full buffer overwrites the oldest slot and keeps the head there.
MutPushKeepsHead(r, d) ==
    [r EXCEPT !.buf[r.tail] = d,
              !.tail = (@ + 1) % Capacity,
              !.count = IF @ = Capacity THEN @ ELSE @ + 1]

\* A full buffer gives up its oldest sample first.
ob_push(r, d) ==
    LET full == r.count = Capacity
    IN  [buf   |-> [r.buf EXCEPT ![r.tail] = d],
         head  |-> IF full THEN (r.head + 1) % Capacity ELSE r.head,
         tail  |-> (r.tail + 1) % Capacity,
         count |-> IF full THEN r.count ELSE r.count + 1]

ob_peek(r) == r.buf[r.head]

\* Mutant: the head does not wrap around.
MutDropNoWrap(r) ==
    IF r.count = 0 THEN r
    ELSE [r EXCEPT !.head = @ + 1, !.count = @ - 1]

ob_drop_front(r) ==
    IF r.count = 0 THEN r
    ELSE [r EXCEPT !.head = (@ + 1) % Capacity, !.count = @ - 1]

ob_count(r) == r.count

\* The waiting samples, oldest first.
Contents(r) == [i \in 1..r.count |-> r.buf[(r.head + i - 1) % Capacity]]
=============================================================================
