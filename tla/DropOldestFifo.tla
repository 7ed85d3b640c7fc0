--------------------------- MODULE DropOldestFifo ---------------------------
(***************************************************************************)
(* What the offline buffer promises: a bounded first-in first-out queue of *)
(* telemetry samples in which a push into a full queue gives up the oldest *)
(* sample, and nothing else ever leaves but the oldest.                    *)
(***************************************************************************)
EXTENDS Naturals, Sequences

CONSTANTS Sample, Capacity, NoSample

VARIABLES
    pending, \* the samples waiting, oldest first
    taken    \* the sample replay removed last

FifoInit == pending = <<>> /\ taken = NoSample

Push(d) ==
    /\ pending' = Append(IF Len(pending) = Capacity THEN Tail(pending) ELSE pending, d)
    /\ UNCHANGED taken

Take ==
    /\ pending # <<>>
    /\ taken' = Head(pending)
    /\ pending' = Tail(pending)

FifoNext == (\E d \in Sample : Push(d)) \/ Take

FifoSpec == FifoInit /\ [][FifoNext]_<<pending, taken>>
=============================================================================
