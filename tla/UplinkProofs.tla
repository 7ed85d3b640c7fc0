---------------------------- MODULE UplinkProofs ----------------------------
(***************************************************************************)
(* Proofs about the telemetry uplink: the types of its variables, what the *)
(* radio is when traffic starts, and that the ring of indices implements   *)
(* the drop-oldest queue, for every capacity of the buffer, every set of   *)
(* samples and every choice of the periods.                                *)
(***************************************************************************)
EXTENDS Uplink, LoraLinkProofs, SequenceTheorems

-----------------------------------------------------------------------------
(* The ring buffer.                                                        *)

Wrap(a) == a % Capacity

\* One wrap-around at most, which is all the buffer's indices ever need.
LEMMA WrapFacts ==
    ASSUME NEW a \in 0..2 * Capacity - 1
    PROVE  Wrap(a) = IF a < Capacity THEN a ELSE a - Capacity
  <1>1. Capacity \in Nat /\ Capacity > 0
    BY BufferAssumption
  <1> QED
    BY <1>1 DEF Wrap

\* The arithmetic of the indices: an advance of the head by one shifts every
\* slot by one, and two distances below the capacity reach different slots.
LEMMA IndexFacts ==
    ASSUME NEW h \in 0..Capacity - 1
    PROVE  /\ Wrap(h) = h /\ Wrap(h + Capacity) = h
           /\ \A n \in 0..Capacity : Wrap(h + n) \in 0..Capacity - 1
           /\ \A n \in 0..Capacity - 1 : Wrap(Wrap(h + 1) + n) = Wrap(h + n + 1)
           /\ \A m, n \in 0..Capacity - 1 : Wrap(h + m) = Wrap(h + n) => m = n
  <1>1. Capacity \in Nat /\ Capacity > 0
    BY BufferAssumption
  <1>2. ASSUME NEW n \in 0..Capacity
        PROVE  Wrap(h + n) = IF h + n < Capacity THEN h + n ELSE h + n - Capacity
    BY <1>1, WrapFacts
  <1>3. Wrap(h) = h
    BY <1>1, WrapFacts
  <1>4. ASSUME NEW n \in 0..Capacity - 1 PROVE Wrap(Wrap(h + 1) + n) = Wrap(h + n + 1)
    <2> DEFINE k == Wrap(h + 1)
    <2>1. k = IF h + 1 < Capacity THEN h + 1 ELSE 0
      BY <1>1, <1>2
    <2> HIDE DEF k
    <2>2. k \in 0..Capacity - 1 /\ k + n \in 0..2 * Capacity - 1
      BY <1>1, <2>1
    <2>3. Wrap(k + n) = IF k + n < Capacity THEN k + n ELSE k + n - Capacity
      BY <1>1, <2>2, WrapFacts
    <2>4. n + 1 \in 0..Capacity /\ h + (n + 1) = h + n + 1
      BY <1>1
    <2>5. Wrap(h + n + 1) = IF h + n + 1 < Capacity THEN h + n + 1
                            ELSE h + n + 1 - Capacity
      BY <1>1, <1>2, <2>4
    <2>6. Wrap(k + n) = Wrap(h + n + 1)
      BY <1>1, <2>1, <2>3, <2>5
    <2> QED
      BY <2>6 DEF k
  <1>5. ASSUME NEW m \in 0..Capacity - 1, NEW n \in 0..Capacity - 1,
               Wrap(h + m) = Wrap(h + n)
        PROVE  m = n
    <2>1. /\ Wrap(h + m) = IF h + m < Capacity THEN h + m ELSE h + m - Capacity
          /\ Wrap(h + n) = IF h + n < Capacity THEN h + n ELSE h + n - Capacity
      BY <1>1, <1>2
    <2> QED
      BY <1>1, <1>5, <2>1
  <1>6. Wrap(h + Capacity) = h
    BY <1>1, <1>2
  <1>7. ASSUME NEW n \in 0..Capacity PROVE Wrap(h + n) \in 0..Capacity - 1
    <2>1. Wrap(h + n) = IF h + n < Capacity THEN h + n ELSE h + n - Capacity
      BY <1>2
    <2> QED
      BY <1>1, <2>1
  <1> QED
    BY <1>3, <1>4, <1>5, <1>6, <1>7

\* s_tail is where the next sample goes: s_count slots after s_head.
RingOK(r) == r \in Ring /\ r.tail = Wrap(r.head + r.count)

\* The slot of the i-th waiting sample.
SlotOf(r, i) == Wrap(r.head + (i - 1))

\* The fields of a ring.
LEMMA RingFields ==
    ASSUME NEW r \in Ring
    PROVE  /\ r.buf \in [Slots -> Sample \cup {NoSample}]
           /\ r.head \in 0..Capacity - 1 /\ r.tail \in 0..Capacity - 1
           /\ r.count \in 0..Capacity
           /\ Capacity \in Nat /\ Capacity > 0
  BY BufferAssumption DEF Ring, Slots

\* The waiting samples are a sequence of s_count elements.
LEMMA ContentsFacts ==
    ASSUME NEW r \in Ring
    PROVE  /\ Contents(r) \in Seq(Sample \cup {NoSample})
           /\ Len(Contents(r)) = r.count
           /\ \A i \in 1..r.count : Contents(r)[i] = r.buf[SlotOf(r, i)]
           /\ \A i \in 1..r.count : SlotOf(r, i) \in Slots
  <1>1. /\ r.buf \in [Slots -> Sample \cup {NoSample}]
        /\ r.head \in 0..Capacity - 1 /\ r.count \in 0..Capacity
        /\ Capacity \in Nat /\ Capacity > 0
    BY RingFields
  <1>2. ASSUME NEW i \in 1..r.count PROVE SlotOf(r, i) \in Slots
    <2>1. i - 1 \in 0..Capacity
      BY <1>1
    <2> QED
      BY <1>1, <2>1, IndexFacts DEF Slots, SlotOf
  <1>3. Contents(r) = [i \in 1..r.count |-> r.buf[SlotOf(r, i)]]
    <2>1. ASSUME NEW i \in 1..r.count PROVE SlotOf(r, i) = (r.head + i - 1) % Capacity
      BY <1>1 DEF SlotOf, Wrap
    <2> QED
      BY <2>1 DEF Contents
  <1>4. Contents(r) \in [1..r.count -> Sample \cup {NoSample}]
    BY <1>1, <1>2, <1>3
  <1> QED
    BY <1>1, <1>2, <1>3, <1>4

\* A queue that gives up its front: ob_drop_front removes what ob_peek shows.
LEMMA DropFacts ==
    ASSUME NEW r, RingOK(r), r.count > 0
    PROVE  /\ RingOK(ob_drop_front(r))
           /\ Contents(r) # <<>>
           /\ ob_peek(r) = Head(Contents(r))
           /\ Contents(ob_drop_front(r)) = Tail(Contents(r))
  <1> DEFINE q == ob_drop_front(r)
             S == Sample \cup {NoSample}
  <1>1. /\ r \in Ring /\ r.tail = Wrap(r.head + r.count)
        /\ r.buf \in [Slots -> S]
        /\ r.head \in 0..Capacity - 1 /\ r.count \in 1..Capacity
        /\ r.tail \in 0..Capacity - 1
        /\ Capacity \in Nat /\ Capacity > 0
    BY RingFields DEF RingOK
  <1>2. /\ q.buf = r.buf /\ q.head = Wrap(r.head + 1) /\ q.tail = r.tail
        /\ q.count = r.count - 1
        /\ q = [r EXCEPT !.head = Wrap(r.head + 1), !.count = r.count - 1]
    BY <1>1 DEF ob_drop_front, Ring, Wrap
  <1>3. q \in Ring
    <2>1. 1 \in 0..Capacity /\ r.count - 1 \in 0..Capacity
      BY <1>1
    <2>2. Wrap(r.head + 1) \in Slots
      BY <1>1, <2>1, IndexFacts DEF Slots
    <2> QED
      BY <1>1, <1>2, <2>1, <2>2 DEF Ring
  <1> HIDE DEF q
  <1>4. q.tail = Wrap(q.head + q.count)
    <2>1. r.count - 1 \in 0..Capacity - 1 /\ r.head + (r.count - 1) + 1 = r.head + r.count
      BY <1>1
    <2>2. Wrap(Wrap(r.head + 1) + (r.count - 1)) = Wrap(r.head + (r.count - 1) + 1)
      BY <1>1, <2>1, IndexFacts
    <2> QED
      BY <1>1, <1>2, <2>1, <2>2
  <1>5. ASSUME NEW i \in 1..r.count - 1 PROVE SlotOf(q, i) = SlotOf(r, i + 1)
    <2>1. i - 1 \in 0..Capacity - 1 /\ r.head + (i - 1) + 1 = r.head + (i + 1 - 1)
      BY <1>1
    <2>2. Wrap(Wrap(r.head + 1) + (i - 1)) = Wrap(r.head + (i - 1) + 1)
      BY <1>1, <2>1, IndexFacts
    <2> QED
      BY <1>2, <2>1, <2>2 DEF SlotOf
  <1>6. /\ Contents(r) \in Seq(S) /\ Len(Contents(r)) = r.count
        /\ \A i \in 1..r.count : Contents(r)[i] = r.buf[SlotOf(r, i)]
        /\ Contents(q) \in Seq(S) /\ Len(Contents(q)) = q.count
        /\ \A i \in 1..q.count : Contents(q)[i] = q.buf[SlotOf(q, i)]
    BY <1>1, <1>3, ContentsFacts
  <1>7. Contents(r) # <<>>
    BY <1>1, <1>6
  <1>8. ob_peek(r) = Head(Contents(r))
    <2>1. SlotOf(r, 1) = r.head
      <3>1. r.head + (1 - 1) = r.head
        BY <1>1
      <3> QED
        BY <1>1, <3>1, IndexFacts DEF SlotOf
    <2>2. Head(Contents(r)) = Contents(r)[1]
      BY <1>6, <1>7
    <2> QED
      BY <1>1, <1>6, <2>1, <2>2 DEF ob_peek
  <1>9. Contents(q) = Tail(Contents(r))
    <2>1. /\ Tail(Contents(r)) \in Seq(S) /\ Len(Tail(Contents(r))) = r.count - 1
          /\ \A i \in 1..r.count - 1 : Tail(Contents(r))[i] = Contents(r)[i + 1]
      BY <1>6, <1>7, HeadTailProperties
    <2>2. ASSUME NEW i \in 1..r.count - 1 PROVE Contents(q)[i] = Tail(Contents(r))[i]
      <3>1. i + 1 \in 1..r.count /\ i \in 1..q.count
        BY <1>1, <1>2
      <3> QED
        BY <1>2, <1>5, <1>6, <2>1, <3>1
    <2> QED
      BY <1>2, <1>6, <2>1, <2>2, SeqEqual
  <1> QED
    BY <1>3, <1>4, <1>7, <1>8, <1>9 DEF RingOK, q

\* A push into a full buffer gives up the oldest sample; any push appends.
LEMMA PushFacts ==
    ASSUME NEW r, RingOK(r), NEW d \in Sample
    PROVE  /\ RingOK(ob_push(r, d))
           /\ Contents(ob_push(r, d)) =
                 Append(IF Len(Contents(r)) = Capacity THEN Tail(Contents(r))
                        ELSE Contents(r), d)
  <1> DEFINE q == ob_push(r, d)
             S == Sample \cup {NoSample}
             kept == IF Len(Contents(r)) = Capacity THEN Tail(Contents(r))
                     ELSE Contents(r)
  <1>1. /\ r \in Ring /\ r.tail = Wrap(r.head + r.count)
        /\ r.buf \in [Slots -> S]
        /\ r.head \in 0..Capacity - 1 /\ r.count \in 0..Capacity
        /\ r.tail \in 0..Capacity - 1
        /\ Capacity \in Nat /\ Capacity > 0
    BY RingFields DEF RingOK
  <1>2. /\ q.buf = [r.buf EXCEPT ![r.tail] = d]
        /\ q.head = IF r.count = Capacity THEN Wrap(r.head + 1) ELSE r.head
        /\ q.tail = Wrap(r.tail + 1)
        /\ q.count = IF r.count = Capacity THEN r.count ELSE r.count + 1
    BY DEF ob_push, Wrap
  <1>3. q \in Ring
    <2>1. q.head \in Slots /\ q.tail \in Slots
      <3>1. 1 \in 0..Capacity
        BY <1>1
      <3>2. Wrap(r.head + 1) \in Slots /\ Wrap(r.tail + 1) \in Slots
        BY <1>1, <3>1, IndexFacts DEF Slots
      <3> QED
        BY <1>1, <1>2, <3>2 DEF Slots
    <2>2. q.count \in 0..Capacity
      BY <1>1, <1>2
    <2>3. q.buf \in [Slots -> S]
      BY <1>1, <1>2
    <2>4. q = [buf |-> q.buf, head |-> q.head, tail |-> q.tail, count |-> q.count]
      BY DEF ob_push
    <2> HIDE DEF q
    <2> QED
      BY <2>1, <2>2, <2>3, <2>4 DEF Ring
  <1> HIDE DEF q
  <1>4. /\ Contents(r) \in Seq(S) /\ Len(Contents(r)) = r.count
        /\ \A i \in 1..r.count : Contents(r)[i] = r.buf[SlotOf(r, i)]
        /\ \A i \in 1..r.count : SlotOf(r, i) \in Slots
        /\ Contents(q) \in Seq(S) /\ Len(Contents(q)) = q.count
        /\ \A i \in 1..q.count : Contents(q)[i] = q.buf[SlotOf(q, i)]
    BY <1>1, <1>3, ContentsFacts
  <1>5. r.tail \in Slots /\ q.buf[r.tail] = d
        /\ \A j \in Slots \ {r.tail} : q.buf[j] = r.buf[j]
    BY <1>1, <1>2 DEF Slots
  <1>6. ASSUME NEW i \in 2..Capacity, i <= r.count, r.count = Capacity
        PROVE  SlotOf(r, i) # r.tail
    <2>1. r.tail = r.head /\ Wrap(r.head + 0) = r.head
      <3>1. r.head + 0 = r.head
        BY <1>1
      <3> QED
        BY <1>1, <1>6, <3>1, IndexFacts
    <2>2. i - 1 \in 0..Capacity - 1 /\ 0 \in 0..Capacity - 1 /\ i - 1 # 0
      BY <1>1
    <2>3. Wrap(r.head + (i - 1)) = Wrap(r.head + 0) => i - 1 = 0
      BY <1>1, <2>2, IndexFacts, Zenon
    <2> QED
      BY <2>1, <2>2, <2>3 DEF SlotOf
  <1>7. ASSUME NEW i \in 1..r.count, r.count < Capacity PROVE SlotOf(r, i) # r.tail
    <2>1. i - 1 \in 0..Capacity - 1 /\ r.count \in 0..Capacity - 1 /\ i - 1 # r.count
      BY <1>1, <1>7
    <2>2. Wrap(r.head + (i - 1)) = Wrap(r.head + r.count) => i - 1 = r.count
      BY <1>1, <2>1, IndexFacts, Zenon
    <2> QED
      BY <1>1, <2>1, <2>2 DEF SlotOf
  <1>8. ASSUME r.count = Capacity PROVE Contents(q) = Append(kept, d)
    <2>1. /\ kept = Tail(Contents(r)) /\ kept \in Seq(S) /\ Len(kept) = Capacity - 1
          /\ \A i \in 1..Capacity - 1 : kept[i] = Contents(r)[i + 1]
      BY <1>1, <1>4, <1>8, HeadTailProperties
    <2>2. ASSUME NEW i \in 1..Capacity
          PROVE  SlotOf(q, i) = Wrap(r.head + i)
      <3>1. i - 1 \in 0..Capacity - 1 /\ r.head + (i - 1) + 1 = r.head + i
        BY <1>1
      <3>2. Wrap(Wrap(r.head + 1) + (i - 1)) = Wrap(r.head + (i - 1) + 1)
        BY <1>1, <3>1, IndexFacts
      <3> QED
        BY <1>2, <1>8, <3>1, <3>2 DEF SlotOf
    <2>3. ASSUME NEW i \in 1..Capacity - 1 PROVE Contents(q)[i] = kept[i]
      <3>1. i + 1 \in 2..Capacity /\ i \in 1..Capacity /\ i + 1 - 1 = i
            /\ i + 1 <= r.count /\ i + 1 \in 1..r.count
        BY <1>1, <1>8
      <3>2. SlotOf(q, i) = SlotOf(r, i + 1)
        BY <2>2, <3>1 DEF SlotOf
      <3>3. SlotOf(r, i + 1) # r.tail /\ SlotOf(r, i + 1) \in Slots
        BY <1>4, <1>6, <1>8, <3>1
      <3>4. Contents(q)[i] = r.buf[SlotOf(r, i + 1)]
        BY <1>2, <1>4, <1>5, <1>8, <3>1, <3>2, <3>3
      <3> QED
        BY <1>4, <2>1, <3>1, <3>4
    <2>4. Contents(q)[Capacity] = d
      <3>1. Capacity \in 1..Capacity
        BY <1>1
      <3>2. SlotOf(q, Capacity) = r.tail
        BY <1>1, <1>8, <2>2, <3>1
      <3> QED
        BY <1>2, <1>4, <1>5, <1>8, <3>1, <3>2
    <2> HIDE DEF kept
    <2>5. /\ Append(kept, d) \in Seq(S) /\ Len(Append(kept, d)) = Capacity
          /\ \A i \in 1..Capacity - 1 : Append(kept, d)[i] = kept[i]
          /\ Append(kept, d)[Capacity] = d
      BY <1>1, <2>1, AppendProperties
    <2>6. ASSUME NEW i \in 1..Capacity PROVE Contents(q)[i] = Append(kept, d)[i]
      BY <1>1, <2>3, <2>4, <2>5
    <2> QED
      BY <1>2, <1>4, <1>8, <2>5, <2>6, SeqEqual
  <1>9. ASSUME r.count # Capacity PROVE Contents(q) = Append(kept, d)
    <2>1. /\ kept = Contents(r) /\ r.count < Capacity /\ q.head = r.head
          /\ q.count = r.count + 1
      BY <1>1, <1>2, <1>4, <1>9
    <2>2. ASSUME NEW i \in 1..r.count PROVE Contents(q)[i] = Contents(r)[i]
      <3>1. SlotOf(q, i) = SlotOf(r, i) /\ i \in 1..q.count
        BY <1>1, <2>1 DEF SlotOf
      <3>2. SlotOf(r, i) # r.tail /\ SlotOf(r, i) \in Slots
        BY <1>4, <1>7, <2>1
      <3> QED
        BY <1>4, <1>5, <3>1, <3>2
    <2>3. Contents(q)[r.count + 1] = d
      <3>1. r.count + 1 \in 1..q.count /\ r.count + 1 - 1 = r.count
        BY <1>1, <2>1
      <3>2. SlotOf(q, r.count + 1) = r.tail
        BY <1>1, <2>1, <3>1 DEF SlotOf
      <3> QED
        BY <1>4, <1>5, <3>1, <3>2
    <2>4. /\ Append(Contents(r), d) \in Seq(S)
          /\ Len(Append(Contents(r), d)) = r.count + 1
          /\ \A i \in 1..r.count : Append(Contents(r), d)[i] = Contents(r)[i]
          /\ Append(Contents(r), d)[r.count + 1] = d
      BY <1>4, AppendProperties
    <2>5. ASSUME NEW i \in 1..r.count + 1
          PROVE  Contents(q)[i] = Append(Contents(r), d)[i]
      <3>1. i \in 1..r.count \/ i = r.count + 1
        BY <1>1
      <3> QED
        BY <2>2, <2>3, <2>4, <3>1
    <2>6. Contents(q) = Append(Contents(r), d)
      <3>1. /\ Len(Contents(q)) = r.count + 1
            /\ Contents(q) \in Seq(S) /\ Append(Contents(r), d) \in Seq(S)
        BY <1>4, <2>1, <2>4
      <3>2. \A i \in 1..Len(Contents(q)) : Contents(q)[i] = Append(Contents(r), d)[i]
        BY <2>5, <3>1
      <3>3. Len(Contents(q)) = Len(Append(Contents(r), d))
        BY <2>4, <3>1
      <3> QED
        BY <3>1, <3>2, <3>3, SeqEqual
    <2> QED
      BY <2>1, <2>6
  <1>10. q.tail = Wrap(q.head + q.count)
    <2>1. CASE r.count = Capacity
      <3>1. r.tail = r.head
        BY <1>1, <2>1, IndexFacts
      <3>2. Wrap(r.head + 1) \in 0..Capacity - 1
        BY <1>1, IndexFacts
      <3> QED
        BY <1>2, <2>1, <3>1, <3>2, IndexFacts
    <2>2. CASE r.count # Capacity
      <3> DEFINE h == r.head
                 n == r.count
      <3>1. /\ h \in 0..Capacity - 1 /\ n \in 0..Capacity - 1
            /\ h + n \in 0..2 * Capacity - 1 /\ h + (n + 1) \in 0..2 * Capacity - 1
        BY <1>1, <2>2
      <3>2. q.tail = Wrap(Wrap(h + n) + 1) /\ q.head = h /\ q.count = n + 1
        BY <1>1, <1>2, <2>2
      <3> HIDE DEF h, n
      <3>3. Wrap(h + n) = IF h + n < Capacity THEN h + n ELSE h + n - Capacity
        BY <1>1, <3>1, WrapFacts
      <3>4. Wrap(h + (n + 1)) = IF h + (n + 1) < Capacity THEN h + (n + 1)
                                ELSE h + (n + 1) - Capacity
        BY <1>1, <3>1, WrapFacts
      <3> DEFINE k == Wrap(h + n)
      <3>5. k \in 0..Capacity - 1 /\ k + 1 \in 0..2 * Capacity - 1
        BY <1>1, <3>1, <3>3
      <3>6. k = IF h + n < Capacity THEN h + n ELSE h + n - Capacity
        BY <3>3
      <3>7. q.tail = Wrap(k + 1)
        BY <3>2
      <3> HIDE DEF k
      <3>8. Wrap(k + 1) = IF k + 1 < Capacity THEN k + 1 ELSE k + 1 - Capacity
        BY <1>1, <3>5, WrapFacts
      <3>9. Wrap(k + 1) = Wrap(h + (n + 1))
        BY <1>1, <3>1, <3>4, <3>5, <3>6, <3>8
      <3> QED
        BY <3>2, <3>7, <3>9
    <2> QED
      BY <2>1, <2>2
  <1>11. Contents(q) = Append(kept, d)
    BY <1>8, <1>9
  <1> QED
    BY <1>3, <1>10, <1>11 DEF RingOK, q

-----------------------------------------------------------------------------
(* The task.                                                               *)

UplinkInv == UplinkTypeOK /\ RingOK(ring) /\ Underway

\* Ages stay within the bound they saturate at.
LEMMA AgedFacts ==
    ASSUME NEW max \in Nat, NEW n \in 0..max, NEW elapsed \in Nat
    PROVE  Aged(n, max, elapsed) \in 0..max
  BY DEF Aged

\* The empty buffer is a ring with nothing in it.
LEMMA EmptyRingFacts == RingOK(EmptyRing) /\ Contents(EmptyRing) = <<>>
  <1>1. Capacity \in Nat /\ Capacity > 0
    BY BufferAssumption
  <1>2. EmptyRing \in Ring
    BY <1>1 DEF EmptyRing, Ring, Slots
  <1>3. EmptyRing.tail = Wrap(EmptyRing.head + EmptyRing.count)
    <2>1. 0 \in 0..Capacity - 1 /\ 0 + 0 = 0
      BY <1>1
    <2>2. Wrap(0) = 0
      BY <2>1, IndexFacts
    <2> QED
      BY <2>1, <2>2 DEF EmptyRing
  <1>4. Len(Contents(EmptyRing)) = 0 /\ Contents(EmptyRing) \in Seq(Sample \cup {NoSample})
    BY <1>2, ContentsFacts DEF EmptyRing
  <1> QED
    BY <1>2, <1>3, <1>4 DEF RingOK

\* Power-on.
LEMMA InitUplink == UplinkInit => UplinkInv
  <1> SUFFICES ASSUME UplinkInit PROVE UplinkInv
    OBVIOUS
  <1>1. E22TypeOK /\ Underway
    BY InitE22 DEF UplinkInit, E22Inv
  <1>2. /\ attempts \in 0..MaxAttempts /\ hbAge \in 0..LinkTimeout + 1
        /\ bootAge \in 0..BootGrace + 1 /\ sampleAge \in 0..SamplePeriod
        /\ burst \in 0..Burst
    BY UplinkAssumption DEF UplinkInit
  <1>3. /\ heard \in BOOLEAN /\ linkDown \in BOOLEAN /\ hasSamples \in BOOLEAN
        /\ takenSent \in BOOLEAN
    BY Zenon DEF UplinkInit
  <1>4. RingOK(ring) /\ ring \in Ring
    BY EmptyRingFacts DEF UplinkInit, RingOK
  <1>5. UplinkTypeOK
    BY <1>1, <1>2, <1>3, <1>4 DEF UplinkInit, UplinkTypeOK
  <1> QED
    BY <1>1, <1>4, <1>5 DEF UplinkInv

\* onRxByte and updateLink keep the types of the link's variables.
LEMMA ReceiveFacts ==
    ASSUME UplinkTypeOK, NEW beat \in BOOLEAN, NEW elapsed \in {0, 1},
           Receive(beat, elapsed)
    PROVE  /\ heard' \in BOOLEAN /\ linkDown' \in BOOLEAN
           /\ hbAge' \in 0..LinkTimeout + 1 /\ bootAge' \in 0..BootGrace + 1
  <1>1. /\ heard' = (heard \/ beat)
        /\ hbAge' = IF beat THEN 0 ELSE Aged(hbAge, LinkTimeout + 1, elapsed)
        /\ bootAge' = Aged(bootAge, BootGrace + 1, elapsed)
        /\ linkDown' \in {TRUE, FALSE, linkDown}
    BY DEF Receive
  <1>2. heard' \in BOOLEAN /\ linkDown' \in BOOLEAN
    BY <1>1, Zenon DEF UplinkTypeOK
  <1>3. /\ LinkTimeout + 1 \in Nat /\ BootGrace + 1 \in Nat /\ elapsed \in Nat
        /\ 0 \in 0..LinkTimeout + 1
    BY UplinkAssumption
  <1>4. hbAge \in 0..LinkTimeout + 1 /\ bootAge \in 0..BootGrace + 1
    BY DEF UplinkTypeOK
  <1>5. Aged(hbAge, LinkTimeout + 1, elapsed) \in 0..LinkTimeout + 1
    BY <1>3, <1>4, AgedFacts
  <1>6. Aged(bootAge, BootGrace + 1, elapsed) \in 0..BootGrace + 1
    BY <1>3, <1>4, AgedFacts
  <1> QED
    BY <1>1, <1>2, <1>3, <1>5, <1>6

\* Steps that touch neither the radio's configuration nor the buffer.
LEMMA QuietSteps ==
    ASSUME UplinkInv,
           \/ \E d \in Sample : CanPublish(d)
           \/ RadioChange
           \/ \E ok \in BOOLEAN : UartInit(ok)
           \/ EndTransmit
    PROVE  UplinkInv' /\ UNCHANGED <<ring, taken>>
  <1>1. /\ UNCHANGED <<ring, burst, taken, hbAge, bootAge, sampleAge, e22Vars>>
        /\ upPhase' \in {"init", "disabled", "config", "loop", "replay"}
        /\ radio' \in {"ready", "busy", "failing"}
        /\ live' \subseteq Sample
    BY DEF UplinkInv, UplinkTypeOK, CanPublish, RadioChange, UartInit, EndTransmit,
       link, uart_init_retry_decision
  <1>2. attempts' \in 0..MaxAttempts
    BY UplinkAssumption DEF UplinkInv, UplinkTypeOK, CanPublish, RadioChange, UartInit,
       EndTransmit
  <1>3. UNCHANGED <<heard, linkDown, hasSamples, takenSent>>
    BY DEF CanPublish, RadioChange, UartInit, EndTransmit, link
  <1>4. E22TypeOK' /\ Underway'
    BY <1>1 DEF UplinkInv, UplinkTypeOK, e22Vars, E22TypeOK, Underway
  <1>5. UplinkTypeOK'
    BY <1>1, <1>2, <1>3, <1>4 DEF UplinkInv, UplinkTypeOK
  <1> QED
    BY <1>1, <1>4, <1>5 DEF UplinkInv

\* A step of the hand-shake leaves the rest of the task alone.
LEMMA ConfigureStep ==
    ASSUME UplinkInv, Configure
    PROVE  UplinkInv' /\ UNCHANGED <<ring, taken>>
  <1>1. /\ configureE22 /\ upPhase' \in {"loop", "config"}
        /\ UNCHANGED <<attempts, heard, hbAge, bootAge, linkDown, hasSamples, sampleAge,
                       ring, burst, live, radio, taken, takenSent>>
    BY DEF Configure, link
  <1>2. E22TypeOK' /\ Underway'
    BY <1>1, StepE22 DEF UplinkInv, UplinkTypeOK, E22Inv
  <1>3. UplinkTypeOK'
    BY <1>1, <1>2 DEF UplinkInv, UplinkTypeOK
  <1> QED
    BY <1>1, <1>2, <1>3 DEF UplinkInv

\* An iteration that only listens, or starts to transmit.
LEMMA ListenStep ==
    ASSUME UplinkInv, NEW beat \in BOOLEAN, Loop(beat) \/ TransmitTick(beat)
    PROVE  UplinkInv' /\ UNCHANGED <<ring, taken>>
  <1>1. /\ UNCHANGED <<attempts, ring, live, radio, taken, takenSent, e22Vars>>
        /\ upPhase' \in {"loop", "replay"} /\ burst' \in {burst, 0}
        /\ sampleAge' \in {sampleAge, Aged(sampleAge, SamplePeriod, 1)}
        /\ \E elapsed \in {0, 1} : Receive(beat, elapsed)
    BY DEF Loop, TransmitTick
  <1>2. hasSamples' \in BOOLEAN
    BY Zenon DEF Loop, TransmitTick, Remembered, UplinkInv, UplinkTypeOK
  <1>3. /\ heard' \in BOOLEAN /\ linkDown' \in BOOLEAN
        /\ hbAge' \in 0..LinkTimeout + 1 /\ bootAge' \in 0..BootGrace + 1
    BY <1>1, ReceiveFacts DEF UplinkInv
  <1>4. sampleAge' \in 0..SamplePeriod
    <2>1. SamplePeriod \in Nat /\ sampleAge \in 0..SamplePeriod /\ 1 \in Nat
      BY UplinkAssumption DEF UplinkInv, UplinkTypeOK
    <2> QED
      BY <1>1, <2>1, AgedFacts
  <1>5. burst' \in 0..Burst
    BY <1>1, UplinkAssumption DEF UplinkInv, UplinkTypeOK
  <1>6. E22TypeOK' /\ Underway'
    BY <1>1 DEF UplinkInv, UplinkTypeOK, e22Vars, E22TypeOK, Underway
  <1>7. UplinkTypeOK'
    BY <1>1, <1>2, <1>3, <1>4, <1>5, <1>6 DEF UplinkInv, UplinkTypeOK
  <1> QED
    BY <1>1, <1>6, <1>7 DEF UplinkInv

\* A TX tick with the link down: it may push one sample.
LEMMA SampleStep ==
    ASSUME UplinkInv, NEW beat \in BOOLEAN, SampleTick(beat)
    PROVE  /\ UplinkInv' /\ taken' = taken
           /\ ring' = ring \/ \E d \in Sample : ring' = ob_push(ring, d)
  <1>1. /\ UNCHANGED <<upPhase, attempts, burst, live, radio, taken, takenSent, e22Vars>>
        /\ Receive(beat, 1)
        /\ sampleAge' \in {0, Aged(sampleAge, SamplePeriod, 1)}
        /\ ring' = ring \/ \E d \in live : ring' = ob_push(ring, d)
    BY DEF SampleTick
  <1>2. hasSamples' \in BOOLEAN
    BY Zenon DEF SampleTick, Remembered, UplinkInv, UplinkTypeOK
  <1>3. /\ heard' \in BOOLEAN /\ linkDown' \in BOOLEAN
        /\ hbAge' \in 0..LinkTimeout + 1 /\ bootAge' \in 0..BootGrace + 1
    BY <1>1, ReceiveFacts DEF UplinkInv
  <1>4. sampleAge' \in 0..SamplePeriod
    <2>1. SamplePeriod \in Nat /\ sampleAge \in 0..SamplePeriod /\ 1 \in Nat
      BY UplinkAssumption DEF UplinkInv, UplinkTypeOK
    <2> QED
      BY <1>1, <2>1, AgedFacts, SMTT(30)
  <1>5. E22TypeOK' /\ Underway'
    BY <1>1 DEF UplinkInv, UplinkTypeOK, e22Vars, E22TypeOK, Underway
  <1>6. ring' = ring \/ \E d \in Sample : ring' = ob_push(ring, d)
    BY <1>1 DEF UplinkInv, UplinkTypeOK
  <1>7. RingOK(ring') /\ ring' \in Ring
    BY <1>6, PushFacts DEF UplinkInv, RingOK
  <1>8. UplinkTypeOK'
    BY <1>1, <1>2, <1>3, <1>4, <1>5, <1>7 DEF UplinkInv, UplinkTypeOK
  <1> QED
    BY <1>1, <1>5, <1>6, <1>7, <1>8 DEF UplinkInv

\* One sample is replayed: it was the oldest, and it leaves the buffer.
LEMMA ReplayStep ==
    ASSUME UplinkInv, ReplayOne
    PROVE  /\ UplinkInv' /\ ring.count > 0
           /\ taken' = ob_peek(ring) /\ ring' = ob_drop_front(ring)
  <1>1. /\ UNCHANGED <<upPhase, attempts, heard, hbAge, bootAge, linkDown, hasSamples,
                       sampleAge, live, radio, e22Vars>>
        /\ taken' = ob_peek(ring) /\ ring' = ob_drop_front(ring)
        /\ burst < Burst /\ burst' = burst + 1 /\ ring.count > 0
    BY DEF ReplayOne, MayReplay, ob_count, link
  <1>2. RingOK(ring') /\ ring' \in Ring
    BY <1>1, DropFacts DEF UplinkInv, RingOK
  <1>3. taken' \in Sample \cup {NoSample}
    <2>1. ring.buf \in [Slots -> Sample \cup {NoSample}] /\ ring.head \in Slots
      BY RingFields DEF UplinkInv, RingOK, Slots
    <2> QED
      BY <1>1, <2>1 DEF ob_peek
  <1>4. takenSent' \in BOOLEAN
    BY Zenon DEF ReplayOne
  <1>5. burst' \in 0..Burst
    BY <1>1, UplinkAssumption DEF UplinkInv, UplinkTypeOK
  <1>6. E22TypeOK' /\ Underway'
    BY <1>1 DEF UplinkInv, UplinkTypeOK, e22Vars, E22TypeOK, Underway
  <1>7. UplinkTypeOK'
    BY <1>1, <1>2, <1>3, <1>4, <1>5, <1>6 DEF UplinkInv, UplinkTypeOK
  <1> QED
    BY <1>1, <1>2, <1>6, <1>7 DEF UplinkInv

\* What any step does to the buffer: nothing, one push, or one replay.
LEMMA UplinkStep ==
    ASSUME UplinkInv, [UplinkNext]_upVars
    PROVE  /\ UplinkInv'
           /\ \/ UNCHANGED <<ring, taken>>
              \/ taken' = taken /\ \E d \in Sample : ring' = ob_push(ring, d)
              \/ /\ ring.count > 0
                 /\ taken' = ob_peek(ring) /\ ring' = ob_drop_front(ring)
  <1>1. CASE UNCHANGED upVars
    BY <1>1 DEF upVars, e22Vars, UplinkInv, UplinkTypeOK, E22TypeOK, Underway
  <1>2. CASE UplinkNext
    BY <1>2, QuietSteps, ConfigureStep, ListenStep, SampleStep, ReplayStep
       DEF UplinkNext, TxTick, Transmit
  <1> QED
    BY <1>1, <1>2

\* The invariant of the uplink task holds throughout.
THEOREM UplinkInductive == UplinkSpec => []UplinkInv
  <1>1. UplinkInv /\ [UplinkNext]_upVars => UplinkInv'
    BY UplinkStep
  <1> QED
    BY InitUplink, <1>1, PTL DEF UplinkSpec

\* Every variable of the uplink keeps its type: the indices stay inside the
\* buffer, the counters below their bounds, whatever the link does.
THEOREM UplinkTypeCorrect == UplinkSpec => []UplinkTypeOK
  <1>1. UplinkInv => UplinkTypeOK
    BY DEF UplinkInv
  <1> QED
    BY <1>1, UplinkInductive, PTL

\* The ring of indices implements the drop-oldest queue: what is replayed is
\* what was sampled, in order, once, however often the buffer wraps around.
THEOREM RingIsFifo == UplinkSpec => RefinesFifo
  <1>1. UplinkInit => Fifo!FifoInit
    BY EmptyRingFacts DEF UplinkInit, Fifo!FifoInit
  <1>2. UplinkInv /\ [UplinkNext]_upVars
           => [Fifo!FifoNext]_<<Contents(ring), taken>>
    <2> SUFFICES ASSUME UplinkInv, [UplinkNext]_upVars
                 PROVE  [Fifo!FifoNext]_<<Contents(ring), taken>>
      OBVIOUS
    <2>1. RingOK(ring)
      BY DEF UplinkInv
    <2>2. CASE UNCHANGED <<ring, taken>>
      BY <2>2 DEF Contents
    <2>3. CASE taken' = taken /\ \E d \in Sample : ring' = ob_push(ring, d)
      <3>1. PICK d \in Sample : ring' = ob_push(ring, d)
        BY <2>3
      <3>2. Contents(ring)' = Contents(ring')
        BY DEF Contents
      <3>3. Contents(ring') = Append(IF Len(Contents(ring)) = Capacity
                                     THEN Tail(Contents(ring)) ELSE Contents(ring), d)
        BY <2>1, <3>1, PushFacts
      <3>4. Fifo!Push(d)
        BY <2>3, <3>2, <3>3 DEF Fifo!Push
      <3> QED
        BY <3>4 DEF Fifo!FifoNext
    <2>4. CASE /\ ring.count > 0
               /\ taken' = ob_peek(ring) /\ ring' = ob_drop_front(ring)
      <3>1. Contents(ring)' = Contents(ring')
        BY DEF Contents
      <3>2. /\ Contents(ring) # <<>> /\ taken' = Head(Contents(ring))
            /\ Contents(ring') = Tail(Contents(ring))
        BY <2>1, <2>4, DropFacts
      <3>3. Fifo!Take
        BY <3>1, <3>2 DEF Fifo!Take
      <3> QED
        BY <3>3 DEF Fifo!FifoNext
    <2> QED
      BY <2>2, <2>3, <2>4, UplinkStep
  <1> QED
    BY <1>1, <1>2, UplinkInductive, PTL DEF UplinkSpec, RefinesFifo, Fifo!FifoSpec

\* The two promises of the hand-shake hold of the whole uplink task, traffic
\* included.
THEOREM UplinkRadioReady == UplinkSpec => [](RadioConfigured /\ ConfirmTruthful)
  <1>1. UplinkInv => RadioConfigured /\ ConfirmTruthful
    BY DEF UplinkInv, Underway, RadioConfigured, ConfirmTruthful
  <1> QED
    BY <1>1, UplinkInductive, PTL
=============================================================================
