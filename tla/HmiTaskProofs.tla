--------------------------- MODULE HmiTaskProofs ----------------------------
(***************************************************************************)
(* Proofs about the display task: the touch parser on a disturbed line,    *)
(* the numbers of the main page and the warning of the battery page, for   *)
(* every set of commands and snapshots and every bound on the presses.     *)
(***************************************************************************)
EXTENDS HmiTask, FiniteSetTheorems, SequenceTheorems, WellFoundedInduction, TLAPS

-----------------------------------------------------------------------------
(* The parser.                                                             *)

\* What one byte does to the parser, case by case.
LEMMA ParseFacts ==
    ASSUME NEW st \in 0..2, NEW pd \in Bytes, NEW b \in Bytes
    PROVE  /\ ParseByte(st, pd, b).state =
                IF b \in {255, 0} THEN 0
                ELSE IF st = 0 THEN (IF b = 90 THEN 1 ELSE 0)
                ELSE IF st = 1 THEN 2 ELSE 0
           /\ ParseByte(st, pd, b).pending =
                IF b \notin {255, 0} /\ st = 1 THEN b ELSE pd
           /\ ParseByte(st, pd, b).cmd =
                IF b \notin {255, 0} /\ st = 2 /\ b = 255 - pd THEN pd ELSE 0
  <1>1. CASE b \in {255, 0}
    BY <1>1 DEF ParseByte, Parsed
  <1>2. CASE b \notin {255, 0} /\ st = 0
    BY <1>2 DEF ParseByte, Parsed
  <1>3. CASE b \notin {255, 0} /\ st = 1
    BY <1>3 DEF ParseByte, Parsed
  <1>4. CASE b \notin {255, 0} /\ st = 2
    BY <1>4 DEF ParseByte, Parsed
  <1> QED
    BY <1>1, <1>2, <1>3, <1>4

\* The first k bytes of s end with an intact frame, of which the parser, in
\* state st, may have read some: it starts over once it has read them all.
EndsFrame(s, st, k) ==
    /\ k = 0 => st = 0
    /\ k = 1 => st # 1
    /\ k >= 1 => \E c \in 1..4 : /\ s[k][1] = 255 - c
                                 /\ k >= 2 => s[k - 1][1] = c
                                 /\ k >= 3 => s[k - 2][1] = 90

\* Byte k of s ends an intact frame for its tag that follows an intact frame.
Owed(s, st, pd, k) ==
    /\ s[k][2] \in 1..4
    /\ s[k][1] = 255 - s[k][2]
    /\ IF k = 1 THEN st = 2 /\ pd = s[k][2] ELSE s[k - 1][1] = s[k][2]
    /\ k = 2 => st = 1
    /\ k >= 3 => s[k - 2][1] = 90 /\ EndsFrame(s, st, k - 3)

Line == Seq(Bytes \X (0..4))

LEMMA LineFacts ==
    ASSUME NEW s \in Line, s # <<>>
    PROVE  /\ Len(s) \in Nat /\ Len(s) >= 1
           /\ Head(s) = s[1] /\ Head(s)[1] \in Bytes /\ Head(s)[2] \in 0..4
           /\ Tail(s) \in Line /\ Len(Tail(s)) = Len(s) - 1
           /\ \A n \in 1..Len(s) - 1 : Tail(s)[n] = s[n + 1]
  <1>1. Len(s) \in Nat /\ Len(s) >= 1 /\ Head(s) = s[1]
    BY DEF Line
  <1>2. s[1] \in Bytes \X (0..4)
    BY <1>1 DEF Line
  <1>3. Tail(s) \in Line /\ Len(Tail(s)) = Len(s) - 1
    BY <1>1 DEF Line
  <1>4. \A n \in 1..Len(s) - 1 : Tail(s)[n] = s[n + 1]
    BY <1>1 DEF Line
  <1> QED
    BY <1>1, <1>2, <1>3, <1>4

\* Reading a byte brings the end of every frame one byte nearer.
LEMMA ReadEnds ==
    ASSUME NEW s \in Line, s # <<>>, NEW st \in 0..2, NEW pd \in Bytes,
           NEW k \in 1..Len(s), EndsFrame(s, st, k)
    PROVE  EndsFrame(Tail(s), ParseByte(st, pd, Head(s)[1]).state, k - 1)
  <1> DEFINE b == Head(s)[1]
             r == ParseByte(st, pd, b).state
  <1>1. Len(s) \in Nat /\ Len(s) >= 1 /\ b = s[1][1] /\ b \in Bytes
    BY LineFacts
  <1>2. r = IF b \in {255, 0} THEN 0
            ELSE IF st = 0 THEN (IF b = 90 THEN 1 ELSE 0)
            ELSE IF st = 1 THEN 2 ELSE 0
    BY <1>1, ParseFacts
  <1>3. \A n \in 1..Len(s) - 1 : Tail(s)[n] = s[n + 1]
    BY LineFacts
  <1> HIDE DEF b, r
  <1>4. PICK c \in 1..4 : /\ s[k][1] = 255 - c
                          /\ k >= 2 => s[k - 1][1] = c
                          /\ k >= 3 => s[k - 2][1] = 90
    BY DEF EndsFrame
  <1>5. CASE k = 1
    <2>1. st # 1
      BY <1>5 DEF EndsFrame
    <2>2. r = 0
      BY <1>1, <1>2, <1>4, <1>5, <2>1
    <2> QED
      BY <1>5, <2>2 DEF EndsFrame, b, r
  <1>6. CASE k = 2
    <2>1. Tail(s)[1][1] = 255 - c
      BY <1>3, <1>4, <1>6
    <2>2. b = c
      BY <1>1, <1>4, <1>6
    <2>3. r # 1
      BY <1>2, <2>2
    <2> QED
      BY <1>6, <2>1, <2>3 DEF EndsFrame, b, r
  <1>7. CASE k >= 3
    <2>1. Tail(s)[k - 1] = s[k] /\ Tail(s)[k - 2] = s[k - 1]
      BY <1>1, <1>3, <1>7
    <2>2. k - 1 >= 3 => Tail(s)[k - 3] = s[k - 2]
      BY <1>1, <1>3, <1>7
    <2> QED
      BY <1>4, <1>7, <2>1, <2>2 DEF EndsFrame, b, r
  <1> QED
    BY <1>1, <1>5, <1>6, <1>7

\* An owed byte stays owed until it is read, and reading it completes its command.
LEMMA ReadOwed ==
    ASSUME NEW s \in Line, s # <<>>, NEW st \in 0..2, NEW pd \in Bytes,
           NEW k \in 1..Len(s), Owed(s, st, pd, k)
    PROVE  LET r == ParseByte(st, pd, Head(s)[1])
           IN  /\ k = 1 => r.cmd = s[1][2]
               /\ k # 1 => Owed(Tail(s), r.state, r.pending, k - 1)
  <1> DEFINE b == Head(s)[1]
             r == ParseByte(st, pd, b)
  <1>1. Len(s) \in Nat /\ Len(s) >= 1 /\ b = s[1][1] /\ b \in Bytes
    BY LineFacts
  <1>2. /\ r.state = IF b \in {255, 0} THEN 0
                     ELSE IF st = 0 THEN (IF b = 90 THEN 1 ELSE 0)
                     ELSE IF st = 1 THEN 2 ELSE 0
        /\ r.pending = IF b \notin {255, 0} /\ st = 1 THEN b ELSE pd
        /\ r.cmd = IF b \notin {255, 0} /\ st = 2 /\ b = 255 - pd THEN pd ELSE 0
    BY <1>1, ParseFacts
  <1>3. \A n \in 1..Len(s) - 1 : Tail(s)[n] = s[n + 1]
    BY LineFacts
  <1> DEFINE c == s[k][2]
  <1>4. /\ c \in 1..4 /\ s[k][1] = 255 - c
        /\ IF k = 1 THEN st = 2 /\ pd = c ELSE s[k - 1][1] = c
        /\ k = 2 => st = 1
        /\ k >= 3 => s[k - 2][1] = 90 /\ EndsFrame(s, st, k - 3)
    BY DEF Owed
  <1>5. k >= 2 => Tail(s)[k - 1] = s[k]
    BY <1>1, <1>3
  <1>6. k >= 3 => Tail(s)[k - 2] = s[k - 1]
    BY <1>1, <1>3
  <1>7. k >= 4 => Tail(s)[k - 3] = s[k - 2]
    BY <1>1, <1>3
  <1>8. k >= 4 => EndsFrame(Tail(s), r.state, k - 4)
    <2>1. k >= 4 => k - 3 \in 1..Len(s) /\ (k - 3) - 1 = k - 4
      BY <1>1
    <2> QED
      BY <1>1, <1>4, <2>1, ReadEnds
  <1> HIDE DEF b, r, c
  <1>9. CASE k = 1
    <2>1. r.cmd = c
      BY <1>1, <1>2, <1>4, <1>9 DEF Bytes
    <2> QED
      BY <1>9, <2>1 DEF b, r, c
  <1>10. CASE k = 2
    <2>1. r.state = 2 /\ r.pending = c
      BY <1>1, <1>2, <1>4, <1>10
    <2>2. Owed(Tail(s), r.state, r.pending, 1)
      BY <1>4, <1>5, <1>10, <2>1 DEF Owed, c
    <2> QED
      BY <1>10, <2>2 DEF b, r
  <1>11. CASE k = 3
    <2>1. r.state = 1
      BY <1>1, <1>2, <1>4, <1>11 DEF EndsFrame
    <2>2. Owed(Tail(s), r.state, r.pending, 2)
      BY <1>4, <1>5, <1>6, <1>11, <2>1 DEF Owed, c
    <2> QED
      BY <1>11, <2>2 DEF b, r
  <1>12. CASE k >= 4
    <2>1. Owed(Tail(s), r.state, r.pending, k - 1)
      BY <1>4, <1>5, <1>6, <1>7, <1>8, <1>12 DEF Owed, c
    <2> QED
      BY <1>12, <2>1 DEF b, r
  <1> QED
    BY <1>9, <1>10, <1>11, <1>12

-----------------------------------------------------------------------------
(* The line.                                                               *)

\* A byte of f that the parser, fresh or not, may take for command d: it follows a
\* header, if anything, and precedes the check byte, if anything.
CommandAt(f, j, d) ==
    f[j] = d /\ (j >= 2 => f[j - 1] = 90) /\ (j < Len(f) => f[j + 1] = 255 - d)

\* What a press puts on the line: two to four bytes, and however one of them was
\* lost, altered or added, at most one is taken for a command, the one pressed.
LEMMA FrameFacts ==
    ASSUME NEW c \in 1..4, NEW f \in {Frame(c)} \cup Damaged(Frame(c))
    PROVE  /\ f \in Seq(Bytes) /\ Len(f) \in 2..4
           /\ \E p \in 1..Len(f) : \A j \in 1..Len(f), d \in 1..4 :
                 CommandAt(f, j, d) => j = p /\ d = c
  <1> DEFINE g == Frame(c)
             Good(h) == /\ h \in Seq(Bytes) /\ Len(h) \in 2..4
                        /\ \E p \in 1..Len(h) : \A j \in 1..Len(h), d \in 1..4 :
                              CommandAt(h, j, d) => j = p /\ d = c
  <1>1. /\ g \in Seq(Bytes) /\ Len(g) = 3
        /\ g[1] = 90 /\ g[2] = c /\ g[3] = 255 - c
    BY DEF Frame, Bytes
  <1>2. StrayBytes \subseteq Bytes
    BY TouchAssumption DEF Bytes
  <1> HIDE DEF g
  <1>g. \A i \in 1..3 : g[i] \in Bytes
    <2>1. 90 \in Bytes /\ c \in Bytes /\ 255 - c \in Bytes
      BY DEF Bytes
    <2> QED
      BY <1>1, <2>1
  <1>3. Good(g)
    <2>1. \A j \in 1..3, d \in 1..4 : CommandAt(g, j, d) => j = 2 /\ d = c
      BY <1>1 DEF CommandAt
    <2> QED
      BY <1>1, <2>1
  <1>4. ASSUME NEW k \in 1..3 PROVE Good(RemoveAt(g, k))
    <2> DEFINE h == RemoveAt(g, k)
    <2>1. h \in Seq(Bytes) /\ Len(h) = 2
      <3>1. /\ SubSeq(g, 1, k - 1) \in Seq(Bytes) /\ Len(SubSeq(g, 1, k - 1)) = k - 1
            /\ SubSeq(g, k + 1, 3) \in Seq(Bytes) /\ Len(SubSeq(g, k + 1, 3)) = 3 - k
        BY <1>g, SubSeqProperties
      <3> QED
        BY <1>1, <3>1, ConcatProperties DEF RemoveAt
    <2>2. h[1] = (IF k = 1 THEN g[2] ELSE g[1]) /\ h[2] = (IF k = 3 THEN g[2] ELSE g[3])
      BY <1>1 DEF RemoveAt
    <2> HIDE DEF h
    <2>3. \A j \in 1..2, d \in 1..4 :
             CommandAt(h, j, d) => j = (IF k = 1 THEN 1 ELSE 2) /\ d = c
      BY <1>1, <2>1, <2>2 DEF CommandAt
    <2>4. Good(h)
      BY <2>1, <2>3
    <2> QED
      BY <2>4 DEF h
  <1>5. ASSUME NEW k \in 1..3, NEW b \in StrayBytes PROVE Good(ReplaceAt(g, k, b))
    <2> DEFINE h == ReplaceAt(g, k, b)
    <2>1. h \in Seq(Bytes) /\ Len(h) = 3
      <3>1. DOMAIN g = 1..3 /\ b \in Bytes
        BY <1>1, <1>2
      <3>2. h = [i \in 1..3 |-> IF i = k THEN b ELSE g[i]]
        BY <3>1 DEF ReplaceAt
      <3> HIDE DEF h
      <3>3. \A i \in 1..3 : (IF i = k THEN b ELSE g[i]) \in Bytes
        BY <1>g, <3>1
      <3> QED
        BY <3>2, <3>3
    <2>2. \A j \in 1..3 : h[j] = IF j = k THEN b ELSE g[j]
      BY <1>1 DEF ReplaceAt
    <2> HIDE DEF h
    <2>3. \A j \in 1..3, d \in 1..4 : CommandAt(h, j, d) => j = 2 /\ d = c
      <3>1. b \in 0..255
        BY <1>2 DEF Bytes
      <3> QED
        BY <1>1, <2>1, <2>2, <3>1 DEF CommandAt
    <2>4. Good(h)
      BY <2>1, <2>3
    <2> QED
      BY <2>4 DEF h
  <1>6. ASSUME NEW k \in 1..3, NEW b \in StrayBytes PROVE Good(InsertAt(g, k, b))
    <2> DEFINE h == InsertAt(g, k, b)
    <2>1. h \in Seq(Bytes) /\ Len(h) = 4
      <3>1. /\ SubSeq(g, 1, k - 1) \in Seq(Bytes) /\ Len(SubSeq(g, 1, k - 1)) = k - 1
            /\ SubSeq(g, k, 3) \in Seq(Bytes) /\ Len(SubSeq(g, k, 3)) = 4 - k
        BY <1>g, SubSeqProperties
      <3>2. <<b>> \in Seq(Bytes) /\ Len(<<b>>) = 1
        BY <1>2
      <3>3. /\ SubSeq(g, 1, k - 1) \o <<b>> \in Seq(Bytes)
            /\ Len(SubSeq(g, 1, k - 1) \o <<b>>) = k
        BY <3>1, <3>2, ConcatProperties
      <3> QED
        BY <1>1, <3>1, <3>3, ConcatProperties DEF InsertAt
    <2>2. \A j \in 1..4 : h[j] = IF j < k THEN g[j] ELSE IF j = k THEN b ELSE g[j - 1]
      BY <1>1, <1>2 DEF InsertAt
    <2> HIDE DEF h
    <2>3. \A j \in 1..4, d \in 1..4 :
             CommandAt(h, j, d) => j = (IF k = 3 THEN 2 ELSE 3) /\ d = c
      <3>1. b \in 0..255
        BY <1>2 DEF Bytes
      <3>2. CASE k = 1
        <4>1. h[1] = b /\ h[2] = 90 /\ h[3] = c /\ h[4] = 255 - c
          BY <1>1, <2>2, <3>2
        <4> QED
          BY <2>1, <3>1, <3>2, <4>1 DEF CommandAt
      <3>3. CASE k = 2
        <4>1. h[1] = 90 /\ h[2] = b /\ h[3] = c /\ h[4] = 255 - c
          BY <1>1, <2>2, <3>3
        <4> QED
          BY <2>1, <3>1, <3>3, <4>1 DEF CommandAt
      <3>4. CASE k = 3
        <4>1. h[1] = 90 /\ h[2] = c /\ h[3] = b /\ h[4] = 255 - c
          BY <1>1, <2>2, <3>4
        <4> QED
          BY <2>1, <3>1, <3>4, <4>1 DEF CommandAt
      <3> QED
        BY <3>2, <3>3, <3>4
    <2>4. Good(h)
      BY <2>1, <2>3
    <2> QED
      BY <2>4 DEF h
  <1>7. Good(f)
    <2>1. \/ f = g
          \/ \E k \in 1..3 : f = RemoveAt(g, k)
          \/ \E k \in 1..3, b \in StrayBytes : f = ReplaceAt(g, k, b)
          \/ \E k \in 1..3, b \in StrayBytes : f = InsertAt(g, k, b)
      BY DEF Damaged, g
    <2> HIDE DEF Good
    <2> QED
      BY <1>3, <1>4, <1>5, <1>6, <2>1, Zenon
  <1> QED
    BY <1>7

\* The line after a press: the bytes before it stay, those of the frame follow.
Added(s, f, owed) == s \o [k \in DOMAIN f |-> <<f[k], IF k = 3 THEN owed ELSE 0>>]

LEMMA AddedFacts ==
    ASSUME NEW s \in Line, NEW f \in Seq(Bytes), NEW owed \in 0..4
    PROVE  LET t == Added(s, f, owed)
           IN  /\ t \in Line /\ Len(t) = Len(s) + Len(f)
               /\ \A k \in 1..Len(s) : t[k] = s[k]
               /\ \A j \in 1..Len(f) :
                     t[Len(s) + j] = <<f[j], IF j = 3 THEN owed ELSE 0>>
  <1> DEFINE a == [k \in DOMAIN f |-> <<f[k], IF k = 3 THEN owed ELSE 0>>]
  <1>1. Len(f) \in Nat /\ Len(s) \in Nat /\ DOMAIN f = 1..Len(f)
    BY DEF Line
  <1>2. a \in Seq(Bytes \X (0..4)) /\ Len(a) = Len(f)
    BY <1>1
  <1>3. \A j \in 1..Len(f) : a[j] = <<f[j], IF j = 3 THEN owed ELSE 0>>
    BY <1>1
  <1> HIDE DEF a
  <1>4. s \o a \in Line /\ Len(s \o a) = Len(s) + Len(f)
    <2>1. s \in Seq(Bytes \X (0..4))
      BY DEF Line
    <2>2. s \o a \in Seq(Bytes \X (0..4)) /\ Len(s \o a) = Len(s) + Len(a)
      BY <1>2, <2>1, ConcatProperties, Zenon
    <2> QED
      BY <1>2, <2>2 DEF Line
  <1>5. \A k \in 1..Len(s) : (s \o a)[k] = s[k]
    BY <1>1, <1>2 DEF Line
  <1>6. \A j \in 1..Len(f) : (s \o a)[Len(s) + j] = a[j]
    BY <1>1, <1>2 DEF Line
  <1> QED
    BY <1>3, <1>4, <1>5, <1>6 DEF a, Added

-----------------------------------------------------------------------------
(* The bytes that may still complete a command.                            *)

\* The places on the line, 0 for the byte the parser holds, of what it may take
\* for command d.
Candidates(s, st, pd, d) ==
    {k \in 0..Len(s) :
        /\ IF k = 0 THEN st = 2 /\ pd = d ELSE s[k][1] = d
        /\ k = 1 => st = 1
        /\ k >= 2 => s[k - 1][1] = 90
        /\ k < Len(s) => s[k + 1][1] = 255 - d}

LEMMA CandidatesFinite ==
    ASSUME NEW s \in Line, NEW st, NEW pd, NEW d
    PROVE  /\ IsFiniteSet(Candidates(s, st, pd, d))
           /\ Cardinality(Candidates(s, st, pd, d)) \in Nat
  <1>1. Len(s) \in Nat
    BY DEF Line
  <1>2. IsFiniteSet(0..Len(s))
    BY <1>1, FS_Interval
  <1>3. Candidates(s, st, pd, d) \in SUBSET (0..Len(s))
    BY DEF Candidates
  <1>4. IsFiniteSet(Candidates(s, st, pd, d))
    BY <1>2, <1>3, FS_Subset
  <1> QED
    BY <1>4, FS_CardinalityType

\* Reading a byte makes no new candidate, and uses one up when it completes d.
LEMMA CandidatesRead ==
    ASSUME NEW s \in Line, s # <<>>, NEW st \in 0..2, NEW pd \in Bytes, NEW d \in 1..4
    PROVE  LET r == ParseByte(st, pd, Head(s)[1])
           IN  Cardinality(Candidates(Tail(s), r.state, r.pending, d))
                 + (IF d = r.cmd THEN 1 ELSE 0)
                 <= Cardinality(Candidates(s, st, pd, d))
  <1> DEFINE b == Head(s)[1]
             r == ParseByte(st, pd, b)
             old == Candidates(s, st, pd, d)
             new == Candidates(Tail(s), r.state, r.pending, d)
             shift == [k \in new |-> k + 1]
  <1>1. Len(s) \in Nat /\ Len(s) >= 1 /\ b = s[1][1] /\ b \in Bytes
    BY LineFacts
  <1>2. /\ r.state = IF b \in {255, 0} THEN 0
                     ELSE IF st = 0 THEN (IF b = 90 THEN 1 ELSE 0)
                     ELSE IF st = 1 THEN 2 ELSE 0
        /\ r.pending = IF b \notin {255, 0} /\ st = 1 THEN b ELSE pd
        /\ r.cmd = IF b \notin {255, 0} /\ st = 2 /\ b = 255 - pd THEN pd ELSE 0
    BY <1>1, ParseFacts
  <1>3. /\ Tail(s) \in Line /\ Len(Tail(s)) = Len(s) - 1
        /\ \A n \in 1..Len(s) - 1 : Tail(s)[n] = s[n + 1]
    BY LineFacts
  <1>4. IsFiniteSet(old) /\ Cardinality(old) \in Nat
    BY CandidatesFinite
  <1>5. IsFiniteSet(new) /\ Cardinality(new) \in Nat
    BY <1>3, CandidatesFinite
  <1>6. new \subseteq 0..Len(s) - 1
    BY <1>3 DEF Candidates
  <1>7. ASSUME NEW k \in new PROVE k + 1 \in old \ {0}
    <2> HIDE DEF b, r
    <2>1. /\ k \in 0..Len(s) - 1
          /\ IF k = 0 THEN r.state = 2 /\ r.pending = d ELSE s[k + 1][1] = d
          /\ k = 1 => r.state = 1
          /\ k >= 2 => s[k][1] = 90
          /\ k < Len(s) - 1 => s[k + 2][1] = 255 - d
      <3>1. /\ k \in 0..Len(s) - 1
            /\ IF k = 0 THEN r.state = 2 /\ r.pending = d ELSE Tail(s)[k][1] = d
            /\ k = 1 => r.state = 1
            /\ k >= 2 => Tail(s)[k - 1][1] = 90
            /\ k < Len(s) - 1 => Tail(s)[k + 1][1] = 255 - d
        BY <1>3, <1>6 DEF Candidates
      <3>2. k # 0 => Tail(s)[k] = s[k + 1]
        BY <1>3, <3>1
      <3>3. k >= 2 => Tail(s)[k - 1] = s[k]
        BY <1>1, <1>3, <3>1
      <3>4. k < Len(s) - 1 => Tail(s)[k + 1] = s[k + 2]
        BY <1>1, <1>3, <3>1
      <3> QED
        BY <3>1, <3>2, <3>3, <3>4
    <2>2. k = 0 => s[1][1] = d /\ st = 1
      BY <1>1, <1>2, <2>1
    <2>3. k = 1 => s[1][1] = 90
      BY <1>1, <1>2, <2>1
    <2>4. /\ k + 1 \in 0..Len(s) /\ k + 1 # 0
          /\ s[k + 1][1] = d
          /\ k + 1 = 1 => st = 1
          /\ k + 1 >= 2 => s[(k + 1) - 1][1] = 90
          /\ k + 1 < Len(s) => s[(k + 1) + 1][1] = 255 - d
      BY <1>1, <2>1, <2>2, <2>3
    <2> QED
      BY <2>4 DEF Candidates
  <1>8. d = r.cmd => 0 \in old
    <2> HIDE DEF b, r
    <2> QED
      BY <1>1, <1>2 DEF Candidates, Bytes
  <1> HIDE DEF r, b, old, new
  <1>9. shift \in Injection(new, old \ {0})
    <2>1. shift \in [new -> old \ {0}]
      BY <1>7
    <2>2. \A x, y \in new : shift[x] = shift[y] => x = y
      BY <1>6
    <2> QED
      BY <2>1, <2>2 DEF Injection, IsInjective
  <1>10. /\ IsFiniteSet(old \ {0})
         /\ Cardinality(old \ {0}) = IF 0 \in old THEN Cardinality(old) - 1
                                     ELSE Cardinality(old)
    BY <1>4, FS_RemoveElement
  <1> HIDE DEF shift
  <1>11. Cardinality(new) <= Cardinality(old \ {0})
    BY <1>9, <1>10, FS_Injection
  <1>12. Cardinality(new) + (IF d = r.cmd THEN 1 ELSE 0) <= Cardinality(old)
    BY <1>4, <1>5, <1>8, <1>10, <1>11
  <1> QED
    BY <1>12 DEF r, b, old, new

\* A press makes at most one new candidate, for the command pressed.
LEMMA CandidatesAdded ==
    ASSUME NEW s \in Line, NEW st \in 0..2, NEW pd \in Bytes, NEW d \in 1..4,
           NEW c \in 1..4, NEW f \in {Frame(c)} \cup Damaged(Frame(c)), NEW owed \in 0..4
    PROVE  Cardinality(Candidates(Added(s, f, owed), st, pd, d)) <=
             Cardinality(Candidates(s, st, pd, d)) + (IF d = c THEN 1 ELSE 0)
  <1> DEFINE t == Added(s, f, owed)
             old == Candidates(s, st, pd, d)
             new == Candidates(t, st, pd, d)
  <1>1. /\ f \in Seq(Bytes) /\ Len(f) \in 2..4
        /\ \E p \in 1..Len(f) : \A j \in 1..Len(f), e \in 1..4 :
              CommandAt(f, j, e) => j = p /\ e = c
    BY FrameFacts
  <1>p. PICK p \in 1..Len(f) : \A j \in 1..Len(f), e \in 1..4 :
                                  CommandAt(f, j, e) => j = p /\ e = c
    BY <1>1
  <1>2. /\ t \in Line /\ Len(t) = Len(s) + Len(f)
        /\ \A k \in 1..Len(s) : t[k] = s[k]
        /\ \A j \in 1..Len(f) : t[Len(s) + j] = <<f[j], IF j = 3 THEN owed ELSE 0>>
    <2>1. f \in Seq(Bytes)
      BY <1>1
    <2> QED
      BY ONLY <2>1, s \in Line, owed \in 0..4, AddedFacts
  <1>3. Len(s) \in Nat
    BY DEF Line
  <1>4. IsFiniteSet(old) /\ Cardinality(old) \in Nat
    BY CandidatesFinite
  <1>5. IsFiniteSet(new) /\ Cardinality(new) \in Nat
    BY <1>2, CandidatesFinite
  <1> HIDE DEF t
  <1>6. ASSUME NEW k \in new, k \notin old PROVE k = Len(s) + p /\ d = c
    <2>1. /\ k \in 0..Len(t)
          /\ IF k = 0 THEN st = 2 /\ pd = d ELSE t[k][1] = d
          /\ k = 1 => st = 1
          /\ k >= 2 => t[k - 1][1] = 90
          /\ k < Len(t) => t[k + 1][1] = 255 - d
      BY DEF Candidates
    <2>2. CASE k \in 0..Len(s)
      <3>1. k # 0 => t[k] = s[k]
        BY <1>2, <2>2
      <3>2. k >= 2 => t[k - 1] = s[k - 1]
        BY <1>2, <1>3, <2>2
      <3>3. k < Len(s) => t[k + 1] = s[k + 1] /\ k < Len(t)
        BY <1>1, <1>2, <1>3, <2>2
      <3>4. k \in old
        BY <2>1, <2>2, <3>1, <3>2, <3>3 DEF Candidates
      <3> QED
        BY <1>6, <3>4
    <2>3. CASE k \notin 0..Len(s)
      <3> DEFINE j == k - Len(s)
      <3>1. j \in 1..Len(f) /\ k = Len(s) + j /\ k # 0
        BY <1>1, <1>2, <1>3, <2>1, <2>3
      <3> HIDE DEF j
      <3>2. \A n \in 1..Len(f) : t[Len(s) + n][1] = f[n]
        BY <1>2
      <3>3. f[j] = d
        BY <2>1, <3>1, <3>2
      <3>4. j >= 2 => f[j - 1] = 90
        <4>1. j >= 2 => j - 1 \in 1..Len(f) /\ Len(s) + (j - 1) = k - 1 /\ k >= 2
          BY <1>1, <1>3, <3>1
        <4> QED
          BY <2>1, <3>2, <4>1
      <3>5. j < Len(f) => f[j + 1] = 255 - d
        <4>1. j < Len(f) => /\ j + 1 \in 1..Len(f) /\ Len(s) + (j + 1) = k + 1
                            /\ k < Len(t)
          BY <1>1, <1>2, <1>3, <3>1
        <4> QED
          BY <2>1, <3>2, <4>1
      <3>6. CommandAt(f, j, d)
        BY <3>3, <3>4, <3>5 DEF CommandAt
      <3> QED
        BY <1>p, <3>1, <3>6
    <2> QED
      BY <2>2, <2>3
  <1> HIDE DEF old, new
  <1>7. CASE d = c
    <2>1. /\ IsFiniteSet(old \cup {Len(s) + p})
          /\ Cardinality(old \cup {Len(s) + p}) = IF Len(s) + p \in old THEN Cardinality(old)
                                              ELSE Cardinality(old) + 1
      BY <1>4, FS_AddElement
    <2>2. new \in SUBSET (old \cup {Len(s) + p})
      BY <1>6
    <2>3. Cardinality(new) <= Cardinality(old \cup {Len(s) + p})
      BY <2>1, <2>2, FS_Subset
    <2>4. Cardinality(new) <= Cardinality(old) + 1
      BY <1>4, <1>5, <2>1, <2>3
    <2> QED
      BY <1>7, <2>4 DEF old, new, t
  <1>8. CASE d # c
    <2>1. new \in SUBSET old
      BY <1>6, <1>8
    <2>2. Cardinality(new) <= Cardinality(old)
      BY <1>4, <2>1, FS_Subset
    <2>3. Cardinality(new) <= Cardinality(old) + 0
      BY <1>4, <1>5, <2>2
    <2> QED
      BY <1>8, <2>3 DEF old, new, t
  <1> QED
    BY <1>7, <1>8

-----------------------------------------------------------------------------
(* The touch panel.                                                        *)

\* The parser is fresh, and the line empty, until the display has started.
BootInv == hmiStep = "begin" => rx = <<>> /\ rxState = 0

\* Every tagged byte is owed, and after an intact frame the parser starts over.
PressInv ==
    /\ intact => EndsFrame(rx, rxState, Len(rx))
    /\ \A k \in 1..Len(rx) : rx[k][2] # 0 => Owed(rx, rxState, pendingCmd, k)

\* What was posted, and what may still be, was pressed.
PhantomInv ==
    \A d \in 1..4 : Cardinality(Candidates(rx, rxState, pendingCmd, d)) + posted[d]
                      <= pressed[d]

TouchInv == TouchTypeOK /\ BootInv /\ PressInv

LEMMA TouchInitial ==
    ASSUME HmiInit
    PROVE  TouchInv /\ PhantomInv
  <1>1. TouchTypeOK
    BY TouchAssumption DEF HmiInit, TouchInit, TouchTypeOK, Bytes
  <1>2. BootInv /\ PressInv
    BY DEF HmiInit, TouchInit, BootInv, PressInv, EndsFrame
  <1>3. PhantomInv
    <2> SUFFICES ASSUME NEW d \in 1..4
                 PROVE  Cardinality(Candidates(rx, rxState, pendingCmd, d)) + posted[d]
                          <= pressed[d]
      BY DEF PhantomInv
    <2>1. Candidates(rx, rxState, pendingCmd, d) = {}
      BY DEF HmiInit, TouchInit, Candidates
    <2>2. posted[d] = 0 /\ pressed[d] = 0
      BY DEF HmiInit, TouchInit
    <2> QED
      BY <2>1, <2>2, FS_EmptySet
  <1> QED
    BY <1>1, <1>2, <1>3 DEF TouchInv

\* A step that leaves the panel alone.
LEMMA TouchIdle ==
    ASSUME UNCHANGED touchVars, hmiStep' = "begin" => hmiStep = "begin"
    PROVE  (TouchInv => TouchInv') /\ (PhantomInv => PhantomInv')
  BY DEF touchVars, TouchInv, TouchTypeOK, BootInv, PressInv, PhantomInv

LEMMA TouchDrained ==
    ASSUME TouchInv, hmiStep = "begin", hmiStep' = "screen", drainRxBuffer
    PROVE  TouchInv' /\ (PhantomInv => PhantomInv')
  <1>1. PICK c \in Commands, k \in 2..4 :
           /\ rx' = [n \in 1 .. 4 - k |-> <<Frame(c)[k + n - 1], 0>>]
           /\ intact' = (k = 4)
    BY DEF drainRxBuffer
  <1>2. rxState' = 0 /\ UNCHANGED <<pendingCmd, pressed, posted>>
    BY DEF TouchInv, BootInv, drainRxBuffer
  <1>3. c \in 1..4
    BY TouchAssumption
  <1>4. \A n \in 1..4 - k : Frame(c)[k + n - 1] \in Bytes
    <2>1. \A i \in 1..3 : Frame(c)[i] \in Bytes
      BY <1>3 DEF Frame, Bytes
    <2> QED
      BY <2>1
  <1>5. rx' \in Line /\ Len(rx') = 4 - k /\ \A n \in 1..Len(rx') : rx'[n][2] = 0
    <2>1. \A n \in 1..4 - k : <<Frame(c)[k + n - 1], 0>> \in Bytes \X (0..4)
      BY <1>4
    <2>2. 4 - k \in Nat
      OBVIOUS
    <2>3. rx' \in Line /\ Len(rx') = 4 - k
      <3> DEFINE m == 4 - k
                 e(n) == <<Frame(c)[k + n - 1], 0>>
      <3>1. rx' = [n \in 1..m |-> e(n)] /\ m \in Nat
        BY <1>1, <2>2
      <3>2. \A n \in 1..m : e(n) \in Bytes \X (0..4)
        BY <2>1
      <3> HIDE DEF m, e
      <3>3. rx' \in Seq(Bytes \X (0..4)) /\ Len(rx') = m
        BY <3>1, <3>2
      <3> QED
        BY <3>3 DEF Line, m
    <2> QED
      BY <1>1, <2>3
  <1>b. Len(rx') >= 2 => rx'[1][1] # 90
    BY <1>1, <1>3, <1>5 DEF Frame
  <1>6. 4 - k <= MaxRx
    BY TouchAssumption
  <1>7. TouchTypeOK'
    <2>1. intact' \in BOOLEAN
      BY <1>1, Zenon
    <2>2. Len(rx') <= MaxRx
      BY <1>5, <1>6
    <2> QED
      BY <1>2, <1>5, <2>1, <2>2 DEF TouchInv, TouchTypeOK, Line
  <1>8. BootInv' /\ PressInv'
    <2>1. BootInv'
      BY DEF BootInv
    <2>2. ASSUME intact' PROVE EndsFrame(rx', rxState', Len(rx'))
      <3>1. k = 4
        BY <1>1, <2>2, Zenon
      <3>2. Len(rx') = 0
        BY <1>5, <3>1
      <3> QED
        BY <1>2, <3>2 DEF EndsFrame
    <2> QED
      BY <1>5, <2>1, <2>2 DEF PressInv
  <1>9. ASSUME PhantomInv PROVE PhantomInv'
    <2>1. \A d \in 1..4 : Candidates(rx', rxState', pendingCmd', d) = {}
      BY <1>2, <1>5, <1>b DEF Candidates
    <2> SUFFICES ASSUME NEW d \in 1..4
                 PROVE  Cardinality(Candidates(rx', rxState', pendingCmd', d)) + posted'[d]
                          <= pressed'[d]
      BY DEF PhantomInv
    <2>2. Cardinality(Candidates(rx, rxState, pendingCmd, d)) \in Nat
      BY CandidatesFinite DEF TouchInv, TouchTypeOK, Line
    <2>3. posted[d] \in Nat /\ pressed[d] \in Nat
      BY TouchAssumption DEF TouchInv, TouchTypeOK
    <2>4. Cardinality(Candidates(rx, rxState, pendingCmd, d)) + posted[d] <= pressed[d]
      BY <1>9 DEF PhantomInv
    <2>5. Cardinality(Candidates(rx', rxState', pendingCmd', d)) = 0
      BY <2>1, FS_EmptySet
    <2> QED
      BY <1>2, <2>2, <2>3, <2>4, <2>5
  <1> QED
    BY <1>7, <1>8, <1>9 DEF TouchInv

\* What PressHeard asks of one step.
Heard ==
    rx # <<>> /\ rx' = Tail(rx) /\ Head(rx)[2] # 0
      => posted'[Head(rx)[2]] = posted[Head(rx)[2]] + 1

LEMMA TouchRead ==
    ASSUME TouchInv, ReadByte, hmiStep' # "begin"
    PROVE  TouchInv' /\ Heard /\ (PhantomInv => PhantomInv')
  <1> DEFINE r == ParseByte(rxState, pendingCmd, Head(rx)[1])
  <1>1. /\ rx # <<>> /\ rx' = Tail(rx)
        /\ rxState' = r.state /\ pendingCmd' = r.pending
        /\ posted' = [c \in 1..4 |-> posted[c] + IF c = r.cmd THEN 1 ELSE 0]
        /\ UNCHANGED <<pressed, intact>>
    BY DEF ReadByte
  <1>2. /\ rx \in Line /\ Len(rx) <= MaxRx /\ rxState \in 0..2 /\ pendingCmd \in Bytes
        /\ posted \in [1..4 -> Nat] /\ pressed \in [1..4 -> 0..MaxPresses]
        /\ intact \in BOOLEAN
    BY DEF TouchInv, TouchTypeOK, Line
  <1>3. /\ Len(rx) \in Nat /\ Len(rx) >= 1
        /\ Tail(rx) \in Line /\ Len(Tail(rx)) = Len(rx) - 1
        /\ Head(rx) = rx[1] /\ Head(rx)[1] \in Bytes /\ Head(rx)[2] \in 0..4
        /\ \A n \in 1..Len(rx) - 1 : Tail(rx)[n] = rx[n + 1]
    BY <1>1, <1>2, LineFacts, Zenon
  <1>4. r.state \in 0..2 /\ r.pending \in Bytes
    <2>1. rxState \in 0..2 /\ pendingCmd \in Bytes /\ Head(rx)[1] \in Bytes
      BY <1>2, <1>3
    <2> QED
      BY ONLY <2>1, ParseFacts
  <1> HIDE DEF r
  <1>5. TouchTypeOK'
    <2>1. posted' \in [1..4 -> Nat]
      <3>1. \A c \in 1..4 : posted[c] + (IF c = r.cmd THEN 1 ELSE 0) \in Nat
        BY <1>2
      <3> QED
        BY <1>1, <3>1
    <2>2. Len(rx') <= MaxRx
      BY <1>1, <1>2, <1>3, TouchAssumption
    <2> QED
      BY <1>1, <1>2, <1>3, <1>4, <2>1, <2>2 DEF TouchTypeOK, Line
  <1>6. ASSUME intact' PROVE EndsFrame(rx', rxState', Len(rx'))
    <2>1. EndsFrame(rx, rxState, Len(rx))
      BY <1>1, <1>6 DEF TouchInv, PressInv
    <2>2. Len(rx) \in 1..Len(rx)
      BY <1>3
    <2>3. EndsFrame(Tail(rx), r.state, Len(rx) - 1)
      BY <1>1, <1>2, <2>1, <2>2, ReadEnds, Zenon DEF r
    <2> QED
      BY <1>1, <1>3, <2>3
  <1>7. ASSUME NEW k \in 1..Len(rx'), rx'[k][2] # 0
        PROVE  Owed(rx', rxState', pendingCmd', k)
    <2>1. k + 1 \in 1..Len(rx) /\ rx[k + 1][2] # 0
      BY <1>1, <1>3, <1>7
    <2>2. Owed(rx, rxState, pendingCmd, k + 1)
      BY <2>1 DEF TouchInv, PressInv
    <2>3. (k + 1) - 1 = k /\ k + 1 # 1
      OBVIOUS
    <2>4. Owed(Tail(rx), r.state, r.pending, (k + 1) - 1)
      BY <1>1, <1>2, <2>1, <2>2, <2>3, ReadOwed, Zenon DEF r
    <2> QED
      BY <1>1, <2>3, <2>4
  <1>8. TouchInv'
    BY <1>5, <1>6, <1>7 DEF TouchInv, BootInv, PressInv
  <1>9. Heard
    <2> SUFFICES ASSUME Head(rx)[2] # 0
                 PROVE  posted'[Head(rx)[2]] = posted[Head(rx)[2]] + 1
      BY DEF Heard
    <2>1. Owed(rx, rxState, pendingCmd, 1)
      BY <1>3 DEF TouchInv, PressInv
    <2>2. r.cmd = rx[1][2]
      <3>1. 1 \in 1..Len(rx)
        BY <1>3
      <3>2. \A k \in 1..Len(rx) :
              Owed(rx, rxState, pendingCmd, k) => (k = 1 => r.cmd = rx[1][2])
        BY <1>1, <1>2, ReadOwed DEF r
      <3> QED
        BY <2>1, <3>1, <3>2
    <2>3. Head(rx)[2] \in 1..4
      BY <1>3
    <2> QED
      BY <1>1, <1>3, <2>2, <2>3
  <1>10. ASSUME PhantomInv PROVE PhantomInv'
    <2> SUFFICES ASSUME NEW d \in 1..4
                 PROVE  Cardinality(Candidates(rx', rxState', pendingCmd', d)) + posted'[d]
                          <= pressed'[d]
      BY DEF PhantomInv
    <2> DEFINE old == Cardinality(Candidates(rx, rxState, pendingCmd, d))
               new == Cardinality(Candidates(Tail(rx), r.state, r.pending, d))
    <2>1. old \in Nat /\ new \in Nat
      BY <1>2, <1>3, CandidatesFinite
    <2>2. new + (IF d = r.cmd THEN 1 ELSE 0) <= old
      BY <1>1, <1>2, CandidatesRead, Zenon DEF r
    <2>3. old + posted[d] <= pressed[d]
      BY <1>10 DEF PhantomInv
    <2>4. posted[d] \in Nat /\ pressed[d] \in Nat
      BY <1>2, TouchAssumption
    <2>5. posted'[d] = posted[d] + (IF d = r.cmd THEN 1 ELSE 0) /\ pressed'[d] = pressed[d]
      BY <1>1
    <2>6. Cardinality(Candidates(rx', rxState', pendingCmd', d)) = new
      BY <1>1
    <2> HIDE DEF old, new
    <2> QED
      BY <2>1, <2>2, <2>3, <2>4, <2>5, <2>6
  <1> QED
    BY <1>8, <1>9, <1>10

LEMMA TouchPressed ==
    ASSUME TouchInv, NEW c \in Commands, Press(c), hmiStep' # "begin"
    PROVE  TouchInv' /\ Heard /\ (PhantomInv => PhantomInv')
  <1>1. PICK f \in {Frame(c)} \cup Damaged(Frame(c)) :
           /\ Len(rx) + Len(f) <= MaxRx
           /\ intact' = (f = Frame(c))
           /\ rx' = rx \o [k \in DOMAIN f |->
                              <<f[k], IF intact /\ intact' /\ k = 3 THEN c ELSE 0>>]
    BY DEF Press
  <1> DEFINE owed == IF intact /\ intact' THEN c ELSE 0
  <1>2. c \in 1..4 /\ owed \in 0..4
    BY TouchAssumption
  <1>3. f \in Seq(Bytes) /\ Len(f) \in 2..4
    BY <1>2, FrameFacts
  <1>4. rx' = Added(rx, f, owed)
    BY <1>1 DEF Added
  <1>5. /\ rx \in Line /\ Len(rx) <= MaxRx /\ rxState \in 0..2 /\ pendingCmd \in Bytes
        /\ posted \in [1..4 -> Nat] /\ pressed \in [1..4 -> 0..MaxPresses]
        /\ intact \in BOOLEAN
    BY DEF TouchInv, TouchTypeOK, Line
  <1>6. /\ UNCHANGED <<rxState, pendingCmd, posted>>
        /\ pressed[1] + pressed[2] + pressed[3] + pressed[4] < MaxPresses
        /\ pressed' = [pressed EXCEPT ![c] = @ + 1]
    BY DEF Press
  <1> HIDE DEF owed
  <1>7. /\ rx' \in Line /\ Len(rx') = Len(rx) + Len(f)
        /\ \A k \in 1..Len(rx) : rx'[k] = rx[k]
        /\ \A j \in 1..Len(f) : rx'[Len(rx) + j] = <<f[j], IF j = 3 THEN owed ELSE 0>>
    <2>1. rx \in Line /\ f \in Seq(Bytes) /\ owed \in 0..4
      BY <1>2, <1>3, <1>5
    <2> DEFINE t == Added(rx, f, owed)
    <2>2. /\ t \in Line /\ Len(t) = Len(rx) + Len(f)
          /\ \A k \in 1..Len(rx) : t[k] = rx[k]
          /\ \A j \in 1..Len(f) : t[Len(rx) + j] = <<f[j], IF j = 3 THEN owed ELSE 0>>
      BY <2>1, AddedFacts, Zenon
    <2> HIDE DEF t
    <2>3. rx' = t
      BY <1>4 DEF t
    <2> QED
      BY <2>2, <2>3, Zenon
  <1>8. Len(rx) \in Nat
    BY <1>5 DEF Line
  <1>9. TouchTypeOK'
    <2>1. intact' \in BOOLEAN
      BY <1>1, Zenon
    <2>2. Len(rx') <= MaxRx
      BY <1>1, <1>7
    <2>3. pressed' \in [1..4 -> 0..MaxPresses]
      <3>1. /\ pressed[1] \in Nat /\ pressed[2] \in Nat /\ pressed[3] \in Nat
            /\ pressed[4] \in Nat /\ MaxPresses \in Nat
        BY <1>5, TouchAssumption
      <3>2. pressed[c] + 1 \in 0..MaxPresses
        BY <1>2, <1>6, <3>1
      <3> QED
        BY <1>5, <1>6, <3>2
    <2> QED
      BY <1>5, <1>6, <1>7, <2>1, <2>2, <2>3 DEF TouchTypeOK, Line
  <1>10. f = Frame(c) => Len(f) = 3 /\ f[1] = 90 /\ f[2] = c /\ f[3] = 255 - c
    BY DEF Frame
  <1>11. ASSUME intact' PROVE EndsFrame(rx', rxState', Len(rx'))
    <2>1. Len(f) = 3 /\ f[1] = 90 /\ f[2] = c /\ f[3] = 255 - c
      BY <1>1, <1>10, <1>11, Zenon
    <2>2. /\ rx'[Len(rx) + 1][1] = 90 /\ rx'[Len(rx) + 2][1] = c
          /\ rx'[Len(rx) + 3][1] = 255 - c
      BY <1>7, <2>1
    <2>3. /\ Len(rx') = Len(rx) + 3 /\ Len(rx') - 1 = Len(rx) + 2
          /\ Len(rx') - 2 = Len(rx) + 1 /\ Len(rx') >= 3
      BY <1>7, <1>8, <2>1
    <2> QED
      BY <1>2, <1>8, <2>2, <2>3 DEF EndsFrame
  <1>12. ASSUME NEW k \in 1..Len(rx'), rx'[k][2] # 0
         PROVE  Owed(rx', rxState', pendingCmd', k)
    <2>1. CASE k \in 1..Len(rx)
      <3>1. Owed(rx, rxState, pendingCmd, k)
        BY <1>7, <1>12, <2>1 DEF TouchInv, PressInv
      <3>2. \A n \in 1..k : rx'[n] = rx[n]
        BY <1>7, <1>8, <2>1
      <3>3. k >= 3 /\ EndsFrame(rx, rxState, k - 3) => EndsFrame(rx', rxState', k - 3)
        BY <1>6, <3>2 DEF EndsFrame
      <3>4. k # 1 => rx'[k - 1] = rx[k - 1]
        BY <3>2
      <3>5. k >= 3 => rx'[k - 2] = rx[k - 2]
        BY <3>2
      <3>6. rx'[k] = rx[k]
        BY <3>2
      <3> QED
        BY <1>6, <3>1, <3>3, <3>4, <3>5, <3>6 DEF Owed
    <2>2. CASE k \notin 1..Len(rx)
      <3> DEFINE j == k - Len(rx)
      <3>1. j \in 1..Len(f) /\ k = Len(rx) + j
        BY <1>3, <1>7, <1>8, <2>2
      <3> HIDE DEF j
      <3>2. rx'[k] = <<f[j], IF j = 3 THEN owed ELSE 0>>
        BY <1>7, <3>1
      <3>3. j = 3 /\ owed # 0
        BY <1>12, <3>2
      <3>4. intact /\ intact' /\ owed = c
        BY <3>3 DEF owed
      <3>5. Len(f) = 3 /\ f[1] = 90 /\ f[2] = c /\ f[3] = 255 - c
        BY <1>1, <1>10, <3>4, Zenon
      <3>6. /\ rx'[Len(rx) + 1][1] = 90 /\ rx'[Len(rx) + 2][1] = c
            /\ rx'[k][1] = 255 - c /\ rx'[k][2] = c
        BY <1>7, <3>1, <3>2, <3>3, <3>4, <3>5
      <3>7. k >= 3 /\ k - 1 = Len(rx) + 2 /\ k - 2 = Len(rx) + 1 /\ k - 3 = Len(rx)
        BY <1>8, <3>1, <3>3
      <3>8. EndsFrame(rx, rxState, Len(rx))
        BY <3>4 DEF TouchInv, PressInv
      <3>9. EndsFrame(rx', rxState', Len(rx))
        <4>1. Len(rx) >= 1 => rx'[Len(rx)] = rx[Len(rx)]
          BY <1>7, <1>8
        <4>2. Len(rx) >= 2 => rx'[Len(rx) - 1] = rx[Len(rx) - 1]
          BY <1>7, <1>8
        <4>3. Len(rx) >= 3 => rx'[Len(rx) - 2] = rx[Len(rx) - 2]
          BY <1>7, <1>8
        <4> QED
          BY <1>6, <1>8, <3>8, <4>1, <4>2, <4>3, SMTT(30) DEF EndsFrame
      <3> QED
        BY <1>2, <3>6, <3>7, <3>9 DEF Owed
    <2> QED
      BY <2>1, <2>2
  <1>13. TouchInv'
    BY <1>9, <1>11, <1>12 DEF TouchInv, BootInv, PressInv
  <1>14. Heard
    <2>1. rx # <<>> => Len(Tail(rx)) = Len(rx) - 1
      BY <1>5, <1>8 DEF Line
    <2>2. Len(rx') > Len(rx)
      BY <1>3, <1>7, <1>8
    <2> QED
      BY <1>8, <2>1, <2>2 DEF Heard
  <1>15. ASSUME PhantomInv PROVE PhantomInv'
    <2> SUFFICES ASSUME NEW d \in 1..4
                 PROVE  Cardinality(Candidates(rx', rxState', pendingCmd', d)) + posted'[d]
                          <= pressed'[d]
      BY DEF PhantomInv
    <2> DEFINE old == Cardinality(Candidates(rx, rxState, pendingCmd, d))
               new == Cardinality(Candidates(Added(rx, f, owed), rxState, pendingCmd, d))
    <2>1. old \in Nat /\ new \in Nat
      BY <1>4, <1>5, <1>7, CandidatesFinite
    <2>2. new <= old + (IF d = c THEN 1 ELSE 0)
      BY <1>2, <1>5, CandidatesAdded, Zenon
    <2>3. old + posted[d] <= pressed[d]
      BY <1>15 DEF PhantomInv
    <2>4. posted[d] \in Nat /\ pressed[d] \in Nat
      BY <1>5, TouchAssumption
    <2>5. posted'[d] = posted[d] /\ pressed'[d] = pressed[d] + IF d = c THEN 1 ELSE 0
      <3>1. pressed' = [i \in 1..4 |-> IF i = c THEN pressed[c] + 1 ELSE pressed[i]]
        BY <1>2, <1>5, <1>6
      <3> QED
        BY <1>6, <2>4, <3>1
    <2>6. Cardinality(Candidates(rx', rxState', pendingCmd', d)) = new
      BY <1>4, <1>6
    <2> HIDE DEF old, new
    <2> QED
      BY <2>1, <2>2, <2>3, <2>4, <2>5, <2>6
  <1> QED
    BY <1>13, <1>14, <1>15

\* Every step of the display, the driver and the CAN task at once.
LEMMA TouchStep ==
    ASSUME TouchInv, [HmiNext]_hmiVars
    PROVE  /\ TouchInv' /\ [Heard]_touchVars
           /\ PhantomInv => PhantomInv'
  <1>1. ASSUME UNCHANGED touchVars, hmiStep' = "begin" => hmiStep = "begin"
        PROVE  /\ TouchInv' /\ [Heard]_touchVars
               /\ PhantomInv => PhantomInv'
    BY <1>1, TouchIdle
  <1>2. CASE BeginFails
    BY <1>1, <1>2 DEF BeginFails
  <1>3. CASE BeginSucceeds
    <2>1. TouchInv' /\ (PhantomInv => PhantomInv')
      BY <1>3, TouchDrained DEF BeginSucceeds
    <2>2. Heard
      BY <1>3 DEF BeginSucceeds, TouchInv, BootInv, Heard
    <2> QED
      BY <2>1, <2>2
  <1>4. CASE SleepDegraded
    BY <1>1, <1>4 DEF SleepDegraded, hmiVars
  <1>5. CASE UpdateScreen
    BY <1>1, <1>5 DEF UpdateScreen
  <1>6. CASE UpdatePage
    BY <1>1, <1>6 DEF UpdatePage
  <1>7. CASE PollByte
    <2>1. ReadByte /\ hmiStep' # "begin"
      BY <1>7 DEF PollByte, RoundEnds
    <2> QED
      BY <2>1, TouchRead
  <1>8. CASE PollEnds
    BY <1>1, <1>8 DEF PollEnds, RoundEnds
  <1>9. ASSUME NEW c \in Commands, PressButton(c)
        PROVE  /\ TouchInv' /\ [Heard]_touchVars
               /\ PhantomInv => PhantomInv'
    <2>1. Press(c) /\ hmiStep' # "begin"
      BY <1>9 DEF PressButton
    <2> QED
      BY <2>1, TouchPressed
  <1>10. ASSUME NEW t \in Snapshots, Publish(t)
         PROVE  UNCHANGED touchVars /\ UNCHANGED hmiStep
    BY <1>10 DEF Publish
  <1>11. CASE UNCHANGED hmiVars
    BY <1>1, <1>11 DEF hmiVars
  <1> QED
    BY <1>1, <1>2, <1>3, <1>4, <1>5, <1>6, <1>7, <1>8, <1>9, <1>10, <1>11
    DEF HmiNext, HmiStep

\* The parser, the line and the frames under way stay in step.
THEOREM TouchInductive == HmiSpec => []TouchInv
  <1>1. HmiInit => TouchInv
    BY TouchInitial
  <1>2. TouchInv /\ [HmiNext]_hmiVars => TouchInv'
    BY TouchStep
  <1> QED
    BY <1>1, <1>2, PTL DEF HmiSpec

\* DisplayHMI::readTouchCommand recognises every intact frame that follows an
\* intact one at its last byte, whatever reached it before and however the polls
\* of the display task cut the bytes.
THEOREM PressIsHeard == HmiSpec => PressHeard
  <1>1. TouchInv /\ [HmiNext]_hmiVars =>
          [rx # <<>> /\ rx' = Tail(rx) /\ Head(rx)[2] # 0
             => posted'[Head(rx)[2]] = posted[Head(rx)[2]] + 1]_touchVars
    BY TouchStep DEF Heard
  <1> QED
    BY <1>1, TouchInductive, PTL DEF HmiSpec, PressHeard

\* No command is posted that the driver did not press, whatever stray bytes there
\* are and however frames are damaged or run together.
THEOREM CommandsWerePressed == HmiSpec => []NoPhantomCommand
  <1>1. HmiInit => PhantomInv
    BY TouchInitial
  <1>2. TouchInv /\ PhantomInv /\ [HmiNext]_hmiVars => PhantomInv'
    BY TouchStep
  <1>3. TouchInv /\ PhantomInv => NoPhantomCommand
    <2> SUFFICES ASSUME TouchInv, PhantomInv, NEW c \in 1..4
                 PROVE  posted[c] <= pressed[c]
      BY DEF NoPhantomCommand
    <2>1. Cardinality(Candidates(rx, rxState, pendingCmd, c)) \in Nat
      BY CandidatesFinite DEF TouchInv, TouchTypeOK, Line
    <2>2. posted[c] \in Nat /\ pressed[c] \in Nat
      BY TouchAssumption DEF TouchInv, TouchTypeOK
    <2>3. Cardinality(Candidates(rx, rxState, pendingCmd, c)) + posted[c] <= pressed[c]
      BY DEF PhantomInv
    <2> QED
      BY <2>1, <2>2, <2>3
  <1> QED
    BY <1>1, <1>2, <1>3, TouchInductive, PTL DEF HmiSpec

-----------------------------------------------------------------------------
(* The main page.                                                          *)

NoNumbers(d) == d.bat = HMI_BATTERY_NO_DATA /\ d.temp = HMI_TEMP_NO_DATA

\* The page shows what was sent last, and a pack lost for a round is known to it
\* once the screen of the round is done.
ScreenInv ==
    /\ lostRounds \in 0..2
    /\ dash = IF hasCached THEN Shown(lastData) ELSE NoText
    /\ lostRounds >= 1 => ~tel.bms
    /\ lostRounds >= 1 /\ hmiStep \in {"page", "touch"} => NoNumbers(lastData)
    /\ lostRounds = 2 => NoNumbers(lastData)

\* Sending only what changed leaves the page as sending everything would.
LEMMA ScreenSent ==
    ASSUME ScreenInv, NEW d, updateScreen(d)
    PROVE  dash' = Shown(d) /\ lastData' = d /\ hasCached'
  <1>1. /\ dash' = [f \in DOMAIN dash |->
                      HMI_sendIfChanged(dash[f], Shown(d)[f], Shown(lastData)[f], ~hasCached)]
        /\ lastData' = d /\ hasCached' = TRUE
    BY DEF updateScreen
  <1>2. dash = Shown(lastData) \/ ~hasCached
    BY DEF ScreenInv
  <1>3. DOMAIN dash = DOMAIN Shown(d)
    BY DEF ScreenInv, Shown, NoText
  <1>4. ASSUME NEW f \in DOMAIN dash
        PROVE  HMI_sendIfChanged(dash[f], Shown(d)[f], Shown(lastData)[f], ~hasCached)
                 = Shown(d)[f]
    BY <1>2 DEF HMI_sendIfChanged
  <1>5. dash' = [f \in DOMAIN Shown(d) |-> Shown(d)[f]]
    BY <1>1, <1>3, <1>4
  <1>6. Shown(d) = [f \in DOMAIN Shown(d) |-> Shown(d)[f]]
    BY DEF Shown
  <1> QED
    BY <1>1, <1>5, <1>6

LEMMA MinOfTwo ==
    ASSUME NEW a \in Nat, NEW b \in Nat
    PROVE  Min({a, b}) = IF a <= b THEN a ELSE b
  <1>1. \A x \in {a, b} : (\A y \in {a, b} : x =< y) <=> x = IF a <= b THEN a ELSE b
    OBVIOUS
  <1> QED
    BY <1>1 DEF Min

LEMMA ScreenStep ==
    ASSUME ScreenInv, [HmiNext]_hmiVars
    PROVE  ScreenInv'
  <1>1. ASSUME UNCHANGED <<tel, screenVars, sights>>,
               hmiStep' \in {"page", "touch"} => hmiStep \in {"page", "touch"}
        PROVE  ScreenInv'
    BY <1>1 DEF screenVars, sights, ScreenInv
  <1>2. CASE BeginFails
    BY <1>1, <1>2 DEF BeginFails
  <1>3. CASE BeginSucceeds
    BY <1>1, <1>3 DEF BeginSucceeds
  <1>4. CASE SleepDegraded
    BY <1>1, <1>4 DEF SleepDegraded, hmiVars
  <1>5. CASE UpdateScreen
    <2>1. /\ dash' = Shown(ScreenData(tel)) /\ lastData' = ScreenData(tel) /\ hasCached'
      BY <1>5, ScreenSent DEF UpdateScreen
    <2>2. UNCHANGED <<tel, lostRounds>>
      BY <1>5 DEF UpdateScreen, sights
    <2>3. ~tel.bms => NoNumbers(ScreenData(tel))
      BY DEF ScreenData, NoNumbers, HMI_batteryDisplayValue, HMI_temperatureDisplayValue
    <2> QED
      BY <2>1, <2>2, <2>3 DEF ScreenInv
  <1>6. CASE UpdatePage
    BY <1>1, <1>6 DEF UpdatePage
  <1>7. ASSUME RoundEnds, hmiStep = "touch", UNCHANGED <<tel, screenVars>>
        PROVE  ScreenInv'
    <2>1. hmiStep' = "screen" /\ lostRounds' = IF tel.bms THEN 0 ELSE Min({lostRounds + 1, 2})
      BY <1>7 DEF RoundEnds
    <2>2. lostRounds \in 0..2
      BY DEF ScreenInv
    <2>3. Min({lostRounds + 1, 2}) = IF lostRounds + 1 <= 2 THEN lostRounds + 1 ELSE 2
      BY <2>2, MinOfTwo
    <2>4. lostRounds >= 1 => NoNumbers(lastData)
      BY <1>7 DEF ScreenInv
    <2>5. lostRounds' \in 0..2 /\ (lostRounds' >= 1 => ~tel.bms)
      BY <2>1, <2>2, <2>3
    <2>6. lostRounds' = 2 => NoNumbers(lastData)
      BY <2>1, <2>2, <2>3, <2>4
    <2> QED
      BY <1>7, <2>1, <2>5, <2>6 DEF ScreenInv, screenVars
  <1>8. CASE PollByte
    <2>1. CASE RoundEnds
      BY <1>7, <1>8, <2>1 DEF PollByte
    <2>2. CASE UNCHANGED <<hmiStep, sights>>
      BY <1>1, <1>8, <2>2 DEF PollByte
    <2> QED
      BY <1>8, <2>1, <2>2 DEF PollByte
  <1>9. CASE PollEnds
    BY <1>7, <1>9 DEF PollEnds
  <1>10. ASSUME NEW c \in Commands, PressButton(c) PROVE ScreenInv'
    BY <1>1, <1>10 DEF PressButton
  <1>11. ASSUME NEW t \in Snapshots, Publish(t) PROVE ScreenInv'
    BY <1>11 DEF Publish, screenVars, ScreenInv
  <1>12. CASE UNCHANGED hmiVars
    BY <1>1, <1>12 DEF hmiVars
  <1> QED
    BY <1>2, <1>3, <1>4, <1>5, <1>6, <1>8, <1>9, <1>10, <1>11, <1>12 DEF HmiNext, HmiStep

\* Whatever the CAN task publishes between the peeks of the display task,
\* updateScreen shows charge and temperature of a silent pack as numbers no longer
\* than the round that notices it.
THEOREM NumbersAreFresh == HmiSpec => []NoStaleNumber
  <1>1. HmiInit => ScreenInv
    BY DEF HmiInit, ScreenInv
  <1>2. ScreenInv /\ [HmiNext]_hmiVars => ScreenInv'
    BY ScreenStep
  <1>3. ScreenInv => NoStaleNumber
    BY DEF ScreenInv, NoStaleNumber, NoNumbers, Shown, NoText
  <1> QED
    BY <1>1, <1>2, <1>3, PTL DEF HmiSpec

-----------------------------------------------------------------------------
(* One call of buildBmsNextionCommands.                                    *)

Warn == <<"warn", -1>>

\* Where the parts of the page stand in a call.
LEMMA CellPartsFacts ==
    /\ CellParts \in Seq(Parts) /\ Len(CellParts) = 3 * BMS_CELL_COUNT
    /\ \A k \in 1 .. 3 * BMS_CELL_COUNT : CellParts[k] = CellPart(k - 1)
    /\ \A k \in 1 .. 3 * BMS_CELL_COUNT : CellPart(k - 1) # Warn
    /\ Summary \in Seq(Parts) /\ Len(Summary) = 3 /\ \A k \in 1..3 : Summary[k] \in Parts
    /\ Summary[1] = <<"cellmax", -1>> /\ Summary[2] = <<"cellmin", -1>> /\ Summary[3] = Warn
    /\ \A p \in Parts : \/ \E k \in 1 .. 3 * BMS_CELL_COUNT : p = CellPart(k - 1)
                        \/ \E k \in 1..3 : p = Summary[k]
  <1> DEFINE n == 3 * BMS_CELL_COUNT
             any == {CellPart(k - 1) : k \in 1..n} \cup {Summary[k] : k \in 1..3}
  <1>1. n \in Nat
    BY CellCountAssumption
  <1>2. CellParts = [k \in 1..n |-> CellPart(k - 1)]
    BY DEF CellParts
  <1>3. /\ Len(Summary) = 3 /\ DOMAIN Summary = 1..3
        /\ Summary[1] = <<"cellmax", -1>> /\ Summary[2] = <<"cellmin", -1>> /\ Summary[3] = Warn
    BY DEF Summary, Warn
  <1>4. \A k : CellPart(k) # Warn
    <2>1. \A k : CellPart(k)[1] # "warn"
      BY DEF CellPart
    <2>2. Warn[1] = "warn"
      BY DEF Warn
    <2> QED
      BY <2>1, <2>2
  <1>5. Summary \in Seq(any)
    <2>1. Summary = [k \in 1..3 |-> Summary[k]]
      BY DEF Summary
    <2>2. \A k \in 1..3 : Summary[k] \in any
      OBVIOUS
    <2> HIDE DEF any
    <2> QED
      BY <2>1, <2>2
  <1> HIDE DEF n
  <1>6. CellParts \in Seq(any) /\ Len(CellParts) = n
    <2>1. \A k \in 1..n : CellPart(k - 1) \in any
      OBVIOUS
    <2> HIDE DEF any
    <2> QED
      BY <1>1, <1>2, <2>1
  <1>7. \A k \in 1..n : CellParts[k] = CellPart(k - 1)
    BY <1>2
  <1> HIDE DEF any
  <1> DEFINE all == CellParts \o Summary
  <1>8. all \in Seq(any) /\ Len(all) = n + 3
    <2>1. all \in Seq(any) /\ Len(all) = Len(CellParts) + Len(Summary)
      BY <1>5, <1>6, ConcatProperties, Zenon
    <2> QED
      BY <1>3, <1>6, <2>1
  <1>9. \A k \in 1 .. n + 3 : all[k] = IF k <= n THEN CellParts[k] ELSE Summary[k - n]
    <2>1. \A k \in 1 .. Len(CellParts) + Len(Summary) :
             all[k] = IF k <= Len(CellParts) THEN CellParts[k] ELSE Summary[k - Len(CellParts)]
      BY <1>5, <1>6, ConcatProperties, Zenon
    <2> QED
      BY <1>3, <1>6, <2>1
  <1>10. DOMAIN all = 1 .. n + 3
    BY <1>8
  <1> HIDE DEF all
  <1>11. Parts = {all[k] : k \in 1 .. n + 3}
    BY <1>10, Zenon DEF Parts, ToSet, all
  <1>12. ASSUME NEW k \in 1..n PROVE CellPart(k - 1) \in Parts
    BY <1>1, <1>7, <1>9, <1>11
  <1>13. ASSUME NEW k \in 1..3 PROVE Summary[k] \in Parts
    <2>1. n + k \in 1 .. n + 3 /\ ~(n + k <= n) /\ (n + k) - n = k
      BY <1>1
    <2>2. all[n + k] = Summary[k]
      BY <1>9, <2>1
    <2> QED
      BY <1>11, <2>1, <2>2
  <1>14. CellParts \in Seq(Parts)
    BY <1>1, <1>2, <1>12
  <1>15. Summary \in Seq(Parts)
    <2>1. Summary = [k \in 1..3 |-> Summary[k]]
      BY DEF Summary
    <2> QED
      BY <1>13, <2>1
  <1>16. ASSUME NEW p \in Parts
         PROVE  \/ \E k \in 1..n : p = CellPart(k - 1)
                \/ \E k \in 1..3 : p = Summary[k]
    <2>1. PICK k \in 1 .. n + 3 : p = all[k]
      BY <1>11
    <2>2. CASE k <= n
      BY <1>1, <1>7, <1>9, <2>1, <2>2
    <2>3. CASE ~(k <= n)
      <3>1. k - n \in 1..3
        BY <1>1, <2>3
      <3> QED
        BY <1>9, <2>1, <2>3, <3>1
    <2> QED
      BY <2>2, <2>3
  <1> QED
    BY <1>3, <1>4, <1>6, <1>7, <1>13, <1>14, <1>15, <1>16 DEF n

LEMMA WarnIsPart == Warn \in Parts
  <1>1. \A k \in 1..3 : Summary[k] \in Parts
    BY CellPartsFacts, Zenon
  <1>2. Summary[3] = Warn
    BY CellPartsFacts, Zenon
  <1>3. 3 \in 1..3
    OBVIOUS
  <1> QED
    BY <1>1, <1>2, <1>3, Zenon

\* Whether or not a call looks at the cells, the warning comes last and only there.
LEMMA OrderFacts ==
    ASSUME NEW withCells
    PROVE  LET order == Order(withCells)
           IN  /\ order \in Seq(Parts) /\ Len(order) \in Nat \ {0}
               /\ order[Len(order)] = Warn
               /\ \A k \in 1..Len(order) : order[k] = Warn => k = Len(order)
  <1> DEFINE n == 3 * BMS_CELL_COUNT
  <1>1. n \in Nat
    BY CellCountAssumption
  <1>2. /\ CellParts \in Seq(Parts) /\ Len(CellParts) = n
        /\ \A k \in 1..n : CellParts[k] # Warn
        /\ Summary \in Seq(Parts) /\ Len(Summary) = 3
        /\ Summary[1] # Warn /\ Summary[2] # Warn /\ Summary[3] = Warn
    <2>1. <<"cellmax", -1>> # Warn /\ <<"cellmin", -1>> # Warn
      BY DEF Warn
    <2> QED
      BY <2>1, CellPartsFacts
  <1> HIDE DEF n
  <1>3. CASE withCells
    <2> DEFINE all == CellParts \o Summary
    <2>1. all \in Seq(Parts) /\ Len(all) = n + 3
      <3>1. all \in Seq(Parts) /\ Len(all) = Len(CellParts) + Len(Summary)
        BY <1>2, ConcatProperties, Zenon
      <3> QED
        BY <1>2, <3>1
    <2>2. \A k \in 1 .. n + 3 : all[k] = IF k <= n THEN CellParts[k] ELSE Summary[k - n]
      <3>1. \A k \in 1 .. Len(CellParts) + Len(Summary) :
              all[k] = IF k <= Len(CellParts) THEN CellParts[k] ELSE Summary[k - Len(CellParts)]
        BY <1>2, ConcatProperties, Zenon
      <3> QED
        BY <1>2, <3>1
    <2> HIDE DEF all
    <2>3. all[n + 3] = Warn
      BY <1>1, <1>2, <2>2
    <2>4. ASSUME NEW k \in 1 .. n + 3, all[k] = Warn PROVE k = n + 3
      <3>1. ~(k <= n)
        BY <1>1, <1>2, <2>2, <2>4
      <3>2. k - n \in 1..3 /\ Summary[k - n] = Warn
        BY <1>1, <2>2, <2>4, <3>1
      <3> QED
        BY <1>1, <1>2, <3>2
    <2>5. Order(withCells) = all
      BY <1>3 DEF Order, all
    <2> QED
      BY <1>1, <2>1, <2>3, <2>4, <2>5
  <1>4. CASE ~withCells
    <2>1. Order(withCells) = Summary
      BY <1>4 DEF Order
    <2>2. \A k \in 1..3 : Summary[k] = Warn => k = 3
      BY <1>2
    <2>3. /\ Summary \in Seq(Parts) /\ Len(Summary) \in Nat \ {0}
          /\ Summary[Len(Summary)] = Warn
      BY <1>2
    <2>4. \A k \in 1..Len(Summary) : Summary[k] = Warn => k = Len(Summary)
      BY <1>2, <2>2
    <2> QED
      BY <2>1, <2>3, <2>4, Zenon
  <1> QED
    BY <1>3, <1>4

\* One call of buildBmsNextionCommands with the cache as it is.
Call(wanted, first, due) == buildBmsNextionCommands(wanted, cache, isWarm, first, due)

\* A call that sends the warning has sent everything else, and warms the cache.
LEMMA WarningLast ==
    ASSUME NEW wanted, NEW first, NEW due
    PROVE  /\ Call(wanted, first, due).sent \subseteq Parts
           /\ Warn \in Call(wanted, first, due).sent => Call(wanted, first, due).isWarm
           /\ isWarm => Call(wanted, first, due).isWarm
           /\ Call(wanted, first, due).isWarm \in BOOLEAN
           /\ Call(wanted, first, due).cache =
                [p \in Parts |-> IF p \in Call(wanted, first, due).sent
                                 THEN wanted[p] ELSE cache[p]]
  <1> DEFINE changed == {p \in Parts : first \/ wanted[p] # cache[p]}
             order == Order(mustProcessCells(first, due, isWarm))
             bytes == BytesUpTo(order, wanted, changed)
             sent  == {order[k] : k \in {i \in 1 .. Len(order) :
                                            order[i] \in changed /\ bytes[i] <= MaxBytes}}
             out   == [sent   |-> sent,
                       cache  |-> [p \in Parts |-> IF p \in sent THEN wanted[p] ELSE cache[p]],
                       isWarm |-> isWarm \/ bytes[Len(order)] <= MaxBytes]
  <1>1. Call(wanted, first, due) = out
    BY Zenon DEF Call, buildBmsNextionCommands
  <1>2. /\ order \in Seq(Parts) /\ Len(order) \in Nat \ {0}
        /\ \A k \in 1..Len(order) : order[k] = Warn => k = Len(order)
    BY OrderFacts
  <1> HIDE DEF order, bytes
  <1>3. \A k \in 1..Len(order) : order[k] \in Parts
    BY <1>2
  <1>4. sent \subseteq Parts
    BY <1>3
  <1>5. Warn \in sent => bytes[Len(order)] <= MaxBytes
    BY <1>2
  <1>6. /\ out.sent = sent
        /\ out.cache = [p \in Parts |-> IF p \in sent THEN wanted[p] ELSE cache[p]]
        /\ out.isWarm = (isWarm \/ bytes[Len(order)] <= MaxBytes)
    OBVIOUS
  <1> HIDE DEF sent, out
  <1> QED
    BY <1>1, <1>4, <1>5, <1>6, Zenon

\* The commands of the summary fit in 53 bytes.
LEMMA SummaryLengths ==
    ASSUME NEW v \in Word, NEW w \in 0..9
    PROVE  /\ CommandBytes(<<"cellmax", -1>>, v) \in 0..20
           /\ CommandBytes(<<"cellmin", -1>>, v) \in 0..20
           /\ CommandBytes(Warn, w) \in 0..13
  <1>1. Digits(v) \in 1..5 /\ Digits(w) = 1
    BY SMT DEF Digits, Word
  <1>2. /\ CommandBytes(<<"cellmax", -1>>, v) = 7 + 0 + 5 + Digits(v) + 3
        /\ CommandBytes(<<"cellmin", -1>>, v) = 7 + 0 + 5 + Digits(v) + 3
        /\ CommandBytes(Warn, w) = 4 + 0 + 5 + Digits(w) + 3
    BY SMTT(30) DEF CommandBytes, NameLength, Warn
  <1> QED
    BY <1>1, <1>2

\* The length of the commands of three parts.
LEMMA BytesOfThree ==
    ASSUME NEW order, Len(order) = 3, NEW wanted, NEW changed,
           NEW b1, NEW b2, NEW b3,
           b1 = (IF order[1] \in changed THEN CommandBytes(order[1], wanted[order[1]]) ELSE 0),
           b2 = (IF order[2] \in changed THEN CommandBytes(order[2], wanted[order[2]]) ELSE 0),
           b3 = (IF order[3] \in changed THEN CommandBytes(order[3], wanted[order[3]]) ELSE 0)
    PROVE  BytesUpTo(order, wanted, changed)[3] = ((0 + b1) + b2) + b3
  <1> DEFINE Sum(f, k) ==
                 IF k = 0 THEN 0
                 ELSE f[k - 1] + (IF order[k] \in changed
                                  THEN CommandBytes(order[k], wanted[order[k]]) ELSE 0)
             bytes == CHOOSE f : f = [k \in 0..3 |-> Sum(f, k)]
             one   == 0 + b1
             two   == one + b2
             g     == [k \in 0..3 |-> IF k = 0 THEN 0 ELSE IF k = 1 THEN one
                                      ELSE IF k = 2 THEN two ELSE two + b3]
  <1>1. BytesUpTo(order, wanted, changed) = bytes
    BY DEF BytesUpTo
  <1>2. g = [k \in 0..3 |-> Sum(g, k)]
    OBVIOUS
  <1> HIDE DEF g, Sum
  <1>3. bytes = [k \in 0..3 |-> Sum(bytes, k)]
    BY <1>2, Zenon
  <1> HIDE DEF bytes
  <1>4. /\ bytes[0] = Sum(bytes, 0) /\ bytes[1] = Sum(bytes, 1)
        /\ bytes[2] = Sum(bytes, 2) /\ bytes[3] = Sum(bytes, 3)
    BY <1>3
  <1>5. /\ bytes[0] = 0 /\ bytes[1] = bytes[0] + b1
        /\ bytes[2] = bytes[1] + b2 /\ bytes[3] = bytes[2] + b3
    BY <1>4 DEF Sum
  <1> QED
    BY <1>1, <1>5, Zenon

\* A call that leaves the cells alone sends a changed warning.
LEMMA SummarySent ==
    ASSUME NEW wanted \in [Parts -> Word], wanted[Warn] \in 0..9, wanted[Warn] # cache[Warn],
           isWarm, isWarm \in BOOLEAN, MaxBytes >= 53
    PROVE  Warn \in Call(wanted, FALSE, FALSE).sent
  <1> DEFINE changed == {p \in Parts : FALSE \/ wanted[p] # cache[p]}
             order == Order(mustProcessCells(FALSE, FALSE, isWarm))
             bytes == BytesUpTo(order, wanted, changed)
             sent  == {order[k] : k \in {i \in 1 .. Len(order) :
                                            order[i] \in changed /\ bytes[i] <= MaxBytes}}
  <1>1. Call(wanted, FALSE, FALSE).sent = sent
    <2> DEFINE out == [sent |-> sent,
                       cache  |-> [p \in Parts |-> IF p \in sent THEN wanted[p] ELSE cache[p]],
                       isWarm |-> isWarm \/ bytes[Len(order)] <= MaxBytes]
    <2>1. Call(wanted, FALSE, FALSE) = out
      BY Zenon DEF Call, buildBmsNextionCommands
    <2> HIDE DEF sent, bytes, order, changed
    <2>2. out.sent = sent
      OBVIOUS
    <2> QED
      BY <2>1, <2>2
  <1>2. order = Summary
    BY DEF Order, mustProcessCells
  <1>3. /\ Len(order) = 3 /\ order[1] = <<"cellmax", -1>> /\ order[2] = <<"cellmin", -1>>
        /\ order[3] = Warn /\ order[1] \in Parts /\ order[2] \in Parts /\ order[3] \in Parts
    <2>1. /\ Len(Summary) = 3 /\ Summary[1] = <<"cellmax", -1>> /\ Summary[2] = <<"cellmin", -1>>
          /\ Summary[3] = Warn
      BY CellPartsFacts
    <2>2. Summary[1] \in Parts /\ Summary[2] \in Parts /\ Summary[3] \in Parts
      <3>1. \A k \in 1..3 : Summary[k] \in Parts
        BY CellPartsFacts, Zenon
      <3> QED
        BY <3>1
    <2> HIDE DEF order
    <2> QED
      BY <1>2, <2>1, <2>2
  <1> HIDE DEF order
  <1> DEFINE b1 == IF order[1] \in changed THEN CommandBytes(order[1], wanted[order[1]]) ELSE 0
             b2 == IF order[2] \in changed THEN CommandBytes(order[2], wanted[order[2]]) ELSE 0
             b3 == IF order[3] \in changed THEN CommandBytes(order[3], wanted[order[3]]) ELSE 0
  <1>4. bytes[3] = ((0 + b1) + b2) + b3
    <2> HIDE DEF changed
    <2>1. ASSUME NEW c1, NEW c2, NEW c3, c1 = b1, c2 = b2, c3 = b3
          PROVE  bytes[3] = ((0 + c1) + c2) + c3
      BY <1>3, <2>1, BytesOfThree
    <2> HIDE DEF b1, b2, b3
    <2> QED
      BY <2>1
  <1>5. b1 \in 0..20 /\ b2 \in 0..20 /\ b3 \in 0..13
    <2>1. wanted[order[1]] \in Word /\ wanted[order[2]] \in Word
      BY <1>3
    <2>2. CommandBytes(order[1], wanted[order[1]]) \in 0..20
      BY <1>3, <2>1, SummaryLengths
    <2>3. CommandBytes(order[2], wanted[order[2]]) \in 0..20
      BY <1>3, <2>1, SummaryLengths
    <2>4. CommandBytes(order[3], wanted[order[3]]) \in 0..13
      BY <1>3, SummaryLengths
    <2> HIDE DEF changed
    <2> QED
      BY <2>2, <2>3, <2>4
  <1>6. Warn \in changed
    BY <1>3
  <1> HIDE DEF b1, b2, b3, bytes, changed
  <1>7. bytes[3] <= MaxBytes
    BY <1>4, <1>5, MaxBytesAssumption
  <1>8. Warn \in sent
    BY <1>3, <1>6, <1>7
  <1> QED
    BY <1>1, <1>8, Zenon DEF changed, bytes

LEMMA PageValueFacts == NoValue \in PageValue /\ \A v \in Word : v \in PageValue
  <1>1. NoValue \in PageValue
    BY SMT DEF NoValue, PageValue
  <1>2. ASSUME NEW v \in Word PROVE v \in PageValue
    <2>1. v \in Int /\ 0 <= v /\ v <= 65535
      BY SMT DEF Word
    <2>2. NoValue \in Int /\ NoValue <= 0
      BY SMT DEF NoValue
    <2>3. NoValue <= v
      BY <2>1, <2>2, SMT
    <2> QED
      BY <2>1, <2>2, <2>3, SMT DEF PageValue
  <1> QED
    BY <1>1, <1>2, Zenon

\* The operators the pack is summarised with find what they look for.
LEMMA LeastOf ==
    ASSUME NEW S, S \subseteq Nat, S # {}
    PROVE  Min(S) \in S /\ \A v \in S : Min(S) <= v
  <1> DEFINE Less == {ss \in Nat \X Nat : ss[1] < ss[2]}
  <1>1. IsWellFoundedOn(Less, Nat)
    BY NatLessThanWellFounded DEF OpToRel
  <1>2. \E x \in S : \A y \in S : ~(<<y, x>> \in Less)
    <2> HIDE DEF Less
    <2> QED
      BY <1>1, WFMin, Zenon
  <1>3. PICK x \in S : \A y \in S : ~(<<y, x>> \in Less)
    BY <1>2
  <1>4. ASSUME NEW y \in S PROVE x <= y
    <2>1. x \in Nat /\ y \in Nat
      OBVIOUS
    <2>2. ~(y < x)
      <3>1. y < x => <<y, x>> \in Less
        BY <2>1
      <3> QED
        BY <1>3, <3>1
    <2> QED
      BY <2>1, <2>2
  <1> DEFINE Least(v) == \A y \in S : v <= y
  <1>5. Min(S) = CHOOSE v \in S : Least(v)
    BY DEF Min
  <1> HIDE DEF Least
  <1>6. \E v \in S : Least(v)
    BY <1>4 DEF Least
  <1>7. Min(S) \in S /\ Least(Min(S))
    BY <1>5, <1>6, Zenon
  <1> QED
    BY <1>7 DEF Least

LEMMA GreatestOf ==
    ASSUME NEW n \in Nat, NEW S, S \subseteq 0..n, S # {}
    PROVE  Max(S) \in S /\ \A v \in S : v <= Max(S)
  <1> DEFINE T == {n - v : v \in S}
  <1>1. T \subseteq Nat /\ T # {}
    <2>1. \A v \in S : n - v \in Nat
      OBVIOUS
    <2>2. PICK v \in S : TRUE
      OBVIOUS
    <2>3. n - v \in T
      BY <2>2
    <2> QED
      BY <2>1, <2>3
  <1>2. Min(T) \in T /\ \A u \in T : Min(T) <= u
    <2> HIDE DEF T
    <2> QED
      BY <1>1, LeastOf
  <1>3. PICK x \in S : Min(T) = n - x
    BY <1>2
  <1>4. ASSUME NEW y \in S PROVE x >= y
    <2>1. n - x <= n - y
      BY <1>2, <1>3
    <2>2. x \in 0..n /\ y \in 0..n
      OBVIOUS
    <2> QED
      BY <2>1, <2>2
  <1> DEFINE Greatest(v) == \A y \in S : v >= y
  <1>a. Max(S) = CHOOSE v \in S : Greatest(v)
    BY DEF Max
  <1> HIDE DEF Greatest
  <1>b. \E v \in S : Greatest(v)
    BY <1>4 DEF Greatest
  <1>c. Max(S) \in S /\ Greatest(Max(S))
    BY <1>a, <1>b, Zenon
  <1>5. Max(S) \in S /\ \A y \in S : Max(S) >= y
    BY <1>c DEF Greatest
  <1>6. Max(S) \in Nat /\ \A v \in S : v \in Nat
    <2>1. \A v \in S : v \in Nat
      OBVIOUS
    <2> QED
      BY <1>5, <2>1, Zenon
  <1> QED
    BY <1>5, <1>6

LEMMA WordFacts ==
    /\ Word \subseteq Nat /\ 0 \in Word
    /\ \E n \in Nat : Word = 0..n
  <1>1. Word \subseteq Nat /\ 0 \in Word
    BY SMT DEF Word
  <1>2. PICK n \in Nat : n = 65535
    BY SMT
  <1>3. Word = 0..n
    BY <1>2, SMT DEF Word
  <1> QED
    BY <1>1, <1>3, Zenon

\* What a peek of the queue may yield.
Telemetry == Snapshots \cup {EmptyQueue}

LEMMA TelemetryFacts ==
    ASSUME NEW t \in Telemetry
    PROVE  t.bms \in BOOLEAN /\ t.cells \in BOOLEAN /\ t.mv \in [Cell -> Word]
  <1>1. EmptyQueue.mv = [i \in Cell |-> 0] /\ EmptyQueue.bms = FALSE /\ EmptyQueue.cells = FALSE
    BY DEF EmptyQueue
  <1>2. 0 \in Word
    BY WordFacts
  <1>3. CASE t = EmptyQueue
    BY <1>1, <1>2, <1>3
  <1>4. CASE t \in Snapshots
    BY <1>4, HmiAssumption, Zenon
  <1> QED
    BY <1>3, <1>4 DEF Telemetry

\* The lowest and the highest cell bound all cells.
LEMMA VoltsFacts ==
    ASSUME NEW f \in [Cell -> Word]
    PROVE  LET volts == {f[i] : i \in Cell}
           IN  /\ Min(volts) \in Word /\ Max(volts) \in Word
               /\ \A i \in Cell : Min(volts) <= f[i] /\ f[i] <= Max(volts)
  <1> DEFINE volts == {f[i] : i \in Cell}
  <1>1. Cell # {}
    BY CellCountAssumption DEF Cell
  <1>2. volts \subseteq Word /\ volts # {} /\ \A i \in Cell : f[i] \in volts
    BY <1>1
  <1> HIDE DEF volts
  <1>3. Min(volts) \in volts /\ \A v \in volts : Min(volts) <= v
    <2>1. volts \subseteq Nat
      BY <1>2, WordFacts, Zenon
    <2> QED
      BY <1>2, <2>1, LeastOf, Zenon
  <1>4. Max(volts) \in volts /\ \A v \in volts : v <= Max(volts)
    <2>1. PICK n \in Nat : Word = 0..n
      BY WordFacts
    <2> QED
      BY <1>2, <2>1, GreatestOf, Zenon
  <1> QED
    BY <1>2, <1>3, <1>4 DEF volts

LEMMA CellPartIndex ==
    ASSUME NEW k \in Nat
    PROVE  CellPart(k)[2] \in Cell /\ CellPart(k)[1] \in {"cell", "j", "bal"}
  <1>1. k % BMS_CELL_COUNT \in 0 .. BMS_CELL_COUNT - 1
    BY CellCountAssumption
  <1> QED
    BY <1>1 DEF CellPart, Cell

LEMMA BarFillRange ==
    ASSUME NEW mv \in Word
    PROVE  cellBarFill(mv) \in Word
  <1>1. mv \in Int
    BY WordFacts
  <1>2. ASSUME mv > BMS_SOC_EMPTY_MV, mv < BMS_SOC_FULL_MV
        PROVE  ((mv - BMS_SOC_EMPTY_MV) * 100) \div (BMS_SOC_FULL_MV - BMS_SOC_EMPTY_MV) \in 0..100
    BY <1>1, <1>2, SMTT(30) DEF BMS_SOC_EMPTY_MV, BMS_SOC_FULL_MV
  <1>3. \A v \in 0..100 : v \in Word
    BY SMT DEF Word
  <1>4. \/ cellBarFill(mv) \in {0, 100}
        \/ /\ mv > BMS_SOC_EMPTY_MV /\ mv < BMS_SOC_FULL_MV
           /\ cellBarFill(mv) = ((mv - BMS_SOC_EMPTY_MV) * 100)
                                   \div (BMS_SOC_FULL_MV - BMS_SOC_EMPTY_MV)
    <2> DEFINE scaled == ((mv - BMS_SOC_EMPTY_MV) * 100)
                           \div (BMS_SOC_FULL_MV - BMS_SOC_EMPTY_MV)
    <2>1. cellBarFill(mv) = IF mv = 65535 \/ mv <= BMS_SOC_EMPTY_MV THEN 0
                            ELSE IF mv >= BMS_SOC_FULL_MV THEN 100 ELSE scaled
      BY SMT DEF cellBarFill
    <2> HIDE DEF scaled
    <2>2. \/ cellBarFill(mv) \in {0, 100}
          \/ mv > BMS_SOC_EMPTY_MV /\ mv < BMS_SOC_FULL_MV /\ cellBarFill(mv) = scaled
      BY <1>1, <2>1, SMT DEF BMS_SOC_EMPTY_MV, BMS_SOC_FULL_MV
    <2> QED
      BY <2>2, SMT DEF scaled
  <1>5. cellBarFill(mv) \in 0..100
    BY <1>2, <1>4, SMT
  <1> QED
    BY <1>3, <1>5, Zenon

\* What the page is computed from: 16 bit voltages, and a warning level that is
\* OK only for cells in band.
LEMMA PackFacts ==
    ASSUME NEW t \in Telemetry
    PROVE  /\ PackData(t).cellVoltageMv \in [Cell -> Word]
           /\ PackComputed(t).cellMaxMv \in Word /\ PackComputed(t).cellMinMv \in Word
           /\ PackComputed(t).warningLevel \in 0..3
           /\ PackComputed(t).warningLevel = BMS_WARN_OK => CellsInBand(t)
  <1>1. t.bms \in BOOLEAN /\ t.cells \in BOOLEAN /\ t.mv \in [Cell -> Word]
    BY TelemetryFacts
  <1>2. HMI_CELL_VOLTAGE_NO_DATA \in Word /\ 0 \in Word
    BY SMT DEF HMI_CELL_VOLTAGE_NO_DATA, Word
  <1>3. /\ PackData(t).cellVoltageMv = [i \in Cell |-> IF t.bms /\ t.cells THEN t.mv[i]
                                                       ELSE HMI_CELL_VOLTAGE_NO_DATA]
        /\ PackData(t).isValid = t.bms /\ PackData(t).cellDataValid = t.cells
    BY DEF PackData
  <1>4. PackData(t).cellVoltageMv \in [Cell -> Word]
    BY <1>1, <1>2, <1>3
  <1>5. CASE ~t.bms
    <2>1. /\ PackComputed(t).cellMaxMv = HMI_CELL_VOLTAGE_NO_DATA
          /\ PackComputed(t).cellMinMv = HMI_CELL_VOLTAGE_NO_DATA
          /\ PackComputed(t).warningLevel = BMS_WARN_CRITICAL
      BY <1>5 DEF PackComputed, Unknown
    <2> QED
      BY <1>2, <1>4, <2>1 DEF BMS_WARN_CRITICAL, BMS_WARN_OK
  <1>6. CASE t.bms /\ ~t.cells
    <2>1. PackComputed(t) = Unknown(BMS_WARN_NO_DATA)
      BY <1>3, <1>6 DEF PackComputed, computePack, makeNoCellData
    <2>2. /\ PackComputed(t).cellMaxMv = 0 /\ PackComputed(t).cellMinMv = 0
          /\ PackComputed(t).warningLevel = BMS_WARN_NO_DATA
      BY <2>1 DEF Unknown
    <2> QED
      BY <1>2, <1>4, <2>2 DEF BMS_WARN_NO_DATA, BMS_WARN_OK
  <1>7. CASE t.bms /\ t.cells
    <2> DEFINE f     == PackData(t).cellVoltageMv
               volts == {f[i] : i \in Cell}
               tMax  == Max({PackData(t).cellTempC[i] : i \in Cell})
               level == WarningLevel(Min(volts), Max(volts), tMax)
    <2>1. f = t.mv
      BY <1>1, <1>3, <1>7
    <2>2. PackComputed(t) = [cellMaxMv    |-> Max(volts),
                             cellMinMv    |-> Min(volts),
                             warningLevel |-> level,
                             balanceFlag  |-> Balanced(f, Min(volts), Max(volts))]
      BY <1>3, <1>7, Zenon DEF PackComputed, computePack
    <2>3. /\ Min(volts) \in Word /\ Max(volts) \in Word
          /\ \A i \in Cell : Min(volts) <= f[i] /\ f[i] <= Max(volts)
      <3> HIDE DEF f
      <3> QED
        BY <1>4, VoltsFacts DEF f
    <2> HIDE DEF f, volts, tMax, level
    <2>4. /\ PackComputed(t).cellMaxMv = Max(volts) /\ PackComputed(t).cellMinMv = Min(volts)
          /\ PackComputed(t).warningLevel = level
      BY <2>2
    <2>5. level \in 0..3
      BY DEF level, WarningLevel, BMS_WARN_OK, BMS_WARN_WARNING, BMS_WARN_CRITICAL
    <2>6. ASSUME level = BMS_WARN_OK PROVE CellsInBand(t)
      <3>1. ~(Min(volts) < BMS_CELL_UNDERVOLT_WARN_MV) /\ ~(Max(volts) > BMS_CELL_OVERVOLT_WARN_MV)
        BY <2>6 DEF level, WarningLevel, BMS_WARN_OK, BMS_WARN_WARNING, BMS_WARN_CRITICAL
      <3>2. ASSUME NEW i \in Cell PROVE f[i] \in 2800..3550
        <4>1. f[i] \in Nat /\ Min(volts) \in Nat /\ Max(volts) \in Nat
          BY <1>1, <2>1, <2>3, WordFacts
        <4> QED
          BY <2>3, <3>1, <4>1, SMT DEF BMS_CELL_UNDERVOLT_WARN_MV, BMS_CELL_OVERVOLT_WARN_MV
      <3> QED
        BY <1>7, <2>1, <3>2 DEF CellsInBand
    <2> QED
      BY <1>4, <2>3, <2>4, <2>5, <2>6
  <1> QED
    BY <1>1, <1>5, <1>6, <1>7

\* The page of any telemetry carries 16 bit values, and a warning unless the
\* cells are in band.
LEMMA PageForFacts ==
    ASSUME NEW t \in Telemetry
    PROVE  /\ PageFor[t] \in [Parts -> Word] /\ PageFor[t][Warn] \in 0..3
           /\ ~CellsInBand(t) => PageFor[t][Warn] # BMS_WARN_OK
  <1> DEFINE comp == PackComputed(t)
             raw  == PackData(t)
             Value(p) ==
               CASE p[1] = "cell"    -> raw.cellVoltageMv[p[2]]
                 [] p[1] = "j"       -> cellBarFill(raw.cellVoltageMv[p[2]])
                 [] p[1] = "bal"     -> IF comp.balanceFlag[p[2]] THEN 1 ELSE 0
                 [] p[1] = "cellmax" -> comp.cellMaxMv
                 [] p[1] = "cellmin" -> comp.cellMinMv
                 [] p[1] = "warn"    -> comp.warningLevel
  <1>1. PageFor[t] = [p \in Parts |-> Value(p)]
    BY Zenon DEF PageFor, Telemetry, Wanted
  <1>2. /\ raw.cellVoltageMv \in [Cell -> Word]
        /\ comp.cellMaxMv \in Word /\ comp.cellMinMv \in Word
        /\ comp.warningLevel \in 0..3
        /\ comp.warningLevel = BMS_WARN_OK => CellsInBand(t)
    BY PackFacts
  <1>3. 0 \in Word /\ 1 \in Word /\ 0..3 \subseteq Word
    BY SMT DEF Word
  <1> HIDE DEF comp, raw
  <1>4. Warn \in Parts /\ Warn[1] = "warn"
    <2>1. Warn \in Parts
      BY WarnIsPart
    <2> QED
      BY <2>1 DEF Warn
  <1>5. ASSUME NEW p \in Parts PROVE Value(p) \in Word
    <2>1. CASE \E k \in 1 .. 3 * BMS_CELL_COUNT : p = CellPart(k - 1)
      <3>1. p[2] \in Cell /\ p[1] \in {"cell", "j", "bal"}
        BY <2>1, CellPartIndex
      <3>2. raw.cellVoltageMv[p[2]] \in Word
        BY <1>2, <3>1
      <3>3. cellBarFill(raw.cellVoltageMv[p[2]]) \in Word
        BY <3>2, BarFillRange
      <3> QED
        BY <1>3, <3>1, <3>2, <3>3
    <2>2. CASE \E k \in 1..3 : p = Summary[k]
      <3>1. p[1] \in {"cellmax", "cellmin", "warn"}
        BY <2>2, CellPartsFacts DEF Warn
      <3> QED
        BY <1>2, <1>3, <3>1
    <2> QED
      BY <2>1, <2>2, CellPartsFacts
  <1>6. Value(Warn) = comp.warningLevel
    BY <1>4
  <1> HIDE DEF Value
  <1> QED
    BY <1>1, <1>2, <1>4, <1>5, <1>6

-----------------------------------------------------------------------------
(* The battery page.                                                       *)

\* The conditions under which updatePage forces a refresh and looks at the cells.
First == sinceCells = -1
Due   == First \/ sinceCells + 1 >= CellEvery

\* The type invariant of the task, with what a last attempt to begin() rests on.
PageTypeOK ==
    /\ hmiStep \in Steps
    /\ retryCount \in 0..MaxBegins /\ (hmiStep = "begin" => retryCount < MaxBegins)
    /\ tel \in Telemetry
    /\ hasCached \in BOOLEAN /\ isWarm \in BOOLEAN
    /\ cache \in [Parts -> Word]
    /\ page \in [Parts -> PageValue]
    /\ sinceCells \in -1 .. CellEvery - 1
    /\ sickRounds \in 0..3 /\ lostRounds \in 0..2

\* What a call leaves on the page.
LEMMA PageUpdated ==
    ASSUME updatePage
    PROVE  /\ sinceCells' = IF Due THEN 0 ELSE sinceCells + 1
           /\ cache' = Call(PageFor[tel], First, Due).cache
           /\ isWarm' = Call(PageFor[tel], First, Due).isWarm
           /\ page' = [p \in Parts |-> IF p \in Call(PageFor[tel], First, Due).sent
                                       THEN PageFor[tel][p] ELSE page[p]]
  <1> DEFINE Sent(want, out) ==
                 /\ cache' = out.cache /\ isWarm' = out.isWarm
                 /\ page' = [p \in Parts |-> IF p \in out.sent THEN want[p] ELSE page[p]]
  <1>1. sinceCells' = IF Due THEN 0 ELSE sinceCells + 1
    BY DEF updatePage, First, Due
  <1>2. \E want \in {PageFor[tel]} : \E out \in {Call(want, First, Due)} : Sent(want, out)
    BY Zenon DEF updatePage, First, Due, Call
  <1> HIDE DEF Sent
  <1>3. Sent(PageFor[tel], Call(PageFor[tel], First, Due))
    BY <1>2, Zenon
  <1> QED
    BY <1>1, <1>3, Zenon DEF Sent

LEMMA PageTyped ==
    ASSUME PageTypeOK, updatePage
    PROVE  /\ isWarm' \in BOOLEAN /\ cache' \in [Parts -> Word]
           /\ page' \in [Parts -> PageValue]
           /\ sinceCells' \in -1 .. CellEvery - 1
  <1> DEFINE want == PageFor[tel]
             out  == Call(want, First, Due)
  <1>1. want \in [Parts -> Word]
    BY PageForFacts DEF PageTypeOK
  <1>2. Due => sinceCells' = 0
    BY PageUpdated
  <1>3. /\ out.isWarm \in BOOLEAN
        /\ out.cache = [p \in Parts |-> IF p \in out.sent THEN want[p] ELSE cache[p]]
    <2> HIDE DEF want
    <2> QED
      BY WarningLast, Zenon
  <1>4. /\ sinceCells' = (IF Due THEN 0 ELSE sinceCells + 1)
        /\ cache' = out.cache /\ isWarm' = out.isWarm
        /\ page' = [p \in Parts |-> IF p \in out.sent THEN want[p] ELSE page[p]]
    BY PageUpdated, Zenon
  <1> HIDE DEF want, out
  <1>5. cache \in [Parts -> Word] /\ page \in [Parts -> PageValue]
    BY DEF PageTypeOK
  <1>6. cache' \in [Parts -> Word]
    BY <1>1, <1>3, <1>4, <1>5, Zenon
  <1>7. page' \in [Parts -> PageValue]
    BY <1>1, <1>4, <1>5, PageValueFacts, Zenon
  <1>8. sinceCells' \in -1 .. CellEvery - 1
    BY <1>4, HmiAssumption DEF PageTypeOK, Due, First
  <1> QED
    BY <1>3, <1>4, <1>6, <1>7, <1>8

LEMMA PageTypeStep ==
    ASSUME PageTypeOK, [HmiNext]_hmiVars
    PROVE  PageTypeOK'
  <1> USE DEF Steps
  <1>1. ASSUME UNCHANGED <<retryCount, tel, screenVars, pageVars, sights>>,
               hmiStep' \in Steps, hmiStep' = "begin" => hmiStep = "begin"
        PROVE  PageTypeOK'
    BY <1>1, Zenon DEF screenVars, pageVars, sights, PageTypeOK
  <1>2. CASE BeginFails
    <2>1. retryCount' \in 0..MaxBegins /\ (hmiStep' = "begin" => retryCount' < MaxBegins)
      BY <1>2, HmiAssumption DEF BeginFails, PageTypeOK
    <2>2. UNCHANGED <<tel, screenVars, pageVars, sights>> /\ hmiStep' \in Steps
      BY <1>2 DEF BeginFails
    <2> QED
      BY <2>1, <2>2, Zenon DEF PageTypeOK, screenVars, pageVars, sights
  <1>3. CASE BeginSucceeds
    <2>1. retryCount' \in 0..MaxBegins
      BY <1>3, HmiAssumption DEF BeginSucceeds
    <2>2. UNCHANGED <<tel, screenVars, pageVars, sights>> /\ hmiStep' = "screen"
      BY <1>3 DEF BeginSucceeds
    <2> QED
      BY <2>1, <2>2, Zenon DEF PageTypeOK, screenVars, pageVars, sights
  <1>4. CASE SleepDegraded
    BY <1>1, <1>4 DEF SleepDegraded, hmiVars, PageTypeOK
  <1>5. CASE UpdateScreen
    <2>1. /\ hasCached' = TRUE /\ hmiStep' = "page"
          /\ UNCHANGED <<retryCount, tel, pageVars, sights>>
      BY <1>5 DEF UpdateScreen, updateScreen
    <2> QED
      BY <2>1, Zenon DEF PageTypeOK, pageVars, sights
  <1>6. CASE UpdatePage
    <2>1. /\ isWarm' \in BOOLEAN /\ cache' \in [Parts -> Word]
          /\ page' \in [Parts -> PageValue]
          /\ sinceCells' \in -1 .. CellEvery - 1
      BY <1>6, PageTyped DEF UpdatePage
    <2>2. hmiStep' = "touch" /\ UNCHANGED <<retryCount, tel, screenVars, sights>>
      BY <1>6 DEF UpdatePage
    <2> QED
      BY <2>1, <2>2, Zenon DEF PageTypeOK, screenVars, sights
  <1>7. ASSUME RoundEnds, UNCHANGED <<retryCount, tel, screenVars, pageVars>>
        PROVE  PageTypeOK'
    <2>1. sickRounds \in 0..3 /\ lostRounds \in 0..2
      BY DEF PageTypeOK
    <2>2. /\ Min({sickRounds + 1, 3}) = IF sickRounds + 1 <= 3 THEN sickRounds + 1 ELSE 3
          /\ Min({lostRounds + 1, 2}) = IF lostRounds + 1 <= 2 THEN lostRounds + 1 ELSE 2
      BY <2>1, MinOfTwo
    <2>3. sickRounds' \in 0..3 /\ lostRounds' \in 0..2
      BY <1>7, <2>1, <2>2 DEF RoundEnds
    <2>4. hmiStep' = "screen"
      BY <1>7 DEF RoundEnds
    <2> QED
      BY <1>7, <2>3, <2>4, Zenon DEF PageTypeOK, screenVars, pageVars
  <1>8. CASE PollByte
    <2>1. CASE RoundEnds
      BY <1>7, <1>8, <2>1 DEF PollByte
    <2>2. CASE UNCHANGED <<hmiStep, sights>>
      BY <1>1, <1>8, <2>2 DEF PollByte, PageTypeOK
    <2> QED
      BY <1>8, <2>1, <2>2 DEF PollByte
  <1>9. CASE PollEnds
    BY <1>7, <1>9 DEF PollEnds
  <1>10. ASSUME NEW c \in Commands, PressButton(c) PROVE PageTypeOK'
    BY <1>1, <1>10 DEF PressButton, PageTypeOK
  <1>11. ASSUME NEW t \in Snapshots, Publish(t) PROVE PageTypeOK'
    <2>1. sickRounds' \in 0..3 /\ lostRounds' \in 0..2
      BY <1>11 DEF Publish, PageTypeOK
    <2>2. tel' \in Telemetry /\ UNCHANGED <<hmiStep, retryCount, screenVars, pageVars>>
      BY <1>11 DEF Publish, Telemetry
    <2> QED
      BY <2>1, <2>2, Zenon DEF PageTypeOK, screenVars, pageVars
  <1>12. CASE UNCHANGED hmiVars
    BY <1>1, <1>12 DEF hmiVars, PageTypeOK
  <1> QED
    BY <1>2, <1>3, <1>4, <1>5, <1>6, <1>8, <1>9, <1>10, <1>11, <1>12 DEF HmiNext, HmiStep

LEMMA PageTypeInitial == HmiInit => PageTypeOK
  <1> SUFFICES ASSUME HmiInit PROVE PageTypeOK
    OBVIOUS
  <1>1. 0 \in Word /\ 255 \in Word
    BY SMT DEF Word
  <1>2. cache \in [Parts -> Word]
    BY <1>1 DEF HmiInit, BlankCache
  <1>3. page \in [Parts -> PageValue]
    BY PageValueFacts DEF HmiInit
  <1>4. /\ retryCount \in 0..MaxBegins /\ retryCount < MaxBegins
        /\ sinceCells \in -1 .. CellEvery - 1
        /\ sickRounds \in 0..3 /\ lostRounds \in 0..2
    BY HmiAssumption DEF HmiInit
  <1>5. hmiStep \in Steps /\ tel \in Telemetry /\ hasCached \in BOOLEAN /\ isWarm \in BOOLEAN
    BY DEF HmiInit, Telemetry, Steps
  <1> QED
    BY <1>2, <1>3, <1>4, <1>5, Zenon DEF PageTypeOK

-----------------------------------------------------------------------------
Warned == page[Warn] # BMS_WARN_OK

\* The page shows the warning sent last, and none before the cache is warm.  Cells
\* out of band are on the page after the first round, unless that round refreshed
\* the cells; the next round does not, and then its few commands fit.
AssuranceInv ==
    /\ page[Warn] \in {NoValue, cache[Warn]}
    /\ page[Warn] # NoValue => isWarm
    /\ sickRounds >= 1 => ~CellsInBand(tel)
    /\ sickRounds >= 1 /\ hmiStep = "touch" => Warned \/ sinceCells = 0
    /\ sickRounds >= 2 => Warned \/ sinceCells = 0
    /\ sickRounds >= 2 /\ hmiStep = "touch" => Warned
    /\ sickRounds = 3 => Warned

LEMMA WarningUpdated ==
    ASSUME PageTypeOK, AssuranceInv, updatePage, MaxBytes >= 53
    PROVE  /\ page'[Warn] \in {NoValue, cache'[Warn]}
           /\ page'[Warn] # NoValue => isWarm'
           /\ ~CellsInBand(tel) => (Warned => Warned')
           /\ ~CellsInBand(tel) => (~Due => Warned')
  <1> DEFINE want == PageFor[tel]
             out  == Call(want, First, Due)
  <1>1. /\ want \in [Parts -> Word] /\ want[Warn] \in 0..3
        /\ ~CellsInBand(tel) => want[Warn] # BMS_WARN_OK
    BY PageForFacts DEF PageTypeOK
  <1>2. First \in BOOLEAN /\ Due \in BOOLEAN
    BY DEF First, Due
  <1>3. /\ out.isWarm \in BOOLEAN /\ (Warn \in out.sent => out.isWarm) /\ (isWarm => out.isWarm)
        /\ out.cache = [p \in Parts |-> IF p \in out.sent THEN want[p] ELSE cache[p]]
    <2> HIDE DEF want
    <2> QED
      BY WarningLast, Zenon
  <1>4. /\ cache' = out.cache /\ isWarm' = out.isWarm
        /\ page' = [p \in Parts |-> IF p \in out.sent THEN want[p] ELSE page[p]]
    BY PageUpdated, Zenon
  <1>5. Warn \in Parts
    BY WarnIsPart
  <1>6. /\ page'[Warn] = IF Warn \in out.sent THEN want[Warn] ELSE page[Warn]
        /\ cache'[Warn] = IF Warn \in out.sent THEN want[Warn] ELSE cache[Warn]
    <2> HIDE DEF want, out
    <2> QED
      BY <1>3, <1>4, <1>5
  <1>7. page[Warn] \in {NoValue, cache[Warn]} /\ (page[Warn] # NoValue => isWarm)
    BY DEF AssuranceInv
  <1>8. ASSUME ~Due, isWarm, want[Warn] # cache[Warn] PROVE Warn \in out.sent
    <2>1. First = FALSE /\ Due = FALSE
      BY <1>8, <1>2 DEF Due
    <2>2. out = Call(want, FALSE, FALSE)
      BY <2>1, Zenon
    <2>3. Warn \in Call(want, FALSE, FALSE).sent
      <3> HIDE DEF want
      <3>1. want[Warn] \in 0..9 /\ isWarm \in BOOLEAN
        BY <1>1 DEF PageTypeOK
      <3> QED
        BY <1>1, <1>8, <3>1, SummarySent
    <2> QED
      BY <2>2, <2>3
  <1> HIDE DEF want, out
  <1>9. NoValue # BMS_WARN_OK
    BY DEF NoValue, BMS_WARN_OK
  <1>10. page'[Warn] \in {NoValue, cache'[Warn]} /\ (page'[Warn] # NoValue => isWarm')
    BY <1>3, <1>4, <1>6, <1>7, Zenon
  <1>11. ASSUME ~CellsInBand(tel), Warned PROVE Warned'
    BY <1>1, <1>6, <1>11 DEF Warned
  <1>12. ASSUME ~CellsInBand(tel), ~Due PROVE Warned'
    <2>1. CASE Warn \in out.sent
      BY <1>1, <1>6, <1>12, <2>1 DEF Warned
    <2>2. CASE Warn \notin out.sent
      BY <1>1, <1>6, <1>7, <1>8, <1>9, <1>12, <2>2 DEF Warned
    <2> QED
      BY <2>1, <2>2
  <1> QED
    BY <1>10, <1>11, <1>12

LEMMA AssuranceStep ==
    ASSUME PageTypeOK, AssuranceInv, [HmiNext]_hmiVars, MaxBytes >= 53
    PROVE  AssuranceInv'
  <1>1. ASSUME UNCHANGED <<tel, pageVars, sights>>, hmiStep' = "touch" => hmiStep = "touch"
        PROVE  AssuranceInv'
    BY <1>1, Zenon DEF pageVars, sights, AssuranceInv, Warned
  <1>2. CASE BeginFails
    BY <1>1, <1>2 DEF BeginFails
  <1>3. CASE BeginSucceeds
    BY <1>1, <1>3 DEF BeginSucceeds
  <1>4. CASE SleepDegraded
    BY <1>1, <1>4 DEF SleepDegraded, hmiVars
  <1>5. CASE UpdateScreen
    BY <1>1, <1>5 DEF UpdateScreen
  <1>6. CASE UpdatePage
    <2>1. updatePage /\ tel' = tel /\ sickRounds' = sickRounds
      BY <1>6 DEF UpdatePage, sights
    <2>2. /\ page'[Warn] \in {NoValue, cache'[Warn]}
          /\ page'[Warn] # NoValue => isWarm'
          /\ ~CellsInBand(tel) => (Warned => Warned')
          /\ ~CellsInBand(tel) => (~Due => Warned')
      BY <2>1, WarningUpdated
    <2>3. sickRounds >= 1 => ~CellsInBand(tel)
      BY DEF AssuranceInv
    <2>4. CellsInBand(tel)' <=> CellsInBand(tel)
      BY <2>1 DEF CellsInBand
    <2>5. Due => sinceCells' = 0
      BY <2>1, PageUpdated
    <2>6. sinceCells = 0 => ~Due
      BY HmiAssumption DEF Due, First
    <2>7. sickRounds \in 0..3
      BY DEF PageTypeOK
    <2>8. sickRounds >= 1 => Warned' \/ sinceCells' = 0
      BY <2>2, <2>3, <2>5
    <2>9. sickRounds >= 2 => Warned'
      BY <2>2, <2>3, <2>6, <2>7 DEF AssuranceInv
    <2> QED
      BY <2>1, <2>2, <2>3, <2>4, <2>7, <2>8, <2>9 DEF AssuranceInv
  <1>7. ASSUME RoundEnds, hmiStep = "touch", UNCHANGED <<tel, pageVars>>
        PROVE  AssuranceInv'
    <2>1. sickRounds \in 0..3
      BY DEF PageTypeOK
    <2>2. Min({sickRounds + 1, 3}) = IF sickRounds + 1 <= 3 THEN sickRounds + 1 ELSE 3
      BY <2>1, MinOfTwo
    <2>3. /\ hmiStep' = "screen" /\ (sickRounds' >= 1 => ~CellsInBand(tel))
          /\ sickRounds' >= 2 => sickRounds >= 1
          /\ sickRounds' = 3 => sickRounds >= 2
      BY <1>7, <2>1, <2>2 DEF RoundEnds
    <2>4. UNCHANGED <<tel, page, cache, isWarm, sinceCells>>
      BY <1>7 DEF pageVars
    <2>5. (CellsInBand(tel)' <=> CellsInBand(tel)) /\ (Warned' <=> Warned)
      BY <2>4 DEF CellsInBand, Warned
    <2> QED
      BY <1>7, <2>3, <2>4, <2>5 DEF AssuranceInv
  <1>8. CASE PollByte
    <2>1. CASE RoundEnds
      BY <1>7, <1>8, <2>1 DEF PollByte
    <2>2. CASE UNCHANGED <<hmiStep, sights>>
      BY <1>1, <1>8, <2>2 DEF PollByte
    <2> QED
      BY <1>8, <2>1, <2>2 DEF PollByte
  <1>9. CASE PollEnds
    BY <1>7, <1>9 DEF PollEnds
  <1>10. ASSUME NEW c \in Commands, PressButton(c) PROVE AssuranceInv'
    BY <1>1, <1>10 DEF PressButton
  <1>11. ASSUME NEW t \in Snapshots, Publish(t) PROVE AssuranceInv'
    <2>1. UNCHANGED <<hmiStep, page, cache, isWarm, sinceCells>>
      BY <1>11 DEF Publish, pageVars
    <2>2. sickRounds' = IF CellsInBand(tel') THEN 0 ELSE sickRounds
      BY <1>11 DEF Publish
    <2>3. CellsInBand(tel)' <=> CellsInBand(tel')
      BY DEF CellsInBand
    <2>4. Warned' <=> Warned
      BY <2>1 DEF Warned
    <2> QED
      BY <2>1, <2>2, <2>3, <2>4 DEF AssuranceInv
  <1>12. CASE UNCHANGED hmiVars
    BY <1>1, <1>12 DEF hmiVars
  <1> QED
    BY <1>2, <1>3, <1>4, <1>5, <1>6, <1>8, <1>9, <1>10, <1>11, <1>12 DEF HmiNext, HmiStep

\* The state of vTask_HMI_Display stays within its types: every value
\* buildBmsNextionCommands puts into the cache or on the page has 16 bits, and no
\* path counts the attempts, the rounds or the age of the cells past its end.
THEOREM HmiTypesHold == HmiSpec => []HmiTypeOK
  <1>1. TouchInv /\ PageTypeOK => HmiTypeOK
    BY Zenon DEF TouchInv, PageTypeOK, HmiTypeOK, Telemetry
  <1>2. HmiSpec => []PageTypeOK
    BY PageTypeInitial, PageTypeStep, PTL DEF HmiSpec
  <1> QED
    BY <1>1, <1>2, TouchInductive, PTL

\* With a byte budget that fits the summary of the page, 53 bytes (the code gives
\* it 90), two whole rounds after a cell's voltage left the band or went stale the
\* page no longer shows OK: for every number of cells, every pace of their refresh
\* and every sequence of snapshots, however the cells use up the budget.
THEOREM SickCellsAreShown ==
    ASSUME MaxBytes >= 53
    PROVE  HmiSpec => []SickCellsNotOk
  <1>1. HmiInit => AssuranceInv
    <2>1. Warn \in Parts
      BY WarnIsPart
    <2> QED
      BY <2>1 DEF HmiInit, AssuranceInv
  <1>2. PageTypeOK /\ AssuranceInv /\ [HmiNext]_hmiVars => AssuranceInv'
    BY AssuranceStep
  <1>3. AssuranceInv => SickCellsNotOk
    BY DEF AssuranceInv, SickCellsNotOk, Warned, Warn
  <1>4. HmiSpec => []PageTypeOK
    BY PageTypeInitial, PageTypeStep, PTL DEF HmiSpec
  <1> QED
    BY <1>1, <1>2, <1>3, <1>4, PTL DEF HmiSpec
=============================================================================
