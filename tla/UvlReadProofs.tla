---------------------------- MODULE UvlReadProofs ---------------------------
(***************************************************************************)
(* What UvlRead guarantees of the bytes that a console sends, for every    *)
(* segment size, window and length of the stream.                          *)
(***************************************************************************)
EXTENDS UvlRead, SequenceTheorems, WellFoundedInduction, TLAPS

-----------------------------------------------------------------------------
(* Natural numbers *)

\* Comparisons in a row.
LEMMA LeqChain ==
  ASSUME NEW a \in Nat, NEW b \in Nat, NEW c \in Nat, NEW d \in Nat,
         a <= b, b <= c, c <= d
  PROVE  a <= d
OBVIOUS

\* Every set of natural numbers has a least element.
LEMMA LeastNat ==
  ASSUME NEW S \in SUBSET Nat, S # {}
  PROVE  \E m \in S : \A k \in S : m <= k
<1> DEFINE R == OpToRel(<, Nat)
<1>1. IsWellFoundedOn(R, Nat)
  BY NatLessThanWellFounded
<1>2. \A x, y \in Nat : x < y => <<x, y>> \in R
  BY DEF OpToRel
<1> HIDE DEF R
<1>3. PICK m \in S : \A y \in S : ~ (<<y, m>> \in R)
  BY <1>1, WFMin
<1>4. \A y \in S : ~ (y < m)
  BY <1>2, <1>3
<1> QED  BY <1>4

\* Induction, for the members of a set: a set that holds 0 and with n also
\* n + 1 holds every natural number.
LEMMA SetInduction ==
  ASSUME NEW S, 0 \in S, \A n \in Nat : n \in S => n + 1 \in S
  PROVE  Nat \subseteq S
<1> SUFFICES ASSUME Nat \ S # {} PROVE FALSE
  OBVIOUS
<1>1. PICK m \in Nat \ S : \A k \in Nat \ S : m <= k
  BY LeastNat
<1>2. m # 0 /\ m - 1 \in Nat
  BY <1>1
<1>3. m - 1 \in S
  BY <1>1, <1>2
<1>4. (m - 1) + 1 \in S
  BY <1>2, <1>3
<1> QED  BY <1>1, <1>4

\* Max of a bounded set of natural numbers is what its name says.
LEMMA BoundedMax ==
  ASSUME NEW n \in Nat, NEW S \in SUBSET (0..n), S # {}
  PROVE  Max(S) \in S /\ \A k \in S : k <= Max(S)
<1> DEFINE T == {n - k : k \in S}
<1>1. T \in SUBSET Nat /\ T # {}
  <2>1. \A k \in S : n - k \in Nat
    OBVIOUS
  <2>2. \A t \in T : t \in Nat
    BY <2>1
  <2>3. T # {}
    BY Zenon
  <2> QED  BY <2>2, <2>3
<1>2. PICK t \in T : \A u \in T : t <= u
  BY <1>1, LeastNat
<1>3. PICK m \in S : t = n - m
  BY <1>2
<1>4. \A k \in S : t <= n - k
  BY <1>2
<1>5. \A k \in S : m >= k
  BY <1>3, <1>4
<1>6. \E x \in S : \A y \in S : x >= y
  BY <1>5
<1>7. Max(S) \in S /\ \A y \in S : Max(S) >= y
  BY <1>6 DEF Max
<1> QED  BY <1>7

\* The length of the longest prefix with a property, given as a set of indices.
LEMMA LongestPrefix ==
  ASSUME NEW n \in Nat, NEW P,
         NEW k, k = Max({m \in 0..n : \A i \in 1..m : i \in P})
  PROVE  /\ k \in 0..n
         /\ \A i \in 1..k : i \in P
         /\ k < n => k + 1 \notin P
<1> DEFINE S == {m \in 0..n : \A i \in 1..m : i \in P}
<1>1. S \in SUBSET (0..n) /\ 0 \in S
  OBVIOUS
<1> HIDE DEF S
<1>2. Max(S) \in S /\ \A m \in S : m <= Max(S)
  BY <1>1, BoundedMax
<1>3. k = Max(S)
  BY DEF S
<1>4. k \in 0..n /\ \A i \in 1..k : i \in P
  BY <1>2, <1>3 DEF S
<1>5. ASSUME k < n, k + 1 \in P PROVE FALSE
  <2>1. k + 1 \in 0..n /\ \A i \in 1..k + 1 : i \in 1..k \/ i = k + 1
    BY <1>4, <1>5
  <2>2. k + 1 \in S
    BY <1>4, <1>5, <2>1 DEF S
  <2> QED  BY <1>2, <1>3, <1>4, <2>2
<1> QED  BY <1>4, <1>5

-----------------------------------------------------------------------------
(* Runs of consecutive bytes *)

Run(a, n) == [j \in 1..n |-> a + j - 1]

\* A run as a sequence.
LEMMA RunSeq ==
  ASSUME NEW a \in Nat, NEW n \in Nat
  PROVE  Run(a, n) \in Seq(Int) /\ Len(Run(a, n)) = n
         /\ \A j \in 1..n : Run(a, n)[j] = a + j - 1
BY DEF Run

\* The front of a run is a run.
LEMMA RunFront ==
  ASSUME NEW a \in Nat, NEW n \in Nat, NEW m \in 0..n
  PROVE  SubSeq(Run(a, n), 1, m) = Run(a, m)
BY DEF Run

\* So is the rest.
LEMMA RunRest ==
  ASSUME NEW a \in Nat, NEW n \in Nat, NEW m \in 0..n
  PROVE  SubSeq(Run(a, n), m + 1, n) = Run(a + m, n - m)
BY DEF Run

\* Two runs, the second of which begins where the first ends, are one.
LEMMA RunConcat ==
  ASSUME NEW a \in Nat, NEW n \in Nat, NEW m \in Nat
  PROVE  Run(a, n) \o Run(a + n, m) = Run(a, n + m)
BY DEF Run

\* The bytes of a run within the stream.
LEMMA RunBytes ==
  ASSUME NEW a \in Nat, NEW n \in Nat, a >= 1, a + n <= Total + 1
  PROVE  Run(a, n) \in Seq(Bytes) /\ Len(Run(a, n)) = n
<1>1. \A j \in 1..n : a + j - 1 \in Bytes
  BY UvlReadAssumption DEF Bytes
<1> QED  BY <1>1 DEF Run

-----------------------------------------------------------------------------
(* Segments *)

\* A piece of the console's stream: bytes at their places, a FIN only behind
\* the last of them, and not empty.
SegmentOK(s) ==
  /\ s \in [seqno : 1..Total + 1, data : Seq(Bytes), fin : BOOLEAN]
  /\ s.data = Run(s.seqno, Len(s.data))
  /\ DataEnd(s) <= Total + 1
  /\ s.fin => DataEnd(s) = Total + 1
  /\ TCP_TCPLEN(s) > 0

\* The numbers of a segment.
LEMMA SegmentFacts ==
  ASSUME NEW s, SegmentOK(s)
  PROVE  /\ s.seqno \in 1..Total + 1 /\ Len(s.data) \in Nat /\ s.fin \in BOOLEAN
         /\ DataEnd(s) = s.seqno + Len(s.data) /\ DataEnd(s) \in Nat
         /\ s.fin => TCP_TCPLEN(s) = Len(s.data) + 1
         /\ ~s.fin => TCP_TCPLEN(s) = Len(s.data) /\ Len(s.data) > 0
         /\ TCP_TCPLEN(s) \in Nat
BY UvlReadAssumption DEF SegmentOK, DataEnd, TCP_TCPLEN

\* Cutting a segment without FIN at its end.
LEMMA CutOK ==
  ASSUME NEW s, SegmentOK(s), NEW m \in 1..Len(s.data)
  PROVE  LET c == [Cut(s, m) EXCEPT !.fin = FALSE]
         IN  SegmentOK(c) /\ c.seqno = s.seqno /\ Len(c.data) = m /\ ~c.fin
<1> DEFINE d == SubSeq(s.data, 1, m)
           c == [Cut(s, m) EXCEPT !.fin = FALSE]
<1>1. /\ s.seqno \in 1..Total + 1 /\ s.data \in Seq(Bytes) /\ s.fin \in BOOLEAN
      /\ s \in [seqno : 1..Total + 1, data : Seq(Bytes), fin : BOOLEAN]
      /\ s.data = Run(s.seqno, Len(s.data)) /\ Len(s.data) \in Nat
      /\ s.seqno + Len(s.data) <= Total + 1
  BY DEF SegmentOK, DataEnd
<1>2. d = Run(s.seqno, m)
  <2>1. s.seqno \in Nat /\ m \in 0..Len(s.data)
    BY <1>1
  <2> QED  BY <1>1, <2>1, RunFront
<1>3. s.seqno + m <= Total + 1 /\ m \in Nat /\ s.seqno \in Nat /\ s.seqno >= 1
  BY <1>1, UvlReadAssumption
<1>4. d \in Seq(Bytes) /\ Len(d) = m
  BY <1>2, <1>3, RunBytes
<1> HIDE DEF d
<1>5. Cut(s, m) = [s EXCEPT !.data = d]
  BY DEF Cut, d
<1>6. /\ c.seqno = s.seqno /\ c.data = d /\ c.fin = FALSE
      /\ c \in [seqno : 1..Total + 1, data : Seq(Bytes), fin : BOOLEAN]
  BY <1>1, <1>4, <1>5
<1> HIDE DEF c
<1>7. SegmentOK(c)
  BY <1>2, <1>3, <1>4, <1>6 DEF SegmentOK, DataEnd, TCP_TCPLEN
<1> QED  BY <1>4, <1>6, <1>7 DEF c

\* The same of a segment that has no FIN: Cut leaves it so.
LEMMA CutPlainOK ==
  ASSUME NEW s, SegmentOK(s), ~s.fin, NEW m \in 1..Len(s.data)
  PROVE  SegmentOK(Cut(s, m)) /\ Cut(s, m).seqno = s.seqno /\ Len(Cut(s, m).data) = m
         /\ ~Cut(s, m).fin
<1>1. s \in [seqno : 1..Total + 1, data : Seq(Bytes), fin : BOOLEAN] /\ s.fin = FALSE
  BY DEF SegmentOK
<1>2. [Cut(s, m) EXCEPT !.fin = FALSE] = Cut(s, m)
  BY <1>1 DEF Cut
<1> QED  BY <1>2, CutOK

\* A segment gets the FIN of one that it covers.
LEMMA WithFinOK ==
  ASSUME NEW s, SegmentOK(s), NEW f \in BOOLEAN, f => DataEnd(s) = Total + 1, s.fin => f
  PROVE  LET c == [s EXCEPT !.fin = f]
         IN  SegmentOK(c) /\ c.seqno = s.seqno /\ c.data = s.data /\ c.fin = f
<1> DEFINE c == [s EXCEPT !.fin = f]
<1>1. s \in [seqno : 1..Total + 1, data : Seq(Bytes), fin : BOOLEAN]
  BY DEF SegmentOK
<1>2. /\ c.seqno = s.seqno /\ c.data = s.data /\ c.fin = f
      /\ c \in [seqno : 1..Total + 1, data : Seq(Bytes), fin : BOOLEAN]
  BY <1>1
<1> HIDE DEF c
<1>3. TCP_TCPLEN(c) > 0
  <2>1. CASE s.fin
    BY <1>2, <2>1 DEF SegmentOK, TCP_TCPLEN
  <2>2. CASE ~s.fin
    BY <1>2, <2>2 DEF SegmentOK, TCP_TCPLEN
  <2> QED  BY <2>1, <2>2
<1>4. SegmentOK(c)
  BY <1>2, <1>3 DEF SegmentOK, DataEnd
<1> QED  BY <1>2, <1>4 DEF c

\* What a segment has beyond rcv_nxt, when rcv_nxt lies within it.
LEMMA TrimFrontOK ==
  ASSUME NEW s, SegmentOK(s), NEW p, p.rcv_nxt \in Nat,
         TCP_SEQ_BETWEEN(p.rcv_nxt, s.seqno + 1, s.seqno + TCP_TCPLEN(s) - 1)
  PROVE  LET c == TrimFront(p, s)
         IN  /\ SegmentOK(c) /\ c.seqno = p.rcv_nxt
             /\ c.seqno + TCP_TCPLEN(c) = s.seqno + TCP_TCPLEN(s)
<1> DEFINE k == p.rcv_nxt - s.seqno
           d == SubSeq(s.data, k + 1, Len(s.data))
           c == TrimFront(p, s)
<1>1. /\ s.seqno \in 1..Total + 1 /\ s.data \in Seq(Bytes) /\ s.fin \in BOOLEAN
      /\ s \in [seqno : 1..Total + 1, data : Seq(Bytes), fin : BOOLEAN]
      /\ s.data = Run(s.seqno, Len(s.data)) /\ Len(s.data) \in Nat
      /\ s.seqno + Len(s.data) <= Total + 1
      /\ s.fin => s.seqno + Len(s.data) = Total + 1
  BY DEF SegmentOK, DataEnd
<1>2. k \in 0..Len(s.data) /\ (~s.fin => k < Len(s.data)) /\ p.rcv_nxt = s.seqno + k
  BY <1>1 DEF TCP_SEQ_BETWEEN, TCP_TCPLEN
<1>3. d = Run(s.seqno + k, Len(s.data) - k)
  <2> HIDE DEF k
  <2>1. s.seqno \in Nat
    BY <1>1
  <2> QED  BY <1>1, <1>2, <2>1, RunRest
<1>4. /\ s.seqno + k \in Nat /\ Len(s.data) - k \in Nat /\ s.seqno + k >= 1
      /\ (s.seqno + k) + (Len(s.data) - k) = s.seqno + Len(s.data)
      /\ s.seqno + k \in 1..Total + 1
  BY <1>1, <1>2, UvlReadAssumption
<1>5. d \in Seq(Bytes) /\ Len(d) = Len(s.data) - k
  BY <1>1, <1>3, <1>4, RunBytes, ZenonT(30)
<1>6. c = [s EXCEPT !.seqno = p.rcv_nxt, !.data = d]
  BY DEF TrimFront
<1> HIDE DEF c, d, k
<1>7. /\ c.seqno = s.seqno + k /\ c.data = d /\ c.fin = s.fin
      /\ c \in [seqno : 1..Total + 1, data : Seq(Bytes), fin : BOOLEAN]
  BY <1>1, <1>2, <1>4, <1>5, <1>6
<1>8. SegmentOK(c)
  BY <1>1, <1>2, <1>3, <1>4, <1>5, <1>7 DEF SegmentOK, DataEnd, TCP_TCPLEN
<1>9. c.seqno + TCP_TCPLEN(c) = s.seqno + TCP_TCPLEN(s)
  <2>1. k \in Int /\ Len(s.data) \in Int /\ s.seqno \in Int
    BY <1>1, <1>2
  <2>2. CASE s.fin
    <3>1. TCP_TCPLEN(c) = (Len(s.data) - k) + 1 /\ TCP_TCPLEN(s) = Len(s.data) + 1
      BY <1>5, <1>7, <2>2 DEF TCP_TCPLEN
    <3> QED  BY <1>7, <2>1, <3>1
  <2>3. CASE ~s.fin
    <3>1. TCP_TCPLEN(c) = (Len(s.data) - k) + 0 /\ TCP_TCPLEN(s) = Len(s.data) + 0
      BY <1>5, <1>7, <2>3 DEF TCP_TCPLEN
    <3> QED  BY <1>7, <2>1, <3>1
  <2> QED  BY <2>2, <2>3
<1> QED  BY <1>2, <1>7, <1>8, <1>9 DEF c

-----------------------------------------------------------------------------
(* Queues of segments that were received out of sequence *)

SegmentType == [seqno : 1..Total + 1, data : Seq(Bytes), fin : BOOLEAN]

\* In order and disjoint, not before lo, not beyond hi, a FIN only at the end:
\* stated for any two segments, where OoseqSound looks at neighbours.
QueueOK(q, lo, hi) ==
  /\ q \in Seq(SegmentType)
  /\ \A i \in 1..Len(q) :
       /\ SegmentOK(q[i]) /\ q[i].seqno >= lo
       /\ q[i].seqno + TCP_TCPLEN(q[i]) <= hi
  /\ \A i, j \in 1..Len(q) : i < j => ~q[i].fin /\ DataEnd(q[i]) <= q[j].seqno

\* A part of a queue.
LEMMA QueueSub ==
  ASSUME NEW q, NEW lo, NEW hi, QueueOK(q, lo, hi),
         NEW a \in 1..Len(q) + 1, NEW b \in 0..Len(q), a <= b + 1
  PROVE  /\ QueueOK(SubSeq(q, a, b), lo, hi)
         /\ Len(SubSeq(q, a, b)) = b - a + 1
         /\ \A i \in 1..b - a + 1 : SubSeq(q, a, b)[i] = q[a + i - 1]
<1> DEFINE s == SubSeq(q, a, b)
<1>1. q \in Seq(SegmentType) /\ Len(q) \in Nat
  BY DEF QueueOK
<1>2. s \in Seq(SegmentType)
  <2>1. \A i \in a..b : i \in 1..Len(q)
    BY <1>1
  <2>2. \A i \in a..b : q[i] \in SegmentType
    BY <1>1, <2>1
  <2> QED  BY <1>1, <2>2, SubSeqProperties
<1>3. Len(s) = b - a + 1 /\ \A i \in 1..b - a + 1 : s[i] = q[a + i - 1]
  BY <1>1
<1>4. \A i \in 1..b - a + 1 : a + i - 1 \in 1..Len(q)
  BY <1>1
<1> HIDE DEF s
<1>5. QueueOK(s, lo, hi)
  <2>1. \A i \in 1..Len(s) : /\ SegmentOK(s[i]) /\ s[i].seqno >= lo
                             /\ s[i].seqno + TCP_TCPLEN(s[i]) <= hi
    BY <1>3, <1>4 DEF QueueOK
  <2>2. ASSUME NEW i \in 1..Len(s), NEW j \in 1..Len(s), i < j
        PROVE  ~s[i].fin /\ DataEnd(s[i]) <= s[j].seqno
    <3>1. a + i - 1 \in 1..Len(q) /\ a + j - 1 \in 1..Len(q) /\ a + i - 1 < a + j - 1
      BY <1>3, <1>4, <2>2
    <3>2. s[i] = q[a + i - 1] /\ s[j] = q[a + j - 1]
      BY <1>3
    <3> QED  BY <3>1, <3>2 DEF QueueOK
  <2> QED  BY <1>2, <2>1, <2>2 DEF QueueOK
<1> QED  BY <1>3, <1>5 DEF s

\* A queue behind another one.
LEMMA QueueConcat ==
  ASSUME NEW q, NEW r, NEW lo, NEW hi, QueueOK(q, lo, hi), QueueOK(r, lo, hi),
         \A i \in 1..Len(q), j \in 1..Len(r) : ~q[i].fin /\ DataEnd(q[i]) <= r[j].seqno
  PROVE  QueueOK(q \o r, lo, hi)
<1> DEFINE s == q \o r
<1>1. /\ q \in Seq(SegmentType) /\ Len(q) \in Nat
      /\ r \in Seq(SegmentType) /\ Len(r) \in Nat
  BY DEF QueueOK
<1>2. /\ s \in Seq(SegmentType) /\ Len(s) = Len(q) + Len(r)
      /\ \A i \in 1..Len(s) : IF i <= Len(q) THEN i \in 1..Len(q) /\ s[i] = q[i]
                              ELSE i - Len(q) \in 1..Len(r) /\ s[i] = r[i - Len(q)]
  BY <1>1
<1> HIDE DEF s
<1>3. \A i \in 1..Len(s) : /\ SegmentOK(s[i]) /\ s[i].seqno >= lo
                           /\ s[i].seqno + TCP_TCPLEN(s[i]) <= hi
  BY <1>2 DEF QueueOK
<1>4. ASSUME NEW i \in 1..Len(s), NEW j \in 1..Len(s), i < j
      PROVE  ~s[i].fin /\ DataEnd(s[i]) <= s[j].seqno
  <2>1. CASE j <= Len(q)
    <3>1. i <= Len(q) /\ i \in 1..Len(q) /\ j \in 1..Len(q)
      BY <1>1, <1>2, <1>4, <2>1
    <3>2. s[i] = q[i] /\ s[j] = q[j]
      BY <1>2, <2>1, <3>1
    <3> QED  BY <1>4, <3>1, <3>2 DEF QueueOK
  <2>2. CASE i <= Len(q) /\ ~(j <= Len(q))
    BY <1>2, <2>2
  <2>3. CASE ~(i <= Len(q))
    <3>1. ~(j <= Len(q)) /\ i - Len(q) < j - Len(q)
      BY <1>1, <1>2, <1>4, <2>3
    <3>2. /\ s[i] = r[i - Len(q)] /\ s[j] = r[j - Len(q)]
          /\ i - Len(q) \in 1..Len(r) /\ j - Len(q) \in 1..Len(r)
      BY <1>2, <2>3, <3>1
    <3> QED  BY <3>1, <3>2 DEF QueueOK
  <2> QED  BY <2>1, <2>2, <2>3
<1>5. QueueOK(s, lo, hi)
  BY <1>2, <1>3, <1>4 DEF QueueOK
<1> QED  BY <1>5 DEF s

\* The empty queue, and one of a single segment.
LEMMA QueueSmall ==
  ASSUME NEW lo, NEW hi
  PROVE  /\ QueueOK(<<>>, lo, hi)
         /\ \A s : SegmentOK(s) /\ s.seqno >= lo /\ s.seqno + TCP_TCPLEN(s) <= hi
              => QueueOK(<<s>>, lo, hi) /\ Len(<<s>>) = 1 /\ <<s>>[1] = s
<1>1. QueueOK(<<>>, lo, hi)
  BY DEF QueueOK
<1>2. ASSUME NEW s, SegmentOK(s), s.seqno >= lo, s.seqno + TCP_TCPLEN(s) <= hi
      PROVE  QueueOK(<<s>>, lo, hi) /\ Len(<<s>>) = 1 /\ <<s>>[1] = s
  <2>1. s \in SegmentType
    BY <1>2 DEF SegmentOK, SegmentType
  <2>2. <<s>> \in Seq(SegmentType) /\ Len(<<s>>) = 1 /\ <<s>>[1] = s
    BY <2>1
  <2>3. \A i \in 1..1 : i = 1
    OBVIOUS
  <2>4. \A i, j \in 1..1 : ~(i < j)
    OBVIOUS
  <2> QED  BY <1>2, <2>2, <2>3, <2>4 DEF QueueOK
<1> QED  BY <1>1, <1>2

\* What Covered counts.
LEMMA CoveredFacts ==
  ASSUME NEW seg, NEW q, NEW lo, NEW hi, QueueOK(q, lo, hi)
  PROVE  LET k == Covered(seg, q)
         IN  /\ k \in 0..Len(q)
             /\ \A i \in 1..k : DataEnd(seg) >= DataEnd(q[i])
             /\ k < Len(q) => ~(DataEnd(seg) >= DataEnd(q[k + 1]))
<1> DEFINE n == Len(q)
           P == {i \in 1..n : DataEnd(seg) >= DataEnd(q[i])}
           k == Covered(seg, q)
<1>1. n \in Nat
  BY DEF QueueOK
<1>2. {m \in 0..n : \A i \in 1..m : i \in P}
        = {m \in 0..n : \A i \in 1..m : DataEnd(seg) >= DataEnd(q[i])}
  <2>1. \A m \in 0..n : \A i \in 1..m : i \in 1..n
    BY <1>1
  <2> QED  BY <2>1
<1>3. k = Max({m \in 0..n : \A i \in 1..m : i \in P})
  BY <1>2 DEF Covered
<1> HIDE DEF k, n, P
<1>4. k \in 0..n /\ (\A i \in 1..k : i \in P) /\ (k < n => k + 1 \notin P)
  BY <1>1, <1>3, LongestPrefix
<1>5. k < n => k + 1 \in 1..n
  BY <1>1, <1>4
<1>6. \A i \in 1..n : i \in P <=> DataEnd(seg) >= DataEnd(q[i])
  BY DEF P
<1>7. \A i \in 1..k : i \in 1..n
  BY <1>1, <1>4
<1> QED  BY <1>4, <1>5, <1>6, <1>7 DEF k, n

\* A segment in front of a queue: what it covers goes, its end is cut where the
\* rest begins, and a FIN that it covers is not lost.
LEMMA InsertOK ==
  ASSUME NEW seg, SegmentOK(seg), ~seg.fin,
         NEW q, NEW lo \in Nat, NEW hi \in Nat, QueueOK(q, lo, hi),
         seg.seqno + TCP_TCPLEN(seg) <= hi,
         \A j \in 1..Len(q) : q[j].seqno >= seg.seqno,
         q # <<>> => q[1].seqno > seg.seqno \/ Len(seg.data) > Len(q[1].data)
  PROVE  LET b == BeforeQueue(seg, q)
             r == Behind(seg, q)
         IN  /\ SegmentOK(b) /\ b.seqno = seg.seqno /\ b.seqno + TCP_TCPLEN(b) <= hi
             /\ Len(b.data) > 0
             /\ QueueOK(r, lo, hi)
             /\ \A j \in 1..Len(r) : ~b.fin /\ DataEnd(b) <= r[j].seqno
<1> DEFINE n == Len(q)
           k == Covered(seg, q)
           f == seg.fin \/ \E i \in 1..k : q[i].fin
           b == BeforeQueue(seg, q)
           r == Behind(seg, q)
<1>1. /\ n \in Nat /\ k \in 0..n
      /\ \A i \in 1..k : DataEnd(seg) >= DataEnd(q[i])
      /\ k < n => ~(DataEnd(seg) >= DataEnd(q[k + 1]))
  <2>1. n \in Nat
    BY DEF QueueOK
  <2> QED  BY <2>1, CoveredFacts
<1>2. /\ seg.seqno \in 1..Total + 1 /\ Len(seg.data) \in Nat /\ Len(seg.data) > 0
      /\ DataEnd(seg) = seg.seqno + Len(seg.data) /\ TCP_TCPLEN(seg) = Len(seg.data)
      /\ DataEnd(seg) <= Total + 1 /\ DataEnd(seg) \in Nat
  BY SegmentFacts DEF SegmentOK
<1>3. r = SubSeq(q, k + 1, n)
  BY DEF Behind
<1>4. /\ QueueOK(r, lo, hi) /\ Len(r) = n - k
      /\ \A j \in 1..n - k : r[j] = q[k + j]
  <2>1. k + 1 \in 1..n + 1 /\ n \in 0..n /\ k + 1 <= n + 1 /\ n - (k + 1) + 1 = n - k
    BY <1>1
  <2>2. \A j \in 1..n - k : (k + 1) + j - 1 = k + j
    BY <1>1
  <2> HIDE DEF k, r
  <2> QED  BY <1>3, <2>1, <2>2, QueueSub
<1>5. \A i \in 1..n : /\ SegmentOK(q[i]) /\ q[i].seqno + TCP_TCPLEN(q[i]) <= hi
                      /\ q[i].seqno \in Nat /\ DataEnd(q[i]) \in Nat
                      /\ DataEnd(q[i]) = q[i].seqno + Len(q[i].data)
                      /\ Len(q[i].data) \in Nat
                      /\ ~q[i].fin => Len(q[i].data) > 0
  BY SegmentFacts DEF QueueOK
<1>6. \A i, j \in 1..n : i < j => ~q[i].fin /\ DataEnd(q[i]) <= q[j].seqno
  BY DEF QueueOK
<1>7. f => k = n /\ DataEnd(seg) = Total + 1 /\ DataEnd(seg) + 1 <= hi
  <2> SUFFICES ASSUME f PROVE k = n /\ DataEnd(seg) = Total + 1 /\ DataEnd(seg) + 1 <= hi
    OBVIOUS
  <2>1. PICK i \in 1..k : q[i].fin
    OBVIOUS
  <2>2. i \in 1..n
    BY <1>1
  <2>3. k = n
    <3>1. k < n => k + 1 \in 1..n /\ i < k + 1
      BY <1>1
    <3> QED  BY <1>1, <1>6, <2>1, <2>2, <3>1
  <2>4. DataEnd(q[i]) = Total + 1 /\ TCP_TCPLEN(q[i]) = Len(q[i].data) + 1
    BY <1>5, <2>1, <2>2, SegmentFacts DEF SegmentOK
  <2>5. DataEnd(seg) = Total + 1
    BY <1>1, <1>2, <2>4, UvlReadAssumption
  <2>6. q[i].seqno + (Len(q[i].data) + 1) <= hi
    BY <1>5, <2>2, <2>4
  <2> QED  BY <1>5, <2>2, <2>3, <2>4, <2>5, <2>6, UvlReadAssumption
<1>8. CASE k < n /\ DataEnd(seg) > q[k + 1].seqno
  <2> DEFINE m == q[k + 1].seqno - seg.seqno
  <2>1. f = FALSE
    BY <1>1, <1>7, <1>8
  <2>2. b = [Cut(seg, m) EXCEPT !.fin = FALSE]
    BY <1>8, <2>1 DEF BeforeQueue
  <2>3. k + 1 \in 1..n
    BY <1>1, <1>8
  <2>4. q[k + 1].seqno > seg.seqno
    <3>1. q[k + 1].seqno >= seg.seqno
      BY <2>3
    <3>2. CASE k = 0
      BY <1>1, <1>2, <1>5, <1>8, <2>3, <3>1, <3>2
    <3>3. CASE k # 0
      <4>1. 1 \in 1..n /\ 1 < k + 1
        BY <1>1, <3>3
      <4>2. ~q[1].fin /\ DataEnd(q[1]) <= q[k + 1].seqno
        BY <1>6, <2>3, <4>1
      <4>3. q[1].seqno >= seg.seqno
        BY <4>1
      <4> QED  BY <1>2, <1>5, <2>3, <4>1, <4>2, <4>3, SMTT(30)
    <3> QED  BY <3>2, <3>3
  <2>5. m \in 1..Len(seg.data) /\ seg.seqno + m = q[k + 1].seqno
    <3>1. q[k + 1].seqno \in Nat
      BY <1>5, <2>3
    <3> HIDE DEF k
    <3> QED  BY <1>2, <1>8, <2>4, <3>1, SMTT(30)
  <2> HIDE DEF b, m
  <2>6. SegmentOK(b) /\ b.seqno = seg.seqno /\ Len(b.data) = m /\ ~b.fin
    BY <2>2, <2>5, CutOK
  <2>7. DataEnd(b) = q[k + 1].seqno /\ TCP_TCPLEN(b) = m
    BY <2>5, <2>6, SegmentFacts
  <2>8. b.seqno + TCP_TCPLEN(b) <= hi /\ Len(b.data) > 0
    BY <1>2, <2>5, <2>6, <2>7
  <2>9. \A j \in 1..n - k : q[k + 1].seqno <= q[k + j].seqno
    <3> TAKE j \in 1..n - k
    <3>1. CASE j = 1
      BY <1>5, <2>3, <3>1
    <3>2. CASE j # 1
      <4>1. k + j \in 1..n /\ k + 1 < k + j
        BY <1>1, <3>2
      <4>2. DataEnd(q[k + 1]) <= q[k + j].seqno
        BY <1>6, <2>3, <4>1
      <4> QED  BY <1>5, <2>3, <4>1, <4>2, SMTT(30)
    <3> QED  BY <3>1, <3>2
  <2> HIDE DEF r
  <2> QED  BY <1>4, <2>6, <2>7, <2>8, <2>9 DEF b, r
<1>9. CASE ~(k < n /\ DataEnd(seg) > q[k + 1].seqno)
  <2>1. b = [seg EXCEPT !.fin = f] /\ f \in BOOLEAN
    BY <1>9 DEF BeforeQueue
  <2> HIDE DEF f, b
  <2>2. SegmentOK(b) /\ b.seqno = seg.seqno /\ b.data = seg.data /\ b.fin = f
    BY <1>7, <2>1, WithFinOK
  <2>3. DataEnd(b) = DataEnd(seg)
    BY <2>2 DEF DataEnd
  <2>4. b.seqno + TCP_TCPLEN(b) <= hi
    <3>1. CASE f
      <4>1. TCP_TCPLEN(b) = Len(seg.data) + 1
        BY <2>2, <3>1, SegmentFacts
      <4> QED  BY <1>2, <1>7, <2>2, <3>1, <4>1
    <3>2. CASE ~f
      <4>1. TCP_TCPLEN(b) = Len(seg.data)
        BY <2>2, <3>2, SegmentFacts
      <4> QED  BY <1>2, <2>2, <4>1
    <3> QED  BY <3>1, <3>2
  <2>5. \A j \in 1..n - k : ~b.fin /\ DataEnd(b) <= q[k + j].seqno
    <3> TAKE j \in 1..n - k
    <3>1. k < n /\ k + 1 \in 1..n /\ k + j \in 1..n
      BY <1>1
    <3>2. ~b.fin
      BY <1>1, <1>7, <2>2, <3>1
    <3>3. DataEnd(seg) <= q[k + 1].seqno
      BY <1>2, <1>5, <1>9, <3>1
    <3>4. CASE j = 1
      BY <2>3, <3>2, <3>3, <3>4
    <3>5. CASE j # 1
      <4>1. k + 1 < k + j
        BY <1>1, <3>5
      <4>2. DataEnd(q[k + 1]) <= q[k + j].seqno
        BY <1>6, <3>1, <4>1
      <4>3. /\ q[k + 1].seqno \in Nat /\ DataEnd(q[k + 1]) \in Nat /\ q[k + j].seqno \in Nat
            /\ DataEnd(q[k + 1]) = q[k + 1].seqno + Len(q[k + 1].data)
            /\ Len(q[k + 1].data) \in Nat
        BY <1>5, <3>1
      <4>4. DataEnd(seg) <= q[k + j].seqno
        <5> HIDE DEF k
        <5>1. q[k + 1].seqno <= DataEnd(q[k + 1])
          BY <4>3
        <5> QED  BY <1>2, <3>3, <4>2, <4>3, <5>1, LeqChain
      <4> QED  BY <2>3, <3>2, <4>4
    <3> QED  BY <3>4, <3>5
  <2> HIDE DEF r
  <2> QED  BY <1>2, <1>4, <2>2, <2>4, <2>5 DEF b, r
<1> QED  BY <1>8, <1>9

\* The same for a segment with or without a FIN, which ends the queue.
LEMMA InsertAnyOK ==
  ASSUME NEW seg, SegmentOK(seg),
         NEW q, NEW lo \in Nat, NEW hi \in Nat, QueueOK(q, lo, hi),
         seg.seqno + TCP_TCPLEN(seg) <= hi,
         \A j \in 1..Len(q) : q[j].seqno >= seg.seqno,
         q # <<>> => q[1].seqno > seg.seqno \/ Len(seg.data) > Len(q[1].data)
  PROVE  LET b == IF seg.fin THEN seg ELSE BeforeQueue(seg, q)
             r == Behind(seg, q)
         IN  /\ SegmentOK(b) /\ b.seqno = seg.seqno /\ b.seqno + TCP_TCPLEN(b) <= hi
             /\ QueueOK(r, lo, hi)
             /\ \A j \in 1..Len(r) : ~b.fin /\ DataEnd(b) <= r[j].seqno
<1> DEFINE b == IF seg.fin THEN seg ELSE BeforeQueue(seg, q)
           r == Behind(seg, q)
<1>1. CASE seg.fin
  <2>1. b = seg /\ r = <<>>
    BY <1>1 DEF Behind
  <2> HIDE DEF b, r
  <2> QED  BY <2>1, QueueSmall DEF b, r
<1>2. CASE ~seg.fin
  BY <1>2, InsertOK
<1> QED  BY <1>1, <1>2

\* tcp_oos_insert_segment yields a queue that begins with the segment.
LEMMA OosInsertOK ==
  ASSUME NEW seg, SegmentOK(seg),
         NEW q, NEW lo \in Nat, NEW hi \in Nat, QueueOK(q, lo, hi),
         seg.seqno >= lo, seg.seqno + TCP_TCPLEN(seg) <= hi,
         \A j \in 1..Len(q) : q[j].seqno >= seg.seqno,
         q # <<>> => q[1].seqno > seg.seqno \/ Len(seg.data) > Len(q[1].data)
  PROVE  LET s == tcp_oos_insert_segment(seg, q)
         IN  QueueOK(s, lo, hi) /\ \A j \in 1..Len(s) : seg.seqno <= s[j].seqno
<1> DEFINE b == IF seg.fin THEN seg ELSE BeforeQueue(seg, q)
           r == Behind(seg, q)
           s == tcp_oos_insert_segment(seg, q)
<1>1. s = <<b>> \o r
  BY DEF tcp_oos_insert_segment
<1>2. /\ SegmentOK(b) /\ b.seqno = seg.seqno /\ b.seqno + TCP_TCPLEN(b) <= hi
      /\ QueueOK(r, lo, hi)
      /\ \A j \in 1..Len(r) : ~b.fin /\ DataEnd(b) <= r[j].seqno
  BY InsertAnyOK
<1> HIDE DEF b, r, s
<1>3. b.seqno >= lo
  BY <1>2
<1>4. QueueOK(<<b>>, lo, hi) /\ Len(<<b>>) = 1 /\ <<b>>[1] = b
  BY <1>2, <1>3, QueueSmall
<1>5. \A i \in 1..1 : i = 1
  OBVIOUS
<1>6. QueueOK(s, lo, hi)
  BY <1>1, <1>2, <1>4, <1>5, QueueConcat
<1>7. /\ r \in Seq(SegmentType) /\ Len(r) \in Nat /\ <<b>> \in Seq(SegmentType)
      /\ Len(s) = Len(r) + 1 /\ s[1] = b
      /\ \A j \in 1..Len(s) : j # 1 => j - 1 \in 1..Len(r) /\ s[j] = r[j - 1]
  <2>1. r \in Seq(SegmentType) /\ Len(r) \in Nat /\ <<b>> \in Seq(SegmentType)
    BY <1>2, <1>4 DEF QueueOK
  <2> QED  BY <1>1, <1>4, <2>1
<1>8. b.seqno \in Nat /\ DataEnd(b) \in Nat /\ b.seqno <= DataEnd(b)
  BY <1>2, SegmentFacts
<1>9. \A j \in 1..Len(r) : b.seqno <= r[j].seqno
  <2> TAKE j \in 1..Len(r)
  <2>1. SegmentOK(r[j])
    BY <1>2 DEF QueueOK
  <2>2. r[j].seqno \in Nat
    BY <2>1, SegmentFacts
  <2>3. DataEnd(b) <= r[j].seqno
    BY <1>2
  <2> QED  BY <1>8, <2>2, <2>3
<1>10. \A j \in 1..Len(s) : b.seqno <= s[j].seqno
  <2> TAKE j \in 1..Len(s)
  <2>1. CASE j = 1
    BY <1>7, <1>8, <2>1
  <2>2. CASE j # 1
    BY <1>7, <1>9, <2>2
  <2> QED  BY <2>1, <2>2
<1> QED  BY <1>2, <1>6, <1>10 DEF s

\* The segments that begin before seqno, cut at seqno.
LEMMA FrontOK ==
  ASSUME NEW q, NEW lo \in Nat, NEW hi \in Nat, QueueOK(q, lo, hi),
         NEW seqno \in Nat, NEW i \in 0..Len(q),
         \A j \in 1..i : q[j].seqno < seqno,
         i > 0 => ~q[i].fin
  PROVE  LET s == Front(q, i, seqno)
         IN  /\ QueueOK(s, lo, hi)
             /\ \A j \in 1..Len(s) : ~s[j].fin /\ DataEnd(s[j]) <= seqno
<1> DEFINE s == Front(q, i, seqno)
<1>1. CASE i = 0
  BY <1>1, QueueSmall DEF Front
<1>2. CASE i > 0
  <2> DEFINE c == IF DataEnd(q[i]) > seqno THEN Cut(q[i], seqno - q[i].seqno) ELSE q[i]
             t == SubSeq(q, 1, i - 1)
  <2>1. s = t \o <<c>>
    BY <1>2 DEF Front
  <2>2. Len(q) \in Nat /\ i \in 1..Len(q) /\ i - 1 \in 0..Len(q) /\ i \in 1..i
    BY <1>2 DEF QueueOK
  <2>3. /\ QueueOK(t, lo, hi) /\ Len(t) = i - 1
        /\ \A j \in 1..i - 1 : t[j] = q[j]
    <3>1. 1 \in 1..Len(q) + 1 /\ 1 <= (i - 1) + 1 /\ (i - 1) - 1 + 1 = i - 1
      BY <2>2
    <3>2. \A j \in 1..i - 1 : 1 + j - 1 = j
      BY <2>2
    <3> HIDE DEF t
    <3> QED  BY <2>2, <3>1, <3>2, QueueSub DEF t
  <2>4. /\ SegmentOK(q[i]) /\ q[i].seqno >= lo /\ q[i].seqno + TCP_TCPLEN(q[i]) <= hi
        /\ ~q[i].fin /\ q[i].seqno < seqno
    BY <1>2, <2>2 DEF QueueOK
  <2>5. /\ q[i].seqno \in Nat /\ Len(q[i].data) \in Nat /\ TCP_TCPLEN(q[i]) = Len(q[i].data)
        /\ DataEnd(q[i]) = q[i].seqno + Len(q[i].data)
    BY <2>4, SegmentFacts
  <2>6. /\ SegmentOK(c) /\ c.seqno = q[i].seqno /\ ~c.fin /\ DataEnd(c) <= seqno
        /\ c.seqno + TCP_TCPLEN(c) <= hi
    <3>1. CASE DataEnd(q[i]) > seqno
      <4> DEFINE m == seqno - q[i].seqno
      <4>1. m \in 1..Len(q[i].data)
        BY <2>4, <2>5, <3>1
      <4>2. c = Cut(q[i], m)
        BY <3>1
      <4> HIDE DEF c
      <4>3. SegmentOK(c) /\ c.seqno = q[i].seqno /\ Len(c.data) = m /\ ~c.fin
        BY <2>4, <4>1, <4>2, CutPlainOK
      <4>4. DataEnd(c) = q[i].seqno + m /\ TCP_TCPLEN(c) = m
        BY <4>3, SegmentFacts
      <4> QED  BY <2>4, <2>5, <3>1, <4>1, <4>3, <4>4, SMTT(30)
    <3>2. CASE ~(DataEnd(q[i]) > seqno)
      <4>1. c = q[i]
        BY <3>2
      <4> HIDE DEF c
      <4> QED  BY <2>4, <2>5, <3>2, <4>1
    <3> QED  BY <3>1, <3>2
  <2> HIDE DEF c, t, s
  <2>7. QueueOK(<<c>>, lo, hi) /\ Len(<<c>>) = 1 /\ <<c>>[1] = c
    BY <2>4, <2>6, QueueSmall
  <2>8. \A j \in 1..1 : j = 1
    OBVIOUS
  <2>9. \A j \in 1..Len(t) : ~t[j].fin /\ DataEnd(t[j]) <= q[i].seqno
    <3> TAKE j \in 1..Len(t)
    <3>1. j \in 1..Len(q) /\ j < i /\ t[j] = q[j]
      BY <2>2, <2>3
    <3> QED  BY <2>2, <3>1 DEF QueueOK
  <2>10. QueueOK(s, lo, hi)
    BY <2>1, <2>3, <2>6, <2>7, <2>8, <2>9, QueueConcat
  <2>11. /\ Len(s) = Len(t) + 1 /\ s[Len(t) + 1] = c
         /\ \A j \in 1..Len(s) : j = Len(t) + 1 \/ (j \in 1..Len(t) /\ s[j] = t[j])
    <3>1. t \in Seq(SegmentType) /\ Len(t) \in Nat /\ <<c>> \in Seq(SegmentType)
      BY <2>3, <2>7 DEF QueueOK
    <3> QED  BY <2>1, <2>7, <3>1
  <2>12. \A j \in 1..Len(t) : DataEnd(t[j]) <= seqno
    <3> TAKE j \in 1..Len(t)
    <3>1. DataEnd(t[j]) \in Nat
      BY <2>3, SegmentFacts DEF QueueOK
    <3> QED  BY <2>4, <2>5, <2>9, <3>1
  <2> QED  BY <2>6, <2>9, <2>10, <2>11, <2>12 DEF s
<1> QED  BY <1>1, <1>2

\* What Place counts.
LEMMA PlaceCount ==
  ASSUME NEW q, NEW lo, NEW hi, QueueOK(q, lo, hi), NEW seqno
  PROVE  LET k == Place(q, seqno)
         IN  /\ k \in 0..Len(q)
             /\ \A j \in 1..k : q[j].seqno < seqno
             /\ k < Len(q) => ~(q[k + 1].seqno < seqno)
<1> DEFINE n == Len(q)
           P == {i \in 1..n : q[i].seqno < seqno}
           k == Place(q, seqno)
<1>1. n \in Nat
  BY DEF QueueOK
<1>2. {m \in 0..n : \A i \in 1..m : i \in P}
        = {m \in 0..n : \A j \in 1..m : q[j].seqno < seqno}
  <2>1. \A m \in 0..n : \A j \in 1..m : j \in 1..n
    BY <1>1
  <2> QED  BY <2>1
<1>3. k = Max({m \in 0..n : \A i \in 1..m : i \in P})
  BY <1>2 DEF Place
<1>4. \A j \in 1..n : j \in P <=> q[j].seqno < seqno
  BY DEF P
<1> HIDE DEF k, P, n
<1>5. k \in 0..n /\ (\A i \in 1..k : i \in P) /\ (k < n => k + 1 \notin P)
  BY <1>1, <1>3, LongestPrefix
<1>6. \A j \in 1..k : q[j].seqno < seqno
  <2>1. \A j \in 1..k : j \in 1..n
    BY <1>1, <1>5
  <2> QED  BY <1>4, <1>5, <2>1
<1>7. k < n => k + 1 \in 1..n
  BY <1>1, <1>5
<1>8. k < n => ~(q[k + 1].seqno < seqno)
  BY <1>4, <1>5, <1>7
<1> QED  BY <1>5, <1>6, <1>8 DEF k, n

\* The segments from there on begin at seqno or later.
LEMMA PlaceFacts ==
  ASSUME NEW q, NEW lo, NEW hi, QueueOK(q, lo, hi), NEW seqno \in Nat
  PROVE  LET i == Place(q, seqno)
         IN  /\ i \in 0..Len(q)
             /\ \A j \in 1..i : q[j].seqno < seqno
             /\ \A j \in 1..Len(q) : j > i => q[j].seqno >= seqno
<1> DEFINE n == Len(q)
           k == Place(q, seqno)
<1>1. n \in Nat
  BY DEF QueueOK
<1>5. /\ k \in 0..n
      /\ \A j \in 1..k : q[j].seqno < seqno
      /\ k < n => ~(q[k + 1].seqno < seqno)
  BY PlaceCount
<1> HIDE DEF k, n
<1>7. ASSUME NEW j \in 1..n, j > k PROVE q[j].seqno >= seqno
  <2>1. k + 1 \in 1..n /\ k < n
    BY <1>1, <1>5, <1>7
  <2>2. ~(q[k + 1].seqno < seqno)
    BY <1>5, <2>1
  <2>3. SegmentOK(q[j]) /\ SegmentOK(q[k + 1])
    BY <2>1 DEF QueueOK, n
  <2>4. q[j].seqno \in Nat /\ q[k + 1].seqno \in Nat /\ DataEnd(q[k + 1]) \in Nat
        /\ q[k + 1].seqno <= DataEnd(q[k + 1])
    BY <2>3, SegmentFacts
  <2>5. CASE j = k + 1
    BY <2>2, <2>4, <2>5
  <2>6. CASE j # k + 1
    <3>1. k + 1 < j
      BY <1>1, <1>5, <1>7, <2>6
    <3>2. DataEnd(q[k + 1]) <= q[j].seqno
      BY <2>1, <3>1 DEF QueueOK, n
    <3> QED  BY <2>2, <2>4, <3>2
  <2> QED  BY <2>5, <2>6
<1> QED  BY <1>5, <1>7 DEF k, n

\* tcp_receive puts a segment that is out of sequence into ooseq, and ooseq
\* stays in order, disjoint and within the window.
LEMMA QueuedOK ==
  ASSUME NEW p, NEW lo \in Nat, NEW hi \in Nat, QueueOK(p.ooseq, lo, hi),
         p.rcv_nxt \in Nat, p.rcv_wnd \in Nat, hi = p.rcv_nxt + p.rcv_wnd,
         NEW seg, SegmentOK(seg), seg.seqno >= lo, seg.seqno + TCP_TCPLEN(seg) <= hi
  PROVE  QueueOK(Queued(p, seg), lo, hi)
<1> DEFINE q == p.ooseq
           n == Len(q)
           i == Place(q, seg.seqno)
           next == SubSeq(q, i + 1, n)
           ins == tcp_oos_insert_segment(seg, next)
           fr == Front(q, i, seg.seqno)
<1>1. n \in Nat /\ seg.seqno \in Nat /\ TCP_TCPLEN(seg) \in Nat
  BY SegmentFacts DEF QueueOK
<1>2. /\ i \in 0..n
      /\ \A j \in 1..i : q[j].seqno < seg.seqno
      /\ \A j \in 1..n : j > i => q[j].seqno >= seg.seqno
  BY <1>1, PlaceFacts
<1>3. TrimToWindow(p, seg) = seg
  BY <1>1 DEF TrimToWindow
<1>4. Queued(p, seg) =
        IF n = 0 THEN <<seg>>
        ELSE IF i < n /\ q[i + 1].seqno = seg.seqno
        THEN IF Len(seg.data) > Len(q[i + 1].data) THEN SubSeq(q, 1, i) \o ins ELSE q
        ELSE IF i < n THEN fr \o ins
        ELSE IF q[n].fin THEN q
        ELSE Append(Front(q, n, seg.seqno), seg)
  BY <1>3 DEF Queued
<1> HIDE DEF i
<1>5. /\ QueueOK(next, lo, hi) /\ Len(next) = n - i
      /\ \A j \in 1..n - i : next[j] = q[i + j]
  <2>1. i + 1 \in 1..n + 1 /\ n \in 0..n /\ i + 1 <= n + 1 /\ n - (i + 1) + 1 = n - i
        /\ \A j \in 1..n - i : (i + 1) + j - 1 = i + j
    BY <1>1, <1>2
  <2> HIDE DEF next
  <2> QED  BY <2>1, QueueSub, SMTT(30) DEF next
<1>6. \A j \in 1..Len(next) : next[j].seqno >= seg.seqno
  <2> TAKE j \in 1..Len(next)
  <2>1. i + j \in 1..n /\ i + j > i /\ j \in 1..n - i
    BY <1>1, <1>2, <1>5
  <2> QED  BY <1>2, <1>5, <2>1
<1>7. ASSUME i < n, q[i + 1].seqno = seg.seqno => Len(seg.data) > Len(q[i + 1].data)
      PROVE  QueueOK(ins, lo, hi) /\ \A j \in 1..Len(ins) : seg.seqno <= ins[j].seqno
  <2>1. 1 \in 1..n - i /\ i + 1 \in 1..n /\ next[1] = q[i + 1] /\ i + 1 > i
    BY <1>1, <1>2, <1>5, <1>7, SMTT(30)
  <2>2. SegmentOK(q[i + 1])
    BY <2>1 DEF QueueOK
  <2>3. q[i + 1].seqno \in Nat /\ q[i + 1].seqno >= seg.seqno
    BY <1>2, <2>1, <2>2, SegmentFacts, SMTT(30)
  <2>4. q[i + 1].seqno > seg.seqno \/ Len(seg.data) > Len(q[i + 1].data)
    BY <1>1, <1>7, <2>3
  <2> HIDE DEF next, q
  <2> QED  BY <1>5, <1>6, <2>1, <2>4, OosInsertOK
<1>8. ASSUME NEW f, QueueOK(f, lo, hi), NEW g, QueueOK(g, lo, hi),
             \A j \in 1..Len(f) : ~f[j].fin /\ DataEnd(f[j]) <= seg.seqno,
             \A j \in 1..Len(g) : seg.seqno <= g[j].seqno
      PROVE  QueueOK(f \o g, lo, hi)
  <2>1. ASSUME NEW j \in 1..Len(f), NEW k \in 1..Len(g)
        PROVE  ~f[j].fin /\ DataEnd(f[j]) <= g[k].seqno
    <3>1. SegmentOK(f[j]) /\ SegmentOK(g[k])
      BY <1>8 DEF QueueOK
    <3>2. DataEnd(f[j]) \in Nat /\ g[k].seqno \in Nat
      BY <3>1, SegmentFacts
    <3>3. DataEnd(f[j]) <= seg.seqno /\ seg.seqno <= g[k].seqno /\ ~f[j].fin
      BY <1>8
    <3> QED  BY <1>1, <3>2, <3>3
  <2> QED  BY <1>8, <2>1, QueueConcat
<1> HIDE DEF ins, fr, next
<1>9. CASE n = 0
  BY <1>4, <1>9, QueueSmall
<1>10. CASE i < n /\ q[i + 1].seqno = seg.seqno
  <2>1. n # 0 /\ i + 1 \in 1..n
    BY <1>1, <1>2, <1>10
  <2>2. CASE Len(seg.data) > Len(q[i + 1].data)
    <3> DEFINE f == SubSeq(q, 1, i)
    <3>1. /\ QueueOK(f, lo, hi) /\ Len(f) = i
          /\ \A j \in 1..i : f[j] = q[j]
      <4>1. 1 \in 1..n + 1 /\ 1 <= i + 1 /\ i - 1 + 1 = i /\ \A j \in 1..i : 1 + j - 1 = j
        BY <1>1, <1>2
      <4> HIDE DEF f
      <4> QED  BY <1>2, <4>1, QueueSub DEF f
    <3>2. \A j \in 1..Len(f) : ~f[j].fin /\ DataEnd(f[j]) <= seg.seqno
      <4> TAKE j \in 1..Len(f)
      <4>1. j \in 1..n /\ j < i + 1 /\ f[j] = q[j]
        BY <1>1, <1>2, <3>1
      <4> QED  BY <1>10, <2>1, <4>1 DEF QueueOK
    <3>3. Queued(p, seg) = f \o ins
      BY <1>4, <1>10, <2>1, <2>2
    <3> HIDE DEF f
    <3>4. QueueOK(ins, lo, hi) /\ \A j \in 1..Len(ins) : seg.seqno <= ins[j].seqno
      BY <1>7, <1>10, <2>2
    <3>5. QueueOK(f \o ins, lo, hi)
      BY <1>8, <3>1, <3>2, <3>4
    <3> QED  BY <3>3, <3>5
  <2>3. CASE ~(Len(seg.data) > Len(q[i + 1].data))
    BY <1>4, <1>10, <2>1, <2>3
  <2> QED  BY <2>2, <2>3
<1>11. CASE i < n /\ q[i + 1].seqno # seg.seqno
  <2>1. n # 0 /\ i + 1 \in 1..n
    BY <1>1, <1>2, <1>11
  <2>2. i > 0 => ~q[i].fin
    <3> SUFFICES ASSUME i > 0 PROVE ~q[i].fin
      OBVIOUS
    <3>1. i \in 1..n /\ i < i + 1
      BY <1>1, <1>2
    <3> QED  BY <2>1, <3>1 DEF QueueOK
  <2>3. QueueOK(fr, lo, hi) /\ \A j \in 1..Len(fr) : ~fr[j].fin /\ DataEnd(fr[j]) <= seg.seqno
    <3> HIDE DEF q
    <3> QED  BY <1>1, <1>2, <2>2, FrontOK DEF fr, q
  <2>4. QueueOK(ins, lo, hi) /\ \A j \in 1..Len(ins) : seg.seqno <= ins[j].seqno
    BY <1>7, <1>11
  <2>5. Queued(p, seg) = fr \o ins
    BY <1>4, <1>11, <2>1
  <2> QED  BY <1>8, <2>3, <2>4, <2>5
<1>12. CASE n # 0 /\ ~(i < n)
  <2>1. i = n
    BY <1>1, <1>2, <1>12
  <2>2. CASE q[n].fin
    BY <1>4, <1>12, <2>2
  <2>3. CASE ~q[n].fin
    <3>1. QueueOK(fr, lo, hi) /\ \A j \in 1..Len(fr) : ~fr[j].fin /\ DataEnd(fr[j]) <= seg.seqno
      <4>1. i > 0 => ~q[i].fin
        BY <2>1, <2>3
      <4> HIDE DEF q
      <4> QED  BY <1>1, <1>2, <4>1, FrontOK DEF fr, q
    <3>2. Queued(p, seg) = Append(fr, seg)
      BY <1>4, <1>12, <2>1, <2>3 DEF fr
    <3>3. Append(fr, seg) = fr \o <<seg>>
      <4>1. fr \in Seq(SegmentType) /\ seg \in SegmentType
        BY <3>1 DEF QueueOK, SegmentOK, SegmentType
      <4> QED  BY <4>1
    <3>4. QueueOK(<<seg>>, lo, hi) /\ Len(<<seg>>) = 1 /\ <<seg>>[1] = seg
      BY QueueSmall
    <3>5. \A j \in 1..Len(<<seg>>) : seg.seqno <= <<seg>>[j].seqno
      <4>1. \A j \in 1..1 : j = 1
        OBVIOUS
      <4> QED  BY <1>1, <3>4, <4>1
    <3> QED  BY <1>8, <3>1, <3>2, <3>3, <3>4, <3>5
  <2> QED  BY <2>2, <2>3
<1> QED  BY <1>9, <1>10, <1>11, <1>12

-----------------------------------------------------------------------------
(* The pcb *)

States == {"ESTABLISHED", "CLOSE_WAIT", "LAST_ACK", "FIN_WAIT_1", "FIN_WAIT_2",
           "CLOSING", "TIME_WAIT", "RESET", "GONE"}

Pcb ==
  [state : States, rcv_nxt : Nat, rcv_wnd : Nat, rcv_ann_wnd : Nat,
   rcv_ann_right_edge : Nat, ooseq : Seq(SegmentType), delay : BOOLEAN, now : BOOLEAN,
   rxclosed : BOOLEAN, refused_data : Seq(Bytes),
   recv_data : Seq(Bytes), got_fin : BOOLEAN, out : [ackno : Nat, edge : Nat]]

\* What is announced is not less than before and not more than there is.
Announced(p) ==
  p.rcv_ann_right_edge <= p.rcv_nxt + p.rcv_ann_wnd /\ p.rcv_ann_wnd <= p.rcv_wnd

\* What tcp_receive leaves alone when it takes data.
SameRest(q, p) ==
  /\ q.state = p.state /\ q.rcv_ann_right_edge = p.rcv_ann_right_edge
  /\ q.delay = p.delay /\ q.now = p.now /\ q.rxclosed = p.rxclosed
  /\ q.refused_data = p.refused_data /\ q.out = p.out

\* tcp_update_rcv_ann_wnd changes one field, and what it puts there is sound
\* as long as the announced edge is not beyond the window.
LEMMA UpdateOK ==
  ASSUME NEW p \in Pcb, p.rcv_ann_right_edge <= p.rcv_nxt + p.rcv_wnd
  PROVE  LET q == tcp_update_rcv_ann_wnd(p)
         IN  /\ q \in Pcb /\ Announced(q) /\ SameRest(q, p)
             /\ q.rcv_nxt = p.rcv_nxt /\ q.rcv_wnd = p.rcv_wnd /\ q.ooseq = p.ooseq
             /\ q.recv_data = p.recv_data /\ (q.got_fin <=> p.got_fin)
<1> DEFINE w == IF MayAnnounce(p) THEN p.rcv_wnd
                ELSE IF p.rcv_nxt > p.rcv_ann_right_edge THEN 0
                ELSE p.rcv_ann_right_edge - p.rcv_nxt
           q == tcp_update_rcv_ann_wnd(p)
<1>1. p.rcv_nxt \in Nat /\ p.rcv_wnd \in Nat /\ p.rcv_ann_right_edge \in Nat
  BY DEF Pcb
<1>2. q = [p EXCEPT !.rcv_ann_wnd = w]
  BY DEF tcp_update_rcv_ann_wnd
<1>3. w \in Nat /\ w <= p.rcv_wnd /\ p.rcv_ann_right_edge <= p.rcv_nxt + w
  <2>1. CASE MayAnnounce(p)
    BY <1>1, <2>1
  <2>2. CASE ~MayAnnounce(p)
    BY <1>1, <2>2
  <2> QED  BY <2>1, <2>2
<1> HIDE DEF w, q
<1>4. /\ q.rcv_ann_wnd = w /\ q.state = p.state /\ q.rcv_ann_right_edge = p.rcv_ann_right_edge
      /\ q.delay = p.delay /\ q.now = p.now /\ q.rxclosed = p.rxclosed
      /\ q.refused_data = p.refused_data /\ q.out = p.out
      /\ q.rcv_nxt = p.rcv_nxt /\ q.rcv_wnd = p.rcv_wnd /\ q.ooseq = p.ooseq
      /\ q.recv_data = p.recv_data /\ (q.got_fin <=> p.got_fin)
  BY <1>2 DEF Pcb
<1>5. q \in Pcb
  BY <1>2, <1>3 DEF Pcb
<1>6. Announced(q) /\ SameRest(q, p)
  BY <1>3, <1>4 DEF Announced, SameRest
<1> QED  BY <1>4, <1>5, <1>6 DEF q

\* The pcb in Take before the window to announce is updated.
Taken(p, n, w, d, f) ==
  [p EXCEPT !.rcv_nxt = n, !.rcv_wnd = w, !.recv_data = d, !.got_fin = f]

\* What it holds.
LEMMA TakePcb ==
  ASSUME NEW p \in Pcb, NEW n \in Nat, NEW w \in Nat, NEW d \in Seq(Bytes), NEW f \in BOOLEAN
  PROVE  LET q == Taken(p, n, w, d, f)
         IN  /\ q \in Pcb /\ SameRest(q, p) /\ q.ooseq = p.ooseq
             /\ q.rcv_nxt = n /\ q.rcv_wnd = w /\ q.recv_data = d /\ (q.got_fin <=> f)
<1> DEFINE r == [p EXCEPT !.rcv_nxt = n, !.rcv_wnd = w]
           q == Taken(p, n, w, d, f)
<1>1. r \in Pcb /\ r.rcv_nxt = n /\ r.rcv_wnd = w /\ r.ooseq = p.ooseq
  BY DEF Pcb
<1>2. SameRest(r, p)
  BY DEF Pcb, SameRest
<1>3. q = [r EXCEPT !.recv_data = d, !.got_fin = f]
  BY DEF Taken
<1> HIDE DEF r, q
<1>4. /\ q \in Pcb /\ q.recv_data = d /\ q.got_fin = f /\ q.ooseq = r.ooseq
      /\ q.rcv_nxt = r.rcv_nxt /\ q.rcv_wnd = r.rcv_wnd
  BY <1>1, <1>3 DEF Pcb
<1>5. SameRest(q, r)
  BY <1>1, <1>3 DEF Pcb, SameRest
<1>6. SameRest(q, p)
  BY <1>2, <1>5 DEF SameRest
<1> QED  BY <1>1, <1>4, <1>6 DEF q

\* A pcb with another ooseq.
LEMMA OoseqPcb ==
  ASSUME NEW p \in Pcb, NEW s \in Seq(SegmentType)
  PROVE  LET q == [p EXCEPT !.ooseq = s]
         IN  /\ q \in Pcb /\ SameRest(q, p) /\ q.ooseq = s
             /\ q.rcv_nxt = p.rcv_nxt /\ q.rcv_wnd = p.rcv_wnd
             /\ q.rcv_ann_wnd = p.rcv_ann_wnd
             /\ q.recv_data = p.recv_data /\ (q.got_fin <=> p.got_fin)
<1> DEFINE q == [p EXCEPT !.ooseq = s]
<1>1. /\ q \in Pcb /\ q.ooseq = s
      /\ q.rcv_nxt = p.rcv_nxt /\ q.rcv_wnd = p.rcv_wnd /\ q.rcv_ann_wnd = p.rcv_ann_wnd
      /\ q.recv_data = p.recv_data /\ (q.got_fin <=> p.got_fin)
  BY DEF Pcb
<1>2. SameRest(q, p)
  BY DEF Pcb, SameRest
<1> QED  BY <1>1, <1>2

\* recv_data is what was received from base on, up to rcv_nxt; behind a FIN
\* there is nothing.
Received(p, base) ==
  /\ p.recv_data = Run(base, Len(p.recv_data))
  /\ base + Len(p.recv_data) <= Total + 1
  /\ ~p.got_fin => p.rcv_nxt = base + Len(p.recv_data)
  /\ p.got_fin => /\ p.rcv_nxt = Total + 2 /\ base + Len(p.recv_data) = Total + 1
                  /\ p.ooseq = <<>>

\* A segment at rcv_nxt that fits the window, and that ends with a FIN only if
\* nothing waits, is taken.
LEMMA TakeOK ==
  ASSUME NEW p \in Pcb, NEW base \in Nat, base >= 1,
         p.rcv_ann_right_edge <= p.rcv_nxt + p.rcv_wnd,
         p.recv_data = Run(base, Len(p.recv_data)),
         ~p.got_fin, p.rcv_nxt = base + Len(p.recv_data),
         NEW seg, SegmentOK(seg), seg.seqno = p.rcv_nxt, TCP_TCPLEN(seg) <= p.rcv_wnd,
         seg.fin => p.ooseq = <<>>
  PROVE  LET q == Take(p, seg)
         IN  /\ q \in Pcb /\ Announced(q) /\ SameRest(q, p) /\ Received(q, base)
             /\ q.rcv_nxt = seg.seqno + TCP_TCPLEN(seg)
             /\ q.rcv_nxt + q.rcv_wnd = p.rcv_nxt + p.rcv_wnd
             /\ q.ooseq = p.ooseq /\ (q.got_fin <=> seg.fin)
             /\ Len(q.recv_data) = Len(p.recv_data) + Len(seg.data)
<1> DEFINE l == TCP_TCPLEN(seg)
           d == p.recv_data \o seg.data
           r == [p EXCEPT !.rcv_nxt = @ + TCP_TCPLEN(seg), !.rcv_wnd = @ - TCP_TCPLEN(seg),
                          !.recv_data = @ \o seg.data, !.got_fin = @ \/ seg.fin]
           q == Take(p, seg)
<1>1. /\ p.rcv_nxt \in Nat /\ p.rcv_wnd \in Nat /\ p.rcv_ann_right_edge \in Nat
      /\ p.recv_data \in Seq(Bytes) /\ p.got_fin \in BOOLEAN /\ Len(p.recv_data) \in Nat
  BY DEF Pcb
<1>2. /\ seg.fin \in BOOLEAN /\ seg.data \in Seq(Bytes) /\ Len(seg.data) \in Nat
      /\ seg.data = Run(seg.seqno, Len(seg.data))
      /\ seg.seqno + Len(seg.data) <= Total + 1
      /\ seg.fin => seg.seqno + Len(seg.data) = Total + 1
  BY DEF SegmentOK, DataEnd
<1>3. l \in Nat /\ (seg.fin => l = Len(seg.data) + 1) /\ (~seg.fin => l = Len(seg.data))
  BY SegmentFacts
<1>4. /\ d = Run(base, Len(p.recv_data) + Len(seg.data))
      /\ base + (Len(p.recv_data) + Len(seg.data)) <= Total + 1
      /\ d \in Seq(Bytes) /\ Len(d) = Len(p.recv_data) + Len(seg.data)
  <2> DEFINE a == Len(p.recv_data)
             b == Len(seg.data)
  <2>1. a \in Nat /\ b \in Nat /\ p.recv_data = Run(base, a) /\ seg.data = Run(base + a, b)
        /\ (base + a) + b <= Total + 1
    BY <1>1, <1>2
  <2> HIDE DEF a, b
  <2>2. d = Run(base, a) \o Run(base + a, b)
    BY <2>1
  <2>3. d = Run(base, a + b)
    BY <2>1, <2>2, RunConcat
  <2>4. a + b \in Nat /\ base + (a + b) <= Total + 1
    BY <2>1, UvlReadAssumption
  <2>5. Run(base, a + b) \in Seq(Bytes) /\ Len(Run(base, a + b)) = a + b
    BY <2>4, RunBytes
  <2>6. d \in Seq(Bytes) /\ Len(d) = a + b
    BY <2>3, <2>5
  <2> QED  BY <2>3, <2>4, <2>6 DEF a, b
<1>7. (p.got_fin \/ seg.fin) = seg.fin
  BY <1>1, <1>2
<1>8. p.rcv_nxt + l \in Nat /\ p.rcv_wnd - l \in Nat
  BY <1>1, <1>3
<1>9. r = Taken(p, p.rcv_nxt + l, p.rcv_wnd - l, d, seg.fin)
  BY <1>7 DEF Taken
<1>10. q = tcp_update_rcv_ann_wnd(r)
  BY DEF Take
<1> HIDE DEF l, d, r, q
<1>11. /\ r \in Pcb /\ SameRest(r, p) /\ r.ooseq = p.ooseq
       /\ r.rcv_nxt = p.rcv_nxt + l /\ r.rcv_wnd = p.rcv_wnd - l
       /\ r.recv_data = d /\ (r.got_fin <=> seg.fin)
  <2> DEFINE n == p.rcv_nxt + l
             w == p.rcv_wnd - l
             t == Taken(p, n, w, d, seg.fin)
  <2>1. n \in Nat /\ w \in Nat /\ seg.fin \in BOOLEAN /\ d \in Seq(Bytes)
    BY <1>2, <1>4, <1>8
  <2>2. r = t
    BY <1>9
  <2> HIDE DEF n, w
  <2>3. t \in Pcb
    BY <2>1, TakePcb
  <2>4. SameRest(t, p)
    BY <2>1, TakePcb
  <2>5. t.got_fin <=> seg.fin
    BY <2>1, TakePcb
  <2>6. t.rcv_nxt = n /\ t.rcv_wnd = w /\ t.recv_data = d /\ t.ooseq = p.ooseq
    BY <2>1, TakePcb
  <2> QED  BY <2>2, <2>3, <2>4, <2>5, <2>6 DEF n, w
<1>12. r.rcv_ann_right_edge = p.rcv_ann_right_edge
  BY <1>11 DEF SameRest
<1>13. r.rcv_nxt + r.rcv_wnd = p.rcv_nxt + p.rcv_wnd
  BY <1>1, <1>3, <1>11 DEF l
<1>14. /\ q \in Pcb /\ Announced(q) /\ SameRest(q, r)
       /\ q.rcv_nxt = r.rcv_nxt /\ q.rcv_wnd = r.rcv_wnd /\ q.ooseq = r.ooseq
       /\ q.recv_data = r.recv_data /\ (q.got_fin <=> r.got_fin)
  BY <1>10, <1>11, <1>12, <1>13, UpdateOK
<1>15. SameRest(q, p)
  BY <1>11, <1>14 DEF SameRest
<1>16. q.recv_data = d /\ (q.got_fin <=> seg.fin) /\ q.ooseq = p.ooseq /\ q.rcv_nxt = p.rcv_nxt + l
  BY <1>11, <1>14
<1>17. Received(q, base)
  <2>1. q.recv_data = Run(base, Len(q.recv_data)) /\ base + Len(q.recv_data) <= Total + 1
        /\ Len(q.recv_data) = Len(p.recv_data) + Len(seg.data)
    BY <1>4, <1>16
  <2>2. CASE seg.fin
    <3>1. q.rcv_nxt = Total + 2 /\ base + Len(q.recv_data) = Total + 1 /\ q.ooseq = <<>>
      <4> DEFINE a == Len(p.recv_data)
                 b == Len(seg.data)
      <4>1. /\ a \in Nat /\ b \in Nat /\ l = b + 1 /\ q.rcv_nxt = (base + a) + l
            /\ (base + a) + b = Total + 1 /\ Len(q.recv_data) = a + b
        BY <1>1, <1>2, <1>3, <1>16, <2>1, <2>2
      <4> HIDE DEF a, b
      <4>2. q.rcv_nxt = Total + 2 /\ base + Len(q.recv_data) = Total + 1
        BY <4>1, UvlReadAssumption, SMTT(30)
      <4> QED  BY <1>16, <2>2, <4>2
    <3> QED  BY <1>16, <2>1, <2>2, <3>1 DEF Received
  <2>3. CASE ~seg.fin
    <3>1. q.rcv_nxt = base + Len(q.recv_data)
      <4> DEFINE a == Len(p.recv_data)
                 b == Len(seg.data)
      <4>1. a \in Nat /\ b \in Nat /\ q.rcv_nxt = (base + a) + b /\ Len(q.recv_data) = a + b
        BY <1>1, <1>2, <1>3, <1>16, <2>1, <2>3
      <4> HIDE DEF a, b
      <4> QED  BY <4>1
    <3> QED  BY <1>16, <2>1, <2>3, <3>1 DEF Received
  <2> QED  BY <2>2, <2>3
<1> QED  BY <1>4, <1>13, <1>14, <1>15, <1>16, <1>17 DEF q, l

-----------------------------------------------------------------------------
(* The loop over ooseq *)

\* A queue that begins later than it must.
LEMMA QueueRaise ==
  ASSUME NEW q, NEW lo, NEW hi, QueueOK(q, lo, hi), NEW l,
         \A j \in 1..Len(q) : q[j].seqno >= l
  PROVE  QueueOK(q, l, hi)
BY DEF QueueOK

\* The invariant of the loop: p is the pcb now, p0 the one at its start.
Loop(p, p0, base, right) ==
  /\ p \in Pcb /\ SameRest(p, p0) /\ Announced(p) /\ Received(p, base)
  /\ p.rcv_nxt + p.rcv_wnd = right
  /\ QueueOK(p.ooseq, p.rcv_nxt, right)

Ready(p) == p.ooseq # <<>> /\ Head(p.ooseq).seqno = p.rcv_nxt

\* One turn of the loop.
LEMMA DequeueOK ==
  ASSUME NEW p, NEW p0, NEW base \in Nat, base >= 1, NEW right \in Nat,
         Loop(p, p0, base, right)
  PROVE  LET q == Dequeue(p)
         IN  /\ Loop(q, p0, base, right)
             /\ ~Ready(p) => q = p
             /\ Ready(p) => Len(q.ooseq) = Len(p.ooseq) - 1
<1>1. CASE ~Ready(p)
  <2>1. Dequeue(p) = p
    BY <1>1 DEF Dequeue, Ready
  <2> QED  BY <1>1, <2>1
<1>2. CASE Ready(p)
  <2> DEFINE o == p.ooseq
             h == o[1]
             t == SubSeq(o, 2, Len(o))
             r == [p EXCEPT !.ooseq = t]
             q == Dequeue(p)
  <2>1. /\ p \in Pcb /\ Announced(p) /\ Received(p, base) /\ SameRest(p, p0)
        /\ p.rcv_nxt + p.rcv_wnd = right /\ QueueOK(o, p.rcv_nxt, right)
        /\ o \in Seq(SegmentType)
    BY DEF Loop, QueueOK
  <2>2. Len(o) \in Nat /\ Len(o) >= 1 /\ 1 \in 1..Len(o) /\ h.seqno = p.rcv_nxt /\ o # <<>>
        /\ Head(o) = h /\ Tail(o) = t
    <3>1. o # <<>> /\ Head(o).seqno = p.rcv_nxt
      BY <1>2 DEF Ready
    <3>2. Len(o) \in Nat /\ Len(o) # 0
      BY <2>1, <3>1
    <3>3. Head(o) = o[1]
      BY <2>1, <3>1
    <3>4. Tail(o) = SubSeq(o, 2, Len(o))
      BY <2>1, <3>1, <3>2
    <3> QED  BY <3>1, <3>2, <3>3, <3>4
  <2>3. q = Take(r, h)
    BY <1>2, <2>2 DEF Dequeue, Ready
  <2>4. /\ QueueOK(t, p.rcv_nxt, right) /\ Len(t) = Len(o) - 1
        /\ \A j \in 1..Len(t) : j + 1 \in 1..Len(o) /\ t[j] = o[j + 1]
    <3>1. 2 \in 1..Len(o) + 1 /\ Len(o) \in 0..Len(o) /\ 2 <= Len(o) + 1
          /\ Len(o) - 2 + 1 = Len(o) - 1
          /\ \A j \in 1..Len(o) - 1 : 2 + j - 1 = j + 1 /\ j + 1 \in 1..Len(o)
      BY <2>2
    <3> HIDE DEF o, t
    <3> QED  BY <2>1, <3>1, QueueSub DEF t
  <2>5. SegmentOK(h) /\ h.seqno + TCP_TCPLEN(h) <= right
    BY <2>1, <2>2 DEF QueueOK
  <2>6. \A j \in 1..Len(t) : ~h.fin /\ DataEnd(h) <= t[j].seqno
    <3> TAKE j \in 1..Len(t)
    <3>1. j + 1 \in 1..Len(o) /\ t[j] = o[j + 1] /\ 1 < j + 1
      BY <2>4
    <3> QED  BY <2>1, <2>2, <3>1 DEF QueueOK
  <2>7. t \in Seq(SegmentType) /\ Len(t) \in Nat
    BY <2>4 DEF QueueOK
  <2>8. h.fin => t = <<>>
    <3> SUFFICES ASSUME h.fin PROVE t = <<>>
      OBVIOUS
    <3>1. Len(t) = 0
      <4>1. 1 \notin 1..Len(t)
        BY <2>6
      <4> QED  BY <2>7, <4>1
    <3> HIDE DEF t
    <3> QED  BY <2>7, <3>1
  <2> HIDE DEF o, h, t
  <2>9. /\ r \in Pcb /\ SameRest(r, p) /\ r.ooseq = t
        /\ r.rcv_nxt = p.rcv_nxt /\ r.rcv_wnd = p.rcv_wnd
        /\ r.recv_data = p.recv_data /\ (r.got_fin <=> p.got_fin)
    BY <2>1, <2>7, OoseqPcb
  <2> HIDE DEF r, q
  <2>10. ~p.got_fin
    BY <2>1, <2>2 DEF Received, o
  <2>11. /\ p.rcv_nxt \in Nat /\ p.rcv_wnd \in Nat /\ p.rcv_ann_wnd \in Nat
         /\ p.rcv_ann_right_edge \in Nat
    BY <2>1 DEF Pcb
  <2>12. r.rcv_ann_right_edge <= r.rcv_nxt + r.rcv_wnd
    <3>1. r.rcv_ann_right_edge = p.rcv_ann_right_edge
      BY <2>9 DEF SameRest
    <3>2. p.rcv_ann_right_edge <= p.rcv_nxt + p.rcv_ann_wnd /\ p.rcv_ann_wnd <= p.rcv_wnd
      BY <2>1 DEF Announced
    <3> QED  BY <2>9, <2>11, <3>1, <3>2
  <2>13. /\ r.recv_data = Run(base, Len(r.recv_data)) /\ ~r.got_fin
         /\ r.rcv_nxt = base + Len(r.recv_data)
    BY <2>1, <2>9, <2>10 DEF Received
  <2>14. h.seqno \in Nat /\ TCP_TCPLEN(h) \in Nat /\ (~h.fin => DataEnd(h) = h.seqno + TCP_TCPLEN(h))
    BY <2>5, SegmentFacts
  <2>15. h.seqno = r.rcv_nxt /\ TCP_TCPLEN(h) <= r.rcv_wnd /\ (h.fin => r.ooseq = <<>>)
    BY <2>1, <2>2, <2>5, <2>8, <2>9, <2>11, <2>14
  <2>16. /\ q \in Pcb /\ Announced(q) /\ SameRest(q, r) /\ Received(q, base)
         /\ q.rcv_nxt = h.seqno + TCP_TCPLEN(h)
         /\ q.rcv_nxt + q.rcv_wnd = r.rcv_nxt + r.rcv_wnd
         /\ q.ooseq = r.ooseq
    BY <2>3, <2>5, <2>9, <2>12, <2>13, <2>15, TakeOK
  <2>17. SameRest(q, p0)
    BY <2>1, <2>9, <2>16 DEF SameRest
  <2>18. QueueOK(q.ooseq, q.rcv_nxt, right)
    <3>1. \A j \in 1..Len(t) : t[j].seqno >= q.rcv_nxt
      <4> TAKE j \in 1..Len(t)
      <4>1. SegmentOK(t[j])
        BY <2>4 DEF QueueOK
      <4>2. t[j].seqno \in Nat
        BY <4>1, SegmentFacts
      <4> QED  BY <2>6, <2>14, <2>16, <4>2
    <3>2. QueueOK(t, q.rcv_nxt, right)
      BY <2>4, <3>1, QueueRaise
    <3> QED  BY <2>9, <2>16, <3>2
  <2>19. Loop(q, p0, base, right)
    BY <2>1, <2>9, <2>16, <2>17, <2>18 DEF Loop
  <2>20. Len(q.ooseq) = Len(p.ooseq) - 1
    BY <2>4, <2>9, <2>16 DEF o
  <2> QED  BY <1>2, <2>19, <2>20 DEF q
<1> QED  BY <1>1, <1>2

\* The recursive function of DequeueAll exists.
LEMMA AfterDef ==
  ASSUME NEW p, NEW N \in Nat
  PROVE  \E g : g = [n \in 0..N |-> IF n = 0 THEN p ELSE Dequeue(g[n - 1])]
<1> DEFINE S == {m \in Nat : \E g : g = [n \in 0..m |-> IF n = 0 THEN p ELSE Dequeue(g[n - 1])]}
<1>1. 0 \in S
  <2> DEFINE g == [n \in 0..0 |-> p]
  <2>1. g = [n \in 0..0 |-> IF n = 0 THEN p ELSE Dequeue(g[n - 1])]
    OBVIOUS
  <2> QED  BY <2>1
<1>2. ASSUME NEW m \in Nat, m \in S PROVE m + 1 \in S
  <2>1. PICK g : g = [n \in 0..m |-> IF n = 0 THEN p ELSE Dequeue(g[n - 1])]
    BY <1>2
  <2> DEFINE h == [n \in 0..m + 1 |-> IF n = m + 1 THEN Dequeue(g[m]) ELSE g[n]]
  <2>2. \A n \in 0..m : g[n] = IF n = 0 THEN p ELSE Dequeue(g[n - 1])
    BY <2>1
  <2>3. \A n \in 0..m + 1 : h[n] = IF n = m + 1 THEN Dequeue(g[m]) ELSE g[n]
    OBVIOUS
  <2>4. ASSUME NEW n \in 0..m + 1
        PROVE  h[n] = IF n = 0 THEN p ELSE Dequeue(h[n - 1])
    <3> HIDE DEF h
    <3>1. CASE n = 0
      BY <2>2, <2>3, <3>1
    <3>2. CASE n = m + 1
      <4>1. h[n] = Dequeue(g[m]) /\ n - 1 = m /\ n # 0
        BY <2>3, <3>2
      <4>2. h[m] = g[m]
        BY <2>3
      <4> QED  BY <4>1, <4>2
    <3>3. CASE n # 0 /\ n # m + 1
      <4>1. n \in 0..m /\ n - 1 \in 0..m + 1 /\ n - 1 # m + 1
        BY <3>3
      <4>2. h[n] = g[n] /\ h[n - 1] = g[n - 1]
        BY <2>3, <3>3, <4>1
      <4>3. g[n] = Dequeue(g[n - 1])
        BY <2>2, <3>3, <4>1
      <4> QED  BY <3>3, <4>2, <4>3
    <3> QED  BY <3>1, <3>2, <3>3
  <2>5. h = [n \in 0..m + 1 |-> IF n = 0 THEN p ELSE Dequeue(h[n - 1])]
    BY <2>4
  <2>6. \E k : k = [n \in 0..m + 1 |-> IF n = 0 THEN p ELSE Dequeue(k[n - 1])]
    BY <2>5
  <2> QED  BY <2>6
<1> HIDE DEF S
<1>3. Nat \subseteq S
  BY <1>1, <1>2, SetInduction
<1> QED  BY <1>3 DEF S

\* As many turns as there are segments: the loop ends because nothing that
\* waits is in sequence.
LEMMA DequeueAllOK ==
  ASSUME NEW p, NEW p0, NEW base \in Nat, base >= 1, NEW right \in Nat,
         Loop(p, p0, base, right)
  PROVE  Loop(DequeueAll(p), p0, base, right) /\ ~Ready(DequeueAll(p))
<1> DEFINE N == Len(p.ooseq)
           E(g) == g = [n \in 0..N |-> IF n = 0 THEN p ELSE Dequeue(g[n - 1])]
           a == CHOOSE g : E(g)
<1>1. N \in Nat
  BY DEF Loop, QueueOK
<1>2. DequeueAll(p) = a[N]
  BY DEF DequeueAll
<1>3. E(a)
  <2> HIDE DEF N
  <2>1. \E g : E(g)
    BY <1>1, AfterDef
  <2> HIDE DEF E
  <2> QED  BY <2>1
<1> HIDE DEF a
<1>4. \A n \in 0..N : a[n] = IF n = 0 THEN p ELSE Dequeue(a[n - 1])
  <2> HIDE DEF N
  <2> QED  BY <1>3
<1> HIDE DEF E
<1> DEFINE S == {m \in Nat : m <= N => /\ Loop(a[m], p0, base, right)
                                       /\ Ready(a[m]) => Len(a[m].ooseq) = N - m}
<1>5. 0 \in S
  <2>1. a[0] = p /\ Len(p.ooseq) = N - 0
    BY <1>1, <1>4
  <2> QED  BY <2>1
<1>6. ASSUME NEW m \in Nat, m \in S PROVE m + 1 \in S
  <2>1. CASE ~(m + 1 <= N)
    BY <2>1
  <2>2. CASE m + 1 <= N
    <3>1. m <= N /\ m + 1 \in 0..N /\ m + 1 # 0 /\ (m + 1) - 1 = m
      BY <1>1, <2>2
    <3>2. Loop(a[m], p0, base, right) /\ (Ready(a[m]) => Len(a[m].ooseq) = N - m)
      BY <1>6, <3>1
    <3>3. a[m + 1] = Dequeue(a[m])
      BY <1>4, <3>1
    <3>4. /\ Loop(Dequeue(a[m]), p0, base, right)
          /\ ~Ready(a[m]) => Dequeue(a[m]) = a[m]
          /\ Ready(a[m]) => Len(Dequeue(a[m]).ooseq) = Len(a[m].ooseq) - 1
      BY <3>2, DequeueOK
    <3>5. Ready(a[m + 1]) => Ready(a[m])
      BY <3>3, <3>4
    <3>6. Ready(a[m + 1]) => Len(a[m + 1].ooseq) = N - (m + 1)
      <4>1. Ready(a[m + 1]) => Len(a[m + 1].ooseq) = (N - m) - 1
        BY <3>2, <3>3, <3>4, <3>5
      <4>2. (N - m) - 1 = N - (m + 1)
        <5> HIDE DEF N
        <5> QED  BY <1>1
      <4> QED  BY <4>1, <4>2
    <3> QED  BY <3>3, <3>4, <3>6
  <2> QED  BY <2>1, <2>2
<1> HIDE DEF S
<1>7. N \in S
  BY <1>1, <1>5, <1>6, SetInduction
<1>8. Loop(a[N], p0, base, right) /\ (Ready(a[N]) => Len(a[N].ooseq) = N - N)
  BY <1>1, <1>7 DEF S
<1>9. ~Ready(a[N])
  <2> SUFFICES ASSUME Ready(a[N]) PROVE FALSE
    OBVIOUS
  <2>1. Len(a[N].ooseq) = 0
    BY <1>1, <1>8
  <2>2. a[N].ooseq \in Seq(SegmentType) /\ a[N].ooseq # <<>>
    BY <1>8 DEF Loop, QueueOK, Ready
  <2> QED  BY <2>1, <2>2
<1> QED  BY <1>2, <1>8, <1>9

\* When nothing is in sequence, everything that waits is behind rcv_nxt.
LEMMA NotReady ==
  ASSUME NEW p, NEW right, p.rcv_nxt \in Nat,
         QueueOK(p.ooseq, p.rcv_nxt, right), ~Ready(p)
  PROVE  QueueOK(p.ooseq, p.rcv_nxt + 1, right)
<1> DEFINE o == p.ooseq
<1>1. o \in Seq(SegmentType) /\ Len(o) \in Nat
  BY DEF QueueOK
<1>2. ASSUME NEW j \in 1..Len(o) PROVE o[j].seqno >= p.rcv_nxt + 1
  <2>1. 1 \in 1..Len(o) /\ o # <<>> /\ Head(o) = o[1]
    BY <1>1, <1>2
  <2>2. SegmentOK(o[1]) /\ o[1].seqno >= p.rcv_nxt /\ SegmentOK(o[j]) /\ o[j].seqno >= p.rcv_nxt
    BY <1>2, <2>1 DEF QueueOK
  <2>3. o[1].seqno \in Nat /\ DataEnd(o[1]) \in Nat /\ o[1].seqno <= DataEnd(o[1])
        /\ o[j].seqno \in Nat
    BY <2>2, SegmentFacts, SMTT(30)
  <2>4. o[1].seqno # p.rcv_nxt
    BY <2>1 DEF Ready
  <2>5. CASE j = 1
    BY <2>2, <2>3, <2>4, <2>5
  <2>6. CASE j # 1
    <3>1. 1 < j
      BY <1>2, <2>6
    <3>2. DataEnd(o[1]) <= o[j].seqno
      BY <1>2, <2>1, <3>1 DEF QueueOK
    <3> QED  BY <2>2, <2>3, <2>4, <3>2
  <2> QED  BY <2>5, <2>6
<1> HIDE DEF o
<1>3. QueueOK(o, p.rcv_nxt + 1, right)
  BY <1>2, QueueRaise DEF o
<1> QED  BY <1>3 DEF o

-----------------------------------------------------------------------------
(* Acknowledgements *)

\* A pcb in or between steps: what it announces, what waits in ooseq and what
\* it has acknowledged fit together.
Core(p) ==
  /\ p \in Pcb /\ Announced(p)
  /\ QueueOK(p.ooseq, p.rcv_nxt + 1, p.rcv_nxt + p.rcv_wnd)
  /\ p.out.ackno <= p.rcv_nxt /\ p.out.edge <= p.rcv_ann_right_edge
  /\ p.rcv_nxt \in 1..Total + 2 /\ p.rcv_wnd <= TCP_WND
  /\ p.rcv_ann_right_edge >= 1

\* What a step leaves alone that only acknowledges.
SameData(q, p) ==
  /\ q.state = p.state /\ q.rcv_nxt = p.rcv_nxt /\ q.rcv_wnd = p.rcv_wnd
  /\ q.rcv_ann_wnd = p.rcv_ann_wnd /\ q.ooseq = p.ooseq
  /\ q.recv_data = p.recv_data /\ (q.got_fin <=> p.got_fin)
  /\ q.refused_data = p.refused_data
  /\ p.rcv_ann_right_edge <= q.rcv_ann_right_edge

\* The numbers of a pcb.
LEMMA PcbFacts ==
  ASSUME NEW p \in Pcb
  PROVE  /\ p.rcv_nxt \in Nat /\ p.rcv_wnd \in Nat /\ p.rcv_ann_wnd \in Nat
         /\ p.rcv_ann_right_edge \in Nat /\ p.out.ackno \in Nat /\ p.out.edge \in Nat
         /\ p.recv_data \in Seq(Bytes) /\ p.refused_data \in Seq(Bytes)
         /\ p.ooseq \in Seq(SegmentType) /\ p.got_fin \in BOOLEAN /\ p.now \in BOOLEAN
         /\ p.delay \in BOOLEAN /\ p.state \in States
         /\ Len(p.recv_data) \in Nat
BY DEF Pcb

\* Core for a pcb with the same data.
LEMMA CoreSame ==
  ASSUME NEW p, NEW q, Core(p), q \in Pcb, SameData(q, p),
         q.rcv_ann_right_edge <= q.rcv_nxt + q.rcv_ann_wnd,
         q.out.ackno <= q.rcv_nxt, q.out.edge <= q.rcv_ann_right_edge
  PROVE  Core(q)
<1>1. q.rcv_ann_wnd <= q.rcv_wnd /\ QueueOK(q.ooseq, q.rcv_nxt + 1, q.rcv_nxt + q.rcv_wnd)
      /\ q.rcv_nxt \in 1..Total + 2 /\ q.rcv_wnd <= TCP_WND
  BY DEF Core, SameData, Announced
<1>2. q.rcv_ann_right_edge >= 1
  <2>1. p \in Pcb /\ p.rcv_ann_right_edge >= 1 /\ p.rcv_ann_right_edge <= q.rcv_ann_right_edge
    BY DEF Core, SameData
  <2>2. p.rcv_ann_right_edge \in Nat /\ q.rcv_ann_right_edge \in Nat
    BY <2>1, PcbFacts
  <2> QED  BY <2>1, <2>2
<1> QED  BY <1>1, <1>2 DEF Core, Announced

\* An acknowledgement moves the announced edge to the right, if at all.
LEMMA SendAckOK ==
  ASSUME NEW p, Core(p)
  PROVE  Core(tcp_send_empty_ack(p)) /\ SameData(tcp_send_empty_ack(p), p)
<1> DEFINE edge == p.rcv_nxt + p.rcv_ann_wnd
           o == [ackno |-> p.rcv_nxt, edge |-> edge]
           r == [p EXCEPT !.rcv_ann_right_edge = edge, !.out = o]
           q == tcp_send_empty_ack(p)
<1>1. /\ p \in Pcb /\ p.rcv_nxt \in Nat /\ p.rcv_ann_wnd \in Nat /\ edge \in Nat
      /\ p.rcv_ann_right_edge <= edge
  <2>1. p \in Pcb
    BY DEF Core
  <2> QED  BY <2>1, PcbFacts DEF Core, Announced
<1>2. q = [r EXCEPT !.delay = FALSE, !.now = FALSE]
  BY DEF tcp_send_empty_ack
<1>3. o \in [ackno : Nat, edge : Nat] /\ o.ackno = p.rcv_nxt /\ o.edge = edge
  BY <1>1
<1> HIDE DEF edge, o
<1>4. /\ r \in Pcb /\ r.rcv_ann_right_edge = edge /\ r.out = o
      /\ r.state = p.state /\ r.rcv_nxt = p.rcv_nxt /\ r.rcv_wnd = p.rcv_wnd
      /\ r.rcv_ann_wnd = p.rcv_ann_wnd /\ r.ooseq = p.ooseq
      /\ r.recv_data = p.recv_data /\ (r.got_fin <=> p.got_fin)
      /\ r.refused_data = p.refused_data
  BY <1>1, <1>3 DEF Pcb
<1> HIDE DEF r, q
<1>5. /\ q \in Pcb /\ q.rcv_ann_right_edge = r.rcv_ann_right_edge /\ q.out = r.out
      /\ q.state = r.state /\ q.rcv_nxt = r.rcv_nxt /\ q.rcv_wnd = r.rcv_wnd
      /\ q.rcv_ann_wnd = r.rcv_ann_wnd /\ q.ooseq = r.ooseq
      /\ q.recv_data = r.recv_data /\ (q.got_fin <=> r.got_fin)
      /\ q.refused_data = r.refused_data
  BY <1>2, <1>4 DEF Pcb
<1>6. q.rcv_ann_right_edge = edge /\ q.out.ackno = q.rcv_nxt /\ q.out.edge = edge
      /\ q.rcv_nxt + q.rcv_ann_wnd = edge
  <2>1. q.rcv_nxt = p.rcv_nxt /\ q.rcv_ann_wnd = p.rcv_ann_wnd /\ q.out = o
        /\ q.rcv_ann_right_edge = edge
    BY <1>4, <1>5
  <2> QED  BY <1>3, <2>1 DEF edge
<1>7. SameData(q, p)
  BY <1>1, <1>4, <1>5 DEF SameData
<1>8. edge <= edge /\ q.rcv_nxt <= q.rcv_nxt
  BY <1>1, <1>4, <1>5
<1>9. Core(q)
  BY <1>5, <1>6, <1>7, <1>8, CoreSame
<1> QED  BY <1>7, <1>9 DEF q

\* A pcb with other flags for acknowledgements.
Flags(p, delay, now) == [p EXCEPT !.delay = delay, !.now = now]

\* The flags for acknowledgements do not matter otherwise.
LEMMA FlagsOK ==
  ASSUME NEW p, Core(p), NEW d \in BOOLEAN, NEW b \in BOOLEAN
  PROVE  Core(Flags(p, d, b)) /\ SameData(Flags(p, d, b), p)
<1> DEFINE q == Flags(p, d, b)
<1>1. p \in Pcb
  BY DEF Core
<1>2. /\ q \in Pcb /\ q.rcv_ann_right_edge = p.rcv_ann_right_edge /\ q.out = p.out
      /\ q.state = p.state /\ q.rcv_nxt = p.rcv_nxt /\ q.rcv_wnd = p.rcv_wnd
      /\ q.rcv_ann_wnd = p.rcv_ann_wnd /\ q.ooseq = p.ooseq
      /\ q.recv_data = p.recv_data /\ (q.got_fin <=> p.got_fin)
      /\ q.refused_data = p.refused_data
  BY <1>1 DEF Pcb, Flags
<1> HIDE DEF q
<1>3. p.rcv_ann_right_edge \in Nat
  BY <1>1, PcbFacts
<1>4. SameData(q, p)
  BY <1>2, <1>3 DEF SameData
<1>5. Core(q)
  BY <1>2 DEF Core, Announced
<1> QED  BY <1>4, <1>5 DEF q

\* tcp_ack sets one of them.
LEMMA AckOK ==
  ASSUME NEW p, Core(p)
  PROVE  Core(tcp_ack(p)) /\ SameData(tcp_ack(p), p)
<1>1. p \in Pcb /\ p.delay \in BOOLEAN /\ p.now \in BOOLEAN
  BY DEF Core, Pcb
<1>2. CASE p.delay
  <2>1. tcp_ack(p) = Flags(p, FALSE, TRUE)
    BY <1>2 DEF tcp_ack, Flags
  <2> QED  BY <2>1, FlagsOK
<1>3. CASE ~p.delay
  <2>1. tcp_ack(p) = Flags(p, TRUE, p.now)
    BY <1>1, <1>3 DEF tcp_ack, Flags, Pcb
  <2> QED  BY <1>1, <2>1, FlagsOK
<1> QED  BY <1>2, <1>3

\* A pcb whose acknowledgement is due now.
LEMMA NowOK ==
  ASSUME NEW p, Core(p), NEW b \in BOOLEAN
  PROVE  LET q == [p EXCEPT !.now = b] IN Core(q) /\ SameData(q, p)
<1>1. p \in Pcb /\ p.delay \in BOOLEAN
  BY DEF Core, Pcb
<1>2. [p EXCEPT !.now = b] = Flags(p, p.delay, b)
  BY <1>1 DEF Flags, Pcb
<1> QED  BY <1>1, <1>2, FlagsOK

\* tcp_output acknowledges or does nothing.
LEMMA OutputOK ==
  ASSUME NEW p, Core(p)
  PROVE  Core(tcp_output(p)) /\ SameData(tcp_output(p), p)
<1>1. CASE p.now
  BY <1>1, SendAckOK DEF tcp_output
<1>2. CASE ~p.now
  <2>1. p.rcv_ann_right_edge \in Nat
    BY PcbFacts DEF Core
  <2>2. SameData(p, p)
    BY <2>1 DEF SameData
  <2> QED  BY <1>2, <2>2 DEF tcp_output
<1> QED  BY <1>1, <1>2

-----------------------------------------------------------------------------
(* tcp_receive *)

\* What tcp_receive makes of a pcb.
Result(q, p) ==
  /\ Core(q) /\ Received(q, p.rcv_nxt)
  /\ q.rcv_nxt + q.rcv_wnd = p.rcv_nxt + p.rcv_wnd
  /\ q.state = p.state /\ q.refused_data = p.refused_data
  /\ p.rcv_ann_right_edge <= q.rcv_ann_right_edge

\* A pcb between two segments.
Between(p) ==
  Core(p) /\ p.recv_data = <<>> /\ ~p.got_fin /\ p.rcv_nxt <= Total + 1

\* Nothing was received.
LEMMA NothingReceived ==
  ASSUME NEW p, Between(p), NEW q, Core(q), SameData(q, p)
  PROVE  Result(q, p)
<1>1. p \in Pcb /\ p.rcv_nxt \in Nat /\ p.rcv_nxt <= Total + 1
  BY PcbFacts DEF Between, Core
<1>2. q.recv_data = <<>> /\ ~q.got_fin /\ q.rcv_nxt = p.rcv_nxt /\ q.rcv_wnd = p.rcv_wnd
  BY DEF Between, SameData
<1>3. Len(q.recv_data) = 0 /\ q.recv_data = Run(p.rcv_nxt, 0)
  BY <1>2 DEF Run
<1>4. Received(q, p.rcv_nxt)
  BY <1>1, <1>2, <1>3 DEF Received
<1> QED  BY <1>2, <1>4 DEF Result, SameData

\* After tcp_receive the stream goes on at rcv_nxt, and the FIN is the last.
LEMMA ReceivedNext ==
  ASSUME NEW p \in Pcb, NEW base \in Nat, base >= 1, Received(p, base)
  PROVE  p.rcv_nxt >= base /\ p.rcv_nxt \in 1..Total + 2
<1>1. Len(p.recv_data) \in Nat /\ p.got_fin \in BOOLEAN
  BY PcbFacts
<1>2. CASE p.got_fin
  BY <1>1, <1>2, UvlReadAssumption DEF Received
<1>3. CASE ~p.got_fin
  BY <1>1, <1>3, UvlReadAssumption DEF Received
<1> QED  BY <1>1, <1>2, <1>3

\* A segment in sequence, with what follows it in ooseq.
LEMMA InSequenceOK ==
  ASSUME NEW p, Between(p), NEW seg, SegmentOK(seg), seg.seqno = p.rcv_nxt,
         seg.seqno + TCP_TCPLEN(seg) <= p.rcv_nxt + p.rcv_wnd
  PROVE  Result(InSequence(p, seg), p)
<1> DEFINE base == p.rcv_nxt
           right == p.rcv_nxt + p.rcv_wnd
           o == p.ooseq
           b == IF seg.fin THEN seg ELSE BeforeQueue(seg, o)
           r == Behind(seg, o)
           p1 == [p EXCEPT !.ooseq = r]
           q == Take(p1, b)
           d == DequeueAll(q)
<1>1. /\ p \in Pcb /\ Announced(p) /\ QueueOK(o, p.rcv_nxt + 1, right)
      /\ p.out.ackno <= p.rcv_nxt /\ p.out.edge <= p.rcv_ann_right_edge
      /\ p.rcv_wnd <= TCP_WND /\ p.recv_data = <<>> /\ ~p.got_fin
      /\ p.rcv_nxt >= 1 /\ p.rcv_ann_right_edge >= 1 /\ p.rcv_nxt <= Total + 1
  BY DEF Between, Core
<1>2. /\ p.rcv_nxt \in Nat /\ p.rcv_wnd \in Nat /\ p.rcv_ann_wnd \in Nat
      /\ p.rcv_ann_right_edge \in Nat /\ p.out.ackno \in Nat /\ p.out.edge \in Nat
  BY <1>1, PcbFacts
<1>3. base \in Nat /\ base >= 1 /\ right \in Nat /\ base + 1 \in Nat
  BY <1>1, <1>2
<1>4. seg.seqno \in Nat /\ TCP_TCPLEN(seg) \in Nat
  BY SegmentFacts
<1>5. TrimToWindow(p, seg) = seg
  BY <1>2, <1>4 DEF TrimToWindow
<1>6. InSequence(p, seg) = tcp_ack(d)
  <2>1. [p EXCEPT !.ooseq = Behind(seg, @)] = p1
    OBVIOUS
  <2> HIDE DEF p1
  <2> QED  BY <1>5, <2>1 DEF InSequence
<1>7. /\ \A j \in 1..Len(o) : o[j].seqno >= seg.seqno
      /\ o # <<>> => o[1].seqno > seg.seqno \/ Len(seg.data) > Len(o[1].data)
  <2>1. o \in Seq(SegmentType) /\ Len(o) \in Nat
    BY <1>1 DEF QueueOK
  <2>2. ASSUME NEW j \in 1..Len(o) PROVE o[j].seqno > seg.seqno
    <3>1. SegmentOK(o[j]) /\ o[j].seqno >= p.rcv_nxt + 1
      BY <1>1 DEF QueueOK
    <3>2. o[j].seqno \in Nat
      BY <3>1, SegmentFacts
    <3> QED  BY <1>2, <3>1, <3>2
  <2>3. ASSUME NEW j \in 1..Len(o) PROVE o[j].seqno >= seg.seqno
    <3>1. SegmentOK(o[j])
      BY <1>1 DEF QueueOK
    <3>2. o[j].seqno \in Nat
      BY <3>1, SegmentFacts
    <3> QED  BY <1>4, <2>2, <3>2
  <2>4. o # <<>> => 1 \in 1..Len(o)
    BY <2>1
  <2> QED  BY <2>2, <2>3, <2>4
<1>8. /\ SegmentOK(b) /\ b.seqno = seg.seqno /\ b.seqno + TCP_TCPLEN(b) <= right
      /\ QueueOK(r, base + 1, right)
      /\ \A j \in 1..Len(r) : ~b.fin /\ DataEnd(b) <= r[j].seqno
  <2> HIDE DEF base, right, o
  <2>1. seg.seqno + TCP_TCPLEN(seg) <= right /\ QueueOK(o, base + 1, right)
    BY <1>1 DEF right, base
  <2> QED  BY <1>3, <1>7, <2>1, InsertAnyOK
<1> HIDE DEF b, r, d, q, p1
<1>9. r \in Seq(SegmentType) /\ Len(r) \in Nat
  BY <1>8 DEF QueueOK
<1>10. b.fin => r = <<>>
  <2> SUFFICES ASSUME b.fin PROVE r = <<>>
    OBVIOUS
  <2>1. 1 \notin 1..Len(r)
    BY <1>8
  <2>2. Len(r) = 0
    BY <1>9, <2>1
  <2> QED  BY <1>9, <2>2
<1>11. /\ p1 \in Pcb /\ SameRest(p1, p) /\ p1.ooseq = r
       /\ p1.rcv_nxt = p.rcv_nxt /\ p1.rcv_wnd = p.rcv_wnd
       /\ p1.recv_data = p.recv_data /\ (p1.got_fin <=> p.got_fin)
  BY <1>1, <1>9, OoseqPcb DEF p1
<1>12. p1.rcv_ann_right_edge <= p1.rcv_nxt + p1.rcv_wnd
  <2>1. p1.rcv_ann_right_edge = p.rcv_ann_right_edge
    BY <1>11 DEF SameRest
  <2>2. p.rcv_ann_right_edge <= p.rcv_nxt + p.rcv_ann_wnd /\ p.rcv_ann_wnd <= p.rcv_wnd
    BY <1>1 DEF Announced
  <2> QED  BY <1>2, <1>11, <2>1, <2>2
<1>13. /\ p1.recv_data = Run(base, Len(p1.recv_data)) /\ ~p1.got_fin
       /\ p1.rcv_nxt = base + Len(p1.recv_data)
  <2>1. p1.recv_data = <<>> /\ Len(p1.recv_data) = 0 /\ Run(base, 0) = <<>>
    BY <1>1, <1>11 DEF Run
  <2> QED  BY <1>1, <1>2, <1>11, <2>1
<1>14. b.seqno \in Nat /\ TCP_TCPLEN(b) \in Nat /\ (~b.fin => DataEnd(b) = b.seqno + TCP_TCPLEN(b))
  BY <1>8, SegmentFacts
<1>15. b.seqno = p1.rcv_nxt /\ TCP_TCPLEN(b) <= p1.rcv_wnd /\ (b.fin => p1.ooseq = <<>>)
  BY <1>2, <1>8, <1>10, <1>11, <1>14
<1>16. /\ q \in Pcb /\ Announced(q) /\ SameRest(q, p1) /\ Received(q, base)
       /\ q.rcv_nxt = b.seqno + TCP_TCPLEN(b)
       /\ q.rcv_nxt + q.rcv_wnd = p1.rcv_nxt + p1.rcv_wnd
       /\ q.ooseq = r
  <2> HIDE DEF base, right
  <2> QED  BY <1>3, <1>8, <1>11, <1>12, <1>13, <1>15, TakeOK DEF q
<1>17. SameRest(q, p)
  BY <1>11, <1>16 DEF SameRest
<1>18. QueueOK(q.ooseq, q.rcv_nxt, right)
  <2>1. ASSUME NEW j \in 1..Len(r) PROVE r[j].seqno >= q.rcv_nxt
    <3>1. SegmentOK(r[j])
      BY <1>8 DEF QueueOK
    <3>2. r[j].seqno \in Nat
      BY <3>1, SegmentFacts
    <3> QED  BY <1>8, <1>14, <1>16, <3>2
  <2>2. QueueOK(r, q.rcv_nxt, right)
    BY <1>8, <2>1, QueueRaise
  <2> QED  BY <1>16, <2>2
<1>19. Loop(q, p, base, right)
  <2>1. q.rcv_nxt + q.rcv_wnd = right
    BY <1>11, <1>16
  <2> HIDE DEF base, right
  <2> QED  BY <1>16, <1>17, <1>18, <2>1 DEF Loop
<1>20. Loop(d, p, base, right) /\ ~Ready(d)
  <2> HIDE DEF base, right
  <2> QED  BY <1>3, <1>19, DequeueAllOK DEF d
<1>21. /\ d \in Pcb /\ SameRest(d, p) /\ Announced(d) /\ Received(d, base)
       /\ d.rcv_nxt + d.rcv_wnd = right
       /\ QueueOK(d.ooseq, d.rcv_nxt, right)
  BY <1>20 DEF Loop
<1>22. d.rcv_nxt >= base /\ d.rcv_nxt \in 1..Total + 2 /\ d.rcv_nxt \in Nat /\ d.rcv_wnd \in Nat
  BY <1>3, <1>21, ReceivedNext, PcbFacts
<1>23. QueueOK(d.ooseq, d.rcv_nxt + 1, d.rcv_nxt + d.rcv_wnd)
  <2> HIDE DEF right
  <2> QED  BY <1>20, <1>21, <1>22, NotReady
<1>24. d.out = p.out /\ d.rcv_ann_right_edge = p.rcv_ann_right_edge
       /\ d.state = p.state /\ d.refused_data = p.refused_data
  BY <1>21 DEF SameRest
<1>25. d.rcv_wnd <= TCP_WND
  BY <1>1, <1>2, <1>21, <1>22, TcpInAssumption
<1>26. d.out.ackno <= d.rcv_nxt
  BY <1>1, <1>2, <1>22, <1>24
<1>27. Core(d)
  BY <1>1, <1>21, <1>22, <1>23, <1>24, <1>25, <1>26 DEF Core
<1>28. Core(tcp_ack(d)) /\ SameData(tcp_ack(d), d)
  BY <1>27, AckOK
<1>29. Received(tcp_ack(d), base)
  BY <1>21, <1>28 DEF Received, SameData
<1> QED  BY <1>6, <1>21, <1>24, <1>28, <1>29 DEF Result, SameData

\* tcp_receive of an empty segment.
LEMMA ReceiveEmpty ==
  ASSUME NEW p, Between(p), NEW seg, TCP_TCPLEN(seg) = 0
  PROVE  Result(tcp_receive(p, seg), p)
<1> DEFINE s == TrimFront(p, seg)
           b == p.now \/ ~TCP_SEQ_BETWEEN(s.seqno, p.rcv_nxt, p.rcv_nxt + p.rcv_wnd - 1)
           q == [p EXCEPT !.now = b]
<1>1. tcp_receive(p, seg) = q
  BY DEF tcp_receive
<1>2. b \in BOOLEAN
  OBVIOUS
<1> HIDE DEF b
<1>3. Core(q) /\ SameData(q, p)
  BY <1>2, NowOK DEF Between
<1> HIDE DEF q
<1> QED  BY <1>1, <1>3, NothingReceived

\* tcp_receive of a segment that ends within the window, or that is one byte
\* at rcv_nxt or before it.
LEMMA ReceiveOK ==
  ASSUME NEW p, Between(p), NEW seg, SegmentOK(seg),
         \/ seg.seqno + TCP_TCPLEN(seg) <= p.rcv_nxt + p.rcv_wnd
         \/ seg.seqno <= p.rcv_nxt /\ TCP_TCPLEN(seg) = 1
  PROVE  Result(tcp_receive(p, seg), p)
<1> DEFINE s == TrimFront(p, seg)
           inside == TCP_SEQ_BETWEEN(s.seqno, p.rcv_nxt, p.rcv_nxt + p.rcv_wnd - 1)
           right == p.rcv_nxt + p.rcv_wnd
           a == tcp_send_empty_ack(p)
<1>1. Core(p) /\ p \in Pcb /\ QueueOK(p.ooseq, p.rcv_nxt + 1, right)
  BY DEF Between, Core
<1>2. p.rcv_nxt \in Nat /\ p.rcv_wnd \in Nat /\ right \in Nat /\ p.rcv_nxt + 1 \in Nat
      /\ p.rcv_ann_right_edge \in Nat
  BY <1>1, PcbFacts
<1>3. seg.seqno \in Nat /\ TCP_TCPLEN(seg) \in Nat /\ TCP_TCPLEN(seg) # 0
  BY SegmentFacts DEF SegmentOK
<1>4. SegmentOK(s) /\ (inside => s.seqno + TCP_TCPLEN(s) <= right)
  <2>1. CASE TCP_SEQ_BETWEEN(p.rcv_nxt, seg.seqno + 1, seg.seqno + TCP_TCPLEN(seg) - 1)
    <3>1. /\ SegmentOK(s) /\ s.seqno = p.rcv_nxt
          /\ s.seqno + TCP_TCPLEN(s) = seg.seqno + TCP_TCPLEN(seg)
      BY <1>2, <2>1, TrimFrontOK
    <3>2. TCP_TCPLEN(seg) # 1
      BY <1>2, <1>3, <2>1 DEF TCP_SEQ_BETWEEN
    <3> HIDE DEF s
    <3> QED  BY <3>1, <3>2
  <2>2. CASE ~TCP_SEQ_BETWEEN(p.rcv_nxt, seg.seqno + 1, seg.seqno + TCP_TCPLEN(seg) - 1)
    <3>1. s = seg
      BY <2>2 DEF TrimFront
    <3> HIDE DEF s
    <3>2. inside => seg.seqno + TCP_TCPLEN(seg) <= right
      BY <1>2, <1>3, <3>1 DEF TCP_SEQ_BETWEEN
    <3> QED  BY <3>1, <3>2
  <2> QED  BY <2>1, <2>2
<1>5. tcp_receive(p, seg) =
        IF ~inside THEN a
        ELSE IF s.seqno = p.rcv_nxt THEN InSequence(p, s)
        ELSE [a EXCEPT !.ooseq = Queued(p, s)]
  BY <1>3 DEF tcp_receive
<1>6. Core(a) /\ SameData(a, p)
  BY <1>1, SendAckOK
<1>7. Result(a, p)
  BY <1>6, NothingReceived
<1>8. inside => p.rcv_nxt <= s.seqno
  BY DEF TCP_SEQ_BETWEEN
<1> HIDE DEF s, inside, a
<1>9. CASE ~inside
  BY <1>5, <1>7, <1>9
<1>10. CASE inside /\ s.seqno = p.rcv_nxt
  BY <1>4, <1>5, <1>10, InSequenceOK
<1>11. CASE inside /\ s.seqno # p.rcv_nxt
  <2> DEFINE o == Queued(p, s)
             q == [a EXCEPT !.ooseq = o]
  <2>1. s.seqno \in Nat /\ s.seqno >= p.rcv_nxt + 1
    BY <1>2, <1>4, <1>8, <1>11, SegmentFacts
  <2>2. QueueOK(o, p.rcv_nxt + 1, right)
    <3>1. s.seqno + TCP_TCPLEN(s) <= right /\ right = p.rcv_nxt + p.rcv_wnd
      BY <1>4, <1>11
    <3> HIDE DEF right
    <3> QED  BY <1>1, <1>2, <1>4, <2>1, <3>1, QueuedOK
  <2>3. tcp_receive(p, seg) = q
    BY <1>5, <1>11
  <2> HIDE DEF o
  <2>4. o \in Seq(SegmentType) /\ a \in Pcb
    BY <1>6, <2>2 DEF QueueOK, Core
  <2>5. /\ q \in Pcb /\ SameRest(q, a) /\ q.ooseq = o
        /\ q.rcv_nxt = a.rcv_nxt /\ q.rcv_wnd = a.rcv_wnd
        /\ q.rcv_ann_wnd = a.rcv_ann_wnd
        /\ q.recv_data = a.recv_data /\ (q.got_fin <=> a.got_fin)
    BY <2>4, OoseqPcb
  <2> HIDE DEF q
  <2>6. /\ q.state = a.state /\ q.rcv_ann_right_edge = a.rcv_ann_right_edge
        /\ q.refused_data = a.refused_data /\ q.out = a.out
    BY <2>5 DEF SameRest
  <2>7. a.rcv_nxt = p.rcv_nxt /\ a.rcv_wnd = p.rcv_wnd
    BY <1>6 DEF SameData
  <2>8. QueueOK(q.ooseq, q.rcv_nxt + 1, q.rcv_nxt + q.rcv_wnd)
    BY <2>2, <2>5, <2>7
  <2>9. Core(q)
    BY <1>6, <2>5, <2>6, <2>8 DEF Core, Announced
  <2>10. ~q.got_fin
    BY <1>6, <2>5 DEF SameData, Between
  <2>11. Received(q, p.rcv_nxt)
    BY <1>7, <2>5, <2>10 DEF Result, Received
  <2>12. Result(q, p)
    BY <1>7, <2>5, <2>6, <2>9, <2>11 DEF Result
  <2> QED  BY <2>3, <2>12
<1> QED  BY <1>9, <1>10, <1>11

-----------------------------------------------------------------------------
(* The inductive invariant *)

Client == [recv_buf : Seq(Bytes), read_req : BOOLEAN, read_cb : BOOLEAN,
           closed : BOOLEAN, closing : BOOLEAN]

\* The pcb between two steps.
PcbInv ==
  Core(pcb) /\ pcb.recv_data = <<>> /\ ~pcb.got_fin /\ pcb.refused_data = <<>>

\* What was handed over and what is in recv_buf are the stream from its start,
\* up to rcv_nxt as long as lwIP takes data.  recv_buf and the window make up
\* TCP_WND.  lwIP ends in good order only when the program has taken all.
StreamInv ==
  /\ client \in Client /\ handed \in Seq(Bytes)
  /\ handed = Run(1, Len(handed))
  /\ client.recv_buf = Run(Len(handed) + 1, Len(client.recv_buf))
  /\ Len(handed) + Len(client.recv_buf) <= Total
  /\ ~client.closed => /\ pcb.state = "ESTABLISHED"
                       /\ pcb.rcv_nxt = Len(handed) + Len(client.recv_buf) + 1
                       /\ pcb.rcv_wnd + Len(client.recv_buf) = TCP_WND
  /\ client.closed => ~client.read_cb
  /\ client.closed /\ pcb.state \notin {"RESET", "GONE"} => client.recv_buf = <<>>
  /\ client.closed /\ pcb.state \in {"FIN_WAIT_1", "FIN_WAIT_2"} =>
       pcb.rcv_nxt = Len(handed) + 1
  /\ client.closed => pcb.state \notin {"ESTABLISHED", "CLOSE_WAIT"}
  /\ pcb.state = "GONE" => Len(handed) = Total \/ pcb.rcv_nxt <= Total + 1
  /\ client.closing => client.closed
  /\ pcb.state \in {"LAST_ACK", "CLOSING", "TIME_WAIT"} => Len(handed) = Total

\* The console, and the acknowledgement under way to it, know no more than
\* lwIP has acknowledged and announced.
PeerInv ==
  /\ console \in [una : Nat, edge : Nat] /\ ack \in [ackno : Nat, edge : Nat]
  /\ console.una >= 1 /\ console.una <= pcb.rcv_nxt
  /\ console.edge >= 1 /\ console.edge <= pcb.rcv_ann_right_edge
  /\ ack.ackno <= pcb.rcv_nxt /\ ack.edge <= pcb.rcv_ann_right_edge

ReadInv == PcbInv /\ StreamInv /\ PeerInv

\* What a step never takes back.
Forward ==
  pcb.rcv_nxt <= pcb'.rcv_nxt /\ pcb.rcv_ann_right_edge <= pcb'.rcv_ann_right_edge

\* The lengths in StreamInv are numbers.
LEMMA StreamLengths ==
  ASSUME StreamInv
  PROVE  Len(handed) \in Nat /\ client.recv_buf \in Seq(Bytes) /\ Len(client.recv_buf) \in Nat
BY DEF StreamInv, Client

\* Commit: a step ends with pcb p.
LEMMA CommitOK ==
  ASSUME PcbInv, PeerInv, NEW p, Core(p), p.refused_data = <<>>,
         pcb.rcv_nxt <= p.rcv_nxt, pcb.rcv_ann_right_edge <= p.rcv_ann_right_edge,
         Commit(p), console' = console
  PROVE  /\ PcbInv' /\ PeerInv' /\ Forward
         /\ pcb'.state = p.state /\ pcb'.rcv_nxt = p.rcv_nxt /\ pcb'.rcv_wnd = p.rcv_wnd
<1> DEFINE q == [p EXCEPT !.out = NoAck, !.recv_data = <<>>, !.got_fin = FALSE]
<1>1. pcb' = q /\ ack' = IF p.out = NoAck THEN ack ELSE p.out
  BY DEF Commit
<1>2. p \in Pcb /\ NoAck \in [ackno : Nat, edge : Nat] /\ NoAck.ackno = 0 /\ NoAck.edge = 0
      /\ <<>> \in Seq(Bytes)
  BY DEF Core, NoAck
<1>3. /\ q \in Pcb /\ q.recv_data = <<>> /\ ~q.got_fin /\ q.out = NoAck
      /\ q.rcv_ann_right_edge = p.rcv_ann_right_edge
      /\ q.state = p.state /\ q.rcv_nxt = p.rcv_nxt /\ q.rcv_wnd = p.rcv_wnd
      /\ q.rcv_ann_wnd = p.rcv_ann_wnd /\ q.ooseq = p.ooseq
      /\ q.refused_data = p.refused_data
  <2> HIDE DEF NoAck
  <2> QED  BY <1>2 DEF Pcb
<1> HIDE DEF q
<1>4. /\ p.rcv_nxt \in Nat /\ p.rcv_ann_right_edge \in Nat /\ p.out \in [ackno : Nat, edge : Nat]
      /\ p.out.ackno \in Nat /\ p.out.edge \in Nat
  BY <1>2 DEF Pcb
<1>5. pcb \in Pcb /\ pcb.rcv_nxt \in Nat /\ pcb.rcv_ann_right_edge \in Nat
  BY PcbFacts DEF PcbInv, Core
<1>6. q.out.ackno <= q.rcv_nxt /\ q.out.edge <= q.rcv_ann_right_edge
  BY <1>2, <1>3, <1>4
<1>7. Core(q)
  BY <1>3, <1>6 DEF Core, Announced
<1>8. PcbInv'
  BY <1>1, <1>3, <1>7 DEF PcbInv
<1>9. /\ console'.una >= 1 /\ console'.una <= p.rcv_nxt
      /\ console'.edge >= 1 /\ console'.edge <= p.rcv_ann_right_edge
      /\ console' \in [una : Nat, edge : Nat]
  <2>1. /\ console.una \in Nat /\ console.edge \in Nat
        /\ console.una >= 1 /\ console.una <= pcb.rcv_nxt
        /\ console.edge >= 1 /\ console.edge <= pcb.rcv_ann_right_edge
        /\ console \in [una : Nat, edge : Nat]
    BY DEF PeerInv
  <2> QED  BY <1>4, <1>5, <2>1
<1>10. /\ ack' \in [ackno : Nat, edge : Nat]
       /\ ack'.ackno <= p.rcv_nxt /\ ack'.edge <= p.rcv_ann_right_edge
  <2>1. CASE p.out = NoAck
    <3>1. /\ ack \in [ackno : Nat, edge : Nat] /\ ack.ackno \in Nat /\ ack.edge \in Nat
          /\ ack.ackno <= pcb.rcv_nxt /\ ack.edge <= pcb.rcv_ann_right_edge
      BY DEF PeerInv
    <3> QED  BY <1>1, <1>4, <1>5, <2>1, <3>1
  <2>2. CASE p.out # NoAck
    BY <1>1, <1>4, <2>2 DEF Core
  <2> QED  BY <2>1, <2>2
<1>11. PeerInv'
  BY <1>1, <1>3, <1>9, <1>10 DEF PeerInv
<1>12. Forward
  BY <1>1, <1>3 DEF Forward
<1> QED  BY <1>1, <1>3, <1>8, <1>11, <1>12

\* A pcb in another state, with its queue dropped or not.
Ended(p, st, rx, now, o) ==
  [p EXCEPT !.state = st, !.rxclosed = rx, !.now = now, !.ooseq = o]

SameStream(q, p) ==
  /\ q.rcv_nxt = p.rcv_nxt /\ q.rcv_wnd = p.rcv_wnd
  /\ q.rcv_ann_right_edge = p.rcv_ann_right_edge
  /\ q.recv_data = p.recv_data /\ (q.got_fin <=> p.got_fin)
  /\ q.refused_data = p.refused_data

\* Its data stays.
LEMMA EndedOK ==
  ASSUME NEW p, Core(p), NEW st \in States, NEW rx \in BOOLEAN, NEW b \in BOOLEAN,
         NEW o, o \in {<<>>, p.ooseq}
  PROVE  LET q == Ended(p, st, rx, b, o)
         IN  Core(q) /\ q.state = st /\ SameStream(q, p)
<1> DEFINE r == [p EXCEPT !.state = st, !.ooseq = o]
           q == Ended(p, st, rx, b, o)
<1>1. p \in Pcb /\ QueueOK(p.ooseq, p.rcv_nxt + 1, p.rcv_nxt + p.rcv_wnd)
  BY DEF Core
<1>2. QueueOK(o, p.rcv_nxt + 1, p.rcv_nxt + p.rcv_wnd)
  BY <1>1, QueueSmall
<1>3. o \in Seq(SegmentType)
  BY <1>2 DEF QueueOK
<1>4. q = [r EXCEPT !.rxclosed = rx, !.now = b]
  BY DEF Ended
<1>5. /\ r \in Pcb /\ r.state = st /\ r.ooseq = o /\ r.out = p.out
      /\ r.rcv_ann_right_edge = p.rcv_ann_right_edge
      /\ r.rcv_nxt = p.rcv_nxt /\ r.rcv_wnd = p.rcv_wnd
      /\ r.rcv_ann_wnd = p.rcv_ann_wnd
      /\ r.recv_data = p.recv_data /\ (r.got_fin <=> p.got_fin)
      /\ r.refused_data = p.refused_data
  BY <1>1, <1>3 DEF Pcb
<1> HIDE DEF r, q
<1>6. /\ q \in Pcb /\ q.state = r.state /\ q.ooseq = r.ooseq /\ q.out = r.out
      /\ q.rcv_ann_right_edge = r.rcv_ann_right_edge
      /\ q.rcv_nxt = r.rcv_nxt /\ q.rcv_wnd = r.rcv_wnd
      /\ q.rcv_ann_wnd = r.rcv_ann_wnd
      /\ q.recv_data = r.recv_data /\ (q.got_fin <=> r.got_fin)
      /\ q.refused_data = r.refused_data
  BY <1>4, <1>5 DEF Pcb
<1>7. Core(q)
  BY <1>2, <1>5, <1>6 DEF Core, Announced
<1>8. SameStream(q, p) /\ q.state = st
  BY <1>5, <1>6 DEF SameStream
<1> QED  BY <1>7, <1>8 DEF q

\* tcp_close: a RST unless the whole window is free and nothing was refused.
LEMMA CloseOK ==
  ASSUME NEW p, Core(p), p.refused_data = <<>>
  PROVE  LET q == tcp_close(p)
         IN  /\ Core(q) /\ q.rcv_nxt = p.rcv_nxt /\ q.rcv_wnd = p.rcv_wnd
             /\ q.rcv_ann_right_edge = p.rcv_ann_right_edge
             /\ q.refused_data = <<>>
             /\ p.rcv_wnd # TCP_WND => q.state = "RESET"
             /\ p.rcv_wnd = TCP_WND =>
                  q.state = IF p.state = "CLOSE_WAIT" THEN "LAST_ACK" ELSE "FIN_WAIT_1"
<1> DEFINE q == tcp_close(p)
<1>1. p \in Pcb /\ p.now \in BOOLEAN
  BY DEF Core, Pcb
<1>2. CASE p.rcv_wnd # TCP_WND
  <2>1. q = Ended(p, "RESET", TRUE, p.now, <<>>)
    BY <1>1, <1>2 DEF tcp_close, Ended, Pcb
  <2>2. "RESET" \in States /\ TRUE \in BOOLEAN /\ <<>> \in {<<>>, p.ooseq}
    BY DEF States
  <2> HIDE DEF q
  <2>3. Core(q)
    BY <1>1, <2>1, <2>2, EndedOK
  <2>4. q.state = "RESET"
    BY <1>1, <2>1, <2>2, EndedOK
  <2>5. SameStream(q, p)
    BY <1>1, <2>1, <2>2, EndedOK
  <2> QED  BY <1>2, <2>3, <2>4, <2>5 DEF q, SameStream
<1>3. CASE p.rcv_wnd = TCP_WND
  <2> DEFINE st == IF p.state = "CLOSE_WAIT" THEN "LAST_ACK" ELSE "FIN_WAIT_1"
  <2>1. q = Ended(p, st, TRUE, p.now, p.ooseq)
    BY <1>1, <1>3 DEF tcp_close, Ended, Pcb
  <2>2. st \in States /\ TRUE \in BOOLEAN /\ p.ooseq \in {<<>>, p.ooseq}
    BY DEF States
  <2> HIDE DEF st, q
  <2>3. Core(q)
    BY <1>1, <2>1, <2>2, EndedOK
  <2>4. q.state = st
    BY <1>1, <2>1, <2>2, EndedOK
  <2>5. SameStream(q, p)
    BY <1>1, <2>1, <2>2, EndedOK
  <2> QED  BY <1>3, <2>3, <2>4, <2>5 DEF q, st, SameStream
<1> QED  BY <1>2, <1>3


-----------------------------------------------------------------------------
(* A segment arrives *)

\* What the console may have sent is a piece of its stream or empty, and lwIP
\* takes it as ReceiveOK says.  This is where the FIN has to fit the window.
LEMMA ArrivalOK ==
  ASSUME CountsFin, PcbInv, PeerInv, pcb.rcv_nxt <= Total + 1,
         NEW seqno \in 1..Total + 1, NEW len \in 0..TCP_MSS, NEW fin \in BOOLEAN,
         Sent(seqno, len, fin)
  PROVE  Result(tcp_receive(pcb, Segment(seqno, len, fin)), pcb)
<1> DEFINE s == Segment(seqno, len, fin)
           d == [i \in 1..len |-> seqno + i - 1]
<1>1. seqno \in Nat /\ len \in Nat /\ seqno >= 1 /\ seqno + len <= Total + 1
  BY TcpInAssumption, UvlReadAssumption DEF Sent
<1>2. d = Run(seqno, len) /\ d \in Seq(Bytes) /\ Len(d) = len
  <2>1. d = Run(seqno, len)
    BY DEF Run
  <2> HIDE DEF d
  <2> QED  BY <1>1, <2>1, RunBytes
<1>3. s = [seqno |-> seqno, data |-> d, fin |-> fin]
  BY DEF Segment
<1> HIDE DEF d
<1>4. s.seqno = seqno /\ s.data = d /\ (s.fin <=> fin) /\ s \in SegmentType
  BY <1>2, <1>3 DEF SegmentType
<1> HIDE DEF s
<1>5. Between(pcb) /\ pcb \in Pcb
  BY DEF PcbInv, Between, Core
<1>6. (fin => TCP_TCPLEN(s) = len + 1) /\ (~fin => TCP_TCPLEN(s) = len)
  BY <1>1, <1>2, <1>4 DEF TCP_TCPLEN
<1>7. CASE len = 0 /\ ~fin
  <2>1. TCP_TCPLEN(s) = 0
    BY <1>6, <1>7
  <2> QED  BY <1>5, <2>1, ReceiveEmpty DEF s
<1>8. CASE len # 0 \/ fin
  <2>1. SegmentOK(s)
    <3>1. TCP_TCPLEN(s) > 0
      BY <1>1, <1>6, <1>8
    <3>2. DataEnd(s) = seqno + len
      BY <1>2, <1>4 DEF DataEnd
    <3>3. fin => seqno + len = Total + 1
      BY DEF Sent
    <3> QED  BY <1>1, <1>2, <1>4, <3>1, <3>2, <3>3 DEF SegmentOK, SegmentType
  <2>2. /\ pcb.rcv_nxt \in Nat /\ pcb.rcv_wnd \in Nat /\ pcb.rcv_ann_wnd \in Nat
        /\ pcb.rcv_ann_right_edge \in Nat /\ console.edge \in Nat /\ console.una \in Nat
        /\ pcb.rcv_ann_right_edge <= pcb.rcv_nxt + pcb.rcv_ann_wnd
        /\ pcb.rcv_ann_wnd <= pcb.rcv_wnd
        /\ console.una <= pcb.rcv_nxt /\ console.edge <= pcb.rcv_ann_right_edge
    <3>1. Announced(pcb)
      BY DEF PcbInv, Core
    <3> QED  BY <1>5, <3>1, PcbFacts DEF Announced, PeerInv
  <2>3. CASE seqno + len + (IF fin /\ CountsFin THEN 1 ELSE 0) <= console.edge
    <3>1. s.seqno + TCP_TCPLEN(s) <= console.edge
      <4>1. CASE fin
        BY <1>1, <1>4, <1>6, <2>2, <2>3, <4>1
      <4>2. CASE ~fin
        BY <1>1, <1>4, <1>6, <2>2, <2>3, <4>2
      <4> QED  BY <4>1, <4>2
    <3>2. s.seqno + TCP_TCPLEN(s) \in Nat
      BY <1>1, <1>4, <1>6
    <3>3. s.seqno + TCP_TCPLEN(s) <= pcb.rcv_nxt + pcb.rcv_wnd
      BY <2>2, <3>1, <3>2
    <3> QED  BY <1>5, <2>1, <3>3, ReceiveOK DEF s
  <2>4. CASE seqno = console.una /\ len = 1 /\ ~fin
    <3>1. s.seqno <= pcb.rcv_nxt /\ TCP_TCPLEN(s) = 1
      BY <1>4, <1>6, <2>2, <2>4
    <3> QED  BY <1>5, <2>1, <3>1, ReceiveOK DEF s
  <2> QED  BY <2>3, <2>4 DEF Sent
<1> QED  BY <1>7, <1>8

\* The data in the client after the recv callback.
LEMMA BufferOK ==
  ASSUME StreamInv, NEW n \in Nat, NEW d, d = Run(Len(handed) + Len(client.recv_buf) + 1, n),
         Len(handed) + Len(client.recv_buf) + n <= Total,
         NEW c, c = IF d = <<>> THEN client ELSE uvl_client_recv_func(client, d)
  PROVE  /\ c \in Client /\ c.recv_buf = Run(Len(handed) + 1, Len(client.recv_buf) + n)
         /\ Len(c.recv_buf) = Len(client.recv_buf) + n
         /\ (c.closed <=> client.closed) /\ (c.read_cb <=> client.read_cb)
         /\ (c.closing <=> client.closing)
<1> DEFINE h == Len(handed)
           b == Len(client.recv_buf)
<1>1. h \in Nat /\ b \in Nat /\ client \in Client /\ client.recv_buf = Run(h + 1, b)
      /\ h + b + n <= Total
  BY StreamLengths DEF StreamInv
<1>2. d = Run((h + 1) + b, n)
  <2>1. h + b + 1 = (h + 1) + b
    <3> HIDE DEF h, b
    <3> QED  BY <1>1
  <2> QED  BY <2>1
<1> HIDE DEF h, b
<1>3. client.recv_buf \o d = Run(h + 1, b + n)
  <2> DEFINE g == h + 1
  <2>1. g \in Nat /\ client.recv_buf = Run(g, b) /\ d = Run(g + b, n)
    BY <1>1, <1>2
  <2> HIDE DEF g
  <2>2. client.recv_buf \o d = Run(g, b + n)
    BY <1>1, <2>1, RunConcat, ZenonT(30)
  <2> QED  BY <2>2 DEF g
<1>4. Run(h + 1, b + n) \in Seq(Bytes) /\ Len(Run(h + 1, b + n)) = b + n
  <2>1. h + 1 \in Nat /\ b + n \in Nat /\ h + 1 >= 1 /\ (h + 1) + (b + n) <= Total + 1
    BY <1>1, UvlReadAssumption
  <2> QED  BY <2>1, RunBytes
<1>5. CASE d = <<>>
  <2>1. n = 0
    <3>1. Len(d) = n
      BY <1>1, <1>2, RunSeq
    <3> QED  BY <1>5, <3>1
  <2>2. c = client /\ b + n = b
    BY <1>1, <1>5, <2>1
  <2> QED  BY <1>1, <1>4, <2>2 DEF h, b
<1>6. CASE d # <<>>
  <2>1. c = [client EXCEPT !.recv_buf = @ \o d, !.read_req = TRUE]
    BY <1>6 DEF uvl_client_recv_func
  <2> DEFINE e == client.recv_buf \o d
  <2>2. c = [client EXCEPT !.recv_buf = e, !.read_req = TRUE]
    BY <2>1
  <2>3. e \in Seq(Bytes) /\ e = Run(h + 1, b + n) /\ Len(e) = b + n
    BY <1>3, <1>4
  <2> HIDE DEF e
  <2>4. /\ c \in Client /\ c.recv_buf = e
        /\ (c.closed <=> client.closed) /\ (c.read_cb <=> client.read_cb)
        /\ (c.closing <=> client.closing)
    BY <1>1, <2>2, <2>3 DEF Client
  <2> QED  BY <2>3, <2>4 DEF h, b
<1> QED  BY <1>5, <1>6

\* The FIN's place in the window is given back.
LEMMA FinTakenOK ==
  ASSUME NEW p, Core(p), p.ooseq = <<>>, p.rcv_wnd + 1 <= TCP_WND
  PROVE  LET q == FinTaken(p)
         IN  /\ Core(q) /\ q.rcv_wnd = p.rcv_wnd + 1 /\ q.rcv_nxt = p.rcv_nxt
             /\ q.rcv_ann_right_edge = p.rcv_ann_right_edge
             /\ q.state = p.state /\ q.refused_data = p.refused_data
<1> DEFINE w == MinOf(p.rcv_wnd + 1, TCP_WND)
           q == FinTaken(p)
<1>1. p \in Pcb /\ p.rcv_wnd \in Nat /\ p.rcv_nxt \in Nat /\ p.rcv_ann_wnd \in Nat
  BY PcbFacts DEF Core
<1>2. w = p.rcv_wnd + 1 /\ w \in Nat
  BY <1>1, TcpInAssumption DEF MinOf
<1>3. q = [p EXCEPT !.rcv_wnd = w]
  BY DEF FinTaken
<1> HIDE DEF w, q
<1>4. /\ q \in Pcb /\ q.rcv_wnd = w /\ q.rcv_nxt = p.rcv_nxt /\ q.rcv_ann_wnd = p.rcv_ann_wnd
      /\ q.rcv_ann_right_edge = p.rcv_ann_right_edge /\ q.ooseq = p.ooseq /\ q.out = p.out
      /\ q.state = p.state /\ q.refused_data = p.refused_data
  BY <1>1, <1>2, <1>3 DEF Pcb
<1>5. Announced(q) /\ q.rcv_wnd <= TCP_WND
  <2>1. p.rcv_ann_right_edge <= p.rcv_nxt + p.rcv_ann_wnd /\ p.rcv_ann_wnd <= p.rcv_wnd
    BY DEF Core, Announced
  <2>2. q.rcv_ann_wnd <= q.rcv_wnd
    BY <1>1, <1>2, <1>4, <2>1
  <2> QED  BY <1>2, <1>4, <2>1, <2>2 DEF Announced
<1>6. QueueOK(q.ooseq, q.rcv_nxt + 1, q.rcv_nxt + q.rcv_wnd)
  BY <1>4, QueueSmall
<1>7. Core(q)
  BY <1>4, <1>5, <1>6 DEF Core
<1> QED  BY <1>2, <1>4, <1>7 DEF q

\* The numbers in InputOK: h bytes handed over, b in recv_buf, n received.
LEMMA InputNumbers ==
  ASSUME NEW h \in Nat, NEW b \in Nat, NEW n \in Nat, NEW T \in Nat, NEW W \in Nat,
         NEW nxt \in Nat, NEW wnd \in Nat, NEW rn \in Nat, NEW rw \in Nat,
         nxt = h + b + 1, wnd + b = W, rn + rw = nxt + wnd, h + b + 1 + n <= T + 1
  PROVE  /\ h + b + n <= T /\ h + (b + n) <= T
         /\ rn = h + b + 1 + n => /\ n <= W - b /\ nxt <= rn /\ rn = h + (b + n) + 1
                                  /\ rw + (b + n) = W
         /\ rn = T + 2 /\ h + b + 1 + n = T + 1 =>
              /\ n <= W - b /\ nxt <= rn /\ rw + 1 = W - (b + n) /\ rw + 1 <= W
              /\ h + (b + n) = T
OBVIOUS

\* tcp_input of a segment: all that tcp_receive took finds room in recv_buf,
\* and a FIN ends the connection in good order only when recv_buf is empty.
LEMMA InputOK ==
  ASSUME ReadInv, NEW seg, Result(tcp_receive(pcb, seg), pcb), tcp_input(seg)
  PROVE  ReadInv' /\ Forward
<1> DEFINE r == tcp_receive(pcb, seg)
           p == tcp_process(pcb, seg)
           d == r.recv_data
           n == Len(d)
           h == Len(handed)
           b == Len(client.recv_buf)
           refused == p.recv_data # <<>> /\ ~HasRoom(client, p.recv_data)
           q == IF refused THEN [p EXCEPT !.refused_data = p.recv_data] ELSE p
           c == IF p.recv_data = <<>> \/ refused THEN client
                ELSE uvl_client_recv_func(client, p.recv_data)
           fin == p.got_fin /\ ~refused
<1>1. /\ PcbInv /\ StreamInv /\ PeerInv /\ ~client.closed
      /\ IF fin THEN /\ Commit(tcp_output(tcp_close(FinTaken(q))))
                     /\ client' = uvl_client_freed(c)
         ELSE Commit(tcp_output(q)) /\ client' = c
      /\ console' = console /\ handed' = handed
  BY DEF ReadInv, tcp_input
<1>2. /\ Core(r) /\ Received(r, pcb.rcv_nxt) /\ r.state = pcb.state
      /\ r.rcv_nxt + r.rcv_wnd = pcb.rcv_nxt + pcb.rcv_wnd
      /\ r.refused_data = pcb.refused_data
      /\ pcb.rcv_ann_right_edge <= r.rcv_ann_right_edge
  BY DEF Result
<1> HIDE DEF r, p
<1>3. r \in Pcb /\ r.now \in BOOLEAN /\ r.rxclosed \in BOOLEAN /\ r.got_fin \in BOOLEAN
      /\ r.rcv_nxt \in Nat /\ r.rcv_wnd \in Nat /\ n \in Nat /\ d \in Seq(Bytes)
  <2>1. r \in Pcb
    BY <1>2 DEF Core
  <2>2. r.rxclosed \in BOOLEAN
    BY <2>1 DEF Pcb
  <2> QED  BY <2>1, <2>2, PcbFacts
<1>4. pcb \in Pcb /\ pcb.rcv_nxt \in Nat /\ pcb.rcv_wnd \in Nat /\ pcb.rcv_ann_right_edge \in Nat
  BY <1>1, PcbFacts DEF PcbInv, Core
<1>5. /\ h \in Nat /\ b \in Nat /\ pcb.rcv_nxt = h + b + 1 /\ pcb.rcv_wnd + b = TCP_WND
      /\ pcb.state = "ESTABLISHED"
  BY <1>1, StreamLengths DEF StreamInv
<1>6. /\ d = Run(h + b + 1, n) /\ h + b + 1 + n <= Total + 1
      /\ ~r.got_fin => r.rcv_nxt = h + b + 1 + n
      /\ r.got_fin => r.rcv_nxt = Total + 2 /\ h + b + 1 + n = Total + 1 /\ r.ooseq = <<>>
  BY <1>2, <1>5 DEF Received
<1>7. /\ Core(p) /\ p.rcv_nxt = r.rcv_nxt /\ p.rcv_wnd = r.rcv_wnd
      /\ p.rcv_ann_right_edge = r.rcv_ann_right_edge
      /\ p.recv_data = d /\ (p.got_fin <=> r.got_fin)
      /\ p.refused_data = r.refused_data
      /\ p.ooseq = r.ooseq
      /\ p.state = IF r.got_fin THEN "CLOSE_WAIT" ELSE r.state
  <2>1. CASE r.got_fin
    <3>1. p = Ended(r, "CLOSE_WAIT", r.rxclosed, TRUE, r.ooseq)
      <4>1. p = [r EXCEPT !.now = TRUE, !.state = "CLOSE_WAIT"]
        BY <2>1 DEF p, r, tcp_process
      <4> QED  BY <1>3, <4>1 DEF Ended, Pcb
    <3>2. "CLOSE_WAIT" \in States /\ TRUE \in BOOLEAN /\ r.ooseq \in {<<>>, r.ooseq}
      BY DEF States
    <3>3. Core(p)
      BY <1>2, <1>3, <3>1, <3>2, EndedOK
    <3>4. p.state = "CLOSE_WAIT"
      BY <1>3, <3>1 DEF Ended, Pcb
    <3>5. SameStream(p, r)
      BY <1>2, <1>3, <3>1, <3>2, EndedOK
    <3>6. p.ooseq = r.ooseq
      BY <1>3, <3>1 DEF Ended, Pcb
    <3> QED  BY <2>1, <3>3, <3>4, <3>5, <3>6 DEF SameStream
  <2>2. CASE ~r.got_fin
    <3>1. p = r
      BY <2>2 DEF p, r, tcp_process
    <3> QED  BY <1>2, <2>2, <3>1
  <2> QED  BY <2>1, <2>2
<1>8. p.refused_data = <<>>
  BY <1>1, <1>2, <1>7 DEF PcbInv
<1> HIDE DEF d, n, h, b
<1>20. /\ h + b + n <= Total /\ h + (b + n) <= Total
       /\ n <= TCP_WND - b /\ pcb.rcv_nxt <= r.rcv_nxt
       /\ ~r.got_fin => r.rcv_nxt = h + (b + n) + 1 /\ r.rcv_wnd + (b + n) = TCP_WND
       /\ r.got_fin => /\ r.rcv_wnd + 1 = TCP_WND - (b + n) /\ r.rcv_wnd + 1 <= TCP_WND
                       /\ h + (b + n) = Total
  <2>1. TCP_WND \in Nat /\ Total \in Nat
    BY TcpInAssumption, UvlReadAssumption
  <2>2. /\ h + b + n <= Total /\ h + (b + n) <= Total
        /\ r.rcv_nxt = h + b + 1 + n =>
             /\ n <= TCP_WND - b /\ pcb.rcv_nxt <= r.rcv_nxt /\ r.rcv_nxt = h + (b + n) + 1
             /\ r.rcv_wnd + (b + n) = TCP_WND
        /\ r.rcv_nxt = Total + 2 /\ h + b + 1 + n = Total + 1 =>
             /\ n <= TCP_WND - b /\ pcb.rcv_nxt <= r.rcv_nxt
             /\ r.rcv_wnd + 1 = TCP_WND - (b + n) /\ r.rcv_wnd + 1 <= TCP_WND
             /\ h + (b + n) = Total
    <3> DEFINE nxt == pcb.rcv_nxt
               wnd == pcb.rcv_wnd
               rn == r.rcv_nxt
               rw == r.rcv_wnd
    <3>1. /\ h \in Nat /\ b \in Nat /\ n \in Nat /\ nxt \in Nat /\ wnd \in Nat
          /\ rn \in Nat /\ rw \in Nat
          /\ nxt = h + b + 1 /\ wnd + b = TCP_WND /\ rn + rw = nxt + wnd
          /\ h + b + 1 + n <= Total + 1
      BY <1>2, <1>3, <1>4, <1>5, <1>6
    <3> HIDE DEF nxt, wnd, rn, rw
    <3>2. /\ h + b + n <= Total /\ h + (b + n) <= Total
          /\ rn = h + b + 1 + n =>
               /\ n <= TCP_WND - b /\ nxt <= rn /\ rn = h + (b + n) + 1
               /\ rw + (b + n) = TCP_WND
          /\ rn = Total + 2 /\ h + b + 1 + n = Total + 1 =>
               /\ n <= TCP_WND - b /\ nxt <= rn
               /\ rw + 1 = TCP_WND - (b + n) /\ rw + 1 <= TCP_WND
               /\ h + (b + n) = Total
      BY <2>1, <3>1, InputNumbers
    <3> QED  BY <3>2 DEF nxt, rn, rw
  <2>3. CASE r.got_fin
    BY <1>6, <2>2, <2>3
  <2>4. CASE ~r.got_fin
    BY <1>6, <2>2, <2>4
  <2> QED  BY <2>3, <2>4
<1>9. ~refused
  <2>3. HasRoom(client, p.recv_data)
    BY <1>7, <1>20 DEF HasRoom, UVL_TCP_RECV_BUF_LEN, n, b
  <2> QED  BY <2>3
<1>10. q = p /\ (fin <=> r.got_fin)
  BY <1>7, <1>9
<1>11. c = IF d = <<>> THEN client ELSE uvl_client_recv_func(client, d)
  BY <1>7, <1>9
<1> HIDE DEF refused, q, c, fin
<1>12. /\ c \in Client /\ c.recv_buf = Run(h + 1, b + n)
       /\ Len(c.recv_buf) = b + n
       /\ (c.closed <=> client.closed) /\ (c.read_cb <=> client.read_cb)
       /\ (c.closing <=> client.closing)
  BY <1>1, <1>3, <1>6, <1>11, <1>20, BufferOK DEF h, b
<1>13. /\ handed \in Seq(Bytes) /\ handed = Run(1, h) /\ ~client.closing
       /\ h + (b + n) <= Total
  BY <1>1, <1>20 DEF StreamInv, h
<1>15. CASE ~r.got_fin
  <2> DEFINE o == tcp_output(p)
  <2>1. Commit(o) /\ client' = c
    BY <1>1, <1>10, <1>15
  <2>2. Core(o) /\ SameData(o, p)
    BY <1>7, OutputOK
  <2> HIDE DEF o
  <2>3. /\ o.refused_data = <<>> /\ o.rcv_nxt = r.rcv_nxt /\ o.rcv_wnd = r.rcv_wnd
        /\ o.state = "ESTABLISHED" /\ p.rcv_ann_right_edge <= o.rcv_ann_right_edge
    BY <1>2, <1>5, <1>7, <1>8, <1>15, <2>2 DEF SameData
  <2>4. pcb.rcv_nxt <= o.rcv_nxt /\ pcb.rcv_ann_right_edge <= o.rcv_ann_right_edge
    <3> DEFINE x == pcb.rcv_ann_right_edge
               y == p.rcv_ann_right_edge
               z == o.rcv_ann_right_edge
    <3>1. x \in Nat /\ y \in Nat /\ z \in Nat
      BY <1>4, <1>7, <2>2, PcbFacts DEF Core
    <3>2. x <= y /\ y <= z
      BY <1>2, <1>7, <2>3
    <3>3. pcb.rcv_nxt <= o.rcv_nxt
      BY <1>20, <2>3
    <3> HIDE DEF x, y, z
    <3>4. x <= z
      BY <3>1, <3>2
    <3> QED  BY <3>3, <3>4 DEF x, z
  <2>5. /\ PcbInv' /\ PeerInv' /\ Forward
        /\ pcb'.state = "ESTABLISHED" /\ pcb'.rcv_nxt = r.rcv_nxt /\ pcb'.rcv_wnd = r.rcv_wnd
    BY <1>1, <2>1, <2>2, <2>3, <2>4, CommitOK
  <2>6. /\ pcb'.rcv_nxt = h + (b + n) + 1 /\ pcb'.rcv_wnd + (b + n) = TCP_WND
    BY <1>15, <1>20, <2>5
  <2>7. StreamInv'
    BY <1>1, <1>12, <1>13, <2>1, <2>5, <2>6 DEF StreamInv, h
  <2> QED  BY <2>5, <2>7 DEF ReadInv
<1>16. CASE r.got_fin
  <2> DEFINE f == FinTaken(p)
             k == tcp_close(f)
             o == tcp_output(k)
  <2>1. Commit(o) /\ client' = uvl_client_freed(c)
    BY <1>1, <1>10, <1>16
  <2>2. r.rcv_wnd + 1 = TCP_WND - (b + n) /\ p.rcv_wnd + 1 <= TCP_WND /\ p.ooseq = <<>>
        /\ p.state = "CLOSE_WAIT" /\ h + (b + n) = Total
    BY <1>6, <1>7, <1>16, <1>20
  <2>3. /\ Core(f) /\ f.rcv_wnd = p.rcv_wnd + 1 /\ f.rcv_nxt = p.rcv_nxt
        /\ f.rcv_ann_right_edge = p.rcv_ann_right_edge
        /\ f.state = p.state /\ f.refused_data = p.refused_data
    BY <1>7, <2>2, FinTakenOK
  <2> HIDE DEF f
  <2>4. f.refused_data = <<>> /\ f.state = "CLOSE_WAIT"
    BY <1>8, <2>2, <2>3
  <2>5. /\ Core(k) /\ k.rcv_nxt = f.rcv_nxt
        /\ k.rcv_ann_right_edge = f.rcv_ann_right_edge /\ k.refused_data = <<>>
        /\ f.rcv_wnd # TCP_WND => k.state = "RESET"
        /\ f.rcv_wnd = TCP_WND => k.state = "LAST_ACK"
    BY <2>3, <2>4, CloseOK
  <2> HIDE DEF k
  <2>6. Core(o) /\ SameData(o, k)
    BY <2>5, OutputOK
  <2> HIDE DEF o
  <2>7. /\ o.refused_data = <<>> /\ o.rcv_nxt = r.rcv_nxt /\ o.state = k.state
        /\ r.rcv_ann_right_edge <= o.rcv_ann_right_edge
    BY <1>7, <2>3, <2>5, <2>6 DEF SameData
  <2>8. pcb.rcv_nxt <= o.rcv_nxt /\ pcb.rcv_ann_right_edge <= o.rcv_ann_right_edge
    <3> DEFINE x == pcb.rcv_ann_right_edge
               y == r.rcv_ann_right_edge
               z == o.rcv_ann_right_edge
    <3>1. x \in Nat /\ y \in Nat /\ z \in Nat
      BY <1>2, <1>4, <2>6, PcbFacts DEF Core
    <3>2. x <= y /\ y <= z
      BY <1>2, <2>7
    <3>3. pcb.rcv_nxt <= o.rcv_nxt
      BY <1>20, <2>7
    <3> HIDE DEF x, y, z
    <3>4. x <= z
      BY <3>1, <3>2
    <3> QED  BY <3>3, <3>4 DEF x, z
  <2>9. PcbInv' /\ PeerInv' /\ Forward /\ pcb'.state = k.state
    BY <1>1, <2>1, <2>6, <2>7, <2>8, CommitOK
  <2>10. /\ client' \in Client /\ client'.recv_buf = c.recv_buf /\ client'.closed
         /\ ~client'.read_cb
    BY <1>12, <2>1 DEF uvl_client_freed, Client
  <2>11. CASE b + n = 0
    <3>1. k.state = "LAST_ACK"
      BY <1>7, <2>2, <2>3, <2>5, <2>11, TcpInAssumption
    <3>2. c.recv_buf = <<>> /\ h = Total
      <4>1. c.recv_buf \in Seq(Bytes) /\ Len(c.recv_buf) = 0
        BY <1>12, <2>11 DEF Client
      <4> QED  BY <1>5, <2>2, <2>11, <4>1
    <3>3. StreamInv'
      BY <1>1, <1>12, <1>13, <2>9, <2>10, <3>1, <3>2 DEF StreamInv, h
    <3> QED  BY <2>9, <3>3 DEF ReadInv
  <2>12. CASE b + n # 0
    <3>1. k.state = "RESET"
      <4> DEFINE fw == f.rcv_wnd
                 m == b + n
      <4>1. fw = TCP_WND - m /\ m \in Nat /\ m # 0 /\ TCP_WND \in Nat
        <5>1. fw = r.rcv_wnd + 1
          BY <1>7, <2>3
        <5>2. r.rcv_wnd + 1 = TCP_WND - m
          BY <2>2
        <5>3. m \in Nat /\ m # 0
          BY <1>3, <1>5, <2>12
        <5> QED  BY <5>1, <5>2, <5>3, TcpInAssumption
      <4> HIDE DEF fw, m
      <4>2. fw # TCP_WND
        BY <4>1
      <4> QED  BY <2>5, <4>2 DEF fw
    <3>2. StreamInv'
      BY <1>1, <1>12, <1>13, <2>9, <2>10, <3>1 DEF StreamInv, h
    <3> QED  BY <2>9, <3>2 DEF ReadInv
  <2> QED  BY <2>11, <2>12
<1> QED  BY <1>3, <1>15, <1>16

\* A step that leaves the client alone, and ends with a pcb p that fits.
LEMMA SameClient ==
  ASSUME StreamInv, client' = client, handed' = handed,
         \/ pcb'.state = "RESET" /\ client.closed
         \/ /\ pcb'.state = pcb.state /\ pcb'.rcv_nxt = pcb.rcv_nxt
            /\ pcb'.rcv_wnd = pcb.rcv_wnd
         \/ /\ client.closed /\ pcb.state \in {"FIN_WAIT_1", "FIN_WAIT_2"}
            /\ \/ /\ pcb'.state \in {"FIN_WAIT_1", "FIN_WAIT_2"}
                  /\ pcb'.rcv_nxt = pcb.rcv_nxt
               \/ pcb'.state \in {"CLOSING", "TIME_WAIT"} /\ Len(handed) = Total
               \/ pcb'.state = "GONE" /\ pcb'.rcv_nxt <= Total + 1
  PROVE  StreamInv'
BY DEF StreamInv

\* A pcb that is freed keeps its data.
LEMMA FreedOK ==
  ASSUME NEW p, Core(p), NEW st \in States
  PROVE  Core(Freed(p, st)) /\ Freed(p, st).state = st /\ SameStream(Freed(p, st), p)
<1>1. p \in Pcb /\ p.rxclosed \in BOOLEAN /\ p.now \in BOOLEAN /\ <<>> \in {<<>>, p.ooseq}
  BY DEF Core, Pcb
<1>2. Freed(p, st) = Ended(p, st, p.rxclosed, p.now, <<>>)
  BY <1>1 DEF Freed, Ended, Pcb
<1>3. LET q == Ended(p, st, p.rxclosed, p.now, <<>>)
      IN  Core(q) /\ q.state = st /\ SameStream(q, p)
  BY <1>1, EndedOK
<1> QED  BY <1>2, <1>3

\* A step that changes at most ooseq and the state of the pcb.
LEMMA SameStreamOK ==
  ASSUME PcbInv, PeerInv, Core(pcb'), SameStream(pcb', pcb), console' = console, ack' = ack
  PROVE  PcbInv' /\ PeerInv' /\ Forward
<1>1. pcb \in Pcb /\ pcb.rcv_nxt \in Nat /\ pcb.rcv_ann_right_edge \in Nat
  BY PcbFacts DEF PcbInv, Core
<1>2. PcbInv'
  BY DEF PcbInv, SameStream
<1>3. PeerInv'
  BY DEF PeerInv, SameStream
<1>4. Forward
  BY <1>1 DEF Forward, SameStream
<1> QED  BY <1>2, <1>3, <1>4

\* The state that tcp_process leaves after the program has closed.
LEMMA ProcessClosedOK ==
  ASSUME NEW seg, NEW acked \in BOOLEAN, Result(tcp_receive(pcb, seg), pcb),
         pcb.state \in {"FIN_WAIT_1", "FIN_WAIT_2"}
  PROVE  LET p == tcp_process_closed(pcb, seg, acked)
         IN  /\ Core(p) /\ SameStream(p, tcp_receive(pcb, seg))
             /\ p.got_fin => p.state \in {"CLOSING", "TIME_WAIT"} /\ p.ooseq = <<>>
             /\ ~p.got_fin => p.state \in {"FIN_WAIT_1", "FIN_WAIT_2"}
<1> DEFINE r == tcp_receive(pcb, seg)
           p == tcp_process_closed(pcb, seg, acked)
           fin_acked == acked \/ pcb.state = "FIN_WAIT_2"
           st == IF ~r.got_fin THEN IF fin_acked THEN "FIN_WAIT_2" ELSE r.state
                 ELSE IF fin_acked THEN "TIME_WAIT" ELSE "CLOSING"
           now == IF r.got_fin THEN TRUE ELSE r.now
           o == IF r.got_fin /\ fin_acked THEN <<>> ELSE r.ooseq
<1>1. Core(r) /\ r \in Pcb /\ r.state = pcb.state /\ (r.got_fin => r.ooseq = <<>>)
  BY DEF Result, Core, Received
<1>2. p = IF ~r.got_fin THEN [r EXCEPT !.state = IF fin_acked THEN "FIN_WAIT_2" ELSE @]
          ELSE IF ~fin_acked THEN [r EXCEPT !.now = TRUE, !.state = "CLOSING"]
          ELSE [r EXCEPT !.now = TRUE, !.state = "TIME_WAIT", !.ooseq = <<>>]
  BY DEF tcp_process_closed
<1> HIDE DEF r, p
<1>3. r.rxclosed \in BOOLEAN /\ r.now \in BOOLEAN
  BY <1>1 DEF Pcb
<1>4. p = Ended(r, st, r.rxclosed, now, o)
  BY <1>1, <1>2 DEF Ended, Pcb
<1>5. st \in States /\ now \in BOOLEAN /\ o \in {<<>>, r.ooseq}
  BY <1>1, <1>3 DEF States
<1>6. /\ r.got_fin => st \in {"CLOSING", "TIME_WAIT"} /\ o = <<>>
      /\ ~r.got_fin => st \in {"FIN_WAIT_1", "FIN_WAIT_2"}
  BY <1>1
<1>7. p.ooseq = o
  BY <1>1, <1>4 DEF Ended, Pcb
<1> HIDE DEF st, now, o, fin_acked
<1>8. LET q == Ended(r, st, r.rxclosed, now, o)
      IN  Core(q) /\ q.state = st /\ SameStream(q, r)
  BY <1>1, <1>3, <1>5, EndedOK
<1>9. Core(p) /\ p.state = st /\ SameStream(p, r)
  BY <1>4, <1>8
<1>10. p.got_fin <=> r.got_fin
  BY <1>9 DEF SameStream
<1> QED  BY <1>6, <1>7, <1>9, <1>10 DEF p, r

\* tcp_input for a client that is closed: data makes lwIP abort, and the FIN
\* is accepted only when there was none.
LEMMA InputAfterCloseOK ==
  ASSUME ReadInv, NEW seg, NEW acked \in BOOLEAN, Result(tcp_receive(pcb, seg), pcb),
         InputAfterClose(seg, acked)
  PROVE  ReadInv' /\ Forward
<1> DEFINE r == tcp_receive(pcb, seg)
           p == tcp_process_closed(pcb, seg, acked)
           f == IF p.got_fin THEN FinTaken(p) ELSE p
<1>1. /\ PcbInv /\ StreamInv /\ PeerInv /\ client.closed
      /\ pcb.state \in {"FIN_WAIT_1", "FIN_WAIT_2"}
      /\ IF p.recv_data = <<>> THEN Commit(tcp_output(f))
         ELSE IF p.state # "TIME_WAIT" THEN Commit(Freed(p, "RESET"))
         ELSE pcb' = Freed(pcb, "GONE") /\ ack' = ack
      /\ console' = console /\ client' = client /\ handed' = handed
  BY DEF ReadInv, InputAfterClose
<1>20. PcbInv /\ StreamInv
  BY DEF ReadInv
<1>21. client.closed /\ pcb.state \in {"FIN_WAIT_1", "FIN_WAIT_2"}
  BY <1>1
<1>2. /\ Core(r) /\ Received(r, pcb.rcv_nxt) /\ r.refused_data = pcb.refused_data
      /\ r.rcv_nxt + r.rcv_wnd = pcb.rcv_nxt + pcb.rcv_wnd
      /\ pcb.rcv_ann_right_edge <= r.rcv_ann_right_edge
  BY DEF Result
<1>3. /\ Core(p) /\ SameStream(p, r)
      /\ p.got_fin => p.state \in {"CLOSING", "TIME_WAIT"} /\ p.ooseq = <<>>
      /\ ~p.got_fin => p.state \in {"FIN_WAIT_1", "FIN_WAIT_2"}
  BY <1>1, ProcessClosedOK
<1> HIDE DEF p, r
<1>4. /\ p.rcv_nxt = r.rcv_nxt /\ p.rcv_wnd = r.rcv_wnd
      /\ p.rcv_ann_right_edge = r.rcv_ann_right_edge
      /\ p.recv_data = r.recv_data /\ (p.got_fin <=> r.got_fin)
      /\ p.refused_data = <<>>
  BY <1>1, <1>2, <1>3 DEF SameStream, PcbInv
<1>5. /\ Core(pcb) /\ pcb \in Pcb /\ pcb.rcv_nxt \in Nat /\ pcb.rcv_ann_right_edge \in Nat
      /\ pcb.rcv_wnd \in Nat /\ pcb.rcv_nxt >= 1 /\ pcb.rcv_wnd <= TCP_WND
  <2> HIDE DEF f
  <2>1. Core(pcb) /\ pcb \in Pcb /\ pcb.rcv_nxt \in 1..Total + 2 /\ pcb.rcv_wnd <= TCP_WND
    BY ONLY <1>20 DEF PcbInv, Core
  <2>2. pcb.rcv_nxt \in Nat /\ pcb.rcv_ann_right_edge \in Nat /\ pcb.rcv_wnd \in Nat
    BY ONLY <2>1, PcbFacts
  <2> QED  BY <2>1, <2>2, UvlReadAssumption
<1>6. /\ p \in Pcb /\ p.rcv_nxt \in Nat /\ p.rcv_ann_right_edge \in Nat /\ p.rcv_wnd \in Nat
  BY <1>3, PcbFacts DEF Core
<1>7. Len(handed) \in Nat /\ pcb.rcv_nxt = Len(handed) + 1 /\ Len(handed) <= Total
  <2>1. Len(handed) \in Nat /\ Len(client.recv_buf) \in Nat
    BY <1>20, StreamLengths
  <2>2. pcb.rcv_nxt = Len(handed) + 1 /\ Len(handed) + Len(client.recv_buf) <= Total
    BY ONLY <1>20, <1>21 DEF StreamInv
  <2> QED  BY ONLY <2>1, <2>2, UvlReadAssumption
<1>8. r \in Pcb /\ r.rcv_nxt \in Nat
  BY <1>2, PcbFacts DEF Core
<1>9. pcb.rcv_nxt <= p.rcv_nxt
  BY <1>2, <1>4, <1>5, <1>8, ReceivedNext
<1>10. ASSUME NEW o, Core(o), Commit(o), o.refused_data = <<>>, o.rcv_nxt = p.rcv_nxt,
              p.rcv_ann_right_edge <= o.rcv_ann_right_edge
       PROVE  PcbInv' /\ PeerInv' /\ Forward /\ pcb'.state = o.state /\ pcb'.rcv_nxt = p.rcv_nxt
  <2>1. o.rcv_ann_right_edge \in Nat
    BY <1>10, PcbFacts DEF Core
  <2>2. pcb.rcv_nxt <= o.rcv_nxt /\ pcb.rcv_ann_right_edge <= o.rcv_ann_right_edge
    <3>1. /\ pcb.rcv_ann_right_edge <= p.rcv_ann_right_edge
          /\ p.rcv_ann_right_edge <= o.rcv_ann_right_edge
      BY <1>2, <1>4, <1>10
    <3>2. pcb.rcv_ann_right_edge \in Nat /\ p.rcv_ann_right_edge \in Nat
      BY <1>5, <1>6
    <3>3. pcb.rcv_ann_right_edge <= o.rcv_ann_right_edge
      BY ONLY <2>1, <3>1, <3>2
    <3> QED  BY <1>9, <1>10, <3>3
  <2> QED  BY <1>1, <1>10, <2>2, CommitOK
<1>11. CASE p.recv_data = <<>>
  <2> DEFINE o == tcp_output(f)
  <2>1. Commit(o)
    BY <1>1, <1>11
  <2>2. /\ Core(f) /\ f.rcv_nxt = p.rcv_nxt /\ f.state = p.state /\ f.refused_data = <<>>
        /\ f.rcv_ann_right_edge = p.rcv_ann_right_edge
    <3>1. CASE p.got_fin
      <4>1. p.ooseq = <<>> /\ f = FinTaken(p)
        BY <1>3, <3>1
      <4>2. p.rcv_wnd + 1 <= TCP_WND
        <5>1. p.rcv_nxt = Total + 2 /\ pcb.rcv_nxt <= Total + 1
          <6>1. p.rcv_nxt = Total + 2
            BY <1>2, <1>4, <3>1 DEF Received
          <6> QED  BY ONLY <1>7, <6>1, UvlReadAssumption
        <5>2. p.rcv_nxt + p.rcv_wnd = pcb.rcv_nxt + pcb.rcv_wnd
          BY <1>2, <1>4
        <5> QED  BY <1>5, <1>6, <5>1, <5>2, UvlReadAssumption, TcpInAssumption
      <4> HIDE DEF f
      <4> QED  BY <1>3, <1>4, <4>1, <4>2, FinTakenOK
    <3>2. CASE ~p.got_fin
      BY <1>3, <1>4, <3>2
    <3> QED  BY <3>1, <3>2
  <2> HIDE DEF f
  <2>3. Core(o) /\ SameData(o, f)
    BY <2>2, OutputOK
  <2> HIDE DEF o
  <2>4. /\ o.refused_data = <<>> /\ o.rcv_nxt = p.rcv_nxt /\ o.state = p.state
        /\ p.rcv_ann_right_edge <= o.rcv_ann_right_edge
    BY <2>2, <2>3 DEF SameData
  <2>5. PcbInv' /\ PeerInv' /\ Forward /\ pcb'.state = p.state /\ pcb'.rcv_nxt = p.rcv_nxt
    BY <1>10, <2>1, <2>3, <2>4
  <2>6. Len(r.recv_data) = 0
    BY <1>4, <1>11
  <2>7. StreamInv'
    <3>1. CASE p.got_fin
      <4>1. pcb.rcv_nxt + Len(r.recv_data) = Total + 1
        BY <1>2, <1>4, <3>1 DEF Received
      <4>2. Len(handed) = Total
        BY <1>7, <2>6, <4>1, UvlReadAssumption
      <4> QED  BY <1>1, <1>3, <2>5, <3>1, <4>2, SameClient
    <3>2. CASE ~p.got_fin
      <4>1. r.rcv_nxt = pcb.rcv_nxt + Len(r.recv_data)
        BY <1>2, <1>4, <3>2 DEF Received
      <4>2. pcb'.rcv_nxt = pcb.rcv_nxt
        BY <1>4, <1>5, <2>5, <2>6, <4>1
      <4> QED  BY <1>1, <1>3, <2>5, <3>2, <4>2, SameClient
    <3> QED  BY <3>1, <3>2
  <2> QED  BY <2>5, <2>7 DEF ReadInv
<1>12. CASE p.recv_data # <<>> /\ p.state # "TIME_WAIT"
  <2> DEFINE e == Freed(p, "RESET")
  <2>1. Commit(e)
    BY <1>1, <1>12
  <2>2. Core(e) /\ e.state = "RESET" /\ SameStream(e, p)
    BY <1>3, FreedOK DEF States
  <2> HIDE DEF e
  <2>3. /\ e.refused_data = <<>> /\ e.rcv_nxt = p.rcv_nxt
        /\ p.rcv_ann_right_edge <= e.rcv_ann_right_edge
    BY <1>4, <1>6, <2>2 DEF SameStream
  <2>4. PcbInv' /\ PeerInv' /\ Forward /\ pcb'.state = "RESET"
    BY <1>10, <2>1, <2>2, <2>3
  <2>5. StreamInv'
    BY <1>1, <2>4, SameClient
  <2> QED  BY <2>4, <2>5 DEF ReadInv
<1>13. CASE p.recv_data # <<>> /\ p.state = "TIME_WAIT"
  <2>1. pcb' = Freed(pcb, "GONE") /\ ack' = ack
    BY <1>1, <1>13
  <2>2. Core(pcb') /\ pcb'.state = "GONE" /\ SameStream(pcb', pcb)
    BY <1>5, <2>1, FreedOK DEF States
  <2>3. PcbInv' /\ PeerInv' /\ Forward
    BY <1>1, <2>1, <2>2, SameStreamOK
  <2>4. pcb'.rcv_nxt <= Total + 1
    BY <1>5, <1>7, <2>2, UvlReadAssumption DEF SameStream
  <2>5. StreamInv'
    BY <1>1, <2>2, <2>4, SameClient
  <2> QED  BY <2>3, <2>5 DEF ReadInv
<1> QED  BY <1>11, <1>12, <1>13

\* tcp_input without a pcb.
LEMMA WithoutPcbOK ==
  ASSUME ReadInv, InputWithoutPcb
  PROVE  ReadInv' /\ Forward
<1>1. /\ PcbInv /\ StreamInv /\ PeerInv /\ Core(pcb) /\ pcb' = Freed(pcb, "RESET")
      /\ pcb.state = "GONE"
      /\ client' = client /\ console' = console /\ ack' = ack /\ handed' = handed
  BY DEF ReadInv, PcbInv, InputWithoutPcb
<1>2. Core(pcb') /\ pcb'.state = "RESET" /\ SameStream(pcb', pcb)
  BY <1>1, FreedOK DEF States
<1>3. PcbInv' /\ PeerInv' /\ Forward
  BY <1>1, <1>2, SameStreamOK
<1>4. client.closed
  BY <1>1 DEF StreamInv
<1>5. StreamInv'
  BY <1>1, <1>2, <1>4, SameClient
<1> QED  BY <1>3, <1>5 DEF ReadInv

\* tcp_slowtmr removes the pcb.
LEMMA PcbRemovedOK ==
  ASSUME ReadInv, PcbRemoved
  PROVE  ReadInv' /\ Forward
<1>1. /\ PcbInv /\ StreamInv /\ PeerInv /\ Core(pcb) /\ pcb' = Freed(pcb, "GONE")
      /\ pcb.state \notin {"RESET", "GONE"} /\ client' = uvl_client_freed(client)
      /\ console' = console /\ ack' = ack /\ handed' = handed
  BY DEF ReadInv, PcbInv, PcbRemoved
<1>2. Core(pcb') /\ pcb'.state = "GONE" /\ SameStream(pcb', pcb)
  BY <1>1, FreedOK DEF States
<1>3. PcbInv' /\ PeerInv' /\ Forward
  BY <1>1, <1>2, SameStreamOK
<1>4. /\ client' \in Client /\ client'.recv_buf = client.recv_buf /\ client'.closed
      /\ ~client'.read_cb
  BY <1>1 DEF uvl_client_freed, StreamInv, Client
<1>5. /\ Len(handed) \in Nat /\ Len(client.recv_buf) \in Nat /\ pcb.state \in States
      /\ pcb.rcv_nxt \in Nat
  BY <1>1, StreamLengths DEF Core, Pcb
<1>6. Len(handed) = Total \/ pcb.rcv_nxt <= Total + 1
  <2>1. CASE ~client.closed
    BY <1>1, <1>5, <2>1, UvlReadAssumption DEF StreamInv
  <2>2. CASE client.closed /\ pcb.state \in {"FIN_WAIT_1", "FIN_WAIT_2"}
    BY <1>1, <1>5, <2>2, UvlReadAssumption DEF StreamInv
  <2>3. CASE client.closed /\ pcb.state \notin {"FIN_WAIT_1", "FIN_WAIT_2"}
    BY <1>1, <1>5, <2>3 DEF StreamInv, States
  <2> QED  BY <2>1, <2>2, <2>3
<1>7. pcb'.rcv_nxt = pcb.rcv_nxt
  BY <1>2 DEF SameStream
<1>8. StreamInv'
  BY <1>1, <1>2, <1>4, <1>6, <1>7 DEF StreamInv
<1> QED  BY <1>3, <1>8 DEF ReadInv

\* SegmentArrives.
LEMMA ArrivesOK ==
  ASSUME CountsFin, ReadInv, SegmentArrives
  PROVE  ReadInv' /\ Forward
<1>1. PICK seqno \in 1..Total + 1, len \in 0..TCP_MSS, fin \in BOOLEAN : Arrives(seqno, len, fin)
  BY DEF SegmentArrives
<1> DEFINE s == Segment(seqno, len, fin)
<1>2. /\ Sent(seqno, len, fin)
      /\ tcp_input(s) \/ (\E acked \in BOOLEAN : InputAfterClose(s, acked)) \/ InputWithoutPcb
  BY <1>1 DEF Arrives
<1>3. CASE InputWithoutPcb
  BY <1>3, WithoutPcbOK
<1>4. ASSUME tcp_input(s) \/ \E acked \in BOOLEAN : InputAfterClose(s, acked)
      PROVE  ReadInv' /\ Forward
  <2>1. /\ Len(handed) \in Nat /\ Len(client.recv_buf) \in Nat /\ StreamInv
    BY StreamLengths DEF ReadInv
  <2>2. \/ ~client.closed
        \/ client.closed /\ pcb.state \in {"FIN_WAIT_1", "FIN_WAIT_2"}
    BY <1>4 DEF tcp_input, InputAfterClose
  <2>3. pcb.rcv_nxt <= Total + 1
    BY <2>1, <2>2, UvlReadAssumption DEF StreamInv
  <2>4. Result(tcp_receive(pcb, s), pcb)
    BY <1>2, <2>3, ArrivalOK DEF ReadInv
  <2> HIDE DEF s
  <2> QED  BY <1>4, <2>4, InputOK, InputAfterCloseOK
<1> QED  BY <1>2, <1>3, <1>4

-----------------------------------------------------------------------------
(* The other steps *)

\* A step that only acknowledges.
LEMMA AckStepOK ==
  ASSUME ReadInv, NEW p, Core(p), SameData(p, pcb), Commit(p),
         console' = console, client' = client, handed' = handed
  PROVE  ReadInv' /\ Forward
<1>1. PcbInv /\ StreamInv /\ PeerInv /\ pcb \in Pcb /\ pcb.rcv_nxt \in Nat
  BY PcbFacts DEF ReadInv, PcbInv, Core
<1>2. /\ p.refused_data = <<>> /\ p.rcv_nxt = pcb.rcv_nxt /\ p.rcv_wnd = pcb.rcv_wnd
      /\ p.state = pcb.state /\ pcb.rcv_ann_right_edge <= p.rcv_ann_right_edge
  BY <1>1 DEF SameData, PcbInv
<1>3. pcb.rcv_nxt <= p.rcv_nxt
  BY <1>1, <1>2
<1>4. /\ PcbInv' /\ PeerInv' /\ Forward
      /\ pcb'.state = p.state /\ pcb'.rcv_nxt = p.rcv_nxt /\ pcb'.rcv_wnd = p.rcv_wnd
  BY <1>1, <1>2, <1>3, CommitOK
<1>5. StreamInv'
  BY <1>1, <1>2, <1>4, SameClient
<1> QED  BY <1>4, <1>5 DEF ReadInv

\* tcp_fasttmr and tcp_output_segment.
LEMMA SendStepsOK ==
  ASSUME ReadInv, tcp_fasttmr \/ tcp_output_segment
  PROVE  ReadInv' /\ Forward
<1> DEFINE p == tcp_send_empty_ack(pcb)
<1>1. Commit(p) /\ console' = console /\ client' = client /\ handed' = handed
  BY DEF tcp_fasttmr, tcp_output_segment
<1>2. Core(p) /\ SameData(p, pcb)
  BY SendAckOK DEF ReadInv, PcbInv
<1> HIDE DEF p
<1> QED  BY <1>1, <1>2, AckStepOK

\* A RST, in sequence or not.
LEMMA ResetOK ==
  ASSUME ReadInv, NEW seqno \in 1..Total + 1, ResetArrives(seqno)
  PROVE  ReadInv' /\ Forward
<1>1. PcbInv /\ StreamInv /\ PeerInv /\ Core(pcb) /\ pcb \in Pcb
  BY DEF ReadInv, PcbInv, Core
<1>2. CASE seqno = pcb.rcv_nxt
  <2>1. /\ pcb' = [pcb EXCEPT !.state = "RESET", !.ooseq = <<>>]
        /\ client' = uvl_client_freed(client)
        /\ ack' = ack /\ console' = console /\ handed' = handed
    BY <1>2 DEF ResetArrives
  <2>2. pcb' = Ended(pcb, "RESET", pcb.rxclosed, pcb.now, <<>>)
    BY <1>1, <2>1 DEF Ended, Pcb
  <2>3. "RESET" \in States /\ pcb.rxclosed \in BOOLEAN /\ pcb.now \in BOOLEAN
        /\ <<>> \in {<<>>, pcb.ooseq}
    BY <1>1 DEF States, Pcb
  <2>4. Core(pcb')
    BY <1>1, <2>2, <2>3, EndedOK
  <2>5. pcb'.state = "RESET"
    BY <1>1, <2>1 DEF Pcb
  <2>6. SameStream(pcb', pcb)
    BY <1>1, <2>2, <2>3, EndedOK
  <2>7. PcbInv' /\ PeerInv' /\ Forward
    BY <1>1, <2>1, <2>4, <2>6, SameStreamOK
  <2>8. /\ client' \in Client /\ client'.recv_buf = client.recv_buf /\ client'.closed
        /\ ~client'.read_cb
    BY <1>1, <2>1 DEF uvl_client_freed, Client, StreamInv
  <2>9. StreamInv'
    BY <1>1, <2>1, <2>5, <2>8 DEF StreamInv
  <2> QED  BY <2>7, <2>9 DEF ReadInv
<1>3. CASE seqno # pcb.rcv_nxt
  <2> DEFINE b == pcb.now \/ TCP_SEQ_BETWEEN(seqno, pcb.rcv_nxt, pcb.rcv_nxt + pcb.rcv_wnd)
             p == [pcb EXCEPT !.now = b]
             o == tcp_output(p)
  <2>1. Commit(o) /\ console' = console /\ client' = client /\ handed' = handed
    BY <1>3 DEF ResetArrives
  <2>2. b \in BOOLEAN
    OBVIOUS
  <2> HIDE DEF b
  <2>3. Core(p) /\ SameData(p, pcb)
    BY <1>1, <2>2, NowOK
  <2> HIDE DEF p
  <2>4. Core(o) /\ SameData(o, p)
    BY <2>3, OutputOK
  <2> HIDE DEF o
  <2>5. SameData(o, pcb)
    <3>1. /\ pcb.rcv_ann_right_edge \in Nat /\ p.rcv_ann_right_edge \in Nat
          /\ o.rcv_ann_right_edge \in Nat
      BY <1>1, <2>3, <2>4, PcbFacts DEF Core
    <3> QED  BY <2>3, <2>4, <3>1 DEF SameData
  <2> QED  BY <2>1, <2>4, <2>5, AckStepOK
<1> QED  BY <1>2, <1>3

\* tcp_slowtmr drops ooseq.
LEMMA DropOoseqOK ==
  ASSUME ReadInv, DropOoseq
  PROVE  ReadInv' /\ Forward
<1>1. PcbInv /\ StreamInv /\ PeerInv /\ Core(pcb) /\ pcb \in Pcb
  BY DEF ReadInv, PcbInv, Core
<1>2. /\ pcb' = [pcb EXCEPT !.ooseq = <<>>]
      /\ ack' = ack /\ console' = console /\ handed' = handed /\ client' = client
  BY DEF DropOoseq
<1>3. pcb' = Ended(pcb, pcb.state, pcb.rxclosed, pcb.now, <<>>)
  BY <1>1, <1>2 DEF Ended, Pcb
<1>4. pcb.state \in States /\ pcb.rxclosed \in BOOLEAN /\ pcb.now \in BOOLEAN
      /\ <<>> \in {<<>>, pcb.ooseq}
  BY <1>1 DEF Pcb
<1>5. Core(pcb')
  BY <1>1, <1>3, <1>4, EndedOK
<1>6. pcb'.state = pcb.state
  BY <1>1, <1>2 DEF Pcb
<1>7. SameStream(pcb', pcb)
  BY <1>1, <1>3, <1>4, EndedOK
<1>8. PcbInv' /\ PeerInv' /\ Forward
  BY <1>1, <1>2, <1>5, <1>7, SameStreamOK
<1>9. StreamInv'
  BY <1>1, <1>2, <1>6, <1>7, SameClient DEF SameStream
<1> QED  BY <1>8, <1>9 DEF ReadInv

\* The program closes: a RST when it has not taken everything.
LEMMA UvlCloseOK ==
  ASSUME ReadInv, uvl_tcp_close
  PROVE  ReadInv' /\ Forward
<1>1. PcbInv /\ StreamInv /\ PeerInv /\ Core(pcb) /\ pcb \in Pcb /\ pcb.refused_data = <<>>
      /\ client \in Client
  BY DEF ReadInv, PcbInv, Core, StreamInv
<1>2. /\ client' = [uvl_client_freed(client) EXCEPT !.closing = TRUE, !.read_req = FALSE]
      /\ console' = console /\ handed' = handed
  BY DEF uvl_tcp_close
<1>3. /\ client' \in Client /\ client'.recv_buf = client.recv_buf /\ client'.closed
      /\ ~client'.read_cb /\ client'.closing
  <2> DEFINE f == uvl_client_freed(client)
  <2>1. /\ f \in Client /\ f.recv_buf = client.recv_buf /\ f.closed /\ ~f.read_cb
    BY <1>1 DEF uvl_client_freed, Client
  <2> HIDE DEF f
  <2>2. client' = [f EXCEPT !.closing = TRUE, !.read_req = FALSE]
    BY <1>2 DEF f
  <2> QED  BY <2>1, <2>2 DEF Client
<1>4. CASE client.closed
  <2>1. pcb' = pcb /\ ack' = ack
    BY <1>4 DEF uvl_tcp_close
  <2>2. SameStream(pcb', pcb) /\ Core(pcb')
    BY <1>1, <2>1 DEF SameStream
  <2>3. PcbInv' /\ PeerInv' /\ Forward
    BY <1>1, <1>2, <2>1, <2>2, SameStreamOK
  <2>4. StreamInv'
    BY <1>1, <1>2, <1>3, <1>4, <2>1 DEF StreamInv
  <2> QED  BY <2>3, <2>4 DEF ReadInv
<1>5. CASE ~client.closed
  <2> DEFINE p == tcp_close(pcb)
  <2>1. Commit(p)
    BY <1>5 DEF uvl_tcp_close
  <2>2. pcb.state = "ESTABLISHED" /\ pcb.rcv_nxt = Len(handed) + Len(client.recv_buf) + 1
        /\ pcb.rcv_wnd + Len(client.recv_buf) = TCP_WND
    BY <1>1, <1>5 DEF StreamInv
  <2>3. /\ Core(p) /\ p.rcv_nxt = pcb.rcv_nxt
        /\ p.rcv_ann_right_edge = pcb.rcv_ann_right_edge /\ p.refused_data = <<>>
        /\ pcb.rcv_wnd # TCP_WND => p.state = "RESET"
        /\ pcb.rcv_wnd = TCP_WND => p.state = "FIN_WAIT_1"
    BY <1>1, <2>2, CloseOK
  <2> HIDE DEF p
  <2>4. /\ pcb.rcv_nxt \in Nat /\ pcb.rcv_ann_right_edge \in Nat /\ pcb.rcv_wnd \in Nat
        /\ Len(handed) \in Nat /\ Len(client.recv_buf) \in Nat /\ client.recv_buf \in Seq(Bytes)
    BY <1>1, PcbFacts, StreamLengths
  <2>5. pcb.rcv_nxt <= p.rcv_nxt /\ pcb.rcv_ann_right_edge <= p.rcv_ann_right_edge
    BY <2>3, <2>4
  <2>6. /\ PcbInv' /\ PeerInv' /\ Forward
        /\ pcb'.state = p.state /\ pcb'.rcv_nxt = p.rcv_nxt
    BY <1>1, <1>2, <2>1, <2>3, <2>5, CommitOK
  <2>7. CASE pcb.rcv_wnd # TCP_WND
    <3>1. pcb'.state = "RESET"
      BY <2>3, <2>6, <2>7
    <3>2. StreamInv'
      BY <1>1, <1>2, <1>3, <3>1 DEF StreamInv
    <3> QED  BY <2>6, <3>2 DEF ReadInv
  <2>8. CASE pcb.rcv_wnd = TCP_WND
    <3>1. pcb'.state = "FIN_WAIT_1"
      BY <2>3, <2>6, <2>8
    <3>2. Len(client.recv_buf) = 0
      BY <2>2, <2>4, <2>8, TcpInAssumption
    <3>3. client.recv_buf = <<>> /\ pcb'.rcv_nxt = Len(handed) + 1
      BY <2>2, <2>3, <2>4, <2>6, <3>2
    <3>4. StreamInv'
      BY <1>1, <1>2, <1>3, <3>1, <3>3 DEF StreamInv
    <3> QED  BY <2>6, <3>4 DEF ReadInv
  <2> QED  BY <2>7, <2>8
<1> QED  BY <1>4, <1>5

\* uvl_read_start changes the client's flags.
LEMMA ReadStartOK ==
  ASSUME ReadInv, uvl_read_start
  PROVE  ReadInv' /\ Forward
<1>1. PcbInv /\ StreamInv /\ PeerInv /\ Core(pcb) /\ client \in Client /\ ~client.closed
  BY DEF ReadInv, PcbInv, StreamInv, uvl_read_start
<1>2. /\ client' = [client EXCEPT !.read_cb = TRUE, !.read_req = TRUE]
      /\ pcb' = pcb /\ ack' = ack /\ console' = console /\ handed' = handed
  BY DEF uvl_read_start
<1>3. /\ client' \in Client /\ client'.recv_buf = client.recv_buf
      /\ (client'.closed <=> client.closed) /\ (client'.closing <=> client.closing)
  BY <1>1, <1>2 DEF Client
<1>4. SameStream(pcb', pcb) /\ Core(pcb')
  BY <1>1, <1>2 DEF SameStream
<1>5. PcbInv' /\ PeerInv' /\ Forward
  BY <1>1, <1>2, <1>4, SameStreamOK
<1>6. StreamInv'
  BY <1>1, <1>2, <1>3 DEF StreamInv
<1> QED  BY <1>5, <1>6 DEF ReadInv

\* A queue within a window that has grown.
LEMMA QueueWider ==
  ASSUME NEW q, NEW lo \in Nat, NEW hi \in Nat, QueueOK(q, lo, hi), NEW top \in Nat, hi <= top
  PROVE  QueueOK(q, lo, top)
<1>1. ASSUME NEW i \in 1..Len(q) PROVE q[i].seqno + TCP_TCPLEN(q[i]) <= top
  <2>1. SegmentOK(q[i]) /\ q[i].seqno + TCP_TCPLEN(q[i]) <= hi
    BY DEF QueueOK
  <2>2. q[i].seqno \in Nat /\ TCP_TCPLEN(q[i]) \in Nat
    BY <2>1, SegmentFacts
  <2> QED  BY <2>1, <2>2
<1> QED  BY <1>1 DEF QueueOK

\* tcp_recved: the window grows by what the program has taken, and is
\* announced at once or with the next acknowledgement.
LEMMA RecvedOK ==
  ASSUME NEW p, Core(p), NEW len \in Nat, p.rcv_wnd + len <= TCP_WND
  PROVE  LET q == tcp_recved(p, len)
         IN  /\ Core(q) /\ q.rcv_wnd = p.rcv_wnd + len /\ q.rcv_nxt = p.rcv_nxt
             /\ p.rcv_ann_right_edge <= q.rcv_ann_right_edge
             /\ q.state = p.state /\ q.refused_data = p.refused_data
<1> DEFINE w == MinOf(p.rcv_wnd + len, TCP_WND)
           g == [p EXCEPT !.rcv_wnd = w]
           r == tcp_update_rcv_ann_wnd(g)
           s == [r EXCEPT !.now = TRUE]
           o == tcp_output(s)
           q == tcp_recved(p, len)
<1>1. /\ p \in Pcb /\ p.rcv_nxt \in Nat /\ p.rcv_wnd \in Nat /\ p.rcv_ann_wnd \in Nat
      /\ p.rcv_ann_right_edge \in Nat
      /\ p.rcv_ann_right_edge <= p.rcv_nxt + p.rcv_ann_wnd /\ p.rcv_ann_wnd <= p.rcv_wnd
  <2>1. p \in Pcb /\ Announced(p)
    BY DEF Core
  <2> QED  BY <2>1, PcbFacts DEF Announced
<1>2. w = p.rcv_wnd + len /\ w \in Nat
  BY <1>1, TcpInAssumption DEF MinOf
<1>3. q = IF wnd_inflation(g) >= TCP_WND_UPDATE_THRESHOLD THEN o ELSE r
  BY DEF tcp_recved
<1> HIDE DEF w
<1>4. /\ g \in Pcb /\ g.rcv_wnd = w /\ g.rcv_nxt = p.rcv_nxt /\ g.ooseq = p.ooseq /\ g.out = p.out
      /\ g.rcv_ann_right_edge = p.rcv_ann_right_edge /\ g.recv_data = p.recv_data
      /\ g.state = p.state /\ g.refused_data = p.refused_data
  BY <1>1, <1>2 DEF Pcb
<1> HIDE DEF g
<1>5. g.rcv_ann_right_edge <= g.rcv_nxt + g.rcv_wnd
  BY <1>1, <1>2, <1>4
<1>6. /\ r \in Pcb /\ Announced(r) /\ SameRest(r, g)
      /\ r.rcv_nxt = g.rcv_nxt /\ r.rcv_wnd = g.rcv_wnd /\ r.ooseq = g.ooseq
  BY <1>4, <1>5, UpdateOK
<1> HIDE DEF r
<1>7. /\ r.state = p.state /\ r.rcv_ann_right_edge = p.rcv_ann_right_edge /\ r.out = p.out
      /\ r.refused_data = p.refused_data /\ r.rcv_nxt = p.rcv_nxt /\ r.rcv_wnd = w
      /\ r.ooseq = p.ooseq
  BY <1>4, <1>6 DEF SameRest
<1>8. QueueOK(r.ooseq, r.rcv_nxt + 1, r.rcv_nxt + r.rcv_wnd)
  <2> DEFINE lo == p.rcv_nxt + 1
             hi == p.rcv_nxt + p.rcv_wnd
             top == p.rcv_nxt + w
  <2>1. lo \in Nat /\ hi \in Nat /\ top \in Nat /\ hi <= top
    BY <1>1, <1>2
  <2>2. QueueOK(p.ooseq, lo, hi)
    BY DEF Core
  <2> HIDE DEF lo, hi, top
  <2>3. QueueOK(p.ooseq, lo, top)
    BY <2>1, <2>2, QueueWider
  <2> QED  BY <1>7, <2>3 DEF lo, top
<1>9. Core(r)
  BY <1>2, <1>6, <1>7, <1>8 DEF Core
<1>10. Core(s) /\ SameData(s, r)
  BY <1>9, NowOK
<1> HIDE DEF s
<1>11. Core(o) /\ SameData(o, s)
  BY <1>10, OutputOK
<1> HIDE DEF o, q
<1>12. CASE q = r
  BY <1>1, <1>2, <1>7, <1>9, <1>12 DEF q
<1>13. CASE q = o
  <2>1. /\ o.state = r.state /\ o.rcv_nxt = r.rcv_nxt /\ o.rcv_wnd = r.rcv_wnd
        /\ o.refused_data = r.refused_data
        /\ r.rcv_ann_right_edge <= s.rcv_ann_right_edge
        /\ s.rcv_ann_right_edge <= o.rcv_ann_right_edge
    BY <1>10, <1>11 DEF SameData
  <2>2. s.rcv_ann_right_edge \in Nat /\ o.rcv_ann_right_edge \in Nat
    BY <1>10, <1>11, PcbFacts DEF Core
  <2>3. p.rcv_ann_right_edge <= o.rcv_ann_right_edge
    <3> DEFINE a == p.rcv_ann_right_edge
               b == s.rcv_ann_right_edge
               d == o.rcv_ann_right_edge
    <3>1. a \in Nat /\ b \in Nat /\ d \in Nat /\ a <= b /\ b <= d
      <4>1. a = r.rcv_ann_right_edge /\ a \in Nat
        BY <1>1, <1>7
      <4> QED  BY <2>1, <2>2, <4>1
    <3> HIDE DEF a, b, d
    <3>2. a <= d
      BY <3>1
    <3> QED  BY <3>2 DEF a, d
  <2> QED  BY <1>2, <1>7, <1>11, <1>13, <2>1, <2>3 DEF q
<1> QED  BY <1>3, <1>12, <1>13

\* uvl_async_tcp_read_cb: recv_buf moves to the program.
LEMMA ReadCbOK ==
  ASSUME ReadInv, uvl_async_tcp_read_cb
  PROVE  ReadInv' /\ Forward
<1> DEFINE h == Len(handed)
           b == Len(client.recv_buf)
<1>1. PcbInv /\ StreamInv /\ PeerInv /\ Core(pcb) /\ client \in Client /\ console' = console
      /\ pcb.refused_data = <<>>
  BY DEF ReadInv, PcbInv, StreamInv, uvl_async_tcp_read_cb
<1>2. /\ h \in Nat /\ b \in Nat /\ handed \in Seq(Bytes) /\ client.recv_buf \in Seq(Bytes)
      /\ handed = Run(1, h) /\ client.recv_buf = Run(h + 1, b) /\ h + b <= Total
  BY <1>1, StreamLengths DEF StreamInv
<1>3. CASE client.read_cb /\ client.recv_buf # <<>>
  <2> DEFINE p == tcp_recved(pcb, b)
  <2>1. PICK goes_on \in BOOLEAN :
          /\ Commit(p)
          /\ handed' = handed \o client.recv_buf
          /\ client' = [client EXCEPT !.recv_buf = <<>>, !.read_req = FALSE,
                                      !.read_cb = goes_on]
    BY <1>3 DEF uvl_async_tcp_read_cb
  <2>2. ~client.closed /\ pcb.state = "ESTABLISHED" /\ pcb.rcv_nxt = h + b + 1
        /\ pcb.rcv_wnd + b = TCP_WND /\ ~client.closing
    BY <1>1, <1>3 DEF StreamInv
  <2>3. handed' = Run(1, h + b) /\ handed' \in Seq(Bytes) /\ Len(handed') = h + b
    <3> HIDE DEF h, b
    <3>1. 1 \in Nat /\ h + b \in Nat /\ 1 + (h + b) <= Total + 1 /\ h + 1 = 1 + h
      BY <1>2, UvlReadAssumption
    <3>2. handed' = Run(1, h) \o Run(1 + h, b)
      BY <1>2, <2>1, <3>1
    <3>3. handed' = Run(1, h + b)
      BY <1>2, <3>1, <3>2, RunConcat
    <3>4. Run(1, h + b) \in Seq(Bytes) /\ Len(Run(1, h + b)) = h + b
      BY <3>1, RunBytes
    <3> QED  BY <3>3, <3>4
  <2>4. /\ client' \in Client /\ client'.recv_buf = <<>>
        /\ (client'.closed <=> client.closed) /\ (client'.closing <=> client.closing)
    <3>1. <<>> \in Seq(Bytes)
      OBVIOUS
    <3> QED  BY <1>1, <2>1, <3>1 DEF Client
  <2>5. pcb.rcv_wnd \in Nat /\ pcb.rcv_nxt \in Nat /\ pcb.rcv_wnd + b <= TCP_WND
    BY <1>1, <2>2, PcbFacts, TcpInAssumption DEF Core
  <2>6. /\ Core(p) /\ p.rcv_wnd = pcb.rcv_wnd + b /\ p.rcv_nxt = pcb.rcv_nxt
        /\ pcb.rcv_ann_right_edge <= p.rcv_ann_right_edge
        /\ p.state = pcb.state /\ p.refused_data = pcb.refused_data
    <3> HIDE DEF b
    <3> QED  BY <1>1, <1>2, <2>5, RecvedOK
  <2> HIDE DEF p
  <2>7. pcb.rcv_nxt <= p.rcv_nxt /\ p.refused_data = <<>>
    BY <1>1, <2>5, <2>6
  <2>8. /\ PcbInv' /\ PeerInv' /\ Forward
        /\ pcb'.state = p.state /\ pcb'.rcv_nxt = p.rcv_nxt /\ pcb'.rcv_wnd = p.rcv_wnd
    BY <1>1, <2>1, <2>6, <2>7, CommitOK
  <2>9. /\ pcb'.state = "ESTABLISHED" /\ pcb'.rcv_nxt = h + b + 1 /\ pcb'.rcv_wnd = TCP_WND
    BY <2>2, <2>6, <2>8
  <2> HIDE DEF h, b
  <2>10. /\ client'.recv_buf = Run((h + b) + 1, 0) /\ Len(client'.recv_buf) = 0
         /\ (h + b) + 0 <= Total /\ h + b + 1 = (h + b) + 0 + 1 /\ TCP_WND + 0 = TCP_WND
    <3>1. Run((h + b) + 1, 0) = <<>>
      BY DEF Run
    <3>2. (h + b) + 0 <= Total /\ h + b + 1 = (h + b) + 0 + 1 /\ TCP_WND + 0 = TCP_WND
      BY <1>2, TcpInAssumption
    <3> QED  BY <2>4, <3>1, <3>2
  <2>11. StreamInv'
    BY <2>2, <2>3, <2>4, <2>9, <2>10 DEF StreamInv
  <2> QED  BY <2>8, <2>11 DEF ReadInv
<1>4. CASE ~(client.read_cb /\ client.recv_buf # <<>>)
  <2>1. client' = [client EXCEPT !.read_req = FALSE] /\ pcb' = pcb /\ ack' = ack
        /\ handed' = handed
    BY <1>4 DEF uvl_async_tcp_read_cb
  <2>2. /\ client' \in Client /\ client'.recv_buf = client.recv_buf
        /\ (client'.closed <=> client.closed) /\ (client'.closing <=> client.closing)
        /\ (client'.read_cb <=> client.read_cb)
    BY <1>1, <2>1 DEF Client
  <2>3. SameStream(pcb', pcb) /\ Core(pcb')
    BY <1>1, <2>1 DEF SameStream
  <2>4. PcbInv' /\ PeerInv' /\ Forward
    BY <1>1, <2>1, <2>3, SameStreamOK
  <2>5. StreamInv'
    BY <1>1, <2>1, <2>2 DEF StreamInv
  <2> QED  BY <2>4, <2>5 DEF ReadInv
<1> QED  BY <1>3, <1>4

\* An acknowledgement arrives at the console or is lost.
LEMMA AckStepsOK ==
  ASSUME ReadInv, AckArrives \/ AckLost
  PROVE  ReadInv' /\ Forward
<1>1. PcbInv /\ StreamInv /\ PeerInv
  BY DEF ReadInv
<1>2. pcb' = pcb /\ client' = client /\ handed' = handed /\ ack' = NoAck
  BY DEF AckArrives, AckLost
<1>3. PcbInv' /\ StreamInv'
  BY <1>1, <1>2 DEF PcbInv, StreamInv
<1>4. pcb \in Pcb /\ pcb.rcv_nxt \in Nat /\ pcb.rcv_ann_right_edge \in Nat
  BY <1>1, PcbFacts DEF PcbInv, Core
<1>5. /\ ack' \in [ackno : Nat, edge : Nat]
      /\ ack'.ackno <= pcb.rcv_nxt /\ ack'.edge <= pcb.rcv_ann_right_edge
  BY <1>2, <1>4 DEF NoAck
<1>6. /\ console.una \in Nat /\ console.edge \in Nat /\ ack.ackno \in Nat /\ ack.edge \in Nat
      /\ console.una >= 1 /\ console.una <= pcb.rcv_nxt
      /\ console.edge >= 1 /\ console.edge <= pcb.rcv_ann_right_edge
      /\ ack.ackno <= pcb.rcv_nxt /\ ack.edge <= pcb.rcv_ann_right_edge
      /\ console \in [una : Nat, edge : Nat]
  BY <1>1 DEF PeerInv
<1>7. /\ console' \in [una : Nat, edge : Nat]
      /\ console'.una >= 1 /\ console'.una <= pcb.rcv_nxt
      /\ console'.edge >= 1 /\ console'.edge <= pcb.rcv_ann_right_edge
  <2>1. CASE AckArrives
    <3> DEFINE u == IF ack.ackno > console.una THEN ack.ackno ELSE console.una
               e == IF ack.edge > console.edge THEN ack.edge ELSE console.edge
    <3>1. console' = [una |-> u, edge |-> e]
      BY <2>1 DEF AckArrives
    <3>2. /\ u \in Nat /\ u >= 1 /\ u <= pcb.rcv_nxt
          /\ e \in Nat /\ e >= 1 /\ e <= pcb.rcv_ann_right_edge
      BY <1>4, <1>6
    <3> HIDE DEF u, e
    <3> QED  BY <3>1, <3>2
  <2>2. CASE AckLost
    BY <1>6, <2>2 DEF AckLost
  <2> QED  BY <2>1, <2>2
<1>8. PeerInv'
  BY <1>2, <1>5, <1>7 DEF PeerInv
<1>9. Forward
  BY <1>2, <1>4 DEF Forward
<1> QED  BY <1>3, <1>8, <1>9 DEF ReadInv

\* The connection that was just accepted.
LEMMA InitOK ==
  ASSUME Init
  PROVE  ReadInv
<1>1. /\ TCP_WND \in Nat /\ Total \in Nat /\ Total >= 1
      /\ <<>> \in Seq(SegmentType) /\ <<>> \in Seq(Bytes) /\ Len(<<>>) = 0
  BY TcpInAssumption, UvlReadAssumption
<1>2. QueueOK(<<>>, 1 + 1, 1 + TCP_WND)
  BY QueueSmall
<1>3. tcp_alloc \in Pcb
  <2>1. "ESTABLISHED" \in States /\ NoAck \in [ackno : Nat, edge : Nat]
    BY DEF States, NoAck
  <2>2. 1 \in Nat /\ 1 + TCP_WND \in Nat /\ FALSE \in BOOLEAN
    BY <1>1
  <2> DEFINE w == 1 + TCP_WND
             e == <<>>
  <2>3. tcp_alloc =
          [state |-> "ESTABLISHED", rcv_nxt |-> 1, rcv_wnd |-> TCP_WND, rcv_ann_wnd |-> TCP_WND,
           rcv_ann_right_edge |-> w, ooseq |-> e, delay |-> FALSE, now |-> FALSE,
           rxclosed |-> FALSE, refused_data |-> e,
           recv_data |-> e, got_fin |-> FALSE, out |-> NoAck]
    BY DEF tcp_alloc
  <2>4. w \in Nat /\ e \in Seq(SegmentType) /\ e \in Seq(Bytes)
    BY <1>1, <2>2
  <2> HIDE DEF w, e
  <2> QED  BY <1>1, <2>1, <2>2, <2>3, <2>4 DEF Pcb
<1>4. /\ tcp_alloc.state = "ESTABLISHED" /\ tcp_alloc.rcv_nxt = 1 /\ tcp_alloc.rcv_wnd = TCP_WND
      /\ tcp_alloc.rcv_ann_wnd = TCP_WND /\ tcp_alloc.rcv_ann_right_edge = 1 + TCP_WND
      /\ tcp_alloc.ooseq = <<>> /\ tcp_alloc.refused_data = <<>> /\ tcp_alloc.recv_data = <<>>
      /\ ~tcp_alloc.got_fin /\ tcp_alloc.out.ackno = 0 /\ tcp_alloc.out.edge = 0
  BY DEF tcp_alloc, NoAck
<1>5. Core(tcp_alloc)
  BY <1>1, <1>2, <1>3, <1>4 DEF Core, Announced
<1>6. PcbInv
  BY <1>4, <1>5 DEF Init, PcbInv
<1>7. PeerInv
  BY <1>1, <1>4, SMTT(30) DEF Init, PeerInv, NoAck
<1>8. Run(1, 0) = <<>> /\ Run(0 + 1, 0) = <<>>
  BY DEF Run
<1>9. /\ client.recv_buf = <<>> /\ ~client.closed /\ ~client.closing /\ handed = <<>>
      /\ client \in Client /\ pcb = tcp_alloc
  BY <1>1 DEF Init, Client
<1>10. StreamInv
  BY <1>1, <1>4, <1>8, <1>9 DEF StreamInv
<1> QED  BY <1>6, <1>7, <1>10 DEF ReadInv

\* Every step keeps ReadInv and moves the edge and rcv_nxt only forward.
LEMMA StepOK ==
  ASSUME CountsFin, ReadInv, [Next]_vars
  PROVE  ReadInv' /\ Forward
<1>1. CASE SegmentArrives
  BY <1>1, ArrivesOK
<1>2. ASSUME NEW seqno \in 1..Total + 1, ResetArrives(seqno) PROVE ReadInv' /\ Forward
  BY <1>2, ResetOK
<1>3. CASE tcp_fasttmr
  BY <1>3, SendStepsOK
<1>4. CASE DropOoseq
  BY <1>4, DropOoseqOK
<1>5. CASE tcp_output_segment
  BY <1>5, SendStepsOK
<1>6. CASE uvl_async_tcp_read_cb
  BY <1>6, ReadCbOK
<1>7. CASE uvl_read_start
  BY <1>7, ReadStartOK
<1>8. CASE uvl_tcp_close
  BY <1>8, UvlCloseOK
<1>9. CASE AckArrives
  BY <1>9, AckStepsOK
<1>10. CASE AckLost
  BY <1>10, AckStepsOK
<1>12. CASE PcbRemoved
  BY <1>12, PcbRemovedOK
<1>11. CASE UNCHANGED vars
  <2>1. pcb \in Pcb /\ pcb.rcv_nxt \in Nat /\ pcb.rcv_ann_right_edge \in Nat
    BY PcbFacts DEF ReadInv, PcbInv, Core
  <2>2. pcb' = pcb /\ client' = client /\ console' = console /\ ack' = ack /\ handed' = handed
    BY <1>11 DEF vars
  <2>3. Forward
    BY <2>1, <2>2 DEF Forward
  <2> QED  BY <2>2, <2>3 DEF ReadInv, PcbInv, StreamInv, PeerInv
<1> QED
  BY <1>1, <1>2, <1>3, <1>4, <1>5, <1>6, <1>7, <1>8, <1>9, <1>10, <1>11, <1>12 DEF Next

-----------------------------------------------------------------------------
(* What follows from the invariant *)

\* The types of the model.
LEMMA InvTypes ==
  ASSUME ReadInv
  PROVE  TypeOK
<1>1. /\ Core(pcb) /\ pcb \in Pcb /\ Announced(pcb) /\ pcb.rcv_nxt \in 1..Total + 2
      /\ pcb.rcv_wnd <= TCP_WND /\ pcb.rcv_ann_right_edge >= 1
      /\ QueueOK(pcb.ooseq, pcb.rcv_nxt + 1, pcb.rcv_nxt + pcb.rcv_wnd)
  BY DEF ReadInv, PcbInv, Core
<1>2. /\ pcb.rcv_wnd \in Nat /\ pcb.rcv_ann_wnd \in Nat /\ pcb.rcv_ann_right_edge \in Nat
      /\ pcb.refused_data \in Seq(Bytes) /\ pcb.state \in States
      /\ pcb.delay \in BOOLEAN /\ pcb.now \in BOOLEAN /\ pcb.rxclosed \in BOOLEAN
  BY <1>1 DEF Pcb
<1>3. TCP_WND \in Nat /\ Total \in Nat
  BY TcpInAssumption, UvlReadAssumption
<1>4. /\ pcb.rcv_wnd \in 0..TCP_WND /\ pcb.rcv_ann_wnd \in 0..TCP_WND
      /\ pcb.rcv_ann_right_edge \in 1..Total + TCP_WND + 2
  BY <1>1, <1>2, <1>3 DEF Announced
<1>5. pcb.ooseq \in Seq([seqno : 1..Total + 1, data : Seq(Bytes), fin : BOOLEAN])
  <2> DEFINE T == [seqno : 1..Total + 1, data : Seq(Bytes), fin : BOOLEAN]
             q == pcb.ooseq
  <2>1. q \in Seq(SegmentType) /\ \A i \in 1..Len(q) : q[i] \in T
    BY <1>1 DEF QueueOK, SegmentOK
  <2> HIDE DEF T, q
  <2>2. q \in Seq(T)
    BY <2>1
  <2> QED  BY <2>2 DEF T, q
<1>6. console \in [una : 1..Total + 2, edge : 1..Total + TCP_WND + 2]
  <2>1. /\ console \in [una : Nat, edge : Nat] /\ console.una >= 1 /\ console.edge >= 1
        /\ console.una <= pcb.rcv_nxt /\ console.edge <= pcb.rcv_ann_right_edge
    BY DEF ReadInv, PeerInv
  <2>2. console.una \in 1..Total + 2 /\ console.edge \in 1..Total + TCP_WND + 2
    BY <1>1, <1>3, <1>4, <2>1
  <2> QED  BY <2>1, <2>2
<1>7. ack \in Ack
  <2>1. /\ ack \in [ackno : Nat, edge : Nat]
        /\ ack.ackno <= pcb.rcv_nxt /\ ack.edge <= pcb.rcv_ann_right_edge
    BY DEF ReadInv, PeerInv
  <2>2. ack.ackno \in 0..Total + 2 /\ ack.edge \in 0..Total + TCP_WND + 2
    BY <1>1, <1>3, <1>4, <2>1
  <2> QED  BY <2>1, <2>2 DEF Ack
<1>8. client \in Client /\ handed \in Seq(Bytes)
  BY DEF ReadInv, StreamInv
<1>9. {pcb.delay, pcb.now, pcb.rxclosed} \subseteq BOOLEAN
  BY <1>2
<1> QED
  BY <1>1, <1>2, <1>4, <1>5, <1>6, <1>7, <1>8, <1>9 DEF TypeOK, States, Client

\* The bytes are in order and ooseq is sound.
LEMMA InvConsistent ==
  ASSUME ReadInv
  PROVE  ReceiverConsistent
<1> DEFINE h == Len(handed)
           b == Len(client.recv_buf)
           got == handed \o client.recv_buf
<1>1. InOrder
  <2>1. /\ h \in Nat /\ b \in Nat /\ handed \in Seq(Bytes) /\ client.recv_buf \in Seq(Bytes)
        /\ handed = Run(1, h) /\ client.recv_buf = Run(h + 1, b) /\ h + b <= Total
        /\ ~client.closed => pcb.rcv_nxt = h + b + 1
    BY StreamLengths DEF ReadInv, StreamInv
  <2>2. Len(got) = h + b
    BY <2>1
  <2>3. got = Run(1, h + b)
    <3> HIDE DEF h, b
    <3>1. 1 \in Nat /\ h + 1 = 1 + h
      BY <2>1
    <3>2. got = Run(1, h) \o Run(1 + h, b)
      BY <2>1, <3>1
    <3> QED  BY <2>1, <3>1, <3>2, RunConcat
  <2>4. Run(1, h + b) = [i \in 1..h + b |-> i]
    <3> HIDE DEF h, b
    <3>1. \A i \in 1..h + b : 1 + i - 1 = i
      BY <2>1
    <3> QED  BY <3>1 DEF Run
  <2> QED  BY <2>1, <2>2, <2>3, <2>4 DEF InOrder
<1>2. OoseqSound
  <2> DEFINE q == pcb.ooseq
  <2>1. /\ QueueOK(q, pcb.rcv_nxt + 1, pcb.rcv_nxt + pcb.rcv_wnd)
        /\ pcb.rcv_nxt \in Nat /\ pcb.rcv_wnd \in Nat /\ q \in Seq(SegmentType)
    BY PcbFacts DEF ReadInv, PcbInv, Core
  <2> HIDE DEF q
  <2>2. ASSUME NEW i \in 1..Len(q)
        PROVE  /\ q[i].seqno > pcb.rcv_nxt
               /\ TCP_TCPLEN(q[i]) > 0
               /\ q[i].data = [j \in 1..Len(q[i].data) |-> q[i].seqno + j - 1]
               /\ q[i].seqno + TCP_TCPLEN(q[i]) <= pcb.rcv_nxt + pcb.rcv_wnd
               /\ i < Len(q) => ~q[i].fin /\ DataEnd(q[i]) <= q[i + 1].seqno
    <3>1. /\ SegmentOK(q[i]) /\ q[i].seqno >= pcb.rcv_nxt + 1
          /\ q[i].seqno + TCP_TCPLEN(q[i]) <= pcb.rcv_nxt + pcb.rcv_wnd
      BY <2>1 DEF QueueOK
    <3>2. q[i].seqno \in Nat
      BY <3>1, SegmentFacts
    <3>3. q[i].seqno > pcb.rcv_nxt
      BY <2>1, <3>1, <3>2
    <3>4. /\ TCP_TCPLEN(q[i]) > 0
          /\ q[i].data = [j \in 1..Len(q[i].data) |-> q[i].seqno + j - 1]
      BY <3>1 DEF SegmentOK, Run
    <3>5. ASSUME i < Len(q) PROVE ~q[i].fin /\ DataEnd(q[i]) <= q[i + 1].seqno
      <4>1. i + 1 \in 1..Len(q) /\ i < i + 1
        BY <2>1, <3>5
      <4> QED  BY <2>1, <4>1 DEF QueueOK
    <3> QED  BY <3>1, <3>3, <3>4, <3>5
  <2> QED  BY <2>2 DEF OoseqSound, q
<1> QED  BY <1>1, <1>2 DEF ReceiverConsistent

\* Nothing is lost in silence.
LEMMA InvNoLoss ==
  ASSUME ReadInv
  PROVE  NoSilentLoss
<1>1. /\ handed = Run(1, Len(handed))
      /\ pcb.state \in {"LAST_ACK", "CLOSING", "TIME_WAIT"} => Len(handed) = Total
      /\ pcb.state = "GONE" => Len(handed) = Total \/ pcb.rcv_nxt <= Total + 1
      /\ client.closed /\ pcb.state \notin {"RESET", "GONE"} => client.recv_buf = <<>>
  BY DEF ReadInv, StreamInv
<1>2. Run(1, Total) = [i \in 1..Total |-> i]
  <2>1. \A i \in 1..Total : 1 + i - 1 = i
    BY UvlReadAssumption
  <2> QED  BY <2>1 DEF Run
<1>3. pcb.rcv_nxt <= Total + 1 => console.una <= Total + 1 /\ ack.ackno <= Total + 1
  <2>1. pcb.rcv_nxt \in Nat
    BY PcbFacts DEF ReadInv, PcbInv, Core
  <2>2. console.una \in Nat /\ ack.ackno \in Nat
    BY DEF ReadInv, PeerInv
  <2>3. console.una <= pcb.rcv_nxt /\ ack.ackno <= pcb.rcv_nxt
    BY DEF ReadInv, PeerInv
  <2> QED  BY <2>1, <2>2, <2>3, UvlReadAssumption
<1> QED  BY <1>1, <1>2, <1>3 DEF NoSilentLoss

-----------------------------------------------------------------------------
(* The theorems: for every Total, TCP_MSS and TCP_WND, and a console whose *)
(* FIN fits the window that it knows.                                      *)

\* The inductive invariant of reading: of lwIP's pcb, of the bytes on their
\* way to the program, and of what the console knows (tcp_receive, tcp_recved,
\* uvl_client_recv_func, uvl_async_tcp_read_cb and the steps around them).
THEOREM ReadInvariant ==
  ASSUME CountsFin
  PROVE  Spec => []ReadInv
<1>1. Init => ReadInv
  BY InitOK
<1>2. ReadInv /\ [Next]_vars => ReadInv'
  BY StepOK
<1> QED  BY <1>1, <1>2, PTL DEF Spec

\* The fields of the pcb, of the client and of what is under way keep their
\* types: above all no window, edge or sequence number that tcp_receive,
\* tcp_recved and tcp_send_empty_ack compute leaves its range.
THEOREM ReadTypes ==
  ASSUME CountsFin
  PROVE  Spec => []TypeOK
<1>1. ReadInv => TypeOK
  BY InvTypes
<1> QED  BY <1>1, ReadInvariant, PTL

\* However tcp_receive cuts, queues and takes the console's segments, the
\* program gets the bytes in order and once, and ooseq stays sorted, disjoint
\* and within the window.
THEOREM ReceivesInOrder ==
  ASSUME CountsFin
  PROVE  Spec => []ReceiverConsistent
<1>1. ReadInv => ReceiverConsistent
  BY InvConsistent
<1> QED  BY <1>1, ReadInvariant, PTL

\* rcv_wnd and the bytes in recv_buf make up the whole buffer, so
\* uvl_client_recv_func never refuses data.
THEOREM RecvBufNeverFull ==
  ASSUME CountsFin
  PROVE  Spec => []WindowIsRoom
<1>1. ReadInv => WindowIsRoom
  BY DEF ReadInv, PcbInv, StreamInv, WindowIsRoom, UVL_TCP_RECV_BUF_LEN
<1> QED  BY <1>1, ReadInvariant, PTL

\* tcp_close and tcp_input end a connection in good order only when the program
\* has every byte.
THEOREM LossIsReset ==
  ASSUME CountsFin
  PROVE  Spec => []NoSilentLoss
<1>1. ReadInv => NoSilentLoss
  BY InvNoLoss
<1> QED  BY <1>1, ReadInvariant, PTL

\* tcp_update_rcv_ann_wnd and tcp_send_empty_ack never take back an edge that
\* was announced, and never announce more than rcv_wnd.
THEOREM AnnouncedForGood ==
  ASSUME CountsFin
  PROVE  Spec => WindowNeverShrinks
<1> DEFINE A == /\ pcb'.rcv_ann_right_edge >= pcb.rcv_ann_right_edge
                /\ ~client'.closed => pcb'.rcv_ann_right_edge <= pcb'.rcv_nxt + pcb'.rcv_wnd
<1>1. ASSUME ReadInv, [Next]_vars PROVE A
  <2>1. ReadInv' /\ Forward
    BY <1>1, StepOK
  <2>2. /\ pcb \in Pcb /\ pcb' \in Pcb /\ Announced(pcb')
    BY <1>1, <2>1 DEF ReadInv, PcbInv, Core
  <2>3. pcb.rcv_ann_right_edge \in Nat
    BY <2>2, PcbFacts
  <2>4. pcb'.rcv_ann_right_edge \in Nat /\ pcb'.rcv_nxt \in Nat /\ pcb'.rcv_wnd \in Nat
        /\ pcb'.rcv_ann_wnd \in Nat
    BY <2>2, PcbFacts
  <2>5. /\ pcb.rcv_ann_right_edge <= pcb'.rcv_ann_right_edge
        /\ pcb'.rcv_ann_right_edge <= pcb'.rcv_nxt + pcb'.rcv_ann_wnd
        /\ pcb'.rcv_ann_wnd <= pcb'.rcv_wnd
    BY <2>1, <2>2 DEF Forward, Announced
  <2> QED  BY <2>3, <2>4, <2>5
<1>2. ReadInv /\ [Next]_vars => [A]_vars
  BY <1>1
<1>3. Spec => [][A]_vars
  BY <1>2, ReadInvariant, PTL DEF Spec
<1> QED  BY <1>3 DEF WindowNeverShrinks
=============================================================================
