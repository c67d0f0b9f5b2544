--------------------------- MODULE ReassemblerProofs ---------------------------
(***************************************************************************)
(* Proofs about DirectionalReassembler for every flow, every capture of it *)
(* TCP allows (HonestCapture) and all limits: segments of any cut, in any  *)
(* order, as often and with whatever losses the capture has them.          *)
(*                                                                         *)
(* Two loops of the code are folds of the model; FoldFacts says what a     *)
(* fold computes step by step, for DrainOne and for CloseOne.              *)
(***************************************************************************)
EXTENDS DirectionalReassembler, SequenceTheorems, TLAPS

Bytes   == Range(Sent)
\* What the buffer holds.
Entries == [seq : 0..(SeqSpace - 1), payload : Seq(Bytes), frame : Nat]

ReassemblerTypeOK ==
    /\ isn \in ISNs
    /\ expected_seq \in 0..(SeqSpace - 1) \cup {NoSeq}
    /\ initial_seq \in 0..(SeqSpace - 1) \cup {NoSeq}
    /\ syn_established \in BOOLEAN /\ is_truncated \in BOOLEAN
    /\ has_conflicting_overlaps \in BOOLEAN /\ finalized \in BOOLEAN
    /\ contiguous_buffer \in Seq(Bytes)
    /\ buffered_segments \in Seq(Entries)
    /\ received \in Seq(Opening(isn) \cup Segments(isn))

\* Bytes a to p of the flow are in order, as far as the byte limit lets them.
Ordered(a, p) ==
    /\ a <= p + 1
    /\ expected_seq = SeqNo(p + 1)
    /\ contiguous_buffer = Capped(SubSeq(Sent, a, p))
    /\ is_truncated \/ p - a < MaxBytes
    /\ syn_established => a = 1
    /\ ~syn_established => a <= p /\ initial_seq = SeqNo(a)

\* Before the first SYN or byte nothing is known, and from then on the bytes in order
\* are a slice of what was sent.
Positioned ==
    IF expected_seq = NoSeq
    THEN ~syn_established /\ contiguous_buffer = <<>> /\ buffered_segments = <<>>
    ELSE \E a \in 1..(Len(Sent) + 1), p \in 0..Len(Sent) : Ordered(a, p)

Unfed == received = <<>> => expected_seq = NoSeq

\* What waits is in order of its numbers, part of the flow, and was captured.
Sorted(list) == \A m, n \in DOMAIN list : m <= n => list[m].seq <= list[n].seq
Waiting ==
    /\ Sorted(buffered_segments)
    /\ \A n \in DOMAIN buffered_segments :
          /\ IsSlice(isn, buffered_segments[n])
          /\ \E k \in DOMAIN received : /\ received[k].seq = buffered_segments[n].seq
                                        /\ received[k].payload = buffered_segments[n].payload
          /\ syn_established => buffered_segments[n].seq > expected_seq

\* A segment with bytes that was captured is behind the expected number, or waits.
Seen(seg) ==
    \/ EndSeq(seg) <= expected_seq
    \/ \E n \in DOMAIN buffered_segments : /\ buffered_segments[n].seq = seg.seq
                                           /\ buffered_segments[n].payload = seg.payload
AllSeen ==
    Plain /\ ~is_truncated /\ ~finalized =>
        \A k \in DOMAIN received : HasPayload(received[k]) => Seen(received[k])

\* What is in order was captured.
Backed == Plain => \A i \in DOMAIN Sent : SeqNo(i) < expected_seq => i \in Got

NoConflict == ~is_truncated => ~has_conflicting_overlaps

\* Once the gaps are known, what waited is in the fragments, and so nothing is lost.
Closed ==
    /\ ~finalized => fragments = <<>> /\ gaps = <<>>
    /\ finalized => NothingLost /\ HolesReported

\* The invariant of the flow.
FlowInv ==
    /\ ReassemblerTypeOK /\ Positioned /\ Unfed /\ Waiting
    /\ AllSeen /\ Backed /\ NoConflict /\ Closed
Drain == INSTANCE FoldFacts WITH Op <- DrainOne
Close == INSTANCE FoldFacts WITH Op <- CloseOne

\* Step k of the drain loop is DrainOne applied to segment k.
LEMMA DrainStep ==
    ASSUME NEW base, NEW list, NEW n \in Nat, NEW k \in 1..n
    PROVE  Drain!Step(base, list, n, k) = DrainOne(Drain!Step(base, list, n, k - 1), list[k])
  BY Drain!FoldSteps

\* The accumulators of the drain loop, and what it returns.
DrainAcc(base, list, k) == Drain!Step(base, list, Len(list), k)

\* The fold of the drain loop, step by step.
LEMMA DrainSteps ==
    ASSUME NEW base, NEW S, NEW list \in Seq(S)
    PROVE  /\ DrainAcc(base, list, 0) = base
           /\ \A k \in 1..Len(list) :
                 DrainAcc(base, list, k) = DrainOne(DrainAcc(base, list, k - 1), list[k])
           /\ FoldLeft(DrainOne, base, list) = DrainAcc(base, list, Len(list))
<1> DEFINE n == Len(list)
<1>1. n \in Nat /\ DOMAIN list = 1..n
  OBVIOUS
<1> HIDE DEF n
<1>2. FoldLeft(DrainOne, base, list) = Drain!Step(base, list, n, n)
  BY <1>1 DEF FoldLeft, MapThenFoldSet, Max, Drain!Step, Drain!IsIter, Drain!Max
<1>3. Drain!Step(base, list, n, 0) = base
  BY <1>1, Drain!FoldSteps
<1>4. \A k \in 1..n :
         Drain!Step(base, list, n, k) = DrainOne(Drain!Step(base, list, n, k - 1), list[k])
  BY <1>1, DrainStep
<1> QED BY <1>2, <1>3, <1>4 DEF n, DrainAcc

\* Step k of the loop of finalize_gaps is CloseOne applied to segment k.
LEMMA CloseStep ==
    ASSUME NEW base, NEW list, NEW n \in Nat, NEW k \in 1..n
    PROVE  Close!Step(base, list, n, k) = CloseOne(Close!Step(base, list, n, k - 1), list[k])
  BY Close!FoldSteps

\* The accumulators of the loop of finalize_gaps, and what it returns.
CloseAcc(base, list, k) == Close!Step(base, list, Len(list), k)

\* The fold of the loop of finalize_gaps, step by step.
LEMMA CloseSteps ==
    ASSUME NEW base, NEW S, NEW list \in Seq(S)
    PROVE  /\ CloseAcc(base, list, 0) = base
           /\ \A k \in 1..Len(list) :
                 CloseAcc(base, list, k) = CloseOne(CloseAcc(base, list, k - 1), list[k])
           /\ FoldLeft(CloseOne, base, list) = CloseAcc(base, list, Len(list))
<1> DEFINE n == Len(list)
<1>1. n \in Nat /\ DOMAIN list = 1..n
  OBVIOUS
<1> HIDE DEF n
<1>2. FoldLeft(CloseOne, base, list) = Close!Step(base, list, n, n)
  BY <1>1 DEF FoldLeft, MapThenFoldSet, Max, Close!Step, Close!IsIter, Close!Max
<1>3. Close!Step(base, list, n, 0) = base
  BY <1>1, Close!FoldSteps
<1>4. \A k \in 1..n :
         Close!Step(base, list, n, k) = CloseOne(Close!Step(base, list, n, k - 1), list[k])
  BY <1>1, CloseStep
<1> QED BY <1>2, <1>3, <1>4 DEF n, CloseAcc
-------------------------------------------------------------------------------
\* Numbers that wrap at S, as seen from an initial number b.

\* A number below twice the modulus wraps at most once.
LEMMA SmallMod ==
    ASSUME NEW S \in Nat \ {0}, NEW x \in 0..(2 * S - 1)
    PROVE  x % S = IF x < S THEN x ELSE x - S
<1>1. CASE x < S
  BY <1>1
<1>2. CASE x >= S
  BY <1>2
<1> QED BY <1>1, <1>2

\* The number of byte x, where the first one has b.
LEMMA Value ==
    ASSUME NEW S \in Nat \ {0}, NEW b \in 0..(S - 1), NEW x \in 0..S
    PROVE  /\ (b + x) % S \in 0..(S - 1)
           /\ (b + x) % S = IF b + x < S THEN b + x ELSE b + x - S
<1> DEFINE y == b + x
<1>1. y \in 0..(2 * S - 1)
  OBVIOUS
<1> HIDE DEF y
<1>2. y % S = IF y < S THEN y ELSE y - S
  BY <1>1, SmallMod
<1>3. (b + x) % S = IF b + x < S THEN b + x ELSE b + x - S
  BY <1>2 DEF y
<1>4. (IF b + x < S THEN b + x ELSE b + x - S) \in 0..(S - 1)
  OBVIOUS
<1> QED BY <1>3, <1>4

\* If the numbers q.. of the bytes f to t reach across the number e of byte x, which is at
\* most one behind the last, so do the bytes.
LEMMA Reach ==
    ASSUME NEW S \in Nat \ {0}, NEW b \in 0..(S - 1), NEW L \in Nat, L < S,
           NEW x \in 1..(L + 1), NEW f \in 1..L, NEW t \in f..L, NEW q, NEW e,
           q = IF b + f < S THEN b + f ELSE b + f - S,
           e = IF b + x < S THEN b + x ELSE b + x - S,
           q <= e, e < q + (t - f + 1)
    PROVE  e - q = x - f /\ f <= x /\ x <= t
<1>1. CASE b + f < S
  BY <1>1
<1>2. CASE b + f >= S
  BY <1>2
<1> QED BY <1>1, <1>2

\* A slice that ends where byte a begins has its last byte before a.
LEMMA Touch ==
    ASSUME NEW S \in Nat \ {0}, NEW b \in 0..(S - 1), NEW L \in Nat, L < S,
           NEW a \in 1..L, NEW f \in 1..L, NEW t \in f..L, NEW q, NEW e,
           q = IF b + f < S THEN b + f ELSE b + f - S,
           e = IF b + a < S THEN b + a ELSE b + a - S,
           q + (t - f + 1) = e
    PROVE  a = t + 1
  OBVIOUS

\* A number one round too high has the same residue.
LEMMA Residue ==
    ASSUME NEW S \in Nat \ {0}, NEW u \in 0..(S - 1), NEW y, y = u \/ y = u + S
    PROVE  y % S = u
<1>1. y \in 0..(2 * S - 1)
  OBVIOUS
<1>2. y % S = IF y < S THEN y ELSE y - S
  BY <1>1, SmallMod
<1> QED BY <1>2

\* A byte is found again from its number,
LEMMA BackFirst ==
    ASSUME NEW S \in Nat \ {0}, NEW b \in 0..(S - 1), NEW x \in 0..(S - 1), NEW e,
           e = IF b + x < S THEN b + x ELSE b + x - S
    PROVE  (e - b + S) % S = x
<1>1. e - b + S = x \/ e - b + S = x + S
  OBVIOUS
<1> QED BY <1>1, Residue

\* ... and from the number of the byte behind it.
LEMMA BackLast ==
    ASSUME NEW S \in Nat \ {0}, NEW b \in 0..(S - 1), NEW x \in 1..S, NEW e,
           e = IF b + x < S THEN b + x ELSE b + x - S
    PROVE  (e - b - 1 + S) % S = x - 1
<1>1. e - b - 1 + S = x - 1 \/ e - b - 1 + S = x - 1 + S
  OBVIOUS
<1> QED BY <1>1, Residue

\* Numbers are counted on across the wrap.
LEMMA CountOn ==
    ASSUME NEW S \in Nat \ {0}, NEW b \in 0..(S - 1), NEW x \in 0..S, NEW d \in Nat,
           x + d <= S, NEW e, NEW g,
           e = IF b + x < S THEN b + x ELSE b + x - S,
           g = IF b + x + d < S THEN b + x + d ELSE b + x + d - S
    PROVE  (e + d) % S = g
<1>1. PICK w : w = e + d
  OBVIOUS
<1>2. w \in 0..(2 * S - 1)
  BY <1>1
<1>3. w % S = IF w < S THEN w ELSE w - S
  BY <1>2, SmallMod
<1>4. g = IF w < S THEN w ELSE w - S
  BY <1>1
<1> QED BY <1>1, <1>3, <1>4
-------------------------------------------------------------------------------
\* Numbers and slices.

\* The constants are what their names say.
LEMMA Sizes ==
    ASSUME HonestCapture
    PROVE  /\ Sent \in Seq(Bytes) /\ Len(Sent) \in Nat /\ DOMAIN Sent = 1..Len(Sent)
           /\ SeqSpace \in Nat \ {0} /\ Len(Sent) < SeqSpace
           /\ MaxBytes \in Nat \ {0} /\ MaxBufferedSegments \in Nat \ {0} /\ NoSeq \notin Nat
<1>1. Sent \in Seq(Bytes)
  BY DEF HonestCapture, Bytes
<1>2. Len(Sent) \in Nat /\ DOMAIN Sent = 1..Len(Sent)
  BY <1>1
<1> QED BY <1>1, <1>2, ReassemblerAssumption DEF HonestCapture

\* The number of a byte: it wraps at most once.
LEMMA Number ==
    ASSUME HonestCapture, isn \in ISNs, NEW x \in 0..(Len(Sent) + 1)
    PROVE  /\ SeqNo(x) \in 0..(SeqSpace - 1) /\ SeqNo(x) # NoSeq
           /\ isn \in 0..(SeqSpace - 1)
           /\ SeqNo(x) = IF isn + x < SeqSpace THEN isn + x ELSE isn + x - SeqSpace
<1>1. isn \in 0..(SeqSpace - 1)
  BY ReassemblerAssumption
<1>2. x \in 0..SeqSpace /\ SeqSpace \in Nat \ {0} /\ NoSeq \notin Nat
  BY Sizes
<1>3. SeqNo(x) = (isn + x) % SeqSpace
  BY DEF SeqNo
<1>4. /\ SeqNo(x) \in 0..(SeqSpace - 1)
      /\ SeqNo(x) = IF isn + x < SeqSpace THEN isn + x ELSE isn + x - SeqSpace
  BY <1>1, <1>2, <1>3, Value
<1> QED BY <1>1, <1>2, <1>4

\* _append_contiguous counts on: behind d bytes the number is that of d bytes later.
LEMMA Later ==
    ASSUME HonestCapture, isn \in ISNs,
           NEW x \in 0..(Len(Sent) + 1), NEW d \in Nat, x + d <= Len(Sent) + 1
    PROVE  (SeqNo(x) + d) % SeqSpace = SeqNo(x + d)
<1>1. /\ isn \in 0..(SeqSpace - 1)
      /\ SeqNo(x) = IF isn + x < SeqSpace THEN isn + x ELSE isn + x - SeqSpace
  BY Number
<1>2. PICK y : y = x + d
  OBVIOUS
<1>3. y \in 0..(Len(Sent) + 1)
  BY <1>2, Sizes
<1>4. SeqNo(y) = IF isn + y < SeqSpace THEN isn + y ELSE isn + y - SeqSpace
  BY <1>3, Number
<1>5. /\ SeqSpace \in Nat \ {0} /\ x \in 0..SeqSpace /\ x + d <= SeqSpace
      /\ SeqNo(y) = IF isn + x + d < SeqSpace THEN isn + x + d ELSE isn + x + d - SeqSpace
  BY <1>1, <1>2, <1>3, <1>4, Sizes
<1>6. (SeqNo(x) + d) % SeqSpace = SeqNo(y)
  BY <1>1, <1>5, CountOn
<1> QED BY <1>2, <1>6

\* Numbers that do not wrap count up.
LEMMA PlainNumber ==
    ASSUME HonestCapture, isn \in ISNs, isn + Len(Sent) + 1 < SeqSpace,
           NEW x \in 0..(Len(Sent) + 1)
    PROVE  SeqNo(x) = isn + x /\ isn \in Nat
  BY Number, Sizes

\* If the numbers of a slice reach across the expected one, so do its bytes.
LEMMA Overlap ==
    ASSUME HonestCapture, isn \in ISNs, NEW p \in 0..Len(Sent),
           NEW f \in 1..Len(Sent), NEW t \in f..Len(Sent),
           SeqNo(f) <= SeqNo(p + 1), SeqNo(p + 1) < SeqNo(f) + (t - f + 1)
    PROVE  SeqNo(p + 1) - SeqNo(f) = p + 1 - f /\ f <= p + 1 /\ p < t
<1>1. PICK x : x = p + 1
  OBVIOUS
<1>2. /\ x \in 1..(Len(Sent) + 1) /\ x \in 0..(Len(Sent) + 1) /\ f \in 0..(Len(Sent) + 1)
      /\ Len(Sent) \in Nat /\ Len(Sent) < SeqSpace /\ SeqSpace \in Nat \ {0}
  BY <1>1, Sizes
<1>3. /\ SeqNo(x) = IF isn + x < SeqSpace THEN isn + x ELSE isn + x - SeqSpace
      /\ SeqNo(f) = IF isn + f < SeqSpace THEN isn + f ELSE isn + f - SeqSpace
      /\ isn \in 0..(SeqSpace - 1)
  BY <1>2, Number
<1>4. SeqNo(f) <= SeqNo(x) /\ SeqNo(x) < SeqNo(f) + (t - f + 1)
  BY <1>1
<1>5. SeqNo(x) - SeqNo(f) = x - f /\ f <= x /\ x <= t
  BY <1>2, <1>3, <1>4, Reach
<1>6. f \in Int /\ t \in Int
  BY <1>2
<1> QED BY <1>1, <1>5, <1>6

\* A slice whose last number is followed by the first of another touches it.
LEMMA Touching ==
    ASSUME HonestCapture, isn \in ISNs, NEW a \in 1..Len(Sent),
           NEW f \in 1..Len(Sent), NEW t \in f..Len(Sent), SeqNo(f) + (t - f + 1) = SeqNo(a)
    PROVE  a = t + 1
<1>1. /\ Len(Sent) \in Nat /\ Len(Sent) < SeqSpace /\ SeqSpace \in Nat \ {0}
      /\ a \in 0..(Len(Sent) + 1) /\ f \in 0..(Len(Sent) + 1)
  BY Sizes
<1>2. /\ SeqNo(a) = IF isn + a < SeqSpace THEN isn + a ELSE isn + a - SeqSpace
      /\ SeqNo(f) = IF isn + f < SeqSpace THEN isn + f ELSE isn + f - SeqSpace
      /\ isn \in 0..(SeqSpace - 1)
  BY <1>1, Number
<1> QED BY <1>1, <1>2, Touch

\* First and last byte are read off the numbers.
LEMMA FirstRead ==
    ASSUME HonestCapture, isn \in ISNs, NEW a \in 1..Len(Sent)
    PROVE  (SeqNo(a) - isn + SeqSpace) % SeqSpace = a
<1>1. a \in 0..(Len(Sent) + 1) /\ a \in 0..(SeqSpace - 1) /\ SeqSpace \in Nat \ {0}
  BY Sizes
<1>2. /\ SeqNo(a) = IF isn + a < SeqSpace THEN isn + a ELSE isn + a - SeqSpace
      /\ isn \in 0..(SeqSpace - 1)
  BY <1>1, Number
<1> QED BY <1>1, <1>2, BackFirst

\* LastByte reads the last byte in order off the expected number.
LEMMA LastRead ==
    ASSUME HonestCapture, isn \in ISNs, NEW p \in 0..Len(Sent)
    PROVE  (SeqNo(p + 1) - isn - 1 + SeqSpace) % SeqSpace = p
<1>1. PICK x : x = p + 1
  OBVIOUS
<1>2. x \in 0..(Len(Sent) + 1) /\ x \in 1..SeqSpace /\ SeqSpace \in Nat \ {0}
  BY <1>1, Sizes
<1>3. /\ SeqNo(x) = IF isn + x < SeqSpace THEN isn + x ELSE isn + x - SeqSpace
      /\ isn \in 0..(SeqSpace - 1)
  BY <1>2, Number
<1>4. PICK e : e = SeqNo(x)
  OBVIOUS
<1>5. e = IF isn + x < SeqSpace THEN isn + x ELSE isn + x - SeqSpace
  BY <1>3, <1>4
<1>6. (e - isn - 1 + SeqSpace) % SeqSpace = x - 1
  BY <1>2, <1>3, <1>5, BackLast
<1>7. (SeqNo(x) - isn - 1 + SeqSpace) % SeqSpace = x - 1
  BY <1>4, <1>6
<1> QED BY <1>1, <1>7

\* Different bytes have different numbers.
LEMMA NumbersDiffer ==
    ASSUME HonestCapture, isn \in ISNs, NEW x \in 1..Len(Sent), NEW y \in 1..Len(Sent),
           SeqNo(x) = SeqNo(y)
    PROVE  x = y
  BY FirstRead

\* A slice of what was sent, byte by byte.
LEMMA SliceFacts ==
    ASSUME HonestCapture, NEW f \in 1..(Len(Sent) + 1), NEW t \in (f - 1)..Len(Sent)
    PROVE  /\ SubSeq(Sent, f, t) \in Seq(Bytes)
           /\ Len(SubSeq(Sent, f, t)) = t - f + 1
           /\ \A k \in 1..(t - f + 1) : SubSeq(Sent, f, t)[k] = Sent[f + k - 1]
<1>1. \A k \in f..t : Sent[k] \in Bytes
  BY Sizes, ElementOfSeq
<1>2. f \in Int /\ t \in Int
  BY Sizes
<1>3. /\ SubSeq(Sent, f, t) \in Seq(Bytes)
      /\ Len(SubSeq(Sent, f, t)) = IF f <= t THEN t - f + 1 ELSE 0
      /\ \A k \in 1..(t - f + 1) : SubSeq(Sent, f, t)[k] = Sent[f + k - 1]
  BY <1>1, <1>2, SubSeqProperties
<1> QED BY <1>2, <1>3, Sizes

\* The end of a slice is a slice.
LEMMA SliceRest ==
    ASSUME HonestCapture, NEW f \in 1..Len(Sent), NEW t \in f..Len(Sent), NEW d \in 0..(t - f)
    PROVE  SubSeq(SubSeq(Sent, f, t), d + 1, t - f + 1) = SubSeq(Sent, f + d, t)
<1>1. d + 1 \in 1..(t - f + 1) /\ t - f + 1 \in 1..(t - f + 1)
  BY Sizes
<1>2. f \in 1..Len(Sent) /\ t \in 1..Len(Sent)
  BY Sizes
<1>3. SubSeq(SubSeq(Sent, f, t), d + 1, t - f + 1)
        = SubSeq(Sent, f + (d + 1) - 1, f + (t - f + 1) - 1)
  BY <1>1, <1>2, Sizes, SubSeqOfSubSeq
<1>4. f + (d + 1) - 1 = f + d /\ f + (t - f + 1) - 1 = t
  BY Sizes
<1> QED BY <1>3, <1>4

\* ... and its first bytes.
LEMMA SliceStart ==
    ASSUME HonestCapture, NEW f \in 1..Len(Sent), NEW t \in f..Len(Sent), NEW d \in 1..(t - f + 1)
    PROVE  SubSeq(SubSeq(Sent, f, t), 1, d) = SubSeq(Sent, f, f + d - 1)
<1>1. 1 \in 1..(t - f + 1) /\ d \in 1..(t - f + 1)
  BY Sizes
<1>2. f \in 1..Len(Sent) /\ t \in 1..Len(Sent)
  BY Sizes
<1>3. SubSeq(SubSeq(Sent, f, t), 1, d) = SubSeq(Sent, f + 1 - 1, f + d - 1)
  BY <1>1, <1>2, Sizes, SubSeqOfSubSeq
<1> QED BY <1>3, <1>2, Sizes

\* Adjacent slices make one.
LEMMA SlicesJoin ==
    ASSUME HonestCapture, NEW f \in 1..(Len(Sent) + 1), NEW k \in (f - 1)..Len(Sent),
           NEW t \in k..Len(Sent)
    PROVE  SubSeq(Sent, f, k) \o SubSeq(Sent, k + 1, t) = SubSeq(Sent, f, t)
  BY Sizes, ConcatAdjacentSubSeq

\* A slice covers its own bytes and no others.
LEMMA SliceCovers ==
    ASSUME HonestCapture, isn \in ISNs, NEW f \in 1..Len(Sent), NEW t \in f..Len(Sent),
           NEW i \in 1..Len(Sent)
    PROVE  Covers(SeqNo(f), SubSeq(Sent, f, t), i) <=> f <= i /\ i <= t
<1>1. DOMAIN SubSeq(Sent, f, t) = 1..(t - f + 1)
  BY SliceFacts, Sizes
<1>2. ASSUME NEW j \in 1..(t - f + 1)
      PROVE  (SeqNo(f) + j - 1) % SeqSpace = SeqNo(f + j - 1) /\ f + j - 1 \in 1..Len(Sent)
  <2>1. j - 1 \in Nat /\ f + (j - 1) <= Len(Sent) + 1 /\ f \in 0..(Len(Sent) + 1)
    BY Sizes
  <2>2. (SeqNo(f) + (j - 1)) % SeqSpace = SeqNo(f + (j - 1))
    BY <2>1, Later
  <2>3. SeqNo(f) \in Int /\ f + (j - 1) = f + j - 1
    BY <2>1, Number
  <2>4. SeqNo(f) + (j - 1) = SeqNo(f) + j - 1
    BY <2>3
  <2> QED BY <2>2, <2>3, <2>4, Sizes
<1>3. ASSUME Covers(SeqNo(f), SubSeq(Sent, f, t), i) PROVE f <= i /\ i <= t
  <2>1. PICK j \in 1..(t - f + 1) : (SeqNo(f) + j - 1) % SeqSpace = SeqNo(i)
    BY <1>1, <1>3 DEF Covers
  <2>2. f + j - 1 = i
    BY <1>2, <2>1, NumbersDiffer
  <2> QED BY <2>2, Sizes
<1>4. ASSUME f <= i, i <= t PROVE Covers(SeqNo(f), SubSeq(Sent, f, t), i)
  <2>1. i - f + 1 \in 1..(t - f + 1) /\ f + (i - f + 1) - 1 = i
    BY <1>4, Sizes
  <2> QED BY <1>1, <1>2, <2>1 DEF Covers
<1> QED BY <1>3, <1>4
-------------------------------------------------------------------------------
\* The byte limit.

\* _append_contiguous keeps the first bytes, and all of them up to the limit.
LEMMA CappedFacts ==
    ASSUME HonestCapture, NEW S, NEW d \in Seq(S)
    PROVE  /\ Capped(d) \in Seq(S)
           /\ Len(d) > MaxBytes => Capped(d) = SubSeq(d, 1, MaxBytes) /\ Len(Capped(d)) = MaxBytes
           /\ Len(d) <= MaxBytes => Capped(d) = d
<1>1. Len(d) \in Nat /\ MaxBytes \in Nat \ {0}
  BY Sizes
<1>2. CASE Len(d) > MaxBytes
  <2>1. Capped(d) = SubSeq(d, 1, MaxBytes)
    BY <1>2 DEF Capped
  <2>2. \A i \in 1..MaxBytes : d[i] \in S
    BY <1>1, <1>2, ElementOfSeq
  <2>3. SubSeq(d, 1, MaxBytes) \in Seq(S) /\ Len(SubSeq(d, 1, MaxBytes)) = MaxBytes
    BY <1>1, <2>2, SubSeqProperties
  <2> QED BY <1>1, <1>2, <2>1, <2>3
<1>3. CASE Len(d) <= MaxBytes
  <2>1. Capped(d) = SubSeq(d, 1, Len(d))
    BY <1>1, <1>3 DEF Capped
  <2> QED BY <1>1, <1>3, <2>1, SubSeqFull
<1> QED BY <1>1, <1>2, <1>3

\* What was cut before makes no difference to what is cut behind it.
LEMMA CappedMore ==
    ASSUME HonestCapture, NEW S, NEW x \in Seq(S), NEW y \in Seq(S), NEW z \in Seq(S),
           Capped(x) = Capped(y)
    PROVE  Capped(x \o z) = Capped(y \o z)
<1>1. /\ Len(x) \in Nat /\ Len(y) \in Nat /\ Len(z) \in Nat /\ MaxBytes \in Nat \ {0}
      /\ x \o z \in Seq(S) /\ Len(x \o z) = Len(x) + Len(z)
      /\ y \o z \in Seq(S) /\ Len(y \o z) = Len(y) + Len(z)
  BY Sizes, ConcatProperties
<1>2. CASE Len(x) < MaxBytes \/ Len(y) < MaxBytes
  <2>1. x = y
    BY <1>1, <1>2, CappedFacts
  <2> QED BY <2>1
<1>3. CASE Len(x) >= MaxBytes /\ Len(y) >= MaxBytes
  <2>1. ASSUME NEW w \in Seq(S), Len(w) >= MaxBytes, Len(w \o z) = Len(w) + Len(z),
               w \o z \in Seq(S)
        PROVE  Capped(w \o z) = Capped(w)
    <3>1. Len(w) \in Nat /\ 1 \in 1..Len(w) /\ MaxBytes \in 1..Len(w)
      BY <1>1, <2>1
    <3>2. SubSeq(w \o z, 1, MaxBytes) = SubSeq(w, 1, MaxBytes)
      BY <3>1, SubSeqOfConcat1
    <3>3. Capped(w) = SubSeq(w, 1, MaxBytes)
      BY <1>1, <2>1, <3>1 DEF Capped
    <3>4. Capped(w \o z) = SubSeq(w \o z, 1, MaxBytes)
      BY <1>1, <2>1, <3>1 DEF Capped
    <3> QED BY <3>2, <3>3, <3>4
  <2> QED BY <1>1, <1>3, <2>1
<1> QED BY <1>1, <1>2, <1>3

\* Cutting again cuts no more.
LEMMA CappedTwice ==
    ASSUME HonestCapture, NEW S, NEW x \in Seq(S)
    PROVE  Capped(Capped(x)) = Capped(x)
<1>1. Len(x) \in Nat /\ MaxBytes \in Nat \ {0}
  BY Sizes
<1>2. Capped(x) \in Seq(S) /\ Len(Capped(x)) <= MaxBytes
  BY <1>1, CappedFacts
<1> QED BY <1>2, CappedFacts

\* Nor does it make one to bytes put in front.
LEMMA CappedBehind ==
    ASSUME HonestCapture, NEW S, NEW z \in Seq(S), NEW x \in Seq(S)
    PROVE  Capped(z \o Capped(x)) = Capped(z \o x)
<1>1. Len(x) \in Nat /\ Len(z) \in Nat /\ MaxBytes \in Nat \ {0}
  BY Sizes
<1>2. CASE Len(x) <= MaxBytes
  BY <1>2, CappedFacts
<1>3. CASE Len(x) > MaxBytes
  <2> DEFINE c == Capped(x)
  <2>1. c \in Seq(S) /\ Len(c) = MaxBytes /\ c = SubSeq(x, 1, MaxBytes)
    BY <1>3, CappedFacts
  <2>2. \A i \in 1..MaxBytes : c[i] = x[i]
    <3>1. \A i \in 1..MaxBytes : x[i] \in S
      BY <1>1, <1>3, ElementOfSeq
    <3>2. \A i \in 1..(MaxBytes - 1 + 1) : SubSeq(x, 1, MaxBytes)[i] = x[1 + i - 1]
      BY <1>1, <3>1, SubSeqProperties
    <3> HIDE DEF c
    <3> QED BY <1>1, <2>1, <3>2
  <2> HIDE DEF c
  <2>3. /\ z \o c \in Seq(S) /\ Len(z \o c) = Len(z) + MaxBytes
        /\ \A i \in 1..(Len(z) + MaxBytes) :
              (z \o c)[i] = IF i <= Len(z) THEN z[i] ELSE c[i - Len(z)]
    BY <2>1, ConcatProperties
  <2>4. /\ z \o x \in Seq(S) /\ Len(z \o x) = Len(z) + Len(x)
        /\ \A i \in 1..(Len(z) + Len(x)) :
              (z \o x)[i] = IF i <= Len(z) THEN z[i] ELSE x[i - Len(z)]
    BY ConcatProperties
  <2>5. \A i \in 1..MaxBytes : (z \o c)[i] = (z \o x)[i]
    BY <1>1, <1>3, <2>2, <2>3, <2>4
  <2>6. /\ Capped(z \o c) = SubSeq(z \o c, 1, MaxBytes)
        /\ Capped(z \o x) = SubSeq(z \o x, 1, MaxBytes)
    BY <1>1, <1>3, <2>3, <2>4 DEF Capped
  <2>7. ASSUME NEW w \in Seq(S), Len(w) >= MaxBytes
        PROVE  /\ SubSeq(w, 1, MaxBytes) \in Seq(S) /\ Len(SubSeq(w, 1, MaxBytes)) = MaxBytes
               /\ \A i \in 1..MaxBytes : SubSeq(w, 1, MaxBytes)[i] = w[i]
    <3>1. \A i \in 1..MaxBytes : w[i] \in S
      BY <1>1, <2>7, ElementOfSeq
    <3>2. /\ SubSeq(w, 1, MaxBytes) \in Seq(S)
          /\ Len(SubSeq(w, 1, MaxBytes)) = IF 1 <= MaxBytes THEN MaxBytes - 1 + 1 ELSE 0
          /\ \A i \in 1..(MaxBytes - 1 + 1) : SubSeq(w, 1, MaxBytes)[i] = w[1 + i - 1]
      BY <1>1, <3>1, SubSeqProperties
    <3> QED BY <1>1, <3>2
  <2>8. SubSeq(z \o c, 1, MaxBytes) = SubSeq(z \o x, 1, MaxBytes)
    <3>1. Len(z \o c) >= MaxBytes /\ Len(z \o x) >= MaxBytes
      BY <1>1, <1>3, <2>3, <2>4
    <3>2. PICK l : l = SubSeq(z \o c, 1, MaxBytes)
      OBVIOUS
    <3>3. PICK r : r = SubSeq(z \o x, 1, MaxBytes)
      OBVIOUS
    <3>4. /\ l \in Seq(S) /\ Len(l) = MaxBytes
          /\ \A i \in 1..MaxBytes : l[i] = (z \o c)[i]
      BY <2>3, <2>7, <3>1, <3>2
    <3>5. /\ r \in Seq(S) /\ Len(r) = MaxBytes
          /\ \A i \in 1..MaxBytes : r[i] = (z \o x)[i]
      BY <2>4, <2>7, <3>1, <3>3
    <3>6. \A i \in 1..Len(l) : l[i] = r[i]
      BY <2>5, <3>4, <3>5
    <3>7. l = r
      BY <3>4, <3>5, <3>6, SeqEqual
    <3> QED BY <3>2, <3>3, <3>7
  <2> QED BY <2>6, <2>8 DEF c
<1> QED BY <1>1, <1>2, <1>3
-------------------------------------------------------------------------------
\* The drain loop.

\* A sorted list does not fall again.
LEMMA Upward ==
    ASSUME NEW n \in Nat, NEW T, 0 \in T, \A i \in 1..n : i - 1 \in T => i \in T
    PROVE  0..n \subseteq T
  BY Drain!UpTo, SMT

\* The part of a segment above the expected number continues the stream.
LEMMA Fresh ==
    ASSUME HonestCapture, isn \in ISNs, NEW seg,
           NEW f \in 1..Len(Sent), NEW u \in f..Len(Sent),
           seg.seq = SeqNo(f), seg.payload = SubSeq(Sent, f, u),
           NEW q \in 0..Len(Sent), seg.seq <= SeqNo(q + 1), SeqNo(q + 1) < EndSeq(seg)
    PROVE  /\ f <= q + 1 /\ q < u
           /\ SeqNo(q + 1) - seg.seq = q + 1 - f
           /\ SubSeq(seg.payload, SeqNo(q + 1) - seg.seq + 1, Len(seg.payload))
                = SubSeq(Sent, q + 1, u)
<1>1. Len(seg.payload) = u - f + 1
  BY SliceFacts, Sizes
<1>2. SeqNo(f) <= SeqNo(q + 1) /\ SeqNo(q + 1) < SeqNo(f) + (u - f + 1)
  BY <1>1 DEF EndSeq
<1>3. SeqNo(q + 1) - SeqNo(f) = q + 1 - f /\ f <= q + 1 /\ q < u
  BY <1>2, Overlap
<1>4. PICK d : d = q + 1 - f
  OBVIOUS
<1>5. d \in 0..(u - f) /\ f + d = q + 1 /\ q + 1 \in 1..(Len(Sent) + 1) /\ u \in q..Len(Sent)
  BY <1>3, <1>4, Sizes
<1>6. SubSeq(SubSeq(Sent, f, u), d + 1, u - f + 1) = SubSeq(Sent, f + d, u)
  BY <1>5, SliceRest
<1> QED BY <1>1, <1>3, <1>4, <1>5, <1>6

\* ... and the expected number behind it is that of the byte behind it.
LEMMA FreshTail ==
    ASSUME HonestCapture, isn \in ISNs, NEW q \in 0..Len(Sent), NEW u \in q..Len(Sent)
    PROVE  /\ SubSeq(Sent, q + 1, u) \in Seq(Bytes)
           /\ Len(SubSeq(Sent, q + 1, u)) = u - q
           /\ Advance(SeqNo(q + 1), SubSeq(Sent, q + 1, u)) = SeqNo(u + 1)
<1>1. SubSeq(Sent, q + 1, u) \in Seq(Bytes) /\ Len(SubSeq(Sent, q + 1, u)) = u - q
  <2>1. PICK g : g = q + 1
    OBVIOUS
  <2>2. g \in 1..(Len(Sent) + 1) /\ u \in (g - 1)..Len(Sent) /\ u - g + 1 = u - q
    BY <2>1, Sizes
  <2>3. SubSeq(Sent, g, u) \in Seq(Bytes) /\ Len(SubSeq(Sent, g, u)) = u - g + 1
    BY <2>2, SliceFacts
  <2> QED BY <2>1, <2>2, <2>3
<1>2. Advance(SeqNo(q + 1), SubSeq(Sent, q + 1, u)) = SeqNo(u + 1)
  <2>1. PICK g : g = q + 1
    OBVIOUS
  <2>2. /\ g \in 0..(Len(Sent) + 1) /\ u - q \in Nat /\ g + (u - q) <= Len(Sent) + 1
        /\ g + (u - q) = u + 1
    BY <2>1, Sizes
  <2>3. (SeqNo(g) + (u - q)) % SeqSpace = SeqNo(g + (u - q))
    BY <2>2, Later
  <2>4. Advance(SeqNo(q + 1), SubSeq(Sent, q + 1, u)) = (SeqNo(g) + (u - q)) % SeqSpace
    BY <1>1, <2>1 DEF Advance
  <2> QED BY <2>2, <2>3, <2>4
<1> QED BY <1>1, <1>2

\* After k segments of a list that starts with data up to byte t behind it: the stream
\* reaches byte q, the first j segments are gone and the others are left.
DrainedTo(acc, list, a, t, data, k, q, j) ==
    /\ acc.expected = SeqNo(q + 1)
    /\ acc.data \in Seq(Bytes)
    /\ Len(acc.data) = Len(data) + (q - t)
    /\ Capped(acc.data) = Capped(SubSeq(Sent, a, q))
    /\ acc.left = SubSeq(list, j + 1, k)
    /\ j < k => list[j + 1].seq > acc.expected
    /\ \A i \in (t + 1)..q :
          \E n \in 1..Len(list) : Covers(list[n].seq, list[n].payload, i)
    /\ isn + Len(Sent) + 1 < SeqSpace => \A n \in 1..j : EndSeq(list[n]) <= acc.expected

\* The accumulator of the drain loop is a record of these fields.
IsDrain(acc) ==
    acc = [expected |-> acc.expected, data |-> acc.data, left |-> acc.left]

\* What waits has a number and bytes.
LEMMA EntryFacts ==
    ASSUME HonestCapture, NEW e \in Entries
    PROVE  /\ e.seq \in Nat /\ e.payload \in Seq(Bytes) /\ Len(e.payload) \in Nat
           /\ EndSeq(e) = e.seq + Len(e.payload) /\ EndSeq(e) \in Nat
<1>1. e.seq \in 0..(SeqSpace - 1) /\ e.payload \in Seq(Bytes)
  BY DEF Entries
<1>2. e.seq \in Nat
  BY <1>1, Sizes
<1>3. Len(e.payload) \in Nat
  BY <1>1
<1> QED BY <1>1, <1>2, <1>3 DEF EndSeq

\* A slice of a list grows by its next element.
LEMMA SliceAppend ==
    ASSUME NEW S, NEW list \in Seq(S), NEW k \in 1..Len(list), NEW j \in 0..(k - 1)
    PROVE  Append(SubSeq(list, j + 1, k - 1), list[k]) = SubSeq(list, j + 1, k)
<1>1. /\ Len(list) \in Nat /\ j + 1 \in Int /\ k \in Int /\ k - 1 \in Int
      /\ j + 1 \in 1..Len(list) /\ k \in (j + 1)..Len(list)
  OBVIOUS
<1>2. SubSeq(list, j + 1, k) = SubSeq(list, j + 1, k - 1) \o <<list[k]>>
  BY <1>1, SubSeqRecursiveSecond
<1>3. \A i \in (j + 1)..(k - 1) : list[i] \in S
  BY <1>1, ElementOfSeq
<1>4. SubSeq(list, j + 1, k - 1) \in Seq(S)
  BY <1>1, <1>3, SubSeqProperties
<1>5. list[k] \in S
  BY ElementOfSeq
<1> QED BY <1>2, <1>4, <1>5, AppendIsConcat

\* One step of the drain loop, from the bytes up to q in order.
LEMMA DrainOneKeeps ==
    ASSUME HonestCapture, isn \in ISNs,
           NEW list \in Seq(Entries), Sorted(list),
           \A n \in 1..Len(list) : IsSlice(isn, list[n]),
           NEW a \in 1..(Len(Sent) + 1), NEW t \in (a - 1)..Len(Sent),
           NEW data \in Seq(Bytes), NEW acc, IsDrain(acc),
           NEW k \in 1..Len(list), NEW q \in t..Len(Sent), NEW j \in 0..(k - 1),
           DrainedTo(acc, list, a, t, data, k - 1, q, j)
    PROVE  \E r \in t..Len(Sent), m \in 0..k :
              DrainedTo(DrainOne(acc, list[k]), list, a, t, data, k, r, m)
<1> DEFINE seg == list[k]
<1>1. /\ Len(list) \in Nat /\ DOMAIN list = 1..Len(list) /\ k \in Nat /\ j \in Nat
      /\ Len(Sent) \in Nat /\ q \in Nat /\ t \in Nat /\ a \in Nat /\ Len(data) \in Nat
  BY Sizes
<1>2. seg \in Entries
  BY ElementOfSeq
<1>3. PICK f \in 1..Len(Sent), u \in 1..Len(Sent) :
         f <= u /\ seg.seq = SeqNo(f) /\ seg.payload = SubSeq(Sent, f, u)
  BY DEF IsSlice, SeqNo
<1> HIDE DEF seg
<1>4. seg.seq \in Nat /\ EndSeq(seg) \in Nat
  BY <1>2, EntryFacts
<1>5. q + 1 \in 0..(Len(Sent) + 1)
  BY <1>1
<1>6. SeqNo(q + 1) \in Nat
  <2>1. SeqNo(q + 1) \in 0..(SeqSpace - 1)
    BY <1>5, Number
  <2> QED BY <2>1, Sizes
<1>7. f \in Nat /\ u \in Nat /\ f <= u /\ u <= Len(Sent) /\ 1 <= f /\ u \in f..Len(Sent)
  BY <1>1, <1>3
<1>10. /\ a - 1 <= t /\ t <= q /\ q <= Len(Sent) /\ j <= k - 1 /\ k <= Len(list) /\ 1 <= k
       /\ q \in 0..Len(Sent) /\ acc.expected = SeqNo(q + 1)
  BY <1>1 DEF DrainedTo
<1>8. CASE seg.seq > acc.expected
  <2>1. DrainOne(acc, seg) = [acc EXCEPT !.left = Append(@, seg)]
    BY <1>8 DEF DrainOne
  <2>2. /\ DrainOne(acc, seg).expected = acc.expected /\ DrainOne(acc, seg).data = acc.data
        /\ DrainOne(acc, seg).left = Append(acc.left, seg)
    BY <2>1 DEF IsDrain
  <2>3. Append(SubSeq(list, j + 1, k - 1), seg) = SubSeq(list, j + 1, k)
    BY SliceAppend DEF seg
  <2>4. list[j + 1].seq > acc.expected
    <3>1. CASE j < k - 1
      BY <3>1 DEF DrainedTo
    <3>2. CASE j = k - 1
      <4>1. j + 1 = k
        BY <1>1, <3>2
      <4> QED BY <1>8, <4>1 DEF seg
    <3> QED BY <1>1, <3>1, <3>2
  <2>5. DrainedTo(DrainOne(acc, seg), list, a, t, data, k, q, j)
    BY <2>2, <2>3, <2>4 DEF DrainedTo
  <2>6. j \in 0..k
    BY <1>1
  <2> QED BY <2>5, <2>6 DEF seg
<1>9. CASE seg.seq <= acc.expected
  <2>1. j = k - 1
    <3>1. SUFFICES ASSUME j < k - 1 PROVE FALSE
      BY <1>1, <3>1
    <3>2. list[j + 1].seq > acc.expected
      BY <3>1 DEF DrainedTo
    <3>3. j + 1 \in 1..Len(list) /\ j + 1 <= k
      BY <1>1, <3>1
    <3>4. list[j + 1].seq <= seg.seq
      BY <1>1, <3>3 DEF Sorted, seg
    <3>5. list[j + 1].seq \in Nat
      <4>1. list[j + 1] \in Entries
        BY <3>3, ElementOfSeq
      <4> QED BY <4>1, EntryFacts
    <3>6. acc.expected \in Nat
      BY <1>6, <1>10
    <3>7. PICK x, y, z \in Nat : x = list[j + 1].seq /\ y = seg.seq /\ z = acc.expected
      BY <1>4, <3>5, <3>6
    <3>8. x > z /\ x <= y /\ y <= z
      BY <1>9, <3>2, <3>4, <3>7
    <3> QED BY <3>8
  <2>2. acc.left = <<>> /\ SubSeq(list, k + 1, k) = <<>>
    <3>1. acc.left = SubSeq(list, j + 1, k - 1)
      BY DEF DrainedTo
    <3>2. SubSeq(list, j + 1, k - 1) = <<>>
      BY <1>1, <2>1, SubSeqEmpty
    <3>3. SubSeq(list, k + 1, k) = <<>>
      BY <1>1, SubSeqEmpty
    <3> QED BY <3>1, <3>2, <3>3
  <2>3. CASE EndSeq(seg) <= acc.expected
    <3>1. DrainOne(acc, seg) = acc
      <4>1. ~(seg.seq > acc.expected)
        BY SMTT(20), <1>4, <1>6, <1>9, <1>10
      <4> QED BY <2>3, <4>1 DEF DrainOne
    <3>2. \A n \in 1..k : n \in 1..j \/ n = k
      BY <1>1, <2>1
    <3>3. ASSUME isn + Len(Sent) + 1 < SeqSpace, NEW n \in 1..k
          PROVE  EndSeq(list[n]) <= acc.expected
      BY <2>3, <3>2, <3>3 DEF DrainedTo, seg
    <3>4. ~(k < k)
      BY <1>1
    <3>5. DrainedTo(acc, list, a, t, data, k, q, k)
      BY <2>2, <3>3, <3>4 DEF DrainedTo
    <3> QED BY <1>1, <3>1, <3>5 DEF seg
  <2>4. CASE acc.expected < EndSeq(seg)
    <3>1. /\ u \in f..Len(Sent) /\ q \in 0..Len(Sent)
          /\ seg.seq <= SeqNo(q + 1) /\ SeqNo(q + 1) < EndSeq(seg)
      BY <1>7, <1>9, <1>10, <2>4
    <3>13. seg.seq = SeqNo(f) /\ seg.payload = SubSeq(Sent, f, u)
      BY <1>3
    <3>14. f <= q + 1 /\ q < u
      BY <3>1, <3>13, Fresh
    <3>15. SubSeq(seg.payload, SeqNo(q + 1) - seg.seq + 1, Len(seg.payload))
             = SubSeq(Sent, q + 1, u)
      BY <3>1, <3>13, Fresh
    <3>16. u \in q..Len(Sent)
      BY <1>7, <1>10, <3>14
    <3>17. SubSeq(Sent, q + 1, u) \in Seq(Bytes) /\ Len(SubSeq(Sent, q + 1, u)) = u - q
      BY <3>1, <3>16, FreshTail
    <3>18. Advance(SeqNo(q + 1), SubSeq(Sent, q + 1, u)) = SeqNo(u + 1)
      BY <3>1, <3>16, FreshTail
    <3> DEFINE fresh == SubSeq(Sent, q + 1, u)
               next  == DrainOne(acc, seg)
    <3>2. /\ f <= q + 1 /\ q < u
          /\ SubSeq(seg.payload, SeqNo(q + 1) - seg.seq + 1, Len(seg.payload)) = fresh
          /\ fresh \in Seq(Bytes) /\ Len(fresh) = u - q
          /\ Advance(SeqNo(q + 1), fresh) = SeqNo(u + 1)
      BY <3>14, <3>15, <3>17, <3>18
    <3> HIDE DEF fresh
    <3>12. f <= q + 1 /\ q < u
      BY <3>2
    <3>3. next = [acc EXCEPT !.data = @ \o fresh, !.expected = Advance(@, fresh)]
      <4>1. ~(seg.seq > acc.expected) /\ ~(EndSeq(seg) <= acc.expected)
        BY SMTT(20), <1>4, <1>6, <1>9, <1>10, <2>4
      <4>2. SubSeq(seg.payload, acc.expected - seg.seq + 1, Len(seg.payload)) = fresh
        BY <1>10, <3>2
      <4> QED BY <4>1, <4>2 DEF DrainOne
    <3>4. /\ next.expected = SeqNo(u + 1) /\ next.data = acc.data \o fresh /\ next.left = acc.left
      BY <1>10, <3>2, <3>3 DEF IsDrain
    <3>5. acc.data \in Seq(Bytes) /\ Len(acc.data) = Len(data) + (q - t)
      BY DEF DrainedTo
    <3>6. next.data \in Seq(Bytes) /\ Len(next.data) = Len(data) + (u - t)
      <4>1. acc.data \o fresh \in Seq(Bytes) /\ Len(acc.data \o fresh) = Len(acc.data) + Len(fresh)
        BY <3>2, <3>5, ConcatProperties
      <4>2. Len(fresh) = u - q
        BY <3>2
      <4>3. Len(data) + (q - t) + (u - q) = Len(data) + (u - t)
        BY <1>1, <1>7
      <4> QED BY <3>4, <3>5, <4>1, <4>2, <4>3
    <3>7. Capped(next.data) = Capped(SubSeq(Sent, a, u))
      <4>1. q \in (a - 1)..Len(Sent) /\ u \in q..Len(Sent)
        BY <1>1, <1>7, <1>10, <3>12
      <4>2. SubSeq(Sent, a, q) \o fresh = SubSeq(Sent, a, u)
        BY <4>1, SlicesJoin DEF fresh
      <4>3. SubSeq(Sent, a, q) \in Seq(Bytes)
        BY <4>1, SliceFacts
      <4>4. Capped(acc.data) = Capped(SubSeq(Sent, a, q))
        BY DEF DrainedTo
      <4>5. Capped(acc.data \o fresh) = Capped(SubSeq(Sent, a, q) \o fresh)
        <5>1. PICK x, y : x = acc.data /\ y = SubSeq(Sent, a, q)
          OBVIOUS
        <5>2. x \in Seq(Bytes) /\ y \in Seq(Bytes) /\ fresh \in Seq(Bytes)
          BY <3>2, <3>5, <4>3, <5>1
        <5>3. Capped(x) = Capped(y)
          BY <4>4, <5>1
        <5>4. Capped(x \o fresh) = Capped(y \o fresh)
          BY <5>2, <5>3, CappedMore
        <5> QED BY <5>1, <5>4
      <4> QED BY <3>4, <4>2, <4>5
    <3>8. \A i \in (t + 1)..u : \E n \in 1..Len(list) : Covers(list[n].seq, list[n].payload, i)
      <4> SUFFICES ASSUME NEW i \in (t + 1)..u
                   PROVE  \E n \in 1..Len(list) : Covers(list[n].seq, list[n].payload, i)
        OBVIOUS
      <4>1. CASE i <= q
        <5>1. i \in (t + 1)..q
          BY <1>1, <4>1
        <5> QED BY <5>1 DEF DrainedTo
      <4>2. CASE i > q
        <5>1. i \in 1..Len(Sent) /\ f <= i /\ i <= u /\ u \in f..Len(Sent)
          BY <1>1, <1>7, <1>10, <3>12, <4>2
        <5>2. Covers(seg.seq, seg.payload, i)
          BY <1>3, <5>1, SliceCovers
        <5> QED BY <5>2 DEF seg
      <4> QED BY <1>1, <4>1, <4>2
    <3>9. ASSUME isn + Len(Sent) + 1 < SeqSpace, NEW n \in 1..k
          PROVE  EndSeq(list[n]) <= SeqNo(u + 1)
      <4>1. u + 1 \in 0..(Len(Sent) + 1) /\ f \in 0..(Len(Sent) + 1)
        BY <1>1, <1>3
      <4>2. /\ SeqNo(q + 1) = isn + (q + 1) /\ SeqNo(u + 1) = isn + (u + 1) /\ SeqNo(f) = isn + f
            /\ isn \in Nat
        BY <1>1, <1>5, <3>9, <4>1, PlainNumber
      <4>3. CASE n = k
        <5>1. Len(seg.payload) = u - f + 1
          BY <1>3, <3>1, SliceFacts
        <5>2. EndSeq(seg) = isn + f + (u - f + 1)
          BY <1>3, <4>2, <5>1 DEF EndSeq
        <5>3. EndSeq(seg) <= SeqNo(u + 1)
          BY <1>7, <4>2, <5>2
        <5> QED BY <4>3, <5>3 DEF seg
      <4>4. CASE n # k
        <5>1. n \in 1..j
          BY <1>1, <2>1, <4>4
        <5>2. EndSeq(list[n]) <= SeqNo(q + 1)
          BY <1>10, <3>9, <5>1 DEF DrainedTo
        <5>3. EndSeq(list[n]) \in Nat
          <6>1. n \in 1..Len(list)
            BY <1>1
          <6>2. list[n] \in Entries
            BY <6>1, ElementOfSeq
          <6> QED BY <6>2, EntryFacts
        <5>4. EndSeq(list[n]) <= isn + (q + 1)
          BY <4>2, <5>2
        <5>5. isn + (q + 1) <= isn + (u + 1) /\ isn + (q + 1) \in Nat /\ isn + (u + 1) \in Nat
          BY <1>1, <1>7, <3>12, <4>2
        <5>6. EndSeq(list[n]) <= isn + (u + 1)
          BY SMTT(20), <5>3, <5>4, <5>5
        <5> QED BY <4>2, <5>6
      <4> QED BY <4>3, <4>4
    <3>10. DrainedTo(next, list, a, t, data, k, u, k)
      <4>1. ~(k < k)
        BY <1>1
      <4> HIDE DEF next
      <4> QED BY <2>2, <3>4, <3>6, <3>7, <3>8, <3>9, <4>1 DEF DrainedTo
    <3>11. u \in t..Len(Sent) /\ k \in 0..k
      BY <1>1, <1>7, <1>10, <3>12
    <3> QED BY <3>10, <3>11 DEF seg
  <2> QED BY <1>4, <1>6, <1>10, <2>3, <2>4
<1> QED BY SMTT(20), <1>4, <1>6, <1>8, <1>9, <1>10

\* The accumulator keeps its shape.
LEMMA DrainKeepsShape ==
    ASSUME NEW acc, IsDrain(acc), NEW seg
    PROVE  IsDrain(DrainOne(acc, seg))
<1>1. CASE seg.seq > acc.expected
  BY <1>1 DEF IsDrain, DrainOne
<1>2. CASE ~(seg.seq > acc.expected) /\ EndSeq(seg) <= acc.expected
  BY <1>2 DEF DrainOne
<1>3. CASE ~(seg.seq > acc.expected) /\ ~(EndSeq(seg) <= acc.expected)
  <2> DEFINE fresh == SubSeq(seg.payload, acc.expected - seg.seq + 1, Len(seg.payload))
  <2>1. DrainOne(acc, seg) = [acc EXCEPT !.data = @ \o fresh, !.expected = Advance(@, fresh)]
    BY <1>3 DEF DrainOne
  <2> HIDE DEF fresh
  <2> QED BY <2>1 DEF IsDrain
<1> QED BY <1>1, <1>2, <1>3

\* All steps of the drain loop together.
LEMMA DrainedFacts ==
    ASSUME HonestCapture, isn \in ISNs,
           NEW list \in Seq(Entries), Sorted(list),
           \A n \in 1..Len(list) : IsSlice(isn, list[n]),
           NEW a \in 1..(Len(Sent) + 1), NEW t \in (a - 1)..Len(Sent),
           NEW data \in Seq(Bytes), Capped(data) = Capped(SubSeq(Sent, a, t)),
           NEW base, base = [expected |-> SeqNo(t + 1), data |-> data, left |-> <<>>]
    PROVE  \E q \in t..Len(Sent), j \in 0..Len(list) :
              DrainedTo(FoldLeft(DrainOne, base, list), list, a, t, data, Len(list), q, j)
<1>1. Len(list) \in Nat
  OBVIOUS
<1> DEFINE acc(k) == DrainAcc(base, list, k)
<1>2. /\ acc(0) = base
      /\ \A k \in 1..Len(list) : acc(k) = DrainOne(acc(k-1), list[k])
      /\ FoldLeft(DrainOne, base, list) = acc(Len(list))
  <2>1. acc(0) = base
    BY DrainSteps
  <2>2. \A k \in 1..Len(list) : acc(k) = DrainOne(acc(k-1), list[k])
    BY <1>1, DrainStep DEF DrainAcc
  <2>3. FoldLeft(DrainOne, base, list) = acc(Len(list))
    BY DrainSteps
  <2> QED BY <2>1, <2>2, <2>3
<1> HIDE DEF acc
<1> DEFINE Good == {k \in 0..Len(list) :
                      /\ IsDrain(acc(k))
                      /\ \E q \in t..Len(Sent), j \in 0..k :
                            DrainedTo(acc(k), list, a, t, data, k, q, j)}
<1>3. 0 \in Good
  <2>1. IsDrain(base)
    BY DEF IsDrain
  <2>2. t \in t..Len(Sent) /\ 0 \in 0..0 /\ Len(data) = Len(data) + (t - t) /\ (t + 1)..t = {}
    BY Sizes
  <2>3. SubSeq(list, 0 + 1, 0) = <<>> /\ 1..0 = {} /\ ~(0 < 0)
    BY SubSeqEmpty
  <2>4. base.expected = SeqNo(t + 1) /\ base.data = data /\ base.left = <<>>
    OBVIOUS
  <2>5. DrainedTo(base, list, a, t, data, 0, t, 0)
    BY <2>2, <2>3, <2>4 DEF DrainedTo
  <2> QED BY <1>1, <1>2, <2>1, <2>2, <2>5
<1>4. ASSUME NEW k \in 1..Len(list), k - 1 \in Good PROVE k \in Good
  <2>1. /\ IsDrain(acc(k-1))
        /\ acc(k) = DrainOne(acc(k-1), list[k])
    BY <1>2, <1>4
  <2>2. PICK q \in t..Len(Sent), j \in 0..(k - 1) :
           DrainedTo(acc(k-1), list, a, t, data, k - 1, q, j)
    BY <1>4
  <2>3. \E r \in t..Len(Sent), m \in 0..k :
           DrainedTo(DrainOne(acc(k-1), list[k]), list, a, t, data, k, r, m)
    BY <2>1, <2>2, DrainOneKeeps
  <2>4. IsDrain(acc(k))
    BY <2>1, DrainKeepsShape
  <2>5. k \in 0..Len(list)
    BY <1>1
  <2> QED BY <2>1, <2>3, <2>4, <2>5
<1>5. 0..Len(list) \subseteq Good
  <2> HIDE DEF Good
  <2> QED BY <1>1, <1>3, <1>4, Upward
<1>6. Len(list) \in Good
  BY <1>1, <1>5
<1> QED BY <1>2, <1>6

\* Behind the loop everything left lies behind a hole, and what is gone lies below it.
LEMMA DrainEnd ==
    ASSUME HonestCapture, isn \in ISNs,
           NEW list \in Seq(Entries), Sorted(list),
           NEW a, NEW t \in 0..Len(Sent), NEW data, NEW r,
           NEW q \in t..Len(Sent), NEW j \in 0..Len(list),
           DrainedTo(r, list, a, t, data, Len(list), q, j)
    PROVE  /\ r.left \in Seq(Entries) /\ Len(r.left) = Len(list) - j /\ Sorted(r.left)
           /\ \A n \in 1..Len(r.left) : r.left[n] = list[j + n] /\ r.left[n].seq > r.expected
<1>1. Len(list) \in Nat /\ j \in Nat /\ j + 1 \in Int /\ j <= Len(list)
  OBVIOUS
<1>10. DOMAIN list = 1..Len(list)
  OBVIOUS
<1>2. \A i \in (j + 1)..Len(list) : list[i] \in Entries
  BY <1>1, ElementOfSeq
<1>3. /\ SubSeq(list, j + 1, Len(list)) \in Seq(Entries)
      /\ Len(SubSeq(list, j + 1, Len(list)))
           = IF j + 1 <= Len(list) THEN Len(list) - (j + 1) + 1 ELSE 0
      /\ \A i \in 1..(Len(list) - (j + 1) + 1) :
            SubSeq(list, j + 1, Len(list))[i] = list[j + 1 + i - 1]
  BY <1>1, <1>2, SubSeqProperties
<1>4. r.left = SubSeq(list, j + 1, Len(list))
  BY DEF DrainedTo
<1>5. r.left \in Seq(Entries) /\ Len(r.left) = Len(list) - j
  <2>1. (IF j + 1 <= Len(list) THEN Len(list) - (j + 1) + 1 ELSE 0) = Len(list) - j
    BY <1>1
  <2> QED BY <1>3, <1>4, <2>1
<1>6. \A n \in 1..Len(r.left) : r.left[n] = list[j + n]
  <2> SUFFICES ASSUME NEW n \in 1..Len(r.left) PROVE r.left[n] = list[j + n]
    OBVIOUS
  <2>1. n \in 1..(Len(list) - (j + 1) + 1) /\ j + 1 + n - 1 = j + n
    <3>1. n \in 1..(Len(list) - j)
      BY <1>5
    <3> QED BY <1>1, <3>1
  <2>2. SubSeq(list, j + 1, Len(list))[n] = list[j + 1 + n - 1]
    BY <1>3, <2>1
  <2> QED BY <1>4, <2>1, <2>2
<1>7. ASSUME NEW n \in 1..Len(r.left) 
      PROVE  /\ j + n \in 1..Len(list) /\ j + 1 \in 1..Len(list)
             /\ j < Len(list) /\ j + 1 <= j + n
  <2>1. n \in 1..(Len(list) - j)
    BY <1>5
  <2> QED BY <1>1, <2>1
<1>8. Sorted(r.left)
  <2> SUFFICES ASSUME NEW m \in DOMAIN r.left, NEW n \in DOMAIN r.left, m <= n
               PROVE  r.left[m].seq <= r.left[n].seq
    BY DEF Sorted
  <2>1. m \in 1..Len(r.left) /\ n \in 1..Len(r.left)
    BY SMTT(20), <1>5
  <2>2. j + m <= j + n
    BY <1>1, <2>1
  <2>3. /\ j + m \in DOMAIN list /\ j + n \in DOMAIN list
        /\ r.left[m] = list[j + m] /\ r.left[n] = list[j + n]
    BY <1>6, <1>7, <1>10, <2>1
  <2> QED BY <2>2, <2>3 DEF Sorted
<1>9. ASSUME NEW n \in 1..Len(r.left) PROVE r.left[n].seq > r.expected
  <2>1. list[j + 1].seq > r.expected
    BY <1>7 DEF DrainedTo
  <2>2. list[j + 1].seq <= list[j + n].seq
    BY <1>7, <1>10 DEF Sorted
  <2>3. list[j + 1] \in Entries /\ list[j + n] \in Entries
    BY <1>7, ElementOfSeq
  <2>4. list[j + 1].seq \in Nat /\ list[j + n].seq \in Nat
    BY <2>3, EntryFacts
  <2>5. r.expected \in Nat
    <3>1. q + 1 \in 0..(Len(Sent) + 1)
      BY Sizes
    <3>2. SeqNo(q + 1) \in 0..(SeqSpace - 1)
      BY <3>1, Number
    <3> QED BY <3>2, Sizes DEF DrainedTo
  <2>6. r.left[n].seq = list[j + n].seq
    BY <1>6
  <2>7. PICK x, y, z \in Nat : x = list[j + 1].seq /\ y = list[j + n].seq /\ z = r.expected
    BY <2>4, <2>5
  <2>8. y > z
    <3>1. x > z /\ x <= y
      BY <2>1, <2>2, <2>7
    <3> QED BY <3>1
  <2> QED BY <2>6, <2>7, <2>8
<1> QED BY <1>5, <1>6, <1>8, <1>9
-------------------------------------------------------------------------------
\* The buffer of segments out of order.

\* A sorted list has a place for every segment.
LEMMA PlaceFacts ==
    ASSUME HonestCapture, NEW list \in Seq(Entries), Sorted(list), NEW seg, seg.seq \in Nat
    PROVE  /\ Place(list, seg) \in 0..Len(list)
           /\ \A n \in 1..Len(list) : n <= Place(list, seg) <=> list[n].seq <= seg.seq
<1> DEFINE fits(k) == \A n \in DOMAIN list : n <= k <=> list[n].seq <= seg.seq
<1>1. Len(list) \in Nat
  OBVIOUS
<1>2. DOMAIN list = 1..Len(list)
  OBVIOUS
<1>3. \A n \in 1..Len(list) : list[n].seq \in Nat
  <2> SUFFICES ASSUME NEW n \in 1..Len(list) PROVE list[n].seq \in Nat
    OBVIOUS
  <2>1. list[n] \in Entries
    BY ElementOfSeq
  <2> QED BY <2>1, EntryFacts
<1>4. \E k \in 0..Len(list) : fits(k)
  <2> SUFFICES ASSUME \A k \in 0..Len(list) : ~fits(k) PROVE FALSE
    OBVIOUS
  <2> DEFINE T == {i \in 0..Len(list) : \A n \in 1..i : list[n].seq <= seg.seq}
  <2>1. 0 \in T
    BY <1>1
  <2>2. ASSUME NEW i \in 1..Len(list), i - 1 \in T PROVE i \in T
    <3>1. SUFFICES ASSUME ~(list[i].seq <= seg.seq) PROVE FALSE
      <4>1. i \in 0..Len(list) /\ \A n \in 1..i : n \in 1..(i - 1) \/ n = i
        BY <1>1
      <4> QED BY <2>2, <3>1, <4>1
    <3>2. fits(i - 1)
      <4> SUFFICES ASSUME NEW n \in 1..Len(list)
                   PROVE  n <= i - 1 <=> list[n].seq <= seg.seq
        BY <1>2
      <4>1. CASE n <= i - 1
        <5>1. n \in 1..(i - 1)
          BY <4>1
        <5> QED BY <2>2, <4>1, <5>1
      <4>2. CASE i <= n
        <5>1. list[i].seq <= list[n].seq
          BY <1>2, <4>2 DEF Sorted
        <5>2. PICK x, y, z \in Nat : x = list[i].seq /\ y = list[n].seq /\ z = seg.seq
          BY <1>3
        <5>3. ~(x <= z) /\ x <= y
          BY <3>1, <5>1, <5>2
        <5>4. ~(y <= z)
          BY <5>3
        <5>5. ~(n <= i - 1)
          BY <4>2
        <5> QED BY <5>2, <5>4, <5>5
      <4> QED BY <4>1, <4>2
    <3>3. i - 1 \in 0..Len(list)
      BY <1>1
    <3> HIDE DEF fits
    <3> QED BY <3>2, <3>3
  <2>3. 0..Len(list) \subseteq T
    <3> HIDE DEF T
    <3> QED BY <1>1, <2>1, <2>2, Upward
  <2>4. Len(list) \in T /\ Len(list) \in 0..Len(list)
    BY <1>1, <2>3
  <2>5. fits(Len(list))
    BY <1>1, <1>2, <2>4
  <2> HIDE DEF fits
  <2> QED BY <2>4, <2>5
<1>5. Place(list, seg) = CHOOSE k \in 0..Len(list) : fits(k)
  BY DEF Place
<1> HIDE DEF fits
<1>6. Place(list, seg) \in 0..Len(list) /\ fits(Place(list, seg))
  BY <1>4, <1>5
<1> QED BY <1>2, <1>6 DEF fits

\* InsertAt of the community modules.
LEMMA InsertIs ==
    ASSUME NEW list, NEW i, NEW x
    PROVE  InsertAt(list, i, x)
             = (SubSeq(list, 1, i - 1) \o <<x>>) \o SubSeq(list, i, Len(list))
  BY DEF InsertAt

\* Putting a segment in a list, element by element.
LEMMA InsertFacts ==
    ASSUME NEW S, NEW list \in Seq(S), NEW e \in S, NEW k \in 0..Len(list)
    PROVE  /\ InsertAt(list, k + 1, e) \in Seq(S)
           /\ Len(InsertAt(list, k + 1, e)) = Len(list) + 1
           /\ \A n \in 1..(Len(list) + 1) : InsertAt(list, k + 1, e)[n] =
                 IF n <= k THEN list[n] ELSE IF n = k + 1 THEN e ELSE list[n - 1]
<1> DEFINE front == SubSeq(list, 1, k)
           back  == SubSeq(list, k + 1, Len(list))
           one   == <<e>>
<1>1. Len(list) \in Nat /\ k \in Nat /\ k + 1 \in Int /\ k <= Len(list)
  OBVIOUS
<1>2. \A i \in 1..Len(list) : list[i] \in S
  BY ElementOfSeq
<1>3. /\ front \in Seq(S) /\ Len(front) = k
      /\ \A i \in 1..k : front[i] = list[i]
  <2>1. \A i \in 1..k : list[i] \in S
    BY <1>1, <1>2
  <2>2. /\ front \in Seq(S) /\ Len(front) = IF 1 <= k THEN k - 1 + 1 ELSE 0
        /\ \A i \in 1..(k - 1 + 1) : front[i] = list[1 + i - 1]
    BY <1>1, <2>1, SubSeqProperties
  <2> HIDE DEF front
  <2> QED BY <1>1, <2>2
<1>4. /\ back \in Seq(S) /\ Len(back) = Len(list) - k
      /\ \A i \in 1..(Len(list) - k) : back[i] = list[k + i]
  <2>1. \A i \in (k + 1)..Len(list) : list[i] \in S
    BY <1>1, <1>2
  <2>2. /\ back \in Seq(S)
        /\ Len(back) = IF k + 1 <= Len(list) THEN Len(list) - (k + 1) + 1 ELSE 0
        /\ \A i \in 1..(Len(list) - (k + 1) + 1) : back[i] = list[k + 1 + i - 1]
    BY <1>1, <2>1, SubSeqProperties
  <2> HIDE DEF back
  <2>3. Len(list) - (k + 1) + 1 = Len(list) - k
    BY <1>1
  <2>4. (IF k + 1 <= Len(list) THEN Len(list) - (k + 1) + 1 ELSE 0) = Len(list) - k
    BY <1>1
  <2>5. \A i \in 1..(Len(list) - k) : back[i] = list[k + i]
    <3> SUFFICES ASSUME NEW i \in 1..(Len(list) - k) PROVE back[i] = list[k + i]
      OBVIOUS
    <3>1. k + 1 + i - 1 = k + i
      BY <1>1
    <3> QED BY <2>2, <2>3, <3>1
  <2> QED BY <2>2, <2>4, <2>5
<1>5. one \in Seq(S) /\ Len(one) = 1 /\ one[1] = e
  OBVIOUS
<1>6. InsertAt(list, k + 1, e) = (front \o one) \o back
  <2>1. PICK i \in Int : i = k + 1
    BY <1>1
  <2>2. InsertAt(list, i, e) = (SubSeq(list, 1, i - 1) \o <<e>>) \o SubSeq(list, i, Len(list))
    BY InsertIs
  <2>3. i - 1 = k
    BY <1>1, <2>1
  <2> QED BY <2>1, <2>2, <2>3
<1> HIDE DEF front, back, one
<1>7. /\ front \o one \in Seq(S) /\ Len(front \o one) = k + 1
      /\ \A i \in 1..(k + 1) : (front \o one)[i] = IF i <= k THEN list[i] ELSE e
  <2>1. /\ front \o one \in Seq(S) /\ Len(front \o one) = k + 1
        /\ \A i \in 1..(k + 1) : (front \o one)[i] = IF i <= k THEN front[i] ELSE one[i - k]
    <3>1. /\ front \o one \in Seq(S) /\ Len(front \o one) = Len(front) + Len(one)
          /\ \A i \in 1..(Len(front) + Len(one)) :
                (front \o one)[i] = IF i <= Len(front) THEN front[i] ELSE one[i - Len(front)]
      BY <1>3, <1>5, ConcatProperties
    <3>2. Len(front) = k /\ Len(front) + Len(one) = k + 1
      BY <1>3, <1>5
    <3> QED BY <3>1, <3>2
  <2>2. ASSUME NEW i \in 1..(k + 1)
        PROVE  (front \o one)[i] = IF i <= k THEN list[i] ELSE e
    <3>1. CASE i <= k
      BY <1>1, <1>3, <2>1, <3>1
    <3>2. CASE i = k + 1
      <4>1. i - k = 1 /\ ~(i <= k)
        BY <1>1, <3>2
      <4> QED BY <1>5, <2>1, <4>1
    <3>3. i <= k \/ i = k + 1
      BY <1>1
    <3> QED BY <3>1, <3>2, <3>3
  <2> QED BY <2>1, <2>2
<1> DEFINE both == front \o one
<1> HIDE DEF both
<1>8. /\ both \o back \in Seq(S) /\ Len(both \o back) = Len(both) + Len(back)
      /\ \A i \in 1..(Len(both) + Len(back)) :
            (both \o back)[i] = IF i <= Len(both) THEN both[i] ELSE back[i - Len(both)]
  BY <1>4, <1>7, ConcatProperties DEF both
<1>9. Len(both) = k + 1 /\ Len(both) + Len(back) = Len(list) + 1
  BY <1>1, <1>4, <1>7 DEF both
<1>10. ASSUME NEW n \in 1..(Len(list) + 1)
       PROVE  (both \o back)[n] = IF n <= k THEN list[n] ELSE IF n = k + 1 THEN e ELSE list[n - 1]
  <2>1. (both \o back)[n] = IF n <= k + 1 THEN both[n] ELSE back[n - (k + 1)]
    BY <1>8, <1>9
  <2>2. CASE n <= k + 1
    <3>1. n \in 1..(k + 1)
      BY <1>1, <2>2
    <3>2. both[n] = IF n <= k THEN list[n] ELSE e
      BY <1>7, <3>1 DEF both
    <3> QED BY <1>1, <2>1, <2>2, <3>2
  <2>3. CASE n > k + 1
    <3>1. n - (k + 1) \in 1..(Len(list) - k) /\ k + (n - (k + 1)) = n - 1
      BY <1>1, <2>3
    <3>2. back[n - (k + 1)] = list[n - 1]
      BY <1>4, <3>1
    <3>3. ~(n <= k + 1) /\ ~(n <= k) /\ n # k + 1
      BY <1>1, <2>3
    <3> QED BY <2>1, <3>2, <3>3
  <2>4. n <= k + 1 \/ n > k + 1
    BY <1>1
  <2> QED BY <2>2, <2>3, <2>4
<1> QED BY <1>6, <1>8, <1>9, <1>10 DEF both

\* What _buffer_out_of_order leaves: the list stays sorted, holds the new segment and no
\* other new one, and loses one only when it was full.
LEMMA BufferWithFacts ==
    ASSUME HonestCapture, buffered_segments \in Seq(Entries), Sorted(buffered_segments),
           Frame \in Nat, NEW seg, seg.seq \in 0..(SeqSpace - 1), seg.payload \in Seq(Bytes)
    PROVE  /\ BufferWith(seg) \in Seq(Entries)
           /\ Sorted(BufferWith(seg))
           /\ \A n \in 1..Len(BufferWith(seg)) :
                 \/ /\ BufferWith(seg)[n].seq = seg.seq
                    /\ BufferWith(seg)[n].payload = seg.payload
                 \/ \E m \in 1..Len(buffered_segments) :
                       BufferWith(seg)[n] = buffered_segments[m]
           /\ \E n \in 1..Len(BufferWith(seg)) : /\ BufferWith(seg)[n].seq = seg.seq
                                                 /\ BufferWith(seg)[n].payload = seg.payload
           /\ ~BufferFull => \A m \in 1..Len(buffered_segments) :
                 \E n \in 1..Len(BufferWith(seg)) : BufferWith(seg)[n] = buffered_segments[m]
<1> DEFINE buf  == buffered_segments
           room == IF BufferFull THEN Tail(buf) ELSE buf
           e    == [seq |-> seg.seq, payload |-> seg.payload, frame |-> Frame]
           k    == Place(room, seg)
           new  == InsertAt(room, k + 1, e)
<1>1. BufferWith(seg) = new
  BY DEF BufferWith
<1>2. e \in Entries /\ e.seq = seg.seq /\ e.payload = seg.payload
  BY DEF Entries
<1>3. Len(buf) \in Nat /\ MaxBufferedSegments \in Nat \ {0}
  BY Sizes
<1>4. /\ room \in Seq(Entries) /\ Sorted(room)
      /\ \A n \in 1..Len(room) : \E m \in 1..Len(buf) : room[n] = buf[m]
      /\ ~BufferFull => room = buf
  <2>1. CASE ~BufferFull
    BY <2>1
  <2>2. CASE BufferFull
    <3>1. buf # <<>>
      BY <1>3, <2>2 DEF BufferFull
    <3>2. /\ Tail(buf) \in Seq(Entries) /\ Len(Tail(buf)) = Len(buf) - 1
          /\ \A i \in 1..Len(Tail(buf)) : Tail(buf)[i] = buf[i + 1]
      BY <3>1, HeadTailProperties
    <3>3. \A i \in 1..Len(Tail(buf)) : i \in Nat /\ i + 1 \in 1..Len(buf)
      BY <1>3, <3>2
    <3>4. DOMAIN Tail(buf) = 1..Len(Tail(buf)) /\ DOMAIN buf = 1..Len(buf)
      BY <3>2
    <3>5. Sorted(Tail(buf))
      <4> SUFFICES ASSUME NEW m \in DOMAIN Tail(buf), NEW n \in DOMAIN Tail(buf), m <= n
                   PROVE  Tail(buf)[m].seq <= Tail(buf)[n].seq
        BY DEF Sorted
      <4>1. m + 1 <= n + 1 /\ m + 1 \in DOMAIN buf /\ n + 1 \in DOMAIN buf
        BY <3>3, <3>4
      <4>2. buf[m + 1].seq <= buf[n + 1].seq
        BY <4>1 DEF Sorted
      <4> QED BY <3>2, <3>4, <4>2
    <3>6. \A n \in 1..Len(Tail(buf)) : \E m \in 1..Len(buf) : Tail(buf)[n] = buf[m]
      BY <3>2, <3>3
    <3> QED BY <2>2, <3>2, <3>5, <3>6
  <2> QED BY <2>1, <2>2
<1> HIDE DEF room, e
<1>5. seg.seq \in Nat
  BY Sizes
<1>6. /\ k \in 0..Len(room)
      /\ \A n \in 1..Len(room) : n <= k <=> room[n].seq <= seg.seq
  BY <1>4, <1>5, PlaceFacts
<1> HIDE DEF k
<1>7. /\ new \in Seq(Entries) /\ Len(new) = Len(room) + 1
      /\ \A n \in 1..(Len(room) + 1) :
            new[n] = IF n <= k THEN room[n] ELSE IF n = k + 1 THEN e ELSE room[n - 1]
  BY <1>2, <1>4, <1>6, InsertFacts
<1> HIDE DEF new
<1>8. Len(room) \in Nat /\ k \in Nat /\ k <= Len(room)
  BY <1>4, <1>6
<1>9. k + 1 \in 1..Len(new) /\ new[k + 1] = e
  <2>1. k + 1 \in 1..(Len(room) + 1) /\ ~(k + 1 <= k)
    BY <1>8
  <2> QED BY <1>7, <2>1
<1>10. \A m \in 1..Len(room) : \E n \in 1..Len(new) : new[n] = room[m]
  <2> SUFFICES ASSUME NEW m \in 1..Len(room) PROVE \E n \in 1..Len(new) : new[n] = room[m]
    OBVIOUS
  <2>1. CASE m <= k
    <3>1. m \in 1..(Len(room) + 1)
      BY <1>8
    <3> QED BY <1>7, <2>1, <3>1
  <2>2. CASE m > k
    <3>1. m + 1 \in 1..(Len(room) + 1) /\ ~(m + 1 <= k) /\ m + 1 # k + 1 /\ m + 1 - 1 = m
      BY <1>8, <2>2
    <3>2. new[m + 1] = room[m + 1 - 1]
      BY <1>7, <3>1
    <3> QED BY <1>7, <3>1, <3>2
  <2>3. m <= k \/ m > k
    BY <1>8
  <2> QED BY <2>1, <2>2, <2>3
<1>11. ASSUME NEW n \in 1..Len(new)
       PROVE  /\ n <= k => n \in 1..Len(room) /\ new[n] = room[n]
              /\ n > k + 1 => n - 1 \in 1..Len(room) /\ new[n] = room[n - 1] /\ n - 1 > k
              /\ n <= k \/ n = k + 1 \/ n > k + 1
  <2>1. n \in 1..(Len(room) + 1)
    BY <1>7
  <2>2. CASE n <= k
    BY <1>7, <1>8, <2>1, <2>2
  <2>3. CASE n > k + 1
    <3>1. n - 1 \in 1..Len(room) /\ n - 1 > k /\ ~(n <= k) /\ n # k + 1
      BY <1>8, <2>1, <2>3
    <3>2. new[n] = room[n - 1]
      BY <1>7, <2>1, <3>1
    <3>3. ~(n <= k)
      BY <3>1
    <3> QED BY <2>3, <3>1, <3>2, <3>3
  <2>4. n <= k \/ n = k + 1 \/ n > k + 1
    BY <1>8, <2>1
  <2> QED BY <2>2, <2>3, <2>4
<1>12. \A n \in 1..Len(new) : \/ new[n] = e
                              \/ \E m \in 1..Len(room) : new[n] = room[m]
  BY <1>9, <1>11
<1>13. \A m \in 1..Len(room) : room[m].seq \in Nat
  <2> SUFFICES ASSUME NEW m \in 1..Len(room) PROVE room[m].seq \in Nat
    OBVIOUS
  <2>1. room[m] \in Entries
    BY <1>4, ElementOfSeq
  <2> QED BY <2>1, EntryFacts
<1>14. Sorted(new)
  <2>1. DOMAIN room = 1..Len(room) /\ DOMAIN new = 1..Len(new)
    BY <1>4, <1>7
  <2> SUFFICES ASSUME NEW m \in 1..Len(new), NEW n \in 1..Len(new), m <= n
               PROVE  new[m].seq <= new[n].seq
    BY <2>1 DEF Sorted
  <2>2. CASE m <= k /\ n <= k
    <3>1. m \in DOMAIN room /\ n \in DOMAIN room /\ new[m] = room[m] /\ new[n] = room[n]
      BY <1>11, <2>1, <2>2
    <3> QED BY <1>4, <3>1 DEF Sorted
  <2>3. CASE m <= k /\ n = k + 1
    BY <1>2, <1>6, <1>9, <1>11, <2>3
  <2>4. CASE m <= k /\ n > k + 1
    <3>1. /\ m \in DOMAIN room /\ n - 1 \in DOMAIN room /\ m <= n - 1
          /\ new[m] = room[m] /\ new[n] = room[n - 1]
      BY <1>8, <1>11, <2>1, <2>4
    <3>2. PICK l \in DOMAIN room : l = n - 1
      BY <3>1
    <3>3. room[m].seq <= room[l].seq
      BY <1>4, <3>1, <3>2 DEF Sorted
    <3> QED BY <3>1, <3>2, <3>3
  <2>5. CASE m = k + 1 /\ n = k + 1
    BY <1>2, <1>5, <1>9, <2>5
  <2>6. CASE m = k + 1 /\ n > k + 1
    <3>1. n - 1 \in 1..Len(room) /\ new[n] = room[n - 1] /\ ~(n - 1 <= k)
      BY <1>8, <1>11, <2>6
    <3>2. PICK x \in Nat : x = room[n - 1].seq
      BY <1>13, <3>1
    <3>3. ~(x <= seg.seq)
      BY <1>6, <3>1, <3>2
    <3>4. seg.seq <= x
      BY <1>5, <3>3
    <3> QED BY <1>2, <1>9, <2>6, <3>1, <3>2, <3>4
  <2>7. CASE m > k + 1 /\ n > k + 1
    <3>1. /\ m - 1 \in DOMAIN room /\ n - 1 \in DOMAIN room /\ m - 1 <= n - 1
          /\ new[m] = room[m - 1] /\ new[n] = room[n - 1]
      BY <1>8, <1>11, <2>1, <2>7
    <3>2. PICK g \in DOMAIN room, l \in DOMAIN room : g = m - 1 /\ l = n - 1
      BY <3>1
    <3>3. room[g].seq <= room[l].seq
      BY <1>4, <3>1, <3>2 DEF Sorted
    <3> QED BY <3>1, <3>2, <3>3
  <2>8. /\ m <= k \/ m = k + 1 \/ m > k + 1
        /\ n <= k \/ n = k + 1 \/ n > k + 1
    BY <1>8
  <2>9. (m = k + 1 => ~(n <= k)) /\ (m > k + 1 => n > k + 1)
    BY <1>8
  <2> QED BY <2>2, <2>3, <2>4, <2>5, <2>6, <2>7, <2>8, <2>9
<1>15. \A n \in 1..Len(new) : \/ new[n].seq = seg.seq /\ new[n].payload = seg.payload
                              \/ \E m \in 1..Len(buf) : new[n] = buf[m]
  <2> SUFFICES ASSUME NEW n \in 1..Len(new),
                      ~(new[n].seq = seg.seq /\ new[n].payload = seg.payload)
               PROVE  \E m \in 1..Len(buf) : new[n] = buf[m]
    OBVIOUS
  <2>1. PICK l \in 1..Len(room) : new[n] = room[l]
    BY <1>2, <1>12
  <2> QED BY <1>4, <2>1
<1>16. ~BufferFull => \A m \in 1..Len(buf) : \E n \in 1..Len(new) : new[n] = buf[m]
  BY <1>4, <1>10
<1>17. \E n \in 1..Len(new) : new[n].seq = seg.seq /\ new[n].payload = seg.payload
  BY <1>2, <1>9
<1> QED BY <1>1, <1>7, <1>14, <1>15, <1>16, <1>17
-------------------------------------------------------------------------------
\* The loop of finalize_gaps.

Holes  == [start_seq : Nat, end_seq : Nat]
Pieces == [start_seq : Nat \cup {initial_seq}, data : Seq(Bytes),
           is_initial_contiguous : BOOLEAN,
           first_frame_number : Nat \cup {initial_frame_number}]

\* A waiting segment has become a fragment.
Kept(list, seg) ==
    \E n \in DOMAIN list : /\ ~list[n].is_initial_contiguous
                           /\ list[n].start_seq = seg.seq /\ list[n].data = seg.payload

\* The number x is below start, in one of the first k segments, or in a gap.
Accounted(holes, list, start, k, x) ==
    \/ x < start
    \/ \E m \in 1..k : list[m].seq <= x /\ x < EndSeq(list[m])
    \/ \E n \in DOMAIN holes : holes[n].start_seq <= x /\ x < holes[n].end_seq

ClosedTo(acc, list, start, k) ==
    /\ acc.gaps \in Seq(Holes) /\ acc.fragments \in Seq(Pieces)
    /\ acc.expected = IF k = 0 THEN start ELSE EndSeq(list[k])
    /\ \A m \in 1..k : Kept(acc.fragments, list[m])
    /\ \A m \in 1..k : \A x \in Nat : x < EndSeq(list[m]) =>
          Accounted(acc.gaps, list, start, k, x)

\* Appending keeps what was there and adds the new one.
LEMMA AppendKeeps ==
    ASSUME NEW S, NEW list \in Seq(S), NEW e \in S
    PROVE  /\ Append(list, e) \in Seq(S)
           /\ \A n \in DOMAIN list : n \in DOMAIN Append(list, e) /\ Append(list, e)[n] = list[n]
           /\ \E n \in DOMAIN Append(list, e) : Append(list, e)[n] = e
<1>1. Len(list) \in Nat
  OBVIOUS
<1>2. /\ Append(list, e) \in Seq(S) /\ Len(Append(list, e)) = Len(list) + 1
      /\ \A i \in 1..Len(list) : Append(list, e)[i] = list[i]
      /\ Append(list, e)[Len(list) + 1] = e
  BY AppendProperties
<1>3. DOMAIN list = 1..Len(list) /\ DOMAIN Append(list, e) = 1..(Len(list) + 1)
  BY <1>2
<1> QED BY <1>1, <1>2, <1>3

\* One step of the loop of finalize_gaps.
LEMMA CloseOneKeeps ==
    ASSUME HonestCapture, NEW list \in Seq(Entries), NEW start \in Nat, NEW acc,
           NEW k \in 1..Len(list), ClosedTo(acc, list, start, k - 1)
    PROVE  ClosedTo(CloseOne(acc, list[k]), list, start, k)
<1> DEFINE seg  == list[k]
           hole == [start_seq |-> acc.expected, end_seq |-> seg.seq]
           part == [start_seq |-> seg.seq, data |-> seg.payload,
                    is_initial_contiguous |-> FALSE, first_frame_number |-> seg.frame]
           next == CloseOne(acc, seg)
<1>1. Len(list) \in Nat /\ k \in Nat /\ 1 <= k /\ k # 0
  OBVIOUS
<1>2. seg \in Entries
  BY ElementOfSeq
<1>3. seg.frame \in Nat
  BY <1>2 DEF Entries
<1> HIDE DEF seg
<1>4. seg.seq \in Nat /\ seg.payload \in Seq(Bytes)
  BY <1>2, EntryFacts
<1>5. acc.expected \in Nat
  <2>1. CASE k - 1 = 0
    BY <2>1 DEF ClosedTo
  <2>2. CASE k - 1 # 0
    <3>1. k - 1 \in 1..Len(list)
      BY <1>1, <2>2
    <3>2. list[k - 1] \in Entries
      BY <3>1, ElementOfSeq
    <3>3. acc.expected = EndSeq(list[k - 1])
      BY <2>2 DEF ClosedTo
    <3> QED BY <3>2, <3>3, EntryFacts
  <2> QED BY <2>1, <2>2
<1>6. hole \in Holes /\ hole.start_seq = acc.expected /\ hole.end_seq = seg.seq
  BY <1>4, <1>5 DEF Holes
<1>7. /\ part \in Pieces /\ ~part.is_initial_contiguous
      /\ part.start_seq = seg.seq /\ part.data = seg.payload
  BY <1>3, <1>4 DEF Pieces
<1>8. /\ next.expected = EndSeq(seg)
      /\ next.gaps = IF seg.seq > acc.expected THEN Append(acc.gaps, hole) ELSE acc.gaps
      /\ next.fragments = Append(acc.fragments, part)
  BY DEF CloseOne
<1> HIDE DEF hole, part, next
<1>9. acc.gaps \in Seq(Holes) /\ acc.fragments \in Seq(Pieces)
  BY DEF ClosedTo
<1>10. /\ Append(acc.gaps, hole) \in Seq(Holes)
       /\ \A n \in DOMAIN acc.gaps : /\ n \in DOMAIN Append(acc.gaps, hole)
                                     /\ Append(acc.gaps, hole)[n] = acc.gaps[n]
       /\ \E n \in DOMAIN Append(acc.gaps, hole) : Append(acc.gaps, hole)[n] = hole
  <2>1. Append(acc.gaps, hole) \in Seq(Holes)
    BY <1>6, <1>9, AppendKeeps
  <2>2. \A n \in DOMAIN acc.gaps : /\ n \in DOMAIN Append(acc.gaps, hole)
                                   /\ Append(acc.gaps, hole)[n] = acc.gaps[n]
    BY <1>6, <1>9, AppendKeeps
  <2>3. \E n \in DOMAIN Append(acc.gaps, hole) : Append(acc.gaps, hole)[n] = hole
    <3>1. PICK list2, e : list2 = acc.gaps /\ e = hole
      OBVIOUS
    <3>2. list2 \in Seq(Holes) /\ e \in Holes
      BY <1>6, <1>9, <3>1
    <3>3. \E n \in DOMAIN Append(list2, e) : Append(list2, e)[n] = e
      BY <3>2, AppendKeeps
    <3> QED BY <3>1, <3>3
  <2> QED BY <2>1, <2>2, <2>3
<1>11. /\ next.gaps \in Seq(Holes)
       /\ \A n \in DOMAIN acc.gaps : n \in DOMAIN next.gaps /\ next.gaps[n] = acc.gaps[n]
       /\ seg.seq > acc.expected => \E n \in DOMAIN next.gaps : next.gaps[n] = hole
  <2>1. CASE seg.seq > acc.expected
    <3>1. next.gaps = Append(acc.gaps, hole)
      BY <1>8, <2>1
    <3> QED BY <1>10, <3>1
  <2>2. CASE ~(seg.seq > acc.expected)
    <3>1. next.gaps = acc.gaps
      BY <1>8, <2>2
    <3> QED BY <1>9, <2>2, <3>1
  <2> QED BY <2>1, <2>2
<1>12. /\ next.fragments \in Seq(Pieces)
       /\ \A n \in DOMAIN acc.fragments : /\ n \in DOMAIN next.fragments
                                          /\ next.fragments[n] = acc.fragments[n]
       /\ \E n \in DOMAIN next.fragments : next.fragments[n] = part
  <2>1. Append(acc.fragments, part) \in Seq(Pieces)
    BY <1>7, <1>9, AppendKeeps
  <2>2. \A n \in DOMAIN acc.fragments : /\ n \in DOMAIN Append(acc.fragments, part)
                                        /\ Append(acc.fragments, part)[n] = acc.fragments[n]
    BY <1>7, <1>9, AppendKeeps
  <2>3. \E n \in DOMAIN Append(acc.fragments, part) : Append(acc.fragments, part)[n] = part
    <3>1. PICK list2, e : list2 = acc.fragments /\ e = part
      OBVIOUS
    <3>2. list2 \in Seq(Pieces) /\ e \in Pieces
      BY <1>7, <1>9, <3>1
    <3>3. \E n \in DOMAIN Append(list2, e) : Append(list2, e)[n] = e
      BY <3>2, AppendKeeps
    <3> QED BY <3>1, <3>3
  <2> QED BY <1>8, <2>1, <2>2, <2>3
<1>13. ASSUME NEW x \in Nat, Accounted(acc.gaps, list, start, k - 1, x)
       PROVE  Accounted(next.gaps, list, start, k, x)
  <2>1. \A m \in 1..(k - 1) : m \in 1..k
    BY <1>1
  <2> QED BY <1>11, <1>13, <2>1 DEF Accounted
<1>14. ASSUME NEW m \in 1..k PROVE m \in 1..(k - 1) \/ m = k
  BY <1>1
<1>15. ASSUME NEW m \in 1..k PROVE Kept(next.fragments, list[m])
  <2>1. CASE m \in 1..(k - 1)
    <3>1. Kept(acc.fragments, list[m])
      BY <2>1 DEF ClosedTo
    <3> QED BY <1>12, <3>1 DEF Kept
  <2>2. CASE m = k
    BY <1>7, <1>12, <2>2 DEF Kept, seg
  <2> QED BY <1>14, <2>1, <2>2
<1>16. ASSUME NEW x \in Nat, x < acc.expected
       PROVE  Accounted(next.gaps, list, start, k, x)
  <2>1. CASE k - 1 = 0
    <3>1. x < start
      BY <1>16, <2>1 DEF ClosedTo
    <3> QED BY <3>1 DEF Accounted
  <2>2. CASE k - 1 # 0
    <3>1. k - 1 \in 1..(k - 1)
      BY <1>1, <2>2
    <3>2. x < EndSeq(list[k - 1])
      BY <1>16, <2>2 DEF ClosedTo
    <3>3. Accounted(acc.gaps, list, start, k - 1, x)
      BY <3>1, <3>2 DEF ClosedTo
    <3> QED BY <1>13, <3>3
  <2> QED BY <2>1, <2>2
<1>17. ASSUME NEW x \in Nat, x < EndSeq(seg)
       PROVE  Accounted(next.gaps, list, start, k, x)
  <2>1. CASE seg.seq <= x
    <3>1. k \in 1..k
      BY <1>1
    <3> QED BY <1>17, <2>1, <3>1 DEF Accounted, seg
  <2>2. CASE x < seg.seq /\ acc.expected <= x
    <3>1. seg.seq > acc.expected
      BY <1>4, <1>5, <2>2
    <3>2. PICK n \in DOMAIN next.gaps : next.gaps[n] = hole
      BY <1>11, <3>1
    <3>3. next.gaps[n].start_seq <= x /\ x < next.gaps[n].end_seq
      BY <1>6, <2>2, <3>2
    <3> QED BY <3>3 DEF Accounted
  <2>3. CASE x < acc.expected
    BY <1>16, <2>3
  <2> QED BY <1>4, <1>5, <2>1, <2>2, <2>3
<1>18. ASSUME NEW m \in 1..k, NEW x \in Nat, x < EndSeq(list[m])
       PROVE  Accounted(next.gaps, list, start, k, x)
  <2>1. CASE m \in 1..(k - 1)
    <3>1. Accounted(acc.gaps, list, start, k - 1, x)
      BY <1>18, <2>1 DEF ClosedTo
    <3> QED BY <1>13, <3>1
  <2>2. CASE m = k
    BY <1>17, <1>18, <2>2 DEF seg
  <2> QED BY <1>14, <2>1, <2>2
<1>19. next.expected = IF k = 0 THEN start ELSE EndSeq(list[k])
  BY <1>1, <1>8 DEF seg
<1>20. ClosedTo(next, list, start, k)
  BY <1>11, <1>12, <1>15, <1>18, <1>19 DEF ClosedTo
<1> QED BY <1>20 DEF next, seg

\* All steps of the loop of finalize_gaps together.
LEMMA ClosedFacts ==
    ASSUME HonestCapture, NEW list \in Seq(Entries), NEW start \in Nat, NEW base,
           base.expected = start, base.gaps = <<>>, base.fragments \in Seq(Pieces)
    PROVE  ClosedTo(FoldLeft(CloseOne, base, list), list, start, Len(list))
<1>1. Len(list) \in Nat
  OBVIOUS
<1> DEFINE acc(k) == CloseAcc(base, list, k)
<1>2. /\ acc(0) = base
      /\ \A k \in 1..Len(list) : acc(k) = CloseOne(acc(k-1), list[k])
      /\ FoldLeft(CloseOne, base, list) = acc(Len(list))
  <2>1. acc(0) = base
    BY CloseSteps
  <2>2. \A k \in 1..Len(list) : acc(k) = CloseOne(acc(k-1), list[k])
    BY <1>1, CloseStep DEF CloseAcc
  <2>3. FoldLeft(CloseOne, base, list) = acc(Len(list))
    BY CloseSteps
  <2> QED BY <2>1, <2>2, <2>3
<1> HIDE DEF acc
<1> DEFINE Good == {k \in 0..Len(list) : ClosedTo(acc(k), list, start, k)}
<1>3. 0 \in Good
  <2>1. 1..0 = {} /\ base.gaps \in Seq(Holes)
    OBVIOUS
  <2>2. ClosedTo(base, list, start, 0)
    BY <2>1 DEF ClosedTo
  <2> QED BY <1>1, <1>2, <2>2
<1>4. ASSUME NEW k \in 1..Len(list), k - 1 \in Good PROVE k \in Good
  <2>1. ClosedTo(acc(k-1), list, start, k - 1) /\ acc(k) = CloseOne(acc(k-1), list[k])
    BY <1>2, <1>4
  <2>2. ClosedTo(CloseOne(acc(k-1), list[k]), list, start, k)
    BY <2>1, CloseOneKeeps
  <2>3. k \in 0..Len(list)
    BY <1>1
  <2> QED BY <2>1, <2>2, <2>3
<1>5. 0..Len(list) \subseteq Good
  <2> HIDE DEF Good
  <2> QED BY <1>1, <1>3, <1>4, Upward
<1>6. Len(list) \in Good
  BY <1>1, <1>5
<1> QED BY <1>2, <1>6
-------------------------------------------------------------------------------
\* What every segment of the capture does.

\* A segment of the capture carries a slice of what was sent, or nothing.
LEMMA SegmentFacts ==
    ASSUME HonestCapture, isn \in ISNs, NEW seg \in Opening(isn) \cup Segments(isn)
    PROVE  /\ seg.seq = NoSeq \/ seg.payload = <<>> \/ IsSlice(isn, seg)
           /\ seg.syn => seg \in Opening(isn) /\ seg.seq = isn /\ seg.payload = <<>>
           /\ seg \in Segments(isn) => ~seg.syn
  BY DEF HonestCapture

\* A segment with bytes is a slice of the flow and no SYN.
LEMMA PayloadFacts ==
    ASSUME HonestCapture, isn \in ISNs, NEW seg \in Opening(isn) \cup Segments(isn),
           HasPayload(seg)
    PROVE  /\ \E f \in 1..Len(Sent), u \in 1..Len(Sent) :
                 f <= u /\ seg.seq = SeqNo(f) /\ seg.payload = SubSeq(Sent, f, u)
           /\ IsSlice(isn, seg) /\ ~Syn(seg)
           /\ Expected(seg) = expected_seq /\ Isn(seg) = initial_seq
           /\ Established(seg) <=> syn_established
<1>1. seg.payload # <<>> /\ seg.seq # NoSeq
  BY DEF HasPayload
<1>2. IsSlice(isn, seg) /\ ~seg.syn
  BY <1>1, SegmentFacts
<1>3. ~Syn(seg)
  BY <1>2 DEF Syn
<1>4. \E f \in 1..Len(Sent), u \in 1..Len(Sent) :
         f <= u /\ seg.seq = SeqNo(f) /\ seg.payload = SubSeq(Sent, f, u)
  BY <1>2 DEF IsSlice, SeqNo
<1> QED BY <1>2, <1>3, <1>4 DEF Expected, Isn, Established

\* The fields of a segment with bytes.
LEMMA SliceValues ==
    ASSUME HonestCapture, isn \in ISNs, NEW seg,
           NEW f \in 1..Len(Sent), NEW u \in 1..Len(Sent), f <= u,
           seg.seq = SeqNo(f), seg.payload = SubSeq(Sent, f, u)
    PROVE  /\ seg.seq \in 0..(SeqSpace - 1) /\ seg.seq \in Nat /\ seg.seq # NoSeq
           /\ seg.payload \in Seq(Bytes) /\ Len(seg.payload) = u - f + 1
           /\ EndSeq(seg) = SeqNo(f) + (u - f + 1) /\ EndSeq(seg) \in Nat
<1>1. f \in 0..(Len(Sent) + 1) /\ u \in f..Len(Sent) /\ f \in Nat /\ u \in Nat
  BY Sizes
<1>2. SeqNo(f) \in 0..(SeqSpace - 1) /\ SeqNo(f) # NoSeq
  BY <1>1, Number
<1>3. SeqNo(f) \in Nat
  BY <1>2, Sizes
<1>4. SubSeq(Sent, f, u) \in Seq(Bytes) /\ Len(SubSeq(Sent, f, u)) = u - f + 1
  BY <1>1, SliceFacts
<1>5. u - f + 1 \in Nat
  BY <1>1
<1> QED BY <1>2, <1>3, <1>4, <1>5 DEF EndSeq

\* It is added to what was captured.
LEMMA ReceiveFacts ==
    ASSUME received \in Seq(Opening(isn) \cup Segments(isn)), NEW seg, Receive(seg)
    PROVE  /\ isn' = isn /\ ~finalized /\ finalized' = finalized
           /\ fragments' = fragments /\ gaps' = gaps
           /\ syn_established' = Established(seg)
           /\ seg \in Opening(isn) \cup Segments(isn)
           /\ received # <<>> => seg \in Segments(isn)
           /\ received' \in Seq(Opening(isn) \cup Segments(isn)) /\ received' # <<>>
           /\ \A k \in DOMAIN received : k \in DOMAIN received' /\ received'[k] = received[k]
           /\ \A k \in DOMAIN received' : /\ k \in DOMAIN received \/ received'[k] = seg
                                          /\ k \in Nat
           /\ \E k \in DOMAIN received' : received'[k] = seg
<1> DEFINE S == Opening(isn) \cup Segments(isn)
<1>1. seg \in S /\ (received # <<>> => seg \in Segments(isn))
  BY DEF Receive
<1>2. received' = Append(received, seg)
  BY DEF Receive
<1> HIDE DEF S
<1>3. received \in Seq(S)
  BY DEF S
<1>4. Len(received) \in Nat /\ DOMAIN received = 1..Len(received)
  BY <1>3
<1>5. /\ received' \in Seq(S) /\ received' # <<>> /\ Len(received') = Len(received) + 1
      /\ \A k \in 1..Len(received) : received'[k] = received[k]
      /\ received'[Len(received) + 1] = seg
  BY <1>1, <1>2, <1>3, AppendProperties
<1>6. DOMAIN received' = 1..(Len(received) + 1)
  BY <1>5
<1>7. \A k \in DOMAIN received : k \in DOMAIN received' /\ received'[k] = received[k]
  BY <1>4, <1>5, <1>6
<1>8. \A k \in DOMAIN received' : (k \in DOMAIN received \/ received'[k] = seg) /\ k \in Nat
  BY <1>4, <1>5, <1>6
<1>9. \E k \in DOMAIN received' : received'[k] = seg
  BY <1>4, <1>5, <1>6
<1>10. /\ isn' = isn /\ ~finalized /\ finalized' = finalized
       /\ fragments' = fragments /\ gaps' = gaps
       /\ syn_established' = Established(seg)
  BY DEF Receive, result
<1> QED BY <1>1, <1>5, <1>7, <1>8, <1>9, <1>10 DEF S

\* What was captured stays captured, and the bytes of the new segment are with it.
LEMMA GotGrows ==
    ASSUME received \in Seq(Opening(isn) \cup Segments(isn)), NEW seg, Receive(seg)
    PROVE  /\ Got \subseteq Got'
           /\ \A i \in DOMAIN Sent :
                 seg.seq # NoSeq /\ Covers(seg.seq, seg.payload, i) => i \in Got'
<1>1. isn' = isn
  BY ReceiveFacts
<1>2. \A k \in DOMAIN received : k \in DOMAIN received' /\ received'[k] = received[k]
  BY ReceiveFacts
<1>3. \E k \in DOMAIN received' : received'[k] = seg
  BY ReceiveFacts
<1>4. Got' = {i \in DOMAIN Sent : \E n \in DOMAIN received' :
                 /\ received'[n].seq # NoSeq
                 /\ Covers(received'[n].seq, received'[n].payload, i)}
  BY <1>1 DEF Got, Covers, SeqNo
<1> QED BY <1>2, <1>3, <1>4 DEF Got

\* A segment that waits was captured, and so were its bytes.
LEMMA WaitingGot ==
    ASSUME HonestCapture, ReassemblerTypeOK, Waiting, NEW n \in DOMAIN buffered_segments,
           NEW i \in DOMAIN Sent,
           Covers(buffered_segments[n].seq, buffered_segments[n].payload, i)
    PROVE  i \in Got
<1>1. PICK k \in DOMAIN received : /\ received[k].seq = buffered_segments[n].seq
                                   /\ received[k].payload = buffered_segments[n].payload
  BY DEF Waiting
<1>2. buffered_segments \in Seq(Entries)
  BY DEF ReassemblerTypeOK
<1>3. n \in 1..Len(buffered_segments)
  BY <1>2
<1>4. buffered_segments[n] \in Entries
  BY <1>2, <1>3, ElementOfSeq
<1>5. buffered_segments[n].seq # NoSeq
  BY <1>4, EntryFacts, Sizes
<1> QED BY <1>1, <1>5 DEF Got

\* A segment that moves nothing: it has no bytes, or bytes the reassembler has.
LEMMA Unmoved ==
    ASSUME HonestCapture, FlowInv, NEW seg, Receive(seg),
           expected_seq' = expected_seq, initial_seq' = initial_seq,
           syn_established' = syn_established,
           contiguous_buffer' = contiguous_buffer, is_truncated' = is_truncated,
           buffered_segments' = buffered_segments,
           has_conflicting_overlaps' = has_conflicting_overlaps,
           HasPayload(seg) => Seen(seg)
    PROVE  FlowInv'
<1>0. /\ received \in Seq(Opening(isn) \cup Segments(isn))
      /\ ReassemblerTypeOK /\ Positioned /\ Unfed /\ Waiting /\ AllSeen /\ Backed
      /\ NoConflict /\ Closed
  BY DEF FlowInv, ReassemblerTypeOK
<1>1. /\ isn' = isn /\ ~finalized /\ finalized' = finalized
      /\ fragments' = fragments /\ gaps' = gaps
      /\ received' \in Seq(Opening(isn) \cup Segments(isn)) /\ received' # <<>>
  BY <1>0, ReceiveFacts
<1>2. \A k \in DOMAIN received : k \in DOMAIN received' /\ received'[k] = received[k]
  BY <1>0, ReceiveFacts
<1>3. \A k \in DOMAIN received' : k \in DOMAIN received \/ received'[k] = seg
  BY <1>0, ReceiveFacts
<1>4. ReassemblerTypeOK'
  BY <1>0, <1>1 DEF ReassemblerTypeOK
<1>5. Positioned'
  BY <1>0, <1>1 DEF Positioned, Ordered, SeqNo
<1>6. Unfed'
  BY <1>1 DEF Unfed
<1>7. Waiting'
  BY <1>0, <1>1, <1>2 DEF Waiting
<1>8. AllSeen'
  <2> SUFFICES ASSUME Plain, ~is_truncated, NEW k \in DOMAIN received', HasPayload(received'[k])
               PROVE  \/ EndSeq(received'[k]) <= expected_seq'
                      \/ \E n \in DOMAIN buffered_segments' :
                            /\ buffered_segments'[n].seq = received'[k].seq
                            /\ buffered_segments'[n].payload = received'[k].payload
    BY <1>1 DEF AllSeen, Plain, Seen, HasPayload
  <2>1. Seen(received'[k])
    <3>1. CASE k \in DOMAIN received
      BY <1>0, <1>1, <1>2, <3>1 DEF AllSeen
    <3>2. CASE received'[k] = seg
      BY <3>2
    <3> QED BY <1>3, <3>1, <3>2
  <2> QED BY <2>1 DEF Seen
<1>9. Backed'
  <2>1. Got \subseteq Got'
    BY <1>0, GotGrows
  <2> QED BY <1>0, <1>1, <2>1 DEF Backed, Plain, SeqNo
<1>10. NoConflict'
  BY <1>0 DEF NoConflict
<1>11. Closed'
  BY <1>0, <1>1 DEF Closed
<1> QED BY <1>4, <1>5, <1>6, <1>7, <1>8, <1>9, <1>10, <1>11 DEF FlowInv

\* A segment that is put in the buffer of those out of order.
LEMMA Buffered ==
    ASSUME HonestCapture, FlowInv, NEW seg, Receive(seg), HasPayload(seg),
           expected_seq # NoSeq, syn_established => seg.seq > expected_seq,
           expected_seq' = expected_seq, initial_seq' = initial_seq,
           contiguous_buffer' = contiguous_buffer,
           has_conflicting_overlaps' = has_conflicting_overlaps,
           BufferOutOfOrder(seg)
    PROVE  FlowInv'
<1>0. /\ received \in Seq(Opening(isn) \cup Segments(isn))
      /\ ReassemblerTypeOK /\ Positioned /\ Unfed /\ Waiting /\ AllSeen /\ Backed
      /\ NoConflict /\ Closed /\ isn \in ISNs
      /\ buffered_segments \in Seq(Entries) /\ Sorted(buffered_segments)
      /\ is_truncated \in BOOLEAN /\ syn_established \in BOOLEAN
  BY DEF FlowInv, ReassemblerTypeOK, Waiting
<1>1. /\ isn' = isn /\ ~finalized /\ finalized' = finalized
      /\ fragments' = fragments /\ gaps' = gaps
      /\ syn_established' = Established(seg)
      /\ seg \in Opening(isn) \cup Segments(isn)
      /\ received' \in Seq(Opening(isn) \cup Segments(isn)) /\ received' # <<>>
  BY <1>0, ReceiveFacts
<1>2. \A k \in DOMAIN received : k \in DOMAIN received' /\ received'[k] = received[k]
  BY <1>0, ReceiveFacts
<1>3. \A k \in DOMAIN received' : k \in DOMAIN received \/ received'[k] = seg
  BY <1>0, ReceiveFacts
<1>4. \E k \in DOMAIN received' : received'[k] = seg
  BY <1>0, ReceiveFacts
<1>5. PICK f \in 1..Len(Sent), u \in 1..Len(Sent) :
         f <= u /\ seg.seq = SeqNo(f) /\ seg.payload = SubSeq(Sent, f, u)
  BY <1>0, <1>1, PayloadFacts
<1>6. /\ seg.seq \in 0..(SeqSpace - 1) /\ seg.seq \in Nat
      /\ seg.payload \in Seq(Bytes) /\ Len(seg.payload) = u - f + 1
  BY <1>0, <1>5, SliceValues
<1>7. IsSlice(isn, seg)
  BY <1>0, <1>1, PayloadFacts
<1>8. syn_established' = syn_established
  BY <1>0, <1>1, PayloadFacts DEF Established
<1>9. CASE AlreadyBuffered(seg)
  <2>1. PICK n \in DOMAIN buffered_segments :
           /\ buffered_segments[n].seq = seg.seq
           /\ Len(buffered_segments[n].payload) = Len(seg.payload)
    BY <1>9 DEF AlreadyBuffered
  <2>2. PICK g \in 1..Len(Sent), v \in 1..Len(Sent) :
           /\ g <= v /\ buffered_segments[n].seq = SeqNo(g)
           /\ buffered_segments[n].payload = SubSeq(Sent, g, v)
    BY <1>0 DEF Waiting, IsSlice, SeqNo
  <2>3. Len(buffered_segments[n].payload) = v - g + 1
    BY <1>0, <2>2, SliceValues
  <2>4. g = f
    BY <1>0, <1>5, <2>1, <2>2, NumbersDiffer
  <2>5. v = u
    BY <1>6, <2>1, <2>3, <2>4, Sizes
  <2>6. Seen(seg)
    BY <1>5, <2>1, <2>2, <2>4, <2>5 DEF Seen
  <2>7. buffered_segments' = buffered_segments /\ is_truncated' = is_truncated
    BY <1>9 DEF BufferOutOfOrder
  <2> QED BY <1>8, <2>6, <2>7, Unmoved
<1>10. CASE ~AlreadyBuffered(seg)
  <2> DEFINE new == BufferWith(seg)
  <2>1. /\ buffered_segments' = new
        /\ is_truncated' = (is_truncated \/ BufferFull)
    BY <1>10 DEF BufferOutOfOrder
  <2>2. Frame \in Nat
    BY <1>0 DEF Frame
  <2>3. new \in Seq(Entries) /\ Sorted(new)
    BY <1>0, <1>6, <2>2, BufferWithFacts
  <2>4. \A n \in 1..Len(new) :
           \/ new[n].seq = seg.seq /\ new[n].payload = seg.payload
           \/ \E m \in 1..Len(buffered_segments) : new[n] = buffered_segments[m]
    BY <1>0, <1>6, <2>2, BufferWithFacts
  <2>5. \E n \in 1..Len(new) : new[n].seq = seg.seq /\ new[n].payload = seg.payload
    BY <1>0, <1>6, <2>2, BufferWithFacts
  <2>6. ~BufferFull => \A m \in 1..Len(buffered_segments) :
           \E n \in 1..Len(new) : new[n] = buffered_segments[m]
    BY <1>0, <1>6, <2>2, BufferWithFacts
  <2> HIDE DEF new
  <2>7. DOMAIN new = 1..Len(new) /\ DOMAIN buffered_segments = 1..Len(buffered_segments)
    BY <1>0, <2>3
  <2>8. is_truncated' \in BOOLEAN /\ (~is_truncated' => ~is_truncated /\ ~BufferFull)
    BY <1>0, <2>1
  <2>9. ReassemblerTypeOK'
    <3>1. /\ isn' \in ISNs /\ expected_seq' \in 0..(SeqSpace - 1) \cup {NoSeq}
          /\ initial_seq' \in 0..(SeqSpace - 1) \cup {NoSeq}
          /\ syn_established' \in BOOLEAN /\ has_conflicting_overlaps' \in BOOLEAN
          /\ finalized' \in BOOLEAN /\ contiguous_buffer' \in Seq(Bytes)
      BY <1>0, <1>1, <1>8 DEF ReassemblerTypeOK
    <3> QED BY <1>1, <2>1, <2>3, <2>8, <3>1 DEF ReassemblerTypeOK
  <2>10. Positioned'
    <3>1. PICK a \in 1..(Len(Sent) + 1), p \in 0..Len(Sent) : Ordered(a, p)
      BY <1>0 DEF Positioned
    <3>2. Ordered(a, p)'
      BY <1>1, <1>8, <2>8, <3>1 DEF Ordered, SeqNo
    <3> QED BY <3>2 DEF Positioned
  <2>11. Waiting'
    <3>1. ASSUME NEW n \in 1..Len(new)
          PROVE  /\ IsSlice(isn, new[n])
                 /\ \E k \in DOMAIN received' : /\ received'[k].seq = new[n].seq
                                                /\ received'[k].payload = new[n].payload
                 /\ syn_established => new[n].seq > expected_seq
      <4>1. CASE new[n].seq = seg.seq /\ new[n].payload = seg.payload
        BY <1>4, <1>7, <4>1 DEF IsSlice
      <4>2. CASE \E m \in 1..Len(buffered_segments) : new[n] = buffered_segments[m]
        BY <1>0, <1>2, <2>7, <4>2 DEF Waiting
      <4> QED BY <2>4, <4>1, <4>2
    <3> QED BY <1>1, <1>8, <2>1, <2>3, <2>7, <3>1 DEF Waiting
  <2>12. AllSeen'
    <3> SUFFICES ASSUME Plain, ~is_truncated', NEW k \in DOMAIN received',
                        HasPayload(received'[k])
                 PROVE  \/ EndSeq(received'[k]) <= expected_seq'
                        \/ \E n \in DOMAIN buffered_segments' :
                              /\ buffered_segments'[n].seq = received'[k].seq
                              /\ buffered_segments'[n].payload = received'[k].payload
      BY <1>1, <1>8 DEF AllSeen, Plain, Seen, HasPayload
    <3>1. CASE received'[k] = seg
      BY <2>1, <2>5, <2>7, <3>1 DEF Seen
    <3>2. CASE k \in DOMAIN received
      <4>1. Seen(received'[k])
        BY <1>0, <1>1, <1>2, <2>8, <3>2 DEF AllSeen
      <4> QED BY <2>1, <2>6, <2>7, <2>8, <4>1 DEF Seen
    <3> QED BY <1>3, <3>1, <3>2
  <2>13. Backed'
    <3>1. Got \subseteq Got'
      BY <1>0, GotGrows
    <3> QED BY <1>0, <1>1, <1>8, <3>1 DEF Backed, Plain, SeqNo
  <2>14. NoConflict'
    BY <1>0, <2>8 DEF NoConflict
  <2>15. Unfed' /\ Closed'
    BY <1>0, <1>1 DEF Closed, Unfed
  <2> QED BY <2>9, <2>10, <2>11, <2>12, <2>13, <2>14, <2>15 DEF FlowInv
<1> QED BY <1>9, <1>10

\* A SYN opens the flow before anything else is known; other empty segments move nothing.
LEMMA NoPayloadKeeps ==
    ASSUME HonestCapture, FlowInv, NEW seg, NoPayload(seg)
    PROVE  FlowInv'
<1>0. /\ received \in Seq(Opening(isn) \cup Segments(isn))
      /\ ReassemblerTypeOK /\ Positioned /\ Unfed /\ Waiting /\ AllSeen /\ Backed
      /\ NoConflict /\ Closed /\ isn \in ISNs /\ syn_established \in BOOLEAN
  BY DEF FlowInv, ReassemblerTypeOK
<1>1. /\ Receive(seg) /\ ~HasPayload(seg)
      /\ initial_seq' = Isn(seg) /\ expected_seq' = Expected(seg)
      /\ contiguous_buffer' = contiguous_buffer /\ is_truncated' = is_truncated
      /\ buffered_segments' = buffered_segments
      /\ has_conflicting_overlaps' = has_conflicting_overlaps
  BY DEF NoPayload, bytes, counters
<1>2. /\ isn' = isn /\ ~finalized /\ finalized' = finalized
      /\ fragments' = fragments /\ gaps' = gaps
      /\ syn_established' = Established(seg)
      /\ seg \in Opening(isn) \cup Segments(isn)
      /\ received # <<>> => seg \in Segments(isn)
      /\ received' \in Seq(Opening(isn) \cup Segments(isn)) /\ received' # <<>>
  BY <1>0, <1>1, ReceiveFacts
<1>3. CASE ~Syn(seg)
  <2>1. initial_seq' = initial_seq /\ expected_seq' = expected_seq
    BY <1>1, <1>3 DEF Isn, Expected
  <2>2. syn_established' = syn_established
    BY <1>0, <1>2, <1>3 DEF Established
  <2> QED BY <1>1, <2>1, <2>2, Unmoved
<1>4. CASE Syn(seg)
  <2>1. seg.syn
    BY <1>4 DEF Syn
  <2>2. seg.seq = isn /\ (seg \in Segments(isn) => FALSE)
    BY <1>0, <1>2, <2>1, SegmentFacts
  <2>3. received = <<>>
    BY <1>2, <2>2
  <2>4. contiguous_buffer = <<>> /\ buffered_segments = <<>>
    BY <1>0, <2>3 DEF Unfed, Positioned
  <2>5. expected_seq' = (isn + 1) % SeqSpace /\ initial_seq' = isn
    BY <1>1, <1>4, <2>2 DEF Expected, Isn
  <2>6. syn_established' = TRUE
    BY <1>2, <1>4 DEF Established
  <2>7. 1 \in 0..(Len(Sent) + 1) /\ 0 \in 0..Len(Sent) /\ 1 \in 1..(Len(Sent) + 1)
    BY Sizes
  <2>8. /\ SeqNo(1) \in 0..(SeqSpace - 1) /\ SeqNo(1) # NoSeq /\ isn \in 0..(SeqSpace - 1)
        /\ SeqNo(1) = (isn + 1) % SeqSpace
    BY <1>0, <2>7, Number DEF SeqNo
  <2>9. ReassemblerTypeOK'
    BY <1>0, <1>1, <1>2, <2>5, <2>6, <2>8 DEF ReassemblerTypeOK
  <2>10. Positioned'
    <3>1. SubSeq(Sent, 1, 0) = <<>>
      BY SubSeqEmpty
    <3>2. Capped(<<>>) = <<>>
      <4>1. Len(<<>>) <= MaxBytes /\ <<>> \in Seq(Bytes)
        BY Sizes
      <4> QED BY <4>1, CappedFacts
    <3>3. 0 - 1 < MaxBytes /\ 1 <= 0 + 1 /\ 0 + 1 = 1
      BY Sizes
    <3>4. SeqNo(1)' = SeqNo(1)
      BY <1>2 DEF SeqNo
    <3>5. Ordered(1, 0)'
      BY <1>1, <2>4, <2>5, <2>6, <2>8, <3>1, <3>2, <3>3, <3>4 DEF Ordered
    <3> QED BY <2>7, <3>5, <2>5, <2>8 DEF Positioned
  <2>11. Waiting'
    BY <1>1, <2>4 DEF Waiting, Sorted
  <2>12. AllSeen'
    <3>1. \A k \in DOMAIN received' : received'[k] = seg
      <4>1. DOMAIN received = {}
        BY <2>3
      <4> QED BY <1>0, <1>1, <4>1, ReceiveFacts
    <3> QED BY <1>1, <3>1 DEF AllSeen, HasPayload
  <2>13. Backed'
    <3> SUFFICES ASSUME isn + Len(Sent) + 1 < SeqSpace, NEW i \in DOMAIN Sent, SeqNo(i) < SeqNo(1)
                 PROVE  FALSE
      BY <1>2, <2>5, <2>8 DEF Backed, Plain, SeqNo
    <3>1. i \in 0..(Len(Sent) + 1) /\ i >= 1
      BY Sizes
    <3>2. SeqNo(i) = isn + i /\ SeqNo(1) = isn + 1 /\ isn \in Nat
      BY <1>0, <2>7, <3>1, PlainNumber
    <3> QED BY <3>1, <3>2
  <2>14. NoConflict'
    BY <1>0, <1>1 DEF NoConflict
  <2>15. Unfed' /\ Closed'
    BY <1>0, <1>2 DEF Unfed, Closed
  <2> QED BY <2>9, <2>10, <2>11, <2>12, <2>13, <2>14, <2>15 DEF FlowInv
<1> QED BY <1>3, <1>4

\* Bytes below the expected number were seen.
LEMMA OldDuplicateKeeps ==
    ASSUME HonestCapture, FlowInv, NEW seg, OldDuplicate(seg)
    PROVE  FlowInv'
<1>0. /\ received \in Seq(Opening(isn) \cup Segments(isn))
      /\ isn \in ISNs /\ syn_established \in BOOLEAN
  BY DEF FlowInv, ReassemblerTypeOK
<1>1. /\ Receive(seg) /\ HasPayload(seg)
      /\ EndSeq(seg) <= Expected(seg)
      /\ initial_seq' = Isn(seg) /\ expected_seq' = Expected(seg)
      /\ contiguous_buffer' = contiguous_buffer /\ is_truncated' = is_truncated
      /\ buffered_segments' = buffered_segments
      /\ has_conflicting_overlaps' = has_conflicting_overlaps
  BY DEF OldDuplicate, IsLater, bytes
<1>2. seg \in Opening(isn) \cup Segments(isn) /\ syn_established' = Established(seg)
  BY <1>0, <1>1, ReceiveFacts
<1>3. Expected(seg) = expected_seq /\ Isn(seg) = initial_seq /\ ~Syn(seg)
  BY <1>0, <1>1, <1>2, PayloadFacts
<1>4. syn_established' = syn_established
  BY <1>0, <1>2, <1>3 DEF Established
<1>5. Seen(seg)
  BY <1>1, <1>3 DEF Seen
<1> QED BY <1>1, <1>3, <1>4, <1>5, Unmoved

\* A segment from before the first one seen is buffered like any other.
LEMMA BufferEarlyKeeps ==
    ASSUME HonestCapture, FlowInv, NEW seg, BufferEarly(seg)
    PROVE  FlowInv'
<1>0. /\ received \in Seq(Opening(isn) \cup Segments(isn)) /\ isn \in ISNs
  BY DEF FlowInv, ReassemblerTypeOK
<1>1. /\ Receive(seg) /\ HasPayload(seg) /\ Expected(seg) # NoSeq /\ ~Established(seg)
      /\ expected_seq' = expected_seq /\ initial_seq' = initial_seq
      /\ contiguous_buffer' = contiguous_buffer
      /\ has_conflicting_overlaps' = has_conflicting_overlaps
      /\ BufferOutOfOrder(seg)
  BY DEF BufferEarly, IsEarly
<1>2. seg \in Opening(isn) \cup Segments(isn)
  BY <1>0, <1>1, ReceiveFacts
<1>3. Expected(seg) = expected_seq
  BY <1>0, <1>1, <1>2, PayloadFacts
<1>4. ~syn_established
  BY <1>1 DEF Established
<1> QED BY <1>1, <1>3, <1>4, Buffered

\* A segment beyond the expected byte waits in the buffer.
LEMMA OutOfOrderKeeps ==
    ASSUME HonestCapture, FlowInv, NEW seg, OutOfOrder(seg)
    PROVE  FlowInv'
<1>0. /\ received \in Seq(Opening(isn) \cup Segments(isn)) /\ isn \in ISNs
  BY DEF FlowInv, ReassemblerTypeOK
<1>1. /\ Receive(seg) /\ HasPayload(seg) /\ Expected(seg) # NoSeq
      /\ seg.seq > Expected(seg)
      /\ expected_seq' = Expected(seg) /\ initial_seq' = Isn(seg)
      /\ contiguous_buffer' = contiguous_buffer
      /\ has_conflicting_overlaps' = has_conflicting_overlaps
      /\ BufferOutOfOrder(seg)
  BY DEF OutOfOrder, IsLater
<1>2. seg \in Opening(isn) \cup Segments(isn)
  BY <1>0, <1>1, ReceiveFacts
<1>3. Expected(seg) = expected_seq /\ Isn(seg) = initial_seq
  BY <1>0, <1>1, <1>2, PayloadFacts
<1> QED BY <1>1, <1>3, Buffered

\* The bytes in order, and that the byte limit has cut none unless that is flagged.
LEMMA OrderedFacts ==
    ASSUME HonestCapture, ReassemblerTypeOK,
           NEW a \in 1..(Len(Sent) + 1), NEW p \in 0..Len(Sent), Ordered(a, p)
    PROVE  /\ p \in (a - 1)..Len(Sent)
           /\ SubSeq(Sent, a, p) \in Seq(Bytes) /\ Len(SubSeq(Sent, a, p)) = p - a + 1
           /\ Capped(contiguous_buffer) = Capped(SubSeq(Sent, a, p))
           /\ ~is_truncated => /\ contiguous_buffer = SubSeq(Sent, a, p)
                               /\ Len(contiguous_buffer) = p - a + 1
<1>1. /\ a <= p + 1 /\ contiguous_buffer = Capped(SubSeq(Sent, a, p))
      /\ is_truncated \/ p - a < MaxBytes
  BY DEF Ordered
<1>2. p \in (a - 1)..Len(Sent)
  BY <1>1
<1>3. SubSeq(Sent, a, p) \in Seq(Bytes) /\ Len(SubSeq(Sent, a, p)) = p - a + 1
  BY <1>2, SliceFacts
<1>4. Capped(contiguous_buffer) = Capped(SubSeq(Sent, a, p))
  BY <1>1, <1>3, CappedTwice
<1>5. ASSUME ~is_truncated
      PROVE  contiguous_buffer = SubSeq(Sent, a, p) /\ Len(contiguous_buffer) = p - a + 1
  <2>1. Len(SubSeq(Sent, a, p)) <= MaxBytes
    <3>1. p - a < MaxBytes
      BY <1>1, <1>5
    <3>2. p - a + 1 <= MaxBytes
      BY <3>1, Sizes
    <3> QED BY <1>3, <3>2
  <2>2. contiguous_buffer = SubSeq(Sent, a, p)
    BY <1>1, <1>3, <2>1, CappedFacts
  <2> QED BY <1>3, <2>2
<1> QED BY <1>2, <1>3, <1>4, <1>5

\* The first bytes of a flow whose SYN was not captured are its slice.
LEMMA BaselineKeeps ==
    ASSUME HonestCapture, FlowInv, NEW seg, Baseline(seg)
    PROVE  FlowInv'
<1>0. /\ received \in Seq(Opening(isn) \cup Segments(isn))
      /\ ReassemblerTypeOK /\ Positioned /\ Unfed /\ Waiting /\ AllSeen /\ Backed
      /\ NoConflict /\ Closed /\ isn \in ISNs /\ is_truncated \in BOOLEAN
  BY DEF FlowInv, ReassemblerTypeOK
<1>1. /\ Receive(seg) /\ HasPayload(seg) /\ Expected(seg) = NoSeq
      /\ initial_seq' = seg.seq
      /\ expected_seq' = Advance(seg.seq, seg.payload)
      /\ contiguous_buffer' = Capped(contiguous_buffer \o seg.payload)
      /\ is_truncated' = (is_truncated \/ Overflows(contiguous_buffer \o seg.payload))
      /\ buffered_segments' = buffered_segments
      /\ has_conflicting_overlaps' = has_conflicting_overlaps
  BY DEF Baseline, counters
<1>2. /\ isn' = isn /\ ~finalized /\ finalized' = finalized
      /\ fragments' = fragments /\ gaps' = gaps
      /\ syn_established' = Established(seg)
      /\ seg \in Opening(isn) \cup Segments(isn)
      /\ received' \in Seq(Opening(isn) \cup Segments(isn)) /\ received' # <<>>
  BY <1>0, <1>1, ReceiveFacts
<1>3. PICK f \in 1..Len(Sent), u \in 1..Len(Sent) :
         f <= u /\ seg.seq = SeqNo(f) /\ seg.payload = SubSeq(Sent, f, u)
  BY <1>0, <1>1, <1>2, PayloadFacts
<1>4. /\ seg.seq \in 0..(SeqSpace - 1) /\ seg.payload \in Seq(Bytes)
      /\ Len(seg.payload) = u - f + 1
  BY <1>0, <1>3, SliceValues
<1>5. expected_seq = NoSeq /\ ~Syn(seg)
  BY <1>0, <1>1, <1>2, PayloadFacts
<1>6. ~syn_established /\ contiguous_buffer = <<>> /\ buffered_segments = <<>>
  BY <1>0, <1>5 DEF Positioned
<1>7. syn_established' = FALSE
  BY <1>2, <1>5, <1>6 DEF Established
<1>8. contiguous_buffer \o seg.payload = seg.payload
  BY <1>4, <1>6, ConcatEmptySeq
<1>9. /\ contiguous_buffer' = Capped(SubSeq(Sent, f, u))
      /\ contiguous_buffer' \in Seq(Bytes)
      /\ is_truncated' \/ u - f < MaxBytes
  <2>1. contiguous_buffer' = Capped(seg.payload) /\ Capped(seg.payload) \in Seq(Bytes)
    BY <1>1, <1>4, <1>8, CappedFacts
  <2>2. is_truncated' \/ ~(u - f + 1 > MaxBytes)
    BY <1>1, <1>4, <1>8 DEF Overflows
  <2>3. ~(u - f + 1 > MaxBytes) => u - f < MaxBytes
    BY Sizes
  <2> QED BY <1>3, <2>1, <2>2, <2>3
<1>10. /\ f \in 1..(Len(Sent) + 1) /\ u \in 0..Len(Sent) /\ f <= u + 1
       /\ f \in 0..(Len(Sent) + 1) /\ u + 1 \in 0..(Len(Sent) + 1)
  BY <1>3, Sizes
<1>11. expected_seq' = SeqNo(u + 1)
  <2>1. u - f + 1 \in Nat /\ f + (u - f + 1) <= Len(Sent) + 1 /\ f + (u - f + 1) = u + 1
    BY <1>3, <1>10, Sizes
  <2>2. PICK d \in Nat : d = u - f + 1
    BY <2>1
  <2>3. (SeqNo(f) + d) % SeqSpace = SeqNo(f + d)
    BY <1>0, <1>10, <2>1, <2>2, Later
  <2>4. Advance(seg.seq, seg.payload) = (SeqNo(f) + d) % SeqSpace
    BY <1>3, <1>4, <2>2 DEF Advance
  <2> QED BY <1>1, <2>1, <2>2, <2>3, <2>4
<1>12. SeqNo(u + 1) \in 0..(SeqSpace - 1) /\ SeqNo(u + 1) # NoSeq
  BY <1>0, <1>10, Number
<1>13. is_truncated' \in BOOLEAN
  BY <1>1 DEF Overflows
<1>14. ReassemblerTypeOK'
  BY <1>0, <1>1, <1>2, <1>4, <1>7, <1>9, <1>11, <1>12, <1>13 DEF ReassemblerTypeOK
<1>15. Positioned'
  <2>1. SeqNo(u + 1)' = SeqNo(u + 1) /\ SeqNo(f)' = SeqNo(f)
    BY <1>2 DEF SeqNo
  <2>2. Ordered(f, u)'
    BY <1>1, <1>3, <1>7, <1>9, <1>10, <1>11, <2>1 DEF Ordered
  <2> QED BY <1>10, <1>11, <1>12, <2>2 DEF Positioned
<1>16. Waiting'
  BY <1>1, <1>6 DEF Waiting, Sorted
<1>17. AllSeen' /\ Backed'
  BY <1>7 DEF AllSeen, Backed, Plain
<1>18. NoConflict'
  BY <1>0, <1>1 DEF NoConflict
<1>19. Unfed' /\ Closed'
  BY <1>0, <1>2 DEF Unfed, Closed
<1> QED BY <1>14, <1>15, <1>16, <1>17, <1>18, <1>19 DEF FlowInv

\* Bytes that touch the first ones from below make the slice longer downwards.
LEMMA PrependAdjacentKeeps ==
    ASSUME HonestCapture, FlowInv, NEW seg, PrependAdjacent(seg)
    PROVE  FlowInv'
<1>0. /\ received \in Seq(Opening(isn) \cup Segments(isn))
      /\ ReassemblerTypeOK /\ Positioned /\ Unfed /\ Waiting /\ AllSeen /\ Backed
      /\ NoConflict /\ Closed /\ isn \in ISNs /\ is_truncated \in BOOLEAN
      /\ contiguous_buffer \in Seq(Bytes)
  BY DEF FlowInv, ReassemblerTypeOK
<1>1. /\ Receive(seg) /\ HasPayload(seg) /\ Expected(seg) # NoSeq /\ ~Established(seg)
      /\ EndSeq(seg) = initial_seq
      /\ initial_seq' = seg.seq
      /\ expected_seq' = expected_seq
      /\ contiguous_buffer' = Capped(seg.payload \o contiguous_buffer)
      /\ is_truncated' = (is_truncated \/ Overflows(seg.payload \o contiguous_buffer))
      /\ buffered_segments' = buffered_segments
      /\ has_conflicting_overlaps' = has_conflicting_overlaps
  BY DEF PrependAdjacent, IsEarly, counters
<1>2. /\ isn' = isn /\ ~finalized /\ finalized' = finalized
      /\ fragments' = fragments /\ gaps' = gaps
      /\ syn_established' = Established(seg)
      /\ seg \in Opening(isn) \cup Segments(isn)
      /\ received' \in Seq(Opening(isn) \cup Segments(isn)) /\ received' # <<>>
  BY <1>0, <1>1, ReceiveFacts
<1>20. \A k \in DOMAIN received : k \in DOMAIN received' /\ received'[k] = received[k]
  BY <1>0, <1>1, ReceiveFacts
<1>3. PICK f \in 1..Len(Sent), u \in 1..Len(Sent) :
         f <= u /\ seg.seq = SeqNo(f) /\ seg.payload = SubSeq(Sent, f, u)
  BY <1>0, <1>1, <1>2, PayloadFacts
<1>4. /\ seg.seq \in 0..(SeqSpace - 1) /\ seg.payload \in Seq(Bytes)
      /\ Len(seg.payload) = u - f + 1 /\ EndSeq(seg) = SeqNo(f) + (u - f + 1)
  BY <1>0, <1>3, SliceValues
<1>5. expected_seq # NoSeq /\ ~syn_established /\ syn_established' = FALSE
  <2>1. Expected(seg) = expected_seq
    BY <1>0, <1>1, <1>2, PayloadFacts
  <2>2. ~syn_established
    BY <1>1 DEF Established
  <2>3. Established(seg) \in BOOLEAN
    BY <1>0, <2>2, <1>0 DEF Established, Syn, ReassemblerTypeOK
  <2> QED BY <1>1, <1>2, <2>1, <2>2, <2>3
<1>6. PICK a \in 1..(Len(Sent) + 1), p \in 0..Len(Sent) : Ordered(a, p)
  BY <1>0, <1>5 DEF Positioned
<1>7. a <= p /\ initial_seq = SeqNo(a) /\ expected_seq = SeqNo(p + 1)
  BY <1>5, <1>6 DEF Ordered
<1>8. a \in 1..Len(Sent) /\ u \in f..Len(Sent)
  BY <1>3, <1>7
<1>9. a = u + 1
  <2>1. SeqNo(f) + (u - f + 1) = SeqNo(a)
    BY <1>1, <1>4, <1>7
  <2> QED BY <1>0, <1>8, <2>1, Touching
<1>10. /\ u \in (f - 1)..Len(Sent) /\ p \in u..Len(Sent) /\ f \in 1..(Len(Sent) + 1)
       /\ f <= p /\ p \in (f - 1)..Len(Sent) /\ f <= p + 1
  BY <1>3, <1>7, <1>8, <1>9, Sizes
<1>11. SubSeq(Sent, f, u) \o SubSeq(Sent, a, p) = SubSeq(Sent, f, p)
  BY <1>9, <1>10, SlicesJoin
<1>12. /\ SubSeq(Sent, a, p) \in Seq(Bytes)
       /\ Capped(contiguous_buffer) = Capped(SubSeq(Sent, a, p))
       /\ ~is_truncated => contiguous_buffer = SubSeq(Sent, a, p)
       /\ contiguous_buffer = Capped(SubSeq(Sent, a, p))
  BY <1>0, <1>6, OrderedFacts DEF Ordered
<1>13. SubSeq(Sent, f, p) \in Seq(Bytes) /\ Len(SubSeq(Sent, f, p)) = p - f + 1
  BY <1>10, SliceFacts
<1>14. contiguous_buffer' = Capped(SubSeq(Sent, f, p)) /\ contiguous_buffer' \in Seq(Bytes)
  <2>1. Capped(seg.payload \o Capped(SubSeq(Sent, a, p)))
          = Capped(seg.payload \o SubSeq(Sent, a, p))
    BY <1>4, <1>12, CappedBehind
  <2>2. Capped(SubSeq(Sent, f, p)) \in Seq(Bytes)
    BY <1>13, CappedFacts
  <2> QED BY <1>1, <1>3, <1>11, <1>12, <2>1, <2>2
<1>15. is_truncated' \in BOOLEAN /\ (is_truncated' \/ p - f < MaxBytes)
       /\ (~is_truncated' => ~is_truncated)
  <2>1. ASSUME ~is_truncated' PROVE p - f < MaxBytes
    <3>1. ~is_truncated /\ ~Overflows(seg.payload \o contiguous_buffer)
      BY <1>1, <2>1
    <3>2. seg.payload \o contiguous_buffer = SubSeq(Sent, f, p)
      BY <1>3, <1>11, <1>12, <3>1
    <3>3. ~(p - f + 1 > MaxBytes)
      BY <1>13, <3>1, <3>2 DEF Overflows
    <3> QED BY <3>3, <1>10, Sizes
  <2> QED BY <1>1, <2>1 DEF Overflows
<1>16. ReassemblerTypeOK'
  BY <1>0, <1>1, <1>2, <1>4, <1>5, <1>14, <1>15 DEF ReassemblerTypeOK
<1>17. Positioned'
  <2>1. SeqNo(p + 1)' = SeqNo(p + 1) /\ SeqNo(f)' = SeqNo(f)
    BY <1>2 DEF SeqNo
  <2>2. Ordered(f, p)'
    BY <1>1, <1>3, <1>5, <1>7, <1>10, <1>14, <1>15, <2>1 DEF Ordered
  <2> QED BY <1>1, <1>5, <1>10, <2>2 DEF Positioned
<1>18. Waiting'
  BY <1>0, <1>1, <1>2, <1>5, <1>20 DEF Waiting
<1>19. AllSeen' /\ Backed'
  BY <1>5 DEF AllSeen, Backed, Plain
<1>21. NoConflict'
  BY <1>0, <1>1, <1>15 DEF NoConflict
<1>22. Unfed' /\ Closed'
  BY <1>0, <1>2 DEF Unfed, Closed
<1> QED BY <1>16, <1>17, <1>18, <1>19, <1>21, <1>22 DEF FlowInv

\* As long as nothing was cut, a repeated part repeats what is there.
LEMMA NothingDisagrees ==
    ASSUME HonestCapture, ReassemblerTypeOK, NEW seg,
           NEW a \in 1..(Len(Sent) + 1), NEW p \in 0..Len(Sent), Ordered(a, p),
           ~is_truncated, Expected(seg) = expected_seq,
           NEW f \in 1..Len(Sent), NEW u \in f..Len(Sent),
           seg.seq = SeqNo(f), seg.payload = SubSeq(Sent, f, u),
           SeqNo(p + 1) - seg.seq = p + 1 - f, p < u
    PROVE  ~Disagrees(seg)
<1>1. Expected(seg) - seg.seq = p + 1 - f
  BY DEF Ordered
<1>2. contiguous_buffer = SubSeq(Sent, a, p) /\ Len(contiguous_buffer) = p - a + 1
  BY OrderedFacts
<1>3. SUFFICES ASSUME p + 1 - f > 0, p - a + 1 >= p + 1 - f
               PROVE  SubSeq(contiguous_buffer, (p - a + 1) - (p + 1 - f) + 1, p - a + 1)
                        = SubSeq(seg.payload, 1, p + 1 - f)
  BY <1>1, <1>2, <1>3 DEF Disagrees
<1>4. /\ a \in 1..Len(Sent) /\ p \in a..Len(Sent) /\ f - a \in 0..(p - a)
      /\ p + 1 - f \in 1..(u - f + 1)
  BY <1>3, Sizes
<1>5. PICK d : d = f - a
  OBVIOUS
<1>6. SubSeq(SubSeq(Sent, a, p), d + 1, p - a + 1) = SubSeq(Sent, a + d, p)
  BY <1>4, <1>5, SliceRest
<1>7. d + 1 = (p - a + 1) - (p + 1 - f) + 1 /\ a + d = f
  BY <1>4, <1>5
<1>8. SubSeq(contiguous_buffer, (p - a + 1) - (p + 1 - f) + 1, p - a + 1) = SubSeq(Sent, f, p)
  BY <1>2, <1>6, <1>7
<1>9. PICK e : e = p + 1 - f
  OBVIOUS
<1>10. e \in 1..(u - f + 1) /\ f + e - 1 = p
  BY <1>4, <1>9
<1>11. SubSeq(SubSeq(Sent, f, u), 1, e) = SubSeq(Sent, f, f + e - 1)
  BY <1>10, SliceStart
<1>12. SubSeq(seg.payload, 1, p + 1 - f) = SubSeq(Sent, f, p)
  BY <1>9, <1>10, <1>11
<1> QED BY <1>8, <1>12

\* Bytes that continue the slice, with all that the drain loop adds behind them.
LEMMA InOrderKeeps ==
    ASSUME HonestCapture, FlowInv, NEW seg, InOrder(seg)
    PROVE  FlowInv'
<1>0. /\ received \in Seq(Opening(isn) \cup Segments(isn))
      /\ ReassemblerTypeOK /\ Positioned /\ Unfed /\ Waiting /\ AllSeen /\ Backed
      /\ NoConflict /\ Closed /\ isn \in ISNs /\ is_truncated \in BOOLEAN
      /\ contiguous_buffer \in Seq(Bytes) /\ syn_established \in BOOLEAN
      /\ has_conflicting_overlaps \in BOOLEAN
      /\ buffered_segments \in Seq(Entries) /\ Sorted(buffered_segments)
  BY DEF FlowInv, ReassemblerTypeOK, Waiting
<1> DEFINE rest == SubSeq(seg.payload, Expected(seg) - seg.seq + 1, Len(seg.payload))
           r    == Drained(Advance(Expected(seg), rest), contiguous_buffer \o rest)
<1>1. /\ Receive(seg) /\ HasPayload(seg) /\ Expected(seg) # NoSeq
      /\ seg.seq <= Expected(seg) /\ Expected(seg) < EndSeq(seg)
      /\ has_conflicting_overlaps' = (has_conflicting_overlaps \/ Disagrees(seg))
      /\ contiguous_buffer' = Capped(r.data)
      /\ is_truncated' = (is_truncated \/ Overflows(r.data))
      /\ expected_seq' = r.expected
      /\ buffered_segments' = r.left
      /\ initial_seq' = Isn(seg)
  BY DEF InOrder, IsLater
<1>2. /\ isn' = isn /\ ~finalized /\ finalized' = finalized
      /\ fragments' = fragments /\ gaps' = gaps
      /\ syn_established' = Established(seg)
      /\ seg \in Opening(isn) \cup Segments(isn)
      /\ received' \in Seq(Opening(isn) \cup Segments(isn)) /\ received' # <<>>
  BY <1>0, <1>1, ReceiveFacts
<1>3. \A k \in DOMAIN received : k \in DOMAIN received' /\ received'[k] = received[k]
  BY <1>0, <1>1, ReceiveFacts
<1>4. \A k \in DOMAIN received' : k \in DOMAIN received \/ received'[k] = seg
  BY <1>0, <1>1, ReceiveFacts
<1>5. PICK f \in 1..Len(Sent), u \in 1..Len(Sent) :
         f <= u /\ seg.seq = SeqNo(f) /\ seg.payload = SubSeq(Sent, f, u)
  BY <1>0, <1>1, <1>2, PayloadFacts
<1>6. EndSeq(seg) = SeqNo(f) + (u - f + 1)
  BY <1>0, <1>5, SliceValues
<1>7. Expected(seg) = expected_seq /\ Isn(seg) = initial_seq /\ ~Syn(seg)
  BY <1>0, <1>1, <1>2, PayloadFacts
<1>8. syn_established' = syn_established
  BY <1>0, <1>2, <1>7 DEF Established
<1>9. PICK a \in 1..(Len(Sent) + 1), p \in 0..Len(Sent) : Ordered(a, p)
  BY <1>0, <1>1, <1>7 DEF Positioned
<1>10. /\ expected_seq = SeqNo(p + 1) /\ a <= p + 1
       /\ syn_established => a = 1
       /\ ~syn_established => a <= p /\ initial_seq = SeqNo(a)
  BY <1>9 DEF Ordered
<1>11. /\ f \in Nat /\ u \in Nat /\ a \in Nat /\ p \in Nat /\ Len(Sent) \in Nat
       /\ 1 <= f /\ f <= u /\ u <= Len(Sent) /\ 1 <= a /\ u \in f..Len(Sent)
  BY <1>5, Sizes
<1>41. /\ seg.seq = SeqNo(f) /\ seg.payload = SubSeq(Sent, f, u)
       /\ seg.seq <= SeqNo(p + 1) /\ SeqNo(p + 1) < EndSeq(seg)
  BY <1>1, <1>5, <1>7, <1>10
<1>12. f <= p + 1 /\ p < u
  BY <1>0, <1>11, <1>41, Fresh
<1>13. SeqNo(p + 1) - seg.seq = p + 1 - f
  BY <1>0, <1>11, <1>41, Fresh
<1>42. SubSeq(seg.payload, SeqNo(p + 1) - seg.seq + 1, Len(seg.payload)) = SubSeq(Sent, p + 1, u)
  BY <1>0, <1>11, <1>41, Fresh
<1>14. rest = SubSeq(Sent, p + 1, u)
  BY <1>7, <1>10, <1>42
<1>15. /\ u \in p..Len(Sent) /\ p \in (a - 1)..Len(Sent) /\ u \in (a - 1)..Len(Sent)
       /\ u \in 0..Len(Sent)
  BY <1>10, <1>11, <1>12
<1>16. /\ SubSeq(Sent, p + 1, u) \in Seq(Bytes) /\ Len(SubSeq(Sent, p + 1, u)) = u - p
       /\ Advance(SeqNo(p + 1), SubSeq(Sent, p + 1, u)) = SeqNo(u + 1)
  BY <1>0, <1>15, FreshTail
<1> DEFINE data == contiguous_buffer \o SubSeq(Sent, p + 1, u)
           base == [expected |-> SeqNo(u + 1), data |-> data, left |-> <<>>]
<1>17. r = FoldLeft(DrainOne, base, buffered_segments)
  BY <1>7, <1>10, <1>14, <1>16 DEF Drained
<1> HIDE DEF rest, r
<1>18. data \in Seq(Bytes) /\ Len(data) = Len(contiguous_buffer) + (u - p)
  <2>1. /\ data \in Seq(Bytes)
        /\ Len(data) = Len(contiguous_buffer) + Len(SubSeq(Sent, p + 1, u))
    BY <1>0, <1>16, ConcatProperties
  <2> QED BY <1>16, <2>1
<1>19. /\ SubSeq(Sent, a, p) \in Seq(Bytes)
       /\ Capped(contiguous_buffer) = Capped(SubSeq(Sent, a, p))
       /\ ~is_truncated => Len(contiguous_buffer) = p - a + 1
  BY <1>0, <1>9, OrderedFacts
<1>20. Capped(data) = Capped(SubSeq(Sent, a, u))
  <2>1. Capped(data) = Capped(SubSeq(Sent, a, p) \o SubSeq(Sent, p + 1, u))
    BY <1>0, <1>16, <1>19, CappedMore
  <2>2. SubSeq(Sent, a, p) \o SubSeq(Sent, p + 1, u) = SubSeq(Sent, a, u)
    BY <1>15, SlicesJoin
  <2> QED BY <2>1, <2>2
<1>21. DOMAIN buffered_segments = 1..Len(buffered_segments) /\ Len(buffered_segments) \in Nat
  BY <1>0
<1>22. \A n \in 1..Len(buffered_segments) : IsSlice(isn, buffered_segments[n])
  BY <1>0, <1>21 DEF Waiting
<1> HIDE DEF data, base
<1>23. base = [expected |-> SeqNo(u + 1), data |-> data, left |-> <<>>]
  BY DEF base
<1>24. PICK q \in u..Len(Sent), j \in 0..Len(buffered_segments) :
          DrainedTo(r, buffered_segments, a, u, data, Len(buffered_segments), q, j)
  BY <1>0, <1>15, <1>17, <1>18, <1>20, <1>22, <1>23, DrainedFacts
<1>25. /\ r.expected = SeqNo(q + 1)
       /\ r.data \in Seq(Bytes) /\ Len(r.data) = Len(data) + (q - u)
       /\ Capped(r.data) = Capped(SubSeq(Sent, a, q))
       /\ \A i \in (u + 1)..q : \E n \in 1..Len(buffered_segments) :
             Covers(buffered_segments[n].seq, buffered_segments[n].payload, i)
       /\ isn + Len(Sent) + 1 < SeqSpace =>
             \A n \in 1..j : EndSeq(buffered_segments[n]) <= r.expected
  BY <1>24 DEF DrainedTo
<1>26. /\ r.left \in Seq(Entries) /\ Len(r.left) = Len(buffered_segments) - j /\ Sorted(r.left)
       /\ \A n \in 1..Len(r.left) : /\ r.left[n] = buffered_segments[j + n]
                                    /\ r.left[n].seq > r.expected
  BY <1>0, <1>15, <1>24, DrainEnd
<1>27. DOMAIN r.left = 1..Len(r.left)
  BY SMTT(20), <1>26
<1>28. /\ q \in Nat /\ u <= q /\ q <= Len(Sent) /\ j \in Nat /\ j <= Len(buffered_segments)
       /\ q \in 0..Len(Sent) /\ q + 1 \in 0..(Len(Sent) + 1) /\ a <= q + 1
       /\ p + 1 \in 0..(Len(Sent) + 1) /\ u + 1 \in 0..(Len(Sent) + 1)
       /\ f \in 0..(Len(Sent) + 1)
  BY <1>11, <1>12, <1>15, <1>21
<1>29. SeqNo(q + 1) \in 0..(SeqSpace - 1) /\ SeqNo(q + 1) # NoSeq
  BY <1>0, <1>28, Number
<1>30. /\ is_truncated' \in BOOLEAN /\ has_conflicting_overlaps' \in BOOLEAN
       /\ (~is_truncated' => ~is_truncated)
  BY <1>0, <1>1 DEF Overflows, Disagrees
<1>31. is_truncated' \/ q - a < MaxBytes
  <2> SUFFICES ASSUME ~is_truncated' PROVE q - a < MaxBytes
    OBVIOUS
  <2>1. ~(Len(r.data) > MaxBytes)
    BY <1>1 DEF Overflows
  <2>2. Len(r.data) = (p - a + 1) + (u - p) + (q - u)
    BY <1>18, <1>19, <1>25, <1>30
  <2>3. (p - a + 1) + (u - p) + (q - u) = q - a + 1
    BY <1>11, <1>28
  <2>4. ~(q - a + 1 > MaxBytes)
    BY <2>1, <2>2, <2>3
  <2> QED BY <1>11, <1>28, <2>4, Sizes
<1>32. Capped(r.data) \in Seq(Bytes)
  BY <1>25, CappedFacts
<1>33. ReassemblerTypeOK'
  <2>1. isn' \in ISNs /\ syn_established' \in BOOLEAN /\ finalized' \in BOOLEAN
    BY <1>0, <1>2, <1>8 DEF ReassemblerTypeOK
  <2>2. expected_seq' \in 0..(SeqSpace - 1) \cup {NoSeq}
    BY <1>1, <1>25, <1>29
  <2>3. initial_seq' \in 0..(SeqSpace - 1) \cup {NoSeq}
    BY <1>0, <1>1, <1>7 DEF ReassemblerTypeOK
  <2>4. contiguous_buffer' \in Seq(Bytes) /\ buffered_segments' \in Seq(Entries)
    BY <1>1, <1>26, <1>32
  <2> QED BY <1>2, <1>30, <2>1, <2>2, <2>3, <2>4 DEF ReassemblerTypeOK
<1>34. Positioned'
  <2>1. SeqNo(q + 1)' = SeqNo(q + 1) /\ SeqNo(a)' = SeqNo(a)
    BY <1>2 DEF SeqNo
  <2>2. ~syn_established' => a <= q /\ initial_seq' = SeqNo(a)
    BY <1>1, <1>7, <1>8, <1>10, <1>11, <1>12, <1>28
  <2>3. Ordered(a, q)'
    BY <1>1, <1>8, <1>10, <1>25, <1>28, <1>31, <2>1, <2>2 DEF Ordered
  <2> QED BY <1>1, <1>25, <1>28, <1>29, <2>3 DEF Positioned
<1>35. ASSUME NEW n \in 1..Len(r.left)
       PROVE  j + n \in DOMAIN buffered_segments
  <2>1. n \in 1..(Len(buffered_segments) - j)
    BY <1>26
  <2> QED BY <1>21, <1>28, <2>1
<1>36. Waiting'
  <2>1. ASSUME NEW n \in 1..Len(r.left)
        PROVE  /\ IsSlice(isn, r.left[n])
               /\ \E k \in DOMAIN received' : /\ received'[k].seq = r.left[n].seq
                                              /\ received'[k].payload = r.left[n].payload
               /\ r.left[n].seq > r.expected
    <3>1. j + n \in DOMAIN buffered_segments /\ r.left[n] = buffered_segments[j + n]
      BY <1>26, <1>35
    <3>2. IsSlice(isn, r.left[n])
      BY <1>0, <3>1 DEF Waiting
    <3>3. \E k \in DOMAIN received : /\ received[k].seq = r.left[n].seq
                                     /\ received[k].payload = r.left[n].payload
      BY <1>0, <3>1 DEF Waiting
    <3> QED BY <1>3, <1>26, <3>2, <3>3
  <2> QED BY <1>1, <1>2, <1>26, <1>27, <2>1 DEF Waiting
<1>37. AllSeen'
  <2> SUFFICES ASSUME Plain, ~is_truncated', NEW k \in DOMAIN received',
                      HasPayload(received'[k])
               PROVE  \/ EndSeq(received'[k]) <= r.expected
                      \/ \E n \in DOMAIN r.left : /\ r.left[n].seq = received'[k].seq
                                                  /\ r.left[n].payload = received'[k].payload
    BY <1>1, <1>2, <1>8 DEF AllSeen, Plain, Seen, HasPayload
  <2>1. isn + Len(Sent) + 1 < SeqSpace
    BY DEF Plain
  <2>2. /\ SeqNo(p + 1) = isn + (p + 1) /\ SeqNo(q + 1) = isn + (q + 1)
        /\ SeqNo(f) = isn + f /\ isn \in Nat
    BY <1>0, <1>28, <2>1, PlainNumber
  <2>3. CASE received'[k] = seg
    <3>1. EndSeq(seg) = isn + f + (u - f + 1)
      BY <1>6, <2>2
    <3>2. EndSeq(seg) <= isn + (q + 1)
      BY <1>11, <1>28, <2>2, <3>1
    <3> QED BY <1>25, <2>2, <2>3, <3>2
  <2>4. CASE k \in DOMAIN received
    <3>1. received'[k] = received[k]
      BY <1>3, <2>4
    <3>2. Seen(received[k])
      BY <1>0, <1>2, <1>30, <2>4, <3>1 DEF AllSeen
    <3>3. CASE EndSeq(received[k]) <= expected_seq
      <4>1. seg.seq \in Nat
        BY <1>0, <1>5, SliceValues
      <4>2. received[k] \in Opening(isn) \cup Segments(isn)
        BY <1>0, <2>4
      <4>3. PICK g \in 1..Len(Sent), v \in 1..Len(Sent) :
               g <= v /\ received[k].seq = SeqNo(g) /\ received[k].payload = SubSeq(Sent, g, v)
        BY <1>0, <3>1, <4>2, PayloadFacts
      <4>4. EndSeq(received[k]) \in Nat
        BY <1>0, <4>3, SliceValues
      <4>5. PICK x \in Nat : x = EndSeq(received[k])
        BY <4>4
      <4>6. x <= isn + (p + 1)
        BY <1>10, <2>2, <3>3, <4>5
      <4>7. x <= isn + (q + 1)
        BY <1>11, <1>12, <1>28, <2>2, <4>6
      <4> QED BY <1>25, <2>2, <3>1, <4>5, <4>7
    <3>4. CASE \E n \in DOMAIN buffered_segments :
                  /\ buffered_segments[n].seq = received[k].seq
                  /\ buffered_segments[n].payload = received[k].payload
      <4>1. PICK n \in 1..Len(buffered_segments) :
                  /\ buffered_segments[n].seq = received[k].seq
                  /\ buffered_segments[n].payload = received[k].payload
        BY <1>21, <3>4
      <4>2. CASE n <= j
        <5>1. n \in 1..j
          BY <1>28, <4>2
        <5>2. EndSeq(buffered_segments[n]) <= r.expected
          BY <1>25, <2>1, <5>1
        <5>3. EndSeq(buffered_segments[n]) = EndSeq(received[k])
          BY <4>1 DEF EndSeq
        <5> QED BY <3>1, <5>2, <5>3
      <4>3. CASE n > j
        <5>1. n - j \in 1..(Len(buffered_segments) - j) /\ j + (n - j) = n
          BY <1>21, <1>28, <4>3
        <5>2. PICK m : m = n - j
          OBVIOUS
        <5>3. m \in DOMAIN r.left /\ r.left[m] = buffered_segments[n]
          BY <1>26, <1>27, <5>1, <5>2
        <5> QED BY <3>1, <4>1, <5>3
      <4> QED BY <1>21, <1>28, <4>2, <4>3
    <3> QED BY <3>2, <3>3, <3>4 DEF Seen
  <2> QED BY <1>4, <2>3, <2>4
<1>38. Backed'
  <2> SUFFICES ASSUME Plain, NEW i \in DOMAIN Sent, SeqNo(i) < SeqNo(q + 1)
               PROVE  i \in Got'
    BY <1>1, <1>2, <1>8, <1>25 DEF Backed, Plain, SeqNo
  <2>1. isn + Len(Sent) + 1 < SeqSpace
    BY DEF Plain
  <2>2. i \in 0..(Len(Sent) + 1) /\ i \in Nat /\ 1 <= i /\ i \in 1..Len(Sent)
    BY Sizes
  <2>3. /\ SeqNo(p + 1) = isn + (p + 1) /\ SeqNo(q + 1) = isn + (q + 1)
        /\ SeqNo(i) = isn + i /\ isn \in Nat
    BY <1>0, <1>28, <2>1, <2>2, PlainNumber
  <2>4. i <= q
    BY <1>28, <2>2, <2>3
  <2>5. CASE i <= p
    <3>1. SeqNo(i) < expected_seq
      BY <1>10, <1>11, <2>2, <2>3, <2>5
    <3>2. i \in Got
      BY <1>0, <3>1 DEF Backed
    <3> QED BY <1>0, <1>1, <3>2, GotGrows
  <2>6. CASE p < i /\ i <= u
    <3>1. f <= i
      BY <1>11, <1>12, <2>2, <2>6
    <3>2. Covers(seg.seq, seg.payload, i)
      BY <1>0, <1>5, <1>11, <2>2, <2>6, <3>1, SliceCovers
    <3>3. seg.seq # NoSeq
      BY <1>1 DEF HasPayload
    <3> QED BY <1>0, <1>1, <3>2, <3>3, GotGrows
  <2>7. CASE u < i
    <3>1. i \in (u + 1)..q
      BY <1>11, <1>28, <2>2, <2>4, <2>7
    <3>2. PICK n \in DOMAIN buffered_segments :
             Covers(buffered_segments[n].seq, buffered_segments[n].payload, i)
      BY <1>21, <1>25, <3>1
    <3>3. i \in Got
      BY <1>0, <3>2, WaitingGot
    <3> QED BY <1>0, <1>1, <3>3, GotGrows
  <2> QED BY <1>11, <2>2, <2>5, <2>6, <2>7
<1>39. NoConflict'
  <2> SUFFICES ASSUME ~is_truncated' PROVE ~has_conflicting_overlaps'
    BY DEF NoConflict
  <2>1. ~is_truncated
    BY <1>30
  <2>2. ~Disagrees(seg)
    BY <1>0, <1>5, <1>7, <1>9, <1>11, <1>12, <1>13, <2>1, NothingDisagrees
  <2> QED BY <1>0, <1>1, <2>1, <2>2 DEF NoConflict
<1>40. Unfed' /\ Closed'
  BY <1>0, <1>2 DEF Unfed, Closed
<1> QED BY <1>33, <1>34, <1>36, <1>37, <1>38, <1>39, <1>40 DEF FlowInv

\* A byte below the expected number is among those in order.
LEMMA InOrderHeld ==
    ASSUME HonestCapture, ReassemblerTypeOK, Positioned, Plain, ~is_truncated,
           NEW i \in DOMAIN Sent, SeqNo(i) < expected_seq
    PROVE  FirstByte <= i /\ i < FirstByte + Len(contiguous_buffer)
<1>1. syn_established /\ isn + Len(Sent) + 1 < SeqSpace /\ isn \in ISNs
  BY DEF Plain, ReassemblerTypeOK
<1>2. PICK a \in 1..(Len(Sent) + 1), p \in 0..Len(Sent) : Ordered(a, p)
  BY <1>1 DEF Positioned
<1>3. a = 1 /\ expected_seq = SeqNo(p + 1)
  BY <1>1, <1>2 DEF Ordered
<1>4. Len(contiguous_buffer) = p - a + 1
  BY <1>2, OrderedFacts
<1>5. p + 1 \in 0..(Len(Sent) + 1) /\ i \in 0..(Len(Sent) + 1) /\ i \in Nat /\ 1 <= i /\ p \in Nat
  BY Sizes
<1>6. SeqNo(p + 1) = isn + (p + 1) /\ SeqNo(i) = isn + i /\ isn \in Nat
  BY <1>1, <1>5, PlainNumber
<1>7. FirstByte = 1
  BY <1>1 DEF FirstByte
<1> QED BY <1>3, <1>4, <1>5, <1>6, <1>7

\* A captured byte is below the expected number or waits.
LEMMA GotIsSeen ==
    ASSUME HonestCapture, ReassemblerTypeOK, Positioned, AllSeen,
           Plain, ~is_truncated, ~finalized, NEW i \in Got
    PROVE  \/ SeqNo(i) < expected_seq
           \/ \E m \in DOMAIN buffered_segments :
                 /\ Covers(buffered_segments[m].seq, buffered_segments[m].payload, i)
                 /\ SeqNo(i) < EndSeq(buffered_segments[m])
<1>1. /\ isn + Len(Sent) + 1 < SeqSpace /\ isn \in ISNs
      /\ received \in Seq(Opening(isn) \cup Segments(isn))
  BY DEF Plain, ReassemblerTypeOK
<1>2. PICK n \in DOMAIN received :
         received[n].seq # NoSeq /\ Covers(received[n].seq, received[n].payload, i)
  BY DEF Got
<1>3. i \in DOMAIN Sent
  BY DEF Got
<1>4. HasPayload(received[n])
  BY <1>2 DEF HasPayload, Covers
<1>5. received[n] \in Opening(isn) \cup Segments(isn)
  BY <1>1
<1>6. PICK g \in 1..Len(Sent), v \in 1..Len(Sent) :
         g <= v /\ received[n].seq = SeqNo(g) /\ received[n].payload = SubSeq(Sent, g, v)
  BY <1>1, <1>4, <1>5, PayloadFacts
<1>7. /\ i \in 1..Len(Sent) /\ i \in 0..(Len(Sent) + 1) /\ g \in 0..(Len(Sent) + 1)
      /\ v \in g..Len(Sent) /\ g \in Nat /\ v \in Nat /\ i \in Nat
  BY <1>3, <1>6, Sizes
<1>8. g <= i /\ i <= v
  BY <1>1, <1>2, <1>6, <1>7, SliceCovers
<1>9. EndSeq(received[n]) = SeqNo(g) + (v - g + 1)
  BY <1>1, <1>6, SliceValues
<1>10. SeqNo(i) = isn + i /\ SeqNo(g) = isn + g /\ isn \in Nat
  BY <1>1, <1>7, PlainNumber
<1>11. PICK e \in Nat : e = EndSeq(received[n]) /\ isn + i < e
  BY <1>7, <1>8, <1>9, <1>10
<1>12. Seen(received[n])
  BY <1>4 DEF AllSeen
<1>13. CASE EndSeq(received[n]) <= expected_seq
  <2>1. expected_seq \in Int
    BY Sizes DEF ReassemblerTypeOK, Positioned, Plain
  <2> QED BY <1>7, <1>10, <1>11, <1>13, <2>1
<1>14. CASE \E m \in DOMAIN buffered_segments :
                /\ buffered_segments[m].seq = received[n].seq
                /\ buffered_segments[m].payload = received[n].payload
  <2>1. PICK m \in DOMAIN buffered_segments :
                /\ buffered_segments[m].seq = received[n].seq
                /\ buffered_segments[m].payload = received[n].payload
    BY <1>14
  <2>2. EndSeq(buffered_segments[m]) = EndSeq(received[n])
    BY <2>1 DEF EndSeq
  <2> QED BY <1>2, <1>10, <1>11, <2>1, <2>2
<1> QED BY <1>12, <1>13, <1>14 DEF Seen

\* What waits becomes fragments, and the holes before them gaps.
LEMMA FinalizeKeeps ==
    ASSUME HonestCapture, FlowInv, FinalizeGaps
    PROVE  FlowInv'
<1>0. /\ received \in Seq(Opening(isn) \cup Segments(isn))
      /\ ReassemblerTypeOK /\ Positioned /\ Unfed /\ Waiting /\ AllSeen /\ Backed
      /\ NoConflict /\ Closed /\ isn \in ISNs
      /\ contiguous_buffer \in Seq(Bytes)
      /\ buffered_segments \in Seq(Entries)
  BY DEF FlowInv, ReassemblerTypeOK
<1> DEFINE start == IF expected_seq = NoSeq THEN 0 ELSE expected_seq
           base  == [expected |-> start, gaps |-> <<>>, fragments |-> InitialFragment]
           acc   == FoldLeft(CloseOne, base, buffered_segments)
           buf   == buffered_segments
<1>1. /\ ~finalized /\ finalized' = TRUE
      /\ fragments' = acc.fragments /\ gaps' = acc.gaps
      /\ buffered_segments' = <<>>
      /\ isn' = isn /\ received' = received
      /\ expected_seq' = expected_seq /\ initial_seq' = initial_seq
      /\ syn_established' = syn_established
      /\ contiguous_buffer' = contiguous_buffer /\ is_truncated' = is_truncated
      /\ has_conflicting_overlaps' = has_conflicting_overlaps
  BY DEF FinalizeGaps, sequencing, bytes, counters
<1>2. InitialFragment \in Seq(Pieces)
  <2>1. CASE contiguous_buffer = <<>>
    BY <2>1 DEF InitialFragment
  <2>2. CASE contiguous_buffer # <<>>
    <3> DEFINE first == [start_seq |-> IF initial_seq = NoSeq THEN 0 ELSE initial_seq,
                         data |-> contiguous_buffer, is_initial_contiguous |-> TRUE,
                         first_frame_number |-> initial_frame_number]
    <3>1. first \in Pieces
      BY <1>0 DEF Pieces
    <3>2. InitialFragment = <<first>>
      BY <2>2 DEF InitialFragment
    <3> HIDE DEF first
    <3> QED BY <3>1, <3>2
  <2> QED BY <2>1, <2>2
<1>3. start \in Nat
  BY <1>0, Sizes DEF ReassemblerTypeOK
<1>4. base.expected = start /\ base.gaps = <<>> /\ base.fragments \in Seq(Pieces)
  BY <1>2
<1> HIDE DEF start, base, acc
<1>5. ClosedTo(acc, buf, start, Len(buf))
  BY <1>0, <1>3, <1>4, ClosedFacts DEF acc
<1>6. DOMAIN buf = 1..Len(buf)
  BY <1>0
<1>7. /\ \A m \in DOMAIN buf : Kept(fragments', buf[m])
      /\ \A m \in DOMAIN buf : \A x \in Nat : x < EndSeq(buf[m]) =>
            Accounted(gaps', buf, start, Len(buf), x)
  BY <1>1, <1>5, <1>6 DEF ClosedTo
<1>8. Got' = Got
  BY <1>1 DEF Got, Covers, SeqNo
<1>9. Plain' <=> Plain
  BY <1>1 DEF Plain
<1>10. ASSUME Plain PROVE start = expected_seq /\ isn + Len(Sent) + 1 < SeqSpace
  BY <1>0, <1>10 DEF Plain, Positioned, start
<1>11. ASSUME NEW i \in DOMAIN Sent
       PROVE  /\ i \in 1..Len(Sent) /\ i \in 0..(Len(Sent) + 1) /\ i \in Nat
              /\ SeqNo(i) \in Nat /\ SeqNo(i)' = SeqNo(i)
  <2>1. i \in 1..Len(Sent) /\ i \in 0..(Len(Sent) + 1) /\ i \in Nat
    BY Sizes
  <2>2. SeqNo(i) \in 0..(SeqSpace - 1)
    BY <1>0, <2>1, Number
  <2>3. SeqNo(i) \in Nat
    BY <2>2, Sizes
  <2>4. SeqNo(i)' = SeqNo(i)
    BY <1>1 DEF SeqNo
  <2> QED BY <2>1, <2>3, <2>4
<1>12. NothingLost'
  <2> SUFFICES ASSUME Plain, ~is_truncated, NEW i \in Got PROVE Held(i)'
    BY <1>1, <1>8, <1>9 DEF NothingLost
  <2>1. i \in DOMAIN Sent
    BY DEF Got
  <2>2. CASE SeqNo(i) < expected_seq
    <3>1. FirstByte <= i /\ i < FirstByte + Len(contiguous_buffer)
      BY <1>0, <2>1, <2>2, InOrderHeld
    <3> QED BY <1>1, <3>1 DEF Held, FirstByte
  <2>3. CASE \E m \in DOMAIN buf : Covers(buf[m].seq, buf[m].payload, i)
    <3>1. PICK m \in DOMAIN buf : Covers(buf[m].seq, buf[m].payload, i)
      BY <2>3
    <3>2. PICK n \in DOMAIN fragments' :
             /\ ~fragments'[n].is_initial_contiguous
             /\ fragments'[n].start_seq = buf[m].seq /\ fragments'[n].data = buf[m].payload
      BY <1>7 DEF Kept
    <3>3. \E j \in DOMAIN fragments'[n].data :
             (fragments'[n].start_seq + j - 1) % SeqSpace = SeqNo(i)'
      BY <1>11, <2>1, <3>1, <3>2 DEF Covers
    <3> QED BY <3>2, <3>3 DEF Held, Covers
  <2> QED BY <1>0, <1>1, <2>2, <2>3, GotIsSeen
<1>13. HolesReported'
  <2> SUFFICES ASSUME Plain, ~is_truncated, NEW i \in DOMAIN Sent, NEW k \in Got, i < k
               PROVE  i \in Got \/ InGap(i)'
    BY <1>1, <1>8, <1>9 DEF HolesReported
  <2>1. k \in DOMAIN Sent
    BY DEF Got
  <2>2. /\ SeqNo(i) = isn + i /\ SeqNo(k) = isn + k /\ isn \in Nat
        /\ i \in Nat /\ k \in Nat /\ SeqNo(i) \in Nat
    BY <1>0, <1>10, <1>11, <2>1, PlainNumber
  <2>3. SeqNo(i) < SeqNo(k)
    BY <2>2
  <2>4. CASE SeqNo(i) < expected_seq
    BY <1>0, <2>4 DEF Backed
  <2>5. CASE SeqNo(k) < expected_seq
    <3>1. expected_seq = NoSeq \/ expected_seq \in Nat
      BY <1>0, Sizes DEF ReassemblerTypeOK
    <3>2. expected_seq # NoSeq
      BY <1>0 DEF Plain, Positioned
    <3>3. SeqNo(i) < expected_seq
      BY <2>2, <2>3, <2>5, <3>1, <3>2
    <3> QED BY <2>4, <3>3
  <2>6. CASE \E m \in DOMAIN buf : SeqNo(k) < EndSeq(buf[m])
    <3>1. PICK m \in DOMAIN buf : SeqNo(k) < EndSeq(buf[m])
      BY <2>6
    <3>2. EndSeq(buf[m]) \in Nat
      <4>1. buf[m] \in Entries
        BY <1>0
      <4> QED BY <4>1, EntryFacts
    <3>3. SeqNo(i) < EndSeq(buf[m])
      BY <2>2, <2>3, <3>1, <3>2
    <3>4. Accounted(gaps', buf, start, Len(buf), SeqNo(i))
      BY <1>7, <2>2, <3>3
    <3>5. CASE SeqNo(i) < start
      BY <1>10, <2>4, <3>5
    <3>6. CASE \E l \in 1..Len(buf) : buf[l].seq <= SeqNo(i) /\ SeqNo(i) < EndSeq(buf[l])
      <4>1. PICK l \in DOMAIN buf : buf[l].seq <= SeqNo(i) /\ SeqNo(i) < EndSeq(buf[l])
        BY <1>6, <3>6
      <4>2. PICK g \in 1..Len(Sent), v \in 1..Len(Sent) :
               g <= v /\ buf[l].seq = SeqNo(g) /\ buf[l].payload = SubSeq(Sent, g, v)
        BY <1>0 DEF Waiting, IsSlice, SeqNo
      <4>3. EndSeq(buf[l]) = SeqNo(g) + (v - g + 1)
        BY <1>0, <4>2, SliceValues
      <4>4. g \in 0..(Len(Sent) + 1) /\ g \in Nat /\ v \in Nat /\ v \in g..Len(Sent)
        BY <4>2, Sizes
      <4>5. SeqNo(g) = isn + g
        BY <1>0, <1>10, <4>4, PlainNumber
      <4>6. g <= i /\ i <= v
        BY SMTT(20), <2>2, <4>1, <4>2, <4>3, <4>4, <4>5
      <4>7. Covers(buf[l].seq, buf[l].payload, i)
        BY <1>0, <1>11, <4>2, <4>4, <4>6, SliceCovers
      <4> QED BY <1>0, <4>7, WaitingGot
    <3>7. CASE \E n \in DOMAIN gaps' :
                  gaps'[n].start_seq <= SeqNo(i) /\ SeqNo(i) < gaps'[n].end_seq
      BY <1>11, <3>7 DEF InGap
    <3> QED BY <3>4, <3>5, <3>6, <3>7 DEF Accounted
  <2> QED BY <1>0, <1>1, <2>5, <2>6, GotIsSeen
<1>14. ReassemblerTypeOK'
  BY <1>0, <1>1 DEF ReassemblerTypeOK
<1>15. Positioned'
  BY <1>0, <1>1 DEF Positioned, Ordered, SeqNo
<1>16. Waiting'
  BY <1>1 DEF Waiting, Sorted
<1>17. Backed'
  BY <1>0, <1>1, <1>8, <1>9 DEF Backed, SeqNo
<1>18. Unfed' /\ AllSeen' /\ NoConflict'
  BY <1>0, <1>1 DEF Unfed, AllSeen, NoConflict
<1>19. Closed'
  BY <1>1, <1>12, <1>13 DEF Closed
<1> QED BY <1>14, <1>15, <1>16, <1>17, <1>18, <1>19 DEF FlowInv
-------------------------------------------------------------------------------
\* A new direction has seen nothing.
LEMMA FlowInit ==
    ASSUME HonestCapture, Init
    PROVE  FlowInv
<1>1. ReassemblerTypeOK
  <2>1. /\ contiguous_buffer \in Seq(Bytes) /\ buffered_segments \in Seq(Entries)
        /\ received \in Seq(Opening(isn) \cup Segments(isn))
    BY EmptySeq DEF Init
  <2>2. /\ isn \in ISNs /\ syn_established \in BOOLEAN /\ is_truncated \in BOOLEAN
        /\ has_conflicting_overlaps \in BOOLEAN /\ finalized \in BOOLEAN
        /\ expected_seq = NoSeq /\ initial_seq = NoSeq
    BY DEF Init
  <2> QED BY <2>1, <2>2 DEF ReassemblerTypeOK
<1>2. Positioned /\ Unfed /\ NoConflict /\ Closed /\ AllSeen
  BY DEF Init, Positioned, Unfed, NoConflict, Closed, AllSeen
<1>3. Waiting
  BY DEF Init, Waiting, Sorted
<1>4. Backed
  BY DEF Init, Backed, Plain
<1> QED BY <1>1, <1>2, <1>3, <1>4 DEF FlowInv

\* A step that leaves the variables alone keeps it.
LEMMA FlowStutter ==
    ASSUME FlowInv, UNCHANGED vars
    PROVE  FlowInv'
<1>1. /\ isn' = isn /\ received' = received /\ buffered_segments' = buffered_segments
      /\ expected_seq' = expected_seq /\ initial_seq' = initial_seq
      /\ syn_established' = syn_established
      /\ contiguous_buffer' = contiguous_buffer /\ is_truncated' = is_truncated
      /\ has_conflicting_overlaps' = has_conflicting_overlaps
      /\ fragments' = fragments /\ gaps' = gaps /\ finalized' = finalized
  BY DEF vars, sequencing, bytes, counters, result
<1>2. ReassemblerTypeOK' /\ Unfed' /\ NoConflict'
  BY <1>1 DEF FlowInv, ReassemblerTypeOK, Unfed, NoConflict
<1>3. Positioned'
  BY <1>1 DEF FlowInv, Positioned, Ordered, SeqNo
<1>4. Waiting'
  BY <1>1 DEF FlowInv, Waiting
<1>5. AllSeen'
  BY <1>1 DEF FlowInv, AllSeen, Seen, Plain
<1>6. Got' = Got
  BY <1>1 DEF Got, Covers, SeqNo
<1>7. Backed'
  BY <1>1, <1>6 DEF FlowInv, Backed, Plain, SeqNo
<1>8. Closed'
  <2>1. Plain' <=> Plain
    BY <1>1 DEF Plain
  <2>2. NothingLost => NothingLost'
    BY <1>1, <1>6, <2>1 DEF NothingLost, Held, FirstByte, Covers, SeqNo
  <2>3. HolesReported => HolesReported'
    BY <1>1, <1>6, <2>1 DEF HolesReported, InGap, SeqNo
  <2> QED BY <1>1, <2>2, <2>3 DEF FlowInv, Closed
<1> QED BY <1>2, <1>3, <1>4, <1>5, <1>7, <1>8 DEF FlowInv

\* Each branch of process_segment, and finalize_gaps, keeps the invariant.
LEMMA FlowNext ==
    ASSUME HonestCapture, FlowInv, [Next]_vars
    PROVE  FlowInv'
<1>1. ASSUME NEW seg, NoPayload(seg) PROVE FlowInv'
  BY <1>1, NoPayloadKeeps
<1>2. ASSUME NEW seg, Baseline(seg) PROVE FlowInv'
  BY <1>2, BaselineKeeps
<1>3. ASSUME NEW seg, PrependAdjacent(seg) PROVE FlowInv'
  BY <1>3, PrependAdjacentKeeps
<1>4. ASSUME NEW seg, BufferEarly(seg) PROVE FlowInv'
  BY <1>4, BufferEarlyKeeps
<1>5. ASSUME NEW seg, OldDuplicate(seg) PROVE FlowInv'
  BY <1>5, OldDuplicateKeeps
<1>6. ASSUME NEW seg, InOrder(seg) PROVE FlowInv'
  BY <1>6, InOrderKeeps
<1>7. ASSUME NEW seg, OutOfOrder(seg) PROVE FlowInv'
  BY <1>7, OutOfOrderKeeps
<1>8. CASE FinalizeGaps
  BY <1>8, FinalizeKeeps
<1>9. CASE UNCHANGED vars
  BY <1>9, FlowStutter
<1> QED BY <1>1, <1>2, <1>3, <1>4, <1>5, <1>6, <1>7, <1>8, <1>9 DEF Next

\* Of a flow of any length, captured in any way TCP allows, the invariant holds: the bytes
\* in order are a slice of what was sent, what waits is sorted, captured and behind a hole,
\* and every byte captured is accounted for.
THEOREM FlowInvariance == ASSUME HonestCapture PROVE Spec => []FlowInv
<1>1. Init => FlowInv
  BY FlowInit
<1>2. FlowInv /\ [Next]_vars => FlowInv'
  BY FlowNext
<1> QED BY <1>1, <1>2, PTL DEF Spec

\* The slice in order is the one FirstByte and LastByte name.
LEMMA FlowDelivers ==
    ASSUME HonestCapture, FlowInv
    PROVE  DeliversSent
<1> SUFFICES ASSUME expected_seq # NoSeq
             PROVE  contiguous_buffer = Capped(SubSeq(Sent, FirstByte, LastByte))
  BY DEF DeliversSent
<1>1. PICK a \in 1..(Len(Sent) + 1), p \in 0..Len(Sent) : Ordered(a, p)
  BY DEF FlowInv, Positioned
<1>2. isn \in ISNs
  BY DEF FlowInv, ReassemblerTypeOK
<1>3. LastByte = p
  <2>1. expected_seq = SeqNo(p + 1)
    BY <1>1 DEF Ordered
  <2>2. (SeqNo(p + 1) - isn - 1 + SeqSpace) % SeqSpace = p
    BY <1>2, LastRead
  <2> QED BY <2>1, <2>2 DEF LastByte
<1>4. FirstByte = a
  <2>1. CASE syn_established
    BY <1>1, <2>1 DEF Ordered, FirstByte
  <2>2. CASE ~syn_established
    <3>1. a <= p /\ initial_seq = SeqNo(a)
      BY <1>1, <2>2 DEF Ordered
    <3>2. a \in 1..Len(Sent)
      BY <3>1, Sizes
    <3>3. (SeqNo(a) - isn + SeqSpace) % SeqSpace = a
      BY <1>2, <3>2, FirstRead
    <3> QED BY <2>2, <3>1, <3>3 DEF FirstByte
  <2> QED BY <2>1, <2>2
<1> QED BY <1>1, <1>3, <1>4 DEF Ordered

\* Before finalize_gaps a captured byte is in order or waits.
LEMMA FlowLosesNothing ==
    ASSUME HonestCapture, FlowInv
    PROVE  NothingLost
<1>1. CASE finalized
  BY <1>1 DEF FlowInv, Closed
<1>2. CASE ~finalized
  <2> SUFFICES ASSUME Plain, ~is_truncated, NEW i \in Got PROVE Held(i)
    BY DEF NothingLost
  <2>1. ReassemblerTypeOK /\ Positioned /\ AllSeen /\ i \in DOMAIN Sent
    BY DEF FlowInv, Got
  <2>2. CASE SeqNo(i) < expected_seq
    BY <2>1, <2>2, InOrderHeld DEF Held
  <2>3. CASE \E m \in DOMAIN buffered_segments :
                Covers(buffered_segments[m].seq, buffered_segments[m].payload, i)
    BY <2>3 DEF Held
  <2> QED BY <1>2, <2>1, <2>2, <2>3, GotIsSeen
<1> QED BY <1>1, <1>2

\* The payload handed to the analysers is what was sent, cut only at the byte limit: never
\* a byte twice, out of place or from behind a hole.
THEOREM Deliveries == ASSUME HonestCapture PROVE Spec => []DeliversSent
<1>1. FlowInv => DeliversSent
  BY FlowDelivers
<1> QED BY <1>1, FlowInvariance, PTL

\* No captured byte vanishes unless the stream is marked truncated.
THEOREM Losslessness == ASSUME HonestCapture PROVE Spec => []NothingLost
<1>1. FlowInv => NothingLost
  BY FlowLosesNothing
<1> QED BY <1>1, FlowInvariance, PTL

\* A drained reassembler sits on no byte that is due.
THEOREM Promptness == ASSUME HonestCapture PROVE Spec => []NothingWithheld
<1>1. FlowInv => NothingWithheld
  BY DEF FlowInv, Waiting, NothingWithheld, Plain
<1> QED BY <1>1, FlowInvariance, PTL

\* finalize_gaps reports every hole below the last byte seen.
THEOREM HoleReports == ASSUME HonestCapture PROVE Spec => []HolesReported
<1>1. FlowInv => HolesReported
  BY DEF FlowInv, Closed, HolesReported
<1> QED BY <1>1, FlowInvariance, PTL

\* As long as the byte limit has cut nothing, segments that agree never make the stream
\* ambiguous.
THEOREM Unambiguity == ASSUME HonestCapture PROVE Spec => []ConflictIsReal
<1>1. FlowInv => ConflictIsReal
  BY DEF FlowInv, NoConflict, ConflictIsReal
<1> QED BY <1>1, FlowInvariance, PTL
-------------------------------------------------------------------------------
\* A captured segment that comes again has nothing the reassembler still wants.
LEMMA RepeatIsSeen ==
    ASSUME HonestCapture, FlowInv, Plain, ~is_truncated, NEW seg, Receive(seg),
           HasPayload(seg), \E n \in DOMAIN received : received[n] = seg
    PROVE  /\ Expected(seg) = expected_seq /\ expected_seq \in Nat /\ expected_seq # NoSeq
           /\ Established(seg)
           /\ seg.seq \in Nat /\ EndSeq(seg) \in Nat /\ seg.seq < EndSeq(seg)
           /\ EndSeq(seg) <= expected_seq \/ (seg.seq > expected_seq /\ AlreadyBuffered(seg))
<1>0. /\ received \in Seq(Opening(isn) \cup Segments(isn)) /\ isn \in ISNs
      /\ expected_seq \in 0..(SeqSpace - 1) \cup {NoSeq}
      /\ Positioned /\ Waiting /\ AllSeen /\ syn_established
  BY DEF FlowInv, ReassemblerTypeOK, Plain
<1>1. seg \in Opening(isn) \cup Segments(isn) /\ ~finalized
  BY <1>0, ReceiveFacts
<1>2. Expected(seg) = expected_seq /\ Established(seg)
  BY <1>0, <1>1, PayloadFacts
<1>3. expected_seq # NoSeq
  BY <1>0 DEF Positioned
<1>4. expected_seq \in Nat
  BY <1>0, <1>3, Sizes
<1>5. PICK f \in 1..Len(Sent), u \in 1..Len(Sent) :
         f <= u /\ seg.seq = SeqNo(f) /\ seg.payload = SubSeq(Sent, f, u)
  BY <1>0, <1>1, PayloadFacts
<1>6. seg.seq \in Nat /\ EndSeq(seg) \in Nat /\ EndSeq(seg) = SeqNo(f) + (u - f + 1)
  BY <1>0, <1>5, SliceValues
<1>7. seg.seq < EndSeq(seg)
  BY <1>5, <1>6, Sizes
<1>8. Seen(seg)
  BY <1>0, <1>1 DEF AllSeen
<1>9. ASSUME NEW n \in DOMAIN buffered_segments,
             buffered_segments[n].seq = seg.seq, buffered_segments[n].payload = seg.payload
      PROVE  seg.seq > expected_seq /\ AlreadyBuffered(seg)
  <2>1. seg.seq > expected_seq
    BY <1>0, <1>9 DEF Waiting
  <2> QED BY <1>9, <2>1 DEF AlreadyBuffered
<1>10. EndSeq(seg) <= expected_seq \/ (seg.seq > expected_seq /\ AlreadyBuffered(seg))
  BY <1>8, <1>9 DEF Seen
<1> QED BY <1>2, <1>3, <1>4, <1>6, <1>7, <1>10

\* A segment that comes again changes nothing but a counter.
LEMMA FlowRepeats ==
    ASSUME HonestCapture, FlowInv, Plain, ~is_truncated', NEW seg, ~seg.syn,
           \E n \in DOMAIN received : received[n] = seg,
           \/ NoPayload(seg) \/ Baseline(seg)
           \/ PrependAdjacent(seg) \/ BufferEarly(seg)
           \/ OldDuplicate(seg) \/ InOrder(seg) \/ OutOfOrder(seg)
    PROVE  /\ expected_seq' = expected_seq /\ contiguous_buffer' = contiguous_buffer
           /\ buffered_segments' = buffered_segments
           /\ has_conflicting_overlaps' = has_conflicting_overlaps
<1>1. CASE NoPayload(seg)
  <2>1. Expected(seg) = expected_seq
    BY DEF Expected, Syn
  <2> QED BY <1>1, <2>1 DEF NoPayload, bytes, counters
<1>2. CASE Baseline(seg)
  <2>1. ~is_truncated /\ Receive(seg) /\ HasPayload(seg) /\ Expected(seg) = NoSeq
    BY <1>2 DEF Baseline
  <2> QED BY <2>1, RepeatIsSeen
<1>3. CASE PrependAdjacent(seg)
  <2>1. ~is_truncated /\ Receive(seg) /\ HasPayload(seg) /\ ~Established(seg)
    BY <1>3 DEF PrependAdjacent, IsEarly
  <2> QED BY <2>1, RepeatIsSeen
<1>4. CASE BufferEarly(seg)
  <2>1. ~is_truncated /\ Receive(seg) /\ HasPayload(seg) /\ ~Established(seg)
    BY <1>4 DEF BufferEarly, IsEarly, BufferOutOfOrder
  <2> QED BY <2>1, RepeatIsSeen
<1>5. CASE OldDuplicate(seg)
  <2>1. ~is_truncated /\ Receive(seg) /\ HasPayload(seg)
    BY <1>5 DEF OldDuplicate, IsLater, bytes
  <2>2. Expected(seg) = expected_seq
    BY <2>1, RepeatIsSeen
  <2> QED BY <1>5, <2>2 DEF OldDuplicate, bytes
<1>6. CASE InOrder(seg)
  <2>1. /\ ~is_truncated /\ Receive(seg) /\ HasPayload(seg)
        /\ seg.seq <= Expected(seg) /\ Expected(seg) < EndSeq(seg)
    BY <1>6 DEF InOrder, IsLater
  <2> QED BY <2>1, RepeatIsSeen
<1>7. CASE OutOfOrder(seg)
  <2>1. /\ ~is_truncated /\ Receive(seg) /\ HasPayload(seg)
        /\ seg.seq > Expected(seg) /\ BufferOutOfOrder(seg)
    BY <1>7 DEF OutOfOrder, IsLater, BufferOutOfOrder
  <2>2. Expected(seg) = expected_seq /\ AlreadyBuffered(seg)
    BY <2>1, RepeatIsSeen
  <2> QED BY <1>7, <2>1, <2>2 DEF OutOfOrder, BufferOutOfOrder
<1> QED BY <1>1, <1>2, <1>3, <1>4, <1>5, <1>6, <1>7

\* A segment that was captured before changes a counter and
\* nothing the analysers read.
THEOREM HarmlessRepeats == ASSUME HonestCapture PROVE Spec => RepeatsAreHarmless
<1> DEFINE Repeated == /\ Plain /\ received' # received
                       /\ ~Last(received').syn /\ ~is_truncated'
                       /\ \E n \in DOMAIN received : received[n] = Last(received')
           Harmless == UNCHANGED <<expected_seq, contiguous_buffer, buffered_segments,
                                   has_conflicting_overlaps>>
<1>1. ASSUME FlowInv, Next, Repeated PROVE Harmless
  <2>1. PICK seg : \/ NoPayload(seg) \/ Baseline(seg)
                   \/ PrependAdjacent(seg) \/ BufferEarly(seg)
                   \/ OldDuplicate(seg) \/ InOrder(seg) \/ OutOfOrder(seg)
    BY <1>1 DEF Next, FinalizeGaps
  <2>2. Receive(seg)
    BY <2>1 DEF NoPayload, Baseline, PrependAdjacent, BufferEarly, OldDuplicate, InOrder,
                OutOfOrder
  <2>3. seg \in Opening(isn) \cup Segments(isn) /\ received' = Append(received, seg)
    BY <2>2 DEF Receive
  <2>4. received \in Seq(Opening(isn) \cup Segments(isn))
    BY <1>1 DEF FlowInv, ReassemblerTypeOK
  <2>5. Last(received') = seg
    <3>1. /\ Len(Append(received, seg)) = Len(received) + 1
          /\ Append(received, seg)[Len(received) + 1] = seg
      BY <2>3, <2>4, AppendProperties
    <3> QED BY <2>3, <3>1 DEF Last
  <2> QED BY <1>1, <2>1, <2>5, FlowRepeats
<1>2. FlowInv /\ [Next]_vars => [Repeated => Harmless]_vars
  BY <1>1
<1> QED BY <1>2, FlowInvariance, PTL DEF Spec, RepeatsAreHarmless
===============================================================================
