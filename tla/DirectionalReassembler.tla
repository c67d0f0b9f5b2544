------------------------ MODULE DirectionalReassembler ------------------------
(***************************************************************************)
(* DirectionalReassembler of services/tcp_reassembly_service.py: one       *)
(* direction of a TCP conversation is put together from the segments a     *)
(* capture holds, in whatever order, as often and with whatever losses the *)
(* capture has them.                                                       *)
(*                                                                         *)
(* A segment is [seq, payload, syn].  FIN only sets fin_received, which    *)
(* nothing reads, and is left out.  Frame numbers are the positions of the *)
(* segments in the capture.                                                *)
(***************************************************************************)
EXTENDS Integers, Sequences, SequencesExt

CONSTANTS SeqSpace,               \* 2^32 in the code
          MaxBytes,             \* self.max_bytes
          MaxBufferedSegments,  \* self.max_buffered_segments
          NoSeq,                \* a sequence number or frame that is None
          ISNs,                 \* what the sender did: its initial number, one of these,
          Sent,                 \* ... and the bytes it sent after it
          Opening(_),           \* the segments the capture may start with
          Segments(_),          \* the segments that may follow
          MaxPackets            \* bound: segments of a capture, its SYN not counted

ASSUME ReassemblerAssumption ==
    /\ SeqSpace \in Nat \ {0} /\ ISNs \subseteq 0..(SeqSpace - 1)
    /\ MaxBytes \in Nat \ {0} /\ MaxBufferedSegments \in Nat \ {0}
    /\ MaxPackets \in Nat /\ NoSeq \notin Nat
    /\ \A i \in ISNs : \A s \in Opening(i) \cup Segments(i) :
           /\ s.seq \in 0..(SeqSpace - 1) \/ s.seq = NoSeq
           /\ s.syn \in BOOLEAN

VARIABLES
    isn,                      \* history: the initial number of the sender
    expected_seq, initial_seq, syn_established,
    contiguous_buffer,        \* bytes delivered in order
    buffered_segments,        \* segments beyond a hole, sorted by seq
    retransmissions, overlapping_segments,
    has_conflicting_overlaps, is_truncated,
    initial_frame_number,
    fragments, gaps,          \* the result of finalize_gaps
    finalized,                \* finalize_gaps has run
    received                  \* history: the segments of the capture so far

sequencing == <<expected_seq, initial_seq, syn_established, initial_frame_number>>
bytes      == <<contiguous_buffer, is_truncated>>
counters   == <<retransmissions, overlapping_segments, has_conflicting_overlaps>>
result     == <<fragments, gaps, finalized>>
vars == <<sequencing, bytes, buffered_segments, counters, result, isn, received>>

EndSeq(seg) == seg.seq + Len(seg.payload)
Frame       == Len(received) + 1
-------------------------------------------------------------------------------
\* The state a SYN leaves before the payload of the same segment is looked at.

Syn(seg)         == seg.syn /\ seg.seq # NoSeq
Isn(seg)         == IF Syn(seg) THEN seg.seq ELSE initial_seq
Expected(seg)    == IF Syn(seg) THEN (seg.seq + 1) % SeqSpace ELSE expected_seq
Established(seg) == Syn(seg) \/ syn_established
HasPayload(seg)  == seg.payload # <<>> /\ seg.seq # NoSeq

FirstFrame(seg) ==
    IF initial_frame_number = NoSeq /\ (Syn(seg) \/ HasPayload(seg))
    THEN Frame ELSE initial_frame_number

\* _append_contiguous: the first MaxBytes bytes are kept ...
Capped(data) == SubSeq(data, 1, IF Len(data) > MaxBytes THEN MaxBytes ELSE Len(data))
\* ... and a loss is flagged.
Overflows(data) == Len(data) > MaxBytes

Advance(seq, data) == (seq + Len(data)) % SeqSpace

\* _buffer_out_of_order, as the list it leaves.

\* Mutant: segments of one number count as the same.
MutantAlreadyBuffered(seg) ==
    \E i \in DOMAIN buffered_segments : buffered_segments[i].seq = seg.seq
\* Mutant: a repeated segment is buffered again.
MutantNeverBuffered(seg) == FALSE
AlreadyBuffered(seg) ==
    \E i \in DOMAIN buffered_segments :
        /\ buffered_segments[i].seq = seg.seq
        /\ Len(buffered_segments[i].payload) = Len(seg.payload)

BufferFull == Len(buffered_segments) >= MaxBufferedSegments

\* The list is sorted and stays so: a segment goes behind those of its own number.
Place(list, seg) ==
    CHOOSE k \in 0..Len(list) : \A n \in DOMAIN list : n <= k <=> list[n].seq <= seg.seq

BufferWith(seg) ==
    LET room == IF BufferFull THEN Tail(buffered_segments) ELSE buffered_segments
    IN  InsertAt(room, Place(room, seg) + 1,
                 [seq |-> seg.seq, payload |-> seg.payload, frame |-> Frame])

BufferOutOfOrder(seg) ==
    IF AlreadyBuffered(seg)
    THEN /\ retransmissions' = retransmissions + 1
         /\ UNCHANGED <<buffered_segments, is_truncated>>
    ELSE /\ buffered_segments' = BufferWith(seg)
         /\ is_truncated' = (is_truncated \/ BufferFull)
         /\ UNCHANGED retransmissions

\* Mutant: the segment that is due is left waiting.
MutantDrainLate(acc, seg) ==
    IF seg.seq >= acc.expected THEN [acc EXCEPT !.left = Append(@, seg)]
    ELSE IF EndSeq(seg) <= acc.expected THEN acc
    ELSE LET fresh == SubSeq(seg.payload, acc.expected - seg.seq + 1, Len(seg.payload))
         IN  [acc EXCEPT !.data = @ \o fresh, !.expected = Advance(@, fresh)]

\* _drain_buffered_segments.  The list is sorted, so the segment its loop picks
\* is always the first one and the loop is a pass over the list.
DrainOne(acc, seg) ==
    IF seg.seq > acc.expected THEN [acc EXCEPT !.left = Append(@, seg)]
    ELSE IF EndSeq(seg) <= acc.expected THEN acc
    ELSE LET fresh == SubSeq(seg.payload, acc.expected - seg.seq + 1, Len(seg.payload))
         IN  [acc EXCEPT !.data = @ \o fresh, !.expected = Advance(@, fresh)]

Drained(seq, data) ==
    FoldLeft(DrainOne, [expected |-> seq, data |-> data, left |-> <<>>],
             buffered_segments)
-------------------------------------------------------------------------------
\* process_segment: one action per branch.

Receive(seg) ==
    /\ ~finalized
    /\ Len(received) < MaxPackets + (IF syn_established THEN 1 ELSE 0)
    /\ seg \in (IF received = <<>> THEN Opening(isn) ELSE Segments(isn))
    /\ received' = Append(received, seg)
    /\ initial_frame_number' = FirstFrame(seg)
    /\ syn_established' = Established(seg)
    /\ UNCHANGED <<isn, result>>

\* No bytes: a SYN, an ACK, a segment without a sequence number.
NoPayload(seg) ==
    /\ Receive(seg)
    /\ ~HasPayload(seg)
    /\ initial_seq' = Isn(seg)
    /\ expected_seq' = Expected(seg)
    /\ UNCHANGED <<bytes, buffered_segments, counters>>

\* The first bytes of a flow whose SYN was not captured.
Baseline(seg) ==
    /\ Receive(seg)
    /\ HasPayload(seg) /\ Expected(seg) = NoSeq
    /\ initial_seq' = seg.seq
    /\ expected_seq' = Advance(seg.seq, seg.payload)
    /\ contiguous_buffer' = Capped(contiguous_buffer \o seg.payload)
    /\ is_truncated' = (is_truncated \/ Overflows(contiguous_buffer \o seg.payload))
    /\ UNCHANGED <<buffered_segments, counters>>

\* Without a SYN, bytes may turn up that precede the first ones seen.
IsEarly(seg) ==
    /\ HasPayload(seg) /\ Expected(seg) # NoSeq
    /\ ~Established(seg) /\ EndSeq(seg) <= Isn(seg)

\* Mutant: the early bytes are put behind.
MutantPrependAdjacent(seg) ==
    /\ Receive(seg)
    /\ IsEarly(seg) /\ EndSeq(seg) = initial_seq
    /\ initial_seq' = seg.seq
    /\ contiguous_buffer' = Capped(contiguous_buffer \o seg.payload)
    /\ is_truncated' = (is_truncated \/ Overflows(contiguous_buffer \o seg.payload))
    /\ UNCHANGED <<expected_seq, buffered_segments, counters>>

PrependAdjacent(seg) ==
    /\ Receive(seg)
    /\ IsEarly(seg) /\ EndSeq(seg) = initial_seq
    /\ initial_seq' = seg.seq
    /\ contiguous_buffer' = Capped(seg.payload \o contiguous_buffer)
    /\ is_truncated' = (is_truncated \/ Overflows(seg.payload \o contiguous_buffer))
    /\ UNCHANGED <<expected_seq, buffered_segments, counters>>

BufferEarly(seg) ==
    /\ Receive(seg)
    /\ IsEarly(seg) /\ EndSeq(seg) < initial_seq
    /\ BufferOutOfOrder(seg)
    /\ UNCHANGED <<expected_seq, initial_seq, contiguous_buffer,
                   overlapping_segments, has_conflicting_overlaps>>

IsLater(seg) == HasPayload(seg) /\ Expected(seg) # NoSeq /\ ~IsEarly(seg)

OldDuplicate(seg) ==
    /\ Receive(seg)
    /\ IsLater(seg) /\ EndSeq(seg) <= Expected(seg)
    /\ retransmissions' = retransmissions + 1
    /\ initial_seq' = Isn(seg)
    /\ expected_seq' = Expected(seg)
    /\ UNCHANGED <<bytes, buffered_segments, overlapping_segments,
                   has_conflicting_overlaps>>

\* Mutant: compared with the first bytes of the buffer.
MutantDisagrees(seg) ==
    LET overlap == Expected(seg) - seg.seq
    IN  /\ overlap > 0 /\ Len(contiguous_buffer) >= overlap
        /\ SubSeq(contiguous_buffer, 1, overlap) # SubSeq(seg.payload, 1, overlap)

\* Does the part of seg below the expected number differ from the last bytes
\* of the buffer?  A buffer that is too short is not compared.
Disagrees(seg) ==
    LET overlap == Expected(seg) - seg.seq
        have    == Len(contiguous_buffer)
    IN  /\ overlap > 0 /\ have >= overlap
        /\ SubSeq(contiguous_buffer, have - overlap + 1, have)
             # SubSeq(seg.payload, 1, overlap)

\* Bytes that continue the stream, behind a repeated part or not; what waited
\* behind the hole they fill is drained in the same call.
InOrder(seg) ==
    LET overlap == Expected(seg) - seg.seq
        fresh   == SubSeq(seg.payload, overlap + 1, Len(seg.payload))
        drained == Drained(Advance(Expected(seg), fresh), contiguous_buffer \o fresh)
    IN  /\ Receive(seg)
        /\ IsLater(seg)
        /\ seg.seq <= Expected(seg) /\ Expected(seg) < EndSeq(seg)
        /\ overlapping_segments' = overlapping_segments + (IF overlap > 0 THEN 1 ELSE 0)
        /\ has_conflicting_overlaps' = (has_conflicting_overlaps \/ Disagrees(seg))
        /\ contiguous_buffer' = Capped(drained.data)
        /\ is_truncated' = (is_truncated \/ Overflows(drained.data))
        /\ expected_seq' = drained.expected
        /\ buffered_segments' = drained.left
        /\ initial_seq' = Isn(seg)
        /\ UNCHANGED retransmissions

OutOfOrder(seg) ==
    /\ Receive(seg)
    /\ IsLater(seg) /\ seg.seq > Expected(seg)
    /\ BufferOutOfOrder(seg)
    /\ initial_seq' = Isn(seg)
    /\ expected_seq' = Expected(seg)
    /\ UNCHANGED <<contiguous_buffer, overlapping_segments, has_conflicting_overlaps>>
-------------------------------------------------------------------------------
\* finalize_gaps, called once when the conversation is handed out.

InitialFragment ==
    IF contiguous_buffer = <<>> THEN <<>>
    ELSE <<[start_seq |-> IF initial_seq = NoSeq THEN 0 ELSE initial_seq,
            data |-> contiguous_buffer, is_initial_contiguous |-> TRUE,
            first_frame_number |-> initial_frame_number]>>

\* Mutant: a hole of one byte is overlooked.
MutantCloseCoarse(acc, seg) ==
    [expected  |-> EndSeq(seg),
     gaps      |-> IF seg.seq > acc.expected + 1
                   THEN Append(acc.gaps, [start_seq |-> acc.expected, end_seq |-> seg.seq])
                   ELSE acc.gaps,
     fragments |-> Append(acc.fragments, [start_seq |-> seg.seq, data |-> seg.payload,
                                          is_initial_contiguous |-> FALSE,
                                          first_frame_number |-> seg.frame])]
CloseOne(acc, seg) ==
    [expected  |-> EndSeq(seg),
     gaps      |-> IF seg.seq > acc.expected
                   THEN Append(acc.gaps, [start_seq |-> acc.expected,
                                          end_seq |-> seg.seq])
                   ELSE acc.gaps,
     fragments |-> Append(acc.fragments,
                          [start_seq |-> seg.seq, data |-> seg.payload,
                           is_initial_contiguous |-> FALSE,
                           first_frame_number |-> seg.frame])]

FinalizeGaps ==
    LET closed == FoldLeft(CloseOne,
                     [expected |-> IF expected_seq = NoSeq THEN 0 ELSE expected_seq,
                      gaps |-> <<>>, fragments |-> InitialFragment],
                     buffered_segments)
    IN  /\ ~finalized
        /\ finalized' = TRUE
        /\ fragments' = closed.fragments
        /\ gaps' = closed.gaps
        /\ buffered_segments' = <<>>
        /\ UNCHANGED <<sequencing, bytes, counters, isn, received>>
-------------------------------------------------------------------------------
Init ==
    /\ isn \in ISNs
    /\ expected_seq = NoSeq /\ initial_seq = NoSeq
    /\ syn_established = FALSE /\ initial_frame_number = NoSeq
    /\ contiguous_buffer = <<>> /\ is_truncated = FALSE
    /\ buffered_segments = <<>>
    /\ retransmissions = 0 /\ overlapping_segments = 0
    /\ has_conflicting_overlaps = FALSE
    /\ fragments = <<>> /\ gaps = <<>> /\ finalized = FALSE
    /\ received = <<>>

Next ==
    \/ \E seg \in Opening(isn) \cup Segments(isn) :
          \/ NoPayload(seg) \/ Baseline(seg)
          \/ PrependAdjacent(seg) \/ BufferEarly(seg)
          \/ OldDuplicate(seg) \/ InOrder(seg) \/ OutOfOrder(seg)
    \/ FinalizeGaps

Spec == Init /\ [][Next]_vars
-------------------------------------------------------------------------------
\* What the proofs need to know of a capture, and TLC evaluates for its instance: a SYN
\* comes first and alone, every other segment with bytes repeats a slice of what was
\* sent, and no two bytes of the flow have the same number.
IsSlice(i, seg) ==
    \E from, to \in 1..Len(Sent) :
        /\ from <= to
        /\ seg.seq = (i + from) % SeqSpace /\ seg.payload = SubSeq(Sent, from, to)

HonestCapture ==
    /\ Sent \in Seq(Range(Sent)) /\ Len(Sent) < SeqSpace
    /\ \A i \in ISNs :
          /\ \A s \in Opening(i) : s.syn => s.seq = i /\ s.payload = <<>>
          /\ \A s \in Segments(i) : ~s.syn
          /\ \A s \in Opening(i) \cup Segments(i) :
                s.seq = NoSeq \/ s.payload = <<>> \/ IsSlice(i, s)
-------------------------------------------------------------------------------
\* Properties.  Byte i of the sender carries the number SeqNo(i).

SeqNo(i)       == (isn + i) % SeqSpace
Covers(seq, data, i) == \E j \in DOMAIN data : (seq + j - 1) % SeqSpace = SeqNo(i)

\* The bytes some segment of the capture carried.
Got == {i \in DOMAIN Sent : \E n \in DOMAIN received :
           received[n].seq # NoSeq /\ Covers(received[n].seq, received[n].payload, i)}

\* The first byte of the flow the reassembler may hold, and the last of those
\* it has put in order.
FirstByte == IF syn_established THEN 1 ELSE (initial_seq - isn + SeqSpace) % SeqSpace
LastByte  == (expected_seq - isn - 1 + SeqSpace) % SeqSpace

\* Byte i is in order, waits behind a hole, or is in a fragment behind one.
Held(i) ==
    \/ FirstByte <= i /\ i < FirstByte + Len(contiguous_buffer)
    \/ \E n \in DOMAIN buffered_segments :
          Covers(buffered_segments[n].seq, buffered_segments[n].payload, i)
    \/ \E n \in DOMAIN fragments :
          /\ ~fragments[n].is_initial_contiguous
          /\ Covers(fragments[n].start_seq, fragments[n].data, i)

InGap(i) == \E n \in DOMAIN gaps :
                gaps[n].start_seq <= SeqNo(i) /\ SeqNo(i) < gaps[n].end_seq

\* A flow whose SYN was captured and whose numbers, the one after its last byte
\* included, do not wrap: what NothingLost, NothingWithheld, RepeatsAreHarmless and
\* HolesReported promise holds only of such a flow.
Plain == syn_established /\ isn + Len(Sent) + 1 < SeqSpace

\* The payload handed to the analysers is what the sender sent, from the first
\* byte of the flow up to the expected number, cut only at the byte limit:
\* never a byte twice, out of place or from behind a hole.
DeliversSent ==
    expected_seq # NoSeq =>
        contiguous_buffer = Capped(SubSeq(Sent, FirstByte, LastByte))

\* No byte of the capture vanishes: unless the stream is marked truncated it is
\* in order, buffered or in a fragment.
NothingLost ==
    Plain /\ ~is_truncated => \A i \in Got : Held(i)

\* After each segment the buffer holds only what lies behind a hole: a drained
\* reassembler never sits on the next byte.
NothingWithheld ==
    Plain => \A n \in DOMAIN buffered_segments : buffered_segments[n].seq > expected_seq

\* A repeated segment changes a counter and nothing the analysers read.
RepeatsAreHarmless ==
    [][LET seg == Last(received')
       IN  (/\ Plain /\ received' # received
            /\ ~seg.syn /\ ~is_truncated'
            /\ \E n \in DOMAIN received : received[n] = seg)
           => UNCHANGED <<expected_seq, contiguous_buffer, buffered_segments,
                          has_conflicting_overlaps>>]_vars

\* finalize_gaps reports every hole below the last byte seen.
HolesReported ==
    Plain /\ finalized /\ ~is_truncated =>
        \A i \in DOMAIN Sent, k \in Got : i < k => i \in Got \/ InGap(i)

\* What two segments say of the same byte differs.
Contradict(s, t) ==
    /\ s.seq # NoSeq /\ t.seq # NoSeq
    /\ \E i \in DOMAIN s.payload, j \in DOMAIN t.payload :
          /\ (s.seq + i) % SeqSpace = (t.seq + j) % SeqSpace
          /\ s.payload[i] # t.payload[j]

\* The stream is called ambiguous only if two of its segments disagree, as long as
\* the byte limit has not cut what an overlap is compared with.
ConflictIsReal ==
    ~is_truncated /\ has_conflicting_overlaps =>
        \E m, n \in DOMAIN received : Contradict(received[m], received[n])
===============================================================================
