----------------------- MODULE MCDirectionalReassembler -----------------------
(***************************************************************************)
(* Captures for TLC: the bytes the sender sent (all different, so that a   *)
(* byte out of place shows) and the segments a capture may hold.           *)
(***************************************************************************)
EXTENDS DirectionalReassembler

MCSent == <<1, 2, 3, 4, 5>>

Slice(i, from, to) ==
    [seq |-> (i + from) % SeqSpace, payload |-> SubSeq(Sent, from, to), syn |-> FALSE]

\* A TCP sender may cut its stream anew when it retransmits; three bytes at most.
MCSlices(i) == {Slice(i, r[1], r[2]) : r \in {q \in (1..5) \X (1..5) : q[2] - q[1] \in 0..2}}

\* Control segments a capture holds besides.
MCNoData(i) == {[seq |-> (i + 1) % SeqSpace, payload |-> <<>>, syn |-> FALSE],
                [seq |-> NoSeq, payload |-> <<1>>, syn |-> FALSE]}

MCSegments(i) == MCSlices(i) \cup MCNoData(i)

\* A capture may begin with the SYN or miss it; the SYN never comes again.
MCOpening(i) == {[seq |-> i, payload |-> <<>>, syn |-> TRUE]} \cup MCSegments(i)

ASSUME MCAssumption == HonestCapture
===============================================================================
