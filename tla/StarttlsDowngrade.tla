--------------------------- MODULE StarttlsDowngrade --------------------------
(***************************************************************************)
(* The verdict on a downgrade is a function of one stream, so this module  *)
(* has no steps of its own: its properties are about every connection the  *)
(* machine can read and every stream it can come from.                     *)
(***************************************************************************)
EXTENDS StarttlsMachine

\* The streams ConversationTracker.finalize can hand over: gaps make a stream
\* INCOMPLETE unless it is AMBIGUOUS or TRUNCATED, and nothing else does.
Streams ==
    [status : {"AMBIGUOUS", "TRUNCATED"}, gaps : BOOLEAN, implicit : BOOLEAN]
        \cup [status : {"INCOMPLETE"}, gaps : {TRUE}, implicit : BOOLEAN]
        \cup [status : {"COMPLETE", "PARTIAL"}, gaps : {FALSE}, implicit : BOOLEAN]

Payload == {log[i].kind : i \in {j \in 1 .. Len(log) : log[j].from = "client"}}

Verdict(stream) == Downgrade(machine, stream, Payload)
-------------------------------------------------------------------------------
\* A downgrade is suspected only of a connection in which the client asked, the server
\* consented, no TLS record came after the consent and the client sent a command of
\* the protocol in the clear; a connection that did turn to TLS is never suspected.
SuspicionIsGrounded ==
    \A stream \in Streams : Verdict(stream) = "DOWNGRADE_SUSPECTED" =>
        /\ \E i, j \in 1 .. Len(log) :
              /\ Requests(i) /\ ConsentsTo(i, j)
              /\ \A k \in j + 1 .. Len(log) : log[k].kind # "tls"
        /\ \E i \in 1 .. Len(log) : log[i].from = "client" /\ log[i].kind = "plain"
===============================================================================
