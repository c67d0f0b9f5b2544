----------------------------- MODULE StarttlsReading ---------------------------
(***************************************************************************)
(* What services/starttls_machine.py and starttls_downgrade.py make of the *)
(* events of one stream, as operators: the automaton that reads them one   *)
(* line or TLS record at a time, the order it is given them in, the        *)
(* assessment it ends with and the verdict on a downgrade.  The three      *)
(* evaluate functions differ in which lines they recognise; the tables     *)
(* below hold the differences.                                             *)
(***************************************************************************)
EXTENDS Integers, FiniteSets, SequencesExt

CONSTANT NoTag  \* lines without a tag, and active_tag = None

\* What a line is to the patterns: "other" stands for lines no pattern of the machine
\* knows; "plain" for those RE_PLAINTEXT_POST_TLS_COMMANDS of the downgrade service does.
ServerKinds == {"greeting", "capability", "ok", "reject", "other", "tls"}
ClientKinds == {"hello", "starttls", "plain", "other", "tls"}
-------------------------------------------------------------------------------
\* The patterns.  SMTP's 220 and POP3's +OK are a greeting or a consent by their
\* place in the dialogue only; IMAP's untagged and tagged OK are told apart.

IsGreeting(p, ev) ==
    /\ ev.from = "server"
    /\ ev.kind = "greeting" \/ (ev.kind = "ok" /\ p # "IMAP")

IsCapability(p, ev) == ev.from = "server" /\ ev.kind = "capability" /\ p # "POP3"

\* An answer to the STARTTLS command that is outstanding.
Answers(p, m, ev) == ev.from = "server" /\ (p = "IMAP" => ev.tag = m.tag)

IsReject(p, m, ev) == Answers(p, m, ev) /\ ev.kind = "reject"

IsOk(p, m, ev) ==
    /\ Answers(p, m, ev)
    /\ ev.kind = "ok" \/ (ev.kind = "greeting" /\ p # "IMAP")

IsRequest(ev) == ev.from = "client" /\ ev.kind = "starttls"
-------------------------------------------------------------------------------
Start == [state |-> "CONNECTED", flags |-> {}, tag |-> NoTag]

BeforeRequest == {"CONNECTED", "GREETING_SEEN", "CAPABILITY_ADVERTISED"}

\* When a line counts: by its pattern and by the state of the loop.
Greets(p, m, ev) == m.state = "CONNECTED" /\ IsGreeting(p, ev)

Advertises(p, m, ev) ==
    m.state \in {"CONNECTED", "GREETING_SEEN"} /\ IsCapability(p, ev)

\* Mutant: a client may not ask before the server has spoken.
MutantAsks(m, ev) == m.state \in BeforeRequest \ {"CONNECTED"} /\ IsRequest(ev)
Asks(m, ev) == m.state \in BeforeRequest /\ IsRequest(ev)

Refuses(p, m, ev) == m.state = "STARTTLS_REQUESTED" /\ IsReject(p, m, ev)

\* Mutant: a refusal can be taken back.
MutantConsents(p, m, ev) ==
    m.state \in {"STARTTLS_REQUESTED", "SERVER_REJECTED"} /\ IsOk(p, m, ev)
Consents(p, m, ev) == m.state = "STARTTLS_REQUESTED" /\ IsOk(p, m, ev)

\* Mutant: a record counts before the server's answer.
MutantHandshakes(m, ev) ==
    m.state \in {"STARTTLS_REQUESTED", "SERVER_ACCEPTED"} /\ ev.kind = "tls"
Handshakes(m, ev) == m.state = "SERVER_ACCEPTED" /\ ev.kind = "tls"

Move(m, to, flags) == [m EXCEPT !.state = to, !.flags = @ \cup flags]

\* What the loop does with one event: lines that do not fit the state are passed
\* over, and after a success (tls_detected) nothing is read any more.
Step(p, m, ev) ==
    CASE Greets(p, m, ev)     -> Move(m, "GREETING_SEEN", {})
      [] Advertises(p, m, ev) -> Move(m, "CAPABILITY_ADVERTISED", {"capa_advertised"})
      [] Asks(m, ev)          -> [Move(m, "STARTTLS_REQUESTED", {"requested"})
                                     EXCEPT !.tag = ev.tag]
      [] Refuses(p, m, ev)    -> Move(m, "SERVER_REJECTED", {"rejected"})
      [] Consents(p, m, ev)   -> Move(m, "SERVER_ACCEPTED", {"accepted"})
      [] Handshakes(m, ev)    -> Move(m, "SUCCEEDED", {"tls_detected"})
      [] OTHER                -> m

\* The assessment of _finalize_assessment; the stream counts by its status and by
\* whether it has unresolved gaps.
Confidence(stream) ==
    IF stream.status = "AMBIGUOUS" THEN "LOW" ELSE IF stream.gaps THEN "MEDIUM" ELSE "HIGH"

Assessment(m, stream) ==
    LET is(flag) == flag \in m.flags
        found(state, confidence) == [state |-> state, confidence |-> confidence]
    IN  CASE m.state = "SUCCEEDED" -> found("SUCCEEDED", Confidence(stream))
          [] is("rejected") -> found("FAILED", Confidence(stream))
          [] is("accepted") /\ ~is("tls_detected") ->
                found("SERVER_ACCEPTED", IF stream.gaps THEN "LOW" ELSE "MEDIUM")
          [] is("requested") /\ ~is("accepted") /\ ~is("rejected") ->
                found(IF stream.status = "COMPLETE" THEN "FAILED" ELSE "STARTTLS_REQUESTED",
                      Confidence(stream))
          [] is("capa_advertised") /\ ~is("requested") ->
                found("CAPABILITY_ADVERTISED", Confidence(stream))
          [] OTHER -> found(IF stream.gaps THEN "UNKNOWN" ELSE "GREETING_SEEN", "LOW")
-------------------------------------------------------------------------------
\* evaluate_stream: a port of implicit TLS is not read.
Evaluate(m, stream) ==
    IF stream.implicit THEN [state |-> "NOT_APPLICABLE", confidence |-> "HIGH"]
    ELSE Assessment(m, stream)

\* Mutant: the acceptance is not looked for.
MutantHasPlaintext(m, payload) == "tls_detected" \notin m.flags /\ "plain" \in payload

\* Any plaintext command in the client's payload, wherever it stands.
HasPlaintextPostAcceptance(m, payload) ==
    "accepted" \in m.flags /\ "tls_detected" \notin m.flags /\ "plain" \in payload

Interrupted(stream) == stream.gaps \/ stream.status \in {"INCOMPLETE", "AMBIGUOUS"}

\* Assessments that are trusted although the stream was interrupted.
Trusted == {"SUCCEEDED", "SERVER_REJECTED", "CAPABILITY_ADVERTISED", "SERVER_ACCEPTED"}

\* evaluate_downgrade; payload is the set of kinds of line in client_payload.
Downgrade(m, stream, payload) ==
    LET at == Evaluate(m, stream).state
    IN  IF stream.implicit THEN "NOT_APPLICABLE"
        ELSE IF Interrupted(stream) /\ at \notin Trusted THEN "INCOMPLETE"
        ELSE CASE at = "SUCCEEDED" -> "BENIGN"
               [] HasPlaintextPostAcceptance(m, payload) -> "DOWNGRADE_SUSPECTED"
               [] at = "SERVER_ACCEPTED" /\ "plain" \notin payload -> "INCOMPLETE"
               [] at = "FAILED" -> "NEGOTIATION_REJECTED"
               [] at = "CAPABILITY_ADVERTISED" -> "PLAINTEXT_FALLBACK_OBSERVED"
               [] at \in {"UNKNOWN", "GREETING_SEEN", "STARTTLS_REQUESTED"} -> "UNKNOWN"
-------------------------------------------------------------------------------
\* The order of the events.  lines are those of a stream, each direction's in the order
\* of its bytes, with the frame of each and whether it is behind a gap; whole, whether
\* the SYN and the SYN-ACK are in the capture, frames 1 and 2.  All that a direction
\* delivered before its first gap is one block, which has the frame of its first segment.

\* Mutant: the server's block comes first.
MutantFirstFrame(lines, whole, dir) == IF dir = "client" THEN 2 ELSE 1

FirstFrame(lines, whole, dir) ==
    IF whole THEN (IF dir = "client" THEN 1 ELSE 2)
    ELSE LET i == CHOOSE i \in 1 .. Len(lines) :
                     lines[i].from = dir /\ \A h \in 1 .. i - 1 : lines[h].from # dir
         IN  lines[i].frame

\* The frame number the machine sees of an event.
BlockFrame(lines, whole, ev) ==
    IF ev.afterGap THEN ev.frame ELSE FirstFrame(lines, whole, ev.from)

\* turn_rank: the place of an event in a usual dialogue.
TurnRank(p, lines, i) ==
    LET ev == lines[i]
        first == IsGreeting(p, ev) /\ \A h \in 1 .. i - 1 : ~IsGreeting(p, lines[h])
    IN  CASE ev.kind = "tls" -> 60
          [] ev.from = "server" /\ first -> 10
          [] ev.kind = "capability" -> 30
          [] ev.kind \in {"ok", "reject", "greeting"} /\ ~first -> 50
          [] ev.from = "server" /\ ev.kind = "other" -> 35
          [] ev.kind = "hello" -> 20
          [] ev.kind = "starttls" -> 40
          [] ev.from = "client" /\ ev.kind \in {"plain", "other"} -> 25

\* By frame, rank, server first, sequence number (within a direction, the position).
\* Frames order like timestamps; two blocks never share one, so that the order
\* without frames is needed for a single block only, and is this one.
SortKey(p, lines, whole, i) ==
    <<BlockFrame(lines, whole, lines[i]), TurnRank(p, lines, i),
      IF lines[i].from = "server" THEN 0 ELSE 1, i>>

Precedes(key, other) ==
    \E n \in 1 .. 4 : key[n] < other[n] /\ \A h \in 1 .. n - 1 : key[h] = other[h]

Sorted(p, lines, whole) ==
    LET key == [i \in 1 .. Len(lines) |-> SortKey(p, lines, whole, i)]
        earlier(i) == {j \in 1 .. Len(lines) : Precedes(key[j], key[i])}
    IN  [n \in 1 .. Len(lines) |->
            CHOOSE i \in 1 .. Len(lines) : Cardinality(earlier(i)) = n - 1]

Assessed(p, lines, whole) ==
    FoldLeft(LAMBDA m, i : Step(p, m, lines[i]), Start, Sorted(p, lines, whole))

\* The kinds of line in client_payload, or in the fragments if that is empty.
ClientPayload(lines) ==
    LET of(afterGap) == {lines[i].kind : i \in {j \in 1 .. Len(lines) :
                            lines[j].from = "client" /\ lines[j].afterGap = afterGap}}
    IN  IF of(FALSE) # {} THEN of(FALSE) ELSE of(TRUE)
===============================================================================
