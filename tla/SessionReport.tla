----------------------------- MODULE SessionReport -----------------------------
(***************************************************************************)
(* run_pipeline_task of api/routes/analysis.py, from the reassembled       *)
(* streams of a capture to the score: classification, then for each mail   *)
(* stream STARTTLS, TLS, certificates, compliance, weaknesses and threats, *)
(* one after the other, and at last the summary and the posture of all.    *)
(* The capture may begin behind the SYNs, lose messages and see a segment  *)
(* retransmitted with other bytes.  The parts are the modules of their own *)
(* names; that a hello or a certificate message is reported exactly if the *)
(* bytes before any loss hold it is what TlsHandshake shows.               *)
(***************************************************************************)
EXTENDS ProtocolClassifier, Compliance, Posture

CONSTANTS Connections,     \* connections that may be captured
          Now,             \* the time of the capture
          MaxConnections,  \* bound: connections of a capture
          MaxFaults        \* bound: lost messages and conflicting segments of a capture

\* A connection: its ports, what the two sides say in order, the parameters of its TLS,
\* and the rules it breaks.
ASSUME ReportAssumption ==
    /\ \A c \in Connections :
          /\ DOMAIN c = {"port", "script", "version", "cipher", "group", "sni", "chain", "breaks"}
          /\ \A i \in DOMAIN c.script : c.script[i].from \in {"client", "server"}
    /\ Now \in Nat /\ MaxConnections \in Nat /\ MaxFaults \in Nat

VARIABLES streams,     \* the reassembled streams, in the order the tracker yields them
          phase,       \* of the pipeline
          classified,  \* classifications of the streams
          found,       \* findings of the streams that were analysed, in order
          threats,     \* and what they were mapped to
          primary,     \* the streams the summary is taken from, 0 for none
          report       \* the posture, when there is one

reportVars == <<streams, phase, classified, found, threats, primary, report>>

Directions == {"client", "server"}
-------------------------------------------------------------------------------
\* A reassembled stream: [conn, syn, lost, conflict].

Captured(s) == {i \in DOMAIN s.conn.script : i \notin s.lost}
From(s, dir) == {i \in Captured(s) : s.conn.script[i].from = dir}

\* A message behind a hole; without a SYN nothing is known to be missing before the
\* first one.
AfterGap(s, i) ==
    \E j \in s.lost :
        /\ j < i /\ s.conn.script[j].from = s.conn.script[i].from
        /\ s.syn \/ \E k \in From(s, s.conn.script[i].from) : k < j

\* client_payload and server_payload.
Contiguous(s, dir) == {i \in From(s, dir) : ~AfterGap(s, i)}

Gaps(s) == \E i \in Captured(s) : AfterGap(s, i)

Status(s) ==
    IF s.conflict THEN "AMBIGUOUS" ELSE IF Gaps(s) THEN "INCOMPLETE"
    ELSE IF s.syn THEN "COMPLETE" ELSE "PARTIAL"

Line(s, i) == [protocol |-> s.conn.port.speaks, says |-> s.conn.script[i].says]

InOrder(s, places) == SelectSeq([i \in DOMAIN s.conn.script |-> i], LAMBDA i : i \in places)

Blocks(s, dir) ==
    LET first == Contiguous(s, dir)
        behind == InOrder(s, From(s, dir) \ first)
        lines(places) == [n \in DOMAIN places |-> Line(s, places[n])]
    IN  (IF first = {} THEN <<>> ELSE <<lines(InOrder(s, first))>>)
          \o [n \in DOMAIN behind |-> <<Line(s, behind[n])>>]

Classify(s) ==
    Classification([serverPort |-> s.conn.port, clientPort |-> [protocol |-> "none", tls |-> FALSE],
                    server |-> Blocks(s, "server"), client |-> Blocks(s, "client"),
                    status |-> Status(s), gaps |-> Gaps(s)])
-------------------------------------------------------------------------------
\* STARTTLS: the automaton over the lines of the stream.

TlsLines == {"client_hello", "retry", "server_hello", "certificate", "data"}

\* What a line is to the patterns of protocol p.
Kind(p, line) ==
    CASE line.says \in TlsLines -> "tls"
      [] line.says \notin TlsLines /\ line.protocol # p -> "other"
      [] OTHER ->
            CASE line.says \in {"greeting", "starttls"} -> line.says
              [] line.says = "ready" -> "greeting"
              [] line.says = "hello" ->
                    IF p = "SMTP" THEN "hello" ELSE IF p = "IMAP" THEN "plain" ELSE "other"
              [] line.says = "capability" -> IF p = "POP3" THEN "ok" ELSE "capability"
              [] line.says \in {"auth", "login", "stat", "list"} -> "plain"
              [] line.says = "done" -> IF p = "SMTP" THEN "other" ELSE "ok"
              [] line.says = "consent" -> "ok"
              [] line.says = "refusal" -> "reject"
              [] line.says = "text" -> "other"

\* Frames 1 and 2 are the SYN and the SYN-ACK.
Events(s, p) ==
    LET event(i) ==
            [from |-> s.conn.script[i].from, kind |-> Kind(p, Line(s, i)),
             tag |-> IF p = "IMAP" /\ Line(s, i).says \in {"starttls", "consent", "refusal"}
                     THEN "a" ELSE "*",
             frame |-> i + 2, afterGap |-> AfterGap(s, i)]
    IN  FoldLeft(LAMBDA seen, i : Append(seen, event(i)), <<>>, InOrder(s, Captured(s)))

Reading == INSTANCE StarttlsReading WITH NoTag <- "*"

\* The parameters of STARTTLS and of plaintext that compliance is given.
Starttls(s, classification) ==
    LET p == classification.protocol
        lines == Events(s, p)
        stream == [status |-> Status(s), gaps |-> Gaps(s), implicit |-> classification.implicit]
        machine == Reading!Assessed(p, lines, s.syn)
        verdict == Reading!Downgrade(machine, stream, Reading!ClientPayload(lines))
    IN  [state |-> IF verdict = "DOWNGRADE_SUSPECTED" THEN verdict
                   ELSE Reading!Evaluate(machine, stream).state,
         transition |-> ~stream.implicit /\ "tls_detected" \in machine.flags]
-------------------------------------------------------------------------------
\* TLS of a stream.

Holds(s, dir, says) == \E i \in Contiguous(s, dir) : s.conn.script[i].says = says

ContainsTlsRecord(s, dir) == \E says \in TlsLines : Holds(s, dir, says)

HasTls(s) == \E dir \in Directions : ContainsTlsRecord(s, dir)

\* Both hellos complete; behind a HelloRetryRequest the server's is not found.
HandshakeObserved(s) ==
    /\ HasTls(s)
    /\ Holds(s, "client", "client_hello")
    /\ Holds(s, "server", "server_hello") /\ ~Holds(s, "server", "retry")

ExchangeOf(s) ==
    ExchangeType([status |-> IF HandshakeObserved(s) THEN "COMPLETE" ELSE "INCOMPLETE_CAPTURE",
                  version |-> s.conn.version, cipher |-> s.conn.cipher, group |-> s.conn.group])

Chain(s) ==
    IF HandshakeObserved(s) /\ Holds(s, "server", "certificate") THEN s.conn.chain ELSE <<>>

\* Text that only the protocol in the clear has; of POP3, only what the server says: the
\* markers of its commands begin with a blank.  Of the lines of another protocol, SMTP's
\* AUTH LOGIN has one of IMAP's.
\* Mutant: those markers alone.
MutantMarkers(p) ==
    CASE p = "SMTP" -> {"greeting", "ready", "consent", "hello", "auth", "login", "text"}
      [] p = "IMAP" -> {"greeting", "hello", "capability", "auth"}
      [] p = "POP3" -> {}

Markers(p) ==
    CASE p = "SMTP" -> {"greeting", "ready", "consent", "hello", "auth", "login", "text"}
      [] p = "IMAP" -> {"greeting", "hello", "capability", "auth"}
      [] p = "POP3" -> {"greeting", "capability", "consent", "done"}

HasMarker(p, line) ==
    \/ line.protocol = p /\ line.says \in Markers(p)
    \/ p = "IMAP" /\ line = [protocol |-> "SMTP", says |-> "login"]

PlaintextObserved(s, p) ==
    \E dir \in Directions : \E i \in Contiguous(s, dir) : HasMarker(p, Line(s, i))
-------------------------------------------------------------------------------
\* One pass of the loop over the mail streams.

Evidence(s, classification) ==
    LET starttls == Starttls(s, classification)
        chain == Chain(s)
    IN  [version |-> s.conn.version, cipher |-> SuiteName(s.conn.cipher),
         exchange |-> ExchangeOf(s), chain |-> chain,
         identity |-> IF chain = <<>> THEN None ELSE SniVsSan(s.conn.sni, chain[1]),
         trust |-> ValidateChainPath(chain, Now),
         flow |-> [starttls_state |-> starttls.state,
                   tls_transition_detected |-> starttls.transition,
                   tls_handshake_observed |-> HandshakeObserved(s),
                   plaintext_observed |-> /\ PlaintextObserved(s, classification.protocol)
                                          /\ ~HandshakeObserved(s)]]

EmailStreams == {i \in DOMAIN classified : classified[i].protocol \in Mail}

\* The stream the loop comes to next.
Following == {i \in EmailStreams : Cardinality({j \in EmailStreams : j < i}) = Len(found)}

\* The summary's streams: [stream, parameters, starttls].  The first mail stream until
\* one is found whose handshake was observed.
NoPrimary == [stream |-> 0, parameters |-> 0, starttls |-> 0]

\* Mutant: the stream is not changed with its parameters.
MutantPrefer(i, observed) ==
    IF primary.parameters = 0 /\ observed THEN [primary EXCEPT !.parameters = i]
    ELSE IF primary.starttls = 0 THEN [primary EXCEPT !.starttls = i]
    ELSE primary

Prefer(i, observed) ==
    IF primary.parameters = 0 /\ observed THEN [stream |-> i, parameters |-> i, starttls |-> i]
    ELSE IF primary.starttls = 0 THEN [primary EXCEPT !.starttls = i]
    ELSE primary
-------------------------------------------------------------------------------
Init ==
    /\ streams = <<>> /\ phase = "capturing"
    /\ classified = <<>> /\ found = <<>> /\ threats = <<>>
    /\ primary = NoPrimary
    /\ report = NotApplicable

\* Each connection, with any messages lost, but no more than a capture may lose.
Captures ==
    UNION {{[conn |-> c, syn |-> syn, lost |-> Range(lost) \ {0}, conflict |-> conflict] :
               syn \in BOOLEAN, conflict \in BOOLEAN,
               lost \in [1 .. MaxFaults -> DOMAIN c.script \cup {0}]} : c \in Connections}

FaultsOf(s) == Cardinality(s.lost) + (IF s.conflict THEN 1 ELSE 0)

\* A connection is captured, with what the capture loses of it (external).
Capture(s) ==
    /\ phase = "capturing"
    /\ Len(streams) < MaxConnections
    /\ FaultsOf(s) + MapThenSumSet(LAMBDA i : FaultsOf(streams[i]), DOMAIN streams) <= MaxFaults
    /\ Captured(s) # {}
    /\ streams' = Append(streams, s)
    /\ UNCHANGED <<phase, classified, found, threats, primary, report>>

ClassifyStreams ==
    /\ phase = "capturing" /\ streams # <<>>
    /\ classified' = [i \in DOMAIN streams |-> Classify(streams[i])]
    /\ LET mail == {i \in DOMAIN streams : classified'[i].protocol \in Mail}
       IN  /\ phase' = IF mail = {} THEN "reported" ELSE "analysing"
           /\ primary' = [primary EXCEPT !.stream = IF mail = {} THEN 0 ELSE Min(mail)]
    /\ UNCHANGED <<streams, found, threats, report>>

AnalyseStream(i) ==
    /\ phase = "analysing" /\ i \in Following
    /\ found' = Append(found, EvaluateSession(Evidence(streams[i], classified[i]), Now))
    /\ threats' = Append(threats, Threats(MapSession(found'[Len(found')])))
    /\ primary' = Prefer(i, HandshakeObserved(streams[i]))
    /\ UNCHANGED <<streams, phase, classified, report>>

Conclude ==
    /\ phase = "analysing" /\ Following = {}
    /\ report' = EvaluatePosture(found)
    /\ phase' = "reported"
    /\ UNCHANGED <<streams, classified, found, threats, primary>>

Next ==
    \/ \E s \in Captures : Capture(s)
    \/ ClassifyStreams
    \/ \E i \in DOMAIN streams : AnalyseStream(i)
    \/ Conclude

Spec == Init /\ [][Next]_reportVars
-------------------------------------------------------------------------------
\* The stream that the n-th set of findings is about, and what it is of.
StreamOf(n) ==
    streams[CHOOSE i \in EmailStreams : Cardinality({j \in EmailStreams : j < i}) = n - 1]

Upgrades(c) == \E i \in DOMAIN c.script : c.script[i].says = "server_hello"
Undisturbed(s) == s.syn /\ s.lost = {} /\ ~s.conflict

\* The greeting has the wording the banner patterns look for.
Worded(c) == \E i \in DOMAIN c.script : c.script[i].says = "greeting"

\* What a chain is: without a certificate that can be read, and with a weak digest.
Unreadable(chain) == chain = <<>> \/ Garbled \in Range(chain)
Weak(cert) == cert.digest \in {"md2", "md5", "sha1"}


\* A rule that is reported kept was kept: no loss hides the certificate, the exchange
\* or the refusal that breaks it behind a verdict in its favour, and certificates are
\* praised only where they could be read.  Digests are excepted: the code praises one
\* it could not read (docs/security-rules.md:9 says UNKNOWN), and whatever that of an
\* intermediate is (docs/security-rules.md:240 says that it counts).
PraiseIsTrue ==
    \A n \in DOMAIN found : \A f \in found[n] :
        LET c == StreamOf(n).conn
        IN  f.status = "COMPLIANT" =>
                /\ Upgrades(c)
                /\ f.rule \in c.breaks => f.rule = "RULE-CERT-004" /\ ~Weak(c.chain[1])
                /\ f.rule \in {"RULE-CERT-001", "RULE-CERT-003", "RULE-PKI-001",
                               "RULE-IDENTITY-001", "RULE-TRUST-001"} => ~Unreadable(c.chain)

\* A mail connection that was captured undisturbed, on a mail port or with a greeting that
\* tells its protocol, and never turned to TLS is charged for it, however its dialogue
\* about STARTTLS went and whatever other connections are in the capture.
PlaintextIsCharged ==
    phase = "reported" =>
        ((\E i \in DOMAIN streams :
             LET s == streams[i]
             IN  /\ Undisturbed(s) /\ ~Upgrades(s.conn)
                 /\ s.conn.port.speaks \in Mail
                 /\ s.conn.port.protocol \in Mail \/ Worded(s.conn))
          => report.posture_score <= 90 /\ Rank(report.severity) >= Rank("HIGH"))

\* The loop over the findings of all streams charges each rule that some of them breaks
\* once, and none that none does, with a severity that none of them exceeds.  Threats are
\* of broken rules only, and a broken rule has one; but rules without a weakness have
\* none, and of RULE-TLS-002, whose weakness the catalog has and the code does not find
\* (tests/test_vulnerability_mapping.py:243-255), nothing is said.
EachFaultIsChargedOnce ==
    phase = "reported" /\ report.applicable =>
        LET broken == UNION {Broken(found[n]) : n \in DOMAIN found}
            mapped == UNION {{t.cause.rule : t \in threats[n]} : n \in DOMAIN threats}
        IN  /\ report.posture_score = 100 - MapThenSumSet(Penalty, broken)
            /\ \A rule \in broken : Rank(SeverityOf(rule)) <= Rank(report.severity)
            /\ mapped \subseteq broken
            /\ broken \ {"RULE-PLAINTEXT-001", "RULE-CIPHER-UNKNOWN", "RULE-TLS-002"}
                  \subseteq mapped


\* The summary is of one connection: parameters, certificate and STARTTLS state of the
\* first stream whose handshake was observed, or the first mail stream's STARTTLS state.
SummaryIsOfOneConnection ==
    phase = "reported" /\ EmailStreams # {} =>
        LET observed == {i \in EmailStreams : HandshakeObserved(streams[i])}
        IN  primary = IF observed = {}
                      THEN [stream |-> Min(EmailStreams), parameters |-> 0,
                            starttls |-> Min(EmailStreams)]
                      ELSE [stream |-> Min(observed), parameters |-> Min(observed),
                            starttls |-> Min(observed)]
===============================================================================
