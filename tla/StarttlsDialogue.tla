---------------------------- MODULE StarttlsDialogue --------------------------
(***************************************************************************)
(* The events that a captured connection gives StarttlsReading, on the     *)
(* stream that ConversationTracker delivers.                               *)
(* A mail client and a server talk, one message to a frame; the capture    *)
(* begins with their SYNs or later, and may lose messages.  Every message  *)
(* after a loss is a block of its own.                                     *)
(***************************************************************************)
EXTENDS StarttlsDowngrade

CONSTANT MaxLost  \* bound: messages the capture loses

\* A client of IMAP has tags.
ASSUME DialogueAssumption == MaxLost \in Nat /\ Tags # {}

VARIABLES phase,     \* how far the two ends have got
          syn,       \* the capture has the SYN and the SYN-ACK, frames 1 and 2
          holed,     \* directions with a hole behind their first block
          losses,    \* messages lost so far
          now        \* number of the next frame

dialogueVars == <<vars, phase, syn, holed, losses, now>>

Directions == {"client", "server"}
FirstMessage == 3
-------------------------------------------------------------------------------
\* The first message of a direction without a SYN is its baseline: nothing before
\* it is known to be missing.
Baseline(dir) == ~syn /\ \A i \in 1 .. Len(log) : log[i].from # dir
-------------------------------------------------------------------------------
\* The stream of ConversationTracker.finalize.  A connection captured from its SYN
\* is COMPLETE; the end of the others is not modelled.
Gap(dir) == \E i \in 1 .. Len(log) : log[i].from = dir /\ log[i].afterGap

Stream ==
    LET gaps == \E dir \in Directions : Gap(dir)
    IN  [status |-> IF gaps THEN "INCOMPLETE" ELSE IF syn THEN "COMPLETE" ELSE "PARTIAL",
         gaps |-> gaps, implicit |-> FALSE]

Machine == Assessed(protocol, log, syn)
Reported == Evaluate(Machine, Stream).state
ReportedVerdict == Downgrade(Machine, Stream, ClientPayload(log))
-------------------------------------------------------------------------------
\* Captured: the message is an event of the stream.  machine is the automaton fed in
\* wire order, to compare with.
Captured(dir, kind, tag) ==
    LET ev == [from |-> dir, kind |-> kind, tag |-> tag, frame |-> now,
               afterGap |-> dir \in holed]
    IN  /\ log' = Append(log, ev)
        /\ machine' = Step(protocol, machine, ev)
        /\ UNCHANGED <<holed, losses>>

Lost(dir) ==
    /\ losses < MaxLost
    /\ losses' = losses + 1
    /\ holed' = IF Baseline(dir) THEN holed ELSE holed \cup {dir}
    /\ UNCHANGED <<log, machine>>

Say(dir, kind, tag, to) ==
    /\ now < FirstMessage + MaxEvents
    /\ now' = now + 1
    /\ phase' = to
    /\ Captured(dir, kind, tag) \/ Lost(dir)
    /\ UNCHANGED <<protocol, syn>>

\* The request and the answers to it carry a tag in IMAP.  NoTag is also the tag of
\* any other command's answer.
RequestTag == IF protocol = "IMAP" THEN CHOOSE t \in Tags : TRUE ELSE NoTag

Greet == phase = "connected" /\ Say("server", "greeting", NoTag, "idle")

\* EHLO, CAPABILITY or CAPA, and the answer, with or without STARTTLS in it; that of
\* POP3 begins with +OK.
AskCapabilities ==
    /\ phase = "idle"
    /\ Say("client", CASE protocol = "SMTP" -> "hello"
                       [] protocol = "IMAP" -> "plain"
                       [] protocol = "POP3" -> "other", NoTag, "asked")

ListCapabilities ==
    /\ phase = "asked"
    /\ \E kind \in IF protocol = "POP3" THEN {"ok"} ELSE {"capability", "other"} :
          Say("server", kind, NoTag, "idle")

\* A command in the clear, before any STARTTLS or after a refusal, and its answer ...
SpeakPlain ==
    /\ phase \in {"idle", "refused"}
    /\ Say("client", "plain", NoTag, IF phase = "idle" THEN "busy" ELSE "refused and busy")

AnswerPlain ==
    /\ phase \in {"busy", "refused and busy"}
    /\ \E kind \in {IF protocol = "SMTP" THEN "other" ELSE "ok", "reject"} :
          Say("server", kind, NoTag, IF phase = "busy" THEN "idle" ELSE "refused")

\* ... and one in spite of the server's consent.
SpeakPlainAfterConsent ==
    phase = "consented" /\ Say("client", "plain", NoTag, "downgraded")

Request == phase = "idle" /\ Say("client", "starttls", RequestTag, "requested")
Consent == phase = "requested" /\ Say("server", "ok", RequestTag, "consented")
Refuse  == phase = "requested" /\ Say("server", "reject", RequestTag, "refused")

ClientTls == phase = "consented" /\ Say("client", "tls", NoTag, "handshake")
ServerTls == phase = "handshake" /\ Say("server", "tls", NoTag, "upgraded")

DialogueInit ==
    /\ Init
    /\ phase = "connected"
    /\ syn \in BOOLEAN
    /\ holed = {} /\ losses = 0
    /\ now = FirstMessage

DialogueNext ==
    \/ Greet \/ AskCapabilities \/ ListCapabilities
    \/ SpeakPlain \/ AnswerPlain \/ SpeakPlainAfterConsent
    \/ Request \/ Consent \/ Refuse \/ ClientTls \/ ServerTls

DialogueSpec == DialogueInit /\ [][DialogueNext]_dialogueVars
-------------------------------------------------------------------------------
\* A whole connection that turned to TLS is reported as such and as benign: no choice
\* of frame numbers for the two blocks makes the machine miss the request, the
\* consent or the record behind them.
UpgradeIsReported ==
    phase = "upgraded" /\ syn /\ losses = 0 =>
        Reported = "SUCCEEDED" /\ ReportedVerdict = "BENIGN"

\* However the blocks are ordered and whatever is lost, no client whose request was
\* captured is said to have stayed in the clear without asking.
FallbackIsReal ==
    ReportedVerdict = "PLAINTEXT_FALLBACK_OBSERVED" =>
        \A i \in 1 .. Len(log) : ~Requests(i)

\* A refused STARTTLS of a whole connection is reported FAILED
\* (tests/test_starttls_machine.py:98-104).
RefusalIsReported ==
    phase = "refused" /\ syn /\ losses = 0 => Reported = "FAILED"

\* A downgrade is suspected if "cleartext commands appeared after server acceptance"
\* (starttls_downgrade.py:237): not of a client that sent none after it.
PlaintextWasAfterConsent ==
    ReportedVerdict = "DOWNGRADE_SUSPECTED" /\ losses = 0 => phase = "downgraded"
===============================================================================
