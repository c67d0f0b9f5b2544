-------------------------- MODULE ProtocolClassifier --------------------------
(***************************************************************************)
(* services/protocol_classifier.py: which mail protocol a reconstructed    *)
(* stream carries, from its ports and from the lines of its blocks.        *)
(* A line is a record [protocol, says]: the protocol it belongs to and     *)
(* what it is there.  A block is the sequence of its lines: the patterns   *)
(* ask whether one of them, or two that follow each other, are in it.      *)
(***************************************************************************)
EXTENDS Integers, FiniteSets, SequencesExt

Mail == {"SMTP", "IMAP", "POP3"}

\* Ports: a number that is a mail protocol's, with or without TLS, or another one.
PortProtocol(port)  == IF port.protocol \in Mail THEN port.protocol ELSE "none"
IsImplicitTls(port) == port.protocol \in Mail /\ port.tls

\* What the banner patterns find in a line of the server: a greeting with the wording of
\* mail, which a generic one ("ready") has not.
IsBanner(p, line) == line = [protocol |-> p, says |-> "greeting"]

\* What the command patterns find in a line of the client.  To IMAP's, "a1 LOGIN" and the
\* like, a tag is any word that begins a line: SMTP's AUTH LOGIN has one, and any text may
\* ("please check").
IsCommand(p, line) ==
    LET from(protocol, commands) == line.protocol = protocol /\ line.says \in commands
    IN  CASE p = "SMTP" -> from("SMTP", {"hello", "starttls", "auth", "login"})
          [] p = "IMAP" -> \/ from("IMAP", {"hello", "starttls", "auth"})
                           \/ from("SMTP", {"login"}) \/ line.says = "text"
          [] p = "POP3" -> \/ from("POP3", {"hello", "starttls", "auth", "stat", "list"})
                           \/ from("FTP", {"auth", "stat", "list"})

\* The blank behind IMAP's tag may be the end of a line: then a line of one word is the
\* tag of a command that is the next line ("PASV", "LIST").
IsWord(line) ==
    \/ line.protocol = "POP3" /\ line.says \in {"hello", "starttls", "stat", "list"}
    \/ line.protocol = "FTP" /\ line.says \in {"pasv", "stat", "list"}
    \/ line = [protocol |-> "SMTP", says |-> "starttls"]

BeginsWithVerb(line) ==
    \/ line.protocol \in {"POP3", "FTP"} /\ line.says = "list"
    \/ line = [protocol |-> "SMTP", says |-> "starttls"]

HasCommand(p, block) ==
    \/ \E i \in DOMAIN block : IsCommand(p, block[i])
    \/ /\ p = "IMAP"
       /\ \E i \in 1 .. Len(block) - 1 : IsWord(block[i]) /\ BeginsWithVerb(block[i + 1])

\* Commands of POP3 that FTP does not have; the others count in the context of POP3.
IsUnique(line) == line.protocol = "POP3" /\ line.says \in {"hello", "starttls"}

\* The server's port is looked at first.
Port(stream) ==
    IF PortProtocol(stream.serverPort) # "none" THEN stream.serverPort ELSE stream.clientPort

\* One match for a block, however many of its lines match.
Banners(p, stream) ==
    Cardinality({i \in DOMAIN stream.server :
        \E n \in DOMAIN stream.server[i] : IsBanner(p, stream.server[i][n])})


InContext(p, stream, block) ==
    \/ p # "POP3"
    \/ PortProtocol(Port(stream)) = "POP3"
    \/ Banners("POP3", stream) > 0
    \/ \E n \in DOMAIN block : IsUnique(block[n])

Commands(p, stream) ==
    Cardinality({i \in DOMAIN stream.client :
        HasCommand(p, stream.client[i]) /\ InContext(p, stream, stream.client[i])})

Score(p, stream) ==
    (IF PortProtocol(Port(stream)) = p THEN 1 ELSE 0)
      + 4 * (Banners(p, stream) + Commands(p, stream))

\* A port decides; without one, the protocol with the highest score, if there is one.
Resolved(stream) ==
    LET best == {p \in Mail : /\ Score(p, stream) > 0
                              /\ \A q \in Mail : Score(q, stream) <= Score(p, stream)}
    IN  IF PortProtocol(Port(stream)) # "none" THEN PortProtocol(Port(stream))
        ELSE IF Cardinality(best) = 1 THEN CHOOSE p \in best : TRUE
        ELSE "UNKNOWN"

\* Evidence of any of the protocols.
HasApplicationEvidence(stream) ==
    \E p \in Mail : Banners(p, stream) + Commands(p, stream) > 0

ConfidenceOf(stream) ==
    IF stream.status = "AMBIGUOUS" \/ ~HasApplicationEvidence(stream) THEN "LOW"
    ELSE IF PortProtocol(Port(stream)) = "none" \/ stream.gaps THEN "MEDIUM"
    ELSE "HIGH"

Classification(stream) ==
    LET p == Resolved(stream)
    IN  [protocol |-> p,
         confidence |-> IF p = "UNKNOWN" THEN "UNKNOWN" ELSE ConfidenceOf(stream),
         implicit |-> IsImplicitTls(Port(stream))]
===============================================================================
