--------------------------- MODULE CertificateChecks ---------------------------
(***************************************************************************)
(* What is found out about the certificates of a handshake:                *)
(* services/certificate_security_auditor.py, identity_analyzer.py and      *)
(* trust_revocation_service.py.                                            *)
(* A chain is the sequence of the certificates as the server sent them.  A *)
(* signature is the key it was made with, names are sequences of labels,   *)
(* and times are numbers.                                                  *)
(***************************************************************************)
EXTENDS Integers, Sequences, FiniteSets

CONSTANT Anchors  \* certificates of the local trust store

\* What cannot be decoded.
Garbled == [subject |-> "?", issuer |-> "?", key |-> "?", signature |-> "?", from |-> 0,
            until |-> 0, algorithm |-> "?", bits |-> 0, digest |-> "none", ca |-> FALSE,
            names |-> <<>>]

Known(condition) == IF condition THEN "TRUE" ELSE "FALSE"

\* TriStates; nothing is known of a certificate that cannot be decoded.
Expired(cert, now) == IF cert = Garbled THEN "UNKNOWN" ELSE Known(now > cert.until)
NotYetValid(cert, now) == IF cert = Garbled THEN "UNKNOWN" ELSE Known(now < cert.from)
SelfSigned(cert) ==
    IF cert = Garbled THEN "UNKNOWN" ELSE Known(cert.subject = cert.issuer)

Audit(cert, now) ==
    [is_expired |-> Expired(cert, now), is_not_yet_valid |-> NotYetValid(cert, now),
     is_self_signed |-> SelfSigned(cert)]
-------------------------------------------------------------------------------
\* Trust: the chain must be signed in the order it was sent, by authorities, and end in
\* an anchor or below one.  Only the leaf's dates are looked at.

VerifySignature(child, parent) == child.signature = parent.key

\* Mutant: who signed the last certificate is not asked.
MutantEndsAtAnchor(cert) ==
    cert \in Anchors \/ \E anchor \in Anchors : anchor.subject = cert.issuer

EndsAtAnchor(cert) ==
    \/ cert \in Anchors
    \/ \E anchor \in Anchors : anchor.subject = cert.issuer /\ VerifySignature(cert, anchor)

ValidateChainPath(chain, now) ==
    IF Anchors = {} \/ chain = <<>> THEN "UNAVAILABLE_FROM_PCAP"
    ELSE IF /\ \A i \in DOMAIN chain : chain[i] # Garbled
            /\ now \in chain[1].from .. chain[1].until
            /\ \A i \in 2 .. Len(chain) : VerifySignature(chain[i - 1], chain[i]) /\ chain[i].ca
            /\ EndsAtAnchor(chain[Len(chain)])
    THEN "VALIDATED_LOCALLY"
    ELSE "NOT_VALIDATED"
-------------------------------------------------------------------------------
\* Identity.

\* A wildcard stands for exactly one label, the first of at least three.
MatchHostname(candidate, pattern) ==
    \/ candidate = pattern
    \/ /\ Len(candidate) = Len(pattern) /\ Len(pattern) >= 3
       /\ Head(pattern) = "*" /\ Tail(pattern) = Tail(candidate)

SniVsSan(sni, cert) ==
    IF sni = <<>> \/ cert.names = <<>> THEN "UNAVAILABLE"
    ELSE IF \E i \in DOMAIN cert.names : MatchHostname(sni, cert.names[i]) THEN "MATCH"
    ELSE "MISMATCH"
===============================================================================
