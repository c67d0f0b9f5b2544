------------------------------ MODULE Compliance ------------------------------
(***************************************************************************)
(* services/compliance_engine.py, vulnerability_mapping.py and             *)
(* threat_mapping.py with the catalogs of rules/: the findings of a stream,*)
(* and the weaknesses and threats they are mapped to.                      *)
(* Evidence that a stream does not give is None; every finding has a       *)
(* property and a value.                                                   *)
(***************************************************************************)
EXTENDS KeyExchange, CertificateChecks, FiniteSetsExt

Finding(rule, status, property, value) ==
    [rule |-> rule, status |-> status, property |-> property, value |-> value]

Compliant(rule, property, value)    == {Finding(rule, "COMPLIANT", property, value)}
NonCompliant(rule, property, value) == {Finding(rule, "NON_COMPLIANT", property, value)}
Unknown(rule, property, value)      == {Finding(rule, "UNKNOWN", property, value)}
-------------------------------------------------------------------------------
\* A suite's number stands for its name, if the parser knows it.

NamedSuites ==
    {"0x1301", "0x1302", "0x1303", "0xC02B", "0xC02F", "0xC030", "0x009E", "0x002F"}
SuiteName(id) == IF id \in NamedSuites THEN id ELSE "UNKNOWN_CIPHER_SUITE"

\* What the names of suites contain (external: the registry of IANA).
Algorithms(name) ==
    CASE name = "0x0002" -> {"NULL"}
      [] name = "0x0005" -> {"RC4"}
      [] name = "0x000A" -> {"3DES", "CBC"}
      [] name \in {"0x002F", "0x0035", "0xC013", "0xC014"} -> {"CBC"}
      [] OTHER -> {}

ApprovedCiphers ==
    {"0x1301", "0x1302", "0x1303", "0xC02B", "0xC02C", "0xC02F", "0xC030", "0xCCA8",
     "0xCCA9", "0x009E", "0x009F"}

EvalTlsVersion(version) ==
    CASE version \in {"SSL_2_0", "SSL_3_0"} ->
            NonCompliant("RULE-TLS-001", "tls.version", version)
      [] version \in {"TLS_1_0", "TLS_1_1"} ->
            NonCompliant("RULE-TLS-002", "tls.version", version)
      [] version = "TLS_1_2" -> Compliant("RULE-TLS-003", "tls.version", version)
      [] version = "TLS_1_3" -> Compliant("RULE-TLS-004", "tls.version", version)
      [] OTHER -> Unknown("RULE-TLS-002", "tls.version", version)

\* The rules are tried in the order of what they prohibit.
Prohibited == <<"NULL", "RC4", "3DES", "CBC">>
Prohibitions == <<"RULE-CIPHER-001", "RULE-CIPHER-002", "RULE-CIPHER-003", "RULE-CIPHER-004">>
HitsOf(name) == {i \in 1 .. 4 : Prohibited[i] \in Algorithms(name)}

EvalCipherSuite(name) ==
    CASE name = None -> {}
      [] HitsOf(name) # {} ->
            NonCompliant(Prohibitions[Min(HitsOf(name))], "tls.cipher_suite", name)
      [] name \in ApprovedCiphers -> Compliant("RULE-CIPHER-APPROVED", "tls.cipher_suite", name)
      [] OTHER -> NonCompliant("RULE-CIPHER-UNKNOWN", "tls.cipher_suite", name)

\* The size of a Diffie-Hellman group, RULE-KEX-002, is never given.
EvalKeyExchange(exchange) ==
    CASE exchange = None -> Unknown("RULE-KEX-001", "kex.parameters", "UNAVAILABLE")
      [] ForwardSecrecy(exchange) = "FALSE" ->
            NonCompliant("RULE-KEX-001", "kex.has_forward_secrecy", "FALSE")
      [] ForwardSecrecy(exchange) = "TRUE" ->
            Compliant("RULE-KEX-001", "kex.has_forward_secrecy", "TRUE")
      [] OTHER -> {}

EvalValidity(audit) ==
    CASE audit.is_expired = "TRUE" -> NonCompliant("RULE-CERT-001", "cert.not_after", "EXPIRED")
      [] audit.is_expired # "TRUE" /\ audit.is_not_yet_valid = "TRUE" ->
            NonCompliant("RULE-CERT-002", "cert.not_before", "NOT_YET_VALID")
      [] audit.is_expired = "FALSE" /\ audit.is_not_yet_valid = "FALSE" ->
            Compliant("RULE-CERT-001", "cert.validity", "ACTIVE")
      [] OTHER -> Unknown("RULE-CERT-001", "cert.validity", "UNAVAILABLE")

\* The leaf; a garbled one gives no key, and no digest, which is no fault.
EvalCertificate(chain, now) ==
    IF chain = <<>> THEN Unknown("RULE-CERT-001", "cert.presence", "UNAVAILABLE")
    ELSE LET leaf == chain[1]
             audit == Audit(leaf, now)
         IN  EvalValidity(audit)
               \cup (IF leaf.algorithm # "RSA" THEN {}
                     ELSE IF leaf.bits < 2048
                     THEN NonCompliant("RULE-CERT-003", "cert.public_key_bits", "WEAK_KEY")
                     ELSE Compliant("RULE-CERT-003", "cert.public_key_bits", "STRONG_KEY"))
               \cup (IF leaf.digest \in {"md2", "md5", "sha1"}
                     THEN NonCompliant("RULE-CERT-004", "cert.signature_algorithm", leaf.digest)
                     ELSE Compliant("RULE-CERT-004", "cert.signature_algorithm", leaf.digest))
               \cup (CASE audit.is_self_signed = "TRUE" ->
                             NonCompliant("RULE-PKI-001", "cert.is_self_signed", "TRUE")
                       [] audit.is_self_signed = "FALSE" ->
                             Compliant("RULE-PKI-001", "cert.is_self_signed", "FALSE")
                       [] OTHER -> {})

EvalIdentity(relation) ==
    CASE relation = "MATCH" -> Compliant("RULE-IDENTITY-001", "identity.sni_vs_san", relation)
      [] relation = "MISMATCH" ->
            NonCompliant("RULE-IDENTITY-001", "identity.sni_vs_san", relation)
      [] OTHER -> Unknown("RULE-IDENTITY-001", "identity.sni_vs_san", "UNAVAILABLE")

\* No OCSP response is ever extracted.
EvalTrustAndRevocation(trust) ==
    Unknown("RULE-REVOC-001", "ocsp.observed_status", "UNAVAILABLE")
      \cup CASE trust = "VALIDATED_LOCALLY" ->
                   Compliant("RULE-TRUST-001", "trust.validation_status", trust)
             [] trust = "NOT_VALIDATED" ->
                   NonCompliant("RULE-TRUST-001", "trust.validation_status", trust)
             [] OTHER -> Unknown("RULE-TRUST-001", "trust.validation_status", "UNAVAILABLE")
-------------------------------------------------------------------------------
\* The mail protocol's own rules; flow is what was seen of STARTTLS and of plaintext.

OpenStates ==
    {"CAPABILITY_ADVERTISED", "STARTTLS_REQUESTED", "SERVER_ACCEPTED", "FAILED",
     "DOWNGRADE_SUSPECTED"}

StaysPlain(flow) ==
    flow.plaintext_observed /\ ~flow.tls_transition_detected /\ ~flow.tls_handshake_observed

EvalStarttls(flow) ==
    CASE flow.starttls_state \in OpenStates /\ StaysPlain(flow) ->
            NonCompliant("RULE-STARTTLS-002", "starttls.state", "PLAINTEXT_CONTINUATION")
      [] flow.starttls_state = "SUCCEEDED" ->
            Compliant("RULE-STARTTLS-002", "starttls.state", "SUCCEEDED")
      [] flow.starttls_state = "NOT_APPLICABLE" ->
            {Finding("RULE-STARTTLS-002", "NOT_APPLICABLE", "starttls.state", "NOT_APPLICABLE")}
      [] OTHER -> {}


EvalPlaintextTransport(flow) ==
    IF StaysPlain(flow) /\ flow.starttls_state # "SUCCEEDED"
    THEN NonCompliant("RULE-PLAINTEXT-001", "transport.security", "PLAINTEXT") ELSE {}

\* evaluate_session.  The rules of TLS ask for a handshake that was observed.
EvaluateSession(evidence, now) ==
    (IF evidence.flow.tls_handshake_observed
     THEN EvalTlsVersion(evidence.version)
            \cup EvalCipherSuite(evidence.cipher)
            \cup EvalKeyExchange(evidence.exchange)
            \cup EvalCertificate(evidence.chain, now)
            \cup EvalIdentity(evidence.identity)
            \cup EvalTrustAndRevocation(evidence.trust)
     ELSE {})
      \cup EvalStarttls(evidence.flow) \cup EvalPlaintextTransport(evidence.flow)

\* Of a set of findings: what is broken.
Broken(findings) == {f.rule : f \in {g \in findings : g.status = "NON_COMPLIANT"}}
-------------------------------------------------------------------------------
\* Weaknesses.  A catalog entry asks for a property and a pattern in the value; the
\* patterns that compare a length or a digest hold of every value of their rule.

Pattern(rule) ==
    CASE rule = "RULE-TLS-001"      -> <<"tls.version", {"SSL_2_0", "SSL_3_0"}>>
      [] rule = "RULE-TLS-002"      -> <<"tls.version", {"TLS 1.0", "TLS 1.1"}>>
      [] rule = "RULE-CIPHER-004"   -> <<"tls.cipher_suite", {"0x002F"}>>
      [] rule = "RULE-KEX-001"      -> <<"kex.has_forward_secrecy", {"FALSE"}>>
      [] rule = "RULE-CERT-001"     -> <<"cert.not_after", {"EXPIRED"}>>
      [] rule = "RULE-CERT-002"     -> <<"cert.not_before", {"NOT_YET_VALID"}>>
      [] rule = "RULE-CERT-003"     -> <<"cert.public_key_bits", {"WEAK_KEY"}>>
      [] rule = "RULE-CERT-004"     -> <<"cert.signature_algorithm", {"md2", "md5", "sha1"}>>
      [] rule = "RULE-PKI-001"      -> <<"cert.is_self_signed", {"TRUE"}>>
      [] rule = "RULE-STARTTLS-002" -> <<"starttls.state", {"PLAINTEXT_CONTINUATION"}>>
      [] rule = "RULE-IDENTITY-001" -> <<"identity.sni_vs_san", {"MISMATCH"}>>
      [] rule = "RULE-TRUST-001"    -> <<"trust.validation_status", {"NOT_VALIDATED"}>>
      [] OTHER                      -> <<"none", {}>>

MapSession(findings) ==
    {f \in findings : /\ f.status = "NON_COMPLIANT"
                      /\ f.property = Pattern(f.rule)[1] /\ f.value \in Pattern(f.rule)[2]}

\* Threats.  The catalog lists STARTTLS under another number, which is tried next.
ThreatUpstream ==
    {"RULE-TLS-001", "RULE-TLS-002", "RULE-CIPHER-001", "RULE-CIPHER-002", "RULE-CIPHER-003",
     "RULE-CIPHER-004", "RULE-KEX-001", "RULE-KEX-002", "RULE-CERT-001", "RULE-CERT-002",
     "RULE-CERT-003", "RULE-CERT-004", "RULE-PKI-001", "RULE-STARTTLS-001",
     "RULE-IDENTITY-001", "RULE-TRUST-001", "RULE-REVOC-001"}

RulesForUpstream(rule) ==
    ThreatUpstream \cap {IF rule = "RULE-STARTTLS-002" THEN "RULE-STARTTLS-001" ELSE rule}

Threats(weaknesses) ==
    UNION {{[threat |-> r, cause |-> w] : r \in RulesForUpstream(w.rule)} : w \in weaknesses}
===============================================================================
