---------------------------- MODULE MCSessionReport ----------------------------
(***************************************************************************)
(* Mail connections of every protocol, kind of port and course of          *)
(* STARTTLS, with certificates that break each rule, and two connections   *)
(* that carry no mail.  What a connection breaks is what the rules of the  *)
(* repository say of it (rules/, docs/security-rules.md), whatever the     *)
(* code finds.                                                             *)
(***************************************************************************)
EXTENDS SessionReport

Certificate(subject, issuer, signature, from, until, algorithm, bits, digest, names) ==
    [subject |-> subject, issuer |-> issuer, key |-> subject, signature |-> signature,
     from |-> from, until |-> until, algorithm |-> algorithm, bits |-> bits, digest |-> digest,
     ca |-> FALSE, names |-> names]

Authority == [Certificate("issuer", "root", "root", 0, 9, "RSA", 4096, "sha256", <<>>)
                 EXCEPT !.ca = TRUE]
Root == [Certificate("root", "root", "root", 0, 9, "RSA", 4096, "sha256", <<>>)
            EXCEPT !.ca = TRUE]

MCAnchors == {Root}
MCNow == 5

Sni == <<"mail", "x", "org">>
Wildcard == <<<<"*", "x", "org">>>>
Good     == Certificate("leaf", "issuer", "issuer", 0, 9, "RSA", 2048, "sha256", Wildcard)
Expiring == Certificate("own", "own", "own", 0, 4, "RSA", 1024, "sha1", <<<<"*", "org">>>>)
Early    == Certificate("leaf", "issuer", "issuer", 6, 9, "EC", 256, "sha256", <<Sni>>)
\* Signed with SHA-1.
Outdated == [Authority EXCEPT !.digest = "sha1"]
\* Signed by a key that is not the root's, under its name.
Forged   == Certificate("leaf", "root", "other", 0, 9, "RSA", 2048, "sha256", Wildcard)

Server(says) == [from |-> "server", says |-> says]
Client(says) == [from |-> "client", says |-> says]

OnPort(protocol, implicit, speaks) == [protocol |-> protocol, tls |-> implicit, speaks |-> speaks]

Opening(list) == <<Server("greeting"), Client("hello"), Server(list)>>
Login == <<Client("auth"), Server("done")>>
Asks(answer) == <<Client("starttls"), Server(answer)>>
Shakes == <<Client("client_hello"), Server("server_hello"), Server("certificate"), Client("data")>>
Shakes13 == <<Client("client_hello"), Server("server_hello"), Client("data")>>
Retries == <<Client("client_hello"), Server("retry")>>

Clear(port, script, breaks) ==
    [port |-> port, script |-> script, version |-> None, cipher |-> None, group |-> None,
     sni |-> <<>>, chain |-> <<>>, breaks |-> breaks]

Secure(port, script, version, cipher, group, chain, breaks) ==
    [port |-> port, script |-> script, version |-> version, cipher |-> cipher, group |-> group,
     sni |-> Sni, chain |-> chain, breaks |-> breaks]

Exposed == {"RULE-PLAINTEXT-001"}
Stripped == {"RULE-PLAINTEXT-001", "RULE-STARTTLS-002"}

MCConnections ==
    {\* In the clear, STARTTLS never offered, passed over, refused or given up.
     Clear(OnPort("SMTP", FALSE, "SMTP"), Opening("done") \o Login, Exposed),
     Clear(OnPort("SMTP", FALSE, "SMTP"), Opening("capability") \o Login, Stripped),
     Clear(OnPort("SMTP", FALSE, "SMTP"), Opening("capability") \o Asks("refusal") \o Login,
           Stripped),
     Clear(OnPort("IMAP", FALSE, "IMAP"), Opening("capability") \o Asks("consent") \o Login,
           Stripped),
     \* On ports of no protocol, with lines that look like IMAP's, the last one without a
     \* greeting that tells its protocol; and no mail at all.
     Clear(OnPort("none", FALSE, "POP3"),
           <<Server("greeting"), Client("stat"), Server("done"), Client("list"), Server("done")>>
             \o Login,
           Exposed),
     Clear(OnPort("none", FALSE, "SMTP"),
           <<Server("greeting"), Client("hello"), Server("done"), Client("text"), Client("text")>>,
           Exposed),
     Clear(OnPort("none", FALSE, "SMTP"),
           <<Server("ready"), Client("hello"), Server("done"), Client("login"), Server("done")>>,
           Exposed),
     Clear(OnPort("none", FALSE, "FTP"),
           <<Server("greeting")>> \o Login \o <<Client("pasv"), Server("done"), Client("list")>>, {}),
     Clear(OnPort("none", FALSE, "HTTP"), <<Client("text"), Server("done")>>, {}),
     \* Turned to TLS.
     Secure(OnPort("SMTP", FALSE, "SMTP"), Opening("capability") \o Asks("consent") \o Shakes,
            "TLS_1_2", "0xC02F", None, <<Good, Authority>>, {}),
     Secure(OnPort("IMAP", FALSE, "IMAP"), Opening("capability") \o Asks("consent") \o Shakes,
            "TLS_1_0", "0x002F", None, <<Expiring>>,
            {"RULE-TLS-002", "RULE-KEX-001", "RULE-CERT-001", "RULE-CERT-003",
             "RULE-CERT-004", "RULE-PKI-001", "RULE-IDENTITY-001", "RULE-TRUST-001"}),
     Secure(OnPort("POP3", FALSE, "POP3"), Opening("capability") \o Asks("consent") \o Shakes,
            "TLS_1_2", "0x0035", None, <<Early, Authority>>,
            {"RULE-CIPHER-004", "RULE-KEX-001", "RULE-CERT-002", "RULE-TRUST-001"}),
     \* TLS from the start: with an approved suite, a certificate that cannot be read, and
     \* a weak intermediate; and with a suite that hides its exchange.
     Secure(OnPort("IMAP", TRUE, "IMAP"), Shakes, "TLS_1_2", "0xC02C", None, <<Forged>>,
            {"RULE-TRUST-001"}),
     Secure(OnPort("POP3", TRUE, "POP3"), Shakes, "TLS_1_2", "0xC030", None, <<Garbled>>,
            {"RULE-TRUST-001"}),
     Secure(OnPort("SMTP", TRUE, "SMTP"), Shakes, "TLS_1_2", "0xC02B", None, <<Good, Outdated>>,
            {"RULE-CERT-004"}),
     Secure(OnPort("SMTP", TRUE, "SMTP"), Shakes13, "TLS_1_3", "0x1301", None, <<>>, {}),
     \* A server that asks for another hello.
     Secure(OnPort("SMTP", FALSE, "SMTP"),
            Opening("capability") \o Asks("consent") \o Retries \o Shakes13,
            "TLS_1_3", "0x1301", "x25519", <<>>, {})}
===============================================================================
