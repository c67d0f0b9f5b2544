---------------------------- MODULE MCTlsHandshake ----------------------------
(***************************************************************************)
(* TLS 1.3 and earlier connections with the key exchanges the analyzer     *)
(* tells apart, whole and resumed handshakes, a retry, and every packing.  *)
(***************************************************************************)
EXTENDS TlsHandshake

Connection(version, cipher, group, exchange, packing, retry, resumed) ==
    [version |-> version, cipher |-> cipher, group |-> group, exchange |-> exchange,
     packing |-> packing, retry |-> retry, resumed |-> resumed,
     starttls |-> packing = "each", sni |-> "mail", chain |-> <<"leaf", "issuer">>]

MCHandshakes ==
    {Connection("TLS_1_3", "0x1301", g, x, "each", FALSE, FALSE) :
        <<g, x>> \in {<<"ffdhe2048", "DHE">>, <<None, "PSK">>}}
    \cup {Connection("TLS_1_3", "0x1301", "x25519", "ECDHE", p, r, FALSE) :
        <<p, r>> \in {<<"each", TRUE>>, <<"split", FALSE>>}}
    \cup {Connection("TLS_1_2", i, None, x, "one", FALSE, FALSE) :
        <<i, x>> \in {<<"0xC02F", "ECDHE">>, <<"0x009E", "DHE">>, <<"0xC0A0", "CCM">>}}
    \cup {Connection("TLS_1_0", "0x0035", None, "RSA", p, FALSE, m) :
        <<p, m>> \in {<<"each", TRUE>>, <<"each", FALSE>>, <<"split", FALSE>>}}
===============================================================================
