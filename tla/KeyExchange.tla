------------------------------ MODULE KeyExchange ------------------------------
(***************************************************************************)
(* services/key_exchange_analyzer.py: a map of suites for TLS 1.2 and      *)
(* before, the group of the key share for TLS 1.3.                         *)
(***************************************************************************)

None == "none"  \* a field that is not there

FiniteFieldGroups == {"ffdhe2048", "ffdhe3072", "ffdhe4096"}

CipherSuiteKex(id) ==
    CASE id \in {"0xC02B", "0xC02C", "0xC02F", "0xC030", "0xCCA8", "0xCCA9", "0xC013",
                 "0xC014"} -> "ECDHE"
      [] id \in {"0x009E", "0x009F", "0x0033"} -> "DHE"
      [] id \in {"0x002F", "0x0035", "0x009C", "0x009D", "0x000A"} -> "RSA"
      [] OTHER -> "UNKNOWN"

\* Mutant: a server without a key share.
MutantAnalyzeTls13(hello) ==
    IF hello.group \in FiniteFieldGroups THEN "DHE" ELSE "ECDHE"

AnalyzeTls13(hello) ==
    IF hello.group = None THEN "UNKNOWN"
    ELSE IF hello.group \in FiniteFieldGroups THEN "DHE" ELSE "ECDHE"

ExchangeType(hello) ==
    IF hello.status # "COMPLETE" THEN "UNKNOWN"
    ELSE IF hello.version = "TLS_1_3" THEN AnalyzeTls13(hello)
    ELSE CipherSuiteKex(hello.cipher)

\* Whether recorded traffic stays secret when the server's key is known.
ForwardSecrecy(exchange) ==
    CASE exchange \in {"ECDHE", "DHE"} -> "TRUE"
      [] exchange = "RSA" -> "FALSE"
      [] OTHER -> "UNKNOWN"
===============================================================================
