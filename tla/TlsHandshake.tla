----------------------------- MODULE TlsHandshake -----------------------------
(***************************************************************************)
(* What the analysis reads of a TLS handshake: the record parser, the two  *)
(* hello parsers and the certificate extractor, given a capture that holds *)
(* a part of the connection, and what the key exchange analyzer makes of   *)
(* it.                                                                     *)
(*                                                                         *)
(* A direction of a connection is a sequence of cells.  A cell stands for  *)
(* the bytes the code always reads together, so that a capture may end     *)
(* between any two of them: a record header is three cells (content type,  *)
(* version, length), a handshake header two (type, length), a message body *)
(* one for each field that is read, and one for the last bytes of its last *)
(* field; lengths count cells.  Tls is a TLS connection, as the            *)
(* mail programs spoke it; the capture has the first cells of either side. *)
(***************************************************************************)
EXTENDS KeyExchange, Integers, SequencesExt

CONSTANT Connections  \* the TLS connections that may be captured

ASSUME ConnectionsAssumption ==
    \A c \in Connections :
        /\ c.version \in {"TLS_1_3", "TLS_1_2", "TLS_1_0"}
        /\ {c.retry, c.resumed} \subseteq BOOLEAN
        /\ c.packing \in {"each", "one", "split"}

VARIABLES tls,   \* the connection
          seen,  \* how many cells of each direction were reassembled
          holes  \* directions with a captured segment behind lost ones

handshakeVars == <<tls, seen, holes>>

Directions == {"client", "server"}
-------------------------------------------------------------------------------
\* What a client and a server send (external: their TLS libraries).

Cell(kind, value) == [kind |-> kind, value |-> value]

Message(type, body) == <<Cell("type", type), Cell("mlen", Len(body))>> \o body

Record(ct, payload) ==
    <<Cell("ct", ct), Cell("ver", ct), Cell("len", Len(payload))>> \o payload

HANDSHAKE == 22
LastBytes == Cell("tail", None)
Ciphertext == <<Cell("enc", None), Cell("enc", None)>>

\* Messages in records: one each, all in one, or all but the last cell, which a second
\* record carries.
Pack(packing, messages) ==
    LET all == FlattenSeq(messages)
    IN  CASE packing = "each" ->
                FlattenSeq([i \in DOMAIN messages |-> Record(HANDSHAKE, messages[i])])
          [] packing = "one" -> Record(HANDSHAKE, all)
          [] packing = "split" ->
                Record(HANDSHAKE, Front(all)) \o Record(HANDSHAKE, <<Last(all)>>)

HelloFields(c) ==
    <<Cell("version", IF c.version = "TLS_1_3" THEN "TLS_1_2" ELSE c.version),
      Cell("cipher", c.cipher)>>

ClientHelloMessage(c) == Message(1, <<Cell("sni", c.sni), LastBytes>>)

\* A TLS 1.3 server may first ask for another hello: a ServerHello whose key share
\* names a group and has no key.
RetryMessage(c) == Message(2, HelloFields(c) \o <<Cell("retry", None), LastBytes>>)

ServerHelloMessage(c) ==
    Message(2, HelloFields(c)
                 \o (IF c.version = "TLS_1_3"
                     THEN <<Cell("supported_version", c.version), Cell("group", c.group)>>
                     ELSE <<>>)
                 \o <<LastBytes>>)

CertificateMessage(c) ==
    Message(11, [i \in DOMAIN c.chain |-> Cell("cert", c.chain[i])] \o <<LastBytes>>)

ShowsChain(c) == c.version # "TLS_1_3" /\ ~c.resumed

ServerFlight(c) ==
    IF ShowsChain(c)
    THEN Pack(c.packing, <<ServerHelloMessage(c), CertificateMessage(c)>>)
           \o Record(HANDSHAKE, Message(14, <<>>))
    ELSE Pack(c.packing, <<ServerHelloMessage(c)>>)

\* Application data: the records of a large mail exceed the limit of a plaintext.
MaxPayload == 16384
LargeRecord == <<Cell("ct", 23), Cell("ver", 23), Cell("len", MaxPayload + 24)>> \o Ciphertext

Protected(c) ==
    Record(20, <<LastBytes>>)
      \o (IF c.version = "TLS_1_3" THEN <<>> ELSE Record(HANDSHAKE, Ciphertext))
      \o LargeRecord

Greeting(c) == IF c.starttls THEN <<Cell("text", None), Cell("text", None)>> ELSE <<>>

\* How far a direction goes before the message named, and the direction itself.
Retry(c, dir) ==
    CASE ~c.retry -> <<>>
      [] dir = "client" -> Record(HANDSHAKE, ClientHelloMessage(c))
      [] dir = "server" -> Record(HANDSHAKE, RetryMessage(c))

Sent(c, dir) ==
    Greeting(c) \o Retry(c, dir)
      \o (IF dir = "client" THEN Pack(c.packing, <<ClientHelloMessage(c)>>)
          ELSE ServerFlight(c))
      \o Protected(c)
-------------------------------------------------------------------------------
\* The record layer: parse_payload.

IsHeader(cells, o) ==
    o + 2 <= Len(cells) /\ cells[o].kind = "ct" /\ cells[o + 2].value \in 1 .. MaxPayload

\* Cleartext may precede the first record (STARTTLS): parsing starts at the first
\* header; what has none is read as a record of no known type that never ends.
StartOffset(cells) ==
    LET headers == {o \in 1 .. Len(cells) : IsHeader(cells, o)}
    IN  CASE cells[1].kind = "ct" -> 1
          [] cells[1].kind # "ct" /\ headers # {} -> Min(headers)
          [] OTHER -> Len(cells) + 1

\* A record that the capture, or the limit of its length, cuts short is the last one;
\* of a header that is cut short the bytes themselves are the payload.
Records(cells) ==
    LET end == Len(cells)
        declared(o) == cells[o + 2].value
        whole(o) == o + 2 <= end /\ declared(o) <= MaxPayload /\ o + 2 + declared(o) <= end
        rest(o) == IF o + 2 > end THEN SubSeq(cells, o, end)
                   ELSE IF declared(o) > MaxPayload THEN <<>>
                   ELSE SubSeq(cells, o + 3, end)
        from[o \in 1 .. end + 1] ==
            IF o > end THEN <<>>
            ELSE IF whole(o)
            THEN <<[ct |-> cells[o].value, is_complete |-> TRUE,
                    payload |-> SubSeq(cells, o + 3, o + 2 + declared(o))]>>
                   \o from[o + 3 + declared(o)]
            ELSE <<[ct |-> cells[o].value, is_complete |-> FALSE, payload |-> rest(o)]>>
    IN  IF cells = <<>> THEN <<>> ELSE from[StartOffset(cells)]

EncounteredGap(records) ==
    \E i \in DOMAIN records : records[i].ct = HANDSHAKE /\ ~records[i].is_complete

HandshakePayload(records) ==
    FlattenSeq([i \in DOMAIN records |->
                   IF records[i].ct = HANDSHAKE THEN records[i].payload ELSE <<>>])
-------------------------------------------------------------------------------
\* The handshake messages.

MaxHandshake == 65536

\* Bytes of something else read as a message header: no type that is looked for, and
\* a length above the limit (the version of a record header begins with 3; a
\* ciphertext that looks like a short message is left out).
TypeAt(p, o)   == IF p[o].kind = "type" THEN p[o].value ELSE 0
LengthAt(p, o) == IF p[o + 1].kind = "mlen" THEN p[o + 1].value ELSE MaxHandshake + 1

Failed(status) == [status |-> status, body |-> <<>>]
CutShort(cut)  == Failed(IF cut THEN "GAP_DISRUPTION" ELSE "INCOMPLETE_CAPTURE")

\* Mutant: the length is not compared with what there is.
MutantBodyAt(p, o, cut) == [status |-> "COMPLETE", body |-> SubSeq(p, o + 2, Len(p))]

\* Mutant: a message that ends with the payload is cut short.
MutantBodyAtEnd(p, o, cut) ==
    LET last == o + 1 + LengthAt(p, o)
    IN  IF last >= Len(p) THEN CutShort(cut)
        ELSE [status |-> "COMPLETE", body |-> SubSeq(p, o + 2, last)]

BodyAt(p, o, cut) ==
    LET last == o + 1 + LengthAt(p, o)
    IN  IF last > Len(p) THEN CutShort(cut)
        ELSE [status |-> "COMPLETE", body |-> SubSeq(p, o + 2, last)]

\* The search of the server side: other messages are skipped by their length, whether
\* or not they are there.
FindMessage(type, p, cut) ==
    LET at[o \in 1 .. Len(p)] ==
            IF o = Len(p) THEN CutShort(cut)
            ELSE IF LengthAt(p, o) > MaxHandshake THEN Failed("OVERSIZED")
            ELSE IF TypeAt(p, o) = type THEN BodyAt(p, o, cut)
            ELSE LET next == o + 2 + LengthAt(p, o)
                 IN  IF next > Len(p) THEN Failed("ABSENT") ELSE at[next]
    IN  at[1]

\* The client's message is the first or none.
FirstMessage(type, p, cut) ==
    IF Len(p) < 2 THEN CutShort(cut)
    ELSE IF TypeAt(p, 1) # type THEN Failed("ABSENT")
    ELSE BodyAt(p, 1, cut)

\* Cells that were reassembled, and whether any came behind a hole.
Captured(dir) == SubSeq(Sent(tls, dir), 1, seen[dir])

\* The handshake messages of a direction, as far as they were reassembled.
Read(dir) ==
    LET records == Records(Captured(dir))
    IN  [disrupted |-> seen[dir] = 0 /\ dir \in holes,
         payload |-> HandshakePayload(records), cut |-> EncounteredGap(records)]

\* What a search has found in what was read.
Found(read, result) ==
    CASE read.disrupted -> Failed("GAP_DISRUPTION")
      [] ~read.disrupted /\ read.payload = <<>> -> Failed("ABSENT")
      [] OTHER -> result

OfServer(type) ==
    LET read == Read("server") IN Found(read, FindMessage(type, read.payload, read.cut))

Has(body, kind) == \E i \in DOMAIN body : body[i].kind = kind
Field(body, kind) ==
    IF Has(body, kind) THEN body[SelectInSeq(body, LAMBDA cell : cell.kind = kind)].value
    ELSE None

ClientHello ==
    LET read == Read("client")
        m == Found(read, FirstMessage(1, read.payload, read.cut))
    IN  [status |-> m.status, server_name |-> Field(m.body, "sni")]

NegotiatedVersion(body) ==
    IF Has(body, "supported_version") THEN Field(body, "supported_version")
    ELSE Field(body, "version")

\* The key share of a HelloRetryRequest is shorter than the parser accepts.
ServerHello ==
    LET m == OfServer(2)
    IN  [status |-> IF Has(m.body, "retry") THEN "MALFORMED" ELSE m.status,
         version |-> NegotiatedVersion(m.body), cipher |-> Field(m.body, "cipher"),
         group |-> Field(m.body, "group")]

\* The certificates of the chain; the last one is garbled if its last bytes are not its.
Certificates ==
    LET m == OfServer(11)
        chain == SelectSeq(m.body, LAMBDA cell : cell.kind = "cert")
    IN  [status |-> m.status,
         chain |-> [i \in DOMAIN chain |->
             IF i = Len(chain) /\ Last(m.body) # LastBytes THEN "garbled" ELSE chain[i].value]]
-------------------------------------------------------------------------------
\* The capture goes on: the next bytes of a direction, or a hole and bytes behind it.

Deliver(dir) ==
    /\ dir \notin holes
    /\ seen[dir] < Len(Sent(tls, dir))
    /\ seen' = [seen EXCEPT ![dir] = @ + 1]
    /\ UNCHANGED <<tls, holes>>

LoseSegment(dir) ==
    /\ dir \notin holes
    /\ seen[dir] + 1 < Len(Sent(tls, dir))
    /\ holes' = holes \cup {dir}
    /\ UNCHANGED <<tls, seen>>

Init ==
    /\ tls \in Connections
    /\ seen = [dir \in Directions |-> 0]
    /\ holes = {}

Next == \E dir \in Directions : Deliver(dir) \/ LoseSegment(dir)

Spec == Init /\ [][Next]_handshakeVars
-------------------------------------------------------------------------------
\* Properties, of whatever part of the connection was captured.

\* The bytes of the first message of a type, to its last, were reassembled.
Reassembled(dir, type) ==
    \E i, j \in 1 .. seen[dir] :
        /\ i < j
        /\ Sent(tls, dir)[i] = Cell("type", type)
        /\ Sent(tls, dir)[j] = LastBytes

\* The capture ends inside a record header.
EndsInHeader(dir) ==
    seen[dir] > 0 /\ Sent(tls, dir)[seen[dir]].kind \in {"ct", "ver"}

\* What is reported complete is what was sent: no cut, hole, retry, ciphertext or
\* packing makes a parser take other bytes for the message it looks for.  Only where a
\* message goes on in a record whose header is cut do the header's bytes pass for its
\* last ones.
CompleteIsReal ==
    /\ ClientHello.status = "COMPLETE" =>
          /\ Reassembled("client", 1) \/ EndsInHeader("client")
          /\ ClientHello.server_name = tls.sni
    /\ ServerHello.status = "COMPLETE" =>
          /\ Reassembled("server", 2) \/ EndsInHeader("server")
          /\ ServerHello.version = tls.version
          /\ ServerHello.cipher = tls.cipher
    /\ Certificates.status = "COMPLETE" =>
          /\ ShowsChain(tls)
          /\ Certificates.chain = tls.chain \/ EndsInHeader("server")

\* A message that was reassembled is reported, whatever happens to the capture behind
\* it; but not the ServerHello behind a HelloRetryRequest.
WholeIsReported ==
    /\ Reassembled("client", 1) => ClientHello.status = "COMPLETE"
    /\ Reassembled("server", 2) =>
          ServerHello.status = IF tls.retry THEN "MALFORMED" ELSE "COMPLETE"
    /\ Reassembled("server", 11) => Certificates.status = "COMPLETE"

\* Forward secrecy is affirmed or denied only if the connection has it or not.
ForwardSecrecyIsReal ==
    /\ ExchangeType(ServerHello) \in {"UNKNOWN", tls.exchange}
    /\ ForwardSecrecy(ExchangeType(ServerHello)) = "TRUE" => tls.exchange \in {"ECDHE", "DHE"}
===============================================================================
