----------------------------- MODULE StarttlsProofs -----------------------------
(***************************************************************************)
(* Proofs about the STARTTLS automaton and the downgrade verdict, for      *)
(* every protocol, every set of tags and any number of events in any       *)
(* order; and about captured dialogues of any length and with any losses,  *)
(* whose events the service sorts before it reads them.                    *)
(* Each state of the automaton stands for evidence in the log; the         *)
(* invariant MachineInv says which.  Of a dialogue, DialogueInv says what  *)
(* its phase has put into the log, and the reading of the sorted log is    *)
(* followed event by event.                                                *)
(***************************************************************************)
EXTENDS StarttlsDialogue, FiniteSetTheorems, WellFoundedInduction, TLAPS

\* The types of the automaton and of the events.
States == BeforeRequest
            \cup {"STARTTLS_REQUESTED", "SERVER_REJECTED", "SERVER_ACCEPTED", "SUCCEEDED"}
Flags  == {"capa_advertised", "requested", "rejected", "accepted", "tls_detected"}
Lines  == [from : {"server", "client"}, kind : ServerKinds \cup ClientKinds,
           tag : Tags \cup {NoTag}]

MachineTypeOK ==
    /\ protocol \in Protocols
    /\ machine \in [state : States, flags : SUBSET Flags, tag : Tags \cup {NoTag}]
    /\ log \in Seq(Lines)

\* The request with this tag is in the log and has not been refused since.
Outstanding(p, tag, seq) ==
    \E i \in 1 .. Len(seq) :
        /\ IsRequest(seq[i]) /\ seq[i].tag = tag
        /\ \A k \in i + 1 .. Len(seq) : ~IsReject(p, [tag |-> tag], seq[k])

\* What the flags say is what the state has gone through.
FlagsFit ==
    /\ "accepted" \in machine.flags <=> machine.state \in {"SERVER_ACCEPTED", "SUCCEEDED"}
    /\ "tls_detected" \in machine.flags <=> machine.state = "SUCCEEDED"

RequestStands ==
    machine.state = "STARTTLS_REQUESTED" => Outstanding(protocol, machine.tag, log)

\* The server's consent is the last word: no TLS record has come behind it.
ConsentStands ==
    machine.state = "SERVER_ACCEPTED" =>
        \E i, j \in 1 .. Len(log) :
            /\ Requests(i) /\ ConsentsTo(i, j)
            /\ \A k \in j + 1 .. Len(log) : log[k].kind # "tls"

\* The invariant of the automaton.
MachineInv ==
    MachineTypeOK /\ FlagsFit /\ RequestStands /\ ConsentStands /\ SuccessIsOrdered
-------------------------------------------------------------------------------
\* The log after one more event: the old events at their places, the new one last.
LEMMA LogGrows ==
    ASSUME log \in Seq(Lines), NEW ev \in Lines, log' = Append(log, ev)
    PROVE  /\ log' \in Seq(Lines)
           /\ Len(log) \in Nat /\ Len(log') = Len(log) + 1
           /\ \A i \in 1 .. Len(log) : log'[i] = log[i] /\ log[i] \in Lines
           /\ log'[Len(log')] = ev
    OBVIOUS

\* Events that are enumerated are lines.
LEMMA EventsAreLines == \A p \in Protocols : ProperEvents(p) \subseteq Lines
    BY DEF ProperEvents, Events, Lines

\* Of a line that counts at most one reading fits, and it decides the next state.
LEMMA StepMoves ==
    ASSUME MachineTypeOK, NEW ev \in Lines, machine' = Step(protocol, machine, ev)
    PROVE  \/ Greets(protocol, machine, ev)
                /\ machine' = Move(machine, "GREETING_SEEN", {})
           \/ Advertises(protocol, machine, ev)
                /\ machine' = Move(machine, "CAPABILITY_ADVERTISED", {"capa_advertised"})
           \/ Asks(machine, ev)
                /\ machine' = [Move(machine, "STARTTLS_REQUESTED", {"requested"})
                                   EXCEPT !.tag = ev.tag]
           \/ Refuses(protocol, machine, ev)
                /\ machine' = Move(machine, "SERVER_REJECTED", {"rejected"})
           \/ Consents(protocol, machine, ev)
                /\ machine' = Move(machine, "SERVER_ACCEPTED", {"accepted"})
           \/ Handshakes(machine, ev)
                /\ machine' = Move(machine, "SUCCEEDED", {"tls_detected"})
           \/ /\ machine' = machine
              /\ ~Refuses(protocol, machine, ev) /\ ~Handshakes(machine, ev)
    BY DEF Step

\* A move leaves an automaton of the type, with flags that fit its state.
LEMMA MovesByState ==
    ASSUME MachineTypeOK, NEW ev \in Lines, machine' = Step(protocol, machine, ev)
    PROVE  /\ machine' \in [state : States, flags : SUBSET Flags, tag : Tags \cup {NoTag}]
           /\ FlagsFit => FlagsFit'
<1> USE DEF MachineTypeOK, States, BeforeRequest, Flags, Lines, Move, FlagsFit
<1>1. CASE Greets(protocol, machine, ev) /\ machine' = Move(machine, "GREETING_SEEN", {})
  <2>1. machine' = [state |-> "GREETING_SEEN", flags |-> machine.flags \cup {}, tag |-> machine.tag]
    BY <1>1
  <2>2. machine'.state = "GREETING_SEEN" /\ machine'.flags = machine.flags
    BY <2>1
  <2>3. machine' \in [state : States, flags : SUBSET Flags, tag : Tags \cup {NoTag}]
    BY <2>1
  <2>4. FlagsFit => FlagsFit'
    BY <1>1, <2>2 DEF Greets
  <2> QED BY <2>3, <2>4
<1>2. CASE /\ Advertises(protocol, machine, ev)
           /\ machine' = Move(machine, "CAPABILITY_ADVERTISED", {"capa_advertised"})
  <2>1. machine' = [state |-> "CAPABILITY_ADVERTISED",
                    flags |-> machine.flags \cup {"capa_advertised"}, tag |-> machine.tag]
    BY <1>2
  <2>2. /\ machine'.state = "CAPABILITY_ADVERTISED"
        /\ machine'.flags = machine.flags \cup {"capa_advertised"}
    BY <2>1
  <2>3. machine' \in [state : States, flags : SUBSET Flags, tag : Tags \cup {NoTag}]
    BY <2>1
  <2>4. FlagsFit => FlagsFit'
    BY <1>2, <2>2 DEF Advertises
  <2> QED BY <2>3, <2>4
<1>3. CASE /\ Asks(machine, ev)
           /\ machine' = [Move(machine, "STARTTLS_REQUESTED", {"requested"})
                              EXCEPT !.tag = ev.tag]
  <2>1. machine' = [state |-> "STARTTLS_REQUESTED", flags |-> machine.flags \cup {"requested"},
                    tag |-> ev.tag]
    BY <1>3
  <2>2. machine'.state = "STARTTLS_REQUESTED" /\ machine'.flags = machine.flags \cup {"requested"}
    BY <2>1
  <2>3. machine' \in [state : States, flags : SUBSET Flags, tag : Tags \cup {NoTag}]
    BY <2>1
  <2>4. FlagsFit => FlagsFit'
    BY <1>3, <2>2 DEF Asks
  <2> QED BY <2>3, <2>4
<1>4. CASE /\ Refuses(protocol, machine, ev)
           /\ machine' = Move(machine, "SERVER_REJECTED", {"rejected"})
  <2>1. machine' = [state |-> "SERVER_REJECTED", flags |-> machine.flags \cup {"rejected"},
                    tag |-> machine.tag]
    BY <1>4
  <2>2. machine'.state = "SERVER_REJECTED" /\ machine'.flags = machine.flags \cup {"rejected"}
    BY <2>1
  <2>3. machine' \in [state : States, flags : SUBSET Flags, tag : Tags \cup {NoTag}]
    BY <2>1
  <2>4. FlagsFit => FlagsFit'
    BY <1>4, <2>2 DEF Refuses
  <2> QED BY <2>3, <2>4
<1>5. CASE /\ Consents(protocol, machine, ev)
           /\ machine' = Move(machine, "SERVER_ACCEPTED", {"accepted"})
  <2>1. machine' = [state |-> "SERVER_ACCEPTED", flags |-> machine.flags \cup {"accepted"},
                    tag |-> machine.tag]
    BY <1>5
  <2>2. machine'.state = "SERVER_ACCEPTED" /\ machine'.flags = machine.flags \cup {"accepted"}
    BY <2>1
  <2>3. machine' \in [state : States, flags : SUBSET Flags, tag : Tags \cup {NoTag}]
    BY <2>1
  <2>4. FlagsFit => FlagsFit'
    BY <1>5, <2>2 DEF Consents
  <2> QED BY <2>3, <2>4
<1>6. CASE /\ Handshakes(machine, ev)
           /\ machine' = Move(machine, "SUCCEEDED", {"tls_detected"})
  <2>1. machine' = [state |-> "SUCCEEDED", flags |-> machine.flags \cup {"tls_detected"},
                    tag |-> machine.tag]
    BY <1>6
  <2>2. machine'.state = "SUCCEEDED" /\ machine'.flags = machine.flags \cup {"tls_detected"}
    BY <2>1
  <2>3. machine' \in [state : States, flags : SUBSET Flags, tag : Tags \cup {NoTag}]
    BY <2>1
  <2>4. FlagsFit => FlagsFit'
    BY <1>6, <2>2 DEF Handshakes
  <2> QED BY <2>3, <2>4
<1>7. CASE machine' = machine
  BY <1>7
<1> QED BY <1>1, <1>2, <1>3, <1>4, <1>5, <1>6, <1>7, StepMoves
-------------------------------------------------------------------------------
\* What an event is to a request depends on the request's tag alone.
LEMMA TagDecides ==
    ASSUME NEW m, NEW ev
    PROVE  /\ IsReject(protocol, m, ev) <=> IsReject(protocol, [tag |-> m.tag], ev)
           /\ IsOk(protocol, m, ev) <=> IsOk(protocol, [tag |-> m.tag], ev)
    BY DEF IsReject, IsOk, Answers

\* The request that waits for an answer is in the log, unrefused, after any event.
LEMMA RequestKept ==
    ASSUME MachineInv, NEW ev \in Lines, Read(ev)
    PROVE  RequestStands'
<1> SUFFICES ASSUME machine'.state = "STARTTLS_REQUESTED"
             PROVE  Outstanding(protocol, machine'.tag, log')
  BY DEF RequestStands, Read
<1>0. /\ MachineTypeOK /\ log \in Seq(Lines) /\ log' = Append(log, ev)
      /\ machine' = Step(protocol, machine, ev)
      /\ machine \in [state : States, flags : SUBSET Flags, tag : Tags \cup {NoTag}]
  BY DEF MachineInv, MachineTypeOK, Read
<1>1. CASE /\ Asks(machine, ev)
           /\ machine' = [Move(machine, "STARTTLS_REQUESTED", {"requested"})
                              EXCEPT !.tag = ev.tag]
  <2>1. machine'.tag = ev.tag
    BY <1>0, <1>1 DEF Move
  <2>2. IsRequest(log'[Len(log')]) /\ log'[Len(log')].tag = ev.tag
    BY <1>0, <1>1, LogGrows DEF Asks
  <2>3. Len(log') \in 1 .. Len(log') /\ Len(log') + 1 .. Len(log') = {}
    BY <1>0, LogGrows
  <2> QED BY <2>1, <2>2, <2>3 DEF Outstanding
<1>2. CASE machine' = machine /\ ~Refuses(protocol, machine, ev)
  <2>1. Outstanding(protocol, machine.tag, log)
    BY <1>2 DEF MachineInv, RequestStands
  <2>2. PICK i \in 1 .. Len(log) :
           /\ IsRequest(log[i]) /\ log[i].tag = machine.tag
           /\ \A k \in i + 1 .. Len(log) : ~IsReject(protocol, [tag |-> machine.tag], log[k])
    BY <2>1 DEF Outstanding
  <2>3. ~IsReject(protocol, [tag |-> machine.tag], ev)
    BY <1>2, TagDecides DEF Refuses
  <2>4. i \in 1 .. Len(log') /\ IsRequest(log'[i]) /\ log'[i].tag = machine.tag
    BY <1>0, <2>2, LogGrows
  <2>5. ASSUME NEW k \in i + 1 .. Len(log')
        PROVE  ~IsReject(protocol, [tag |-> machine.tag], log'[k])
    <3>1. CASE k = Len(log')
      BY <1>0, <2>3, <3>1, LogGrows
    <3>2. CASE k \in i + 1 .. Len(log)
      <4>1. log'[k] = log[k]
        BY <1>0, <3>2, LogGrows
      <4> QED BY <2>2, <3>2, <4>1
    <3> QED BY <1>0, <3>1, <3>2, LogGrows
  <2> QED BY <1>2, <2>4, <2>5 DEF Outstanding
<1> QED BY <1>0, <1>1, <1>2, StepMoves DEF Move

\* A request and the consent to it stay where they are in the log.
LEMMA EvidenceStays ==
    ASSUME log \in Seq(Lines), NEW ev \in Lines, log' = Append(log, ev), protocol' = protocol,
           NEW i \in 1 .. Len(log), NEW j \in 1 .. Len(log), Requests(i), ConsentsTo(i, j)
    PROVE  i \in 1 .. Len(log') /\ j \in 1 .. Len(log') /\ Requests(i)' /\ ConsentsTo(i, j)'
<1>1. \A k \in 1 .. j : log'[k] = log[k]
  BY LogGrows
<1>2. i \in 1 .. Len(log') /\ j \in 1 .. Len(log') /\ i \in 1 .. j
  BY LogGrows DEF ConsentsTo
<1>3. Requests(i)' /\ log'[i] = log[i] /\ log'[j] = log[j]
  BY <1>1, <1>2 DEF Requests
<1>4. \A k \in i + 1 .. j - 1 : log'[k] = log[k]
  BY <1>1
<1>5. ConsentsTo(i, j)'
  BY <1>3, <1>4 DEF ConsentsTo
<1> QED BY <1>2, <1>3, <1>5

\* The consent an accepted connection rests on stays the last word until a record comes.
LEMMA ConsentKept ==
    ASSUME MachineInv, NEW ev \in Lines, Read(ev)
    PROVE  ConsentStands'
<1> SUFFICES ASSUME machine'.state = "SERVER_ACCEPTED"
             PROVE  (\E i, j \in 1 .. Len(log) :
                        /\ Requests(i) /\ ConsentsTo(i, j)
                        /\ \A k \in j + 1 .. Len(log) : log[k].kind # "tls")'
  BY DEF ConsentStands
<1>0. /\ MachineTypeOK /\ log \in Seq(Lines) /\ log' = Append(log, ev)
      /\ machine' = Step(protocol, machine, ev) /\ protocol' = protocol
      /\ machine \in [state : States, flags : SUBSET Flags, tag : Tags \cup {NoTag}]
  BY DEF MachineInv, MachineTypeOK, Read
<1>1. CASE /\ Consents(protocol, machine, ev)
           /\ machine' = Move(machine, "SERVER_ACCEPTED", {"accepted"})
  <2>1. Outstanding(protocol, machine.tag, log)
    BY <1>1 DEF MachineInv, RequestStands, Consents
  <2>2. PICK i \in 1 .. Len(log) :
           /\ IsRequest(log[i]) /\ log[i].tag = machine.tag
           /\ \A k \in i + 1 .. Len(log) : ~IsReject(protocol, [tag |-> machine.tag], log[k])
    BY <2>1 DEF Outstanding
  <2>3. PICK j \in Nat : j = Len(log')
    BY <1>0, LogGrows
  <2>4. i \in 1 .. j /\ j \in 1 .. j /\ i < j /\ j - 1 = Len(log)
    BY <1>0, <2>3, LogGrows
  <2>5. Requests(i)' /\ log'[i].tag = machine.tag
    BY <1>0, <2>2, LogGrows DEF Requests
  <2>6. IsOk(protocol, [tag |-> machine.tag], log'[j])
    BY <1>0, <1>1, <2>3, LogGrows, TagDecides DEF Consents
  <2>7. \A k \in i + 1 .. j - 1 : ~IsReject(protocol, [tag |-> machine.tag], log'[k])
    <3> SUFFICES ASSUME NEW k \in i + 1 .. Len(log)
                 PROVE  ~IsReject(protocol, [tag |-> machine.tag], log'[k])
      BY <2>4
    <3>1. log'[k] = log[k]
      BY <1>0, LogGrows
    <3> QED BY <2>2, <3>1
  <2>8. ConsentsTo(i, j)'
    BY <1>0, <2>4, <2>5, <2>6, <2>7 DEF ConsentsTo
  <2>9. j + 1 .. j = {}
    BY <2>4
  <2> QED BY <2>4, <2>5, <2>8, <2>9, <2>3
<1>2. CASE machine' = machine /\ ~Handshakes(machine, ev)
  <2>1. PICK i \in 1 .. Len(log), j \in 1 .. Len(log) :
           /\ Requests(i) /\ ConsentsTo(i, j)
           /\ \A k \in j + 1 .. Len(log) : log[k].kind # "tls"
    BY <1>2 DEF MachineInv, ConsentStands
  <2>2. ev.kind # "tls"
    BY <1>2 DEF Handshakes
  <2>3. i \in 1 .. Len(log') /\ j \in 1 .. Len(log') /\ Requests(i)' /\ ConsentsTo(i, j)'
    BY <1>0, <2>1, EvidenceStays
  <2>4. ASSUME NEW k \in j + 1 .. Len(log')
        PROVE  log'[k].kind # "tls"
    <3>1. CASE k = Len(log')
      BY <1>0, <2>2, <3>1, LogGrows
    <3>2. CASE k \in j + 1 .. Len(log)
      BY <1>0, <2>1, <3>2, LogGrows
    <3> QED BY <1>0, <3>1, <3>2, LogGrows
  <2> QED BY <2>3, <2>4
<1> QED BY <1>0, <1>1, <1>2, StepMoves DEF Move

\* A success rests on a request, a consent and a record, in this order, at any time.
LEMMA SuccessKept ==
    ASSUME MachineInv, NEW ev \in Lines, Read(ev)
    PROVE  SuccessIsOrdered'
<1> SUFFICES ASSUME machine'.state = "SUCCEEDED"
             PROVE  (\E i, j, k \in 1 .. Len(log) :
                        Requests(i) /\ ConsentsTo(i, j) /\ j < k /\ log[k].kind = "tls")'
  BY DEF SuccessIsOrdered
<1>0. /\ MachineTypeOK /\ log \in Seq(Lines) /\ log' = Append(log, ev)
      /\ machine' = Step(protocol, machine, ev) /\ protocol' = protocol
      /\ machine \in [state : States, flags : SUBSET Flags, tag : Tags \cup {NoTag}]
  BY DEF MachineInv, MachineTypeOK, Read
<1>1. CASE Handshakes(machine, ev)
  <2>1. PICK i \in 1 .. Len(log), j \in 1 .. Len(log) : Requests(i) /\ ConsentsTo(i, j)
    BY <1>1 DEF MachineInv, ConsentStands, Handshakes
  <2>2. i \in 1 .. Len(log') /\ j \in 1 .. Len(log') /\ Requests(i)' /\ ConsentsTo(i, j)'
    BY <1>0, <2>1, EvidenceStays
  <2>3. Len(log') \in 1 .. Len(log') /\ j < Len(log') /\ log'[Len(log')].kind = "tls"
    BY <1>0, <1>1, LogGrows DEF Handshakes
  <2> QED BY <2>2, <2>3
<1>2. CASE machine' = machine
  <2>1. PICK i \in 1 .. Len(log), j \in 1 .. Len(log), k \in 1 .. Len(log) :
           Requests(i) /\ ConsentsTo(i, j) /\ j < k /\ log[k].kind = "tls"
    BY <1>2 DEF MachineInv, SuccessIsOrdered
  <2>2. i \in 1 .. Len(log') /\ j \in 1 .. Len(log') /\ Requests(i)' /\ ConsentsTo(i, j)'
    BY <1>0, <2>1, EvidenceStays
  <2>3. k \in 1 .. Len(log') /\ log'[k].kind = "tls"
    BY <1>0, <2>1, LogGrows
  <2> QED BY <2>1, <2>2, <2>3
<1> QED BY <1>0, <1>1, <1>2, StepMoves DEF Move
-------------------------------------------------------------------------------
\* The automaton starts with nothing read and nothing claimed.
LEMMA InitMachineInv == Init => MachineInv
    BY DEF Init, Start, MachineInv, MachineTypeOK, States, BeforeRequest, FlagsFit,
           RequestStands, ConsentStands, SuccessIsOrdered

\* Every event keeps the invariant.
LEMMA NextMachineInv == MachineInv /\ [Next]_vars => MachineInv'
<1> SUFFICES ASSUME MachineInv, [Next]_vars
             PROVE  MachineInv'
  OBVIOUS
<1>1. CASE UNCHANGED vars
  <2>1. protocol' = protocol /\ machine' = machine /\ log' = log
    BY <1>1 DEF vars
  <2>2. MachineTypeOK' /\ FlagsFit'
    BY <2>1 DEF MachineInv, MachineTypeOK, FlagsFit
  <2>3. RequestStands'
    BY <2>1 DEF MachineInv, RequestStands
  <2>4. /\ \A k \in 1 .. Len(log) : Requests(k)' = Requests(k)
        /\ \A h, k \in 1 .. Len(log) : ConsentsTo(h, k)' = ConsentsTo(h, k)
    BY <2>1 DEF Requests, ConsentsTo
  <2>5. ConsentStands' /\ SuccessIsOrdered'
    BY <2>1, <2>4 DEF MachineInv, ConsentStands, SuccessIsOrdered
  <2> QED BY <2>2, <2>3, <2>5 DEF MachineInv
<1>2. CASE Next
  <2>1. PICK ev \in ProperEvents(protocol) : Read(ev)
    BY <1>2 DEF Next
  <2>2. ev \in Lines
    BY <2>1, EventsAreLines DEF MachineInv, MachineTypeOK
  <2>3. MachineTypeOK' /\ FlagsFit'
    BY <2>1, <2>2, MovesByState, LogGrows DEF MachineInv, MachineTypeOK, Read
  <2> QED BY <2>1, <2>2, <2>3, RequestKept, ConsentKept, SuccessKept DEF MachineInv
<1> QED BY <1>1, <1>2

\* Whatever events come in whatever order, each state of the automaton rests on
\* the evidence the log holds for it (evaluate_smtp, _imap and _pop3).
THEOREM MachineRests == Spec => []MachineInv
<1>1. Init => MachineInv
  BY InitMachineInv
<1>2. MachineInv /\ [Next]_vars => MachineInv'
  BY NextMachineInv
<1> QED BY <1>1, <1>2, PTL DEF Spec

\* A success is never reported without a request of the client, the server's consent
\* to it and a TLS record, in this order and with no refusal in between.
THEOREM SuccessOrdered == Spec => []SuccessIsOrdered
<1>1. MachineInv => SuccessIsOrdered
  BY DEF MachineInv
<1> QED BY <1>1, MachineRests, PTL

\* A refusal or a success is the last state of a connection.
THEOREM RefusalFinal == Spec => RefusalIsFinal
<1>1. [Next]_vars =>
         [machine.state \in {"SERVER_REJECTED", "SUCCEEDED"} => machine' = machine]_vars
  BY DEF Next, Read, Step, Greets, Advertises, Asks, Refuses, Consents, Handshakes,
         BeforeRequest
<1> QED BY <1>1, PTL DEF Spec, RefusalIsFinal
-------------------------------------------------------------------------------
\* A downgrade is suspected of no stream but those of an accepted connection
\* that has not turned to TLS.
LEMMA SuspectsAccepted ==
    ASSUME MachineTypeOK, FlagsFit, NEW stream \in Streams,
           Verdict(stream) = "DOWNGRADE_SUSPECTED"
    PROVE  machine.state = "SERVER_ACCEPTED" /\ "plain" \in Payload
<1> DEFINE at == Assessment(machine, stream).state
<1>1. ~stream.implicit /\ Evaluate(machine, stream).state = at
  BY DEF Verdict, Downgrade, Evaluate
<1>2. /\ at \in {"SUCCEEDED", "FAILED", "SERVER_ACCEPTED", "STARTTLS_REQUESTED",
                 "CAPABILITY_ADVERTISED", "UNKNOWN", "GREETING_SEEN"}
      /\ at = "SERVER_ACCEPTED" =>
            "accepted" \in machine.flags /\ "tls_detected" \notin machine.flags
  BY DEF Assessment
<1>3. HasPlaintextPostAcceptance(machine, Payload)
  <2> HIDE DEF at
  <2> QED BY <1>1, <1>2 DEF Verdict, Downgrade, HasPlaintextPostAcceptance
<1> QED BY <1>3 DEF HasPlaintextPostAcceptance, FlagsFit

\* Whatever the client sends and however the capture was interrupted, a downgrade is
\* suspected only of a client whose STARTTLS the server consented to, with no TLS
\* record behind the consent and a plaintext command among its lines.
THEOREM SuspicionGrounded == Spec => []SuspicionIsGrounded
<1>1. ASSUME MachineInv
      PROVE  SuspicionIsGrounded
  <2> SUFFICES ASSUME NEW stream \in Streams, Verdict(stream) = "DOWNGRADE_SUSPECTED"
               PROVE  /\ \E i, j \in 1 .. Len(log) :
                            /\ Requests(i) /\ ConsentsTo(i, j)
                            /\ \A k \in j + 1 .. Len(log) : log[k].kind # "tls"
                      /\ \E i \in 1 .. Len(log) : log[i].from = "client" /\ log[i].kind = "plain"
    BY DEF SuspicionIsGrounded
  <2>1. machine.state = "SERVER_ACCEPTED" /\ "plain" \in Payload
    BY <1>1, SuspectsAccepted DEF MachineInv
  <2>2. \E i \in 1 .. Len(log) : log[i].from = "client" /\ log[i].kind = "plain"
    BY <2>1 DEF Payload
  <2> QED BY <1>1, <2>1, <2>2 DEF MachineInv, ConsentStands
<1> QED BY <1>1, MachineRests, PTL
-------------------------------------------------------------------------------
(***************************************************************************)
(* The order of the events: what Sorted returns for any keys.              *)
(***************************************************************************)
Keys == Nat \X Nat \X Nat \X Nat

\* The four comparisons of Precedes, one after the other.
LEMMA PrecedesIs ==
    ASSUME NEW a \in Keys, NEW b \in Keys
    PROVE  Precedes(a, b) <=>
              \/ a[1] < b[1]
              \/ a[1] = b[1] /\ a[2] < b[2]
              \/ a[1] = b[1] /\ a[2] = b[2] /\ a[3] < b[3]
              \/ a[1] = b[1] /\ a[2] = b[2] /\ a[3] = b[3] /\ a[4] < b[4]
<1>1. 1 .. 4 = {1, 2, 3, 4} /\ 1 .. 1 - 1 = {} /\ 1 .. 2 - 1 = {1} /\ 1 .. 3 - 1 = {1, 2}
      /\ 1 .. 4 - 1 = {1, 2, 3}
  OBVIOUS
<1> QED BY <1>1 DEF Precedes

\* Keys that differ in their last part are in a strict total order.
LEMMA PrecedesOrders ==
    /\ \A a \in Keys : ~Precedes(a, a)
    /\ \A a, b \in Keys : a[4] # b[4] => Precedes(a, b) \/ Precedes(b, a)
    /\ \A a, b, c \in Keys : Precedes(a, b) /\ Precedes(b, c) => Precedes(a, c)
<1>1. ASSUME NEW a \in Keys PROVE ~Precedes(a, a)
  BY PrecedesIs DEF Keys
<1>2. ASSUME NEW a \in Keys, NEW b \in Keys, a[4] # b[4]
      PROVE  Precedes(a, b) \/ Precedes(b, a)
  BY <1>2, PrecedesIs DEF Keys
<1>3. ASSUME NEW a \in Keys, NEW b \in Keys, NEW c \in Keys, Precedes(a, b), Precedes(b, c)
      PROVE  Precedes(a, c)
  BY <1>3, PrecedesIs DEF Keys
<1> QED BY <1>1, <1>2, <1>3

\* A function that numbers the events by their keys, each with its own place last.
IsKeyed(key, n) == key \in [1 .. n -> Keys] /\ \A i \in 1 .. n : key[i][4] = i

\* The events with lesser keys, the place they leave and the order of the places.
Earlier(key, n, i) == {j \in 1 .. n : Precedes(key[j], key[i])}
Rank(key, n, i) == Cardinality(Earlier(key, n, i)) + 1
Ordered(key, n) ==
    [k \in 1 .. n |-> CHOOSE i \in 1 .. n : Cardinality(Earlier(key, n, i)) = k - 1]

\* An event has a place among the n, behind those of the events with lesser keys.
LEMMA RanksRise ==
    ASSUME NEW n \in Nat, NEW key, IsKeyed(key, n), NEW i \in 1 .. n
    PROVE  /\ Rank(key, n, i) \in 1 .. n
           /\ \A j \in 1 .. n : Precedes(key[j], key[i]) => Rank(key, n, j) < Rank(key, n, i)
<1>1. \A j \in 1 .. n : key[j] \in Keys
  BY DEF IsKeyed
<1>2. IsFiniteSet(1 .. n) /\ Cardinality(1 .. n) = n
  BY FS_Interval
<1>3. \A j \in 1 .. n : Earlier(key, n, j) \in SUBSET (1 .. n) /\ j \notin Earlier(key, n, j)
  BY <1>1, PrecedesOrders DEF Earlier
<1>4. \A j \in 1 .. n : IsFiniteSet(Earlier(key, n, j))
  BY <1>2, <1>3, FS_Subset
<1>5. \A j \in 1 .. n : /\ Cardinality(Earlier(key, n, j)) \in Nat
                        /\ IsFiniteSet(Earlier(key, n, j) \cup {j})
                        /\ Cardinality(Earlier(key, n, j) \cup {j}) = Rank(key, n, j)
  BY <1>3, <1>4, FS_CardinalityType, FS_AddElement DEF Rank
<1>6. Rank(key, n, i) <= n
  <2>1. Earlier(key, n, i) \cup {i} \in SUBSET (1 .. n)
    BY <1>3
  <2>2. Cardinality(Earlier(key, n, i) \cup {i}) <= n
    BY <1>2, <2>1, FS_Subset
  <2> QED BY <1>5, <2>2
<1>7. ASSUME NEW j \in 1 .. n, Precedes(key[j], key[i])
      PROVE  Rank(key, n, j) < Rank(key, n, i)
  <2>1. Earlier(key, n, j) \cup {j} \in SUBSET Earlier(key, n, i)
    <3>1. ASSUME NEW h \in 1 .. n, Precedes(key[h], key[j]) PROVE Precedes(key[h], key[i])
      <4>1. key[h] \in Keys /\ key[j] \in Keys /\ key[i] \in Keys
        BY <1>1
      <4> QED BY <3>1, <4>1, <1>7, PrecedesOrders
    <3> QED BY <1>7, <3>1 DEF Earlier
  <2>2. Cardinality(Earlier(key, n, j) \cup {j}) <= Cardinality(Earlier(key, n, i))
    BY <1>4, <2>1, FS_Subset
  <2>3. Rank(key, n, j) <= Cardinality(Earlier(key, n, i))
    BY <1>5, <2>2
  <2>4. Cardinality(Earlier(key, n, i)) \in Nat /\ Cardinality(Earlier(key, n, j)) \in Nat
    BY <1>5
  <2>5. \A a, b \in Nat : a + 1 <= b => a + 1 < b + 1
    OBVIOUS
  <2> QED BY <2>3, <2>4, <2>5 DEF Rank
<1>8. Rank(key, n, i) \in 1 .. n
  <2>1. Cardinality(Earlier(key, n, i)) \in Nat
    BY <1>5
  <2> QED BY <1>6, <2>1 DEF Rank
<1> QED BY <1>7, <1>8

\* Every place has an event, every event a place, and behind those with lesser keys.
Sorts(ord, key, n) ==
    /\ ord \in [1 .. n -> 1 .. n]
    /\ \A i \in 1 .. n : \E k \in 1 .. n : ord[k] = i
    /\ \A k, j \in 1 .. n : Precedes(key[j], key[ord[k]]) => \E h \in 1 .. k - 1 : ord[h] = j

LEMMA OrderedSorts ==
    ASSUME NEW n \in Nat, NEW key, IsKeyed(key, n)
    PROVE  Sorts(Ordered(key, n), key, n)
<1> DEFINE rank == [i \in 1 .. n |-> Rank(key, n, i)]
           ord == Ordered(key, n)
<1>0. \A i \in 1 .. n : rank[i] = Rank(key, n, i) /\ Rank(key, n, i) \in 1 .. n
  BY RanksRise
<1>1. \A i, j \in 1 .. n : Rank(key, n, i) = Rank(key, n, j) => i = j
  <2> SUFFICES ASSUME NEW i \in 1 .. n, NEW j \in 1 .. n, i # j
               PROVE  Rank(key, n, i) # Rank(key, n, j)
    OBVIOUS
  <2>1. Precedes(key[i], key[j]) \/ Precedes(key[j], key[i])
    BY PrecedesOrders DEF IsKeyed
  <2> QED BY <2>1, <1>0, RanksRise
<1>2. rank \in Surjection(1 .. n, 1 .. n)
  <2>1. rank \in Injection(1 .. n, 1 .. n)
    BY <1>0, <1>1 DEF Injection, IsInjective
  <2>2. IsFiniteSet(1 .. n)
    BY FS_Interval
  <2> HIDE DEF rank
  <2> QED BY <2>1, <2>2, FS_Injection
<1>3. \A k \in 1 .. n : \E i \in 1 .. n : Rank(key, n, i) = k
  BY <1>0, <1>2 DEF Surjection
<1>4. \A k \in 1 .. n : ord[k] \in 1 .. n /\ Rank(key, n, ord[k]) = k
  <2> SUFFICES ASSUME NEW k \in 1 .. n
               PROVE  ord[k] \in 1 .. n /\ Rank(key, n, ord[k]) = k
    OBVIOUS
  <2>1. ord[k] = CHOOSE i \in 1 .. n : Cardinality(Earlier(key, n, i)) = k - 1
    BY DEF Ordered
  <2>2. PICK i \in 1 .. n : Rank(key, n, i) = k
    BY <1>3
  <2>3. IsFiniteSet(Earlier(key, n, i))
    BY FS_Interval, FS_Subset DEF Earlier
  <2>4. Cardinality(Earlier(key, n, i)) = k - 1
    BY <2>2, <2>3, FS_CardinalityType DEF Rank
  <2>5. ord[k] \in 1 .. n /\ Cardinality(Earlier(key, n, ord[k])) = k - 1
    <3> HIDE DEF ord
    <3> QED BY <2>1, <2>4
  <2> QED BY <2>5 DEF Rank
<1>5. \A i \in 1 .. n : ord[Rank(key, n, i)] = i
  <2> HIDE DEF ord
  <2> QED BY <1>0, <1>1, <1>4
<1>6. ord \in [1 .. n -> 1 .. n]
  <2>1. ord = [k \in 1 .. n |-> ord[k]]
    BY DEF Ordered
  <2> HIDE DEF ord
  <2> QED BY <1>4, <2>1
<1>7. ASSUME NEW k \in 1 .. n, NEW j \in 1 .. n, Precedes(key[j], key[ord[k]])
      PROVE  \E h \in 1 .. k - 1 : ord[h] = j
  <2> HIDE DEF ord
  <2>1. Rank(key, n, j) < Rank(key, n, ord[k])
    BY <1>4, <1>7, RanksRise
  <2>2. Rank(key, n, j) \in 1 .. k - 1
    BY <1>0, <1>4, <2>1
  <2> QED BY <1>5, <2>2
<1>8. \A i \in 1 .. n : \E k \in 1 .. n : ord[k] = i
  BY <1>0, <1>5
<1> HIDE DEF ord
<1>9. Sorts(ord, key, n)
  BY <1>6, <1>7, <1>8 DEF Sorts
<1> QED BY <1>9 DEF ord
-------------------------------------------------------------------------------
(***************************************************************************)
(* The keys of the events of one stream.                                   *)
(***************************************************************************)
Messages == [from : Directions, kind : ServerKinds \cup ClientKinds, tag : Tags \cup {NoTag},
             frame : Nat, afterGap : BOOLEAN]

\* Each end says what it can say.
Spoken(ev) == ev \in Messages
           /\ ev.kind \in IF ev.from = "server" THEN ServerKinds ELSE ClientKinds

\* The logs of messages.
Conversations == {lines \in Seq(Messages) : \A i \in 1 .. Len(lines) : Spoken(lines[i])}

\* A greeting with none before it.
GreetsFirst(p, lines, i) ==
    IsGreeting(p, lines[i]) /\ \A h \in 1 .. i - 1 : ~IsGreeting(p, lines[h])

\* turn_rank is a number; the server's greeting comes first, a TLS record last.
LEMMA TurnRanks ==
    ASSUME NEW p, NEW lines \in Conversations, NEW i \in 1 .. Len(lines)
    PROVE  /\ TurnRank(p, lines, i) \in Nat
           /\ lines[i].kind = "tls" => TurnRank(p, lines, i) = 60
           /\ lines[i].from = "server" /\ lines[i].kind # "tls" => TurnRank(p, lines, i) <= 50
           /\ GreetsFirst(p, lines, i) => TurnRank(p, lines, i) = 10
           /\ lines[i].from = "server" /\ ~GreetsFirst(p, lines, i) =>
                 TurnRank(p, lines, i) >= 30
<1> DEFINE ev == lines[i]
           first == GreetsFirst(p, lines, i)
<1>1. Spoken(ev)
  BY DEF Conversations
<1>2. /\ ev.from \in {"server", "client"}
      /\ ev.from = "server" =>
           ev.kind \in {"greeting", "capability", "ok", "reject", "other", "tls"}
      /\ ev.from = "client" => ev.kind \in {"hello", "starttls", "plain", "other", "tls"}
  BY <1>1 DEF Spoken, Messages, Directions, ServerKinds, ClientKinds
<1>3. first => ev.from = "server" /\ ev.kind \in {"greeting", "ok"}
  BY DEF GreetsFirst, IsGreeting
<1>4. TurnRank(p, lines, i) =
          CASE ev.kind = "tls" -> 60
            [] ev.from = "server" /\ first -> 10
            [] ev.kind = "capability" -> 30
            [] ev.kind \in {"ok", "reject", "greeting"} /\ ~first -> 50
            [] ev.from = "server" /\ ev.kind = "other" -> 35
            [] ev.kind = "hello" -> 20
            [] ev.kind = "starttls" -> 40
            [] ev.from = "client" /\ ev.kind \in {"plain", "other"} -> 25
  BY DEF TurnRank, GreetsFirst
<1>5. TurnRank(p, lines, i) =
          IF ev.kind = "tls" THEN 60
          ELSE IF first THEN 10
          ELSE IF ev.kind = "capability" THEN 30
          ELSE IF ev.kind \in {"ok", "reject", "greeting"} THEN 50
          ELSE IF ev.from = "server" THEN 35
          ELSE IF ev.kind = "hello" THEN 20
          ELSE IF ev.kind = "starttls" THEN 40 ELSE 25
  <2> HIDE DEF ev, first
  <2> QED BY <1>2, <1>3, <1>4
<1> HIDE DEF ev, first
<1>6. /\ TurnRank(p, lines, i) \in Nat
      /\ ev.kind = "tls" => TurnRank(p, lines, i) = 60
      /\ ev.from = "server" /\ ev.kind # "tls" => TurnRank(p, lines, i) <= 50
      /\ first => TurnRank(p, lines, i) = 10
      /\ ev.from = "server" /\ ~first => TurnRank(p, lines, i) >= 30
  BY <1>2, <1>3, <1>5
<1> QED BY <1>6 DEF ev, first

\* A set of numbers with something in it has a least one.
LEMMA LeastIsThere ==
    ASSUME NEW S \in SUBSET Nat, S # {}
    PROVE  \E x \in S : \A y \in S : ~(y < x)
<1> DEFINE R == OpToRel(<, Nat)
<1>1. \A i, j \in Nat : i < j => <<i, j>> \in R
  BY DEF OpToRel
<1>2. IsWellFoundedOn(R, Nat)
  BY NatLessThanWellFounded
<1> HIDE DEF R
<1>3. PICK x \in S : \A y \in S : ~(<<y, x>> \in R)
  BY <1>2, WFMin
<1> QED BY <1>1, <1>3

\* The frame of a block is the frame of one of its events, or 1 or 2.
LEMMA FramesAreNumbers ==
    ASSUME NEW lines \in Conversations, NEW whole \in BOOLEAN, NEW i \in 1 .. Len(lines)
    PROVE  BlockFrame(lines, whole, lines[i]) \in Nat
<1> DEFINE dir == lines[i].from
           Of == {k \in 1 .. Len(lines) : lines[k].from = dir}
<1>1. Len(lines) \in Nat /\ \A k \in 1 .. Len(lines) : lines[k].frame \in Nat
  <2>1. Len(lines) \in Nat /\ \A k \in 1 .. Len(lines) : Spoken(lines[k])
    BY DEF Conversations
  <2> QED BY <2>1 DEF Spoken, Messages
<1>2. PICK k \in Of : \A h \in Of : ~(h < k)
  <2>1. Of \in SUBSET Nat /\ i \in Of
    BY <1>1
  <2> HIDE DEF Of
  <2> QED BY <2>1, LeastIsThere
<1>3. k \in 1 .. Len(lines) /\ lines[k].from = dir /\ \A h \in 1 .. k - 1 : lines[h].from # dir
  BY <1>1, <1>2
<1>4. FirstFrame(lines, whole, dir) \in Nat
  <2> DEFINE c == CHOOSE k1 \in 1 .. Len(lines) :
                     lines[k1].from = dir /\ \A h \in 1 .. k1 - 1 : lines[h].from # dir
  <2>1. c \in 1 .. Len(lines)
    <3> HIDE DEF dir
    <3> QED BY <1>3
  <2>2. lines[c].frame \in Nat
    <3> HIDE DEF c
    <3> QED BY <1>1, <2>1
  <2> QED BY <2>2 DEF FirstFrame
<1> QED BY <1>1, <1>4 DEF BlockFrame

\* The key of an event is four numbers, the last of them its place.
KeysOf(p, lines, whole) == [i \in 1 .. Len(lines) |-> SortKey(p, lines, whole, i)]

\* The events of a log are keyed, and Sorted is their order by these keys.
LEMMA LinesAreKeyed ==
    ASSUME NEW p, NEW lines \in Conversations, NEW whole \in BOOLEAN
    PROVE  /\ Len(lines) \in Nat
           /\ IsKeyed(KeysOf(p, lines, whole), Len(lines))
           /\ Sorted(p, lines, whole) = Ordered(KeysOf(p, lines, whole), Len(lines))
<1>1. Len(lines) \in Nat
  BY DEF Conversations
<1>2. ASSUME NEW i \in 1 .. Len(lines)
      PROVE  SortKey(p, lines, whole, i) \in Keys /\ SortKey(p, lines, whole, i)[4] = i
  <2>1. TurnRank(p, lines, i) \in Nat
    BY TurnRanks
  <2>2. BlockFrame(lines, whole, lines[i]) \in Nat
    BY FramesAreNumbers
  <2>3. i \in Nat
    BY <1>1
  <2> QED BY <2>1, <2>2, <2>3 DEF SortKey, Keys
<1>3. IsKeyed(KeysOf(p, lines, whole), Len(lines))
  BY <1>2 DEF IsKeyed, KeysOf
<1>4. Sorted(p, lines, whole) = Ordered(KeysOf(p, lines, whole), Len(lines))
  BY DEF Sorted, Ordered, KeysOf, Earlier
<1> QED BY <1>1, <1>3, <1>4
-------------------------------------------------------------------------------
(***************************************************************************)
(* The reading of the sorted events.                                       *)
(***************************************************************************)
Machines == [state : States, flags : SUBSET Flags, tag : Tags \cup {NoTag}]

\* What one event makes of the automaton, by the reading that fits it.
LEMMA StepIs ==
    ASSUME NEW p, NEW m \in Machines, NEW ev \in Messages
    PROVE  \/ /\ m.state \in BeforeRequest /\ ev.from = "server"
              /\ \/ Step(p, m, ev) = m
                 \/ \E to \in {"GREETING_SEEN", "CAPABILITY_ADVERTISED"},
                       flags \in {{}, {"capa_advertised"}} : Step(p, m, ev) = Move(m, to, flags)
           \/ /\ Asks(m, ev)
              /\ Step(p, m, ev) =
                    [Move(m, "STARTTLS_REQUESTED", {"requested"}) EXCEPT !.tag = ev.tag]
           \/ Refuses(p, m, ev) /\ Step(p, m, ev) = Move(m, "SERVER_REJECTED", {"rejected"})
           \/ Consents(p, m, ev) /\ Step(p, m, ev) = Move(m, "SERVER_ACCEPTED", {"accepted"})
           \/ Handshakes(m, ev) /\ Step(p, m, ev) = Move(m, "SUCCEEDED", {"tls_detected"})
           \/ /\ Step(p, m, ev) = m
              /\ ~Asks(m, ev) /\ ~Refuses(p, m, ev) /\ ~Consents(p, m, ev) /\ ~Handshakes(m, ev)
<1> USE DEF Step
<1>1. CASE Greets(p, m, ev)
  BY <1>1 DEF Greets, IsGreeting, BeforeRequest
<1>2. CASE Advertises(p, m, ev) /\ ~Greets(p, m, ev)
  BY <1>2 DEF Advertises, IsCapability, BeforeRequest
<1>3. CASE Asks(m, ev) /\ ~Greets(p, m, ev) /\ ~Advertises(p, m, ev)
  BY <1>3
<1>4. CASE Refuses(p, m, ev) /\ ~Greets(p, m, ev) /\ ~Advertises(p, m, ev) /\ ~Asks(m, ev)
  BY <1>4
<1>5. CASE /\ Consents(p, m, ev) /\ ~Greets(p, m, ev) /\ ~Advertises(p, m, ev) /\ ~Asks(m, ev)
           /\ ~Refuses(p, m, ev)
  BY <1>5
<1>6. CASE /\ Handshakes(m, ev) /\ ~Greets(p, m, ev) /\ ~Advertises(p, m, ev) /\ ~Asks(m, ev)
           /\ ~Refuses(p, m, ev) /\ ~Consents(p, m, ev)
  BY <1>6
<1>7. CASE /\ ~Handshakes(m, ev) /\ ~Greets(p, m, ev) /\ ~Advertises(p, m, ev) /\ ~Asks(m, ev)
           /\ ~Refuses(p, m, ev) /\ ~Consents(p, m, ev)
  BY <1>7
<1> QED BY <1>1, <1>2, <1>3, <1>4, <1>5, <1>6, <1>7

\* The automaton that has left the states before the request has heard one, and one
\* that reads a request has.
Heard(m) == "requested" \in m.flags
Attentive(m) == m.state \in BeforeRequest \/ Heard(m)

\* The fields of an automaton that has moved, and of one that has another tag then.
LEMMA Moved ==
    ASSUME NEW m \in Machines, NEW to \in States, NEW flags \in SUBSET Flags
    PROVE  /\ Move(m, to, flags) \in Machines
           /\ Move(m, to, flags).state = to
           /\ Move(m, to, flags).flags = m.flags \cup flags
           /\ Move(m, to, flags).tag = m.tag
<1>0. m = [state |-> m.state, flags |-> m.flags, tag |-> m.tag]
      /\ m.state \in States /\ m.flags \in SUBSET Flags /\ m.tag \in Tags \cup {NoTag}
  BY DEF Machines
<1>1. PICK x : x = [m EXCEPT !.state = to]
  OBVIOUS
<1>2. x = [state |-> to, flags |-> m.flags, tag |-> m.tag]
  BY <1>0, <1>1
<1>3. ASSUME NEW f
      PROVE  [x EXCEPT !.flags = f] = [state |-> to, flags |-> f, tag |-> m.tag]
  BY <1>2
<1>4. Move(m, to, flags) = [state |-> to, flags |-> m.flags \cup flags, tag |-> m.tag]
  BY <1>1, <1>3 DEF Move
<1>5. m.flags \cup flags \in SUBSET Flags
  BY <1>0
<1> QED BY <1>0, <1>4, <1>5 DEF Machines

\* The fields of an automaton that is given another tag.
LEMMA Retagged ==
    ASSUME NEW m \in Machines, NEW tag \in Tags \cup {NoTag}
    PROVE  /\ [m EXCEPT !.tag = tag] \in Machines
           /\ [m EXCEPT !.tag = tag].state = m.state
           /\ [m EXCEPT !.tag = tag].flags = m.flags
           /\ [m EXCEPT !.tag = tag].tag = tag
  BY DEF Machines

\* An event keeps what has been heard, and a request is heard by whoever reads it.
LEMMA StepHears ==
    ASSUME NEW p, NEW m \in Machines, NEW ev \in Messages, NEW next, next = Step(p, m, ev)
    PROVE  /\ next \in Machines
           /\ Heard(m) => Heard(next)
           /\ Attentive(m) => Attentive(next)
           /\ Attentive(m) /\ IsRequest(ev) => Heard(next)
<1>0. /\ {} \in SUBSET Flags /\ {"capa_advertised"} \in SUBSET Flags
      /\ {"requested"} \in SUBSET Flags /\ {"rejected"} \in SUBSET Flags
      /\ {"accepted"} \in SUBSET Flags /\ {"tls_detected"} \in SUBSET Flags
      /\ {"GREETING_SEEN", "CAPABILITY_ADVERTISED", "STARTTLS_REQUESTED", "SERVER_REJECTED",
          "SERVER_ACCEPTED", "SUCCEEDED"} \subseteq States
      /\ ev.tag \in Tags \cup {NoTag}
  BY DEF Flags, States, BeforeRequest, Messages
<1>1. CASE /\ m.state \in BeforeRequest /\ ev.from = "server"
           /\ \/ next = m
              \/ \E to \in {"GREETING_SEEN", "CAPABILITY_ADVERTISED"},
                    flags \in {{}, {"capa_advertised"}} : next = Move(m, to, flags)
  <2>1. CASE next = m
    BY <1>1, <2>1 DEF IsRequest, Attentive
  <2>2. CASE \E to \in {"GREETING_SEEN", "CAPABILITY_ADVERTISED"},
                flags \in {{}, {"capa_advertised"}} : next = Move(m, to, flags)
    <3>1. PICK to \in {"GREETING_SEEN", "CAPABILITY_ADVERTISED"},
               flags \in {{}, {"capa_advertised"}} : next = Move(m, to, flags)
      BY <2>2
    <3>2. to \in States /\ flags \in SUBSET Flags
      BY <1>0
    <3>3. next \in Machines /\ next.state = to /\ next.flags = m.flags \cup flags
      BY <3>1, <3>2, <1>0, Moved
    <3> QED BY <1>1, <3>3 DEF IsRequest, Attentive, Heard, BeforeRequest
  <2> QED BY <1>1, <2>1, <2>2
<1>2. CASE /\ Asks(m, ev)
           /\ next = [Move(m, "STARTTLS_REQUESTED", {"requested"}) EXCEPT !.tag = ev.tag]
  <2>1. PICK flags \in SUBSET Flags : flags = {"requested"}
    BY <1>0
  <2>2. PICK moved \in Machines : /\ moved = Move(m, "STARTTLS_REQUESTED", flags)
                                 /\ moved.flags = m.flags \cup flags
    BY <1>0, <2>1, Moved
  <2>3. next \in Machines /\ next.flags = m.flags \cup flags
    BY <1>0, <1>2, <2>1, <2>2, Retagged
  <2> QED BY <2>1, <2>3 DEF Attentive, Heard
<1>3. ASSUME NEW to \in {"SERVER_REJECTED", "SERVER_ACCEPTED", "SUCCEEDED"},
             NEW flag \in {"rejected", "accepted", "tls_detected"},
             next = Move(m, to, {flag}), m.state \notin BeforeRequest
      PROVE  /\ next \in Machines
             /\ Heard(m) => Heard(next)
             /\ Attentive(m) => Heard(next)
  <2>1. {flag} \in SUBSET Flags /\ to \in States
    BY <1>0
  <2>2. PICK flags \in SUBSET Flags : flags = {flag}
    BY <2>1
  <2>3. next \in Machines /\ next.flags = m.flags \cup flags
    BY <1>0, <1>3, <2>1, <2>2, Moved
  <2> QED BY <1>3, <2>3 DEF Attentive, Heard
<1>4. CASE Refuses(p, m, ev) /\ next = Move(m, "SERVER_REJECTED", {"rejected"})
  BY <1>3, <1>4 DEF Refuses, BeforeRequest, Attentive
<1>5. CASE Consents(p, m, ev) /\ next = Move(m, "SERVER_ACCEPTED", {"accepted"})
  BY <1>3, <1>5 DEF Consents, BeforeRequest, Attentive
<1>6. CASE Handshakes(m, ev) /\ next = Move(m, "SUCCEEDED", {"tls_detected"})
  BY <1>3, <1>6 DEF Handshakes, BeforeRequest, Attentive
<1>7. CASE /\ next = m
           /\ ~Asks(m, ev)
  BY <1>7 DEF Asks, Attentive
<1>8. \/ /\ m.state \in BeforeRequest /\ ev.from = "server"
         /\ \/ next = m
            \/ \E to \in {"GREETING_SEEN", "CAPABILITY_ADVERTISED"},
                  flags \in {{}, {"capa_advertised"}} : next = Move(m, to, flags)
      \/ /\ Asks(m, ev)
         /\ next = [Move(m, "STARTTLS_REQUESTED", {"requested"}) EXCEPT !.tag = ev.tag]
      \/ Refuses(p, m, ev) /\ next = Move(m, "SERVER_REJECTED", {"rejected"})
      \/ Consents(p, m, ev) /\ next = Move(m, "SERVER_ACCEPTED", {"accepted"})
      \/ Handshakes(m, ev) /\ next = Move(m, "SUCCEEDED", {"tls_detected"})
      \/ next = m /\ ~Asks(m, ev)
  BY StepIs
<1> QED BY <1>1, <1>2, <1>4, <1>5, <1>6, <1>7, <1>8

\* The loop over the sorted events as a fold.
ReadOne(m, i) == Step(protocol, m, log[i])
Reading == INSTANCE FoldFacts WITH Op <- ReadOne

Order == Sorted(protocol, log, syn)
After(k) == Reading!Step(Start, Order, Len(log), k)  \* the automaton after k events

\* Step k of the loop is Step applied to the k-th event in order.
LEMMA ReadingStep ==
    ASSUME NEW base, NEW list, NEW n \in Nat, NEW k \in 1 .. n
    PROVE  Reading!Step(base, list, n, k) = ReadOne(Reading!Step(base, list, n, k - 1), list[k])
  BY Reading!FoldSteps

\* The machine of the report is the automaton after the last event.
LEMMA ReadingSteps ==
    ASSUME log \in Conversations, syn \in BOOLEAN
    PROVE  /\ Len(log) \in Nat
           /\ After(0) = Start
           /\ \A k \in 1 .. Len(log) : After(k) = Step(protocol, After(k - 1), log[Order[k]])
           /\ Machine = After(Len(log))
<1> DEFINE n == Len(log)
           list == Order
<1>1. n \in Nat /\ DOMAIN list = 1 .. n
  BY LinesAreKeyed, SMTT(30) DEF Order, Ordered
<1>2. Machine = FoldLeft(ReadOne, Start, list)
  BY DEF Machine, Assessed, ReadOne, Order
<1> HIDE DEF n, list
<1>3. FoldLeft(ReadOne, Start, list) = Reading!Step(Start, list, n, n)
  BY <1>1 DEF FoldLeft, MapThenFoldSet, Max, Reading!Step, Reading!IsIter, Reading!Max
<1>4. Reading!Step(Start, list, n, 0) = Start
  BY <1>1, Reading!FoldSteps
<1>5. \A k \in 1 .. n :
         Reading!Step(Start, list, n, k) = ReadOne(Reading!Step(Start, list, n, k - 1), list[k])
  BY <1>1, ReadingStep
<1> QED BY <1>1, <1>2, <1>3, <1>4, <1>5 DEF n, list, After, ReadOne

\* Each event is read, and behind those that precede it.
OrderKeys == KeysOf(protocol, log, syn)

\* Every event of the log is read, and those with lesser keys before it.
LEMMA EachIsRead ==
    ASSUME log \in Conversations, syn \in BOOLEAN
    PROVE  /\ \A k \in 1 .. Len(log) : Order[k] \in 1 .. Len(log) /\ log[Order[k]] \in Messages
           /\ \A i \in 1 .. Len(log) : \E k \in 1 .. Len(log) : Order[k] = i
           /\ \A k, j \in 1 .. Len(log) : Precedes(OrderKeys[j], OrderKeys[Order[k]]) =>
                 \E h \in 1 .. k - 1 : Order[h] = j
<1>1. /\ Len(log) \in Nat /\ IsKeyed(OrderKeys, Len(log)) /\ Order = Ordered(OrderKeys, Len(log))
  BY LinesAreKeyed DEF Order, OrderKeys
<1>2. \A i \in 1 .. Len(log) : log[i] \in Messages
  BY DEF Conversations, Spoken
<1>3. Sorts(Order, OrderKeys, Len(log))
  BY <1>1, OrderedSorts
<1> QED BY <1>2, <1>3 DEF Sorts

\* The reading of a log in which the client asked has heard the request at its end.
LEMMA RequestsAreHeard ==
    ASSUME log \in Conversations, syn \in BOOLEAN
    PROVE  /\ Machine \in Machines
           /\ (\E i \in 1 .. Len(log) : Requests(i)) => Heard(Machine)
<1> DEFINE n == Len(log)
<1> DEFINE Fits(k) == /\ After(k) \in Machines /\ Attentive(After(k))
                      /\ \A h \in 1 .. k : Requests(Order[h]) => Heard(After(k))
<1> DEFINE Good == {k \in 0 .. n : Fits(k)}
<1>0. /\ n \in Nat /\ After(0) = Start /\ Machine = After(n)
      /\ \A k \in 1 .. n : After(k) = Step(protocol, After(k - 1), log[Order[k]])
  BY ReadingSteps
<1>1. \A k \in 1 .. n : Order[k] \in 1 .. n /\ log[Order[k]] \in Messages
  BY EachIsRead
<1> HIDE DEF n
<1>2. 0 \in Good
  <2>1. Start \in Machines /\ Attentive(Start)
    BY DEF Start, Machines, States, BeforeRequest, Flags, Attentive
  <2>2. 0 \in 0 .. n /\ 1 .. 0 = {}
    BY <1>0
  <2> QED BY <1>0, <2>1, <2>2
<1>3. ASSUME NEW k \in 1 .. n, k - 1 \in Good PROVE k \in Good
  <2>1. PICK m \in Machines : m = After(k - 1)
    BY <1>3
  <2>2. Attentive(m) /\ \A h \in 1 .. k - 1 : Requests(Order[h]) => Heard(m)
    BY <1>3, <2>1
  <2>3. PICK ev \in Messages : ev = log[Order[k]]
    BY <1>1
  <2>4. PICK next : next = After(k)
    OBVIOUS
  <2>5. next = Step(protocol, m, ev)
    BY <1>0, <2>1, <2>3, <2>4
  <2>6. /\ next \in Machines
        /\ Heard(m) => Heard(next)
        /\ Attentive(m) => Attentive(next)
        /\ Attentive(m) /\ IsRequest(ev) => Heard(next)
    BY <2>5, StepHears
  <2>7. ASSUME NEW h \in 1 .. k, Requests(Order[h]) PROVE Heard(next)
    <3>1. CASE h = k
      BY <2>2, <2>3, <2>6, <2>7, <3>1 DEF Requests
    <3>2. CASE h \in 1 .. k - 1
      BY <2>2, <2>6, <2>7, <3>2
    <3> QED BY <1>0, <3>1, <3>2
  <2> QED BY <1>0, <2>2, <2>4, <2>6, <2>7
<1>4. n \in Good
  <2> HIDE DEF Good
  <2>1. 0 .. n \subseteq Good
    BY <1>0, <1>2, <1>3, Reading!UpTo
  <2> QED BY <1>0, <2>1
<1>5. ASSUME NEW i \in 1 .. n, Requests(i) PROVE Heard(Machine)
  <2>1. PICK k \in 1 .. n : Order[k] = i
    BY EachIsRead DEF n
  <2> QED BY <1>0, <1>4, <1>5, <2>1
<1> QED BY <1>0, <1>4, <1>5 DEF n
-------------------------------------------------------------------------------
(***************************************************************************)
(* What a dialogue puts into the log.                                      *)
(***************************************************************************)
DialogueTypeOK ==
    /\ protocol \in Protocols /\ syn \in BOOLEAN
    /\ log \in Conversations
    /\ now \in Nat /\ losses \in Nat /\ holed \in SUBSET Directions

\* With nothing lost, no block lies behind a gap.
NoHoles == losses = 0 => holed = {} /\ \A i \in 1 .. Len(log) : ~log[i].afterGap

RefusedPhases   == {"refused", "refused and busy"}
\* The phases behind the consent and behind the request.
ConsentedPhases == {"consented", "handshake", "upgraded"}
RequestedPhases == {"requested"} \cup ConsentedPhases

Welcomes(ev)  == ev.from = "server" /\ ev.kind = "greeting"
Agrees(ev)    == ev.from = "server" /\ ev.kind = "ok" /\ ev.tag = RequestTag
Declines(ev)  == ev.kind = "reject" /\ ev.tag = RequestTag /\ protocol = "IMAP"
\* The server speaks TLS.
TurnsToTls(ev) == ev.from = "server" /\ ev.kind = "tls"

\* With nothing lost, the log holds what the phase says was said.
TalkFits ==
    losses = 0 =>
        /\ log = << >> <=> phase = "connected"
        /\ log # << >> => Welcomes(log[1])
        /\ \A i \in 1 .. Len(log) : Requests(i) => log[i].tag = RequestTag
        /\ phase \notin RefusedPhases => \A i \in 1 .. Len(log) : ~Declines(log[i])
        /\ phase \in RequestedPhases => \E i \in 1 .. Len(log) : Requests(i)
        /\ phase \in ConsentedPhases => \E i \in 1 .. Len(log) : Agrees(log[i])
        /\ phase = "upgraded" => \E i \in 1 .. Len(log) : TurnsToTls(log[i])

\* The invariant of the dialogue.
DialogueInv == DialogueTypeOK /\ NoHoles /\ TalkFits

\* The log after one more message.
LEMMA ConversationGrows ==
    ASSUME log \in Conversations, NEW ev, Spoken(ev), log' = Append(log, ev)
    PROVE  /\ log' \in Conversations
           /\ Len(log) \in Nat /\ Len(log') = Len(log) + 1 /\ Len(log') \in 1 .. Len(log')
           /\ \A i \in 1 .. Len(log) : log'[i] = log[i] /\ i \in 1 .. Len(log')
           /\ \A i \in 1 .. Len(log') : i \in 1 .. Len(log) \/ i = Len(log')
           /\ log'[Len(log')] = ev
<1>1. log \in Seq(Messages) /\ ev \in Messages /\ \A i \in 1 .. Len(log) : Spoken(log[i])
  BY DEF Conversations, Spoken
<1>2. /\ log' \in Seq(Messages)
      /\ Len(log) \in Nat /\ Len(log') = Len(log) + 1 /\ Len(log') \in 1 .. Len(log')
      /\ \A i \in 1 .. Len(log) : log'[i] = log[i] /\ i \in 1 .. Len(log')
      /\ \A i \in 1 .. Len(log') : i \in 1 .. Len(log) \/ i = Len(log')
      /\ log'[Len(log')] = ev
  BY <1>1
<1>3. \A i \in 1 .. Len(log') : Spoken(log'[i])
  BY <1>1, <1>2
<1> QED BY <1>2, <1>3 DEF Conversations

\* An IMAP client tags its request.
LEMMA RequestTagIsTag ==
  RequestTag \in Tags \cup {NoTag} /\ (protocol = "IMAP" => RequestTag # NoTag)
  BY DialogueAssumption, MachineAssumption DEF RequestTag

\* The event of a message.
Message(dir, kind, tag) ==
    [from |-> dir, kind |-> kind, tag |-> tag, frame |-> now, afterGap |-> dir \in holed]

\* Captured or lost, a message leaves a state of the types, and with nothing lost no hole.
LEMMA SayKeepsTypes ==
    ASSUME DialogueTypeOK, NoHoles, NEW dir \in Directions,
           NEW kind \in IF dir = "server" THEN ServerKinds ELSE ClientKinds,
           NEW tag \in Tags \cup {NoTag}, NEW to, Say(dir, kind, tag, to)
    PROVE  /\ DialogueTypeOK' /\ NoHoles'
           /\ Spoken(Message(dir, kind, tag))
           /\ losses' = 0 => losses = 0 /\ log' = Append(log, Message(dir, kind, tag))
<1> DEFINE ev == Message(dir, kind, tag)
<1>1. Spoken(ev)
  BY DEF Spoken, Messages, Message, DialogueTypeOK, Directions
<1>2. /\ protocol' = protocol /\ syn' = syn /\ now' = now + 1
      /\ Captured(dir, kind, tag) \/ Lost(dir)
  BY DEF Say
<1>3. CASE Captured(dir, kind, tag)
  <2>1. log' = Append(log, ev) /\ losses' = losses /\ holed' = holed
    BY <1>3 DEF Captured, Message
  <2>2. ev.afterGap = (dir \in holed)
    BY DEF Message
  <2> HIDE DEF ev
  <2>3. /\ log' \in Conversations /\ log'[Len(log')] = ev
        /\ \A i \in 1 .. Len(log) : log'[i] = log[i]
        /\ \A i \in 1 .. Len(log') : i \in 1 .. Len(log) \/ i = Len(log')
    BY <1>1, <2>1, ConversationGrows DEF DialogueTypeOK
  <2>4. DialogueTypeOK'
    BY <1>2, <2>1, <2>3 DEF DialogueTypeOK
  <2>5. NoHoles'
    BY <2>1, <2>2, <2>3 DEF NoHoles
  <2> QED BY <1>1, <2>1, <2>4, <2>5 DEF ev
<1>4. CASE Lost(dir)
  <2>1. log' = log /\ losses' = losses + 1 /\ holed' \in SUBSET Directions
    BY <1>4 DEF Lost, DialogueTypeOK
  <2>2. DialogueTypeOK'
    BY <1>2, <2>1 DEF DialogueTypeOK
  <2>3. losses' # 0
    BY <2>1 DEF DialogueTypeOK
  <2> QED BY <1>1, <2>2, <2>3 DEF NoHoles
<1> QED BY <1>2, <1>3, <1>4

\* What a message may add to a talk of which nothing is lost.
Continues(ev) ==
    /\ phase' # "connected"
    /\ log = << >> => Welcomes(ev)
    /\ IsRequest(ev) => ev.tag = RequestTag
    /\ phase' \notin RefusedPhases => phase \notin RefusedPhases /\ ~Declines(ev)
    /\ phase' \in RequestedPhases => phase \in RequestedPhases \/ IsRequest(ev)
    /\ phase' \in ConsentedPhases => phase \in ConsentedPhases \/ Agrees(ev)
    /\ phase' = "upgraded" => TurnsToTls(ev)

\* A talk goes on by a message that continues it.
LEMMA TalkGoesOn ==
    ASSUME DialogueTypeOK, TalkFits, protocol' = protocol,
           NEW ev, Spoken(ev), losses' = 0 => losses = 0 /\ log' = Append(log, ev) /\ Continues(ev)
    PROVE  TalkFits'
<1> SUFFICES ASSUME losses' = 0 PROVE TalkFits'
  BY DEF TalkFits
<1>0. log \in Conversations /\ losses = 0 /\ log' = Append(log, ev)
  BY DEF DialogueTypeOK
<1>1. /\ log' \in Conversations /\ Len(log) \in Nat /\ Len(log') \in 1 .. Len(log')
      /\ log'[Len(log')] = ev
      /\ \A i \in 1 .. Len(log) : log'[i] = log[i] /\ i \in 1 .. Len(log')
      /\ \A i \in 1 .. Len(log') : i \in 1 .. Len(log) \/ i = Len(log')
  BY <1>0, ConversationGrows
<1>2. RequestTag' = RequestTag
  BY DEF RequestTag
<1>3. log' # << >> /\ phase' # "connected"
  BY <1>1, <1>0 DEF Continues
<1>4. Welcomes(log'[1])
  <2>1. CASE log = << >>
    <3>1. log'[1] = ev
      BY <1>0, <2>1
    <3> QED BY <2>1, <3>1 DEF Continues
  <2>2. CASE log # << >>
    <3>1. 1 \in 1 .. Len(log)
      BY <1>0, <1>1, <2>2 DEF Conversations
    <3> QED BY <1>0, <1>1, <2>2, <3>1 DEF TalkFits
  <2> QED BY <2>1, <2>2
<1>5. \A i \in 1 .. Len(log') : IsRequest(log'[i]) => log'[i].tag = RequestTag
  BY <1>0, <1>1 DEF TalkFits, Continues, Requests
<1>6. ASSUME phase' \notin RefusedPhases, NEW i \in 1 .. Len(log')
      PROVE  ~Declines(log'[i])
  BY <1>0, <1>1, <1>6 DEF TalkFits, Continues
<1>7. ASSUME phase' \in RequestedPhases PROVE \E i \in 1 .. Len(log') : IsRequest(log'[i])
  BY <1>0, <1>1, <1>7 DEF TalkFits, Continues, Requests
<1>8. ASSUME phase' \in ConsentedPhases PROVE \E i \in 1 .. Len(log') : Agrees(log'[i])
  BY <1>0, <1>1, <1>8 DEF TalkFits, Continues
<1>9. ASSUME phase' = "upgraded" PROVE \E i \in 1 .. Len(log') : TurnsToTls(log'[i])
  BY <1>1, <1>9 DEF Continues
<1>10. \A x : /\ Declines(x)' = Declines(x) /\ Agrees(x)' = Agrees(x)
              /\ Welcomes(x)' = Welcomes(x) /\ TurnsToTls(x)' = TurnsToTls(x)
  BY <1>2 DEF Declines, Agrees, Welcomes, TurnsToTls
<1> QED BY <1>2, <1>3, <1>4, <1>5, <1>6, <1>7, <1>8, <1>9, <1>10
        DEF TalkFits, Requests, Declines, Agrees, Welcomes, TurnsToTls

\* Every message keeps the invariant: what it adds is what its phase lets it add.
LEMMA SayKeeps ==
    ASSUME DialogueInv, NEW dir \in Directions,
           NEW kind \in IF dir = "server" THEN ServerKinds ELSE ClientKinds,
           NEW tag \in Tags \cup {NoTag}, NEW to, Say(dir, kind, tag, to),
           losses = 0 => Continues(Message(dir, kind, tag))
    PROVE  DialogueInv'
<1>1. /\ DialogueTypeOK' /\ NoHoles'
      /\ Spoken(Message(dir, kind, tag))
      /\ losses' = 0 => losses = 0 /\ log' = Append(log, Message(dir, kind, tag))
  BY SayKeepsTypes DEF DialogueInv
<1>2. protocol' = protocol
  BY DEF Say
<1>3. PICK ev : ev = Message(dir, kind, tag)
  OBVIOUS
<1>4. TalkFits'
  BY <1>1, <1>2, <1>3, TalkGoesOn DEF DialogueInv
<1> QED BY <1>1, <1>4 DEF DialogueInv

\* What may be said in a phase, by what the next one claims.
MayFollow(dir, kind, tag, to) ==
    /\ to # "connected"
    /\ phase = "connected" => dir = "server" /\ kind = "greeting"
    /\ dir = "client" /\ kind = "starttls" => tag = RequestTag
    /\ to \notin RefusedPhases =>
          /\ phase \notin RefusedPhases
          /\ ~(kind = "reject" /\ tag = RequestTag /\ protocol = "IMAP")
    /\ to \in RequestedPhases =>
          phase \in RequestedPhases \/ (dir = "client" /\ kind = "starttls")
    /\ to \in ConsentedPhases =>
          phase \in ConsentedPhases \/ (dir = "server" /\ kind = "ok" /\ tag = RequestTag)
    /\ to = "upgraded" => dir = "server" /\ kind = "tls"

\* Nothing is said at first.
LEMMA InitDialogueInv == DialogueInit => DialogueInv
<1> SUFFICES ASSUME DialogueInit PROVE DialogueInv
  OBVIOUS
<1>1. << >> \in Conversations /\ Len(<< >>) = 0 /\ 1 .. 0 = {}
  BY DEF Conversations
<1>2. log = << >> /\ phase = "connected" /\ losses = 0 /\ holed = {}
  BY DEF DialogueInit, Init
<1>3. DialogueTypeOK
  BY <1>1, <1>2 DEF DialogueInit, Init, DialogueTypeOK, FirstMessage
<1>4. NoHoles
  BY <1>1, <1>2 DEF NoHoles
<1>5. TalkFits
  BY <1>1, <1>2 DEF TalkFits, RequestedPhases, ConsentedPhases
<1> QED BY <1>3, <1>4, <1>5 DEF DialogueInv

\* Each of the two ends says what its phase lets it say.
LEMMA NextDialogueInv == DialogueInv /\ [DialogueNext]_dialogueVars => DialogueInv'
<1> SUFFICES ASSUME DialogueInv, [DialogueNext]_dialogueVars
             PROVE  DialogueInv'
  OBVIOUS
<1>0. /\ protocol \in {"SMTP", "IMAP", "POP3"}
      /\ "client" \in Directions /\ "server" \in Directions
      /\ NoTag \in Tags \cup {NoTag} /\ RequestTag \in Tags \cup {NoTag}
  BY MachineAssumption, RequestTagIsTag DEF DialogueInv, DialogueTypeOK, Directions
<1>t. losses = 0 => (log = << >> <=> phase = "connected")
  BY DEF DialogueInv, TalkFits
<1>d. ASSUME NEW dir, NEW kind, NEW tag, NEW ev, ev = Message(dir, kind, tag)
      PROVE  /\ IsRequest(ev) <=> dir = "client" /\ kind = "starttls"
             /\ Welcomes(ev) <=> dir = "server" /\ kind = "greeting"
             /\ Agrees(ev) <=> dir = "server" /\ kind = "ok" /\ tag = RequestTag
             /\ Declines(ev) <=> kind = "reject" /\ tag = RequestTag /\ protocol = "IMAP"
             /\ TurnsToTls(ev) <=> dir = "server" /\ kind = "tls"
             /\ ev.tag = tag
  BY <1>d DEF Message, IsRequest, Welcomes, Agrees, Declines, TurnsToTls
<1> DEFINE Says(dir, kind, tag, to) ==
              /\ dir \in Directions
              /\ kind \in IF dir = "server" THEN ServerKinds ELSE ClientKinds
              /\ tag \in Tags \cup {NoTag} /\ Say(dir, kind, tag, to)
<1>k. ASSUME NEW dir, NEW kind, NEW tag, NEW to, Says(dir, kind, tag, to),
             MayFollow(dir, kind, tag, to)
      PROVE  DialogueInv'
  <2>1. PICK ev : ev = Message(dir, kind, tag)
    OBVIOUS
  <2>2. phase' = to
    BY <1>k DEF Say
  <2>3. ASSUME losses = 0 PROVE Continues(ev)
    <3>1. /\ IsRequest(ev) <=> dir = "client" /\ kind = "starttls"
          /\ Welcomes(ev) <=> dir = "server" /\ kind = "greeting"
          /\ Agrees(ev) <=> dir = "server" /\ kind = "ok" /\ tag = RequestTag
          /\ Declines(ev) <=> kind = "reject" /\ tag = RequestTag /\ protocol = "IMAP"
          /\ TurnsToTls(ev) <=> dir = "server" /\ kind = "tls"
          /\ ev.tag = tag
      BY <1>d, <2>1
    <3> HIDE DEF Says
    <3> QED BY <1>k, <1>t, <2>2, <2>3, <3>1 DEF Continues, MayFollow
  <2> QED BY <1>k, <2>1, <2>3, SayKeeps
<1> USE DEF ServerKinds, ClientKinds
<1>s. ASSUME NEW dir \in Directions, NEW kind, NEW tag \in Tags \cup {NoTag}, NEW to,
             kind \in IF dir = "server" THEN ServerKinds ELSE ClientKinds, Say(dir, kind, tag, to)
      PROVE  Says(dir, kind, tag, to)
  BY <1>s
<1> HIDE DEF Says
<1>1. CASE Greet
  <2>1. phase = "connected" /\ Says("server", "greeting", NoTag, "idle")
    BY <1>0, <1>1, <1>s DEF Greet
  <2>2. MayFollow("server", "greeting", NoTag, "idle")
    BY <2>1 DEF MayFollow, RefusedPhases, RequestedPhases, ConsentedPhases
  <2> QED BY <1>k, <2>1, <2>2
<1>2. CASE AskCapabilities
  <2>1. PICK kind \in {"hello", "plain", "other"} :
           phase = "idle" /\ Says("client", kind, NoTag, "asked")
    BY <1>0, <1>2, <1>s DEF AskCapabilities
  <2>2. MayFollow("client", kind, NoTag, "asked")
    BY <2>1 DEF MayFollow, RefusedPhases, RequestedPhases, ConsentedPhases
  <2> QED BY <1>k, <2>1, <2>2
<1>3. CASE ListCapabilities
  <2>1. PICK kind \in {"ok", "capability", "other"} :
           phase = "asked" /\ Says("server", kind, NoTag, "idle")
    BY <1>0, <1>3, <1>s DEF ListCapabilities
  <2>2. MayFollow("server", kind, NoTag, "idle")
    BY <2>1 DEF MayFollow, RefusedPhases, RequestedPhases, ConsentedPhases
  <2> QED BY <1>k, <2>1, <2>2
<1>4. CASE SpeakPlain
  <2>1. PICK to : /\ phase \in {"idle", "refused"} /\ Says("client", "plain", NoTag, to)
                  /\ to = IF phase = "idle" THEN "busy" ELSE "refused and busy"
    BY <1>0, <1>4, <1>s DEF SpeakPlain
  <2>2. MayFollow("client", "plain", NoTag, to)
    BY <2>1 DEF MayFollow, RefusedPhases, RequestedPhases, ConsentedPhases
  <2> QED BY <1>k, <2>1, <2>2
<1>5. CASE AnswerPlain
  <2>1. PICK kind \in {"other", "ok", "reject"}, to \in {"idle", "refused"} :
           /\ phase \in {"busy", "refused and busy"} /\ Says("server", kind, NoTag, to)
           /\ to = IF phase = "busy" THEN "idle" ELSE "refused"
    BY <1>0, <1>5, <1>s DEF AnswerPlain
  <2>2. protocol = "IMAP" => NoTag # RequestTag
    BY RequestTagIsTag
  <2>3. MayFollow("server", kind, NoTag, to)
    BY <2>1, <2>2 DEF MayFollow, RefusedPhases, RequestedPhases, ConsentedPhases
  <2> QED BY <1>k, <2>1, <2>3
<1>6. CASE SpeakPlainAfterConsent
  <2>1. phase = "consented" /\ Says("client", "plain", NoTag, "downgraded")
    BY <1>0, <1>6, <1>s DEF SpeakPlainAfterConsent
  <2>2. MayFollow("client", "plain", NoTag, "downgraded")
    BY <2>1 DEF MayFollow, RefusedPhases, RequestedPhases, ConsentedPhases
  <2> QED BY <1>k, <2>1, <2>2
<1>7. CASE Request
  <2>1. phase = "idle" /\ Says("client", "starttls", RequestTag, "requested")
    BY <1>0, <1>7, <1>s DEF Request
  <2>2. MayFollow("client", "starttls", RequestTag, "requested")
    BY <2>1 DEF MayFollow, RefusedPhases, RequestedPhases, ConsentedPhases
  <2> QED BY <1>k, <2>1, <2>2
<1>8. CASE Consent
  <2>1. phase = "requested" /\ Says("server", "ok", RequestTag, "consented")
    BY <1>0, <1>8, <1>s DEF Consent
  <2>2. MayFollow("server", "ok", RequestTag, "consented")
    BY <2>1 DEF MayFollow, RefusedPhases, RequestedPhases, ConsentedPhases
  <2> QED BY <1>k, <2>1, <2>2
<1>9. CASE Refuse
  <2>1. phase = "requested" /\ Says("server", "reject", RequestTag, "refused")
    BY <1>0, <1>9, <1>s DEF Refuse
  <2>2. MayFollow("server", "reject", RequestTag, "refused")
    BY <2>1 DEF MayFollow, RefusedPhases, RequestedPhases, ConsentedPhases
  <2> QED BY <1>k, <2>1, <2>2
<1>10. CASE ClientTls
  <2>1. phase = "consented" /\ Says("client", "tls", NoTag, "handshake")
    BY <1>0, <1>10, <1>s DEF ClientTls
  <2>2. MayFollow("client", "tls", NoTag, "handshake")
    BY <2>1 DEF MayFollow, RefusedPhases, RequestedPhases, ConsentedPhases
  <2> QED BY <1>k, <2>1, <2>2
<1>11. CASE ServerTls
  <2>1. phase = "handshake" /\ Says("server", "tls", NoTag, "upgraded")
    BY <1>0, <1>11, <1>s DEF ServerTls
  <2>2. MayFollow("server", "tls", NoTag, "upgraded")
    BY <2>1 DEF MayFollow, RefusedPhases, RequestedPhases, ConsentedPhases
  <2> QED BY <1>k, <2>1, <2>2
<1>12. CASE UNCHANGED dialogueVars
  BY <1>12 DEF dialogueVars, vars, DialogueInv, DialogueTypeOK, NoHoles, TalkFits, Requests,
               Declines, Agrees, RequestTag
<1> QED BY <1>1, <1>2, <1>3, <1>4, <1>5, <1>6, <1>7, <1>8, <1>9, <1>10, <1>11, <1>12
        DEF DialogueNext

\* What the log holds is what the two ends have said so far.
THEOREM DialogueHolds == DialogueSpec => []DialogueInv
<1> QED BY InitDialogueInv, NextDialogueInv, PTL DEF DialogueSpec
-------------------------------------------------------------------------------
\* A plaintext fallback is reported of no automaton that has heard a request.
LEMMA FallbackIsUnheard ==
    ASSUME NEW m \in Machines, NEW stream, NEW payload, stream.implicit = FALSE,
           Downgrade(m, stream, payload) = "PLAINTEXT_FALLBACK_OBSERVED"
    PROVE  ~Heard(m)
<1> DEFINE at == Assessment(m, stream).state
<1>1. Evaluate(m, stream).state = at
  BY DEF Evaluate
<1>2. /\ at \in {"SUCCEEDED", "FAILED", "SERVER_ACCEPTED", "STARTTLS_REQUESTED",
                 "CAPABILITY_ADVERTISED", "UNKNOWN", "GREETING_SEEN"}
      /\ at = "CAPABILITY_ADVERTISED" => "requested" \notin m.flags
      /\ at = "SERVER_ACCEPTED" => "accepted" \in m.flags /\ "tls_detected" \notin m.flags
  BY DEF Assessment
<1>3. at = "CAPABILITY_ADVERTISED"
  <2> HIDE DEF at
  <2> QED BY <1>1, <1>2 DEF Downgrade, HasPlaintextPostAcceptance
<1> QED BY <1>2, <1>3 DEF Heard

\* However the blocks are ordered and whatever is lost, no client whose request was
\* captured is said to have stayed in the clear without asking (evaluate_downgrade).
THEOREM FallbackReal == DialogueSpec => []FallbackIsReal
<1>1. ASSUME DialogueInv PROVE FallbackIsReal
  <2>1. log \in Conversations /\ syn \in BOOLEAN
    BY <1>1 DEF DialogueInv, DialogueTypeOK
  <2>2. /\ Machine \in Machines
        /\ (\E i \in 1 .. Len(log) : Requests(i)) => Heard(Machine)
    BY <2>1, RequestsAreHeard
  <2>3. Stream.implicit = FALSE
    BY DEF Stream
  <2>4. ReportedVerdict = "PLAINTEXT_FALLBACK_OBSERVED" => ~Heard(Machine)
    BY <2>2, <2>3, FallbackIsUnheard DEF ReportedVerdict
  <2> QED BY <2>2, <2>4 DEF FallbackIsReal
<1> QED BY <1>1, DialogueHolds, PTL
-------------------------------------------------------------------------------
(***************************************************************************)
(* The reading of a connection that turned to TLS, with nothing lost: the  *)
(* client's block comes first, so that the request is heard before the     *)
(* server's greeting.  SMTP and POP3 take that greeting for the consent,   *)
(* IMAP the tagged OK; either comes before the server's TLS record.        *)
(***************************************************************************)
\* The key of an event without gaps: the frame of the SYN for the client, that of the
\* SYN-ACK for the server.
LEMMA KeysOfWhole ==
    ASSUME log \in Conversations, syn = TRUE, NEW i \in 1 .. Len(log), ~log[i].afterGap
    PROVE  /\ OrderKeys[i] \in Keys
           /\ OrderKeys[i][1] = IF log[i].from = "client" THEN 1 ELSE 2
           /\ OrderKeys[i][2] = TurnRank(protocol, log, i)
<1>1. OrderKeys[i] = SortKey(protocol, log, syn, i)
  BY DEF OrderKeys, KeysOf
<1>2. OrderKeys[i] \in Keys
  <2>1. syn \in BOOLEAN
    OBVIOUS
  <2>2. IsKeyed(OrderKeys, Len(log))
    BY <2>1, LinesAreKeyed DEF OrderKeys
  <2> QED BY <2>2 DEF IsKeyed
<1>3. BlockFrame(log, syn, log[i]) = IF log[i].from = "client" THEN 1 ELSE 2
  BY DEF BlockFrame, FirstFrame
<1> QED BY <1>1, <1>2, <1>3 DEF SortKey

\* The client's block is before the server's; in SMTP and POP3 the greeting is the first of
\* the server's events; a TLS record of the server is the last.
LEMMA BlocksInOrder ==
    ASSUME log \in Conversations, syn = TRUE, \A h \in 1 .. Len(log) : ~log[h].afterGap,
           NEW i \in 1 .. Len(log), NEW j \in 1 .. Len(log),
           log[j].from = "server", Welcomes(log[1])
    PROVE  /\ log[i].from = "client" => Precedes(OrderKeys[i], OrderKeys[j])
           /\ protocol # "IMAP" /\ j # 1 => Precedes(OrderKeys[1], OrderKeys[j])
           /\ /\ log[i].from = "server" /\ log[i].kind # "tls" /\ log[j].kind = "tls"
              => Precedes(OrderKeys[i], OrderKeys[j])
<1>0. Len(log) \in Nat /\ 1 \in 1 .. Len(log)
  BY DEF Conversations
<1>1. \A h \in 1 .. Len(log) :
         /\ OrderKeys[h] \in Keys
         /\ OrderKeys[h][1] = IF log[h].from = "client" THEN 1 ELSE 2
         /\ OrderKeys[h][2] = TurnRank(protocol, log, h)
  BY KeysOfWhole
<1>2. ASSUME log[i].from = "client" PROVE Precedes(OrderKeys[i], OrderKeys[j])
  <2>1. OrderKeys[i][1] < OrderKeys[j][1]
    BY <1>1, <1>2
  <2> QED BY <1>1, <2>1, PrecedesIs
<1>3. ASSUME protocol # "IMAP", j # 1 PROVE Precedes(OrderKeys[1], OrderKeys[j])
  <2>1. GreetsFirst(protocol, log, 1)
    <3>1. 1 .. 1 - 1 = {}
      OBVIOUS
    <3> QED BY <3>1 DEF GreetsFirst, IsGreeting, Welcomes
  <2>2. ~GreetsFirst(protocol, log, j)
    <3>1. 1 \in 1 .. j - 1
      BY <1>0, <1>3
    <3> QED BY <2>1, <3>1 DEF GreetsFirst
  <2>3. TurnRank(protocol, log, 1) = 10
    BY <1>0, <2>1, TurnRanks
  <2>4. TurnRank(protocol, log, j) \in Nat /\ TurnRank(protocol, log, j) >= 30
    BY <2>2, TurnRanks
  <2>5. OrderKeys[1][1] = OrderKeys[j][1] /\ OrderKeys[1][2] < OrderKeys[j][2]
    BY <1>0, <1>1, <2>3, <2>4 DEF Welcomes
  <2> QED BY <1>0, <1>1, <2>5, PrecedesIs
<1>4. ASSUME log[i].from = "server", log[i].kind # "tls", log[j].kind = "tls"
      PROVE  Precedes(OrderKeys[i], OrderKeys[j])
  <2>1. TurnRank(protocol, log, i) \in Nat /\ TurnRank(protocol, log, i) <= 50
    BY <1>4, TurnRanks
  <2>2. TurnRank(protocol, log, j) = 60
    BY <1>4, TurnRanks
  <2>3. OrderKeys[i][1] = OrderKeys[j][1] /\ OrderKeys[i][2] < OrderKeys[j][2]
    BY <1>1, <1>4, <2>1, <2>2
  <2> QED BY <1>1, <2>3, PrecedesIs
<1> QED BY <1>2, <1>3, <1>4

\* What the reading has come to, by the events it has read: the request (asks), the
\* answer it takes for the consent and the server's first record.
Reached(m, asked, consented, turned) ==
    /\ m.state \in {"CONNECTED", "STARTTLS_REQUESTED", "SERVER_ACCEPTED", "SUCCEEDED"}
    /\ m.state = "STARTTLS_REQUESTED" => m.tag = RequestTag
    /\ "rejected" \notin m.flags
    /\ m.state # "CONNECTED" => "requested" \in m.flags
    /\ m.state \in {"SERVER_ACCEPTED", "SUCCEEDED"} => "accepted" \in m.flags
    /\ m.state = "SUCCEEDED" => "tls_detected" \in m.flags
    /\ asked => m.state # "CONNECTED"
    /\ consented => m.state \in {"SERVER_ACCEPTED", "SUCCEEDED"}
    /\ turned => m.state = "SUCCEEDED"

\* In a whole connection every event of the server comes behind the request, the record
\* behind the consent, and nothing that could be a refusal before the consent.
ComesInOrder(ev, asked, consented, asks, consents, turns) ==
    /\ ev.from = "server" => asked
    /\ IsRequest(ev) => ev.tag = RequestTag
    /\ asks => IsRequest(ev)
    /\ consents => IsOk(protocol, [tag |-> RequestTag], ev)
    /\ turns => TurnsToTls(ev) /\ consented
    /\ IsReject(protocol, [tag |-> RequestTag], ev) => consented

\* One more event that comes so keeps what has been reached.
LEMMA ReachesOn ==
    ASSUME NEW m \in Machines, NEW ev \in Messages,
           NEW asked \in BOOLEAN, NEW consented \in BOOLEAN, NEW turned \in BOOLEAN,
           NEW asks \in BOOLEAN, NEW consents \in BOOLEAN, NEW turns \in BOOLEAN,
           Reached(m, asked, consented, turned),
           ComesInOrder(ev, asked, consented, asks, consents, turns)
    PROVE  Reached(Step(protocol, m, ev), asked \/ asks, consented \/ consents, turned \/ turns)
<1> SUFFICES ASSUME NEW next, next = Step(protocol, m, ev)
             PROVE  Reached(next, asked \/ asks, consented \/ consents, turned \/ turns)
  OBVIOUS
<1>c. /\ ev.from = "server" => asked
      /\ IsRequest(ev) => ev.tag = RequestTag
      /\ asks => IsRequest(ev)
      /\ consents => IsOk(protocol, [tag |-> RequestTag], ev)
      /\ turns => TurnsToTls(ev) /\ consented
      /\ IsReject(protocol, [tag |-> RequestTag], ev) => consented
  BY DEF ComesInOrder
<1>0. /\ {"requested"} \in SUBSET Flags /\ {"accepted"} \in SUBSET Flags
      /\ {"tls_detected"} \in SUBSET Flags
      /\ {"STARTTLS_REQUESTED", "SERVER_ACCEPTED", "SUCCEEDED"} \subseteq States
      /\ ev.tag \in Tags \cup {NoTag}
  BY DEF Flags, States, BeforeRequest, Messages
<1>1. next \in Machines
  BY StepHears
<1>2. consents => ev.from = "server" /\ ev.kind # "tls"
  BY <1>c DEF IsOk, Answers
<1>3. turns => ev.from = "server" /\ ev.kind = "tls" /\ consented
  BY <1>c DEF TurnsToTls
<1>4. asks => ev.from = "client" /\ ev.kind = "starttls"
  BY <1>c DEF IsRequest
<1>5. ev.from \in {"server", "client"}
  BY DEF Messages, Directions
<1>6. CASE m.state = "CONNECTED"
  <2>1. ~asked /\ ~consented /\ ~turned /\ ev.from # "server"
    BY <1>c, <1>6 DEF Reached
  <2>2. ~consents /\ ~turns
    BY <1>2, <1>3, <2>1
  <2>3. CASE Asks(m, ev)
    <3>1. next = [Move(m, "STARTTLS_REQUESTED", {"requested"}) EXCEPT !.tag = ev.tag]
      BY <1>6, <2>1, <2>3, StepIs DEF Asks, Refuses, Consents, Handshakes
    <3>2. PICK flags \in SUBSET Flags : flags = {"requested"}
      BY <1>0
    <3>3. PICK moved \in Machines : /\ moved = Move(m, "STARTTLS_REQUESTED", flags)
                                    /\ moved.state = "STARTTLS_REQUESTED"
                                    /\ moved.flags = m.flags \cup flags
      BY <1>0, <3>2, Moved
    <3>4. /\ next.state = "STARTTLS_REQUESTED" /\ next.tag = RequestTag
          /\ next.flags = m.flags \cup flags
      BY <1>0, <1>c, <2>3, <3>1, <3>2, <3>3, Retagged DEF Asks
    <3> QED BY <1>1, <2>1, <2>2, <3>2, <3>4 DEF Reached
  <2>4. CASE ~Asks(m, ev)
    <3>1. next = m
      BY <1>6, <2>1, <2>4, StepIs DEF Refuses, Consents, Handshakes
    <3>2. ~asks
      BY <1>c, <1>6, <2>4 DEF Asks, BeforeRequest
    <3> QED BY <1>1, <1>6, <2>1, <2>2, <3>1, <3>2 DEF Reached
  <2> QED BY <2>3, <2>4
<1>7. CASE m.state = "STARTTLS_REQUESTED"
  <2>1. m.tag = RequestTag /\ ~consented /\ ~turned /\ ~turns
    BY <1>7, <1>3 DEF Reached
  <2>2. ~Refuses(protocol, m, ev)
    BY <1>c, <2>1, TagDecides DEF Refuses
  <2>3. CASE Consents(protocol, m, ev)
    <3>1. next = Move(m, "SERVER_ACCEPTED", {"accepted"})
      BY <1>7, <2>2, <2>3, StepIs DEF Asks, Handshakes, BeforeRequest
    <3>2. PICK flags \in SUBSET Flags : flags = {"accepted"}
      BY <1>0
    <3>3. next.state = "SERVER_ACCEPTED" /\ next.flags = m.flags \cup flags
      BY <1>0, <3>1, <3>2, Moved
    <3>4. "requested" \in m.flags /\ "rejected" \notin m.flags
      BY <1>7 DEF Reached
    <3> QED BY <1>1, <2>1, <3>2, <3>3, <3>4 DEF Reached
  <2>4. CASE ~Consents(protocol, m, ev)
    <3>1. next = m
      BY <1>7, <2>2, <2>4, StepIs DEF Asks, Handshakes, BeforeRequest
    <3>2. ~consents
      BY <1>c, <1>7, <2>1, <2>4, TagDecides DEF Consents
    <3> QED BY <1>1, <1>7, <2>1, <3>1, <3>2 DEF Reached
  <2> QED BY <2>3, <2>4
<1>8. CASE m.state = "SERVER_ACCEPTED"
  <2>1. ~turned
    BY <1>8 DEF Reached
  <2>2. CASE Handshakes(m, ev)
    <3>1. next = Move(m, "SUCCEEDED", {"tls_detected"})
      BY <1>8, <2>2, StepIs DEF Asks, Refuses, Consents, BeforeRequest
    <3>2. PICK flags \in SUBSET Flags : flags = {"tls_detected"}
      BY <1>0
    <3>3. next.state = "SUCCEEDED" /\ next.flags = m.flags \cup flags
      BY <1>0, <3>1, <3>2, Moved
    <3>4. "requested" \in m.flags /\ "rejected" \notin m.flags /\ "accepted" \in m.flags
      BY <1>8 DEF Reached
    <3> QED BY <1>1, <3>2, <3>3, <3>4 DEF Reached
  <2>3. CASE ~Handshakes(m, ev)
    <3>1. next = m
      BY <1>8, <2>3, StepIs DEF Asks, Refuses, Consents, BeforeRequest
    <3>2. ~turns
      BY <1>3, <1>8, <2>3 DEF Handshakes
    <3> QED BY <1>1, <1>8, <2>1, <3>1, <3>2 DEF Reached
  <2> QED BY <2>2, <2>3
<1>9. CASE m.state = "SUCCEEDED"
  <2>1. next = m
    BY <1>9, StepIs DEF Asks, Refuses, Consents, Handshakes, BeforeRequest
  <2> QED BY <1>1, <1>9, <2>1 DEF Reached
<1> QED BY <1>6, <1>7, <1>8, <1>9 DEF Reached

\* What a whole connection that turned to TLS holds: the request, the answer the reading
\* takes for the consent, and the server's record.
LEMMA UpgradeIsRead ==
    ASSUME DialogueInv, phase = "upgraded", syn, losses = 0
    PROVE  /\ Machine.state = "SUCCEEDED" /\ "rejected" \notin Machine.flags
           /\ {"requested", "accepted", "tls_detected"} \subseteq Machine.flags
<1> DEFINE n == Len(log)
<1>0. /\ log \in Conversations /\ syn = TRUE /\ syn \in BOOLEAN /\ n \in Nat
      /\ protocol \in {"SMTP", "IMAP", "POP3"}
  BY MachineAssumption DEF DialogueInv, DialogueTypeOK, Conversations
<1>1. \A i \in 1 .. n : ~log[i].afterGap
  BY DEF DialogueInv, NoHoles
<1>2. /\ log # << >> /\ Welcomes(log[1])
      /\ \A i \in 1 .. n : Requests(i) => log[i].tag = RequestTag
      /\ \A i \in 1 .. n : ~Declines(log[i])
      /\ \E i \in 1 .. n : Requests(i)
      /\ \E i \in 1 .. n : Agrees(log[i])
      /\ \E i \in 1 .. n : TurnsToTls(log[i])
  BY DEF DialogueInv, TalkFits, RefusedPhases, RequestedPhases, ConsentedPhases
<1>3. 1 \in 1 .. n
  BY <1>0, <1>2 DEF Conversations
<1>4. PICK r \in 1 .. n : Requests(r)
  BY <1>2
<1>5. PICK t \in 1 .. n : TurnsToTls(log[t])
  BY <1>2
<1>6. PICK c \in 1 .. n : /\ IsOk(protocol, [tag |-> RequestTag], log[c])
                          /\ log[c].from = "server" /\ log[c].kind # "tls"
                          /\ protocol # "IMAP" => c = 1
  <2>1. CASE protocol = "IMAP"
    <3>1. PICK c \in 1 .. n : Agrees(log[c])
      BY <1>2
    <3> QED BY <2>1, <3>1 DEF Agrees, IsOk, Answers
  <2>2. CASE protocol # "IMAP"
    BY <1>2, <1>3, <2>2 DEF Welcomes, IsOk, Answers
  <2> QED BY <2>1, <2>2
<1>7. /\ After(0) = Start /\ Machine = After(n)
      /\ \A k \in 1 .. n : After(k) = Step(protocol, After(k - 1), log[Order[k]])
  BY <1>0, ReadingSteps
<1>8. /\ \A k \in 1 .. n : Order[k] \in 1 .. n /\ log[Order[k]] \in Messages
      /\ \A i \in 1 .. n : \E k \in 1 .. n : Order[k] = i
      /\ \A k, j \in 1 .. n : Precedes(OrderKeys[j], OrderKeys[Order[k]]) =>
            \E h \in 1 .. k - 1 : Order[h] = j
  BY <1>0, EachIsRead
<1>9. ASSUME NEW i \in 1 .. n, NEW j \in 1 .. n, log[j].from = "server"
      PROVE  /\ log[i].from = "client" => Precedes(OrderKeys[i], OrderKeys[j])
             /\ protocol # "IMAP" /\ j # 1 => Precedes(OrderKeys[1], OrderKeys[j])
             /\ log[i].from = "server" /\ log[i].kind # "tls" /\ log[j].kind = "tls"
                => Precedes(OrderKeys[i], OrderKeys[j])
  BY <1>0, <1>1, <1>2, <1>9, BlocksInOrder
<1> HIDE DEF n
<1> DEFINE IsReadBy(i, k) == \E h \in 1 .. k : Order[h] = i
           Fits(k) == /\ After(k) \in Machines
                      /\ Reached(After(k), IsReadBy(r, k), IsReadBy(c, k), IsReadBy(t, k))
           Good == {k \in 0 .. n : Fits(k)}
<1>10. 0 \in Good
  <2>1. \A i : IsReadBy(i, 0) = FALSE
    OBVIOUS
  <2>2. Start \in Machines /\ Reached(Start, FALSE, FALSE, FALSE)
    BY DEF Start, Machines, States, BeforeRequest, Flags, Reached
  <2>3. 0 \in 0 .. n
    BY <1>0
  <2> HIDE DEF IsReadBy
  <2>4. Reached(After(0), IsReadBy(r, 0), IsReadBy(c, 0), IsReadBy(t, 0))
    BY <1>7, <2>1, <2>2 DEF Reached
  <2> QED BY <1>7, <2>2, <2>3, <2>4
<1>11. ASSUME NEW k \in 1 .. n, k - 1 \in Good PROVE k \in Good
  <2>0. k \in Nat /\ k - 1 \in Nat
    BY <1>0
  <2>1. PICK m \in Machines : m = After(k - 1)
    BY <1>11
  <2>2. PICK ev \in Messages : ev = log[Order[k]]
    BY <1>8
  <2>3. PICK next : next = After(k)
    OBVIOUS
  <2>4. next = Step(protocol, m, ev)
    BY <1>7, <2>1, <2>2, <2>3
  <2>5. PICK i \in 1 .. n : i = Order[k]
    BY <1>8
  <2>6. ASSUME NEW j PROVE IsReadBy(j, k) <=> IsReadBy(j, k - 1) \/ i = j
    <3>1. \A h \in 1 .. k : h \in 1 .. k - 1 \/ h = k
      BY <2>0
    <3>2. \A h \in 1 .. k - 1 : h \in 1 .. k
      BY <2>0
    <3>3. k \in 1 .. k
      BY <2>0
    <3> QED BY <2>5, <3>1, <3>2, <3>3
  <2>7. PICK asked \in BOOLEAN, consented \in BOOLEAN, turned \in BOOLEAN,
             asks \in BOOLEAN, consents \in BOOLEAN, turns \in BOOLEAN :
           /\ asked = IsReadBy(r, k - 1) /\ consented = IsReadBy(c, k - 1)
           /\ turned = IsReadBy(t, k - 1)
           /\ asks = (i = r) /\ consents = (i = c) /\ turns = (i = t)
    OBVIOUS
  <2>8. Reached(m, asked, consented, turned)
    BY <1>11, <2>1, <2>7
  <2>9. \A j \in 1 .. n : Precedes(OrderKeys[j], OrderKeys[i]) => IsReadBy(j, k - 1)
    BY <1>8, <2>5
  <2> HIDE DEF IsReadBy
  <2>10. ev.from = "server" => asked
    BY <1>4, <1>9, <2>2, <2>5, <2>7, <2>9 DEF Requests, IsRequest
  <2>11. IsRequest(ev) => ev.tag = RequestTag
    BY <1>2, <2>2, <2>5 DEF Requests
  <2>12. asks => IsRequest(ev)
    BY <1>4, <2>2, <2>5, <2>7 DEF Requests
  <2>13. consents => IsOk(protocol, [tag |-> RequestTag], ev)
    BY <1>6, <2>2, <2>5, <2>7
  <2>14. turns => TurnsToTls(ev) /\ consented
    BY <1>5, <1>6, <1>9, <2>2, <2>5, <2>7, <2>9 DEF TurnsToTls
  <2>15. ASSUME IsReject(protocol, [tag |-> RequestTag], ev) PROVE consented
    <3>1. ev.from = "server" /\ ev.kind = "reject" /\ (protocol = "IMAP" => ev.tag = RequestTag)
      BY <2>15 DEF IsReject, Answers
    <3>2. protocol # "IMAP"
      BY <1>2, <2>2, <2>5, <3>1 DEF Declines
    <3>3. i # 1
      BY <1>2, <2>2, <2>5, <3>1 DEF Welcomes
    <3>4. c = 1 /\ log[i].from = "server"
      BY <1>6, <2>2, <2>5, <3>1, <3>2
    <3>5. Precedes(OrderKeys[c], OrderKeys[i])
      BY <1>9, <3>2, <3>3, <3>4
    <3> QED BY <2>7, <2>9, <3>5
  <2>c. ComesInOrder(ev, asked, consented, asks, consents, turns)
    BY <2>10, <2>11, <2>12, <2>13, <2>14, <2>15 DEF ComesInOrder
  <2>16. next \in Machines
    BY <2>4, StepHears
  <2>17. Reached(next, IsReadBy(r, k), IsReadBy(c, k), IsReadBy(t, k))
    <3>1. Reached(next, asked \/ asks, consented \/ consents, turned \/ turns)
      BY <2>4, <2>8, <2>c, ReachesOn
    <3> QED BY <2>6, <2>7, <3>1 DEF Reached
  <2>18. k \in 0 .. n
    BY <1>0
  <2> QED BY <2>3, <2>16, <2>17, <2>18
<1>12. n \in Good
  <2> HIDE DEF Good
  <2>1. 0 .. n \subseteq Good
    BY <1>0, <1>10, <1>11, Reading!UpTo
  <2> QED BY <1>0, <2>1
<1>13. IsReadBy(t, n)
  BY <1>5, <1>8
<1>14. Reached(Machine, IsReadBy(r, n), IsReadBy(c, n), IsReadBy(t, n))
  BY <1>7, <1>12
<1> HIDE DEF IsReadBy
<1> QED BY <1>13, <1>14 DEF Reached

\* A whole connection that turned to TLS is reported as such and as benign, whichever
\* of the three protocols and however many messages it has (evaluate_stream,
\* evaluate_downgrade).
THEOREM UpgradeReported == DialogueSpec => []UpgradeIsReported
<1>1. ASSUME DialogueInv PROVE UpgradeIsReported
  <2> SUFFICES ASSUME phase = "upgraded", syn, losses = 0
               PROVE  Reported = "SUCCEEDED" /\ ReportedVerdict = "BENIGN"
    BY DEF UpgradeIsReported
  <2>1. /\ Machine.state = "SUCCEEDED" /\ "rejected" \notin Machine.flags
        /\ {"requested", "accepted", "tls_detected"} \subseteq Machine.flags
    BY <1>1, UpgradeIsRead
  <2>2. Stream.implicit = FALSE
    BY DEF Stream
  <2>3. Evaluate(Machine, Stream).state = "SUCCEEDED"
    <3>1. Assessment(Machine, Stream) = [state |-> "SUCCEEDED", confidence |-> Confidence(Stream)]
      BY <2>1 DEF Assessment
    <3> QED BY <2>2, <3>1 DEF Evaluate
  <2>4. Downgrade(Machine, Stream, ClientPayload(log)) = "BENIGN"
    BY <2>1, <2>2, <2>3 DEF Downgrade, Trusted, HasPlaintextPostAcceptance
  <2> QED BY <2>3, <2>4 DEF Reported, ReportedVerdict
<1> QED BY <1>1, DialogueHolds, PTL
===============================================================================
