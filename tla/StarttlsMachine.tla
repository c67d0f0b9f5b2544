---------------------------- MODULE StarttlsMachine ---------------------------
(***************************************************************************)
(* The automaton of StarttlsReading on any events in any order;            *)
(* StarttlsDialogue has the events of a captured connection, sorted as the *)
(* service sorts them.                                                     *)
(***************************************************************************)
EXTENDS StarttlsReading

CONSTANTS Protocols,  \* of "SMTP", "IMAP", "POP3"
          Tags,       \* tags an IMAP client uses
          MaxEvents   \* bound: events of a connection

ASSUME MachineAssumption ==
    /\ Protocols \subseteq {"SMTP", "IMAP", "POP3"}
    /\ NoTag \notin Tags
    /\ MaxEvents \in Nat

VARIABLES protocol,
          machine,   \* state, flags and active_tag
          log        \* the events read so far

vars == <<protocol, machine, log>>

Tagged(p, kind) == p = "IMAP" /\ kind \in {"ok", "reject", "starttls"}

Events(p) ==
    {[from |-> "server", kind |-> k, tag |-> t] : k \in ServerKinds, t \in Tags \cup {NoTag}}
        \cup {[from |-> "client", kind |-> k, tag |-> t] : k \in ClientKinds, t \in Tags \cup {NoTag}}

\* A line carries a tag exactly when its kind has one in the protocol.
ProperEvents(p) == {ev \in Events(p) : (ev.tag # NoTag) = Tagged(p, ev.kind)}
-------------------------------------------------------------------------------
Init ==
    /\ protocol \in Protocols
    /\ machine = Start
    /\ log = << >>

Read(ev) ==
    /\ Len(log) < MaxEvents
    /\ machine' = Step(protocol, machine, ev)
    /\ log' = Append(log, ev)
    /\ UNCHANGED protocol

Next == \E ev \in ProperEvents(protocol) : Read(ev)

Spec == Init /\ [][Next]_vars
-------------------------------------------------------------------------------
Requests(i) == IsRequest(log[i])
ConsentsTo(i, j) ==
    /\ i < j
    /\ IsOk(protocol, [tag |-> log[i].tag], log[j])
    /\ \A k \in i + 1 .. j - 1 : ~IsReject(protocol, [tag |-> log[i].tag], log[k])

\* A success is reported only for a request of the client, the server's consent to
\* that very request with no refusal in between, and a TLS record behind both; a
\* consent or a record that comes too early never counts
\* (evaluate loops; tests/test_starttls_machine.py:385-400).
SuccessIsOrdered ==
    machine.state = "SUCCEEDED" =>
        \E i, j, k \in 1 .. Len(log) :
            Requests(i) /\ ConsentsTo(i, j) /\ j < k /\ log[k].kind = "tls"

\* A connection that was refused is reported as refused for good: what the server
\* or the client says later does not turn it into consent or success.
RefusalIsFinal ==
    [][machine.state \in {"SERVER_REJECTED", "SUCCEEDED"} => machine' = machine]_vars
===============================================================================
