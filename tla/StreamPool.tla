------------------------------ MODULE StreamPool ------------------------------
(***************************************************************************)
(* TCPReassemblyService and the lifecycle half of ConversationTracker      *)
(* (services/tcp_reassembly_service.py): canonical 4-tuple keys, reuse of  *)
(* a 4-tuple, least-recently-used eviction, generations, and the final     *)
(* drain of reassemble_packet_stream.  The bytes of a conversation are the *)
(* subject of DirectionalReassembler; here a tracker keeps the frames that *)
(* were routed to each of its two flows.                                   *)
(***************************************************************************)
EXTENDS Naturals, Sequences, FiniteSets

CONSTANTS Keys,              \* canonical 4-tuples "ep1<->ep2"
          FlagSets,          \* TCP flag combinations seen on the wire
          MaxActiveStreams,  \* self.max_active_streams
          MaxPackets         \* length of the longest capture considered

ASSUME PoolAssumption ==
    /\ FlagSets \subseteq SUBSET {"SYN", "ACK", "FIN", "RST"}
    /\ MaxActiveStreams \in Nat \ {0}
    /\ MaxPackets \in Nat

VARIABLES active_streams,       \* key -> tracker, for the keys in the pool
          generation_counters,  \* key -> generations opened so far
          emitted,              \* ReconstructedStreams handed to the consumer
          wire,                 \* the packets read so far (frame n is wire[n])
          draining              \* the packet iterator is exhausted

vars == <<active_streams, generation_counters, emitted, wire, draining>>

Endpoints  == {"ep1", "ep2"}
Packets    == [key : Keys, src : Endpoints, flags : FlagSets]
Lifecycles == {"UNKNOWN", "ESTABLISHING", "ESTABLISHED", "GRACEFULLY_CLOSED",
               "RESET"}
Reasons    == {"FIN", "RST", "END_OF_CAPTURE", "PURGED", "CONNECTION_REUSED"}

\* fin_seen and rst_seen are written and never read, so they are left out;
\* order stands for the position of the key in the OrderedDict.
Trackers ==
    [gen : Nat \ {0}, client : Endpoints, lifecycle : Lifecycles,
     syn_seen : BOOLEAN, syn_ack_seen : BOOLEAN,
     termination_reason : Reasons \cup {"NONE"},
     client_frames : SUBSET Nat, server_frames : SUBSET Nat, order : Nat]

Records ==
    [key : Keys, gen : Nat \ {0}, client : Endpoints, lifecycle : Lifecycles,
     termination_reason : Reasons,
     client_frames : SUBSET Nat, server_frames : SUBSET Nat]

Frames(s) == s.client_frames \cup s.server_frames
-------------------------------------------------------------------------------
\* Packets.

Has(pkt, flag) == flag \in pkt.flags
IsNewSyn(pkt)  == Has(pkt, "SYN") /\ ~Has(pkt, "ACK")
IsSynAck(pkt)  == Has(pkt, "SYN") /\ Has(pkt, "ACK")

\* ConversationTracker.

NewTracker(gen, pkt, now) ==
    [gen |-> gen, client |-> pkt.src, lifecycle |-> "UNKNOWN",
     syn_seen |-> FALSE, syn_ack_seen |-> FALSE, termination_reason |-> "NONE",
     client_frames |-> {}, server_frames |-> {}, order |-> now]

IsClosedOrReset(t) == t.lifecycle \in {"GRACEFULLY_CLOSED", "RESET"}

\* Mutant: established without the SYN-ACK.
MutantLifecycleAfter(t, pkt) ==
    CASE Has(pkt, "RST") -> "RESET"
      [] Has(pkt, "FIN") /\ ~Has(pkt, "RST") -> "GRACEFULLY_CLOSED"
      [] t.syn_seen /\ Has(pkt, "ACK") -> "ESTABLISHED"
      [] IsNewSyn(pkt) -> "ESTABLISHING"
      [] OTHER -> t.lifecycle

\* The lifecycle after a packet: the tests of add_packet in their order.
LifecycleAfter(t, pkt) ==
    LET opened    == IF IsNewSyn(pkt) THEN "ESTABLISHING" ELSE t.lifecycle
        handshake == /\ t.syn_seen \/ IsNewSyn(pkt)
                     /\ t.syn_ack_seen \/ IsSynAck(pkt)
                     /\ Has(pkt, "ACK") /\ ~Has(pkt, "SYN")
        agreed    == IF handshake /\ opened = "ESTABLISHING"
                     THEN "ESTABLISHED" ELSE opened
        reset     == IF Has(pkt, "RST") THEN "RESET" ELSE agreed
    IN  IF Has(pkt, "FIN") /\ reset # "RESET" THEN "GRACEFULLY_CLOSED" ELSE reset

ReasonAfter(t, pkt) ==
    CASE LifecycleAfter(t, pkt) = "GRACEFULLY_CLOSED" /\ Has(pkt, "FIN") -> "FIN"
      [] Has(pkt, "RST") -> "RST"
      [] OTHER -> t.termination_reason

\* Mutant: the two directions are swapped.
MutantAddPacket(t, pkt, frame) ==
    [t EXCEPT !.syn_seen = @ \/ IsNewSyn(pkt),
              !.syn_ack_seen = @ \/ IsSynAck(pkt),
              !.lifecycle = LifecycleAfter(t, pkt),
              !.termination_reason = ReasonAfter(t, pkt),
              !.client_frames = IF pkt.src # t.client THEN @ \cup {frame} ELSE @,
              !.server_frames = IF pkt.src # t.client THEN @ ELSE @ \cup {frame}]

AddPacket(t, pkt, frame) ==
    [t EXCEPT !.syn_seen = @ \/ IsNewSyn(pkt),
              !.syn_ack_seen = @ \/ IsSynAck(pkt),
              !.lifecycle = LifecycleAfter(t, pkt),
              !.termination_reason = ReasonAfter(t, pkt),
              !.client_frames = IF pkt.src = t.client THEN @ \cup {frame} ELSE @,
              !.server_frames = IF pkt.src = t.client THEN @ ELSE @ \cup {frame}]

FinalReason(t, reason) ==
    IF reason \in {"CONNECTION_REUSED", "PURGED"} \/ t.termination_reason = "NONE"
    THEN reason ELSE t.termination_reason

Finalize(key, t, reason) ==
    [key |-> key, gen |-> t.gen, client |-> t.client, lifecycle |-> t.lifecycle,
     termination_reason |-> FinalReason(t, reason),
     client_frames |-> t.client_frames, server_frames |-> t.server_frames]
-------------------------------------------------------------------------------
\* The pool: an OrderedDict whose least recently used key comes first.

Without(pool, key) == [k \in DOMAIN pool \ {key} |-> pool[k]]
With(pool, key, t) == [k \in DOMAIN pool \cup {key} |-> IF k = key THEN t ELSE pool[k]]

Oldest(pool) ==
    CHOOSE k \in DOMAIN pool : \A j \in DOMAIN pool : pool[k].order <= pool[j].order

\* A closed conversation, or a fresh SYN, ends the tracker of the 4-tuple.
Reuses(pkt) ==
    /\ pkt.key \in DOMAIN active_streams
    /\ IsClosedOrReset(active_streams[pkt.key]) \/ IsNewSyn(pkt)

PoolAfterReuse(pkt) ==
    IF Reuses(pkt) THEN Without(active_streams, pkt.key) ELSE active_streams

\* Mutant: the capacity test is made on the pool before the reuse.
MutantEvictsEarly(pkt) ==
    /\ pkt.key \notin DOMAIN PoolAfterReuse(pkt)
    /\ Cardinality(DOMAIN active_streams) >= MaxActiveStreams
    /\ DOMAIN PoolAfterReuse(pkt) # {}

\* The capacity test, made on the pool the reuse left.
Evicts(pkt) ==
    /\ pkt.key \notin DOMAIN PoolAfterReuse(pkt)
    /\ Cardinality(DOMAIN PoolAfterReuse(pkt)) >= MaxActiveStreams

PoolAfterEviction(pkt) ==
    IF Evicts(pkt) THEN Without(PoolAfterReuse(pkt), Oldest(PoolAfterReuse(pkt)))
                   ELSE PoolAfterReuse(pkt)

\* Mutant: an evicted stream is dropped.
MutantFinalized(pkt) ==
    IF Reuses(pkt)
    THEN {Finalize(pkt.key, active_streams[pkt.key], "CONNECTION_REUSED")} ELSE {}

\* process_packet has one result variable: an eviction overwrites a reuse.
Finalized(pkt) ==
    CASE Evicts(pkt) ->
           LET victim == Oldest(PoolAfterReuse(pkt))
           IN  {Finalize(victim, PoolAfterReuse(pkt)[victim], "PURGED")}
      [] Reuses(pkt) /\ ~Evicts(pkt) ->
           {Finalize(pkt.key, active_streams[pkt.key], "CONNECTION_REUSED")}
      [] OTHER -> {}

Now == Len(wire) + 1

\* Mutant: no move_to_end.
MutantTrackerInPlace(pkt) ==
    IF pkt.key \in DOMAIN PoolAfterEviction(pkt) THEN active_streams[pkt.key]
    ELSE NewTracker(generation_counters[pkt.key] + 1, pkt, Now)

\* The tracker the packet belongs to: move_to_end, or a new generation.
TrackerFor(pkt) ==
    IF pkt.key \in DOMAIN PoolAfterEviction(pkt)
    THEN [active_streams[pkt.key] EXCEPT !.order = Now]
    ELSE NewTracker(generation_counters[pkt.key] + 1, pkt, Now)

GenerationsAfter(pkt) ==
    IF pkt.key \in DOMAIN PoolAfterEviction(pkt)
    THEN generation_counters
    ELSE [generation_counters EXCEPT ![pkt.key] = @ + 1]
-------------------------------------------------------------------------------
Init ==
    /\ active_streams = [k \in {} |-> {}]
    /\ generation_counters = [k \in Keys |-> 0]
    /\ emitted = {}
    /\ wire = <<>>
    /\ draining = FALSE

ProcessPacket(pkt) ==
    /\ ~draining
    /\ Len(wire) < MaxPackets
    /\ active_streams' = With(PoolAfterEviction(pkt), pkt.key,
                              AddPacket(TrackerFor(pkt), pkt, Now))
    /\ generation_counters' = GenerationsAfter(pkt)
    /\ emitted' = emitted \cup Finalized(pkt)
    /\ wire' = Append(wire, pkt)
    /\ UNCHANGED draining

\* The for loop of reassemble_packet_stream ends.
EndOfCapture ==
    /\ ~draining
    /\ draining' = TRUE
    /\ UNCHANGED <<active_streams, generation_counters, emitted, wire>>

\* One turn of the while loop that empties the pool, oldest first.
DrainOldest ==
    /\ draining
    /\ DOMAIN active_streams # {}
    /\ LET oldest == Oldest(active_streams)
       IN  /\ emitted' = emitted \cup
                  {Finalize(oldest, active_streams[oldest], "END_OF_CAPTURE")}
           /\ active_streams' = Without(active_streams, oldest)
    /\ UNCHANGED <<generation_counters, wire, draining>>

Next ==
    \/ \E pkt \in Packets : ProcessPacket(pkt)
    \/ EndOfCapture
    \/ DrainOldest

Spec == Init /\ [][Next]_vars
-------------------------------------------------------------------------------
\* Properties.

\* A conversation seen alike in the pool and in the results.
View(key, s) ==
    [key |-> key, gen |-> s.gen, client |-> s.client, lifecycle |-> s.lifecycle,
     client_frames |-> s.client_frames, server_frames |-> s.server_frames]

Streams == {View(k, active_streams[k]) : k \in DOMAIN active_streams}
              \cup {View(r.key, r) : r \in emitted}

OpenIds     == {<<k, active_streams[k].gen>> : k \in DOMAIN active_streams}
ReportedIds == {<<r.key, r.gen>> : r \in emitted}

\* The variables stay in the sets the code's declarations give them.
TypeOK ==
    /\ DOMAIN active_streams \subseteq Keys
    /\ active_streams \in [DOMAIN active_streams -> Trackers]
    /\ generation_counters \in [Keys -> Nat]
    /\ emitted \subseteq Records
    /\ wire \in Seq(Packets)
    /\ draining \in BOOLEAN

\* process_packet never lets the pool outgrow max_active_streams, although it
\* inserts before it could look again and evicts at most one tracker.
PoolBounded ==
    /\ IsFiniteSet(DOMAIN active_streams)
    /\ Cardinality(DOMAIN active_streams) <= MaxActiveStreams

\* Every generation that was opened is in the pool or was handed out, never
\* both and never twice: the single result variable of process_packet loses no
\* stream although a reuse and an eviction both write it.
StreamsAccounted ==
    /\ \A k \in Keys : \A g \in 1..generation_counters[k] :
           <<k, g>> \in OpenIds \cup ReportedIds
    /\ OpenIds \cap ReportedIds = {}
    /\ \A r, s \in emitted : r.key = s.key /\ r.gen = s.gen => r = s

\* Every packet read is in exactly one conversation, of its own 4-tuple, and
\* on the side of that conversation that sent it.
FramesAccounted ==
    \A f \in 1..Len(wire) :
        /\ \E s \in Streams : f \in Frames(s)
        /\ \A s, t \in Streams : f \in Frames(s) \cap Frames(t) => s = t
        /\ \A s \in Streams :
               /\ f \in Frames(s) => s.key = wire[f].key
               /\ f \in s.client_frames => wire[f].src = s.client
               /\ f \in s.server_frames => wire[f].src # s.client

\* What is said of a conversation's opening was captured.  Its opening SYN is its first
\* packet and comes from the client; and it counts as established only after a SYN, a
\* SYN-ACK and an acknowledgement, in that conversation and with the ACK last.
HandshakeIsReal ==
    \A s \in Streams :
        /\ \A f \in Frames(s) :
              IsNewSyn(wire[f]) => f \in s.client_frames /\ \A g \in Frames(s) : f <= g
        /\ s.lifecycle = "ESTABLISHED" =>
              \E f, g, h \in Frames(s) :
                 /\ f < h /\ g < h
                 /\ IsNewSyn(wire[f]) /\ IsSynAck(wire[g])
                 /\ Has(wire[h], "ACK") /\ ~Has(wire[h], "SYN")

\* Eviction takes the conversation that has been silent the longest: each one
\* that stays has a packet later than every packet of the victim.
EvictsLeastRecent ==
    [][\A r \in emitted' \ emitted : r.termination_reason = "PURGED" =>
           \A k \in DOMAIN active_streams' :
               \E g \in Frames(active_streams'[k]) :
                   \A f \in Frames(r) : f < g]_vars

\* The pool implements the ledger the pipeline relies on.
Ledger == INSTANCE StreamLedger
            WITH Capacity <- MaxActiveStreams,
                 open <- OpenIds, reported <- ReportedIds

RefinesLedger == Ledger!Spec
===============================================================================
