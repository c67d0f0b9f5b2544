--------------------------- MODULE StreamPoolProofs ---------------------------
(***************************************************************************)
(* Proofs about StreamPool for every set of 4-tuples, every set of flags,  *)
(* every capacity and every length of the capture.  The heart is           *)
(* PacketStages: whatever a packet does to the pool, it takes out at most  *)
(* one tracker and hands exactly that one out.                             *)
(***************************************************************************)
EXTENDS StreamPool, FiniteSetTheorems, WellFoundedInduction, TLAPS

\* A nonempty pool has a least recently used key, and Oldest returns it.
LEMMA OldestInPool ==
    ASSUME NEW pool, pool \in [DOMAIN pool -> Trackers], DOMAIN pool # {}
    PROVE  /\ Oldest(pool) \in DOMAIN pool
           /\ \A j \in DOMAIN pool : pool[Oldest(pool)].order <= pool[j].order
<1> DEFINE R == OpToRel(<, Nat)
           T == {pool[k].order : k \in DOMAIN pool}
<1>1. \A m, n \in Nat : m < n => <<m, n>> \in R
  BY DEF OpToRel
<1>2. IsWellFoundedOn(R, Nat)
  BY NatLessThanWellFounded
<1>3. T \subseteq Nat /\ T # {}
  BY DEF Trackers
<1> HIDE DEF R
<1>4. PICK x \in T : \A y \in T : ~(<<y, x>> \in R)
  BY <1>2, <1>3, WFMin
<1>5. PICK k \in DOMAIN pool : x = pool[k].order
  OBVIOUS
<1>6. ASSUME NEW j \in DOMAIN pool
      PROVE  pool[k].order <= pool[j].order
  <2>1. pool[j].order \in T /\ pool[k].order \in T
    OBVIOUS
  <2>2. pool[j].order \in Nat /\ pool[k].order \in Nat
    BY <2>1, <1>3
  <2>3. ~(pool[j].order < pool[k].order)
    BY <2>1, <2>2, <1>1, <1>4, <1>5
  <2> QED
    BY <2>2, <2>3
<1> QED
  BY <1>6 DEF Oldest

\* A tracker stays a tracker, of the same generation and client.
LEMMA AddPacketType ==
    ASSUME NEW t \in Trackers, NEW pkt \in Packets, NEW f \in Nat
    PROVE  /\ AddPacket(t, pkt, f) \in Trackers
           /\ AddPacket(t, pkt, f).gen = t.gen
<1>1. LifecycleAfter(t, pkt) \in Lifecycles
  BY DEF LifecycleAfter, Lifecycles, Trackers
<1>2. ReasonAfter(t, pkt) \in Reasons \cup {"NONE"}
  BY DEF ReasonAfter, Reasons, Trackers
<1> QED
  BY <1>1, <1>2 DEF AddPacket, Trackers, IsNewSyn, IsSynAck, Has

\* A new tracker has the generation it is made with.
LEMMA NewTrackerType ==
    ASSUME NEW g \in Nat \ {0}, NEW pkt \in Packets, NEW now \in Nat
    PROVE  /\ NewTracker(g, pkt, now) \in Trackers
           /\ NewTracker(g, pkt, now).gen = g
  BY DEF NewTracker, Trackers, Packets, Lifecycles

\* A tracker is finalized to a record of its key and generation.
LEMMA FinalizeType ==
    ASSUME NEW k \in Keys, NEW t \in Trackers, NEW reason \in Reasons
    PROVE  /\ Finalize(k, t, reason) \in Records
           /\ Finalize(k, t, reason).key = k
           /\ Finalize(k, t, reason).gen = t.gen
<1>1. FinalReason(t, reason) \in Reasons
  BY DEF FinalReason, Trackers
<1> QED
  BY <1>1 DEF Finalize, Records, Trackers

\* The pool between two packets.
PoolOK ==
    /\ DOMAIN active_streams \subseteq Keys
    /\ active_streams \in [DOMAIN active_streams -> Trackers]
    /\ PoolBounded

\* What process_packet does before it adds the packet: nothing, or it removes
\* one tracker and returns it; never does a reuse meet an eviction, and there is
\* room for a new tracker when the packet needs one.
LEMMA PacketStages ==
    ASSUME PoolOK, NEW pkt \in Packets
    PROVE  /\ \/ /\ PoolAfterEviction(pkt) = active_streams
                 /\ Finalized(pkt) = {}
              \/ \E v \in DOMAIN active_streams, reason \in Reasons :
                    /\ PoolAfterEviction(pkt) = Without(active_streams, v)
                    /\ Finalized(pkt) = {Finalize(v, active_streams[v], reason)}
           /\ \/ pkt.key \in DOMAIN PoolAfterEviction(pkt)
              \/ Cardinality(DOMAIN PoolAfterEviction(pkt)) < MaxActiveStreams
<1> USE PoolAssumption DEF PoolAssumption, PoolOK, PoolBounded
<1>1. ASSUME NEW v \in DOMAIN active_streams
      PROVE  /\ DOMAIN Without(active_streams, v) = DOMAIN active_streams \ {v}
             /\ Cardinality(DOMAIN active_streams \ {v}) \in Nat
             /\ Cardinality(DOMAIN active_streams \ {v}) < MaxActiveStreams
  <2>1. /\ Cardinality(DOMAIN active_streams) \in Nat
        /\ Cardinality(DOMAIN active_streams \ {v}) \in Nat
        /\ Cardinality(DOMAIN active_streams \ {v})
              = Cardinality(DOMAIN active_streams) - 1
    BY FS_RemoveElement, FS_CardinalityType
  <2> QED
    BY <2>1 DEF Without
<1>2. CASE Reuses(pkt)
  <2>1. PoolAfterReuse(pkt) = Without(active_streams, pkt.key)
    BY <1>2 DEF PoolAfterReuse
  <2>2. pkt.key \in DOMAIN active_streams
    BY <1>2 DEF Reuses
  <2>3. ~Evicts(pkt)
    <3>1. /\ Cardinality(DOMAIN PoolAfterReuse(pkt)) \in Nat
          /\ Cardinality(DOMAIN PoolAfterReuse(pkt)) < MaxActiveStreams
      BY <1>1, <2>1, <2>2
    <3> QED
      BY <3>1 DEF Evicts
  <2>4. PoolAfterEviction(pkt) = Without(active_streams, pkt.key)
    BY <2>1, <2>3 DEF PoolAfterEviction
  <2>5. Finalized(pkt) =
          {Finalize(pkt.key, active_streams[pkt.key], "CONNECTION_REUSED")}
    BY <1>2, <2>3 DEF Finalized
  <2> QED
    BY <1>1, <2>2, <2>4, <2>5 DEF Reasons
<1>3. CASE ~Reuses(pkt) /\ Evicts(pkt)
  <2>1. PoolAfterReuse(pkt) = active_streams
    BY <1>3 DEF PoolAfterReuse
  <2>2. DOMAIN active_streams # {}
    BY <1>3, <2>1, FS_EmptySet DEF Evicts
  <2>3. Oldest(active_streams) \in DOMAIN active_streams
    BY <2>2, OldestInPool
  <2>4. PoolAfterEviction(pkt) = Without(active_streams, Oldest(active_streams))
    BY <1>3, <2>1 DEF PoolAfterEviction
  <2>5. Finalized(pkt) =
          {Finalize(Oldest(active_streams),
                    active_streams[Oldest(active_streams)], "PURGED")}
    BY <1>3, <2>1 DEF Finalized
  <2> QED
    BY <1>1, <2>3, <2>4, <2>5 DEF Reasons
<1>4. CASE ~Reuses(pkt) /\ ~Evicts(pkt)
  <2>1. Cardinality(DOMAIN active_streams) \in Nat
    BY FS_CardinalityType
  <2> QED
    BY <1>4, <2>1 DEF PoolAfterReuse, PoolAfterEviction, Finalized, Evicts
<1> QED
  BY <1>2, <1>3, <1>4

-------------------------------------------------------------------------------
\* The strengthening that makes StreamsAccounted inductive: the pool holds only
\* the latest generation of a 4-tuple, and no result is from the future.
Latest ==
    /\ \A k \in DOMAIN active_streams :
           active_streams[k].gen = generation_counters[k]
    /\ \A r \in emitted : r.gen <= generation_counters[r.key]

\* The invariant of the pool.
IInv == TypeOK /\ PoolBounded /\ StreamsAccounted /\ Latest

\* An empty pool has nothing to account for.
LEMMA InitIInv == Init => IInv
<1> SUFFICES ASSUME Init PROVE IInv
  OBVIOUS
<1> USE DEF Init
<1>1. DOMAIN active_streams = {}
  OBVIOUS
<1>2. TypeOK
  <2>1. active_streams \in [DOMAIN active_streams -> Trackers]
    BY <1>1
  <2>2. wire \in Seq(Packets)
    OBVIOUS
  <2>3. generation_counters \in [Keys -> Nat]
    OBVIOUS
  <2> QED
    BY <1>1, <2>1, <2>2, <2>3 DEF TypeOK
<1>3. PoolBounded
  BY <1>1, FS_EmptySet, PoolAssumption DEF PoolBounded, PoolAssumption
<1>4. StreamsAccounted
  <2>1. OpenIds = {}
    BY <1>1 DEF OpenIds
  <2>2. \A k \in Keys : 1..generation_counters[k] = {}
    OBVIOUS
  <2> QED
    BY <2>1, <2>2 DEF StreamsAccounted
<1>5. Latest
  BY <1>1 DEF Latest
<1> QED
  BY <1>2, <1>3, <1>4, <1>5 DEF IInv

\* What a step does to the pool, whichever case of the code made it: the keys
\* in gone leave and are reported, the keys in new get their next generation.
Rotation(gone, new, reason) ==
    LET kept == DOMAIN active_streams \ gone
    IN  /\ \A a, b \in gone : a = b
        /\ \A a, b \in new : a = b
        /\ emitted' = emitted \cup
               {Finalize(v, active_streams[v], reason) : v \in gone}
        /\ DOMAIN active_streams' = kept \cup new
        /\ active_streams' \in [kept \cup new -> Trackers]
        /\ \A k \in kept : active_streams'[k].gen = active_streams[k].gen
        /\ \A k \in new : active_streams'[k].gen = generation_counters[k] + 1
        /\ generation_counters' =
               [k \in Keys |-> IF k \in new THEN generation_counters[k] + 1
                                            ELSE generation_counters[k]]
        /\ Cardinality(kept \cup new) <= MaxActiveStreams

\* Some trackers are handed out and others take their place.
Rotates ==
    \E gone \in SUBSET DOMAIN active_streams, reason \in Reasons :
        \E new \in SUBSET (Keys \ (DOMAIN active_streams \ gone)) :
            Rotation(gone, new, reason)

\* A packet rotates the pool.
LEMMA PacketRotates ==
    ASSUME IInv, NEW pkt \in Packets, ProcessPacket(pkt)
    PROVE  Rotates
<1> DEFINE P == PoolAfterEviction(pkt)
<1>1. PoolOK
  BY DEF IInv, TypeOK, PoolOK
<1>2. PICK gone \in SUBSET DOMAIN active_streams, reason \in Reasons :
         /\ \A a, b \in gone : a = b
         /\ P = [k \in DOMAIN active_streams \ gone |-> active_streams[k]]
         /\ Finalized(pkt) = {Finalize(v, active_streams[v], reason) : v \in gone}
  <2>1. CASE P = active_streams /\ Finalized(pkt) = {}
    <3>1. P = [k \in DOMAIN active_streams \ {} |-> active_streams[k]]
      BY <1>1, <2>1 DEF PoolOK
    <3>2. Finalized(pkt) = {Finalize(v, active_streams[v], "PURGED") : v \in {}}
      BY <2>1
    <3>3. "PURGED" \in Reasons
      BY DEF Reasons
    <3> HIDE DEF P
    <3> QED
      BY <3>1, <3>2, <3>3
  <2>2. CASE \E v \in DOMAIN active_streams, reason \in Reasons :
                 /\ P = Without(active_streams, v)
                 /\ Finalized(pkt) = {Finalize(v, active_streams[v], reason)}
    <3>1. PICK v \in DOMAIN active_streams, reason \in Reasons :
                 /\ P = Without(active_streams, v)
                 /\ Finalized(pkt) = {Finalize(v, active_streams[v], reason)}
      BY <2>2
    <3>2. Finalized(pkt) = {Finalize(w, active_streams[w], reason) : w \in {v}}
      BY <3>1
    <3> QED
      BY <3>1, <3>2 DEF Without
  <2> QED
    BY <1>1, <2>1, <2>2, PacketStages
<1> DEFINE kept == DOMAIN active_streams \ gone
           new  == IF pkt.key \in kept THEN {} ELSE {pkt.key}
<1>3. pkt.key \in DOMAIN P \/ Cardinality(DOMAIN P) < MaxActiveStreams
  BY <1>1, PacketStages
<1> HIDE DEF P
<1>4. DOMAIN P = kept
  BY <1>2
<1>5. emitted' = emitted \cup
                 {Finalize(v, active_streams[v], reason) : v \in gone}
  BY <1>2 DEF ProcessPacket
<1>6. Now \in Nat /\ pkt.key \in Keys /\ wire \in Seq(Packets)
  BY DEF IInv, TypeOK, Now, Packets
<1>7. /\ TrackerFor(pkt) \in Trackers
      /\ pkt.key \in kept => TrackerFor(pkt).gen = active_streams[pkt.key].gen
      /\ pkt.key \notin kept =>
            TrackerFor(pkt).gen = generation_counters[pkt.key] + 1
  <2>1. CASE pkt.key \in kept
    <3>1. active_streams[pkt.key] \in Trackers
      BY <1>1, <2>1 DEF PoolOK
    <3>2. TrackerFor(pkt) = [active_streams[pkt.key] EXCEPT !.order = Now]
      BY <1>4, <2>1 DEF TrackerFor, P
    <3> QED
      BY <1>6, <2>1, <3>1, <3>2 DEF Trackers
  <2>2. CASE pkt.key \notin kept
    <3>1. TrackerFor(pkt) = NewTracker(generation_counters[pkt.key] + 1, pkt, Now)
      BY <1>4, <2>2 DEF TrackerFor, P
    <3>2. generation_counters[pkt.key] + 1 \in Nat \ {0}
      BY <1>6 DEF IInv, TypeOK
    <3> QED
      BY <1>6, <2>2, <3>1, <3>2, NewTrackerType
  <2> QED
    BY <2>1, <2>2
<1>8. /\ AddPacket(TrackerFor(pkt), pkt, Now) \in Trackers
      /\ AddPacket(TrackerFor(pkt), pkt, Now).gen = TrackerFor(pkt).gen
  BY <1>6, <1>7, AddPacketType
<1>9. active_streams' = [k \in kept \cup {pkt.key} |->
                            IF k = pkt.key
                            THEN AddPacket(TrackerFor(pkt), pkt, Now) ELSE P[k]]
  BY <1>4 DEF ProcessPacket, With, P
<1>10. \A k \in kept : P[k] = active_streams[k] /\ P[k] \in Trackers
  BY <1>1, <1>2 DEF PoolOK
<1>11. kept \cup new = kept \cup {pkt.key}
  OBVIOUS
<1>12. /\ DOMAIN active_streams' = kept \cup new
       /\ active_streams' \in [kept \cup new -> Trackers]
       /\ \A k \in kept : active_streams'[k].gen = active_streams[k].gen
       /\ \A k \in new : active_streams'[k].gen = generation_counters[k] + 1
  <2>1. /\ DOMAIN active_streams' = kept \cup {pkt.key}
        /\ active_streams' \in [kept \cup {pkt.key} -> Trackers]
    BY <1>8, <1>9, <1>10
  <2>2. \A k \in kept : active_streams'[k].gen = active_streams[k].gen
    BY <1>7, <1>8, <1>9, <1>10
  <2>3. \A k \in new : active_streams'[k].gen = generation_counters[k] + 1
    BY <1>7, <1>8, <1>9
  <2> QED
    BY <1>11, <2>1, <2>2, <2>3
<1>13. generation_counters' =
           [k \in Keys |-> IF k \in new THEN generation_counters[k] + 1
                                        ELSE generation_counters[k]]
  <2>1. generation_counters \in [Keys -> Nat]
    BY DEF IInv, TypeOK
  <2> QED
    BY <1>4, <1>6, <2>1 DEF ProcessPacket, GenerationsAfter, P
<1>14. Cardinality(kept \cup new) <= MaxActiveStreams
  <2>1. IsFiniteSet(kept) /\ Cardinality(kept) <= Cardinality(DOMAIN active_streams)
    BY <1>1, FS_Subset DEF PoolOK, PoolBounded
  <2>2. Cardinality(kept) \in Nat /\ Cardinality(DOMAIN active_streams) \in Nat
    BY <1>1, <2>1, FS_CardinalityType DEF PoolOK, PoolBounded
  <2>3. CASE pkt.key \in kept
    BY <1>1, <2>1, <2>2, <2>3, PoolAssumption DEF PoolOK, PoolBounded, PoolAssumption
  <2>4. CASE pkt.key \notin kept
    <3>1. Cardinality(kept \cup {pkt.key}) = Cardinality(kept) + 1
      BY <2>1, <2>4, FS_AddElement
    <3> QED
      BY <1>3, <1>4, <1>11, <2>2, <2>4, <3>1, PoolAssumption DEF PoolAssumption
  <2> QED
    BY <2>3, <2>4
<1>15. new \in SUBSET (Keys \ kept) /\ \A a, b \in new : a = b
  BY <1>6
<1> HIDE DEF new
<1> QED
  BY <1>2, <1>5, <1>12, <1>13, <1>14, <1>15 DEF Rotation, Rotates

\* So does the drain at the end of the capture.
LEMMA DrainRotates ==
    ASSUME IInv, DrainOldest
    PROVE  Rotates
<1> DEFINE v    == Oldest(active_streams)
           kept == DOMAIN active_streams \ {v}
<1>1. PoolOK
  BY DEF IInv, TypeOK, PoolOK
<1>2. v \in DOMAIN active_streams
  BY <1>1, OldestInPool DEF PoolOK, DrainOldest
<1> HIDE DEF v
<1>3. /\ emitted' = emitted \cup
             {Finalize(w, active_streams[w], "END_OF_CAPTURE") : w \in {v}}
      /\ active_streams' = [k \in kept |-> active_streams[k]]
  BY DEF DrainOldest, Without, v
<1>4. generation_counters' = [k \in Keys |-> generation_counters[k]]
  BY DEF DrainOldest, IInv, TypeOK
<1>5. active_streams' \in [kept \cup {} -> Trackers]
  BY <1>1, <1>3 DEF PoolOK
<1>6. Cardinality(kept \cup {}) <= MaxActiveStreams
  <2>1. IsFiniteSet(kept) /\ Cardinality(kept) <= Cardinality(DOMAIN active_streams)
    BY <1>1, FS_Subset DEF PoolOK, PoolBounded
  <2>2. Cardinality(kept) \in Nat /\ Cardinality(DOMAIN active_streams) \in Nat
    BY <1>1, <2>1, FS_CardinalityType DEF PoolOK, PoolBounded
  <2> QED
    BY <1>1, <2>1, <2>2, PoolAssumption DEF PoolOK, PoolBounded, PoolAssumption
<1>7. Rotation({v}, {}, "END_OF_CAPTURE")
  BY <1>3, <1>4, <1>5, <1>6 DEF Rotation
<1> QED
  BY <1>2, <1>7 DEF Rotates, Reasons

\* What a rotation does to the identities: those of gone move from the open
\* ones to the reported ones, those of new are open from now on.
LEMMA RotationIds ==
    ASSUME IInv,
           NEW gone \in SUBSET DOMAIN active_streams, NEW reason \in Reasons,
           NEW new \in SUBSET (Keys \ (DOMAIN active_streams \ gone)),
           Rotation(gone, new, reason)
    PROVE  /\ ReportedIds' = ReportedIds \cup
                  {<<v, generation_counters[v]>> : v \in gone}
           /\ OpenIds' = {<<k, generation_counters[k]>> :
                              k \in DOMAIN active_streams \ gone}
                         \cup {<<k, generation_counters[k] + 1>> : k \in new}
           /\ OpenIds = {<<k, generation_counters[k]>> : k \in DOMAIN active_streams}
<1> DEFINE kept == DOMAIN active_streams \ gone
<1>1. \A v \in gone : /\ v \in Keys
                      /\ active_streams[v] \in Trackers
                      /\ active_streams[v].gen = generation_counters[v]
  BY DEF IInv, TypeOK, Latest
<1>2. \A v \in gone :
          /\ Finalize(v, active_streams[v], reason).key = v
          /\ Finalize(v, active_streams[v], reason).gen = generation_counters[v]
  BY <1>1, FinalizeType
<1>3. ReportedIds' = ReportedIds \cup {<<v, generation_counters[v]>> : v \in gone}
  <2>1. emitted' = emitted \cup
            {Finalize(v, active_streams[v], reason) : v \in gone}
    BY DEF Rotation
  <2> QED
    BY <1>2, <2>1 DEF ReportedIds
<1>4. OpenIds = {<<k, generation_counters[k]>> : k \in DOMAIN active_streams}
  BY DEF OpenIds, IInv, Latest
<1>5. /\ DOMAIN active_streams' = kept \cup new
      /\ \A k \in kept : active_streams'[k].gen = generation_counters[k]
      /\ \A k \in new : active_streams'[k].gen = generation_counters[k] + 1
  BY DEF Rotation, IInv, Latest
<1>6. OpenIds' = {<<k, generation_counters[k]>> : k \in kept}
                    \cup {<<k, generation_counters[k] + 1>> : k \in new}
  BY <1>5 DEF OpenIds
<1> QED
  BY <1>3, <1>4, <1>6

\* A rotation keeps every part of the invariant that speaks of the pool.
LEMMA RotationPreserves ==
    ASSUME IInv, Rotates
    PROVE  /\ PoolOK'
           /\ generation_counters' \in [Keys -> Nat]
           /\ emitted' \subseteq Records
           /\ StreamsAccounted'
           /\ Latest'
<1> PICK gone \in SUBSET DOMAIN active_streams, reason \in Reasons :
        \E new \in SUBSET (Keys \ (DOMAIN active_streams \ gone)) :
            Rotation(gone, new, reason)
  BY DEF Rotates
<1> PICK new \in SUBSET (Keys \ (DOMAIN active_streams \ gone)) :
        Rotation(gone, new, reason)
  OBVIOUS
<1> DEFINE kept == DOMAIN active_streams \ gone
           Gone == {Finalize(v, active_streams[v], reason) : v \in gone}
<1>1. /\ kept \subseteq Keys /\ gone \subseteq Keys /\ new \subseteq Keys
      /\ \A k \in DOMAIN active_streams : active_streams[k] \in Trackers
      /\ \A k \in DOMAIN active_streams :
             active_streams[k].gen = generation_counters[k]
      /\ generation_counters \in [Keys -> Nat]
      /\ emitted \subseteq Records
  BY DEF IInv, TypeOK, Latest
<1>2. \A v \in gone :
          /\ Finalize(v, active_streams[v], reason) \in Records
          /\ Finalize(v, active_streams[v], reason).key = v
          /\ Finalize(v, active_streams[v], reason).gen = generation_counters[v]
  BY <1>1, FinalizeType
<1>3. PoolOK'
  <2>1. IsFiniteSet(kept \cup new)
    <3>1. IsFiniteSet(kept)
      BY FS_Subset DEF IInv, PoolBounded
    <3>2. IsFiniteSet(new)
      <4>1. CASE new = {}
        BY <4>1, FS_EmptySet
      <4>2. CASE new # {}
        <5>1. PICK k \in new : TRUE
          BY <4>2
        <5>2. new = {k}
          BY DEF Rotation
        <5> QED
          BY <5>2, FS_Singleton
      <4> QED
        BY <4>1, <4>2
    <3> QED
      BY <3>1, <3>2, FS_Union
  <2> QED
    BY <1>1, <2>1 DEF Rotation, PoolOK, PoolBounded
<1>4. generation_counters' \in [Keys -> Nat]
  BY <1>1 DEF Rotation
<1>5. emitted' = emitted \cup Gone /\ Gone \subseteq Records
  BY <1>2 DEF Rotation
<1>6. Latest'
  <2>1. \A k \in DOMAIN active_streams' :
            active_streams'[k].gen = generation_counters'[k]
    BY <1>1 DEF Rotation
  <2>2. \A r \in emitted : r.gen <= generation_counters'[r.key]
    <3>1. \A k \in Keys : generation_counters[k] <= generation_counters'[k]
      BY <1>1 DEF Rotation
    <3>2. \A r \in emitted : r.key \in Keys /\ r.gen \in Nat
      BY <1>1 DEF Records
    <3> QED
      BY <1>1, <1>4, <3>1, <3>2 DEF IInv, Latest
  <2>3. \A r \in Gone : r.gen <= generation_counters'[r.key]
    <3>1. \A v \in gone : generation_counters[v] <= generation_counters'[v]
      BY <1>1 DEF Rotation
    <3> QED
      BY <1>2, <3>1
  <2> QED
    BY <1>5, <2>1, <2>2, <2>3 DEF Latest
<1>7. StreamsAccounted'
  <2>1. /\ ReportedIds' = ReportedIds \cup
               {<<v, generation_counters[v]>> : v \in gone}
        /\ OpenIds' = {<<k, generation_counters[k]>> : k \in kept}
                         \cup {<<k, generation_counters[k] + 1>> : k \in new}
        /\ OpenIds = {<<k, generation_counters[k]>> : k \in DOMAIN active_streams}
    BY RotationIds
  <2>2. \A id \in ReportedIds :
            id[1] \in Keys /\ id[2] <= generation_counters[id[1]]
    BY <1>1 DEF ReportedIds, Records, IInv, Latest
  <2>3. ASSUME NEW k \in Keys, NEW g \in 1..generation_counters'[k]
        PROVE  <<k, g>> \in OpenIds' \cup ReportedIds'
    <3>1. CASE k \in new /\ g = generation_counters[k] + 1
      BY <2>1, <3>1
    <3>2. CASE ~(k \in new /\ g = generation_counters[k] + 1)
      <4>1. g \in 1..generation_counters[k]
        BY <1>1, <3>2 DEF Rotation
      <4>2. <<k, g>> \in OpenIds \cup ReportedIds
        BY <4>1 DEF IInv, StreamsAccounted
      <4> QED
        BY <2>1, <4>2
    <3> QED
      BY <3>1, <3>2
  <2>4. OpenIds' \cap ReportedIds' = {}
    <3>1. OpenIds \cap ReportedIds = {}
      BY DEF IInv, StreamsAccounted
    <3>2. ASSUME NEW k \in kept
          PROVE  <<k, generation_counters[k]>> \notin ReportedIds'
      BY <2>1, <3>1
    <3>3. ASSUME NEW k \in new
          PROVE  <<k, generation_counters[k] + 1>> \notin ReportedIds'
      <4>1. generation_counters[k] \in Nat
        BY <1>1
      <4>2. <<k, generation_counters[k] + 1>> \notin ReportedIds
        BY <2>2, <4>1
      <4>3. \A v \in gone : <<k, generation_counters[k] + 1>>
                                # <<v, generation_counters[v]>>
        BY <4>1
      <4> QED
        BY <2>1, <4>2, <4>3
    <3> QED
      BY <2>1, <3>2, <3>3
  <2>5. ASSUME NEW r \in emitted', NEW s \in emitted',
               r.key = s.key, r.gen = s.gen
        PROVE  r = s
    <3>1. CASE r \in emitted /\ s \in emitted
      BY <2>5, <3>1 DEF IInv, StreamsAccounted
    <3>2. CASE r \in Gone /\ s \in Gone
      BY <1>2, <2>5, <3>2
    <3>3. ASSUME NEW p \in emitted, NEW q \in Gone, p.key = q.key, p.gen = q.gen
          PROVE  FALSE
      <4>1. PICK v \in gone : q = Finalize(v, active_streams[v], reason)
        OBVIOUS
      <4>2. <<v, generation_counters[v]>> \in OpenIds
        BY <2>1
      <4>3. <<v, generation_counters[v]>> \in ReportedIds
        BY <1>2, <3>3, <4>1 DEF ReportedIds
      <4> QED
        BY <4>2, <4>3 DEF IInv, StreamsAccounted
    <3> QED
      BY <1>5, <2>5, <3>1, <3>2, <3>3
  <2> QED
    BY <2>3, <2>4, <2>5 DEF StreamsAccounted
<1> QED
  BY <1>3, <1>4, <1>5, <1>6, <1>7, <1>1

\* Whatever rotates the pool keeps the invariant.
LEMMA NextIInv == IInv /\ [Next]_vars => IInv'
<1> SUFFICES ASSUME IInv, [Next]_vars PROVE IInv'
  OBVIOUS
<1>1. ASSUME NEW pkt \in Packets, ProcessPacket(pkt)
      PROVE  IInv'
  <2>1. wire' \in Seq(Packets) /\ draining' \in BOOLEAN
    BY <1>1 DEF ProcessPacket, IInv, TypeOK
  <2> QED
    BY <1>1, <2>1, PacketRotates, RotationPreserves DEF IInv, TypeOK, PoolOK
<1>2. CASE EndOfCapture
  BY <1>2 DEF EndOfCapture, IInv, TypeOK, PoolBounded, StreamsAccounted, Latest,
              OpenIds, ReportedIds
<1>3. CASE DrainOldest
  <2>1. wire' \in Seq(Packets) /\ draining' \in BOOLEAN
    BY <1>3 DEF DrainOldest, IInv, TypeOK
  <2> QED
    BY <1>3, <2>1, DrainRotates, RotationPreserves DEF IInv, TypeOK, PoolOK
<1>4. CASE UNCHANGED vars
  BY <1>4 DEF vars, IInv, TypeOK, PoolBounded, StreamsAccounted, Latest,
              OpenIds, ReportedIds
<1> QED
  BY <1>1, <1>2, <1>3, <1>4 DEF Next

\* The inductive invariant of the pool.
THEOREM Inductive == Spec => []IInv
  BY InitIInv, NextIInv, PTL DEF Spec

\* The variables of TCPReassemblyService keep their types.
THEOREM TypeCorrect == Spec => []TypeOK
  BY Inductive, PTL DEF IInv

\* The pool never holds more than max_active_streams trackers.
THEOREM Bounded == Spec => []PoolBounded
  BY Inductive, PTL DEF IInv

\* Every conversation ever opened is in the pool or was handed out, once.
THEOREM NoStreamLost == Spec => []StreamsAccounted
  BY Inductive, PTL DEF IInv
-------------------------------------------------------------------------------
\* A rotation of the pool is a step of the ledger.
LEMMA RotationIsLedgerStep ==
    ASSUME IInv, Rotates, IInv'
    PROVE  Ledger!Rotate
<1> PICK gone \in SUBSET DOMAIN active_streams, reason \in Reasons :
        \E new \in SUBSET (Keys \ (DOMAIN active_streams \ gone)) :
            Rotation(gone, new, reason)
  BY DEF Rotates
<1> PICK new \in SUBSET (Keys \ (DOMAIN active_streams \ gone)) :
        Rotation(gone, new, reason)
  OBVIOUS
<1> DEFINE kept == DOMAIN active_streams \ gone
           Old(S) == {<<k, generation_counters[k]>> : k \in S}
           Next1(S) == {<<k, generation_counters[k] + 1>> : k \in S}
<1>1. /\ ReportedIds' = ReportedIds \cup Old(gone)
      /\ OpenIds' = Old(kept) \cup Next1(new)
      /\ OpenIds = Old(DOMAIN active_streams)
  BY RotationIds
<1>2. /\ OpenIds \cap ReportedIds = {}
      /\ OpenIds' \cap ReportedIds' = {}
  BY DEF IInv, StreamsAccounted
<1>3. /\ \A k \in Keys : generation_counters[k] \in Nat
      /\ new \subseteq Keys /\ DOMAIN active_streams \subseteq Keys
      /\ gone \subseteq DOMAIN active_streams
  BY DEF IInv, TypeOK
<1>4. OpenIds \ OpenIds' = Old(gone)
  <2>1. \A k \in new, v \in gone : generation_counters[k] + 1 # generation_counters[v]
                                     \/ k # v
    BY <1>3
  <2> QED
    BY <1>1, <1>3, <2>1
<1>5. ReportedIds' \ ReportedIds = Old(gone)
  BY <1>1, <1>2
<1>6. OpenIds' \ OpenIds = Next1(new)
  BY <1>1, <1>3
<1>7. \A k \in new : <<k, generation_counters[k] + 1>> \in Ledger!Ids
  BY <1>3 DEF Ledger!Ids
<1>8. OpenIds' \subseteq Ledger!Ids
  <2>1. ASSUME NEW k \in DOMAIN active_streams'
        PROVE  <<k, active_streams'[k].gen>> \in Ledger!Ids
    BY DEF IInv, TypeOK, Trackers, Ledger!Ids
  <2> QED
    BY <2>1 DEF OpenIds
<1>9. \A a, b \in OpenIds' : a[1] = b[1] => a = b
  BY DEF OpenIds
<1>10. Cardinality(OpenIds') <= MaxActiveStreams
  <2>1. Cardinality(OpenIds') = Cardinality(DOMAIN active_streams')
    <3> DEFINE f == [k \in DOMAIN active_streams' |-> <<k, active_streams'[k].gen>>]
    <3>1. f \in Bijection(DOMAIN active_streams', OpenIds')
      BY DEF OpenIds, Bijection, Injection, Surjection, IsInjective
    <3>2. IsFiniteSet(DOMAIN active_streams')
      BY DEF IInv, PoolBounded
    <3> QED
      BY <3>1, <3>2, FS_Bijection DEF ExistsBijection
  <2> QED
    BY <2>1 DEF IInv, PoolBounded
<1>11. /\ \A a, b \in Old(gone) : a = b
       /\ \A a, b \in Next1(new) : a = b
  BY DEF Rotation
<1>12. Ledger!Cardinality(OpenIds') = Cardinality(OpenIds')
  BY DEF Cardinality, Ledger!Cardinality
<1> HIDE DEF Old, Next1
<1> QED
  BY <1>12, <1>1, <1>2, <1>4, <1>5, <1>6, <1>8, <1>9, <1>10, <1>11 DEF Ledger!Rotate

\* The stream pool implements the ledger: process_packet and the final drain
\* report every conversation exactly once, reuse no identity and keep at most
\* max_active_streams of them open, one per 4-tuple.
THEOREM PoolRefinesLedger == Spec => RefinesLedger
<1>1. Init => Ledger!Init
  BY DEF Init, Ledger!Init, OpenIds, ReportedIds
<1>2. IInv /\ IInv' /\ [Next]_vars => [Ledger!Rotate]_(Ledger!ledger)
  <2> SUFFICES ASSUME IInv, IInv', [Next]_vars
               PROVE  Ledger!Rotate \/ UNCHANGED Ledger!ledger
    OBVIOUS
  <2>1. ASSUME NEW pkt \in Packets, ProcessPacket(pkt) PROVE Ledger!Rotate
    BY <2>1, PacketRotates, RotationIsLedgerStep
  <2>2. CASE EndOfCapture
    BY <2>2 DEF EndOfCapture, Ledger!ledger, OpenIds, ReportedIds
  <2>3. CASE DrainOldest
    BY <2>3, DrainRotates, RotationIsLedgerStep
  <2>4. CASE UNCHANGED vars
    BY <2>4 DEF vars, Ledger!ledger, OpenIds, ReportedIds
  <2> QED
    BY <2>1, <2>2, <2>3, <2>4 DEF Next
<1> QED
  BY <1>1, <1>2, Inductive, PTL DEF Spec, RefinesLedger, Ledger!Spec
-------------------------------------------------------------------------------
\* What StreamPool says of the packets: each frame is in one conversation and on its
\* sender's side, the handshake a conversation is credited with was captured, and eviction
\* takes the one that has been silent the longest.  A packet replaces one conversation by
\* the same with one frame more, or adds one (PacketViews).

\* No conversation has a frame that has not been read.
FramesRead == \A s \in Streams : Frames(s) \subseteq 1 .. Len(wire)

\* A tracker's place in the pool is its last frame; its flags say what it has seen,
\* and before finalize it has ended by a FIN or a RST, if at all.
TrackerFits(t) ==
    /\ t.order \in Frames(t) /\ \A f \in Frames(t) : f <= t.order
    /\ t.syn_seen => \E f \in Frames(t) : IsNewSyn(wire[f])
    /\ t.syn_ack_seen => \E f \in Frames(t) : IsSynAck(wire[f])
    /\ t.termination_reason \in {"FIN", "RST", "NONE"}

TrackersFit == \A k \in DOMAIN active_streams : TrackerFits(active_streams[k])

\* The invariant of the frames.
FrameInv == IInv /\ FramesRead /\ FramesAccounted /\ TrackersFit /\ HandshakeIsReal
-------------------------------------------------------------------------------
\* The conversation that takes a packet, before and after it.
Before(pkt) == TrackerFor(pkt)
After(pkt)  == AddPacket(TrackerFor(pkt), pkt, Now)
Continues(pkt) == pkt.key \in DOMAIN PoolAfterEviction(pkt)

\* Only the last packet of a handshake establishes a conversation.
LEMMA EstablishedBy ==
    ASSUME NEW t, NEW pkt \in Packets, LifecycleAfter(t, pkt) = "ESTABLISHED"
    PROVE  \/ t.lifecycle = "ESTABLISHED"
           \/ /\ t.syn_seen \/ IsNewSyn(pkt)
              /\ t.syn_ack_seen \/ IsSynAck(pkt)
              /\ Has(pkt, "ACK") /\ ~Has(pkt, "SYN")
    BY DEF LifecycleAfter

\* The tracker a packet goes to: the one of its 4-tuple, which no opening SYN goes on
\* with, or a new one of the packet's sender.
LEMMA TrackerBefore ==
    ASSUME IInv, NEW pkt \in Packets
    PROVE  /\ Now \in Nat /\ Now = Len(wire) + 1
           /\ Before(pkt) \in Trackers /\ Before(pkt).order = Now
           /\ Continues(pkt) =>
                 /\ pkt.key \in DOMAIN active_streams /\ ~IsNewSyn(pkt)
                 /\ Before(pkt) = [active_streams[pkt.key] EXCEPT !.order = Now]
           /\ ~Continues(pkt) =>
                 Before(pkt) = NewTracker(generation_counters[pkt.key] + 1, pkt, Now)
<1>1. Now \in Nat /\ Now = Len(wire) + 1 /\ pkt.key \in Keys
  BY DEF IInv, TypeOK, Now, Packets
<1>2. CASE Continues(pkt)
  <2>1. pkt.key \in DOMAIN PoolAfterReuse(pkt)
    BY <1>2 DEF Continues, PoolAfterEviction, Without
  <2>2. ~Reuses(pkt)
    BY <2>1 DEF PoolAfterReuse, Without
  <2>3. pkt.key \in DOMAIN active_streams /\ ~IsNewSyn(pkt)
    BY <2>1, <2>2 DEF PoolAfterReuse, Reuses
  <2>4. Before(pkt) = [active_streams[pkt.key] EXCEPT !.order = Now]
    BY <1>2 DEF Before, TrackerFor, Continues
  <2>5. active_streams[pkt.key] \in Trackers
    BY <2>3 DEF IInv, TypeOK
  <2> QED BY <1>1, <1>2, <2>3, <2>4, <2>5 DEF Trackers
<1>3. CASE ~Continues(pkt)
  <2>1. Before(pkt) = NewTracker(generation_counters[pkt.key] + 1, pkt, Now)
    BY <1>3 DEF Before, TrackerFor, Continues
  <2>2. generation_counters[pkt.key] + 1 \in Nat \ {0}
    BY <1>1 DEF IInv, TypeOK
  <2>3. Before(pkt).order = Now
    BY <2>1 DEF NewTracker
  <2> QED BY <1>1, <1>3, <2>1, <2>2, <2>3, NewTrackerType
<1> QED BY <1>2, <1>3

\* The pool after a packet: its own conversation with the packet, of the others all
\* but the one that was handed out.
LEMMA PacketPool ==
    ASSUME IInv, NEW pkt \in Packets, ProcessPacket(pkt)
    PROVE  /\ pkt.key \in DOMAIN active_streams' /\ active_streams'[pkt.key] = After(pkt)
           /\ \A k \in DOMAIN active_streams' \ {pkt.key} :
                 k \in DOMAIN active_streams /\ active_streams'[k] = active_streams[k]
           /\ \A k \in DOMAIN active_streams :
                 \/ k \in DOMAIN active_streams' /\ (k = pkt.key => Continues(pkt))
                 \/ \E reason \in Reasons : Finalize(k, active_streams[k], reason) \in emitted'
           /\ \A r \in emitted' \ emitted :
                 \E k \in DOMAIN active_streams, reason \in Reasons :
                    r = Finalize(k, active_streams[k], reason)
           /\ emitted \subseteq emitted'
<1> DEFINE P == PoolAfterEviction(pkt)
<1>1. PoolOK
  BY DEF IInv, TypeOK, PoolOK
<1>2. /\ active_streams' = With(P, pkt.key, After(pkt))
      /\ emitted' = emitted \cup Finalized(pkt)
  BY DEF ProcessPacket, After
<1>3. /\ DOMAIN active_streams' = DOMAIN P \cup {pkt.key}
      /\ active_streams'[pkt.key] = After(pkt)
      /\ \A k \in DOMAIN P \ {pkt.key} : active_streams'[k] = P[k]
  BY <1>2 DEF With
<1>4. /\ \A k \in DOMAIN P : k \in DOMAIN active_streams /\ P[k] = active_streams[k]
      /\ \A k \in DOMAIN active_streams :
            k \in DOMAIN P \/ \E reason \in Reasons :
                                Finalize(k, active_streams[k], reason) \in Finalized(pkt)
      /\ \A r \in Finalized(pkt) : \E k \in DOMAIN active_streams, reason \in Reasons :
            r = Finalize(k, active_streams[k], reason)
  <2>1. CASE P = active_streams /\ Finalized(pkt) = {}
    BY <2>1
  <2>2. CASE \E v \in DOMAIN active_streams, reason \in Reasons :
                /\ P = Without(active_streams, v)
                /\ Finalized(pkt) = {Finalize(v, active_streams[v], reason)}
    BY <2>2 DEF Without
  <2> QED BY <1>1, <2>1, <2>2, PacketStages
<1>5. Continues(pkt) <=> pkt.key \in DOMAIN P
  BY DEF Continues
<1> HIDE DEF P
<1> QED BY <1>2, <1>3, <1>4, <1>5

\* Handing a conversation out does not change what is seen of it.
LEMMA FinalizeView ==
    ASSUME NEW k, NEW t, NEW reason
    PROVE  View(Finalize(k, t, reason).key, Finalize(k, t, reason)) = View(k, t)
    BY DEF View, Finalize

\* A packet changes one conversation, or adds one, and leaves the others as they were.
LEMMA PacketViews ==
    ASSUME IInv, IInv', NEW pkt \in Packets, ProcessPacket(pkt)
    PROVE  /\ View(pkt.key, After(pkt)) \in Streams'
           /\ \A s \in Streams' \ {View(pkt.key, After(pkt))} :
                 s \in Streams /\ (Continues(pkt) => s # View(pkt.key, Before(pkt)))
           /\ \A s \in Streams \ Streams' :
                 Continues(pkt) /\ s = View(pkt.key, Before(pkt))
           /\ Continues(pkt) => View(pkt.key, Before(pkt)) \in Streams
<1>1. View(pkt.key, After(pkt)) \in Streams'
  BY PacketPool DEF Streams
<1>2. Continues(pkt) => View(pkt.key, Before(pkt)) = View(pkt.key, active_streams[pkt.key])
  <2> SUFFICES ASSUME Continues(pkt)
               PROVE  View(pkt.key, Before(pkt)) = View(pkt.key, active_streams[pkt.key])
    OBVIOUS
  <2>1. /\ active_streams[pkt.key] \in Trackers
        /\ Before(pkt) = [active_streams[pkt.key] EXCEPT !.order = Now]
    BY TrackerBefore DEF IInv, TypeOK
  <2> QED BY <2>1 DEF View, Trackers
<1>3. Continues(pkt) => View(pkt.key, Before(pkt)) \in Streams
  BY <1>2, TrackerBefore DEF Streams
<1>4. ASSUME NEW k \in DOMAIN active_streams'
      PROVE  \/ View(k, active_streams'[k]) = View(pkt.key, After(pkt))
             \/ /\ k # pkt.key
                /\ View(k, active_streams'[k]) \in Streams
  BY PacketPool DEF Streams
<1>5. ASSUME NEW r \in emitted'
      PROVE  /\ View(r.key, r) \in Streams
             /\ Continues(pkt) => View(r.key, r) # View(pkt.key, Before(pkt))
  <2>1. View(r.key, r) \in Streams
    <3>1. CASE r \in emitted
      BY <3>1 DEF Streams
    <3>2. CASE r \notin emitted
      <4>1. PICK k \in DOMAIN active_streams, reason \in Reasons :
               r = Finalize(k, active_streams[k], reason)
        BY <3>2, PacketPool
      <4> QED BY <4>1, FinalizeView DEF Streams
    <3> QED BY <3>1, <3>2
  <2>2. ASSUME Continues(pkt), View(r.key, r) = View(pkt.key, Before(pkt))
        PROVE  FALSE
    <3>1. r.key = pkt.key /\ r.gen = Before(pkt).gen
      BY <2>2 DEF View
    <3>2. After(pkt).gen = Before(pkt).gen
      BY TrackerBefore, AddPacketType DEF After, Before
    <3>3. <<pkt.key, r.gen>> \in OpenIds'
      BY <2>2, <3>1, <3>2, PacketPool DEF OpenIds
    <3>4. <<pkt.key, r.gen>> \in ReportedIds'
      BY <3>1 DEF ReportedIds
    <3> QED BY <3>3, <3>4 DEF IInv, StreamsAccounted
  <2> QED BY <2>1, <2>2
<1>6. \A k : k # pkt.key => View(k, active_streams'[k]) # View(pkt.key, Before(pkt))
  BY DEF View
<1>7. \A s \in Streams' \ {View(pkt.key, After(pkt))} :
         s \in Streams /\ (Continues(pkt) => s # View(pkt.key, Before(pkt)))
  BY <1>4, <1>5, <1>6 DEF Streams
<1>8. ASSUME NEW k \in DOMAIN active_streams, View(k, active_streams[k]) \notin Streams'
      PROVE  Continues(pkt) /\ k = pkt.key
  <2>1. CASE k \in DOMAIN active_streams' /\ (k = pkt.key => Continues(pkt))
    BY <1>8, <2>1, PacketPool DEF Streams
  <2>2. CASE \E reason \in Reasons : Finalize(k, active_streams[k], reason) \in emitted'
    <3>1. PICK reason \in Reasons : Finalize(k, active_streams[k], reason) \in emitted'
      BY <2>2
    <3>2. View(k, active_streams[k]) \in Streams'
      BY <3>1, FinalizeView DEF Streams
    <3> QED BY <1>8, <3>2
  <2> QED BY <2>1, <2>2, PacketPool
<1>9. \A r \in emitted : View(r.key, r) \in Streams'
  BY PacketPool DEF Streams
<1>10. \A s \in Streams \ Streams' : Continues(pkt) /\ s = View(pkt.key, Before(pkt))
  BY <1>2, <1>8, <1>9 DEF Streams
<1> QED BY <1>1, <1>3, <1>7, <1>10

\* What is read of the wire after a packet.
LEMMA WireGrows ==
    ASSUME IInv, NEW pkt \in Packets, ProcessPacket(pkt)
    PROVE  /\ Len(wire) \in Nat /\ Len(wire') = Now /\ Now = Len(wire) + 1
           /\ \A f \in 1 .. Len(wire) : wire'[f] = wire[f]
           /\ wire'[Now] = pkt
           /\ 1 .. Len(wire') = (1 .. Len(wire)) \cup {Now}
    BY DEF IInv, TypeOK, ProcessPacket, Now

\* What a packet does to the tracker it goes to: its frame is added on the side of
\* its sender.
LEMMA TrackerAfter ==
    ASSUME IInv, NEW pkt \in Packets
    PROVE  /\ After(pkt).client = Before(pkt).client /\ After(pkt).order = Now
           /\ After(pkt).client_frames = IF pkt.src = Before(pkt).client
                                         THEN Before(pkt).client_frames \cup {Now}
                                         ELSE Before(pkt).client_frames
           /\ After(pkt).server_frames = IF pkt.src = Before(pkt).client
                                         THEN Before(pkt).server_frames
                                         ELSE Before(pkt).server_frames \cup {Now}
           /\ Frames(After(pkt)) = Frames(Before(pkt)) \cup {Now}
           /\ After(pkt).syn_seen <=> (Before(pkt).syn_seen \/ IsNewSyn(pkt))
           /\ After(pkt).syn_ack_seen <=> (Before(pkt).syn_ack_seen \/ IsSynAck(pkt))
           /\ After(pkt).lifecycle = LifecycleAfter(Before(pkt), pkt)
           /\ After(pkt).termination_reason = ReasonAfter(Before(pkt), pkt)
<1>1. Before(pkt) \in Trackers /\ Before(pkt).order = Now /\ Now \in Nat
  BY TrackerBefore
<1>2. After(pkt) = AddPacket(Before(pkt), pkt, Now)
  BY DEF After, Before
<1> HIDE DEF Before, After
<1> QED BY <1>1, <1>2 DEF AddPacket, Trackers, Frames

\* The frames of the conversation a packet goes to, before and after it.
LEMMA FramesBefore ==
    ASSUME FrameInv, NEW pkt \in Packets, ProcessPacket(pkt)
    PROVE  /\ Frames(Before(pkt)) \subseteq 1 .. Len(wire)
           /\ Frames(After(pkt)) = Frames(Before(pkt)) \cup {Now}
           /\ ~Continues(pkt) => Frames(Before(pkt)) = {} /\ Before(pkt).client = pkt.src
           /\ Continues(pkt) =>
                 /\ Frames(Before(pkt)) = Frames(View(pkt.key, Before(pkt)))
                 /\ View(pkt.key, Before(pkt)) \in Streams
<1> USE DEF FrameInv
<1>1. Frames(After(pkt)) = Frames(Before(pkt)) \cup {Now}
  BY TrackerAfter
<1>2. CASE ~Continues(pkt)
  BY <1>1, <1>2, TrackerBefore DEF NewTracker, Frames
<1>3. CASE Continues(pkt)
  <2>1. active_streams[pkt.key] \in Trackers /\ pkt.key \in DOMAIN active_streams
    BY <1>3, TrackerBefore DEF IInv, TypeOK
  <2>2. View(pkt.key, Before(pkt)) = View(pkt.key, active_streams[pkt.key])
    BY <1>3, <2>1, TrackerBefore DEF View, Trackers
  <2>3. View(pkt.key, Before(pkt)) \in Streams
    BY <2>1, <2>2 DEF Streams
  <2>4. Frames(Before(pkt)) = Frames(View(pkt.key, Before(pkt)))
    BY DEF Frames, View
  <2> QED BY <1>1, <1>3, <2>3, <2>4 DEF FramesRead
<1> QED BY <1>2, <1>3

\* A packet keeps what is known of the frames: its frame is new to every conversation,
\* and its own conversation takes it on the side of its sender.
LEMMA PacketFrames ==
    ASSUME FrameInv, IInv', NEW pkt \in Packets, ProcessPacket(pkt)
    PROVE  FramesRead' /\ FramesAccounted'
<1> DEFINE old == View(pkt.key, Before(pkt))
<1>0. PICK new : new = View(pkt.key, After(pkt))
  OBVIOUS
<1>1. IInv /\ IInv' /\ FramesRead /\ FramesAccounted
  BY DEF FrameInv
<1>2. /\ new \in Streams'
      /\ \A s \in Streams' : s = new \/ (s \in Streams /\ (Continues(pkt) => s # old))
      /\ \A s \in Streams : s \in Streams' \/ (Continues(pkt) /\ s = old)
      /\ Continues(pkt) => old \in Streams
  <2>1. \A s \in Streams' \ {new} : s \in Streams /\ (Continues(pkt) => s # old)
    BY <1>0, <1>1, PacketViews
  <2>2. \A s \in Streams \ Streams' : Continues(pkt) /\ s = old
    BY <1>1, PacketViews
  <2>3. new \in Streams' /\ (Continues(pkt) => old \in Streams)
    BY <1>0, <1>1, PacketViews
  <2> HIDE DEF old
  <2>4. \A s \in Streams' : s = new \/ (s \in Streams /\ (Continues(pkt) => s # old))
    BY <2>1
  <2>5. \A s \in Streams : s \in Streams' \/ (Continues(pkt) /\ s = old)
    BY <2>2
  <2> QED BY <2>3, <2>4, <2>5
<1>3. /\ Frames(new) = Frames(After(pkt))
      /\ Frames(Before(pkt)) \subseteq 1 .. Len(wire)
      /\ Frames(After(pkt)) = Frames(Before(pkt)) \cup {Now}
      /\ ~Continues(pkt) => Frames(Before(pkt)) = {} /\ Before(pkt).client = pkt.src
      /\ Continues(pkt) => Frames(Before(pkt)) = Frames(old)
  BY <1>0, FramesBefore DEF Frames, View
<1>4. /\ Len(wire) \in Nat /\ Len(wire') = Now /\ Now = Len(wire) + 1
      /\ \A f \in 1 .. Len(wire) : wire'[f] = wire[f]
      /\ wire'[Now] = pkt
      /\ 1 .. Len(wire') = (1 .. Len(wire)) \cup {Now}
      /\ Now \notin 1 .. Len(wire)
  BY <1>1, WireGrows
<1>5. \A s \in Streams : Frames(s) \subseteq 1 .. Len(wire)
  BY <1>1 DEF FramesRead
<1> HIDE DEF old
<1>6. FramesRead'
  <2>1. \A s \in Streams' : Frames(s) \subseteq 1 .. Len(wire')
    BY <1>2, <1>3, <1>4, <1>5
  <2> QED BY <2>1 DEF FramesRead, Frames
<1>7. ASSUME NEW f \in 1 .. Len(wire')
      PROVE  /\ \E s \in Streams' : f \in Frames(s)
             /\ \A s, t \in Streams' : f \in Frames(s) \cap Frames(t) => s = t
  <2>1. CASE f = Now
    BY <1>2, <1>3, <1>4, <1>5, <2>1
  <2>2. CASE f \in 1 .. Len(wire)
    <3>1. /\ \E s \in Streams : f \in Frames(s)
          /\ \A s, t \in Streams : f \in Frames(s) \cap Frames(t) => s = t
      BY <1>1, <2>2 DEF FramesAccounted
    <3>2. \E s \in Streams' : f \in Frames(s)
      BY <1>2, <1>3, <3>1
    <3>3. f \in Frames(new) => Continues(pkt) /\ f \in Frames(old)
      BY <1>3, <1>4, <2>2
    <3>4. ASSUME NEW s \in Streams', NEW t \in Streams', f \in Frames(s) \cap Frames(t)
          PROVE  s = t
      BY <1>2, <3>1, <3>3, <3>4
    <3> QED BY <3>2, <3>4
  <2> QED BY <1>4, <2>1, <2>2
<1>8. ASSUME NEW f \in 1 .. Len(wire'), NEW s \in Streams'
      PROVE  /\ f \in Frames(s) => s.key = wire'[f].key
             /\ f \in s.client_frames => wire'[f].src = s.client
             /\ f \in s.server_frames => wire'[f].src # s.client
  <2>1. CASE s \in Streams
    <3>1. CASE f \in 1 .. Len(wire)
      BY <1>1, <1>4, <2>1, <3>1 DEF FramesAccounted
    <3>2. CASE f = Now
      <4>1. f \notin Frames(s)
        BY <1>4, <1>5, <2>1, <3>2
      <4> QED BY <4>1 DEF Frames
    <3> QED BY <1>4, <3>1, <3>2
  <2>2. CASE s = new
    <3>1. /\ s.key = pkt.key /\ s.client = Before(pkt).client
          /\ s.client_frames = IF pkt.src = s.client THEN Before(pkt).client_frames \cup {Now}
                               ELSE Before(pkt).client_frames
          /\ s.server_frames = IF pkt.src = s.client THEN Before(pkt).server_frames
                               ELSE Before(pkt).server_frames \cup {Now}
      BY <1>0, <1>1, <2>2, TrackerAfter DEF View
    <3>2. CASE f = Now
      <4>1. f \notin Frames(Before(pkt))
        BY <1>3, <1>4, <3>2
      <4> QED BY <1>4, <3>1, <3>2, <4>1 DEF Frames
    <3>3. CASE f \in 1 .. Len(wire)
      <4>1. f # Now
        BY <1>4, <3>3
      <4>2. CASE ~Continues(pkt)
        <5>1. Before(pkt).client_frames = {} /\ Before(pkt).server_frames = {}
          BY <1>3, <4>2 DEF Frames
        <5>2. f \notin s.client_frames /\ f \notin s.server_frames
          BY <3>1, <4>1, <5>1
        <5> QED BY <5>2 DEF Frames
      <4>3. CASE Continues(pkt)
        <5>1. /\ old.key = pkt.key /\ old.client = s.client
              /\ old.client_frames = Before(pkt).client_frames
              /\ old.server_frames = Before(pkt).server_frames
          BY <3>1 DEF old, View
        <5>2. /\ f \in Frames(old) => old.key = wire[f].key
              /\ f \in old.client_frames => wire[f].src = old.client
              /\ f \in old.server_frames => wire[f].src # old.client
          BY <1>1, <1>2, <3>3, <4>3 DEF FramesAccounted
        <5> QED BY <1>4, <3>1, <3>3, <4>1, <5>1, <5>2 DEF Frames
      <4> QED BY <4>2, <4>3
    <3> QED BY <1>4, <3>2, <3>3
  <2> QED BY <1>2, <2>1, <2>2
<1> QED BY <1>6, <1>7, <1>8 DEF FramesAccounted, Frames

\* The frames of a tracker in the pool have been read.
LEMMA PoolFrames ==
    ASSUME FrameInv, NEW k \in DOMAIN active_streams
    PROVE  Frames(active_streams[k]) \subseteq 1 .. Len(wire)
<1>1. View(k, active_streams[k]) \in Streams
  BY DEF Streams
<1>2. Frames(View(k, active_streams[k])) = Frames(active_streams[k])
  BY DEF View, Frames
<1> QED BY <1>1, <1>2 DEF FrameInv, FramesRead

\* What a tracker has seen stays true while the wire grows.
LEMMA FitsStays ==
    ASSUME FrameInv, NEW pkt \in Packets, ProcessPacket(pkt), NEW k \in DOMAIN active_streams
    PROVE  /\ TrackerFits(active_streams[k])
           /\ \A f \in Frames(active_streams[k]) : f \in 1 .. Len(wire) /\ wire'[f] = wire[f]
    BY PoolFrames, WireGrows DEF FrameInv, TrackersFit

\* A packet keeps the trackers in line with their frames.
LEMMA PacketTrackers ==
    ASSUME FrameInv, NEW pkt \in Packets, ProcessPacket(pkt)
    PROVE  TrackersFit'
<1> USE DEF FrameInv
<1>1. /\ Len(wire) \in Nat /\ Now = Len(wire) + 1 /\ wire'[Now] = pkt
      /\ \A f \in 1 .. Len(wire) : wire'[f] = wire[f]
  BY WireGrows
<1>2. ASSUME NEW k \in DOMAIN active_streams' \ {pkt.key}
      PROVE  TrackerFits(active_streams[k])' /\ k \in DOMAIN active_streams
  <2>1. k \in DOMAIN active_streams /\ active_streams'[k] = active_streams[k]
    BY PacketPool
  <2>2. /\ TrackerFits(active_streams[k])
        /\ \A f \in Frames(active_streams[k]) : wire'[f] = wire[f]
    BY <2>1, FitsStays
  <2> QED BY <2>1, <2>2 DEF TrackerFits, IsNewSyn, IsSynAck, Has
<1>3. TrackerFits(active_streams[pkt.key])'
  <2>0. PICK t : t = After(pkt)
    OBVIOUS
  <2>1. /\ t.order = Now /\ Frames(t) = Frames(Before(pkt)) \cup {Now}
        /\ t.syn_seen <=> (Before(pkt).syn_seen \/ IsNewSyn(pkt))
        /\ t.syn_ack_seen <=> (Before(pkt).syn_ack_seen \/ IsSynAck(pkt))
        /\ t.termination_reason = ReasonAfter(Before(pkt), pkt)
        /\ Frames(Before(pkt)) \subseteq 1 .. Len(wire)
    BY <2>0, TrackerAfter, FramesBefore
  <2>2. /\ Before(pkt).syn_seen => \E f \in Frames(Before(pkt)) : IsNewSyn(wire[f])
        /\ Before(pkt).syn_ack_seen => \E f \in Frames(Before(pkt)) : IsSynAck(wire[f])
        /\ Before(pkt).termination_reason \in {"FIN", "RST", "NONE"}
    <3>1. CASE ~Continues(pkt)
      BY <3>1, TrackerBefore DEF NewTracker
    <3>2. CASE Continues(pkt)
      <4>1. /\ active_streams[pkt.key] \in Trackers /\ pkt.key \in DOMAIN active_streams
            /\ Before(pkt) = [active_streams[pkt.key] EXCEPT !.order = Now]
        BY <3>2, TrackerBefore DEF IInv, TypeOK
      <4>2. TrackerFits(active_streams[pkt.key])
        BY <4>1, FitsStays
      <4>3. /\ Frames(Before(pkt)) = Frames(active_streams[pkt.key])
            /\ Before(pkt).syn_seen = active_streams[pkt.key].syn_seen
            /\ Before(pkt).syn_ack_seen = active_streams[pkt.key].syn_ack_seen
            /\ Before(pkt).termination_reason = active_streams[pkt.key].termination_reason
        BY <4>1 DEF Trackers, Frames
      <4> QED BY <4>2, <4>3 DEF TrackerFits
    <3> QED BY <3>1, <3>2
  <2>3. t.termination_reason \in {"FIN", "RST", "NONE"}
    BY <2>1, <2>2 DEF ReasonAfter
  <2>4. t.order \in Frames(t) /\ \A f \in Frames(t) : f <= t.order
    BY <1>1, <2>1
  <2>5. t.syn_seen => \E f \in Frames(t) : IsNewSyn(wire'[f])
    BY <1>1, <2>1, <2>2
  <2>6. t.syn_ack_seen => \E f \in Frames(t) : IsSynAck(wire'[f])
    BY <1>1, <2>1, <2>2
  <2>7. active_streams'[pkt.key] = t
    BY <2>0, PacketPool
  <2> QED BY <2>3, <2>4, <2>5, <2>6, <2>7 DEF TrackerFits, Frames, IsNewSyn, IsSynAck, Has
<1> QED BY <1>2, <1>3 DEF TrackersFit

\* A packet keeps what is said of the openings: an opening SYN only ever begins a
\* conversation, and only an ACK behind the SYN and the SYN-ACK establishes it.
LEMMA PacketHandshake ==
    ASSUME FrameInv, IInv', NEW pkt \in Packets, ProcessPacket(pkt)
    PROVE  HandshakeIsReal'
<1> DEFINE Opens(s, w) ==
              /\ \A f \in Frames(s) :
                    IsNewSyn(w[f]) => f \in s.client_frames /\ \A g \in Frames(s) : f <= g
              /\ s.lifecycle = "ESTABLISHED" =>
                    \E f, g, h \in Frames(s) :
                       /\ f < h /\ g < h
                       /\ IsNewSyn(w[f]) /\ IsSynAck(w[g])
                       /\ Has(w[h], "ACK") /\ ~Has(w[h], "SYN")
<1>0. PICK new : new = View(pkt.key, After(pkt))
  OBVIOUS
<1>1. /\ Len(wire) \in Nat /\ Now = Len(wire) + 1 /\ wire'[Now] = pkt
      /\ \A f \in 1 .. Len(wire) : wire'[f] = wire[f]
  BY WireGrows DEF FrameInv
<1>2. ASSUME NEW s \in Streams
      PROVE  Opens(s, wire')
  <2>1. Opens(s, wire) /\ Frames(s) \subseteq 1 .. Len(wire)
    BY DEF FrameInv, HandshakeIsReal, FramesRead
  <2>2. \A f \in Frames(s) : wire'[f] = wire[f]
    BY <1>1, <2>1
  <2> QED BY <2>1, <2>2
<1>3. Opens(new, wire')
  <2>1. /\ Frames(new) = Frames(Before(pkt)) \cup {Now}
        /\ Frames(Before(pkt)) \subseteq 1 .. Len(wire)
        /\ new.lifecycle = LifecycleAfter(Before(pkt), pkt)
        /\ new.client_frames = IF pkt.src = Before(pkt).client
                               THEN Before(pkt).client_frames \cup {Now}
                               ELSE Before(pkt).client_frames
    BY <1>0, TrackerAfter, FramesBefore DEF FrameInv, View, Frames
  <2>2. CASE ~Continues(pkt)
    <3>1. /\ Frames(Before(pkt)) = {} /\ Before(pkt).client = pkt.src
          /\ ~Before(pkt).syn_seen /\ ~Before(pkt).syn_ack_seen
          /\ Before(pkt).lifecycle = "UNKNOWN"
      BY <2>2, FramesBefore, TrackerBefore DEF NewTracker, FrameInv
    <3>2. new.lifecycle # "ESTABLISHED"
      BY <2>1, <3>1, EstablishedBy DEF IsNewSyn, IsSynAck
    <3> QED BY <1>1, <2>1, <3>1, <3>2
  <2>3. CASE Continues(pkt)
    <3> DEFINE old == View(pkt.key, Before(pkt))
    <3>1. old \in Streams /\ ~IsNewSyn(pkt)
      BY <2>3, FramesBefore, TrackerBefore DEF FrameInv
    <3>2. Opens(old, wire')
      BY <1>2, <3>1
    <3>3. /\ Frames(old) = Frames(Before(pkt)) /\ old.client_frames = Before(pkt).client_frames
          /\ old.lifecycle = Before(pkt).lifecycle
      BY DEF View, Frames
    <3>4. \A f \in Frames(new) :
             IsNewSyn(wire'[f]) => f \in new.client_frames /\ \A g \in Frames(new) : f <= g
      BY <1>1, <2>1, <3>1, <3>2, <3>3
    <3>5. ASSUME new.lifecycle = "ESTABLISHED"
          PROVE  \E f, g, h \in Frames(new) :
                    /\ f < h /\ g < h
                    /\ IsNewSyn(wire'[f]) /\ IsSynAck(wire'[g])
                    /\ Has(wire'[h], "ACK") /\ ~Has(wire'[h], "SYN")
      <4>1. CASE Before(pkt).lifecycle = "ESTABLISHED"
        BY <2>1, <3>2, <3>3, <4>1
      <4>2. CASE /\ Before(pkt).syn_seen \/ IsNewSyn(pkt)
                 /\ Before(pkt).syn_ack_seen \/ IsSynAck(pkt)
                 /\ Has(pkt, "ACK") /\ ~Has(pkt, "SYN")
        <5>1. Before(pkt).syn_seen /\ Before(pkt).syn_ack_seen
          BY <4>2 DEF IsNewSyn, IsSynAck
        <5>2. /\ pkt.key \in DOMAIN active_streams
              /\ active_streams[pkt.key] \in Trackers
              /\ Before(pkt) = [active_streams[pkt.key] EXCEPT !.order = Now]
          BY <2>3, TrackerBefore DEF FrameInv, IInv, TypeOK
        <5>3. /\ Frames(active_streams[pkt.key]) = Frames(Before(pkt))
              /\ active_streams[pkt.key].syn_seen /\ active_streams[pkt.key].syn_ack_seen
          BY <5>1, <5>2 DEF Trackers, Frames
        <5>4. TrackerFits(active_streams[pkt.key])
          BY <5>2, FitsStays
        <5>5. PICK f \in Frames(Before(pkt)), g \in Frames(Before(pkt)) :
                 IsNewSyn(wire[f]) /\ IsSynAck(wire[g])
          BY <5>3, <5>4 DEF TrackerFits
        <5>6. f \in 1 .. Len(wire) /\ g \in 1 .. Len(wire)
          BY <2>1
        <5>7. f < Now /\ g < Now /\ IsNewSyn(wire'[f]) /\ IsSynAck(wire'[g])
          BY <1>1, <5>5, <5>6
        <5>8. f \in Frames(new) /\ g \in Frames(new) /\ Now \in Frames(new)
          BY <2>1
        <5> QED BY <1>1, <4>2, <5>7, <5>8
      <4> QED BY <2>1, <3>5, <4>1, <4>2, EstablishedBy
    <3> HIDE DEF old
    <3> QED BY <3>4, <3>5
  <2> QED BY <2>2, <2>3
<1>4. \A s \in Streams' : s = new \/ s \in Streams
  BY <1>0, PacketViews DEF FrameInv
<1>5. \A s \in Streams' : Opens(s, wire')
  BY <1>2, <1>3, <1>4
<1> QED BY <1>5 DEF HandshakeIsReal, Frames, IsNewSyn, IsSynAck, Has

\* The drain moves a conversation from the pool to the results, and changes none.
LEMMA DrainKeeps ==
    ASSUME FrameInv, IInv', DrainOldest
    PROVE  FrameInv' /\ \A r \in emitted' \ emitted : r.termination_reason # "PURGED"
<1> DEFINE v == Oldest(active_streams)
<1>1. v \in DOMAIN active_streams
  BY OldestInPool DEF DrainOldest, FrameInv, IInv, TypeOK
<1>2. /\ emitted' = emitted \cup {Finalize(v, active_streams[v], "END_OF_CAPTURE")}
      /\ active_streams' = Without(active_streams, v) /\ wire' = wire
  BY DEF DrainOldest
<1> HIDE DEF v
<1>3. /\ DOMAIN active_streams' = DOMAIN active_streams \ {v}
      /\ \A k \in DOMAIN active_streams' : active_streams'[k] = active_streams[k]
  BY <1>2 DEF Without
<1>4. Streams' = Streams
  <2>1. View(v, active_streams[v]) \in Streams'
    BY <1>2, FinalizeView DEF Streams
  <2>2. \A r \in emitted' \ emitted : View(r.key, r) = View(v, active_streams[v])
    BY <1>2, FinalizeView
  <2>3. \A s \in Streams : s \in Streams'
    BY <1>2, <1>3, <2>1 DEF Streams
  <2>4. \A s \in Streams' : s \in Streams
    BY <1>1, <1>2, <1>3, <2>2 DEF Streams
  <2> QED BY <2>3, <2>4
<1>5. FramesRead' /\ FramesAccounted' /\ HandshakeIsReal'
  BY <1>2, <1>4 DEF FrameInv, FramesRead, FramesAccounted, HandshakeIsReal, Frames,
                    IsNewSyn, IsSynAck, Has
<1>6. TrackersFit'
  BY <1>2, <1>3 DEF FrameInv, TrackersFit, TrackerFits, Frames, IsNewSyn, IsSynAck, Has
<1>7. Finalize(v, active_streams[v], "END_OF_CAPTURE").termination_reason # "PURGED"
  BY <1>1 DEF FrameInv, TrackersFit, TrackerFits, Finalize, FinalReason
<1> QED BY <1>2, <1>5, <1>6, <1>7 DEF FrameInv

\* Two conversations of the pool have different last frames.
LEMMA LastFramesDiffer ==
    ASSUME FrameInv, NEW j \in DOMAIN active_streams, NEW k \in DOMAIN active_streams, j # k
    PROVE  active_streams[j].order # active_streams[k].order
<1>1. /\ active_streams[j].order \in Frames(active_streams[j])
      /\ active_streams[k].order \in Frames(active_streams[k])
  BY DEF FrameInv, TrackersFit, TrackerFits
<1>2. active_streams[j].order \in 1 .. Len(wire)
  BY <1>1, PoolFrames
<1>3. /\ View(j, active_streams[j]) \in Streams /\ View(k, active_streams[k]) \in Streams
      /\ View(j, active_streams[j]) # View(k, active_streams[k])
  BY DEF Streams, View
<1>4. /\ Frames(View(j, active_streams[j])) = Frames(active_streams[j])
      /\ Frames(View(k, active_streams[k])) = Frames(active_streams[k])
  BY DEF Frames, View
<1> QED BY <1>1, <1>2, <1>3, <1>4 DEF FrameInv, FramesAccounted

\* An evicted conversation is older than every one that stays and than the packet.
LEMMA PacketEvicts ==
    ASSUME FrameInv, NEW pkt \in Packets, ProcessPacket(pkt),
           NEW r \in emitted' \ emitted, r.termination_reason = "PURGED",
           NEW k \in DOMAIN active_streams'
    PROVE  \E g \in Frames(active_streams'[k]) : \A f \in Frames(r) : f < g
<1> DEFINE Q == PoolAfterReuse(pkt)
           v == Oldest(Q)
<1>1. /\ active_streams \in [DOMAIN active_streams -> Trackers]
      /\ Len(wire) \in Nat /\ Now = Len(wire) + 1
  BY TrackerBefore, WireGrows DEF FrameInv, IInv, TypeOK
<1>2. /\ Q \in [DOMAIN Q -> Trackers]
      /\ \A j \in DOMAIN Q : j \in DOMAIN active_streams /\ Q[j] = active_streams[j]
  BY <1>1 DEF PoolAfterReuse, Without
<1>3. r \in Finalized(pkt)
  BY DEF ProcessPacket
<1>4. Evicts(pkt) /\ r = Finalize(v, Q[v], "PURGED")
  <2>1. CASE ~Evicts(pkt)
    <3>1. r.termination_reason = "CONNECTION_REUSED"
      BY <1>3, <2>1 DEF Finalized, Finalize, FinalReason
    <3> QED BY <3>1
  <2>2. CASE Evicts(pkt)
    BY <1>3, <2>2 DEF Finalized
  <2> QED BY <2>1, <2>2
<1>5. DOMAIN Q # {} /\ pkt.key \notin DOMAIN Q
  <2>1. Cardinality(DOMAIN Q) >= MaxActiveStreams /\ pkt.key \notin DOMAIN Q
    BY <1>4 DEF Evicts
  <2> HIDE DEF Q
  <2>2. Cardinality({}) = 0 /\ ~(0 >= MaxActiveStreams)
    BY FS_EmptySet, PoolAssumption
  <2> QED BY <2>1, <2>2
<1> HIDE DEF Q
<1>6. v \in DOMAIN Q /\ \A j \in DOMAIN Q : Q[v].order <= Q[j].order
  BY <1>2, <1>5, OldestInPool
<1> HIDE DEF v
<1>7. Frames(r) = Frames(active_streams[v]) /\ v \in DOMAIN active_streams
  BY <1>2, <1>4, <1>6 DEF Frames, Finalize
<1>8. Frames(r) \subseteq 1 .. Len(wire)
  BY <1>7, PoolFrames
<1>9. CASE k = pkt.key
  <2>1. Now \in Frames(active_streams'[k])
    BY <1>9, PacketPool, TrackerAfter DEF FrameInv
  <2> QED BY <1>1, <1>8, <2>1
<1>10. CASE k # pkt.key
  <2>1. k \in DOMAIN Q /\ k # v
    <3>1. PoolAfterEviction(pkt) = Without(Q, v)
      BY <1>4 DEF PoolAfterEviction, Q, v
    <3> QED BY <1>10, <3>1 DEF ProcessPacket, With, Without
  <2>2. /\ k \in DOMAIN active_streams
        /\ active_streams[v].order <= active_streams[k].order
    BY <1>2, <1>6, <2>1
  <2>3. active_streams'[k] = active_streams[k]
    BY <1>10, PacketPool DEF FrameInv
  <2>4. /\ active_streams[k].order \in Frames(active_streams[k])
        /\ \A f \in Frames(active_streams[v]) : f <= active_streams[v].order
    BY <1>7, <2>2 DEF FrameInv, TrackersFit, TrackerFits
  <2>5. /\ active_streams[v].order \in Nat /\ active_streams[k].order \in Nat
        /\ active_streams[v].order # active_streams[k].order
    BY <1>1, <1>7, <2>1, <2>2, LastFramesDiffer DEF Trackers
  <2>6. \A f \in Frames(r) : f < active_streams[k].order
    BY <1>1, <1>7, <1>8, <2>2, <2>4, <2>5
  <2> QED BY <2>3, <2>4, <2>6
<1> QED BY <1>9, <1>10
-------------------------------------------------------------------------------
\* Before the first packet there is no conversation.
LEMMA InitFrameInv == Init => FrameInv
<1> SUFFICES ASSUME Init PROVE FrameInv
  OBVIOUS
<1>1. DOMAIN active_streams = {} /\ Streams = {} /\ Len(wire) = 0
  BY DEF Init, Streams
<1> QED BY <1>1, InitIInv DEF FrameInv, FramesRead, FramesAccounted, TrackersFit,
                              HandshakeIsReal

\* Every step keeps the invariant, and purges only the conversation that was silent
\* the longest.
LEMMA NextFrameInv ==
    ASSUME FrameInv, [Next]_vars
    PROVE  /\ FrameInv'
           /\ \A r \in emitted' \ emitted : r.termination_reason = "PURGED" =>
                 \A k \in DOMAIN active_streams' :
                    \E g \in Frames(active_streams'[k]) : \A f \in Frames(r) : f < g
<1>1. IInv /\ IInv'
  BY NextIInv DEF FrameInv
<1>2. ASSUME NEW pkt \in Packets, ProcessPacket(pkt)
      PROVE  FrameInv'
  BY <1>1, <1>2, PacketFrames, PacketTrackers, PacketHandshake DEF FrameInv
<1>3. CASE EndOfCapture \/ UNCHANGED vars
  <2>1. UNCHANGED <<active_streams, emitted, wire>>
    BY <1>3 DEF EndOfCapture, vars
  <2> QED BY <1>1, <2>1 DEF FrameInv, FramesRead, FramesAccounted, TrackersFit, TrackerFits,
                           HandshakeIsReal, Streams, Frames, IsNewSyn, IsSynAck, Has
<1>4. CASE DrainOldest
  BY <1>1, <1>4, DrainKeeps
<1>5. CASE \E pkt \in Packets : ProcessPacket(pkt)
  BY <1>2, <1>5, PacketEvicts
<1> QED BY <1>3, <1>4, <1>5 DEF Next

\* Whatever is captured, the conversations and the frames that were read fit together.
THEOREM FramesInvariance == Spec => []FrameInv
<1>1. FrameInv /\ [Next]_vars => FrameInv'
  BY NextFrameInv
<1> QED BY <1>1, InitFrameInv, PTL DEF Spec

\* Every packet read is in exactly one conversation, of its 4-tuple, on its sender's side.
THEOREM EveryFrameOnce == Spec => []FramesAccounted
<1>1. FrameInv => FramesAccounted
  BY DEF FrameInv
<1> QED BY <1>1, FramesInvariance, PTL

\* No conversation is called established of which the handshake was not captured, and
\* its opening SYN is its first packet.
THEOREM HandshakeCaptured == Spec => []HandshakeIsReal
<1>1. FrameInv => HandshakeIsReal
  BY DEF FrameInv
<1> QED BY <1>1, FramesInvariance, PTL

\* A full pool gives up the conversation that has been silent the longest.
THEOREM EvictionIsFair == Spec => EvictsLeastRecent
<1>1. FrameInv /\ [Next]_vars =>
         [\A r \in emitted' \ emitted : r.termination_reason = "PURGED" =>
             \A k \in DOMAIN active_streams' :
                \E g \in Frames(active_streams'[k]) : \A f \in Frames(r) : f < g]_vars
  BY NextFrameInv
<1> QED BY <1>1, FramesInvariance, PTL DEF Spec, EvictsLeastRecent
===============================================================================
