----------------------------- MODULE StreamLedger -----------------------------
(***************************************************************************)
(* What the stream pool of tcp_reassembly_service.py promises to the       *)
(* pipeline that consumes it, without saying how: every conversation that  *)
(* is opened is reported exactly once, an identity is never used twice, at *)
(* most one conversation of a 4-tuple is open at a time, and no more than  *)
(* Capacity conversations are open.  StreamPool implements this module.    *)
(***************************************************************************)
EXTENDS Naturals, FiniteSets

CONSTANTS Keys,      \* canonical 4-tuples
          Capacity   \* the number of conversations that may be open

VARIABLES open,      \* identities <<key, generation>> being reassembled
          reported   \* identities handed to the consumer

ledger == <<open, reported>>

Ids == Keys \X (Nat \ {0})

Init == /\ open = {}
        /\ reported = {}

\* One packet (or one step of the final drain) closes at most one
\* conversation and opens at most one.
Rotate ==
    /\ reported \subseteq reported'
    /\ open \ open' = reported' \ reported
    /\ (open' \ open) \cap (reported \cup reported') = {}
    /\ open' \subseteq Ids
    /\ \A a, b \in open \ open' : a = b
    /\ \A a, b \in open' \ open : a = b
    /\ \A a, b \in open' : a[1] = b[1] => a = b
    /\ Cardinality(open') <= Capacity

Spec == Init /\ [][Rotate]_ledger
===============================================================================
