----------------------------- MODULE MCStreamPool -----------------------------
(***************************************************************************)
(* Instances of StreamPool for TLC.  The flag sets are those of a TCP      *)
(* connection: the three packets of the handshake (an ACK also stands for  *)
(* data), a graceful close and an abort.                                   *)
(***************************************************************************)
EXTENDS StreamPool, TLC

MCFlagSets == {{"SYN"}, {"SYN", "ACK"}, {"ACK"}, {"FIN", "ACK"}, {"RST"}}

\* Keys are interchangeable: the pool compares them only for equality.
MCSymmetry == Permutations(Keys)
===============================================================================
