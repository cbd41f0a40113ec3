------------------------------ MODULE MCPairing ------------------------------
(* Instances of Pairing for TLC. *)
EXTENDS Pairing
CONSTANTS s1, d1, k1, k2

Alone == [s \in {s1} |-> d1]
=============================================================================
