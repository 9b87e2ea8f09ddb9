--------------------------- MODULE MCRequestHash ---------------------------
(***************************************************************************)
(* An instance of RequestHash for TLC: a word of eight bits, bytes of two, *)
(* and every call of up to four bytes.                                     *)
(***************************************************************************)
EXTENDS RequestHash

MCByte == 0..3
MCWord == 2^8
MCCalls == UNION { [1..n -> MCByte] : n \in 1..4 }
=============================================================================
