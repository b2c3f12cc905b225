---------------------------- MODULE MCChainStore ----------------------------
(* Small instance of ChainStore for TLC: one block hash whose one input    *)
(* spends commitment c1, and positions {1, 9} with the bitmap's position   *)
(* type narrowed to PosBits = 3 bits, so that position 9 does not fit in   *)
(* it the way a u64 position above 2^32 does not fit in the u32 bitmap.    *)
EXTENDS ChainStore

CONSTANTS h1, c1

MCInputs == [h \in Hashes |-> {c1}]

=============================================================================
