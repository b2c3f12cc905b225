--------------------------- MODULE MCPoolAdapter ---------------------------
(* Small instance of PoolAdapter for TLC: two blocks, h1 creating c1 and   *)
(* h2 spending c1 and creating c2, so that the order in which they are    *)
(* applied shows in the UTXO set; one pool thread; three applications, so  *)
(* that a block can be applied again after the other.                      *)
EXTENDS PoolAdapter, TLC

CONSTANTS h1, h2, c1, c2, r1

MCInputs == (h1 :> {}) @@ (h2 :> {c1})
MCOutputs == (h1 :> {c1}) @@ (h2 :> {c2})

=============================================================================
