----------------------------- MODULE MCMineBlock -----------------------------
(***************************************************************************)
(* MineBlock for TLC: three transient failures (enough for a WalletComm    *)
(* error to send a rotated key back to a duplicate one and fail again) and *)
(* a writer that moves the head twice while a block is built.              *)
(***************************************************************************)
EXTENDS MineBlock

====
