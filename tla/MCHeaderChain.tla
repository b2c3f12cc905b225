---------------------------- MODULE MCHeaderChain ----------------------------
(***************************************************************************)
(* HeaderChain for TLC: two PoW types (so the filtered walk skips headers  *)
(* of the other type), two policies, chains of up to four headers, a       *)
(* search window of two ancestors (so both a found policy and the cap are  *)
(* reached), timestamps {0, 1} (so a timestamp can go backwards) and a     *)
(* six-bit u64 (so the 60 s fallback fits).                              *)
(***************************************************************************)
EXTENDS HeaderChain

CONSTANTS cuckatoo, progpow, p1, p2

MCPowTypes == {cuckatoo, progpow}
MCPolicies == {p1, p2}

====
