------------------------------ MODULE MineBlock ------------------------------
(***************************************************************************)
(* The block assembler of servers/src/mining/mine_block.rs: get_block's    *)
(* retry loop around build_block, on its own thread, while a chain writer  *)
(* commits new heads.                                                      *)
(*                                                                         *)
(* build_block is one action per step that reads the chain or can fail;    *)
(* the steps in between (timestamp, fees, header fill) change no state the *)
(* properties tell apart and belong to the step before them.  The chain is *)
(* its head height `tip`; the three chain reads of build_block record the  *)
(* head they saw.  Failures come from the environment (KV errors, an      *)
(* unreachable wallet, a failed validation, a fresh coinbase key that      *)
(* collides) and are bounded by MaxFaults: after the last one the          *)
(* environment behaves.  Only the given key's known duplicate is not.      *)
(***************************************************************************)
EXTENDS Naturals

CONSTANTS
    MaxFaults,  \* bound: transient failures of build_block's steps
    MaxTip      \* bound: head height the chain writer reaches

ASSUME MineBlockAssumption == MaxFaults \in Nat /\ MaxTip \in Nat \ {0}

\* key_id as get_block receives it or passes it on: a given key, or None.
KeyArgs == {"given", "none"}

\* The kinds of Err(e) that get_block's match tells apart: a chain
\* DuplicateCommitment, a WalletComm error, and every other error (other
\* chain errors, keychain, block and validation errors: they only log).
Errs == {"dup", "wallet", "other"}

\* The steps of build_block, then "handle" (the body of get_block's while
\* loop) and "done" (get_block returned).
Steps == {"head", "seed", "difficulty", "coinbase", "assemble", "bottles",
          "roots", "handle", "done"}

VARIABLES
    keyId,     \* get_block's key_id argument
    walletUrl, \* wallet_listener_url is Some
    givenDup,  \* the given key's coinbase commitment is already in the UTXO set
    tip,       \* height of the chain head
    pc,        \* the assembler's next step
    keyArg,    \* key_id of the running build_block
    coinKey,   \* the key the coinbase was built with ("given" or "fresh")
    err,       \* the error of the last failed build_block
    sleptMs,   \* what get_block slept before the running attempt
    bHead,     \* the head build_block read at line 146
    diffFrom,  \* the head chain.difficulty_iter() started from
    botFrom,   \* the head chain.bottles_iter() started from
    faults     \* transient failures so far

vars == <<keyId, walletUrl, givenDup, tip, pc, keyArg, coinKey, err, sleptMs,
          bHead, diffFrom, botFrom, faults>>
reads == <<bHead, diffFrom, botFrom>>

\* Mutant: failures without end.
Fail_unbounded(kind) ==
    /\ faults' = faults + 1
    /\ err' = kind /\ pc' = "handle"

\* A step of build_block returns Err(kind) through `?`.
Fail(kind) ==
    /\ faults < MaxFaults /\ faults' = faults + 1
    /\ err' = kind /\ pc' = "handle"

\* A step of build_block succeeds and the next one runs.
Go(from, to) == pc = from /\ pc' = to

---------------------------------------------------------------------------
(* build_block (lines 139-262)                                             *)

\* chain.head_header()?
build_head ==
    /\ pc = "head"
    /\ \/ Fail("other") /\ UNCHANGED reads
       \/ Go("head", "seed") /\ bHead' = tip /\ UNCHANGED <<diffFrom, botFrom, faults, err>>
    /\ UNCHANGED <<keyId, walletUrl, givenDup, tip, keyArg, coinKey, sleptMs>>

\* The RandomX seed lookup, then the timestamp max(now, head + 1).
build_seed ==
    /\ pc = "seed"
    /\ \/ Fail("other")
       \/ Go("seed", "difficulty") /\ UNCHANGED <<faults, err>>
    /\ UNCHANGED <<keyId, walletUrl, givenDup, tip, keyArg, coinKey, sleptMs, reads>>

\* next_difficulty over chain.difficulty_iter()?, a cursor from the head
\* the chain has now.
build_difficulty ==
    /\ pc = "difficulty"
    /\ \/ Fail("other") /\ UNCHANGED diffFrom
       \/ Go("difficulty", "coinbase") /\ diffFrom' = tip /\ UNCHANGED <<faults, err>>
    /\ UNCHANGED <<keyId, walletUrl, givenDup, tip, keyArg, coinKey, sleptMs, bHead, botFrom>>

\* The pool's mineable transactions (an error falls back to none), then
\* get_coinbase: burn_reward with a random keychain without a wallet URL,
\* else the wallet's build_coinbase, which derives a fresh key for None.
build_coinbase ==
    /\ pc = "coinbase"
    /\ \/ Fail(IF walletUrl THEN "wallet" ELSE "other") /\ UNCHANGED coinKey
       \/ /\ Go("coinbase", "assemble")
          /\ coinKey' = IF walletUrl /\ keyArg = "given" THEN "given" ELSE "fresh"
          /\ UNCHANGED <<faults, err>>
    /\ UNCHANGED <<keyId, walletUrl, givenDup, tip, keyArg, sleptMs, reads>>

\* Block::from_reward or from_coinbases, then b.validate(...)?.
build_assemble ==
    /\ pc = "assemble"
    /\ \/ Fail("other")
       \/ Go("assemble", "bottles") /\ UNCHANGED <<faults, err>>
    /\ UNCHANGED <<keyId, walletUrl, givenDup, tip, keyArg, coinKey, sleptMs, reads>>

\* next_policy over chain.bottles_iter(policy)?, again from the head now.
build_bottles ==
    /\ pc = "bottles"
    /\ \/ Fail("other") /\ UNCHANGED botFrom
       \/ Go("bottles", "roots") /\ botFrom' = tip /\ UNCHANGED <<faults, err>>
    /\ UNCHANGED <<keyId, walletUrl, givenDup, tip, keyArg, coinKey, sleptMs, bHead, diffFrom>>

\* chain.set_txhashset_roots: DuplicateCommitment when the coinbase reuses
\* a key whose output exists; any other failure becomes Chain(Other).  A
\* fresh key (the wallet's next derivation, or burn_reward's random
\* keychain) is "unlikely" to be a duplicate (lines 120-121), not certain
\* not to: it may be one, as a transient failure.
build_roots ==
    /\ pc = "roots"
    /\ IF coinKey = "given" /\ givenDup
         THEN err' = "dup" /\ pc' = "handle" /\ UNCHANGED faults
         ELSE \/ Fail("other") \/ Fail("dup")
              \/ Go("roots", "done") /\ UNCHANGED <<faults, err>>
    /\ UNCHANGED <<keyId, walletUrl, givenDup, tip, keyArg, coinKey, sleptMs, reads>>

---------------------------------------------------------------------------
(* get_block (lines 77-134)                                                *)

\* Mutant: the key is never rotated.
handle_keep_key ==
    /\ pc = "handle"
    /\ keyArg' = keyId
    /\ sleptMs' = (IF err = "wallet" THEN 5000 ELSE 0) + (IF keyId = "given" THEN 100 ELSE 0)
    /\ pc' = "head"
    /\ UNCHANGED <<keyId, walletUrl, givenDup, tip, coinKey, err, reads, faults>>

\* Mutant: the 100 ms sleep written with from_secs.
handle_sleep_secs ==
    /\ pc = "handle"
    /\ LET newKey == IF err = "dup" THEN "none" ELSE keyId
       IN /\ keyArg' = newKey
          /\ sleptMs' = (IF err = "wallet" THEN 5000 ELSE 0) + (IF newKey = "given" THEN 100000 ELSE 0)
    /\ pc' = "head"
    /\ UNCHANGED <<keyId, walletUrl, givenDup, tip, coinKey, err, reads, faults>>

\* One turn of the while loop: new_key_id starts from key_id again, is
\* None after a DuplicateCommitment; sleep 5 s after a WalletComm error
\* and 100 ms when new_key_id is Some; call build_block again.
handle ==
    /\ pc = "handle"
    /\ LET newKey == IF err = "dup" THEN "none" ELSE keyId
       IN /\ keyArg' = newKey
          /\ sleptMs' = (IF err = "wallet" THEN 5000 ELSE 0) + (IF newKey = "given" THEN 100 ELSE 0)
    /\ pc' = "head"
    /\ UNCHANGED <<keyId, walletUrl, givenDup, tip, coinKey, err, reads, faults>>

\* Another thread appends a block and moves the head.
commit_head ==
    /\ tip < MaxTip /\ tip' = tip + 1
    /\ UNCHANGED <<keyId, walletUrl, givenDup, pc, keyArg, coinKey, err, sleptMs, reads, faults>>

---------------------------------------------------------------------------
Init ==
    /\ keyId \in KeyArgs /\ walletUrl \in BOOLEAN /\ givenDup \in BOOLEAN
    /\ tip = 1 /\ pc = "head" /\ keyArg = keyId /\ coinKey = "fresh"
    /\ err = "other" /\ sleptMs = 0
    /\ bHead = 0 /\ diffFrom = 0 /\ botFrom = 0 /\ faults = 0

Assembler ==
    \/ build_head \/ build_seed \/ build_difficulty \/ build_coinbase
    \/ build_assemble \/ build_bottles \/ build_roots \/ handle

Next == Assembler \/ commit_head

\* The assembler thread is scheduled whenever it can run (its sleeps end);
\* the chain writer need not make progress.
Spec == Init /\ [][Next]_vars /\ WF_vars(Assembler)

---------------------------------------------------------------------------
(* Properties                                                              *)

\* Types; no read of the head is ahead of the head.
TypeOK ==
    /\ keyId \in KeyArgs /\ walletUrl \in BOOLEAN /\ givenDup \in BOOLEAN
    /\ tip \in 1 .. MaxTip /\ pc \in Steps /\ keyArg \in KeyArgs
    /\ coinKey \in {"given", "fresh"} /\ err \in Errs
    /\ sleptMs \in {0, 100, 5000, 5100} /\ faults \in 0 .. MaxFaults
    /\ bHead \in 0 .. tip /\ diffFrom \in 0 .. tip /\ botFrom \in 0 .. tip

\* get_block "does not return until/unless a new block can be built" (its
\* doc comment, spec 4.H): once the environment stops failing it does
\* return, for every key_id and wallet, also when the given key's
\* commitment is a duplicate and the retries keep going back to it.
GetBlockReturns == <>(pc = "done")

\* Spec 4.H step 12: after a DuplicateCommitment get_block rotates the key
\* and retries after 100 ms.
DupRetryWaits == [][pc = "handle" /\ err = "dup" => sleptMs' >= 100]_vars

\* The returned block's difficulty and bottles are computed from the chain
\* whose head is the block's parent ("build a block on top of" the latest
\* chain state, get_block; spec 4.H steps 1, 4, 11).
OneParent == pc = "done" => diffFrom = bHead /\ botFrom = bHead

====
