---------------------------- MODULE BlockPublish ----------------------------
(***************************************************************************)
(* What the pool's chain adapter promises the pool threads, with no store, *)
(* no batch and no lock: the chain is a sequence of whole blocks, one      *)
(* writer appends a block at a time, and a pool thread either reads the    *)
(* last block of the chain (chain_head) or checks against the UTXO set of *)
(* exactly that chain.  A writer that gives up publishes nothing and is    *)
(* never heard from again.  No pool thread reads while a block is being   *)
(* published.                                                              *)
(***************************************************************************)
EXTENDS Naturals, Sequences

CONSTANTS Hashes, Commits, Inputs, Outputs, Readers, MaxApplied, NONE

VARIABLES
    chain,   \* the published blocks, in order
    utxo,    \* the unspent outputs pool threads check transactions against
    writer,  \* "idle", "busy" (publishing) or "dead" (gave up)
    seen     \* seen[r]: the head pool thread r last read

pvars == <<chain, utxo, writer, seen>>

\* The head of a chain: its last block, NONE before the first.
Tip(s) == IF s = <<>> THEN NONE ELSE s[Len(s)]

Init ==
    /\ chain = <<>> /\ utxo = {} /\ writer = "idle"
    /\ seen = [r \in Readers |-> NONE]

\* The writer starts on a block (at most MaxApplied of them).
Acquire ==
    /\ writer = "idle" /\ Len(chain) < MaxApplied
    /\ writer' = "busy"
    /\ UNCHANGED <<chain, utxo, seen>>

\* The block b becomes the head, and the UTXO set loses b's inputs and
\* gains its outputs, in one step.
Publish(b) ==
    /\ writer = "busy"
    /\ chain' = Append(chain, b)
    /\ utxo' = (utxo \ Inputs[b]) \cup Outputs[b]
    /\ writer' = "idle"
    /\ UNCHANGED seen

\* The writer gives up, publishing nothing.
Abort ==
    /\ writer = "busy" /\ writer' = "dead"
    /\ UNCHANGED <<chain, utxo, seen>>

\* Pool thread r reads the head of the published chain.
Read(r) ==
    /\ writer # "busy"
    /\ seen' = [seen EXCEPT ![r] = Tip(chain)]
    /\ UNCHANGED <<chain, utxo, writer>>

Next ==
    \/ Acquire \/ Abort
    \/ \E b \in Hashes : Publish(b)
    \/ \E r \in Readers : Read(r)

Spec == Init /\ [][Next]_pvars

=============================================================================
