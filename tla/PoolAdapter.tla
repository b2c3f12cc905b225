---------------------------- MODULE PoolAdapter ----------------------------
(***************************************************************************)
(* The chain adapter of the pool tests (pool/tests/common.rs) composed     *)
(* with the chain store it drives.  A writer thread applies blocks with    *)
(* update_db_for_block: it takes the store's write lock, writes the        *)
(* header, the head and the block sums through one batch, commits it and,  *)
(* still holding the store lock, brings the UTXO set (a second lock) up    *)
(* to date.  Pool threads meanwhile call the adapter's BlockChain methods: *)
(* chain_head under the store's read lock, validate_tx under the UTXO      *)
(* set's read lock.                                                        *)
(*                                                                         *)
(* Every `.unwrap()` on an Err panics: the thread unwinds, dropping the    *)
(* batch (no commit) and then the store guard.  Each reader call holds     *)
(* its lock for the whole call and makes no other step, so it is one       *)
(* action guarded by the lock being free of the writer; the writer's UTXO  *)
(* update is one action under the UTXO lock.                               *)
(***************************************************************************)
EXTENDS Naturals, Sequences

CONSTANTS
    Hashes, Commits, Positions, Inputs, PosBits, MaxCalls, DeleteMayFail, NONE,
    Outputs,     \* Outputs[h]: commitments of the outputs of block h
    Readers,     \* pool threads
    MaxApplied   \* bound: blocks the writer applies

\* Blocks spend and create commitments; an absent record is neither a
\* Boolean nor a hash (ChainStore assumes the same of the store's
\* constants; a tip always names a hash).
ASSUME AdapterAssumption ==
    /\ Inputs \in [Hashes -> SUBSET Commits]
    /\ Outputs \in [Hashes -> SUBSET Commits]
    /\ NONE \notin BOOLEAN /\ NONE \notin Hashes
    /\ MaxApplied \in Nat

VARIABLES
    db, batch, child, depth, failed, calls,  \* the chain store (ChainStore)
    slock,   \* holder of the store's RwLock write side: "free" or "writer"
    wpc,     \* the writer: the next step of update_db_for_block
    wblk,    \* the block the writer is applying
    utxo,    \* ChainAdapter.utxo
    log,     \* history: the blocks whose batch committed, in order
    rhead    \* rhead[r]: what chain_head last returned to pool thread r

store == <<db, batch, child, depth, failed, calls>>
vars == <<store, slock, wpc, wblk, utxo, log, rhead>>

CS == INSTANCE ChainStore

---------------------------------------------------------------------------
(* update_db_for_block (common.rs 54-99)                                    *)

\* `let s = self.store.write();`
lock_store(b) ==
    /\ wpc = "idle" /\ slock = "free" /\ Len(log) < MaxApplied
    /\ slock' = "writer" /\ wblk' = b /\ wpc' = "batch"
    /\ UNCHANGED <<store, utxo, log, rhead>>

\* A handler's Err is unwrapped: the writer panics.
After(ok) == wpc' = IF failed' THEN "panic" ELSE ok

\* `s.batch().unwrap()`
w_batch ==
    /\ wpc = "batch" /\ CS!open_batch /\ wpc' = "header"
    /\ UNCHANGED <<slock, wblk, utxo, log, rhead>>

\* `batch.save_block_header(header).unwrap()`
w_header ==
    /\ wpc = "header" /\ CS!save_block_header(wblk) /\ After("head")
    /\ UNCHANGED <<slock, wblk, utxo, log, rhead>>

\* `batch.save_head(&tip).unwrap()`, tip.last_block_h being the block's hash.
w_head ==
    /\ wpc = "head" /\ CS!save_head(wblk) /\ After("sums")
    /\ UNCHANGED <<slock, wblk, utxo, log, rhead>>

\* get_block_sums of the parent through the batch (a default on Err: the
\* sums' content is not modelled), `verify_kernel_sums(..).unwrap()`, which
\* panics when the block does not balance, then
\* `batch.save_block_sums(..).unwrap()`.
w_sums ==
    /\ wpc = "sums"
    /\ \/ CS!save_block_sums(wblk) /\ After("commit")
       \/ wpc' = "panic" /\ UNCHANGED store
    /\ UNCHANGED <<slock, wblk, utxo, log, rhead>>

\* Mutant: the store guard dropped right after the commit, before the UTXO
\* set is updated.
w_commit_unlocked ==
    /\ wpc = "commit" /\ CS!commit
    /\ \/ db' = CS!BatchView /\ wpc' = "utxo" /\ log' = Append(log, wblk) /\ slock' = "free"
       \/ db' = db /\ wpc' = "panic" /\ UNCHANGED <<log, slock>>
    /\ UNCHANGED <<wblk, utxo, rhead>>

\* `batch.commit().unwrap()`: the db takes the batch, or the commit fails,
\* consuming the batch and leaving the db as it was, and the writer panics.
\* (When the batch changes nothing, both outcomes give the same store.)
w_commit ==
    /\ wpc = "commit" /\ CS!commit
    /\ \/ db' = CS!BatchView /\ wpc' = "utxo" /\ log' = Append(log, wblk)
       \/ db' = db /\ wpc' = "panic" /\ UNCHANGED log
    /\ UNCHANGED <<slock, wblk, utxo, rhead>>

\* Mutant: the loop removing the inputs' commitments left out.
w_utxo_no_spend ==
    /\ wpc = "utxo"
    /\ utxo' = utxo \cup Outputs[wblk]
    /\ slock' = "free" /\ wpc' = "idle" /\ wblk' = NONE
    /\ UNCHANGED <<store, log, rhead>>

\* Under `self.utxo.write()`: remove the inputs' commitments, insert the
\* outputs'; then the function returns and the store guard is dropped.
w_utxo ==
    /\ wpc = "utxo"
    /\ utxo' = (utxo \ Inputs[wblk]) \cup Outputs[wblk]
    /\ slock' = "free" /\ wpc' = "idle" /\ wblk' = NONE
    /\ UNCHANGED <<store, log, rhead>>

\* A panic unwinds the writer: the batch, if the commit has not consumed
\* it, is dropped without commit, then the store guard.
w_unwind ==
    /\ wpc = "panic"
    /\ IF depth > 0 THEN CS!drop ELSE UNCHANGED store
    /\ slock' = "free" /\ wpc' = "dead"
    /\ UNCHANGED <<wblk, utxo, log, rhead>>

---------------------------------------------------------------------------
(* BlockChain for ChainAdapter (common.rs 102-150)                          *)

\* ChainStore::head_header: head()? then get_block_header(last_block_h)?.
head_header(V) ==
    IF CS!head(V) # NONE /\ V[CS!K(CS!BLOCK_HEADER, CS!head(V))] # NONE
      THEN CS!head(V) ELSE NONE

\* ChainStore::get_block_sums (store.rs 92-97), as the adapter forwards it.
get_block_sums(V, h) == V[CS!K(CS!BLOCK_SUMS, h)]

\* chain_head, under `self.store.read()`; an Err is returned as NONE.
chain_head(r) ==
    /\ slock = "free"
    /\ rhead' = [rhead EXCEPT ![r] = head_header(db)]
    /\ UNCHANGED <<store, slock, wpc, wblk, utxo, log>>

\* validate_tx, under `self.utxo.read()`: no output already unspent, every
\* input unspent.
validate_tx(U, ins, outs) == outs \cap U = {} /\ ins \subseteq U

---------------------------------------------------------------------------
Init ==
    /\ CS!Init
    /\ slock = "free" /\ wpc = "idle" /\ wblk = NONE
    /\ utxo = {} /\ log = <<>>
    /\ rhead = [r \in Readers |-> NONE]

Writer ==
    \/ \E b \in Hashes : lock_store(b)
    \/ w_batch \/ w_header \/ w_head \/ w_sums \/ w_commit \/ w_utxo \/ w_unwind

Next ==
    \/ Writer
    \/ \E r \in Readers : chain_head(r)

Spec == Init /\ [][Next]_vars

---------------------------------------------------------------------------
(* Properties                                                              *)

\* What the committed blocks s make the UTXO set: the outputs of a block
\* that no later block spends (a block's own outputs survive its inputs).
UtxoOf(s) ==
    {c \in Commits : \E i \in 1 .. Len(s) :
                       /\ c \in Outputs[s[i]]
                       /\ \A j \in i + 1 .. Len(s) : c \notin Inputs[s[j]]}

\* Whenever the store is not write-locked -- whenever a pool thread can
\* read the chain head -- the UTXO set validate_tx checks against is the
\* one of exactly the blocks the committed store holds: update_db_for_block
\* brings it up to date before it lets go of the store.
UtxoMatchesStore ==
    slock = "free" => utxo = UtxoOf(log)

\* A chain head a pool thread was given keeps its header and its block
\* sums in the committed store, whatever the writer has done since: the
\* sums that get_block_sums(head) looks up are there, because head and
\* sums are committed in one batch and a panicking writer commits nothing.
ReadHeadHasSums ==
    \A r \in Readers :
        rhead[r] # NONE => get_block_sums(db, rhead[r]) # NONE

\* update_db_for_block publishes a block all at once: the committed store
\* changes only when the writer's batch commits, and that change makes the
\* writer's block the head with its block sums beside it -- never a head
\* without sums (save_head goes through the batch), and never a store
\* changed by an unwinding writer (a dropped batch is discarded).
CommitPublishesWhole ==
    [][db' # db =>
         /\ wpc = "commit"
         /\ CS!head(db') = wblk
         /\ get_block_sums(db', wblk) # NONE]_vars

---------------------------------------------------------------------------
(* Refinement of BlockPublish                                              *)

\* A block counts as published when update_db_for_block lets go of the
\* store, after the UTXO update: between its commit and that point it is
\* in the store but no pool thread can read it yet.
published == IF wpc = "utxo" THEN SubSeq(log, 1, Len(log) - 1) ELSE log

\* The writer is busy while it holds the store; a panicked one is dead.
wstate == IF wpc = "idle" THEN "idle" ELSE IF wpc = "dead" THEN "dead" ELSE "busy"

Pub == INSTANCE BlockPublish WITH chain <- published, writer <- wstate, seen <- rhead

\* To pool threads, update_db_for_block publishes a block all at once: the
\* head chain_head returns is always the last block fully applied, and the
\* UTXO set validate_tx reads is always that of exactly the applied
\* blocks, each block's header, head, sums and UTXO update appearing
\* together; a panicking writer publishes nothing.
PublishesAtomically == Pub!Spec

=============================================================================
