----------------------------- MODULE ChainStore -----------------------------
(***************************************************************************)
(* The chain store of chain/src/store.rs: one key-value database whose     *)
(* keys are a one-byte prefix followed by a payload, written through a     *)
(* Batch that may have one child batch.                                     *)
(*                                                                         *)
(* Data is abstracted to what the store itself tells apart: a header, a    *)
(* block body and a block_sums record are present or absent (their content *)
(* is fixed by the hash), a tip is the hash it names (last_block_h), an    *)
(* input bitmap is a set of positions and the commit->pos index maps a     *)
(* commitment to a position.  The inputs of each block are a constant.     *)
(*                                                                         *)
(* The KV engine (store/src/lmdb.rs) is not part of the repository; its    *)
(* contract is taken from the spec: reads through a batch see the batch's  *)
(* writes, commit publishes them at once, a dropped batch leaves nothing,  *)
(* a child's commit merges into its parent, deleting an absent key is a    *)
(* NotFound error, and a failed write aborts the batch (the caller's `?`   *)
(* drops it).                                                              *)
(***************************************************************************)
EXTENDS Naturals, FiniteSets

CONSTANTS
    Hashes,     \* block / header hashes
    Commits,    \* output commitments
    Positions,  \* MMR positions (u64)
    Inputs,     \* Inputs[h]: commitments spent by the inputs of block h
    PosBits,    \* width of the bitmap's position type (u32 in the code)
    MaxCalls,   \* bound: handler calls made in one batch (with its child)
    DeleteMayFail, \* a best-effort delete of a present record may fail
    NONE        \* an absent record

ASSUME ConstAssumption ==
    /\ Positions \subseteq Nat
    /\ Inputs \in [Hashes -> SUBSET Commits]
    /\ PosBits \in Nat /\ 2^PosBits \in Nat \ {0}
    /\ MaxCalls \in Nat
    /\ NONE \notin BOOLEAN
    /\ DeleteMayFail \in BOOLEAN

VARIABLES
    db,      \* the committed database
    batch,   \* writes of the open batch: a function on the keys it wrote
    child,   \* writes of the open child batch
    depth,   \* 0: no batch, 1: a batch, 2: a batch and its child
    failed,  \* the innermost batch returned an error and must be dropped
    calls    \* handler calls made since the batch was opened (bounded)

vars == <<db, batch, child, depth, failed, calls>>

---------------------------------------------------------------------------
(* Key codec: prefix bytes of store.rs lines 31-39.                        *)
HEAD == "H"
TAIL == "T"
HEADER_HEAD == "I"
SYNC_HEAD == "s"
BLOCK_HEADER == "h"
BLOCK == "b"
BLOCK_INPUT_BITMAP == "B"
BLOCK_SUMS == "M"
COMMIT_POS == "c"

PointerPrefixes == {HEAD, TAIL, HEADER_HEAD, SYNC_HEAD}
HashPrefixes == {BLOCK_HEADER, BLOCK, BLOCK_INPUT_BITMAP, BLOCK_SUMS}

\* A pointer record is keyed by its prefix alone, the others by prefix ++ id.
Keys == (PointerPrefixes \X {""}) \cup (HashPrefixes \X Hashes)
          \cup ({COMMIT_POS} \X Commits)

\* The values a record under each prefix can hold.
\* (headers, bodies and block_sums are present or absent: {TRUE})
ValOf(p) == IF p \in PointerPrefixes THEN Hashes
            ELSE IF p = BLOCK_INPUT_BITMAP THEN SUBSET (0 .. 2^PosBits - 1)
            ELSE IF p = COMMIT_POS THEN Positions
            ELSE {TRUE}

Ptr(p) == <<p, "">>
K(p, x) == <<p, x>>

---------------------------------------------------------------------------
(* Batch layering (store::Batch, spec 4.C).                                *)
(* A layer is a function on the keys it wrote; Over(f, g) lays f over g.  *)
Over(f, g) == [x \in DOMAIN f \cup DOMAIN g |-> IF x \in DOMAIN f THEN f[x] ELSE g[x]]
\* A layer that wrote the one key k.
Single(k, v) == [x \in {k} |-> v]
EmptyLayer == [k \in {} |-> NONE]

BatchView == Over(batch, db)
\* What the holder of the innermost batch reads (read-your-writes).
View == IF depth = 2 THEN Over(child, BatchView) ELSE BatchView

\* Apply the writes ws (a function on some keys) to the innermost batch.
Write(ws) ==
    /\ IF depth = 2 THEN child' = Over(ws, child) /\ UNCHANGED batch
                    ELSE batch' = Over(ws, batch) /\ UNCHANGED child
    /\ calls' = calls + 1
    /\ UNCHANGED <<db, depth, failed>>

\* A read that returned Err (a missing record): no write is made and the
\* caller decides what to do with the error.
ReadErr == calls' = calls + 1 /\ UNCHANGED <<db, batch, child, depth, failed>>

\* A handler whose write returned Err: the caller propagates it and the batch
\* can only be dropped.  Writes made before the error are never observed.
Fail == failed' = TRUE /\ calls' = calls + 1 /\ UNCHANGED <<db, batch, child, depth>>

\* A handler that made the writes ws and then got an Err from its next
\* write: ws stay in the innermost batch, which can only be dropped.
FailAfter(ws) ==
    /\ IF depth = 2 THEN child' = Over(ws, child) /\ UNCHANGED batch
                    ELSE batch' = Over(ws, batch) /\ UNCHANGED child
    /\ failed' = TRUE /\ calls' = calls + 1
    /\ UNCHANGED <<db, depth>>


---------------------------------------------------------------------------
(* Reads (ChainStore and Batch getters); V is the view read from.          *)
head(V) == V[Ptr(HEAD)]
header_head(V) == V[Ptr(HEADER_HEAD)]
block_exists(V, h) == V[K(BLOCK, h)] # NONE
get_output_pos(V, c) == V[K(COMMIT_POS, c)]

\* Mutant: positions stored without the u32 cast.
build_block_input_bitmap_wide(V, h) ==
    {get_output_pos(V, c) : c \in {x \in Inputs[h] : get_output_pos(V, x) # NONE}}

\* build_block_input_bitmap: the indexed positions of the inputs, as u32;
\* inputs whose position lookup fails are skipped.
build_block_input_bitmap(V, h) ==
    {get_output_pos(V, c) % 2^PosBits :
        c \in {x \in Inputs[h] : get_output_pos(V, x) # NONE}}

---------------------------------------------------------------------------
(* Batch lifecycle (spec_modelled: store::Batch).                          *)

\* ChainStore::batch: one mutating batch at a time.
open_batch ==
    /\ depth = 0
    /\ depth' = 1 /\ calls' = 0
    /\ UNCHANGED <<db, batch, child, failed>>

\* Batch::child
open_child ==
    /\ depth = 1 /\ ~failed
    /\ depth' = 2
    /\ UNCHANGED <<db, batch, child, failed, calls>>

\* Batch::commit: a child merges into its parent, a batch into the db.
\* A failed commit consumes the batch and changes nothing.
commit ==
    /\ depth > 0 /\ ~failed
    /\ \/ /\ depth = 2
          /\ batch' = Over(child, batch) /\ child' = EmptyLayer
          /\ depth' = 1
          /\ UNCHANGED <<db, failed, calls>>
       \/ /\ depth = 1
          /\ db' = BatchView /\ batch' = EmptyLayer /\ depth' = 0
          /\ UNCHANGED <<child, failed, calls>>
       \/ /\ depth = 1
          /\ batch' = EmptyLayer /\ depth' = 0
          /\ UNCHANGED <<db, child, failed, calls>>

\* Mutant: an engine whose batch publishes its writes when dropped.
drop_commits ==
    /\ depth > 0
    /\ depth' = depth - 1 /\ failed' = FALSE
    /\ IF depth = 2 THEN batch' = Over(child, batch) /\ child' = EmptyLayer /\ UNCHANGED db
                    ELSE db' = BatchView /\ batch' = EmptyLayer /\ UNCHANGED child
    /\ UNCHANGED calls

\* Dropping a batch without commit (also after an error).
drop ==
    /\ depth > 0
    /\ depth' = depth - 1 /\ failed' = FALSE
    /\ IF depth = 2 THEN child' = EmptyLayer /\ UNCHANGED batch
                    ELSE batch' = EmptyLayer /\ UNCHANGED child
    /\ UNCHANGED <<db, calls>>

---------------------------------------------------------------------------
(* Batch handlers of store.rs.  Each one is guarded by an open, healthy     *)
(* batch and either completes or returns an Err (Fail).                    *)
Usable == depth > 0 /\ ~failed /\ calls < MaxCalls

\* Mutant: save_head writing through the store instead of the batch.
save_head_unbatched(t) ==
    /\ Usable
    /\ \/ /\ db' = Over([k \in {Ptr(HEAD), Ptr(HEADER_HEAD)} |-> t], db)
          /\ calls' = calls + 1
          /\ UNCHANGED <<batch, child, depth, failed>>
       \/ Fail

\* save_head: HEAD then HEADER_HEAD, each put with `?`.
save_head(t) ==
    /\ Usable
    /\ \/ Write([k \in {Ptr(HEAD), Ptr(HEADER_HEAD)} |-> t])
       \/ Fail
       \/ FailAfter(Single(Ptr(HEAD), t))

save_body_head(t) == Usable /\ (Write(Single(Ptr(HEAD), t)) \/ Fail)
save_body_tail(t) == Usable /\ (Write(Single(Ptr(TAIL), t)) \/ Fail)
save_header_head(t) == Usable /\ (Write(Single(Ptr(HEADER_HEAD), t)) \/ Fail)
save_sync_head(t) == Usable /\ (Write(Single(Ptr(SYNC_HEAD), t)) \/ Fail)

\* reset_sync_head: header_head()? then save_sync_head.
reset_sync_head ==
    /\ Usable
    /\ IF header_head(View) = NONE
         THEN ReadErr
         ELSE Write(Single(Ptr(SYNC_HEAD), header_head(View))) \/ Fail

\* reset_header_head: head()? then save_header_head.
reset_header_head ==
    /\ Usable
    /\ IF head(View) = NONE
         THEN ReadErr
         ELSE Write(Single(Ptr(HEADER_HEAD), head(View))) \/ Fail

\* save_block: build and store the input bitmap, then the body; the put of
\* the body can fail after the bitmap's.
save_block(h) ==
    /\ Usable
    /\ \/ Write([k \in {K(BLOCK_INPUT_BITMAP, h), K(BLOCK, h)} |->
                   IF k = K(BLOCK, h) THEN TRUE
                                      ELSE build_block_input_bitmap(View, h)])
       \/ Fail
       \/ FailAfter(Single(K(BLOCK_INPUT_BITMAP, h), build_block_input_bitmap(View, h)))

\* Mutant: delete_block that forgets the bitmap record.
delete_block_keep_bitmap(h) ==
    /\ Usable
    /\ IF ~block_exists(View, h)
         THEN Fail
         ELSE \/ Write([k \in {K(BLOCK, h), K(BLOCK_SUMS, h)} |-> NONE])
              \/ Fail

\* delete_block: the body (`?`), then best effort the sums and the bitmap.
\* Deleting an absent record is a NotFound; the errors of the two
\* best-effort deletes are ignored, so when such a delete of a present
\* record fails (DeleteMayFail) the record stays.
DeleteOutcomes == IF DeleteMayFail THEN BOOLEAN ELSE {FALSE}

\* The deletions delete_block makes when the two best-effort deletes fail
\* (keepSums, keepBitmap) or succeed.
DeleteWrites(h, keepSums, keepBitmap) ==
    [k \in {K(BLOCK, h)} \cup (IF keepSums THEN {} ELSE {K(BLOCK_SUMS, h)})
                         \cup (IF keepBitmap THEN {} ELSE {K(BLOCK_INPUT_BITMAP, h)})
       |-> NONE]

delete_block(h) ==
    /\ Usable
    /\ IF ~block_exists(View, h)
         THEN Fail
         ELSE \/ \E keepSums, keepBitmap \in DeleteOutcomes :
                   Write(DeleteWrites(h, keepSums, keepBitmap))
              \/ Fail

save_block_header(h) == Usable /\ (Write(Single(K(BLOCK_HEADER, h), TRUE)) \/ Fail)

save_output_pos(c, p) == Usable /\ (Write(Single(K(COMMIT_POS, c), p)) \/ Fail)

\* The 'c' keys clear_output_pos iterates over.
IndexedKeys(V) == {K(COMMIT_POS, c) : c \in {x \in Commits : get_output_pos(V, x) # NONE}}

\* clear_output_pos: delete every key under the 'c' prefix, one `?` delete
\* at a time; a failing delete leaves those before it deleted.
clear_output_pos ==
    /\ Usable
    /\ \/ Write([k \in IndexedKeys(View) |-> NONE])
       \/ Fail
       \/ \E done \in SUBSET IndexedKeys(View) : FailAfter([k \in done |-> NONE])

save_block_sums(h) == Usable /\ (Write(Single(K(BLOCK_SUMS, h), TRUE)) \/ Fail)

\* get_block_input_bitmap: a cached bitmap is returned as is (a stutter);
\* on a miss, or when the read itself errs, the bitmap is rebuilt from the
\* stored block and cached; without a block the call returns its Err.
get_block_input_bitmap(h) ==
    /\ Usable
    /\ \E readErr \in BOOLEAN :
         /\ View[K(BLOCK_INPUT_BITMAP, h)] = NONE \/ readErr
         /\ IF ~block_exists(View, h)
              THEN ReadErr
              ELSE \/ Write(Single(K(BLOCK_INPUT_BITMAP, h), build_block_input_bitmap(View, h)))
                   \/ Fail

---------------------------------------------------------------------------
Init ==
    /\ db = [k \in Keys |-> NONE]
    /\ batch = EmptyLayer
    /\ child = EmptyLayer
    /\ depth = 0
    /\ failed = FALSE
    /\ calls = 0

Next ==
    \/ open_batch \/ open_child \/ commit \/ drop
    \/ reset_sync_head \/ reset_header_head \/ clear_output_pos
    \/ \E t \in Hashes :
         save_head(t) \/ save_body_head(t) \/ save_body_tail(t)
           \/ save_header_head(t) \/ save_sync_head(t)
    \/ \E h \in Hashes :
         save_block(h) \/ delete_block(h) \/ save_block_header(h)
           \/ save_block_sums(h) \/ get_block_input_bitmap(h)
    \/ \E c \in Commits, p \in Positions : save_output_pos(c, p)

Spec == Init /\ [][Next]_vars

---------------------------------------------------------------------------
(* Properties                                                              *)

\* Every record of every layer holds a value of its prefix's type.
LayerOK(layer) ==
    /\ DOMAIN layer \subseteq Keys
    /\ \A k \in DOMAIN layer : layer[k] \in ValOf(k[1]) \cup {NONE}

TypeOK ==
    /\ DOMAIN db = Keys /\ LayerOK(db)
    /\ LayerOK(batch)
    /\ LayerOK(child)
    /\ depth \in 0 .. 2
    /\ failed \in BOOLEAN
    /\ calls \in 0 .. MaxCalls

\* An input bitmap is cached only beside its block body: save_block writes
\* both, get_block_input_bitmap rebuilds only from a stored body, and
\* delete_block removes the bitmap with the body -- in the committed store
\* and in the views of the open batch and child, whatever the callers do.
\* A batch whose handler failed may hold an orphan (save_block's bitmap put
\* succeeded, its body put did not): it must never reach the db.
NoOrphanBitmap(V) ==
    \A h \in Hashes : V[K(BLOCK_INPUT_BITMAP, h)] # NONE => block_exists(V, h)

BitmapsHaveBodies ==
    /\ NoOrphanBitmap(db)
    /\ depth = 1 /\ ~failed => NoOrphanBitmap(BatchView)
    /\ depth = 2 => NoOrphanBitmap(BatchView)
    /\ depth = 2 /\ ~failed => NoOrphanBitmap(View)

\* Inductive strengthening of BitmapsHaveBodies: layers that are not open
\* hold no writes.
ClosedLayersEmpty ==
    /\ depth = 0 => batch = EmptyLayer
    /\ depth <= 1 => child = EmptyLayer

IInv == TypeOK /\ ClosedLayersEmpty /\ BitmapsHaveBodies

\* Spec 8 "bitmap correspondence": for every saved block, the bitmap that
\* get_block_input_bitmap returns from the committed store holds exactly
\* the positions its inputs resolve to in the commit->pos index.
BitmapCorrespondence ==
    \A h \in Hashes :
        /\ block_exists(db, h)
        /\ db[K(BLOCK_INPUT_BITMAP, h)] # NONE
        => db[K(BLOCK_INPUT_BITMAP, h)] =
             {get_output_pos(db, c) : c \in {x \in Inputs[h] : get_output_pos(db, x) # NONE}}

=============================================================================
