-------------------------- MODULE ChainStoreProofs --------------------------
(***************************************************************************)
(* Proofs about the chain store model, for every choice of the constants   *)
(* that satisfies ConstAssumption.                                         *)
(***************************************************************************)
EXTENDS ChainStore, TLAPS

USE ConstAssumption

---------------------------------------------------------------------------
(* Lemmas about layers merged with Over.                                  *)

\* The keys of a merge are the keys of both layers.
LEMMA MergeDomain ==
    ASSUME NEW f, NEW g
    PROVE  DOMAIN Over(f, g) = DOMAIN f \cup DOMAIN g
BY DEF Over

\* A merge reads the upper layer where it has the key, the lower one elsewhere.
LEMMA MergeApply ==
    ASSUME NEW f, NEW g, NEW x \in DOMAIN f \cup DOMAIN g
    PROVE  Over(f, g)[x] = IF x \in DOMAIN f THEN f[x] ELSE g[x]
BY DEF Over

\* Merging well-typed layers gives a well-typed layer.
LEMMA MergeOK ==
    ASSUME NEW f, NEW g, LayerOK(f), LayerOK(g)
    PROVE  LayerOK(Over(f, g))
BY DEF LayerOK, Over

\* Merging a child into its parent, then the parent over the base, is
\* laying the child over the parent's view.
LEMMA MergeAssoc ==
    ASSUME NEW f, NEW g, NEW b
    PROVE  Over(Over(f, g), b) = Over(f, Over(g, b))
BY DEF Over

\* An empty layer shows its base.
LEMMA EmptyMerge ==
    ASSUME NEW b, NEW x \in DOMAIN b
    PROVE  x \in DOMAIN Over(EmptyLayer, b) /\ Over(EmptyLayer, b)[x] = b[x]
BY DEF Over, EmptyLayer

\* A single write is a well-typed layer when its key is a key of the store
\* and its value is of its prefix's type.
LEMMA SingleOK ==
    ASSUME NEW k \in Keys, NEW v \in ValOf(k[1]) \cup {NONE}
    PROVE  LayerOK(Single(k, v))
BY DEF LayerOK, Single

---------------------------------------------------------------------------
(* The values of the view read by a handler.                               *)

LEMMA ViewOK ==
    ASSUME TypeOK
    PROVE  /\ LayerOK(BatchView) /\ Keys \subseteq DOMAIN BatchView
           /\ LayerOK(View) /\ Keys \subseteq DOMAIN View
<1>1. LayerOK(BatchView) /\ Keys \subseteq DOMAIN BatchView
  BY MergeOK, MergeDomain DEF TypeOK, BatchView
<1>2. LayerOK(Over(child, BatchView)) /\ Keys \subseteq DOMAIN Over(child, BatchView)
  BY <1>1, MergeOK, MergeDomain DEF TypeOK
<1> QED BY <1>1, <1>2 DEF View

\* The bitmap built from a well-typed view is a set of u32 positions.
LEMMA BuildOK ==
    ASSUME NEW V, LayerOK(V), Keys \subseteq DOMAIN V, NEW h \in Hashes
    PROVE  build_block_input_bitmap(V, h) \in ValOf(BLOCK_INPUT_BITMAP)
<1>1. \A c \in Inputs[h] : get_output_pos(V, c) # NONE => get_output_pos(V, c) \in Nat
  <2> SUFFICES ASSUME NEW c \in Inputs[h], get_output_pos(V, c) # NONE
               PROVE  get_output_pos(V, c) \in Nat
    OBVIOUS
  <2>0. c \in Commits
    OBVIOUS
  <2>1. K(COMMIT_POS, c) \in Keys
    BY <2>0 DEF Keys, K
  <2>2. V[K(COMMIT_POS, c)] \in Positions \cup {NONE}
    BY <2>1 DEF LayerOK, ValOf, K, COMMIT_POS, PointerPrefixes, HashPrefixes,
             HEAD, TAIL, HEADER_HEAD, SYNC_HEAD, BLOCK_HEADER, BLOCK,
             BLOCK_INPUT_BITMAP, BLOCK_SUMS
  <2> QED BY <2>2 DEF get_output_pos
<1>2. \A x \in Nat : x % 2^PosBits \in 0 .. 2^PosBits - 1
  <2> DEFINE m == 2^PosBits
  <2>1. m \in Nat \ {0}
    OBVIOUS
  <2>2. \A x \in Nat : x % m \in 0 .. m - 1
    BY <2>1
  <2> QED BY <2>2
<1>3. ValOf(BLOCK_INPUT_BITMAP) = SUBSET (0 .. 2^PosBits - 1)
  BY DEF ValOf, BLOCK_INPUT_BITMAP, PointerPrefixes, HEAD, TAIL, HEADER_HEAD,
     SYNC_HEAD, BLOCK_HEADER, BLOCK, BLOCK_SUMS
<1> QED
  BY <1>1, <1>2, <1>3 DEF build_block_input_bitmap

---------------------------------------------------------------------------
(* Type correctness.                                                       *)

\* A completed handler keeps the state well typed.
LEMMA WriteTypeOK ==
    ASSUME TypeOK, Usable, NEW ws, LayerOK(ws), Write(ws)
    PROVE  TypeOK'
<1>1. LayerOK(Over(ws, child)) /\ LayerOK(Over(ws, batch))
  BY MergeOK DEF TypeOK
<1> QED BY <1>1 DEF Write, TypeOK, Usable

\* A handler that returned Err keeps the state well typed.
LEMMA ReadErrTypeOK ==
    ASSUME TypeOK, Usable, ReadErr
    PROVE  TypeOK'
BY DEF ReadErr, TypeOK, Usable

\* A handler whose write returned Err keeps the state well typed.
LEMMA FailTypeOK ==
    ASSUME TypeOK, Usable, Fail
    PROVE  TypeOK'
BY DEF Fail, TypeOK, Usable

\* A handler that failed after some writes keeps the state well typed.
LEMMA FailAfterTypeOK ==
    ASSUME TypeOK, Usable, NEW ws, LayerOK(ws), FailAfter(ws)
    PROVE  TypeOK'
<1>1. LayerOK(Over(ws, child)) /\ LayerOK(Over(ws, batch))
  BY MergeOK DEF TypeOK
<1> QED BY <1>1 DEF FailAfter, TypeOK, Usable

\* Prefix facts the provers need to evaluate ValOf on a key.
LEMMA PrefixValues ==
    /\ \A p \in PointerPrefixes : ValOf(p) = Hashes
    /\ ValOf(BLOCK_INPUT_BITMAP) = SUBSET (0 .. 2^PosBits - 1)
    /\ ValOf(COMMIT_POS) = Positions
    /\ ValOf(BLOCK) = {TRUE} /\ ValOf(BLOCK_HEADER) = {TRUE} /\ ValOf(BLOCK_SUMS) = {TRUE}
BY DEF ValOf, PointerPrefixes, HEAD, TAIL, HEADER_HEAD, SYNC_HEAD, BLOCK_HEADER,
       BLOCK, BLOCK_INPUT_BITMAP, BLOCK_SUMS, COMMIT_POS

LEMMA PointerKeys ==
    \A p \in PointerPrefixes : Ptr(p) \in Keys /\ Ptr(p)[1] = p
BY DEF Ptr, Keys

LEMMA HashKeys ==
    \A p \in HashPrefixes, h \in Hashes : K(p, h) \in Keys /\ K(p, h)[1] = p
BY DEF K, Keys

LEMMA CommitKeys ==
    \A c \in Commits : K(COMMIT_POS, c) \in Keys /\ K(COMMIT_POS, c)[1] = COMMIT_POS
BY DEF K, Keys

\* The pointer a reset copies, when present, is a hash.
LEMMA PointerValue ==
    ASSUME TypeOK, NEW p \in PointerPrefixes, View[Ptr(p)] # NONE
    PROVE  View[Ptr(p)] \in Hashes
BY ViewOK, PointerKeys, PrefixValues DEF LayerOK, Single

\* Every step keeps the state well typed.
LEMMA TypeOKStep ==
    ASSUME TypeOK, [Next]_vars
    PROVE  TypeOK'
<1> USE DEF HEAD, TAIL, HEADER_HEAD, SYNC_HEAD, PointerPrefixes,
            BLOCK_HEADER, BLOCK, BLOCK_INPUT_BITMAP, BLOCK_SUMS, HashPrefixes
<1>1. CASE open_batch \/ open_child
  BY <1>1 DEF open_batch, open_child, TypeOK
<1>12. CASE drop
  <2>1. LayerOK(EmptyLayer)
    BY DEF LayerOK, EmptyLayer
  <2>2. depth' \in 0 .. 2
    BY <1>12 DEF drop, TypeOK
  <2>3. failed' \in BOOLEAN /\ calls' \in 0 .. MaxCalls
    BY <1>12 DEF drop, TypeOK
  <2> QED BY <1>12, <2>1, <2>2, <2>3 DEF drop, TypeOK
<1>2. CASE commit
  <2>1. LayerOK(EmptyLayer) /\ LayerOK(Over(child, batch))
    BY MergeOK DEF LayerOK, EmptyLayer, TypeOK
  <2>2. DOMAIN BatchView = Keys /\ LayerOK(BatchView)
    BY ViewOK, MergeDomain DEF TypeOK, LayerOK, BatchView
  <2> QED BY <1>2, <2>1, <2>2 DEF commit, TypeOK
<1>3. ASSUME NEW t \in Hashes,
             save_head(t) \/ save_body_head(t) \/ save_body_tail(t)
               \/ save_header_head(t) \/ save_sync_head(t)
      PROVE  TypeOK'
  <2>1. LayerOK([k \in {Ptr(HEAD), Ptr(HEADER_HEAD)} |-> t])
        /\ \A p \in PointerPrefixes : LayerOK(Single(Ptr(p), t))
    BY PointerKeys, PrefixValues DEF LayerOK, Single
  <2> QED
    BY <1>3, <2>1, WriteTypeOK, FailTypeOK, FailAfterTypeOK
    DEF save_head, save_body_head, save_body_tail, save_header_head, save_sync_head
<1>4. CASE reset_sync_head \/ reset_header_head
  <2>1. /\ header_head(View) # NONE => LayerOK(Single(Ptr(SYNC_HEAD), header_head(View)))
        /\ head(View) # NONE => LayerOK(Single(Ptr(HEADER_HEAD), head(View)))
    BY PointerKeys, PrefixValues, PointerValue DEF LayerOK, Single, head, header_head
  <2> QED
    BY <1>4, <2>1, WriteTypeOK, ReadErrTypeOK, FailTypeOK DEF reset_sync_head, reset_header_head
<1>5. ASSUME NEW h \in Hashes, save_block(h) PROVE TypeOK'
  <2>1. LayerOK([k \in {K(BLOCK_INPUT_BITMAP, h), K(BLOCK, h)} |->
               IF k = K(BLOCK, h) THEN TRUE ELSE build_block_input_bitmap(View, h)])
    BY ViewOK, BuildOK, HashKeys, PrefixValues DEF LayerOK, Single
  <2>2. LayerOK(Single(K(BLOCK_INPUT_BITMAP, h), build_block_input_bitmap(View, h)))
    BY ViewOK, BuildOK, HashKeys, PrefixValues DEF LayerOK, Single
  <2> QED BY <1>5, <2>1, <2>2, WriteTypeOK, FailTypeOK, FailAfterTypeOK DEF save_block
<1>6. ASSUME NEW h \in Hashes, delete_block(h) PROVE TypeOK'
  <2>1. \A ks, kb \in BOOLEAN : LayerOK(DeleteWrites(h, ks, kb))
    BY HashKeys DEF LayerOK, DeleteWrites
  <2>2. DeleteOutcomes \subseteq BOOLEAN
    BY DEF DeleteOutcomes
  <2> QED BY <1>6, <2>1, <2>2, WriteTypeOK, FailTypeOK DEF delete_block
<1>7. ASSUME NEW h \in Hashes, save_block_header(h) \/ save_block_sums(h) PROVE TypeOK'
  <2>1. LayerOK(Single(K(BLOCK_HEADER, h), TRUE)) /\ LayerOK(Single(K(BLOCK_SUMS, h), TRUE))
    BY HashKeys, PrefixValues DEF LayerOK, Single
  <2> QED BY <1>7, <2>1, WriteTypeOK, FailTypeOK DEF save_block_header, save_block_sums
<1>8. ASSUME NEW h \in Hashes, get_block_input_bitmap(h) PROVE TypeOK'
  <2>1. LayerOK(Single(K(BLOCK_INPUT_BITMAP, h), build_block_input_bitmap(View, h)))
    BY ViewOK, BuildOK, HashKeys, PrefixValues DEF LayerOK, Single
  <2> QED BY <1>8, <2>1, WriteTypeOK, ReadErrTypeOK, FailTypeOK DEF get_block_input_bitmap
<1>9. ASSUME NEW c \in Commits, NEW p \in Positions, save_output_pos(c, p) PROVE TypeOK'
  <2>1. LayerOK(Single(K(COMMIT_POS, c), p))
    BY CommitKeys, PrefixValues DEF LayerOK, Single
  <2> QED BY <1>9, <2>1, WriteTypeOK, FailTypeOK DEF save_output_pos
<1>10. CASE clear_output_pos
  <2>1. \A done \in SUBSET IndexedKeys(View) : LayerOK([k \in done |-> NONE])
    BY CommitKeys DEF LayerOK, IndexedKeys
  <2> QED BY <1>10, <2>1, WriteTypeOK, FailTypeOK, FailAfterTypeOK DEF clear_output_pos
<1>11. CASE UNCHANGED vars
  BY <1>11 DEF vars, TypeOK, LayerOK
<1> QED
  BY <1>1, <1>2, <1>3, <1>4, <1>5, <1>6, <1>7, <1>8, <1>9, <1>10, <1>11, <1>12 DEF Next

\* The initial state is well typed.
LEMMA InitTypeOK ==
    ASSUME Init
    PROVE  TypeOK
<1>1. DOMAIN db = Keys /\ LayerOK(db)
  BY DEF Init, LayerOK
<1>2. LayerOK(batch) /\ LayerOK(child)
  BY DEF Init, LayerOK, EmptyLayer
<1>3. depth \in 0 .. 2
  BY DEF Init
<1>4. failed \in BOOLEAN
  BY DEF Init
<1>5. calls \in 0 .. MaxCalls
  BY DEF Init
<1> QED BY <1>1, <1>2, <1>3, <1>4, <1>5 DEF TypeOK

\* The store's records always hold values of their prefix's type, and the
\* batch depth, error flag and call count stay in range.
THEOREM TypeCorrect == Spec => []TypeOK
<1>1. Init => TypeOK
  BY InitTypeOK
<1>2. TypeOK /\ [Next]_vars => TypeOK'
  BY TypeOKStep
<1> QED BY <1>1, <1>2, PTL DEF Spec


---------------------------------------------------------------------------
(* Bitmaps have bodies.                                                    *)

\* The writes ws keep a bitmap beside its body when laid over V: a bitmap
\* they store comes with a body (written or already in V), and a body they
\* delete takes the bitmap with it.
GoodWrites(ws, V) ==
    \A h \in Hashes :
       /\ K(BLOCK_INPUT_BITMAP, h) \in DOMAIN ws /\ ws[K(BLOCK_INPUT_BITMAP, h)] # NONE
            => IF K(BLOCK, h) \in DOMAIN ws THEN ws[K(BLOCK, h)] # NONE
                                           ELSE V[K(BLOCK, h)] # NONE
       /\ K(BLOCK, h) \in DOMAIN ws /\ ws[K(BLOCK, h)] = NONE
            => K(BLOCK_INPUT_BITMAP, h) \in DOMAIN ws /\ ws[K(BLOCK_INPUT_BITMAP, h)] = NONE

\* Writes that touch neither bitmaps nor bodies are good over any view.
LEMMA NoBitmapWrites ==
    ASSUME NEW ws, NEW V,
           \A h \in Hashes : K(BLOCK_INPUT_BITMAP, h) \notin DOMAIN ws /\ K(BLOCK, h) \notin DOMAIN ws
    PROVE  GoodWrites(ws, V)
BY DEF GoodWrites

\* Good writes laid over a view without orphan bitmaps leave none.
LEMMA NoOrphanWrite ==
    ASSUME NEW ws, NEW V, Keys \subseteq DOMAIN V, NoOrphanBitmap(V), GoodWrites(ws, V)
    PROVE  NoOrphanBitmap(Over(ws, V))
<1> SUFFICES ASSUME NEW h \in Hashes, Over(ws, V)[K(BLOCK_INPUT_BITMAP, h)] # NONE
             PROVE  Over(ws, V)[K(BLOCK, h)] # NONE
  BY DEF NoOrphanBitmap, block_exists
<1>1. K(BLOCK_INPUT_BITMAP, h) \in DOMAIN V /\ K(BLOCK, h) \in DOMAIN V
  BY DEF Keys, K, HashPrefixes
<1> QED BY <1>1 DEF Over, GoodWrites, NoOrphanBitmap, block_exists

\* An empty layer over a view without orphan bitmaps shows none.
LEMMA NoOrphanEmpty ==
    ASSUME NEW V, Keys \subseteq DOMAIN V, NoOrphanBitmap(V)
    PROVE  NoOrphanBitmap(Over(EmptyLayer, V))
<1>1. \A h \in Hashes : K(BLOCK_INPUT_BITMAP, h) \in DOMAIN V /\ K(BLOCK, h) \in DOMAIN V
  BY DEF Keys, K, HashPrefixes
<1> QED BY <1>1 DEF Over, EmptyLayer, NoOrphanBitmap, block_exists

\* A write to the innermost batch is a write over the view of its holder.
LEMMA WriteView ==
    ASSUME TypeOK, ClosedLayersEmpty, Usable, NEW ws, Write(ws)
    PROVE  /\ depth' = depth /\ db' = db
           /\ depth = 1 => BatchView' = Over(ws, View)
           /\ depth = 2 => BatchView' = BatchView /\ View' = Over(ws, View)
<1>1. depth' = depth /\ db' = db
  BY DEF Write
<1>2. ASSUME depth = 1 PROVE BatchView' = Over(ws, View)
  <2>1. batch' = Over(ws, batch)
    BY <1>2 DEF Write
  <2> QED BY <1>1, <1>2, <2>1, MergeAssoc DEF BatchView, View
<1>3. ASSUME depth = 2 PROVE BatchView' = BatchView /\ View' = Over(ws, View)
  <2>1. child' = Over(ws, child) /\ batch' = batch
    BY <1>3 DEF Write
  <2>2. BatchView' = BatchView
    BY <1>1, <2>1 DEF BatchView
  <2> QED BY <1>1, <1>3, <2>1, <2>2, MergeAssoc DEF View
<1> QED BY <1>1, <1>2, <1>3

\* A completed handler whose writes are good keeps the invariant.
LEMMA WriteInv ==
    ASSUME IInv, Usable, NEW ws, LayerOK(ws), GoodWrites(ws, View), Write(ws)
    PROVE  IInv'
<1>1. TypeOK'
  BY WriteTypeOK DEF IInv
<1>2. depth \in 1 .. 2
  BY DEF Usable, IInv, TypeOK
<1>3. ClosedLayersEmpty'
  BY <1>2 DEF Write, IInv, ClosedLayersEmpty
<1>4. Keys \subseteq DOMAIN View /\ NoOrphanBitmap(View)
  BY <1>2, ViewOK DEF IInv, BitmapsHaveBodies, View, Usable
<1>5. NoOrphanBitmap(Over(ws, View))
  BY <1>4, NoOrphanWrite
<1>6. BitmapsHaveBodies'
  BY <1>2, <1>5, WriteView DEF IInv, BitmapsHaveBodies
<1> QED BY <1>1, <1>3, <1>6 DEF IInv

\* A read that returned Err keeps the invariant.
LEMMA ReadErrInv ==
    ASSUME IInv, Usable, ReadErr
    PROVE  IInv'
BY ReadErrTypeOK DEF IInv, ReadErr, ClosedLayersEmpty, BitmapsHaveBodies, BatchView, View

\* A handler whose write returned Err keeps the invariant.
LEMMA FailInv ==
    ASSUME IInv, Usable, Fail
    PROVE  IInv'
BY FailTypeOK DEF IInv, Fail, ClosedLayersEmpty, BitmapsHaveBodies, BatchView, View

\* A handler that failed after some writes keeps the invariant: the
\* writes stay in the failed innermost batch, which is never read again.
LEMMA FailAfterInv ==
    ASSUME IInv, Usable, NEW ws, LayerOK(ws), FailAfter(ws)
    PROVE  IInv'
<1>1. TypeOK'
  BY FailAfterTypeOK DEF IInv
<1>2. depth \in 1 .. 2 /\ depth' = depth /\ db' = db /\ failed'
  BY DEF Usable, IInv, TypeOK, FailAfter
<1>3. ClosedLayersEmpty'
  BY <1>2 DEF FailAfter, IInv, ClosedLayersEmpty
<1>4. depth = 2 => BatchView' = BatchView
  BY <1>2 DEF FailAfter, BatchView
<1>5. BitmapsHaveBodies'
  BY <1>2, <1>4 DEF IInv, BitmapsHaveBodies
<1> QED BY <1>1, <1>3, <1>5 DEF IInv

\* Keys of different prefixes, or of different ids, are different keys.
LEMMA KeyDistinct ==
    /\ \A p \in PointerPrefixes, h \in Hashes :
          Ptr(p) # K(BLOCK_INPUT_BITMAP, h) /\ Ptr(p) # K(BLOCK, h)
    /\ \A c \in Commits, h \in Hashes :
          K(COMMIT_POS, c) # K(BLOCK_INPUT_BITMAP, h) /\ K(COMMIT_POS, c) # K(BLOCK, h)
    /\ \A h, g \in Hashes :
          /\ K(BLOCK_HEADER, g) # K(BLOCK_INPUT_BITMAP, h) /\ K(BLOCK_HEADER, g) # K(BLOCK, h)
          /\ K(BLOCK_SUMS, g) # K(BLOCK_INPUT_BITMAP, h) /\ K(BLOCK_SUMS, g) # K(BLOCK, h)
          /\ K(BLOCK, g) # K(BLOCK_INPUT_BITMAP, h)
          /\ K(BLOCK, g) = K(BLOCK, h) => g = h
          /\ K(BLOCK_INPUT_BITMAP, g) = K(BLOCK_INPUT_BITMAP, h) => g = h
BY DEF Ptr, K, PointerPrefixes, HEAD, TAIL, HEADER_HEAD, SYNC_HEAD, BLOCK_HEADER,
       BLOCK, BLOCK_INPUT_BITMAP, BLOCK_SUMS, COMMIT_POS

\* save_block stores the bitmap together with the body.
LEMMA SaveBlockGood ==
    ASSUME NEW h0 \in Hashes, NEW V
    PROVE  GoodWrites([k \in {K(BLOCK_INPUT_BITMAP, h0), K(BLOCK, h0)} |->
                         IF k = K(BLOCK, h0) THEN TRUE
                                             ELSE build_block_input_bitmap(V, h0)], V)
BY KeyDistinct, ConstAssumption DEF GoodWrites

\* delete_block deletes the bitmap with the body when that delete succeeds.
LEMMA DeleteBlockGood ==
    ASSUME NEW h0 \in Hashes, NEW V, NEW ks
    PROVE  GoodWrites(DeleteWrites(h0, ks, FALSE), V)
BY KeyDistinct DEF GoodWrites, DeleteWrites

\* get_block_input_bitmap caches a bitmap only for a block it found.
LEMMA CacheBitmapGood ==
    ASSUME NEW h0 \in Hashes, NEW V, block_exists(V, h0), NEW bm
    PROVE  GoodWrites(Single(K(BLOCK_INPUT_BITMAP, h0), bm), V)
BY KeyDistinct DEF GoodWrites, Single, block_exists

\* Every step keeps the strengthened invariant.
LEMMA IInvStep ==
    ASSUME ~DeleteMayFail, IInv, [Next]_vars
    PROVE  IInv'
<1> USE DEF HEAD, TAIL, HEADER_HEAD, SYNC_HEAD, PointerPrefixes,
            BLOCK_HEADER, BLOCK, BLOCK_INPUT_BITMAP, BLOCK_SUMS, HashPrefixes
<1>0. TypeOK'
  BY TypeOKStep DEF IInv
<1>1. CASE open_batch
  <2>1. Keys \subseteq DOMAIN db /\ NoOrphanBitmap(db)
    BY DEF IInv, TypeOK, BitmapsHaveBodies
  <2>2. NoOrphanBitmap(Over(EmptyLayer, db))
    BY <2>1, NoOrphanEmpty
  <2> QED BY <1>0, <1>1, <2>2 DEF open_batch, IInv, ClosedLayersEmpty, BitmapsHaveBodies, BatchView
<1>2. CASE open_child
  <2>1. Keys \subseteq DOMAIN BatchView /\ NoOrphanBitmap(BatchView)
    BY <1>2, ViewOK DEF open_child, IInv, BitmapsHaveBodies
  <2>2. NoOrphanBitmap(Over(EmptyLayer, BatchView))
    BY <2>1, NoOrphanEmpty
  <2> QED BY <1>0, <1>2, <2>2 DEF open_child, IInv, ClosedLayersEmpty, BitmapsHaveBodies, BatchView, View
<1>3. CASE commit /\ depth = 2
  <2>1. BatchView' = View
    BY <1>3, MergeAssoc DEF commit, BatchView, View
  <2> QED BY <1>0, <1>3, <2>1 DEF commit, IInv, ClosedLayersEmpty, BitmapsHaveBodies
<1>4. CASE commit /\ depth = 1
  BY <1>0, <1>4 DEF commit, IInv, ClosedLayersEmpty, BitmapsHaveBodies
<1>5. CASE drop
  BY <1>0, <1>5 DEF drop, IInv, ClosedLayersEmpty, BitmapsHaveBodies, BatchView, View, TypeOK
<1>6. ASSUME NEW t \in Hashes,
             save_head(t) \/ save_body_head(t) \/ save_body_tail(t)
               \/ save_header_head(t) \/ save_sync_head(t)
      PROVE  IInv'
  <2>1. GoodWrites([k \in {Ptr(HEAD), Ptr(HEADER_HEAD)} |-> t], View)
        /\ \A p \in PointerPrefixes : GoodWrites(Single(Ptr(p), t), View)
    BY KeyDistinct, NoBitmapWrites DEF Single
  <2>2. LayerOK([k \in {Ptr(HEAD), Ptr(HEADER_HEAD)} |-> t])
        /\ \A p \in PointerPrefixes : LayerOK(Single(Ptr(p), t))
    BY PointerKeys, PrefixValues DEF LayerOK, Single
  <2> QED
    BY <1>6, <2>1, <2>2, WriteInv, FailInv, FailAfterInv
    DEF save_head, save_body_head, save_body_tail, save_header_head, save_sync_head
<1>7. CASE reset_sync_head \/ reset_header_head
  <2>1. /\ GoodWrites(Single(Ptr(SYNC_HEAD), header_head(View)), View)
        /\ GoodWrites(Single(Ptr(HEADER_HEAD), head(View)), View)
    BY KeyDistinct, NoBitmapWrites DEF Single
  <2>2. /\ header_head(View) # NONE => LayerOK(Single(Ptr(SYNC_HEAD), header_head(View)))
        /\ head(View) # NONE => LayerOK(Single(Ptr(HEADER_HEAD), head(View)))
    BY PointerKeys, PrefixValues, PointerValue DEF IInv, LayerOK, Single, head, header_head
  <2> QED BY <1>7, <2>1, <2>2, WriteInv, ReadErrInv, FailInv DEF reset_sync_head, reset_header_head
<1>8. ASSUME NEW h \in Hashes, save_block(h) PROVE IInv'
  <2> DEFINE ws == [k \in {K(BLOCK_INPUT_BITMAP, h), K(BLOCK, h)} |->
                      IF k = K(BLOCK, h) THEN TRUE ELSE build_block_input_bitmap(View, h)]
  <2>1. GoodWrites(ws, View)
    BY SaveBlockGood
  <2>2. LayerOK(ws)
    BY ViewOK, BuildOK, HashKeys, PrefixValues DEF IInv, LayerOK
  <2>3. LayerOK(Single(K(BLOCK_INPUT_BITMAP, h), build_block_input_bitmap(View, h)))
    BY ViewOK, BuildOK, HashKeys, PrefixValues DEF IInv, LayerOK, Single
  <2> QED BY <1>8, <2>1, <2>2, <2>3, WriteInv, FailInv, FailAfterInv DEF save_block
<1>9. ASSUME NEW h \in Hashes, delete_block(h) PROVE IInv'
  <2>1. DeleteOutcomes = {FALSE}
    BY DEF DeleteOutcomes
  <2>2. \A ks \in BOOLEAN : GoodWrites(DeleteWrites(h, ks, FALSE), View)
    BY DeleteBlockGood
  <2>3. \A ks \in BOOLEAN : LayerOK(DeleteWrites(h, ks, FALSE))
    BY HashKeys DEF LayerOK, DeleteWrites
  <2> QED BY <1>9, <2>1, <2>2, <2>3, WriteInv, FailInv DEF delete_block
<1>10. ASSUME NEW h \in Hashes, save_block_header(h) \/ save_block_sums(h) PROVE IInv'
  <2>1. GoodWrites(Single(K(BLOCK_HEADER, h), TRUE), View)
        /\ GoodWrites(Single(K(BLOCK_SUMS, h), TRUE), View)
    BY KeyDistinct, NoBitmapWrites DEF Single
  <2>2. LayerOK(Single(K(BLOCK_HEADER, h), TRUE)) /\ LayerOK(Single(K(BLOCK_SUMS, h), TRUE))
    BY HashKeys, PrefixValues DEF LayerOK, Single
  <2> QED BY <1>10, <2>1, <2>2, WriteInv, FailInv DEF save_block_header, save_block_sums
<1>11. ASSUME NEW h \in Hashes, get_block_input_bitmap(h) PROVE IInv'
  <2> DEFINE ws == Single(K(BLOCK_INPUT_BITMAP, h), build_block_input_bitmap(View, h))
  <2>1. block_exists(View, h) => GoodWrites(ws, View)
    BY CacheBitmapGood
  <2>2. LayerOK(ws)
    BY ViewOK, BuildOK, HashKeys, PrefixValues DEF IInv, LayerOK, Single
  <2> QED BY <1>11, <2>1, <2>2, WriteInv, ReadErrInv, FailInv DEF get_block_input_bitmap
<1>12. ASSUME NEW c \in Commits, NEW p \in Positions, save_output_pos(c, p) PROVE IInv'
  <2>1. GoodWrites(Single(K(COMMIT_POS, c), p), View)
    BY KeyDistinct, NoBitmapWrites DEF Single
  <2>2. LayerOK(Single(K(COMMIT_POS, c), p))
    BY CommitKeys, PrefixValues DEF LayerOK, Single
  <2> QED BY <1>12, <2>1, <2>2, WriteInv, FailInv DEF save_output_pos
<1>13. CASE clear_output_pos
  <2> DEFINE ws == [k \in IndexedKeys(View) |-> NONE]
  <2>1. GoodWrites(ws, View)
    BY KeyDistinct, NoBitmapWrites DEF IndexedKeys
  <2>2. LayerOK(ws)
    BY CommitKeys DEF LayerOK, IndexedKeys
  <2>3. \A done \in SUBSET IndexedKeys(View) : LayerOK([k \in done |-> NONE])
    BY CommitKeys DEF LayerOK, IndexedKeys
  <2> QED BY <1>13, <2>1, <2>2, <2>3, WriteInv, FailInv, FailAfterInv DEF clear_output_pos
<1>14. CASE UNCHANGED vars
  BY <1>14 DEF vars, IInv, TypeOK, LayerOK, ClosedLayersEmpty, BitmapsHaveBodies, BatchView, View
<1> QED
  <2>1. CASE commit
    BY <2>1, <1>3, <1>4 DEF commit, IInv, TypeOK
  <2> QED BY <1>1, <1>2, <1>5, <1>6, <1>7, <1>8, <1>9, <1>10, <1>11, <1>12, <1>13, <1>14, <2>1 DEF Next

\* The initial state satisfies the strengthened invariant.
LEMMA InitIInv ==
    ASSUME Init
    PROVE  IInv
<1>1. NoOrphanBitmap(db)
  BY DEF Init, NoOrphanBitmap, block_exists, Keys, K, HashPrefixes
<1>2. TypeOK
  BY InitTypeOK
<1>3. ClosedLayersEmpty
  BY DEF Init, ClosedLayersEmpty
<1>4. BitmapsHaveBodies
  BY <1>1 DEF Init, BitmapsHaveBodies
<1> QED BY <1>2, <1>3, <1>4 DEF IInv

\* No bitmap is ever cached without its block body, in the committed store
\* or in what the open batch and child read: save_block writes both,
\* get_block_input_bitmap rebuilds only from a stored body and delete_block
\* removes the bitmap with the body.
THEOREM BitmapsSafe ==
    ASSUME ~DeleteMayFail
    PROVE  Spec => []BitmapsHaveBodies
<1>1. Init => IInv
  BY InitIInv
<1>2. IInv /\ [Next]_vars => IInv'
  BY IInvStep
<1>3. IInv => BitmapsHaveBodies
  BY DEF IInv
<1> QED BY <1>1, <1>2, <1>3, PTL DEF Spec

=============================================================================
