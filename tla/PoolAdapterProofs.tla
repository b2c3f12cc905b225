------------------------ MODULE PoolAdapterProofs -------------------------
(***************************************************************************)
(* Proofs about the pool test adapter (PoolAdapter), for every set of      *)
(* blocks, commitments and pool threads: the UTXO set pool threads check   *)
(* transactions against is the one of the committed blocks whenever the    *)
(* store is unlocked, and a chain head handed to a pool thread keeps its   *)
(* block sums in the store.                                                *)
(***************************************************************************)
EXTENDS PoolAdapter, TLAPS

\* Shorthands for the records the adapter writes.
HeadKey == CS!Ptr(CS!HEAD)
HeaderHeadKey == CS!Ptr(CS!HEADER_HEAD)
HeaderKey(h) == CS!K(CS!BLOCK_HEADER, h)
SumsKey(h) == CS!K(CS!BLOCK_SUMS, h)

WriterPcs == {"idle", "batch", "header", "head", "sums", "commit", "utxo",
              "panic", "dead"}

\* A layer of writes the adapter makes: records on store keys, each
\* holding a value (headers and sums TRUE, the head a hash), none deleted.
ValLayer(L) ==
    /\ DOMAIN L \subseteq CS!Keys
    /\ \A k \in DOMAIN L : L[k] # NONE
    /\ HeadKey \in DOMAIN L => L[HeadKey] \in Hashes

\* The state of the store as far as the adapter writes it; it never opens
\* a child batch.
AdapterTypeOK ==
    /\ DOMAIN db = CS!Keys
    /\ db[HeadKey] \in Hashes \cup {NONE}
    /\ ValLayer(batch)
    /\ depth \in {0, 1}
    /\ failed \in BOOLEAN
    /\ calls \in Nat
    /\ slock \in {"free", "writer"}
    /\ wpc \in WriterPcs
    /\ wblk \in Hashes \cup {NONE}
    /\ rhead \in [Readers -> Hashes \cup {NONE}]
    /\ log \in Seq(Hashes)

\* The committed head, if any, has its block sums committed.
HeadHasSums(V) == V[HeadKey] # NONE => V[SumsKey(V[HeadKey])] # NONE

\* Where update_db_for_block is: the store lock is held exactly between
\* store.write() and the return or the unwinding; once save_head has
\* succeeded the batch names the writer's block as head, and once
\* save_block_sums has too, it holds that block's sums.
WriterOK ==
    /\ slock = "free" <=> wpc \in {"idle", "dead"}
    /\ wpc # "idle" => wblk \in Hashes
    /\ wpc \in {"sums", "commit"} /\ ~failed =>
          HeadKey \in DOMAIN batch /\ batch[HeadKey] = wblk
    /\ wpc = "commit" /\ ~failed => SumsKey(wblk) \in DOMAIN batch

\* What the first n committed blocks of s make the UTXO set.
UtxoUpTo(s, n) ==
    {c \in Commits : \E i \in 1 .. n :
                       /\ c \in Outputs[s[i]]
                       /\ \A j \in i + 1 .. n : c \notin Inputs[s[j]]}

\* Between the commit and the UTXO update, the UTXO set is the one of the
\* blocks before the writer's; at every other point it is the one of all
\* committed blocks.
UtxoOK ==
    /\ wpc # "utxo" => utxo = UtxoOf(log)
    /\ wpc = "utxo" =>
          /\ Len(log) > 0 /\ log[Len(log)] = wblk
          /\ utxo = UtxoUpTo(log, Len(log) - 1)

\* The inductive invariant behind UtxoMatchesStore and ReadHeadHasSums.
PInv ==
    /\ AdapterTypeOK
    /\ WriterOK
    /\ HeadHasSums(db)
    /\ UtxoOK
    /\ ReadHeadHasSums

\* What the refinement of BlockPublish needs besides PInv: the committed
\* head is the last committed block and has its header, so that
\* head_header returns it; once save_block_header has succeeded the batch
\* holds the writer's header, and the commit keeps both facts.
HeadIsTip ==
    /\ db[HeadKey] = Pub!Tip(log)
    /\ db[HeadKey] # NONE => db[HeaderKey(db[HeadKey])] # NONE
    /\ wpc \in {"head", "sums", "commit"} /\ ~failed =>
          HeaderKey(wblk) \in DOMAIN batch

\* The inductive invariant behind the refinement.
RInv == PInv /\ HeadIsTip

---------------------------------------------------------------------------
USE AdapterAssumption

\* No block committed, no unspent output.
LEMMA UtxoEmpty == UtxoOf(<<>>) = {}
  BY DEF UtxoOf

\* The keys the adapter writes are keys of the store, and distinct.
LEMMA KeyFacts ==
  /\ HeadKey \in CS!Keys /\ HeaderHeadKey \in CS!Keys
  /\ HeadKey # HeaderHeadKey
  /\ \A h \in Hashes :
       /\ HeaderKey(h) \in CS!Keys /\ SumsKey(h) \in CS!Keys
       /\ HeaderKey(h) # HeadKey /\ SumsKey(h) # HeadKey
  BY DEF HeadKey, HeaderHeadKey, HeaderKey, SumsKey, CS!Ptr, CS!K, CS!Keys,
         CS!HEAD, CS!HEADER_HEAD, CS!BLOCK_HEADER, CS!BLOCK_SUMS,
         CS!PointerPrefixes, CS!HashPrefixes

LEMMA InitPInv == Init => PInv
  <1> SUFFICES ASSUME Init PROVE PInv
    OBVIOUS
  <1>1. db = [k \in CS!Keys |-> NONE] /\ batch = CS!EmptyLayer /\ depth = 0
        /\ failed = FALSE /\ calls = 0
    BY DEF Init, CS!Init
  <1>2. AdapterTypeOK
    <2>1. DOMAIN db = CS!Keys /\ db[HeadKey] = NONE
      BY <1>1, KeyFacts
    <2>2. DOMAIN batch = {}
      BY <1>1 DEF CS!EmptyLayer
    <2>3. rhead \in [Readers -> Hashes \cup {NONE}] /\ log \in Seq(Hashes)
      BY DEF Init
    <2>4. QED
      BY <1>1, <2>1, <2>2, <2>3 DEF Init, AdapterTypeOK, ValLayer, WriterPcs
  <1>3. WriterOK
    BY DEF Init, WriterOK
  <1>4. HeadHasSums(db)
    BY <1>1, KeyFacts DEF HeadHasSums
  <1>5. UtxoOK
    BY UtxoEmpty DEF Init, UtxoOK
  <1>6. ReadHeadHasSums
    BY DEF Init, ReadHeadHasSums
  <1>7. QED
    BY <1>2, <1>3, <1>4, <1>5, <1>6 DEF PInv

\* UtxoOf is the UTXO set of the whole sequence.
LEMMA UtxoOfUpTo ==
  ASSUME NEW s PROVE UtxoOf(s) = UtxoUpTo(s, Len(s))
  BY DEF UtxoOf, UtxoUpTo

\* Only the first n blocks count: appending one leaves that set as it is.
LEMMA UtxoUpToAppend ==
  ASSUME NEW s \in Seq(Hashes), NEW b \in Hashes
  PROVE  UtxoUpTo(Append(s, b), Len(s)) = UtxoUpTo(s, Len(s))
  <1>1. \A i \in 1 .. Len(s) : Append(s, b)[i] = s[i]
    OBVIOUS
  <1>2. QED
    BY <1>1 DEF UtxoUpTo

\* The UTXO set of n blocks is that of the first n - 1, without the n-th
\* block's inputs and with its outputs: what the writer's UTXO update
\* computes.
LEMMA UtxoLast ==
  ASSUME NEW s \in Seq(Hashes), NEW n \in 1 .. Len(s)
  PROVE  UtxoUpTo(s, n) = (UtxoUpTo(s, n - 1) \ Inputs[s[n]]) \cup Outputs[s[n]]
  <1> DEFINE b == s[n]
  <1>1. b \in Hashes /\ Outputs[b] \subseteq Commits
    OBVIOUS
  <1>2. ASSUME NEW c \in UtxoUpTo(s, n)
        PROVE  c \in (UtxoUpTo(s, n - 1) \ Inputs[b]) \cup Outputs[b]
    <2>1. PICK i \in 1 .. n : c \in Outputs[s[i]] /\ \A j \in i + 1 .. n : c \notin Inputs[s[j]]
      BY <1>2 DEF UtxoUpTo
    <2>2. CASE i = n
      BY <2>1, <2>2
    <2>3. CASE i < n
      <3>1. c \notin Inputs[b]
        BY <2>1, <2>3
      <3>2. c \in UtxoUpTo(s, n - 1)
        BY <1>2, <2>1, <2>3 DEF UtxoUpTo
      <3>3. QED
        BY <3>1, <3>2
    <2>4. QED
      BY <2>1, <2>2, <2>3
  <1>3. ASSUME NEW c \in (UtxoUpTo(s, n - 1) \ Inputs[b]) \cup Outputs[b]
        PROVE  c \in UtxoUpTo(s, n)
    <2>1. CASE c \in Outputs[b]
      BY <1>1, <2>1 DEF UtxoUpTo
    <2>2. CASE c \in UtxoUpTo(s, n - 1) /\ c \notin Inputs[b]
      <3>1. PICK i \in 1 .. n - 1 : c \in Outputs[s[i]] /\ \A j \in i + 1 .. n - 1 : c \notin Inputs[s[j]]
        BY <2>2 DEF UtxoUpTo
      <3>2. c \in Commits
        BY <2>2 DEF UtxoUpTo
      <3>3. \A j \in i + 1 .. n : c \notin Inputs[s[j]]
        BY <2>2, <3>1
      <3>4. QED
        BY <3>1, <3>2, <3>3 DEF UtxoUpTo
    <2>3. QED
      BY <1>3, <2>1, <2>2
  <1>4. QED
    BY <1>2, <1>3

---------------------------------------------------------------------------
(* One lemma per action of the adapter: each keeps PInv.                   *)

\* A step that leaves the store as it is.
StoreSame == db' = db /\ batch' = batch /\ child' = child /\ depth' = depth
               /\ failed' = failed /\ calls' = calls

\* store.write(): the writer takes the lock for a block.
LEMMA LockStep ==
  ASSUME PInv, NEW b \in Hashes, lock_store(b) PROVE PInv'
  <1>1. StoreSame /\ utxo' = utxo /\ log' = log /\ rhead' = rhead
    BY DEF lock_store, store, StoreSame
  <1>2. wpc = "idle" /\ wpc' = "batch" /\ slock' = "writer" /\ wblk' = b
    BY DEF lock_store
  <1>3. AdapterTypeOK'
    BY <1>1, <1>2 DEF PInv, AdapterTypeOK, StoreSame, WriterPcs
  <1>4. WriterOK'
    BY <1>2 DEF WriterOK
  <1>5. HeadHasSums(db)'
    BY <1>1 DEF PInv, HeadHasSums, StoreSame
  <1>6. UtxoOK'
    BY <1>1, <1>2 DEF PInv, UtxoOK
  <1>7. ReadHeadHasSums'
    BY <1>1 DEF PInv, ReadHeadHasSums, get_block_sums, StoreSame
  <1>8. QED
    BY <1>3, <1>4, <1>5, <1>6, <1>7 DEF PInv

\* chain_head: a pool thread reads the committed head, which has its sums.
LEMMA ReadStep ==
  ASSUME PInv, NEW r \in Readers, chain_head(r) PROVE PInv'
  <1>1. StoreSame /\ utxo' = utxo /\ log' = log /\ slock' = slock /\ wpc' = wpc
        /\ wblk' = wblk
    BY DEF chain_head, store, StoreSame
  <1>2. rhead' = [rhead EXCEPT ![r] = head_header(db)]
    BY DEF chain_head
  <1>3. head_header(db) # NONE => /\ head_header(db) = db[HeadKey]
                                  /\ db[HeadKey] \in Hashes
                                  /\ db[SumsKey(db[HeadKey])] # NONE
    BY DEF PInv, AdapterTypeOK, HeadHasSums, head_header, CS!head, HeadKey
  <1>4. AdapterTypeOK'
    BY <1>1, <1>2, <1>3 DEF PInv, AdapterTypeOK, StoreSame
  <1>5. ReadHeadHasSums'
    BY <1>1, <1>2, <1>3 DEF PInv, AdapterTypeOK, ReadHeadHasSums, get_block_sums,
                              StoreSame, SumsKey
  <1>6. QED
    BY <1>1, <1>4, <1>5 DEF PInv, WriterOK, HeadHasSums, UtxoOK, StoreSame

\* The UTXO update under the UTXO lock, then the return: the UTXO set
\* catches up with the committed blocks before the store lock is let go.
LEMMA UtxoStep ==
  ASSUME PInv, w_utxo PROVE PInv'
  <1>1. StoreSame /\ log' = log /\ rhead' = rhead
    BY DEF w_utxo, store, StoreSame
  <1>2. wpc = "utxo" /\ wpc' = "idle" /\ slock' = "free" /\ wblk' = NONE
        /\ utxo' = (utxo \ Inputs[wblk]) \cup Outputs[wblk]
    BY DEF w_utxo
  <1>3. /\ log \in Seq(Hashes) /\ Len(log) \in 1 .. Len(log) /\ log[Len(log)] = wblk
        /\ utxo = UtxoUpTo(log, Len(log) - 1)
    BY <1>2 DEF PInv, UtxoOK, AdapterTypeOK
  <1>4. utxo' = UtxoOf(log)
    BY <1>2, <1>3, UtxoLast, UtxoOfUpTo
  <1>5. AdapterTypeOK'
    BY <1>1, <1>2 DEF PInv, AdapterTypeOK, StoreSame, WriterPcs
  <1>6. WriterOK'
    BY <1>2 DEF WriterOK
  <1>7. UtxoOK'
    BY <1>1, <1>2, <1>4 DEF UtxoOK
  <1>8. QED
    BY <1>1, <1>5, <1>6, <1>7 DEF PInv, HeadHasSums, ReadHeadHasSums, get_block_sums,
                                   StoreSame

\* s.batch(): the writer opens its batch.
LEMMA BatchStep ==
  ASSUME PInv, w_batch PROVE PInv'
  <1>1. /\ db' = db /\ batch' = batch /\ failed' = failed /\ depth' = 1 /\ calls' = 0
        /\ utxo' = utxo /\ log' = log /\ rhead' = rhead /\ slock' = slock /\ wblk' = wblk
        /\ wpc = "batch" /\ wpc' = "header"
    BY DEF w_batch, CS!open_batch
  <1>2. AdapterTypeOK'
    BY <1>1 DEF PInv, AdapterTypeOK, WriterPcs
  <1>3. WriterOK'
    BY <1>1 DEF PInv, WriterOK
  <1>4. QED
    BY <1>1, <1>2, <1>3 DEF PInv, HeadHasSums, UtxoOK, ReadHeadHasSums, get_block_sums

\* A step of the writer inside its batch that leaves the db, the UTXO
\* set, the log and the readers alone keeps the parts of PInv about them.
LEMMA InsideBatch ==
  ASSUME PInv,
         db' = db, utxo' = utxo, log' = log, rhead' = rhead, slock' = slock,
         wblk' = wblk,
         wpc \in {"header", "head", "sums", "commit", "panic"},
         wpc' \in {"head", "sums", "commit", "panic"}
  PROVE  /\ HeadHasSums(db)' /\ ReadHeadHasSums' /\ UtxoOK'
         /\ (slock = "free" <=> wpc \in {"idle", "dead"})'
         /\ (wpc # "idle" => wblk \in Hashes)'
  <1>1. slock = "writer" /\ wblk \in Hashes /\ utxo = UtxoOf(log)
    BY DEF PInv, WriterOK, AdapterTypeOK, UtxoOK
  <1>2. QED
    BY <1>1 DEF PInv, HeadHasSums, ReadHeadHasSums, get_block_sums, UtxoOK

\* A layer of values laid over another is one.
LEMMA OverValues ==
  ASSUME NEW f, NEW g, ValLayer(f), ValLayer(g)
  PROVE  ValLayer(CS!Over(f, g))
  BY DEF ValLayer, CS!Over

\* The facts every handler call of the writer starts from: the batch is
\* open and healthy, and it is the innermost one.
LEMMA InHandler ==
  ASSUME PInv, CS!Usable, wpc # "idle"
  PROVE  depth = 1 /\ failed = FALSE /\ wblk \in Hashes /\ calls \in Nat
  BY DEF PInv, AdapterTypeOK, WriterOK, CS!Usable

\* A handler call of the writer at depth 1 that leaves the batch a layer
\* of values keeps everything in PInv but what the writer knows of its own
\* batch.
LEMMA AfterHandler ==
  ASSUME PInv, ValLayer(batch'),
         db' = db, depth' = 1, failed' \in BOOLEAN, calls' \in Nat,
         utxo' = utxo, log' = log, rhead' = rhead, slock' = slock, wblk' = wblk,
         wpc \in {"header", "head", "sums"},
         wpc' \in {"head", "sums", "commit", "panic"}
  PROVE  /\ AdapterTypeOK'
         /\ HeadHasSums(db)' /\ ReadHeadHasSums' /\ UtxoOK'
         /\ (slock = "free" <=> wpc \in {"idle", "dead"})'
         /\ (wpc # "idle" => wblk \in Hashes)'
  <1>1. DOMAIN db' = CS!Keys /\ db'[HeadKey] \in Hashes \cup {NONE}
    BY DEF PInv, AdapterTypeOK
  <1>2. slock' \in {"free", "writer"} /\ wpc' \in WriterPcs /\ wblk' \in Hashes \cup {NONE}
        /\ rhead' \in [Readers -> Hashes \cup {NONE}] /\ log' \in Seq(Hashes)
    BY DEF PInv, AdapterTypeOK, WriterPcs
  <1>3. AdapterTypeOK'
    BY <1>1, <1>2 DEF AdapterTypeOK
  <1>4. QED
    BY <1>3, InsideBatch

\* A handler call whose first write errs: the batch is left as it was and
\* the writer's unwrap panics.
LEMMA FailStep ==
  ASSUME PInv, CS!Usable, CS!Fail, wpc \in {"header", "head", "sums"}, wpc' = "panic",
         utxo' = utxo, log' = log, rhead' = rhead, slock' = slock, wblk' = wblk
  PROVE  PInv'
  <1>1. depth = 1 /\ failed = FALSE /\ wblk \in Hashes /\ calls \in Nat
    BY InHandler
  <1>2. batch' = batch /\ db' = db /\ depth' = 1 /\ failed' = TRUE /\ calls' = calls + 1
    BY <1>1 DEF CS!Fail
  <1>3. failed' \in BOOLEAN
    BY <1>2, Zenon
  <1>4. ValLayer(batch')
    BY <1>2 DEF PInv, AdapterTypeOK
  <1>5. /\ AdapterTypeOK'
        /\ HeadHasSums(db)' /\ ReadHeadHasSums' /\ UtxoOK'
        /\ (slock = "free" <=> wpc \in {"idle", "dead"})'
        /\ (wpc # "idle" => wblk \in Hashes)'
    BY <1>1, <1>2, <1>3, <1>4, AfterHandler
  <1>6. QED
    BY <1>5 DEF PInv, WriterOK

\* save_block_header(header).unwrap()
LEMMA HeaderStep ==
  ASSUME PInv, w_header PROVE PInv'
  <1> DEFINE ws == CS!Single(HeaderKey(wblk), TRUE)
  <1>1. /\ wpc = "header" /\ CS!Usable
        /\ utxo' = utxo /\ log' = log /\ rhead' = rhead /\ slock' = slock /\ wblk' = wblk
        /\ After("head")
    BY DEF w_header, CS!save_block_header
  <1>2. depth = 1 /\ failed = FALSE /\ wblk \in Hashes /\ calls \in Nat
    BY <1>1, InHandler
  <1>3. ValLayer(ws) /\ ValLayer(batch)
    BY <1>2, KeyFacts DEF ws, ValLayer, CS!Single, PInv, AdapterTypeOK
  <1>4. CS!Write(ws) \/ CS!Fail
    BY DEF w_header, CS!save_block_header, ws, HeaderKey
  <1>5. CASE CS!Write(ws)
    <2>1. batch' = CS!Over(ws, batch) /\ db' = db /\ depth' = 1 /\ failed' = FALSE
          /\ calls' = calls + 1
      BY <1>2, <1>5 DEF CS!Write
    <2>2. wpc' = "head" /\ failed' \in BOOLEAN
      BY <1>1, <2>1, Zenon DEF After
    <2>3. ValLayer(batch')
      BY <1>3, <2>1, OverValues
    <2>4. /\ AdapterTypeOK'
          /\ HeadHasSums(db)' /\ ReadHeadHasSums' /\ UtxoOK'
          /\ (slock = "free" <=> wpc \in {"idle", "dead"})'
          /\ (wpc # "idle" => wblk \in Hashes)'
      BY <1>1, <1>2, <2>1, <2>2, <2>3, AfterHandler
    <2>5. QED
      BY <2>2, <2>4 DEF PInv, WriterOK
  <1>6. CASE CS!Fail
    <2>1. wpc' = "panic"
      BY <1>1, <1>6, Zenon DEF CS!Fail, After
    <2>2. QED
      BY <1>1, <1>6, <2>1, FailStep
  <1>7. QED
    BY <1>4, <1>5, <1>6

\* save_head(&tip).unwrap(): HEAD and HEADER_HEAD name the block, or a put
\* fails (possibly after HEAD) and the writer panics.
LEMMA HeadStep ==
  ASSUME PInv, w_head PROVE PInv'
  <1> DEFINE ws == [k \in {HeadKey, HeaderHeadKey} |-> wblk]
  <1>1. /\ wpc = "head" /\ CS!Usable
        /\ utxo' = utxo /\ log' = log /\ rhead' = rhead /\ slock' = slock /\ wblk' = wblk
    BY DEF w_head, CS!save_head
  <1>2. depth = 1 /\ failed = FALSE /\ wblk \in Hashes /\ calls \in Nat
    BY <1>1, InHandler
  <1>3. ValLayer(ws) /\ ValLayer(CS!Single(HeadKey, wblk)) /\ ValLayer(batch)
    BY <1>2, KeyFacts DEF ValLayer, CS!Single, PInv, AdapterTypeOK
  <1>4. /\ \/ batch' = CS!Over(ws, batch) /\ failed' = FALSE /\ wpc' = "sums"
           \/ batch' = batch /\ failed' = TRUE /\ wpc' = "panic"
           \/ batch' = CS!Over(CS!Single(HeadKey, wblk), batch) /\ failed' = TRUE
                /\ wpc' = "panic"
        /\ db' = db /\ depth' = 1 /\ calls' = calls + 1
    BY <1>1, <1>2 DEF w_head, CS!save_head, CS!Write, CS!Fail, CS!FailAfter, After,
                      ws, HeadKey, HeaderHeadKey
  <1>5. failed' \in BOOLEAN
    BY <1>4, Zenon
  <1>6. ValLayer(batch')
    BY <1>3, <1>4, OverValues
  <1>7. /\ AdapterTypeOK'
        /\ HeadHasSums(db)' /\ ReadHeadHasSums' /\ UtxoOK'
        /\ (slock = "free" <=> wpc \in {"idle", "dead"})'
        /\ (wpc # "idle" => wblk \in Hashes)'
    BY <1>1, <1>2, <1>4, <1>5, <1>6, AfterHandler
  <1>8. wpc' = "sums" => HeadKey \in DOMAIN batch' /\ batch'[HeadKey] = wblk'
    BY <1>1, <1>4 DEF CS!Over
  <1>9. QED
    BY <1>4, <1>7, <1>8 DEF PInv, WriterOK

\* verify_kernel_sums(..).unwrap() then save_block_sums(..).unwrap(): the
\* batch gets the block's sums beside the head it already names, or the
\* writer panics.
LEMMA SumsStep ==
  ASSUME PInv, w_sums PROVE PInv'
  <1>1. /\ wpc = "sums"
        /\ utxo' = utxo /\ log' = log /\ rhead' = rhead /\ slock' = slock /\ wblk' = wblk
    BY DEF w_sums
  <1>2. CASE CS!save_block_sums(wblk) /\ After("commit")
    <2> DEFINE ws == CS!Single(SumsKey(wblk), TRUE)
    <2>1. CS!Usable
      BY <1>2 DEF CS!save_block_sums
    <2>2. depth = 1 /\ failed = FALSE /\ wblk \in Hashes /\ calls \in Nat
      BY <1>1, <2>1, InHandler
    <2>3. SumsKey(wblk) \in CS!Keys /\ SumsKey(wblk) # HeadKey
      BY <2>2, KeyFacts
    <2>4. ValLayer(ws) /\ ValLayer(batch)
      BY <2>3 DEF ws, ValLayer, CS!Single, PInv, AdapterTypeOK
    <2>5. CS!Write(ws) \/ CS!Fail
      BY <1>2 DEF CS!save_block_sums, ws, SumsKey
    <2>6. CASE CS!Write(ws)
      <3>1. batch' = CS!Over(ws, batch) /\ db' = db /\ depth' = 1 /\ failed' = FALSE
            /\ calls' = calls + 1
        BY <2>2, <2>6 DEF CS!Write
      <3>2. wpc' = "commit" /\ failed' \in BOOLEAN
        BY <1>2, <3>1, Zenon DEF After
      <3>3. ValLayer(batch')
        BY <2>4, <3>1, OverValues
      <3>4. /\ AdapterTypeOK'
            /\ HeadHasSums(db)' /\ ReadHeadHasSums' /\ UtxoOK'
            /\ (slock = "free" <=> wpc \in {"idle", "dead"})'
            /\ (wpc # "idle" => wblk \in Hashes)'
        BY <1>1, <2>2, <3>1, <3>2, <3>3, AfterHandler
      <3>5. HeadKey \in DOMAIN batch /\ batch[HeadKey] = wblk
        BY <1>1, <2>2 DEF PInv, WriterOK
      <3>6. /\ HeadKey \in DOMAIN batch' /\ batch'[HeadKey] = wblk'
            /\ SumsKey(wblk') \in DOMAIN batch'
        BY <1>1, <2>3, <3>1, <3>5 DEF ws, CS!Over, CS!Single
      <3>7. QED
        BY <3>2, <3>4, <3>6 DEF PInv, WriterOK
    <2>7. CASE CS!Fail
      <3>1. wpc' = "panic"
        BY <1>2, <2>7, Zenon DEF CS!Fail, After
      <3>2. QED
        BY <1>1, <2>1, <2>7, <3>1, FailStep
    <2>8. QED
      BY <2>5, <2>6, <2>7
  <1>3. CASE wpc' = "panic" /\ UNCHANGED store
    <2>1. db' = db /\ batch' = batch /\ depth' = depth /\ failed' = failed /\ calls' = calls
      BY <1>3 DEF store
    <2>2. AdapterTypeOK'
      BY <1>1, <1>3, <2>1 DEF PInv, AdapterTypeOK, WriterPcs
    <2>3. WriterOK'
      BY <1>1, <1>3, <2>1 DEF PInv, WriterOK
    <2>4. QED
      BY <1>1, <1>3, <2>1, <2>2, <2>3 DEF PInv, HeadHasSums, ReadHeadHasSums,
                                          get_block_sums, UtxoOK
  <1>4. QED
    BY <1>2, <1>3 DEF w_sums

\* batch.commit().unwrap(): the db takes the head and the sums in one step,
\* and the writer's block joins the committed ones; or the commit fails,
\* the db is left as it was and the writer panics.
LEMMA CommitStep ==
  ASSUME PInv, w_commit PROVE PInv'
  <1>1. /\ wpc = "commit" /\ CS!commit
        /\ utxo' = utxo /\ rhead' = rhead /\ slock' = slock /\ wblk' = wblk
    BY DEF w_commit
  <1>2. depth = 1 /\ failed = FALSE
    BY <1>1 DEF CS!commit, PInv, AdapterTypeOK
  <1>3. batch' = CS!EmptyLayer /\ depth' = 0 /\ failed' = failed /\ calls' = calls
    BY <1>1, <1>2 DEF CS!commit
  <1>4. /\ wblk \in Hashes /\ slock = "writer" /\ utxo = UtxoOf(log)
        /\ HeadKey \in DOMAIN batch /\ batch[HeadKey] = wblk
        /\ SumsKey(wblk) \in DOMAIN batch
    <2>1. wblk \in Hashes /\ slock = "writer" /\ utxo = UtxoOf(log)
      BY <1>1 DEF PInv, WriterOK, UtxoOK, AdapterTypeOK
    <2>2. ~failed
      BY <1>2
    <2>3. QED
      BY <1>1, <2>1, <2>2 DEF PInv, WriterOK
  <1>5. ValLayer(CS!EmptyLayer)
    BY DEF ValLayer, CS!EmptyLayer
  <1>6. CASE db' = CS!BatchView /\ wpc' = "utxo" /\ log' = Append(log, wblk)
    <2>1. DOMAIN db' = CS!Keys /\ db'[HeadKey] = wblk
      BY <1>3, <1>4, <1>6 DEF CS!BatchView, CS!Over, PInv, AdapterTypeOK, ValLayer
    <2>2. \A k \in CS!Keys : db[k] # NONE => db'[k] # NONE
      BY <1>3, <1>6 DEF CS!BatchView, CS!Over, PInv, AdapterTypeOK, ValLayer
    <2>3. db'[SumsKey(wblk)] # NONE
      BY <1>3, <1>4, <1>6 DEF CS!BatchView, CS!Over, PInv, AdapterTypeOK, ValLayer
    <2>4. log' \in Seq(Hashes) /\ Len(log') = Len(log) + 1 /\ log'[Len(log')] = wblk
      BY <1>4, <1>6 DEF PInv, AdapterTypeOK
    <2>5. AdapterTypeOK'
      BY <1>1, <1>3, <1>4, <1>5, <1>6, <2>1, <2>4 DEF PInv, AdapterTypeOK, WriterPcs
    <2>6. WriterOK'
      BY <1>1, <1>4, <1>6 DEF WriterOK
    <2>7. HeadHasSums(db)'
      BY <2>1, <2>3 DEF HeadHasSums
    <2>8. ReadHeadHasSums'
      BY <1>1, <2>2, KeyFacts DEF PInv, AdapterTypeOK, ReadHeadHasSums, get_block_sums,
                                    SumsKey
    <2>9. utxo' = UtxoUpTo(log', Len(log') - 1)
      BY <1>1, <1>4, <1>6, UtxoUpToAppend, UtxoOfUpTo DEF PInv, AdapterTypeOK
    <2>10. UtxoOK'
      BY <1>1, <1>6, <2>4, <2>9 DEF UtxoOK
    <2>11. QED
      BY <2>5, <2>6, <2>7, <2>8, <2>10 DEF PInv
  <1>7. CASE db' = db /\ wpc' = "panic" /\ log' = log
    <2>1. AdapterTypeOK'
      BY <1>1, <1>3, <1>5, <1>7 DEF PInv, AdapterTypeOK, WriterPcs
    <2>2. WriterOK'
      BY <1>1, <1>4, <1>7 DEF WriterOK
    <2>3. QED
      BY <1>1, <1>4, <1>7, <2>1, <2>2 DEF PInv, HeadHasSums, ReadHeadHasSums,
                                          get_block_sums, UtxoOK
  <1>8. QED
    BY <1>6, <1>7 DEF w_commit

\* The unwinding of a panic: the batch, if still open, is dropped without
\* commit, then the store lock is let go; the db keeps what was committed.
LEMMA UnwindStep ==
  ASSUME PInv, w_unwind PROVE PInv'
  <1>1. /\ wpc = "panic" /\ wpc' = "dead" /\ slock' = "free"
        /\ utxo' = utxo /\ log' = log /\ rhead' = rhead /\ wblk' = wblk
    BY DEF w_unwind
  <1>2. db' = db /\ ValLayer(batch') /\ depth' \in {0, 1} /\ failed' \in BOOLEAN
        /\ calls' \in Nat
    <2>1. CASE depth > 0
      <3>1. batch' = CS!EmptyLayer /\ db' = db /\ depth' = 0 /\ failed' = FALSE
            /\ calls' = calls
        BY <1>1, <2>1 DEF w_unwind, CS!drop, PInv, AdapterTypeOK
      <3>2. failed' \in BOOLEAN
        BY <3>1, Zenon
      <3>3. QED
        BY <3>1, <3>2 DEF ValLayer, CS!EmptyLayer, PInv, AdapterTypeOK
    <2>2. CASE ~(depth > 0)
      BY <1>1, <2>2 DEF w_unwind, store, PInv, AdapterTypeOK
    <2>3. QED
      BY <2>1, <2>2
  <1>3. wblk \in Hashes /\ utxo = UtxoOf(log)
    BY <1>1 DEF PInv, WriterOK, UtxoOK
  <1>4. AdapterTypeOK'
    BY <1>1, <1>2 DEF PInv, AdapterTypeOK, WriterPcs
  <1>5. WriterOK'
    BY <1>1, <1>3 DEF WriterOK
  <1>6. QED
    BY <1>1, <1>2, <1>3, <1>4, <1>5 DEF PInv, HeadHasSums, ReadHeadHasSums,
                                        get_block_sums, UtxoOK

\* PInv is inductive: every step of the writer and of the pool threads,
\* and every stutter, keeps it.
LEMMA PStep == PInv /\ [Next]_vars => PInv'
  <1> SUFFICES ASSUME PInv, [Next]_vars PROVE PInv'
    OBVIOUS
  <1>1. CASE \E b \in Hashes : lock_store(b)
    BY <1>1, LockStep
  <1>2. CASE w_batch
    BY <1>2, BatchStep
  <1>3. CASE w_header
    BY <1>3, HeaderStep
  <1>4. CASE w_head
    BY <1>4, HeadStep
  <1>5. CASE w_sums
    BY <1>5, SumsStep
  <1>6. CASE w_commit
    BY <1>6, CommitStep
  <1>7. CASE w_utxo
    BY <1>7, UtxoStep
  <1>8. CASE w_unwind
    BY <1>8, UnwindStep
  <1>9. CASE \E r \in Readers : chain_head(r)
    BY <1>9, ReadStep
  <1>10. CASE UNCHANGED vars
    BY <1>10 DEF vars, store, PInv, AdapterTypeOK, ValLayer, WriterOK, HeadHasSums,
                 UtxoOK, ReadHeadHasSums, get_block_sums
  <1>11. QED
    BY <1>1, <1>2, <1>3, <1>4, <1>5, <1>6, <1>7, <1>8, <1>9, <1>10 DEF Next, Writer

\* The UTXO set the pool threads validate transactions against is, whenever
\* the store is unlocked, the one of exactly the committed blocks
\* (update_db_for_block, common.rs): for every set of blocks, commitments
\* and pool threads.
THEOREM UtxoSafe == Spec => []UtxoMatchesStore
  <1>1. PInv => UtxoMatchesStore
    BY DEF PInv, WriterOK, UtxoOK, UtxoMatchesStore
  <1>2. QED
    BY <1>1, InitPInv, PStep, PTL DEF Spec

\* A chain head handed to a pool thread (chain_head, common.rs) keeps its
\* block sums in the committed store, whatever the writer does after,
\* panics included.
THEOREM HeadSumsSafe == Spec => []ReadHeadHasSums
  <1>1. PInv => ReadHeadHasSums
    BY DEF PInv
  <1>2. QED
    BY <1>1, InitPInv, PStep, PTL DEF Spec

---------------------------------------------------------------------------
(* The committed store changes only by a whole commit.                     *)

\* Every step but the commit leaves the committed store alone: handlers
\* write into the batch, and an unwinding writer drops it.
LEMMA DbOnlyAtCommit ==
  ASSUME [Next]_vars, ~w_commit
  PROVE  db' = db
  <1>1. CASE \E b \in Hashes : lock_store(b)
    BY <1>1 DEF lock_store, store
  <1>2. CASE w_batch
    BY <1>2 DEF w_batch, CS!open_batch
  <1>3. CASE w_header
    BY <1>3 DEF w_header, CS!save_block_header, CS!Write, CS!Fail
  <1>4. CASE w_head
    BY <1>4 DEF w_head, CS!save_head, CS!Write, CS!Fail, CS!FailAfter
  <1>5. CASE w_sums
    BY <1>5 DEF w_sums, CS!save_block_sums, CS!Write, CS!Fail, store
  <1>6. CASE w_utxo
    BY <1>6 DEF w_utxo, store
  <1>7. CASE w_unwind
    BY <1>7 DEF w_unwind, CS!drop, store
  <1>8. CASE \E r \in Readers : chain_head(r)
    BY <1>8 DEF chain_head, store
  <1>9. CASE UNCHANGED vars
    BY <1>9 DEF vars, store
  <1> QED BY <1>1, <1>2, <1>3, <1>4, <1>5, <1>6, <1>7, <1>8, <1>9 DEF Next, Writer

\* A commit that changes the store publishes the batch, which names the
\* writer's block as head and holds its sums.
LEMMA CommitWholeStep ==
  ASSUME PInv, [Next]_vars
  PROVE  [db' # db =>
            /\ wpc = "commit"
            /\ CS!head(db') = wblk
            /\ get_block_sums(db', wblk) # NONE]_vars
  <1> SUFFICES ASSUME db' # db
               PROVE  /\ wpc = "commit"
                      /\ CS!head(db') = wblk
                      /\ get_block_sums(db', wblk) # NONE
    OBVIOUS
  <1>1. w_commit
    BY DbOnlyAtCommit
  <1>2. wpc = "commit" /\ CS!commit /\ db' = CS!BatchView
    BY <1>1 DEF w_commit
  <1>3. depth = 1 /\ failed = FALSE
    BY <1>2 DEF CS!commit, PInv, AdapterTypeOK
  <1>4. /\ wblk \in Hashes
        /\ HeadKey \in DOMAIN batch /\ batch[HeadKey] = wblk
        /\ SumsKey(wblk) \in DOMAIN batch /\ batch[SumsKey(wblk)] # NONE
    <2>1. wblk \in Hashes
      BY <1>2 DEF PInv, WriterOK
    <2>2. ~failed
      BY <1>3
    <2> QED BY <1>2, <2>1, <2>2 DEF PInv, WriterOK, AdapterTypeOK, ValLayer
  <1>5. db'[HeadKey] = wblk /\ db'[SumsKey(wblk)] # NONE
    BY <1>2, <1>4 DEF CS!BatchView, CS!Over
  <1> QED BY <1>2, <1>5 DEF CS!head, get_block_sums, HeadKey, SumsKey

\* update_db_for_block (common.rs) publishes a block all at once: the
\* committed store changes only by the commit of the writer's batch, which
\* makes the block the head with its block sums -- for every set of
\* blocks, commitments and pool threads, panics and store failures included.
THEOREM CommitWhole == Spec => CommitPublishesWhole
  <1>1. Spec => []PInv
    BY InitPInv, PStep, PTL DEF Spec
  <1>2. PInv /\ [Next]_vars =>
          [db' # db =>
             /\ wpc = "commit"
             /\ CS!head(db') = wblk
             /\ get_block_sums(db', wblk) # NONE]_vars
    BY CommitWholeStep
  <1> QED BY <1>1, <1>2, PTL DEF Spec, CommitPublishesWhole

---------------------------------------------------------------------------
(* The committed head is the last committed block, with its header.        *)

LEMMA InitHeadIsTip == Init => HeadIsTip
  <1> SUFFICES ASSUME Init PROVE HeadIsTip
    OBVIOUS
  <1>1. db = [k \in CS!Keys |-> NONE] /\ log = <<>> /\ wpc = "idle"
    BY DEF Init, CS!Init
  <1> QED BY <1>1, KeyFacts DEF HeadIsTip, Pub!Tip

\* A step that leaves the committed store and the log alone, after which
\* the writer is not in a healthy batch past save_block_header.
LEMMA TipKeep ==
  ASSUME HeadIsTip, db' = db, log' = log,
         ~(wpc' \in {"head", "sums", "commit"} /\ ~failed')
  PROVE  HeadIsTip'
  BY DEF HeadIsTip, Pub!Tip

\* A step that changes neither the store nor the writer.
LEMMA TipSame ==
  ASSUME HeadIsTip, db' = db, log' = log, batch' = batch, failed' = failed,
         wpc' = wpc, wblk' = wblk
  PROVE  HeadIsTip'
  BY DEF HeadIsTip, Pub!Tip

\* A handler call that only adds records to the batch, once the writer's
\* header is in it or is one of them.
LEMMA TipGrow ==
  ASSUME HeadIsTip, db' = db, log' = log, wblk' = wblk,
         NEW ws, batch' = CS!Over(ws, batch),
         HeaderKey(wblk) \in DOMAIN ws \cup DOMAIN batch
  PROVE  HeadIsTip'
  BY DEF HeadIsTip, Pub!Tip, CS!Over

\* save_block_header(header).unwrap()
LEMMA TipHeader ==
  ASSUME RInv, w_header PROVE HeadIsTip'
  <1> DEFINE ws == CS!Single(HeaderKey(wblk), TRUE)
  <1>1. /\ wpc = "header" /\ CS!Usable /\ log' = log /\ wblk' = wblk /\ After("head")
    BY DEF w_header, CS!save_block_header
  <1>2. depth = 1 /\ failed = FALSE
    BY <1>1, InHandler DEF RInv
  <1>3. CS!Write(ws) \/ CS!Fail
    BY DEF w_header, CS!save_block_header, ws, HeaderKey
  <1>4. CASE CS!Write(ws)
    <2>1. batch' = CS!Over(ws, batch) /\ db' = db
      BY <1>2, <1>4 DEF CS!Write
    <2>2. HeaderKey(wblk) \in DOMAIN ws
      BY DEF ws, CS!Single
    <2> QED BY <1>1, <2>1, <2>2, TipGrow DEF RInv
  <1>5. CASE CS!Fail
    BY <1>1, <1>5, TipKeep DEF CS!Fail, RInv
  <1>6. QED
    BY <1>3, <1>4, <1>5

\* save_head(&tip).unwrap(): the batch, which holds the header, grows.
LEMMA TipHead ==
  ASSUME RInv, w_head PROVE HeadIsTip'
  <1> DEFINE ws == [k \in {HeadKey, HeaderHeadKey} |-> wblk]
  <1>1. wpc = "head" /\ CS!Usable /\ log' = log /\ wblk' = wblk
    BY DEF w_head, CS!save_head
  <1>2. depth = 1 /\ failed = FALSE
    BY <1>1, InHandler DEF RInv
  <1>3. HeaderKey(wblk) \in DOMAIN batch
    BY <1>1, <1>2 DEF RInv, HeadIsTip
  <1>4. /\ \/ batch' = CS!Over(ws, batch)
           \/ failed' = TRUE
           \/ batch' = CS!Over(CS!Single(HeadKey, wblk), batch)
        /\ db' = db
    BY <1>2 DEF w_head, CS!save_head, CS!Write, CS!Fail, CS!FailAfter, ws, HeadKey,
                HeaderHeadKey
  <1>5. QED
    BY <1>1, <1>3, <1>4, TipGrow, TipKeep DEF RInv

\* verify_kernel_sums then save_block_sums: the batch grows, or the writer
\* panics.
LEMMA TipSums ==
  ASSUME RInv, w_sums PROVE HeadIsTip'
  <1>1. wpc = "sums" /\ log' = log /\ wblk' = wblk
    BY DEF w_sums
  <1>2. CASE CS!save_block_sums(wblk) /\ After("commit")
    <2>1. depth = 1 /\ failed = FALSE
      BY <1>1, <1>2, InHandler DEF RInv, CS!save_block_sums
    <2>2. HeaderKey(wblk) \in DOMAIN batch
      BY <1>1, <2>1 DEF RInv, HeadIsTip
    <2> DEFINE ws == CS!Single(SumsKey(wblk), TRUE)
    <2>3. CS!Write(ws) \/ CS!Fail
      BY <1>2 DEF CS!save_block_sums, ws, SumsKey
    <2>4. CASE CS!Write(ws)
      <3>1. batch' = CS!Over(ws, batch) /\ db' = db
        BY <2>1, <2>4 DEF CS!Write
      <3> QED BY <1>1, <2>2, <3>1, TipGrow DEF RInv
    <2>5. CASE CS!Fail
      BY <1>1, <2>5, TipKeep DEF CS!Fail, RInv
    <2> QED BY <2>3, <2>4, <2>5
  <1>3. CASE wpc' = "panic" /\ UNCHANGED store
    BY <1>1, <1>3, TipKeep DEF store, RInv
  <1>4. QED
    BY <1>2, <1>3 DEF w_sums

\* batch.commit().unwrap(): the db takes the writer's head and header, and
\* the block joins the log; or nothing is committed.
LEMMA TipCommit ==
  ASSUME RInv, w_commit PROVE HeadIsTip'
  <1>1. wpc = "commit" /\ CS!commit /\ wblk' = wblk
    BY DEF w_commit
  <1>2. depth = 1 /\ failed = FALSE
    BY <1>1 DEF CS!commit, RInv, PInv, AdapterTypeOK
  <1>3. /\ wblk \in Hashes /\ log \in Seq(Hashes)
        /\ HeadKey \in DOMAIN batch /\ batch[HeadKey] = wblk
        /\ HeaderKey(wblk) \in DOMAIN batch /\ batch[HeaderKey(wblk)] # NONE
    BY <1>1, <1>2 DEF RInv, PInv, WriterOK, AdapterTypeOK, ValLayer, HeadIsTip
  <1>4. CASE db' = CS!BatchView /\ wpc' = "utxo" /\ log' = Append(log, wblk)
    <2>1. db'[HeadKey] = wblk /\ db'[HeaderKey(wblk)] # NONE
      BY <1>3, <1>4 DEF CS!BatchView, CS!Over
    <2>2. Pub!Tip(log') = wblk
      BY <1>3, <1>4 DEF Pub!Tip
    <2> QED BY <1>4, <2>1, <2>2 DEF HeadIsTip
  <1>5. CASE db' = db /\ wpc' = "panic" /\ log' = log
    BY <1>5, TipKeep DEF RInv
  <1>6. QED
    BY <1>4, <1>5 DEF w_commit

\* HeadIsTip is kept by every step, given PInv.
LEMMA TipStep == RInv /\ [Next]_vars => HeadIsTip'
  <1> SUFFICES ASSUME RInv, [Next]_vars PROVE HeadIsTip'
    OBVIOUS
  <1>0. HeadIsTip
    BY DEF RInv
  <1>1. CASE \E b \in Hashes : lock_store(b)
    BY <1>0, <1>1, TipKeep DEF lock_store, store
  <1>2. CASE w_batch
    BY <1>0, <1>2, TipKeep DEF w_batch, CS!open_batch
  <1>3. CASE w_header
    BY <1>3, TipHeader
  <1>4. CASE w_head
    BY <1>4, TipHead
  <1>5. CASE w_sums
    BY <1>5, TipSums
  <1>6. CASE w_commit
    BY <1>6, TipCommit
  <1>7. CASE w_utxo
    BY <1>0, <1>7, TipKeep DEF w_utxo, store
  <1>8. CASE w_unwind
    BY <1>0, <1>8, TipKeep DEF w_unwind, CS!drop, store
  <1>9. CASE \E r \in Readers : chain_head(r)
    BY <1>0, <1>9, TipSame DEF chain_head, store
  <1>10. CASE UNCHANGED vars
    BY <1>0, <1>10, TipSame DEF vars, store
  <1>11. QED
    BY <1>1, <1>2, <1>3, <1>4, <1>5, <1>6, <1>7, <1>8, <1>9, <1>10 DEF Next, Writer

LEMMA InitRInv == Init => RInv
  BY InitPInv, InitHeadIsTip DEF RInv

LEMMA RStep == RInv /\ [Next]_vars => RInv'
  BY PStep, TipStep DEF RInv

---------------------------------------------------------------------------
(* update_db_for_block refines BlockPublish.                               *)

\* Where the writer is inside update_db_for_block, holding the store.
BusyPcs == {"batch", "header", "head", "sums", "commit", "panic"}

\* A step of the writer inside update_db_for_block before its commit or
\* after a failure publishes nothing.
LEMMA BusyStutter ==
  ASSUME wpc \in BusyPcs, wpc' \in BusyPcs, log' = log, utxo' = utxo, rhead' = rhead
  PROVE  UNCHANGED Pub!pvars
  BY DEF BusyPcs, Pub!pvars, published, wstate

\* store.write() is the abstract writer starting on a block.
LEMMA PubLock ==
  ASSUME RInv, NEW b \in Hashes, lock_store(b) PROVE Pub!Acquire
  <1>1. wpc = "idle" /\ wpc' = "batch" /\ Len(log) < MaxApplied
        /\ log' = log /\ utxo' = utxo /\ rhead' = rhead
    BY DEF lock_store
  <1> QED BY <1>1 DEF Pub!Acquire, published, wstate

\* batch.commit(): in the store, but not yet published.
LEMMA PubCommit ==
  ASSUME RInv, w_commit PROVE UNCHANGED Pub!pvars
  <1>1. wpc = "commit" /\ utxo' = utxo /\ rhead' = rhead /\ log \in Seq(Hashes)
        /\ wblk \in Hashes
    BY DEF w_commit, RInv, PInv, AdapterTypeOK, WriterOK
  <1>2. CASE wpc' = "utxo" /\ log' = Append(log, wblk)
    <2>1. SubSeq(log', 1, Len(log') - 1) = log
      BY <1>1, <1>2
    <2> QED BY <1>1, <1>2, <2>1 DEF Pub!pvars, published, wstate
  <1>3. CASE wpc' = "panic" /\ log' = log
    BY <1>1, <1>3, BusyStutter DEF BusyPcs
  <1> QED BY <1>2, <1>3 DEF w_commit

\* The UTXO update and the return: the block is published, head and UTXO
\* set together.
LEMMA PubUtxo ==
  ASSUME RInv, w_utxo PROVE Pub!Publish(wblk)
  <1>1. /\ wpc = "utxo" /\ wpc' = "idle" /\ log' = log /\ rhead' = rhead
        /\ utxo' = (utxo \ Inputs[wblk]) \cup Outputs[wblk]
    BY DEF w_utxo
  <1>2. log \in Seq(Hashes) /\ Len(log) > 0 /\ log[Len(log)] = wblk
    BY <1>1 DEF RInv, PInv, AdapterTypeOK, UtxoOK
  <1>3. log = Append(SubSeq(log, 1, Len(log) - 1), wblk)
    BY <1>2
  <1> QED BY <1>1, <1>3 DEF Pub!Publish, published, wstate

\* The unwinding of a panic: the writer gives up, publishing nothing.
LEMMA PubUnwind ==
  ASSUME RInv, w_unwind PROVE Pub!Abort
  <1>1. wpc = "panic" /\ wpc' = "dead" /\ log' = log /\ utxo' = utxo /\ rhead' = rhead
    BY DEF w_unwind
  <1> QED BY <1>1 DEF Pub!Abort, published, wstate

\* chain_head under the read lock: the committed head, with its header, is
\* the tip of the published chain.
LEMMA PubRead ==
  ASSUME RInv, NEW r \in Readers, chain_head(r) PROVE Pub!Read(r)
  <1>1. slock = "free" /\ rhead' = [rhead EXCEPT ![r] = head_header(db)]
        /\ wpc' = wpc /\ log' = log /\ utxo' = utxo
    BY DEF chain_head
  <1>2. wpc \in {"idle", "dead"}
    BY <1>1 DEF RInv, PInv, WriterOK
  <1>3. head_header(db) = Pub!Tip(log)
    BY DEF RInv, HeadIsTip, head_header, CS!head, HeadKey, HeaderKey
  <1> QED BY <1>1, <1>2, <1>3 DEF Pub!Read, published, wstate

\* Every step of the adapter is a step of BlockPublish or a stutter.
LEMMA PubStep == RInv /\ [Next]_vars => [Pub!Next]_Pub!pvars
  <1> SUFFICES ASSUME RInv, [Next]_vars PROVE [Pub!Next]_Pub!pvars
    OBVIOUS
  <1>1. CASE \E b \in Hashes : lock_store(b)
    BY <1>1, PubLock DEF Pub!Next
  <1>2. CASE w_batch
    BY <1>2, BusyStutter DEF w_batch, BusyPcs
  <1>3. CASE w_header
    BY <1>3, BusyStutter DEF w_header, After, BusyPcs
  <1>4. CASE w_head
    BY <1>4, BusyStutter DEF w_head, After, BusyPcs
  <1>5. CASE w_sums
    BY <1>5, BusyStutter DEF w_sums, After, BusyPcs
  <1>6. CASE w_commit
    BY <1>6, PubCommit
  <1>7. CASE w_utxo
    <2>1. wblk \in Hashes
      BY <1>7 DEF w_utxo, RInv, PInv, WriterOK
    <2> QED BY <1>7, <2>1, PubUtxo DEF Pub!Next
  <1>8. CASE w_unwind
    BY <1>8, PubUnwind DEF Pub!Next
  <1>9. CASE \E r \in Readers : chain_head(r)
    BY <1>9, PubRead DEF Pub!Next
  <1>10. CASE UNCHANGED vars
    BY <1>10 DEF vars, Pub!pvars, published, wstate
  <1>11. QED
    BY <1>1, <1>2, <1>3, <1>4, <1>5, <1>6, <1>7, <1>8, <1>9, <1>10 DEF Next, Writer

\* update_db_for_block and chain_head (common.rs) implement BlockPublish:
\* to every pool thread, each block appears all at once -- head, header,
\* sums and UTXO update together -- the head read is always the last block
\* fully applied, and a panicking writer publishes nothing; for every set
\* of blocks, commitments and pool threads, store failures included.
THEOREM Publishes == Spec => PublishesAtomically
  <1>1. Init => Pub!Init
    BY DEF Init, Pub!Init, published, wstate
  <1>2. Spec => []RInv
    BY InitRInv, RStep, PTL DEF Spec
  <1> QED BY <1>1, <1>2, PubStep, PTL DEF Spec, PublishesAtomically, Pub!Spec

=============================================================================
