# TLA+ verification of the chain store and block assembler

This directory holds TLA+ models of the code under `src/`, the TLC configurations
that model-check them on small instances, and TLAPS proofs of their main safety
properties for every value of the constants.

## The system

| part | source | what it does |
|---|---|---|
| chain store | `src/chain/src/store.rs` 1-383 | A prefix-keyed KV store of tips, headers, bodies, block sums, input bitmaps and the commitment->position index, written through a `Batch` that may have one child batch. |
| header-chain iterators | `src/chain/src/store.rs` 394-748 | `DifficultyIter`, `DifficultyIterAll` and `BottleIter` walk the header chain back from a start hash and yield difficulty data or policy bottles. |
| block assembler | `src/servers/src/mining/mine_block.rs` | `get_block` retries `build_block` until it succeeds. `build_block` reads the chain head, the difficulty iterator, the tx pool, the wallet (coinbase), the bottle iterator, and sets the txhashset roots. |
| pool test adapter | `src/pool/tests/common.rs` | A test `ChainAdapter`: `update_db_for_block` writes a block's header, head and sums through one batch under the store's write lock, then updates a UTXO set under a second lock; pool threads read the head, sums and UTXO set under read locks. |
| coinbase maturity test | `src/chain/tests/test_coinbase_maturity.rs` | An integration test of the chain. |
| keychain, TUI status, api root | `src/keychain`, `src/src/bin/tui`, `src/api` | Key derivation, UI rendering and module declarations. None of them holds shared state. |

How the parts interact:
- The assembler reads the chain through the store: it reads the head header and runs the two iterators, each over its own batch or store handle.
- The chain pipeline, which is not in this repository, writes blocks through store batches.
- The assembler's reads may interleave with those writes.
- In the pool tests, the adapter is both a store client (writer) and the chain the pool threads read.

## Modules

### `ChainStore.tla`: the store and its batches

**State**
- `db`: the committed records, a total function on `Keys`.
- `batch` and `child`: the writes of the open batch and of its child. Each is a partial function on the keys it wrote.
- `depth`: 0 means no batch, 1 a batch, 2 a batch with a child.
- `failed`: a handler of the innermost batch returned an error from a write.
- `calls`: handler calls since the batch was opened. It is bounded by `MaxCalls`.

**Data abstraction**
- A key is `<<prefix, id>>` with the prefix bytes of store.rs:31-39.
- Tips are the hash they name.
- Headers, bodies and sums are present or absent.
- The commitment index maps to `Positions`.
- A bitmap is a set of positions below `2^PosBits`. `PosBits` stands for the u32 of `x as u32`, scaled down so that TLC can hold the numbers.

**Reads**
- A handler reads `View`: the child over the batch over `db`. This is the KV engine's read-your-writes contract.

**Handlers**
- Every `Batch` method that writes is one action.
- Its guard is the handler's early returns:
  - `reset_*` needs the pointer.
  - `delete_block` needs the body.
  - `get_block_input_bitmap` writes only on a cache miss or a read error, and only when the body exists.
- Each handler has three outcomes:
  - `Write(ws)`: it completes.
  - `Fail`: a put or delete returned `Err` through `?`. The batch can then only be dropped.
  - `ReadErr`: a `NotFound` from a getter. Nothing is written, and the caller decides what to do.
  - `FailAfter(ws)`, for the handlers that make several writes: the first writes land in the batch and a later one fails (`save_head` with HEAD put and HEADER_HEAD failing, store.rs:166-167; `clear_output_pos` stopping after some of its deletes, store.rs:274-276).
- `save_block` is the whole of `build_and_store_block_input_bitmap` plus the body put.
- `delete_block` is the body delete followed by the two best-effort deletes. `DeleteMayFail` says whether one of these may fail on a present record. Its error is ignored (store.rs:234-238), so the record then stays.

**Batch lifecycle** (`open_batch`, `open_child`, `commit`, `drop`)
- `ChainStore::batch`, `Batch::child` and `Batch::commit` are in store.rs.
- Their semantics (merge into the parent, atomic publish, discard on drop) come from the KV engine, which is not in the repository. They are modelled from the spec and marked `spec_modelled` in PROJECT.json.

`MCChainStore.tla` gives the small instance used by TLC.

### `PoolAdapter.tla`: the pool test adapter composed with the store

- **Writer thread: `update_db_for_block`.** It has one action per statement, in code order:
  - `lock_store`: `store.write()`;
  - `w_batch`;
  - `w_header`;
  - `w_head`;
  - `w_sums`: the parent's sums, `verify_kernel_sums(..).unwrap()`, and `save_block_sums`;
  - `w_commit`: the commit either publishes the batch, or fails, consuming the batch and leaving the store as it was, after which the writer panics;
  - `w_utxo`: the UTXO update under its own lock, then the return, which drops the store guard.
- **Handlers.** Each store handler is the `ChainStore` action (`CS == INSTANCE ChainStore`), with all of its outcomes.
- **Panics.** Every `.unwrap()` on an `Err` sends the writer to `"panic"` (`After`). `w_unwind` is the unwinding: the batch is dropped if the commit has not consumed it, then the guard is dropped.
- **Pool threads.** `chain_head(r)` is one action under the read lock: the lock is held for the whole call, and the call makes no other step. `get_block_sums` and `validate_tx` are operators over the same state.
- **History.** `log` holds the blocks whose batch committed. `rhead` holds what each pool thread was last told is the head. `UtxoOf(log)` is the UTXO set of the committed blocks in closed form: the outputs of a block that no later block spends.
- **Blocks** are model values with input and output commitment sets (`Inputs`, `Outputs`).
- **Refinement.** `Pub == INSTANCE BlockPublish` maps the adapter onto its abstract contract.
  - A block counts as published when the writer lets go of the store, after the UTXO update. `published` is therefore `log` without its last block while the writer is at `"utxo"`, and `log` otherwise.
  - `wstate` is `"busy"` while the writer holds the store, `"dead"` after a panic has unwound it, and `"idle"` otherwise.
  - `rhead` is the abstract `seen`; the UTXO set maps to itself.

### `BlockPublish.tla`: what the adapter promises pool threads

- The chain is a sequence of whole blocks. One writer `Acquire`s and then either `Publish(b)`es (the head and the UTXO set change together) or `Abort`s, after which it is dead.
- `Read(r)` returns the last block of the chain. It is enabled only while no block is being published.
- The `BlockChain` trait the pool relies on is not in the repository, so this contract is written from what `chain_head` and `validate_tx` are used for.

### `HeaderChain.tla`: the three header-chain cursors (store.rs 394-746)

- **State.**
  - `chain` is a sequence of headers. Header i's `prev_hash` names header i - 1, and header 1 is genesis. Index 0 stands for "no header": a failed `get_block_header(...).ok()`.
  - `start` is the start hash.
  - `header` and `prev` are the iterator's `header` and `prev_header` fields; `head`, `first`, `pdiff`, `pspan` and `count` are the locals of the inner loop.
  - `out` is what `next()` has returned so far. `pc` says whether the consumer is between calls, inside one, or has received None.
- **Data abstraction.**
  - Scaling and bottles of header i are the number i, so that a value taken from the wrong header shows.
  - Total difficulty is one number per header, increasing along the chain.
  - The timespan's `as u64` is reduction modulo `2^TimeBits`, which is two's complement narrowed to TimeBits bits. Timestamps are non-negative, so the timestamp's own `as u64` changes nothing.
  - Headers are never rewritten, so a cursor on a batch and one on the store read the same chain. The chain is fixed within a behaviour.
- **Actions.**
  - `diff_call`, `all_call` and `bottle_call` are the start of each `next()`.
  - `diff_scan` and `bottle_scan` are one iteration of the inner `loop`. Their breaks are `diff_yield` and `bottle_yield`, which model the rest of the call.
  - `DifficultyIterAll` has no inner loop, so `all_call` is the whole call.
- **Reference definitions.** `SpecDiffSamples`, `SpecAllSamples` and `SpecBottleSource` are written from spec §4.E, §4.F and §4.G. `SpecDiffSamples` is a recursive function (`f[i \in 0..Len(c)]`), not a RECURSIVE operator. The properties compare the code's outputs with these.
- `MCHeaderChain.tla` has two PoW types and two policies as model values.

### `MineBlock.tla`: the block assembler (mine_block.rs 77-262)

- **Threads.** The assembler thread runs `get_block`, and a chain writer commits new heads (`commit_head`).
  - The writer is `chain::Chain`'s block processing. That is not in the repository, so it is reduced to "the head height grows".
- **State.**
  - `tip` is the head height.
  - `pc` is the assembler's next step.
  - `keyArg` is the running call's `key_id`; `coinKey` is the key its coinbase was built with.
  - `err` is the last error; `sleptMs` is the sleep before the running attempt.
  - `bHead`, `diffFrom` and `botFrom` are the heads seen by `head_header()` (line 146), `difficulty_iter()` and `bottles_iter()`.
  - `keyId`, `walletUrl` and `givenDup` are get_block's inputs, chosen in `Init`.
- **Actions.**
  - `build_head` through `build_roots`: one per step of `build_block` that reads the chain or can fail, in code order. Every `?` is a `Fail` to `handle`.
  - `handle` is one turn of `get_block`'s `while let Err(e)`. It resets `new_key_id` to `key_id`, sets it to None after a DuplicateCommitment, sleeps 5 s after WalletComm and 100 ms when `new_key_id` is Some, and then calls `build_block` again.
- **DuplicateCommitment.** `set_txhashset_roots` reports it whenever the coinbase reuses the given key and that key's commitment exists (`givenDup`).
  - A fresh key (burning's random keychain, or the wallet's derivation for None) is only "unlikely" to collide (lines 120-121). It may collide too, as one of the bounded transient failures.
- **Transient failures.** Every other failure (KV, wallet, validation) is an environment choice, bounded by `MaxFaults`.

### Proof modules

`ChainStoreProofs.tla`, `HeaderChainProofs.tla`, `MineBlockProofs.tla` and `PoolAdapterProofs.tla` hold the TLAPS proofs. Each one extends the module it is about. They are described under "What is proved" below.

## Runs

| run | checks | shows |
|---|---|---|
| `chainstore_bitmaps` | `TypeOK`, `BitmapsHaveBodies` | Bitmaps stay beside their bodies. This holds in the committed store, in the batch's view and in the child's view, over every interleaving of open, child, commit, drop, all handlers and their error outcomes. |
| `chainstore_bitmap_correspondence` | `BitmapCorrespondence` (violation) | Spec §8 says a stored bitmap holds exactly the positions its inputs resolve to. The code breaks this (see Findings). |
| `iterators` | `TypeOK`, `DiffSamplesMatch`, `AllSamplesMatch`, `BottleYieldsMatch`, `Termination` | Driven to None, each cursor returns what the spec's definitions give, and it always gets to None. `DiffSamplesMatch` covers the filtered walk, with its difficulty from the immediate parent. It compares timestamps, difficulties and sources; the code departs from spec §4.E in the timespan and in the scaling, and each of those has a violation run of its own. |
| `iterators_timespan` | `TimespansSaturate` (violation) | A backwards timestamp gives a wrapped timespan, not 0. |
| `iterators_scaling` | `DiffScalingIsHeaders` (violation) | A DifficultyIter sample carries the scaling of the last header its walk passed, not its own. |
| `iterators_bottle_cap` | `BottleStartYield` (violation) | A start that has the policy gets None, not its own bottles, when no ancestor within the window has the policy. |
| `assembler` | `TypeOK`, `GetBlockReturns` | For every `key_id`, wallet and duplicate key, with the head moving, `get_block` returns once transient failures stop. This includes the case where a failure after a key rotation sends the loop back to the duplicate key, and a fresh key that collides too. |
| `assembler_dup_sleep` | `DupRetryWaits` (violation) | The retry after a DuplicateCommitment does not sleep. |
| `assembler_one_parent` | `OneParent` (violation) | The returned block's bottles (or difficulty) can come from a newer head than its parent. |
| `pool_adapter` | `UtxoMatchesStore`, `ReadHeadHasSums`, `CommitPublishesWhole`, `PublishesAtomically` | The adapter's writer runs with every store failure and every panic, interleaved with a pool thread's `chain_head`. Whenever the store lock is free, the UTXO set is the one of exactly the committed blocks. A head that a pool thread was given always has its block sums in the store. The committed store changes only by the writer's commit, which publishes the head together with its sums (an action property). The adapter implements `BlockPublish` (`PublishesAtomically`): to pool threads, each block appears at once, head and UTXO set together. |

**Bounds** (`MCChainStore.cfg`)
- One hash, one commitment, positions {1, 9} with `PosBits = 3`, and `MaxCalls = 3`.
- This reaches about 1.9M distinct states in about 40 s.
- Three calls per batch are enough for the interesting sequences:
  - save_block, then delete_block, then get_block_input_bitmap;
  - save_output_pos between save_block and commit;
  - a write in a child that is then committed or dropped.
- Position 9 does not fit in 3 bits. This is how a u64 position above 2^32 behaves under `as u32`.
- A second hash adds only symmetric copies of the same scenarios and makes the state space explode. The reason is that every hash adds four records to every layer.

**Bounds** (`MCPoolAdapter.cfg`)
- Two blocks: `h1` creates `c1`, and `h2` spends `c1` and creates `c2`. The UTXO update order then matters.
- One pool thread, and `MaxApplied = 3` applied blocks, so a block can be applied again after another one.
- `MaxCalls = 3`, the three handlers of one call.
- The run covers 487 states. Every writer step fires, with each of its outcomes, including a panic at each unwrap.

**Bounds** (`MCHeaderChain.cfg`)
- Every chain of 1 to 4 headers, over PoW types {cuckatoo, progpow}, timestamps {0, 1}, difficulty increments {1, 2} and policies {p1, p2}. Every start 0..4 is explored.
- Four headers are enough for spec scenario 5 (C, P, P, C) and for a PoW-type switch followed by a genesis fallback.
- `LimitSearch = 2` instead of 200. A chain of three or four headers then reaches both a found policy and the cap.
- `TimeBits = 6`, so the 60 s fallback fits and -1 wraps to 63. `HeaderChainAssumption` requires `60 < 2^TimeBits` for every width: the code's u64 holds the fallback, and a narrower model would break `TypeOK` for a reason the code does not have.
- The run covers 211,150 states in about 6 s.

**Bounds** (`MCMineBlock.cfg`)
- `MaxFaults = 3`. With two faults, a WalletComm failure of the None retry can send the loop back to the duplicate key, and a third fault can hit it again.
- `MaxTip = 3`, so the head can move between any two of the three reads.
- The run covers 15,322 states.

**Mutants**
- `TypeOK` (assembler) is broken by writing the 100 ms sleep with `from_secs`.
- `GetBlockReturns` is broken by a loop that never rotates the key.
- `TypeOK` (iterators) is broken by taking the `as u64` cast as the identity.
- `DiffSamplesMatch` is broken by recomputing prev_difficulty at every ancestor (the open questions of spec §9 ask to keep the first-ancestor values).
- `AllSamplesMatch` is broken by reporting difficulty 0 at genesis.
- `BottleYieldsMatch` is broken by preferring the found ancestor to the header itself.
- `Termination` is broken by a walk that forgets `head = prev`.
- `TypeOK` (store) is broken by a bitmap that keeps positions without the u32 cast.
- `BitmapsHaveBodies` is broken by a `delete_block` that forgets the bitmap record.
- `UtxoMatchesStore` is broken by dropping the store guard at the commit, before the UTXO update.
- `ReadHeadHasSums` is broken by an engine whose dropped batch publishes its writes.
- `CommitPublishesWhole` is broken by a `save_head` that writes straight to the store, outside the batch.
- `PublishesAtomically` is broken by a UTXO update that forgets to remove the spent inputs. Dropping the guard before the UTXO update breaks it too.

**Fairness**
- The store: none. Its properties are safety properties, and a batch's holder may stop at any point.
- The iterators: weak fairness on `Next`. `next()` runs on the consumer's thread, blocks on nothing (reads only) and is driven until it returns None. After None the model stops, so deadlock checking is off for those runs (`CHECK_DEADLOCK FALSE`).
- The assembler: weak fairness on its actions. It runs on its own thread (spec §5), and its sleeps end. The writer gets no fairness. Liveness also rests on the environment's failures being finite (`MaxFaults`). No retry loop can return under an environment that fails forever, and the code claims nothing for that case.
- The pool adapter: none. Its properties are safety properties. Deadlock checking is on: once `MaxApplied` blocks are applied, a pool thread can always read again.
- The iterators are not fused: a call after None starts again from `start`. No caller in the repository does that.

## Findings

1. **The bitmap cache goes stale** (`chainstore_bitmap_correspondence`).
   - `build_block_input_bitmap` skips inputs whose commitment is not in the position index (store.rs:332).
   - `get_block_input_bitmap` returns a cached bitmap without checking it (store.rs:353-357), and nothing invalidates it.
   - TLC's counterexample has four steps: open a batch; `save_block` while `c1` is unindexed, which caches the bitmap `{}`; `save_output_pos(c1, 1)`; commit.
   - The truncation `x as u32` (store.rs:334) breaks the same property.

2. **Timespans wrap instead of saturating** (`iterators_timespan`).
   - `saturating_sub` on i64 saturates only at the i64 bounds, and `as u64` then wraps a negative gap (store.rs:482 and 514; store.rs:603-608 for DifficultyIterAll).
   - A header one second older than its parent gets the timespan 2^64 - 1. Spec §4.E/§4.F say it saturates to 0.
3. **BottleIter ignores a matching start once the cap is hit** (`iterators_bottle_cap`).
   - `next()` scans the ancestors before it looks at the header's own policy, and `return None` at `i > limit_search` (store.rs:699-700) ends the call even when the header matches.
   - Spec §4.G scans only when the header does not match, and scenario 6 expects B0 once.
   - The same order also means that, after a non-matching header, the found ancestor's bottles are yielded twice: once for the header and once as the next call's own. `BottleYieldsMatch` holds for both yields, because each is the right one for its call. Spec §4.G does not say whether that repeat is allowed, so no property states it.

4. **No sleep after DuplicateCommitment** (`assembler_dup_sleep`).
   - `get_block` sleeps 100 ms only `if new_key_id.is_some()` (mine_block.rs:122). After a DuplicateCommitment `new_key_id` is None, so the retry is immediate.
   - Spec §4.H step 12 says "retry after 100 ms". The same test also means that any non-wallet error with `key_id = None` retries without any pause.
5. **The scaling of the wrong header** (`iterators_scaling`).
   - The inner walk of `DifficultyIter::next` breaks with `head.pow.secondary_scaling` (store.rs:491 and 501), where `head` is the last header it passed, and reports that value (store.rs:513).
   - Spec §4.E says the scaling is always `header.pow.secondary_scaling`. TLC's counterexample is the chain [cuckatoo, progpow] started from header 2: the walk reaches genesis, and the sample carries header 1's scaling.
   - `DiffSamplesMatch` therefore leaves the scaling out, as it does the timespan.
6. **Three reads of the head** (`assembler_one_parent`, a spec gap).
   - `build_block` reads `head_header()` once (line 146). `chain.difficulty_iter()` and `chain.bottles_iter()` each start from the head current at their call.
   - A block committed in between gives a block whose parent is the old head but whose difficulty or bottles come from the new one. TLC shows a commit between the difficulty and bottles steps.
   - The spec does not say whether the reads must agree.

## What is proved (`ChainStoreProofs.tla`)

All proofs assume only `ConstAssumption`:
- positions are naturals;
- `Inputs` maps hashes to sets of commitments;
- `2^PosBits` is a positive natural;
- `NONE` is not a Boolean;
- `DeleteMayFail` is a Boolean.

**`TypeCorrect`: `Spec => []TypeOK`**
- `TypeOK` is inductive.
- One lemma per kind of outcome: `WriteTypeOK`, `FailTypeOK`, `ReadErrTypeOK`.
- Lemmas on layers: `MergeOK` and `SingleOK`.
- A lemma that the built bitmap is a set of in-range positions: `BuildOK`.

**`BitmapsSafe`: `~DeleteMayFail => (Spec => []BitmapsHaveBodies)`**
- `BitmapsHaveBodies` alone is not inductive. A layer that is not open could hold stale writes that reappear when a batch is opened.
- The inductive invariant is therefore `IInv == TypeOK /\ ClosedLayersEmpty /\ BitmapsHaveBodies`. It was checked by TLC as an invariant before it was proved.
- The step proof has three parts:
  1. A write of `ws` to the innermost layer is `Over(ws, View)` as seen by its holder (`WriteView`, by associativity of `Over`).
  2. `GoodWrites(ws, V)` is enough to keep a view free of orphan bitmaps (`NoOrphanWrite`).
  3. Each handler's writes are good: by key disjointness for the pointer, header, sums and position writes, and by the handler's own shape for `save_block`, `delete_block` and `get_block_input_bitmap`.
- Commit of a child is the old child view seen from the batch. Opening a batch or child lays an empty layer over the view (`NoOrphanEmpty`).

**Left to TLC**
- The violation run.
- Nothing about `DeleteMayFail = TRUE`: no run checks `BitmapsHaveBodies` with it, because a failed best-effort delete then leaves an orphan bitmap, as spec "Delete semantics" allows (store.rs:234-238).

## What is proved (`HeaderChainProofs.tla`)

**`BottleSafe`: `Spec => []BottleYieldsMatch`**, for every chain length and every `LimitSearch`.
- `BottleYieldsMatch` is not inductive. The invariant `BInv` adds:
  - `ScanOK`: during a scan, `head = header - count`, and no header in `head..header-1` has the target policy;
  - the records of the bottles yielded so far (`BottleRec`).
- `NearestFound` proves that the first ancestor found with the policy is the one `SpecBottleSource` names. `YieldMatches` proves that a yield built from it matches.
- `BStep` has one case per `next()` step: the call, each exit of the scan loop (cap, genesis, found), continuing the walk, and the yields.
- `BInv` is conditioned on `kind = "bottle"`, because the other iterators never run in a behaviour that drives `BottleIter`.

**`AllSafe`: `Spec => []AllSamplesMatch`**, for every chain length.
- The invariant `AInv` (for `kind = "all"`) says that after k samples:
  - the samples are the reference ones of the k headers from the start down;
  - between calls, `header` is the k-th of them and `prev` its parent;
  - a call that returned None found `prev` at 0, so k is the start.
- `DiffChainShape` proves that every chain of `DiffChains` has natural timestamps and integer total difficulties. It uses `FS_Interval`, `FS_Subset` and `FS_CardinalityType` for the count of increments. Genesis needs the integer type: its difficulty is `td - 0`.
- `AllCallYields` is the one step that grows the samples.

**`TypeSafe`: `Spec => []TypeOK`**, for every width with `60 < 2^TimeBits`.
- `TypeOK` is not inductive: the ranges of `header` and `prev` depend on the walk's `head`, and the span bound on the types of timestamps, `prev_difficulty` and `prev_timespan`.
- `TInv` adds the chain's shape for the iterator, `pdiff` and `pspan` integers, `head` and `header` headers of the chain during a scan, BottleIter's counter below the cap during a scan, and the outputs as records (`OutRec`).
- `SpanRange` proves that `AsU64` and the 60 s fallback land in `0 .. 2^TimeBits - 1`. `TKeep` reduces each step to the ranges of what it changes, and `AppendOut` handles a returned item.
- There is one lemma per action: `DiffCallT`, `DiffScanT` (with `DiffYieldT`), `AllCallT`, `BottleCallT`, and `BottleScanT` (with `BottleYieldT`).

**Left to TLC:** `DiffSamplesMatch`. Its reference `SpecDiffSamples` is a recursive function. Unfolding it needs the well-founded-induction theorems, which take an operator parameter that the installed provers cannot instantiate.

## What is proved (`PoolAdapterProofs.tla`)

All proofs assume only `AdapterAssumption`:
- `Inputs` and `Outputs` map blocks to sets of commitments;
- `NONE` is neither a Boolean nor a block hash;
- `MaxApplied` is a natural.

It restates the facts of `ChainStore`'s assumption that the proofs need, since an instantiated module's assumption cannot be cited.

**`UtxoSafe`: `Spec => []UtxoMatchesStore`** and **`HeadSumsSafe`: `Spec => []ReadHeadHasSums`**, for every set of blocks, commitments and pool threads.
- Neither property is inductive. The inductive invariant `PInv` is `AdapterTypeOK /\ WriterOK /\ HeadHasSums(db) /\ UtxoOK /\ ReadHeadHasSums`. It was checked by TLC before it was proved.
  - `WriterOK` ties the store lock to the writer's place in `update_db_for_block`. Once `save_head` has succeeded, the batch names the writer's block as head. Once `save_block_sums` has succeeded too, the batch holds that block's sums.
  - `HeadHasSums(db)` says that the committed head has its sums. This is what makes a head handed to a reader keep its sums.
  - `UtxoOK` says that the UTXO set is `UtxoOf(log)`, except between the commit and the UTXO update. There it is the set of the blocks before the writer's.
  - `AdapterTypeOK` says that every record the adapter writes holds a value (`ValLayer`), so a commit never deletes a record.
- `UtxoLast` proves that the UTXO update (`(U \ inputs) \cup outputs`) turns the set of n - 1 blocks into that of n. `UtxoUpToAppend` proves that appending a block leaves the prefix's set alone.
- There is one lemma per writer step and for `chain_head`. The handler steps share `InHandler`, `AfterHandler` and `FailStep`. `CommitStep` covers both the published and the failed commit.

**`CommitWhole`: `Spec => CommitPublishesWhole`** (an action property).
- `DbOnlyAtCommit` proves that no step but `w_commit` changes `db`: handlers write into the batch, and an unwinding writer drops it.
- `CommitWholeStep` reads the head and the sums out of the batch that `WriterOK` describes.

**`Publishes`: `Spec => PublishesAtomically`.** The adapter implements `BlockPublish` under the mapping described with the module.
- The proof needs one more invariant, `HeadIsTip`, checked by TLC first (487 states): the committed head is the last block of `log` and has its header, and once `save_block_header` has succeeded the batch holds the writer's header. `RInv == PInv /\ HeadIsTip` is inductive (`TipStep`, one lemma per writer step; `TipKeep`, `TipSame` and `TipGrow` are shared).
- `PubStep` maps each step:
  - `lock_store` is `Acquire`;
  - the handler steps, the commit and a failed step are stutters (`BusyStutter`, `PubCommit`): the commit appends to `log`, but `published` still leaves that block out;
  - `w_utxo` is `Publish(wblk)`, because `UtxoOK` says the writer's block is the last of `log`;
  - `w_unwind` is `Abort`;
  - `chain_head` is `Read`, because the lock is free only when the writer is idle or dead, and `HeadIsTip` makes `head_header(db)` the tip.

**Left to TLC:** the deadlock check, which shows that some step is always enabled (ENABLED is out of TLAPS's reach).

## What is proved (`MineBlockProofs.tla`)

**`TypeCorrect`: `Spec => []TypeOK`** for all `MaxFaults \in Nat` and `MaxTip \in Nat \ {0}`.
- `TypeOK` includes that each head the assembler read is at most the current head.
- It is inductive as it stands: the writer only increases `tip`, and every read copies `tip`.
- Lemma `FailTypeOK` covers the shared failure step, and `TypeStep` is the inductive step.

## Not modelled (yet)

- **Iterators:** `DiffSamplesMatch` (DifficultyIter) is only model-checked. `SpecDiffSamples` is recursive, and its result for all inputs is out of TLAPS's reach. `TypeOK`, `AllSamplesMatch` and `BottleYieldsMatch` are proved.
- **Liveness** (`Termination`, `GetBlockReturns`) and deadlock freedom are only model-checked. TLAPS does not prove liveness under fairness.
- **Not modelled at all:**
  - the TUI status view (presentation only; spec §1 puts it out of scope);
  - the keychain (cryptography);
  - `api/lib.rs` (declarations only);
  - the coinbase maturity test (a caller of the chain, whose pipeline is not in the repository);
  - serialization;
  - the KV engine's internals beyond its batch contract.

## Plan

1. `ChainStore` (done): the store, its batches and the bitmap cache, with proofs.
2. `HeaderChain` (done): the three iterators, checked against reference definitions, with violation runs for the cap and the timespan cast.
3. `MineBlock` (done): the `get_block` retry loop and `build_block`'s steps, interleaved with a chain writer.
4. `PoolAdapter` (done): the pool test adapter composed with the store, shown to implement `BlockPublish`.
5. Next: a multi-block writer in `PoolAdapter` that reads the parent's sums, so that the kernel-sum chain itself can be checked.
