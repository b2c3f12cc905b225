----------------------------- MODULE HeaderChain -----------------------------
(***************************************************************************)
(* The three header-chain cursors of chain/src/store.rs: DifficultyIter    *)
(* (samples filtered by PoW type), DifficultyIterAll (every ancestor) and  *)
(* BottleIter (the bottles of the nearest header of a policy).             *)
(*                                                                         *)
(* A header chain is a sequence of headers: header i's prev_hash names     *)
(* header i - 1 and header 1 is genesis, whose previous header is not in   *)
(* the store.  Index 0 stands for a hash whose header is not stored (a     *)
(* failed get_block_header: the .ok() of the code).  Headers are never     *)
(* mutated or removed, so a walk reads the same chain whether it goes      *)
(* through the store or a batch, and the chain is fixed in each behaviour. *)
(*                                                                         *)
(* One consumer calls next() until it returns None.  The backward walk of  *)
(* DifficultyIter::next and BottleIter::next is a loop; each of its        *)
(* iterations is one step here.                                            *)
(***************************************************************************)
EXTENDS Integers, Sequences, FiniteSetsExt

CONSTANTS
    PowTypes,   \* PoWType of a header's proof
    Policies,   \* header.policy values
    Target,     \* the policy BottleIter is built for
    Times,      \* header timestamps (i64 seconds, non-negative: `as u64` keeps them)
    Incs,       \* total_difficulty increments between consecutive headers
    MaxLen,     \* bound: headers in a chain
    LimitSearch,\* BottleIter's limit_search (200 in the code)
    TimeBits,   \* width of the u64 the timespan is cast to
    Kinds       \* the iterators to explore

ASSUME HeaderChainAssumption ==
    /\ Target \in Policies
    /\ Times \subseteq Nat /\ Incs \subseteq Nat \ {0}
    /\ MaxLen \in Nat \ {0} /\ LimitSearch \in Nat \ {0}
    /\ TimeBits \in Nat \ {0} /\ 60 < 2^TimeBits
    /\ Kinds \subseteq {"diff", "all", "bottle"}

\* A header: PoW type, timestamp, total difficulty, secondary scaling,
\* policy and bottles.  Scaling and bottles are the header's own index, so
\* that a value read from the wrong header shows.
Header(pow, ts, td, i, pol) ==
    [pow |-> pow, ts |-> ts, td |-> td, scaling |-> i, policy |-> pol, bottles |-> i]

\* The chains TLC explores for each iterator: the difficulty cursors only
\* read pow, ts and td; BottleIter only reads policy and bottles.
DiffChains ==
    UNION {{[i \in 1 .. n |->
               Header(pows[i], tss[i],
                      i + Cardinality({j \in 1 .. i : incs[j] # 1}), i,
                      Target)] :
               pows \in [1 .. n -> PowTypes], tss \in [1 .. n -> Times],
               incs \in [1 .. n -> Incs]} : n \in 1 .. MaxLen}

BottleChains ==
    UNION {{[i \in 1 .. n |-> Header(CHOOSE p \in PowTypes : TRUE, 0, i, i, pols[i])] :
               pols \in [1 .. n -> Policies]} : n \in 1 .. MaxLen}

\* Mutant: the cast taken as the identity.
AsU64_unwrapped(x) == x

\* `as u64` of an i64: two's complement, so a negative timespan wraps to a
\* huge value; the u64 is narrowed to TimeBits bits.
AsU64(x) == x % (2^TimeBits)

VARIABLES
    kind,    \* which iterator is being driven
    chain,   \* the header chain
    start,   \* the start hash (0: not stored)
    header,  \* self.header (0: None)
    prev,    \* self.prev_header (0: None)
    pc,      \* "idle": between calls, "scan": inside next(), "done": returned None
    head,    \* the walk's `head`
    first,   \* DifficultyIter: first_time_flag
    pdiff,   \* DifficultyIter: prev_difficulty
    pspan,   \* DifficultyIter: prev_timespan (i64)
    count,   \* BottleIter: the loop counter i
    out      \* the items next() returned, in order

vars == <<kind, chain, start, header, prev, pc, head, first, pdiff, pspan, count, out>>
walk == <<head, first, pdiff, pspan, count>>

\* The header a call of next() works on: the start on the first call, the
\* read-ahead prev_header afterwards.
CallHeader == IF header = 0 THEN start ELSE prev

\* get_previous_header: the parent, or None (0) at genesis.
Parent(i) == i - 1

\* A HeaderInfo, with the index of the header it was made from.
Info(h, diff, scaling, span) ==
    [ts |-> chain[h].ts, diff |-> diff, scaling |-> scaling, span |-> span, src |-> h]

---------------------------------------------------------------------------
(* DifficultyIter::next (store.rs 436-521)                                 *)

diff_call ==
    /\ kind = "diff" /\ pc = "idle"
    /\ header' = CallHeader
    /\ IF header' = 0
         THEN pc' = "done" /\ UNCHANGED <<prev, walk, out>>
         ELSE /\ pc' = "scan" /\ head' = header'
              /\ pdiff' = chain[header'].td /\ first' = TRUE /\ pspan' = 60
              /\ UNCHANGED <<prev, count, out>>
    /\ UNCHANGED <<kind, chain, start>>

\* The loop breaks: the read-ahead header becomes `next` and the item is
\* reported with the scaling of `head`, the header whose parent it read.
diff_yield(next, dd, ss) ==
    /\ prev' = next /\ pc' = "idle"
    /\ out' = Append(out, Info(header, dd, chain[head].scaling, AsU64(ss)))
    /\ UNCHANGED <<head, first, pdiff, pspan>>

\* Mutant: prev_difficulty and prev_timespan recomputed at every ancestor.
diff_scan_every_ancestor ==
    /\ kind = "diff" /\ pc = "scan"
    /\ LET p == Parent(head)
           d == chain[header].td - chain[p].td
           s == chain[header].ts - chain[p].ts
       IN IF p = 0 THEN diff_yield(0, pdiff, pspan)
          ELSE IF chain[p].pow = chain[header].pow THEN diff_yield(p, d, s)
          ELSE head' = p /\ first' = FALSE /\ pdiff' = d /\ pspan' = s /\ UNCHANGED <<prev, pc, out>>
    /\ UNCHANGED <<kind, chain, start, header, count>>

\* Mutant: the walk forgets `head = prev`.
diff_scan_stuck ==
    /\ kind = "diff" /\ pc = "scan"
    /\ LET p == Parent(head)
           d == IF first THEN chain[header].td - chain[p].td ELSE pdiff
           s == IF first THEN chain[header].ts - chain[p].ts ELSE pspan
       IN IF p = 0 THEN diff_yield(0, pdiff, pspan)
          ELSE IF chain[p].pow = chain[header].pow THEN diff_yield(p, d, s)
          ELSE first' = FALSE /\ pdiff' = d /\ pspan' = s /\ UNCHANGED <<head, prev, pc, out>>
    /\ UNCHANGED <<kind, chain, start, header, count>>

\* One iteration of the inner loop: read the parent of `head`; on the first
\* ancestor, fix prev_difficulty and prev_timespan from the immediate
\* parent; break at genesis or on an ancestor of the header's PoW type.
diff_scan ==
    /\ kind = "diff" /\ pc = "scan"
    /\ LET p == Parent(head)
           d == IF first THEN chain[header].td - chain[p].td ELSE pdiff
           s == IF first THEN chain[header].ts - chain[p].ts ELSE pspan
       IN IF p = 0 THEN diff_yield(0, pdiff, pspan)
          ELSE IF chain[p].pow = chain[header].pow THEN diff_yield(p, d, s)
          ELSE head' = p /\ first' = FALSE /\ pdiff' = d /\ pspan' = s /\ UNCHANGED <<prev, pc, out>>
    /\ UNCHANGED <<kind, chain, start, header, count>>

---------------------------------------------------------------------------
(* DifficultyIterAll::next (store.rs 568-621)                              *)

\* Mutant: the difficulty of genesis reported as 0.
all_call_genesis_zero ==
    /\ kind = "all" /\ pc = "idle"
    /\ header' = CallHeader
    /\ IF header' = 0
         THEN pc' = "done" /\ UNCHANGED <<prev, out>>
         ELSE LET h == header'
                  p == Parent(h)
                  prevDiff == IF p # 0 THEN chain[p].td ELSE chain[h].td
                  span == IF p # 0 THEN AsU64(chain[h].ts - chain[p].ts) ELSE 60
              IN /\ prev' = p
                 /\ out' = Append(out, Info(h, chain[h].td - prevDiff, chain[h].scaling, span))
                 /\ UNCHANGED pc
    /\ UNCHANGED <<kind, chain, start, walk>>

\* Read the immediate parent ahead; the difficulty and timespan are taken
\* against it, and against total difficulty 0 and 60 s at genesis.
all_call ==
    /\ kind = "all" /\ pc = "idle"
    /\ header' = CallHeader
    /\ IF header' = 0
         THEN pc' = "done" /\ UNCHANGED <<prev, out>>
         ELSE LET h == header'
                  p == Parent(h)
                  prevDiff == IF p # 0 THEN chain[p].td ELSE 0
                  span == IF p # 0 THEN AsU64(chain[h].ts - chain[p].ts) ELSE 60
              IN /\ prev' = p
                 /\ out' = Append(out, Info(h, chain[h].td - prevDiff, chain[h].scaling, span))
                 /\ UNCHANGED pc
    /\ UNCHANGED <<kind, chain, start, walk>>

---------------------------------------------------------------------------
(* BottleIter::next (store.rs 671-746)                                     *)

bottle_call ==
    /\ kind = "bottle" /\ pc = "idle"
    /\ header' = CallHeader
    /\ IF header' = 0
         THEN pc' = "done" /\ UNCHANGED <<prev, head, count, out>>
         ELSE pc' = "scan" /\ head' = header' /\ count' = 0 /\ UNCHANGED <<prev, out>>
    /\ UNCHANGED <<kind, chain, start, first, pdiff, pspan>>

\* A yielded Policy, with the index of the header of that call.
Bottles(from) == [bottles |-> chain[from].bottles, src |-> header]

\* Mutant: the found ancestor is preferred to the header itself.
bottle_yield_found_first(found) ==
    /\ prev' = found
    /\ IF found # 0
         THEN out' = Append(out, Bottles(found)) /\ pc' = "idle"
         ELSE IF chain[header].policy = Target
           THEN out' = Append(out, Bottles(header)) /\ pc' = "idle"
           ELSE pc' = "done" /\ UNCHANGED out
    /\ UNCHANGED head

\* The search loop breaks with `found` (0: genesis reached): yield the
\* header's bottles if the header has the policy, else those of `found`.
bottle_yield(found) ==
    /\ prev' = found
    /\ IF chain[header].policy = Target
         THEN out' = Append(out, Bottles(header)) /\ pc' = "idle"
         ELSE IF found # 0
           THEN out' = Append(out, Bottles(found)) /\ pc' = "idle"
           ELSE pc' = "done" /\ UNCHANGED out
    /\ UNCHANGED head

\* One iteration of the search loop: past limit_search ancestors the whole
\* call returns None; otherwise break on a header of the policy or at
\* genesis.
bottle_scan ==
    /\ kind = "bottle" /\ pc = "scan"
    /\ count' = count + 1
    /\ LET p == Parent(head)
       IN IF count + 1 > LimitSearch
            THEN pc' = "done" /\ UNCHANGED <<prev, head, out>>
            ELSE IF p = 0 THEN bottle_yield(0)
            ELSE IF chain[p].policy = Target THEN bottle_yield(p)
            ELSE head' = p /\ UNCHANGED <<prev, pc, out>>
    /\ UNCHANGED <<kind, chain, start, header, first, pdiff, pspan>>

---------------------------------------------------------------------------
Init ==
    /\ kind \in Kinds
    /\ chain \in (IF kind = "bottle" THEN BottleChains ELSE DiffChains)
    /\ start \in 0 .. Len(chain)
    /\ header = 0 /\ prev = 0 /\ pc = "idle"
    /\ head = 0 /\ first = FALSE /\ pdiff = 0 /\ pspan = 0 /\ count = 0
    /\ out = <<>>

\* The consumer calls next() until it returns None, and then stops.
Next == diff_call \/ diff_scan \/ all_call \/ bottle_call \/ bottle_scan

\* next() runs on the consumer's thread without blocking.
Spec == Init /\ [][Next]_vars /\ WF_vars(Next)

---------------------------------------------------------------------------
(* Reference definitions, from the spec (4.E, 4.F, 4.G).                    *)

\* The nearest ancestor of header i with its PoW type (0: none).
SameTypeAncestor(c, i) ==
    LET S == {j \in 1 .. i - 1 : c[j].pow = c[i].pow} IN IF S = {} THEN 0 ELSE Max(S)

\* The timespan to the immediate predecessor, saturating to 0; 60 at genesis.
SpecSpan(c, h) == IF h > 1 THEN Max({c[h].ts - c[h - 1].ts, 0}) ELSE 60

\* A sample of header h: difficulty against the immediate predecessor.
SpecInfo(c, h) ==
    [ts |-> c[h].ts, diff |-> IF h > 1 THEN c[h].td - c[h - 1].td ELSE c[h].td,
     scaling |-> c[h].scaling, span |-> SpecSpan(c, h), src |-> h]

\* 4.E: the start, then each nearest ancestor of the same PoW type.
SpecDiffSamples(c, s) ==
    LET f[i \in 0 .. Len(c)] ==
          IF i = 0 THEN <<>> ELSE <<SpecInfo(c, i)>> \o f[SameTypeAncestor(c, i)]
    IN f[s]

\* 4.F: the start, then every ancestor down to genesis.
SpecAllSamples(c, s) == [i \in 1 .. s |-> SpecInfo(c, s - i + 1)]

\* 4.G: the header itself if it has the policy, else the nearest of its
\* LimitSearch ancestors that has it (0: none).
SpecBottleSource(c, h) ==
    LET S == {j \in 1 .. h - 1 : h - j <= LimitSearch /\ c[j].policy = Target}
    IN IF c[h].policy = Target THEN h ELSE IF S = {} THEN 0 ELSE Max(S)

\* The fields of a sample the properties compare.  DiffSamplesMatch leaves
\* out the scaling and the timespan of a DifficultyIter sample: the code
\* departs from the spec in both, and DiffScalingIsHeaders and
\* TimespansSaturate state them apart.
DiffCore(r) == [ts |-> r.ts, diff |-> r.diff, src |-> r.src]
AllCore(r) == [ts |-> r.ts, diff |-> r.diff, scaling |-> r.scaling, src |-> r.src]

---------------------------------------------------------------------------
(* Properties                                                              *)

\* Types, and the reported timespan is a u64 (the narrowed width here).
TypeOK ==
    /\ kind \in Kinds /\ start \in 0 .. Len(chain)
    /\ header \in 0 .. Len(chain) /\ prev \in 0 .. Len(chain)
    /\ pc \in {"idle", "scan", "done"} /\ count \in 0 .. LimitSearch + 1
    /\ \A i \in 1 .. Len(out) :
          kind # "bottle" => out[i].span \in 0 .. 2^TimeBits - 1

\* DifficultyIter (spec 4.E and the filter law of 8): the samples come from
\* the start and then from its nearest same-PoW-type ancestors in order,
\* each with the difficulty against its immediate predecessor, and the walk
\* ends at genesis -- through the read-ahead prev_header, the
\* first_time_flag of the inner loop and the genesis fallback.
DiffSamplesMatch ==
    kind = "diff" /\ pc = "done" =>
        LET ref == SpecDiffSamples(chain, start)
        IN [i \in 1 .. Len(out) |-> DiffCore(out[i])] = [i \in 1 .. Len(ref) |-> DiffCore(ref[i])]

\* DifficultyIterAll (spec 4.F): one sample per header from the start down
\* to genesis, each against its immediate predecessor, with its own scaling.
AllSamplesMatch ==
    kind = "all" /\ pc = "done" =>
        LET ref == SpecAllSamples(chain, start)
        IN [i \in 1 .. Len(out) |-> AllCore(out[i])] = [i \in 1 .. Len(ref) |-> AllCore(ref[i])]

\* BottleIter (spec 4.G): each call yields the bottles of its header if the
\* header has the policy, else those of the nearest ancestor within
\* limit_search that has it.
BottleYieldsMatch ==
    kind = "bottle" =>
        \A i \in 1 .. Len(out) :
            /\ SpecBottleSource(chain, out[i].src) # 0
            /\ out[i].bottles = chain[SpecBottleSource(chain, out[i].src)].bottles

\* Spec 4.E: "the scaling field is always header.pow.secondary_scaling",
\* the scaling of the header the sample is for -- also when the walk of
\* DifficultyIter::next passes headers of the other PoW type before it
\* finds the read-ahead prev_header.
DiffScalingIsHeaders ==
    kind = "diff" => \A i \in 1 .. Len(out) : out[i].scaling = chain[out[i].src].scaling

\* Every iterator, driven until it returns None, returns None (spec 8,
\* "Iterator termination"): no inner walk loops forever.
Termination == <>(pc = "done")

\* Spec 4.E / 4.F: the timespan of a sample is the gap to the immediate
\* predecessor, saturating to 0.
TimespansSaturate ==
    kind \in {"diff", "all"} => \A i \in 1 .. Len(out) : out[i].span = SpecSpan(chain, out[i].src)

\* Spec 8, scenario 6: started from a header with the policy, BottleIter
\* yields that header's bottles first, however far back the previous
\* header of the policy is.
BottleStartYield ==
    kind = "bottle" /\ start # 0 /\ chain[start].policy = Target /\ pc = "done" =>
        Len(out) >= 1 /\ out[1].bottles = chain[start].bottles

=============================================================================
