-------------------------- MODULE HeaderChainProofs --------------------------
(***************************************************************************)
(* Proofs about BottleIter (HeaderChain), for every chain length and every *)
(* limit_search: what it yields is the bottles of the header of the call   *)
(* when that header has the policy, else those of the nearest ancestor     *)
(* within limit_search that has it.                                        *)
(***************************************************************************)
EXTENDS HeaderChain, FiniteSetTheorems, TLAPS

USE HeaderChainAssumption

\* The records BottleIter yields.
BottleRec == [bottles : Nat, src : Nat]

\* The chain is a sequence of headers whose bottles are numbers.
ChainOK ==
    /\ Len(chain) \in 1 .. MaxLen /\ DOMAIN chain = 1 .. Len(chain)
    /\ \A j \in 1 .. Len(chain) : chain[j].bottles \in Nat

\* A running BottleIter::next: `hd` is `cnt` headers below the header `h`
\* of the call, and none of the ancestors passed so far has the policy.
ScanShape(c, h, cnt, hd) ==
    /\ h \in 1 .. Len(c)
    /\ cnt \in 0 .. LimitSearch
    /\ hd = h - cnt /\ hd >= 1
    /\ \A j \in hd .. h - 1 : c[j].policy # Target

ScanOK == kind = "bottle" /\ pc = "scan" => ScanShape(chain, header, count, head)

\* The inductive invariant behind BottleYieldsMatch (the other iterators
\* never run in a behaviour that drives BottleIter).
BInv ==
    kind = "bottle" =>
        /\ ChainOK
        /\ start \in 0 .. Len(chain) /\ header \in 0 .. Len(chain) /\ prev \in 0 .. Len(chain)
        /\ pc \in {"idle", "scan", "done"}
        /\ out \in Seq(BottleRec)
        /\ \A i \in 1 .. Len(out) : out[i].src \in 1 .. Len(chain)
        /\ ScanOK
        /\ BottleYieldsMatch

---------------------------------------------------------------------------
\* The rows of a header chain TLC explores.
ChainShape(c) ==
    \E m \in 1 .. MaxLen : DOMAIN c = 1 .. m /\ \A j \in 1 .. m : c[j].bottles = j

\* Every chain BottleIter is started on is a non-empty sequence of at most
\* MaxLen headers whose bottles are their indexes.
LEMMA BottleChainShape ==
    ASSUME NEW c \in BottleChains
    PROVE  ChainShape(c)
<1>1. PICK m \in 1 .. MaxLen : \E pols \in [1 .. m -> Policies] :
         c = [i \in 1 .. m |-> Header(CHOOSE p \in PowTypes : TRUE, 0, i, i, pols[i])]
  BY DEF BottleChains
<1>2. PICK pols \in [1 .. m -> Policies] :
         c = [i \in 1 .. m |-> Header(CHOOSE p \in PowTypes : TRUE, 0, i, i, pols[i])]
  BY <1>1
<1> QED BY <1>2 DEF ChainShape, Header

\* Every chain BottleIter is started on is well formed.
LEMMA InitChain ==
    ASSUME Init, kind = "bottle"
    PROVE  ChainOK
<1>1. ChainShape(chain)
  BY BottleChainShape DEF Init
<1>2. PICK n \in 1 .. MaxLen : DOMAIN chain = 1 .. n /\ \A j \in 1 .. n : chain[j].bottles = j
  BY <1>1 DEF ChainShape
<1>3. Len(chain) = n
  BY <1>2
<1> QED BY <1>2, <1>3 DEF ChainOK

\* The initial state satisfies BInv.
LEMMA InitBInv ==
    ASSUME Init
    PROVE  BInv
<1> SUFFICES ASSUME kind = "bottle" PROVE BInv!2
  BY DEF BInv
<1>1. ChainOK
  BY InitChain
<1>2. out = << >> /\ pc = "idle" /\ header = 0 /\ prev = 0 /\ start \in 0 .. Len(chain)
  BY DEF Init
<1> QED BY <1>1, <1>2 DEF ScanOK, BottleYieldsMatch, BottleRec

\* The search loop breaks at ancestor p = head - 1, which has the policy,
\* after passing count ancestors that do not: p is the nearest ancestor of
\* the header with the policy, and it is within limit_search.
LEMMA NearestFound ==
    ASSUME ChainOK, NEW h \in 1 .. Len(chain), NEW cnt \in 0 .. LimitSearch - 1,
           h - cnt - 1 >= 1,
           chain[h - cnt - 1].policy = Target,
           \A j \in h - cnt .. h - 1 : chain[j].policy # Target,
           chain[h].policy # Target
    PROVE  SpecBottleSource(chain, h) = h - cnt - 1
<1> DEFINE p == h - cnt - 1
           S == {j \in 1 .. h - 1 : h - j <= LimitSearch /\ chain[j].policy = Target}
<1>1. p \in S
  OBVIOUS
<1>2. \A j \in S : j <= p
  OBVIOUS
<1>3. Max(S) = p
  <2>1. \A y \in S : p >= y
    BY <1>2
  <2>2. \A x \in S : (\A y \in S : x >= y) => x = p
    BY <1>1, <1>2
  <2> QED BY <1>1, <2>1, <2>2 DEF Max
<1> QED BY <1>1, <1>3 DEF SpecBottleSource

\* A yield of the bottles of the nearest header of the policy keeps the
\* yields matching the reference.
LEMMA YieldMatches ==
    ASSUME BInv, kind = "bottle", kind' = kind, chain' = chain,
           header \in 1 .. Len(chain), header' = header,
           NEW x \in 1 .. Len(chain), SpecBottleSource(chain, header) = x,
           out' = Append(out, Bottles(x))
    PROVE  /\ out' \in Seq(BottleRec)
           /\ \A i \in 1 .. Len(out') : out'[i].src \in 1 .. Len(chain')
           /\ BottleYieldsMatch'
<1>1. ChainOK /\ out \in Seq(BottleRec) /\ BottleYieldsMatch
      /\ \A i \in 1 .. Len(out) : out[i].src \in 1 .. Len(chain)
  BY DEF BInv
<1>2. Bottles(x) \in BottleRec /\ Bottles(x).src = header /\ Bottles(x).bottles = chain[x].bottles
  BY <1>1 DEF Bottles, BottleRec, ChainOK
<1>3. /\ out' \in Seq(BottleRec) /\ Len(out') = Len(out) + 1
      /\ \A i \in 1 .. Len(out) : out'[i] = out[i]
      /\ out'[Len(out) + 1] = Bottles(x)
  BY <1>1, <1>2
<1>4. \A i \in 1 .. Len(out') : out'[i].src \in 1 .. Len(chain')
  BY <1>1, <1>2, <1>3
<1>5. BottleYieldsMatch'
  <2> SUFFICES ASSUME NEW i \in 1 .. Len(out')
               PROVE  /\ SpecBottleSource(chain, out'[i].src) # 0
                      /\ out'[i].bottles = chain[SpecBottleSource(chain, out'[i].src)].bottles
    BY DEF BottleYieldsMatch
  <2>1. CASE i \in 1 .. Len(out)
    BY <1>1, <1>3, <2>1 DEF BottleYieldsMatch
  <2>2. CASE i = Len(out) + 1
    BY <1>2, <1>3, <2>2
  <2> QED BY <1>3, <2>1, <2>2
<1> QED BY <1>3, <1>4, <1>5

\* Every step keeps BInv. (The arithmetic is done on unprimed terms and
\* carried over to the next state by equalities only.)
LEMMA BStep ==
    ASSUME BInv, [Next]_vars
    PROVE  BInv'
<1> SUFFICES ASSUME kind' = "bottle"
             PROVE  /\ ChainOK'
                    /\ start' \in 0 .. Len(chain') /\ header' \in 0 .. Len(chain')
                    /\ prev' \in 0 .. Len(chain')
                    /\ pc' \in {"idle", "scan", "done"}
                    /\ out' \in Seq(BottleRec)
                    /\ \A i \in 1 .. Len(out') : out'[i].src \in 1 .. Len(chain')
                    /\ ScanOK'
                    /\ BottleYieldsMatch'
  BY DEF BInv
<1>0. kind = "bottle" /\ kind' = kind /\ chain' = chain
  BY DEF Next, vars, diff_call, diff_scan, all_call, bottle_call, bottle_scan
<1>1. /\ ChainOK /\ start \in 0 .. Len(chain) /\ header \in 0 .. Len(chain)
      /\ prev \in 0 .. Len(chain) /\ pc \in {"idle", "scan", "done"}
      /\ out \in Seq(BottleRec) /\ \A i \in 1 .. Len(out) : out[i].src \in 1 .. Len(chain)
      /\ ScanOK /\ BottleYieldsMatch
  BY <1>0 DEF BInv
<1>2. ChainOK' /\ start' = start
  BY <1>0, <1>1 DEF Next, vars, diff_call, diff_scan, all_call, bottle_call, bottle_scan, ChainOK
\* Where out and prev are left alone, only ScanOK' and the ranges remain.
<1>3. ASSUME out' = out, prev' = prev, header' \in 0 .. Len(chain),
             pc' \in {"idle", "scan", "done"}, ScanOK'
      PROVE  BInv!2'
  BY <1>0, <1>1, <1>2, <1>3, Zenon DEF BottleYieldsMatch
<1>4. CASE bottle_call
  <2>1. header' = CallHeader /\ CallHeader \in 0 .. Len(chain)
    BY <1>1, <1>4 DEF bottle_call, CallHeader
  <2>2. CASE CallHeader = 0
    <3>1. pc' = "done" /\ prev' = prev /\ out' = out
      BY <1>4, <2>1, <2>2 DEF bottle_call
    <3>2. ScanOK'
      BY <3>1 DEF ScanOK
    <3> QED BY <1>3, <2>1, <3>1, <3>2 DEF BInv
  <2>3. CASE CallHeader # 0
    <3>1. pc' = "scan" /\ head' = CallHeader /\ count' = 0 /\ prev' = prev /\ out' = out
      BY <1>4, <2>1, <2>3 DEF bottle_call
    <3>2. ScanShape(chain, CallHeader, 0, CallHeader)
      BY <1>1, <2>1, <2>3 DEF ScanShape, ChainOK
    <3>3. ScanOK'
      BY <1>0, <2>1, <3>1, <3>2, Zenon DEF ScanOK
    <3> QED BY <1>3, <2>1, <3>1, <3>3 DEF BInv
  <2> QED BY <2>2, <2>3
<1>5. CASE bottle_scan
  <2>0. pc = "scan" /\ count' = count + 1 /\ header' = header
    BY <1>5 DEF bottle_scan
  <2>1. /\ header \in 1 .. Len(chain) /\ count \in 0 .. LimitSearch
        /\ head = header - count /\ head >= 1
        /\ \A j \in head .. header - 1 : chain[j].policy # Target
    BY <1>0, <1>1, <2>0 DEF ScanOK, ScanShape
  \* A yield of the bottles of header x, the nearest header of the policy.
  <2>2. ASSUME NEW x \in 1 .. Len(chain), SpecBottleSource(chain, header) = x,
               out' = Append(out, Bottles(x)), pc' = "idle", prev' \in 0 .. Len(chain)
        PROVE  BInv!2'
    <3>1. /\ out' \in Seq(BottleRec)
          /\ \A i \in 1 .. Len(out') : out'[i].src \in 1 .. Len(chain')
          /\ BottleYieldsMatch'
      BY <1>0, <1>1, <2>0, <2>1, <2>2, YieldMatches
    <3>2. ScanOK'
      BY <2>2 DEF ScanOK
    <3> QED BY <1>0, <1>1, <1>2, <2>0, <2>2, <3>1, <3>2, Zenon DEF BInv
  <2>3. CASE count + 1 > LimitSearch
    <3>1. pc' = "done" /\ prev' = prev /\ out' = out
      BY <1>5, <2>3 DEF bottle_scan
    <3>2. ScanOK'
      BY <3>1 DEF ScanOK
    <3> QED BY <1>1, <1>3, <2>0, <3>1, <3>2 DEF BInv
  <2>4. CASE count + 1 <= LimitSearch /\ head - 1 = 0
    <3>1. bottle_yield(0)
      BY <1>5, <2>4 DEF bottle_scan, Parent
    <3>2. CASE chain[header].policy = Target
      <4>1. SpecBottleSource(chain, header) = header
        BY <3>2 DEF SpecBottleSource
      <4>2. out' = Append(out, Bottles(header)) /\ pc' = "idle" /\ prev' = 0
        BY <3>1, <3>2 DEF bottle_yield
      <4>3. 0 \in 0 .. Len(chain)
        BY <1>1 DEF ChainOK
      <4> QED BY <2>1, <2>2, <4>1, <4>2, <4>3 DEF BInv
    <3>3. CASE chain[header].policy # Target
      <4>1. pc' = "done" /\ out' = out /\ prev' = 0
        BY <3>1, <3>3 DEF bottle_yield
      <4>2. 0 \in 0 .. Len(chain) /\ header \in 0 .. Len(chain)
        BY <1>1 DEF ChainOK
      <4>3. ScanOK'
        BY <4>1 DEF ScanOK
      <4> QED BY <1>1, <1>2, <1>0, <2>0, <4>1, <4>2, <4>3, Zenon DEF BInv, BottleYieldsMatch
    <3> QED BY <3>2, <3>3
  <2>5. CASE count + 1 <= LimitSearch /\ head - 1 # 0 /\ chain[head - 1].policy = Target
    <3>1. bottle_yield(head - 1)
      BY <1>5, <2>5 DEF bottle_scan, Parent
    <3>2. head - 1 \in 1 .. Len(chain)
      BY <1>1, <2>1, <2>5 DEF ChainOK
    <3>3. CASE chain[header].policy = Target
      <4>1. SpecBottleSource(chain, header) = header
        BY <3>3 DEF SpecBottleSource
      <4>2. out' = Append(out, Bottles(header)) /\ pc' = "idle" /\ prev' = head - 1
        BY <3>1, <3>3 DEF bottle_yield
      <4> QED BY <2>1, <2>2, <3>2, <4>1, <4>2 DEF BInv
    <3>4. CASE chain[header].policy # Target
      <4>0. /\ count \in 0 .. LimitSearch - 1 /\ header - count - 1 >= 1
            /\ chain[header - count - 1].policy = Target
            /\ \A j \in header - count .. header - 1 : chain[j].policy # Target
        BY <2>1, <2>5
      <4>1. SpecBottleSource(chain, header) = head - 1
        <5>1. SpecBottleSource(chain, header) = header - count - 1
          BY <1>1, <2>1, <3>4, <4>0, NearestFound
        <5> QED BY <2>1, <5>1
      <4>2. out' = Append(out, Bottles(head - 1)) /\ pc' = "idle" /\ prev' = head - 1
        BY <3>1, <3>4, <2>5 DEF bottle_yield
      <4> QED BY <2>2, <3>2, <4>1, <4>2 DEF BInv
    <3> QED BY <3>3, <3>4
  <2>6. CASE count + 1 <= LimitSearch /\ head - 1 # 0 /\ chain[head - 1].policy # Target
    <3>1. head' = head - 1 /\ prev' = prev /\ pc' = pc /\ out' = out
      BY <1>5, <2>6 DEF bottle_scan, Parent
    <3>2. ScanShape(chain, header, count + 1, head - 1)
      BY <2>1, <2>6 DEF ScanShape
    <3>3. ScanOK'
      BY <1>0, <2>0, <3>1, <3>2, Zenon DEF ScanOK
    <3> QED BY <1>1, <1>3, <2>0, <3>1, <3>3 DEF BInv
  <2> QED BY <2>1, <2>3, <2>4, <2>5, <2>6
<1>6. CASE UNCHANGED vars
  <2>1. ScanOK'
    BY <1>0, <1>1, <1>6, Zenon DEF vars, ScanOK
  <2> QED BY <1>1, <1>3, <1>6, <2>1 DEF vars, BInv
<1> QED
  <2>1. ~diff_call /\ ~diff_scan /\ ~all_call
    BY <1>0 DEF diff_call, diff_scan, all_call
  <2> QED BY <1>4, <1>5, <1>6, <2>1 DEF Next


\* BottleIter::next (store.rs 671-746) yields, on every call, the bottles of
\* the header of the call when it has the policy, else those of its nearest
\* ancestor of the policy within limit_search headers; it never yields a
\* Policy when no such header exists. Proved for every chain length,
\* limit_search and set of policies.
THEOREM BottleSafe == Spec => []BottleYieldsMatch
<1>1. Init => BInv
  BY InitBInv
<1>2. BInv /\ [Next]_vars => BInv'
  BY BStep
<1>3. BInv => BottleYieldsMatch
  BY DEF BInv, BottleYieldsMatch
<1> QED BY <1>1, <1>2, <1>3, PTL DEF Spec

---------------------------------------------------------------------------
(* DifficultyIterAll                                                       *)

\* A chain the difficulty cursors walk: timestamps are naturals, total
\* difficulties and scalings integers.
DiffChainOK ==
    /\ Len(chain) \in 1 .. MaxLen /\ DOMAIN chain = 1 .. Len(chain)
    /\ \A j \in 1 .. Len(chain) :
          chain[j].ts \in Nat /\ chain[j].td \in Int /\ chain[j].scaling \in Int

\* The timespans the difficulty cursors can report: a u64 of TimeBits bits.
SpanVals == 0 .. 2^TimeBits - 1

\* The HeaderInfo records the difficulty cursors return.
InfoRec == [ts : Int, diff : Int, scaling : Int, span : SpanVals, src : Int]

\* The inductive invariant behind AllSamplesMatch: after k calls that
\* returned a sample, the samples are the reference ones of the k headers
\* from the start down; between calls the header of the last call is the
\* k-th of them and the read-ahead prev_header its parent, and a call that
\* returned None found prev_header at genesis' parent.
AInv ==
    kind = "all" =>
        /\ DiffChainOK
        /\ start \in 0 .. Len(chain)
        /\ pc \in {"idle", "done"}
        /\ out \in Seq(InfoRec)
        /\ Len(out) \in 0 .. start
        /\ pc = "idle" =>
              /\ header = IF Len(out) = 0 THEN 0 ELSE start - Len(out) + 1
              /\ Len(out) > 0 => prev = header - 1
        /\ pc = "done" => Len(out) = start
        /\ \A i \in 1 .. Len(out) :
              AllCore(out[i]) = AllCore(SpecInfo(chain, start - i + 1))


\* The chains of n headers DiffChains is made of.
DiffRow(n, pows, tss, incs) ==
    [i \in 1 .. n |->
       Header(pows[i], tss[i], i + Cardinality({j \in 1 .. i : incs[j] # 1}), i, Target)]
DiffRows(n) ==
    {DiffRow(n, pows, tss, incs) :
       pows \in [1 .. n -> PowTypes], tss \in [1 .. n -> Times], incs \in [1 .. n -> Incs]}

\* The cast to u64 and the 60 s fallback give a timespan of the width.
LEMMA SpanRange ==
    /\ \A x \in Int : AsU64(x) \in SpanVals
    /\ 60 \in SpanVals
  BY DEF AsU64, SpanVals

\* A member of DiffRows(n) is a DiffRow.
LEMMA DiffRowsElem ==
    ASSUME NEW n, NEW r \in DiffRows(n)
    PROVE  \E pows \in [1 .. n -> PowTypes], tss \in [1 .. n -> Times], incs \in [1 .. n -> Incs] :
              r = DiffRow(n, pows, tss, incs)
  BY DEF DiffRows

\* Every chain a difficulty cursor is started on is well formed: a total
\* difficulty is the index plus the number of increments above 1, a
\* natural.
LEMMA DiffChainShape ==
    ASSUME NEW c \in DiffChains
    PROVE  \E m \in 1 .. MaxLen :
              /\ DOMAIN c = 1 .. m
              /\ \A j \in 1 .. m : c[j].ts \in Nat /\ c[j].td \in Int /\ c[j].scaling \in Int
<1>0. DiffChains = UNION {DiffRows(n) : n \in 1 .. MaxLen}
  BY DEF DiffChains, DiffRows, DiffRow
<1>1. PICK m \in 1 .. MaxLen : c \in DiffRows(m)
  BY <1>0
<1>2. PICK pows \in [1 .. m -> PowTypes], tss \in [1 .. m -> Times], incs \in [1 .. m -> Incs] :
         c = DiffRow(m, pows, tss, incs)
  BY <1>1, DiffRowsElem
<1>3. \A i \in 1 .. m : Cardinality({j \in 1 .. i : incs[j] # 1}) \in Nat
  <2> SUFFICES ASSUME NEW i \in 1 .. m
               PROVE  Cardinality({j \in 1 .. i : incs[j] # 1}) \in Nat
    OBVIOUS
  <2>1. IsFiniteSet(1 .. i)
    BY FS_Interval
  <2>2. IsFiniteSet({j \in 1 .. i : incs[j] # 1})
    BY <2>1, FS_Subset
  <2> QED BY <2>2, FS_CardinalityType
<1>4. \A i \in 1 .. m : c[i].ts = tss[i] /\ c[i].scaling = i
         /\ c[i].td = i + Cardinality({j \in 1 .. i : incs[j] # 1})
  BY <1>2 DEF Header, DiffRow
<1>5. \A i \in 1 .. m : tss[i] \in Nat
  BY HeaderChainAssumption
<1>6. DOMAIN c = 1 .. m
  BY <1>2 DEF DiffRow
<1>7. \A i \in 1 .. m : c[i].ts \in Nat /\ c[i].td \in Int /\ c[i].scaling \in Int
  <2> SUFFICES ASSUME NEW i \in 1 .. m
               PROVE  c[i].ts \in Nat /\ c[i].td \in Int /\ c[i].scaling \in Int
    OBVIOUS
  <2>1. Cardinality({j \in 1 .. i : incs[j] # 1}) \in Nat /\ tss[i] \in Nat
    BY <1>3, <1>5
  <2>2. c[i].ts = tss[i] /\ c[i].scaling = i
        /\ c[i].td = i + Cardinality({j \in 1 .. i : incs[j] # 1})
    BY <1>4
  <2> QED BY <2>1, <2>2
<1> QED BY <1>6, <1>7

\* Every chain a difficulty cursor is started on is well formed.
LEMMA InitDiffChain ==
    ASSUME Init, kind # "bottle"
    PROVE  DiffChainOK
<1>1. chain \in DiffChains
  BY DEF Init
<1>2. PICK m \in 1 .. MaxLen :
         /\ DOMAIN chain = 1 .. m
         /\ \A j \in 1 .. m : chain[j].ts \in Nat /\ chain[j].td \in Int /\ chain[j].scaling \in Int
  BY <1>1, DiffChainShape
<1> QED BY <1>2 DEF DiffChainOK

\* The initial state satisfies AInv.
LEMMA InitAInv ==
    ASSUME Init
    PROVE  AInv
<1> SUFFICES ASSUME kind = "all" PROVE AInv!2
  BY DEF AInv
<1>1. DiffChainOK
  BY InitDiffChain
<1>2. out = << >> /\ pc = "idle" /\ header = 0 /\ start \in 0 .. Len(chain)
  BY DEF Init
<1> QED BY <1>1, <1>2

\* A call of DifficultyIterAll::next that reads a header keeps AInv: the
\* header of the call is the next one down, and its sample is the
\* reference one.
LEMMA AllCallYields ==
    ASSUME AInv, kind = "all", all_call, CallHeader # 0
    PROVE  AInv!2'
<1>1. /\ DiffChainOK /\ start \in 0 .. Len(chain) /\ pc = "idle"
      /\ out \in Seq(InfoRec) /\ Len(out) \in 0 .. start
      /\ header = IF Len(out) = 0 THEN 0 ELSE start - Len(out) + 1
      /\ Len(out) > 0 => prev = header - 1
      /\ \A i \in 1 .. Len(out) : AllCore(out[i]) = AllCore(SpecInfo(chain, start - i + 1))
  BY DEF AInv, all_call
<1> DEFINE h == start - Len(out)
           pd == IF h - 1 # 0 THEN chain[h - 1].td ELSE 0
           sp == IF h - 1 # 0 THEN AsU64(chain[h].ts - chain[h - 1].ts) ELSE 60
           new == Info(h, chain[h].td - pd, chain[h].scaling, sp)
<1>2. CallHeader = h
  BY <1>1 DEF CallHeader
<1>3. h \in 1 .. Len(chain)
  BY <1>1, <1>2
<1>4. /\ header' = h /\ prev' = h - 1 /\ out' = Append(out, new) /\ pc' = pc
      /\ kind' = kind /\ chain' = chain /\ start' = start
  BY <1>2 DEF all_call, Parent
<1>5. /\ chain[h].ts \in Nat /\ chain[h].td \in Int /\ chain[h].scaling \in Int
      /\ (h - 1 # 0 => chain[h - 1].ts \in Nat /\ chain[h - 1].td \in Int)
  BY <1>1, <1>3 DEF DiffChainOK
<1>6. sp \in SpanVals
  BY <1>5, SpanRange
<1>7. new \in InfoRec
  <2>1. pd \in Int /\ chain[h].td - pd \in Int
    BY <1>5
  <2> QED BY <1>3, <1>5, <1>6, <2>1 DEF Info, InfoRec
<1>8. AllCore(new) = AllCore(SpecInfo(chain, h))
  <2>1. new.ts = chain[h].ts /\ new.scaling = chain[h].scaling /\ new.src = h
    BY DEF Info
  <2>2. new.diff = IF h > 1 THEN chain[h].td - chain[h - 1].td ELSE chain[h].td
    BY <1>3, <1>5 DEF Info
  <2> QED BY <2>1, <2>2 DEF AllCore, SpecInfo
<1>9. /\ out' \in Seq(InfoRec) /\ Len(out') = Len(out) + 1
      /\ \A i \in 1 .. Len(out) : out'[i] = out[i]
      /\ out'[Len(out) + 1] = new
  BY <1>1, <1>4, <1>7
<1>10. Len(out') \in 0 .. start /\ h = start - Len(out') + 1 /\ Len(out') # 0
  BY <1>1, <1>3, <1>9
<1>11. \A i \in 1 .. Len(out') : AllCore(out'[i]) = AllCore(SpecInfo(chain, start - i + 1))
  <2> SUFFICES ASSUME NEW i \in 1 .. Len(out')
               PROVE  AllCore(out'[i]) = AllCore(SpecInfo(chain, start - i + 1))
    OBVIOUS
  <2>1. CASE i \in 1 .. Len(out)
    BY <1>1, <1>9, <2>1
  <2>2. CASE i = Len(out) + 1
    <3>1. start - i + 1 = h
      BY <1>1, <2>2
    <3> QED BY <1>8, <1>9, <2>2, <3>1
  <2> QED BY <1>1, <1>9, <2>1, <2>2
<1>12. (pc = "idle" =>
           /\ header = IF Len(out) = 0 THEN 0 ELSE start - Len(out) + 1
           /\ Len(out) > 0 => prev = header - 1)'
  BY <1>4, <1>10
<1> QED BY <1>1, <1>4, <1>9, <1>10, <1>11, <1>12 DEF DiffChainOK

\* Every step keeps AInv.
LEMMA AStep ==
    ASSUME AInv, [Next]_vars
    PROVE  AInv'
<1> SUFFICES ASSUME kind' = "all" PROVE AInv!2'
  BY DEF AInv
<1>0. kind = "all" /\ kind' = kind /\ chain' = chain /\ start' = start
  BY DEF Next, vars, diff_call, diff_scan, all_call, bottle_call, bottle_scan
<1>1. /\ DiffChainOK /\ start \in 0 .. Len(chain) /\ pc \in {"idle", "done"}
      /\ out \in Seq(InfoRec) /\ Len(out) \in 0 .. start
      /\ pc = "idle" =>
            /\ header = IF Len(out) = 0 THEN 0 ELSE start - Len(out) + 1
            /\ Len(out) > 0 => prev = header - 1
      /\ pc = "done" => Len(out) = start
      /\ \A i \in 1 .. Len(out) : AllCore(out[i]) = AllCore(SpecInfo(chain, start - i + 1))
  BY <1>0 DEF AInv
<1>2. CASE all_call /\ CallHeader # 0
  BY <1>0, <1>2, AllCallYields
<1>3. CASE all_call /\ CallHeader = 0
  <2>1. pc = "idle" /\ pc' = "done" /\ out' = out
    BY <1>3 DEF all_call
  <2>2. Len(out) = start
    BY <1>1, <1>3, <2>1 DEF CallHeader
  <2> QED BY <1>0, <1>1, <2>1, <2>2 DEF DiffChainOK
<1>4. CASE UNCHANGED vars
  BY <1>0, <1>1, <1>4 DEF vars, DiffChainOK
<1> QED
  <2>1. ~diff_call /\ ~diff_scan /\ ~bottle_call /\ ~bottle_scan
    BY <1>0 DEF diff_call, diff_scan, bottle_call, bottle_scan
  <2> QED BY <1>2, <1>3, <1>4, <2>1 DEF Next

\* DifficultyIterAll::next (store.rs 568-621), driven until it returns
\* None, has returned one sample per header from the start down to genesis,
\* each with its own timestamp, scaling and its difficulty against its
\* immediate predecessor (the total difficulty itself at genesis). Proved
\* for every chain length.
THEOREM AllSafe == Spec => []AllSamplesMatch
<1>1. Init => AInv
  BY InitAInv
<1>2. AInv /\ [Next]_vars => AInv'
  BY AStep
<1>3. AInv => AllSamplesMatch
  <2> SUFFICES ASSUME AInv, kind = "all", pc = "done"
               PROVE  LET ref == SpecAllSamples(chain, start)
                      IN [i \in 1 .. Len(out) |-> AllCore(out[i])] =
                         [i \in 1 .. Len(ref) |-> AllCore(ref[i])]
    BY DEF AllSamplesMatch
  <2>1. Len(out) = start /\ start \in Nat
        /\ \A i \in 1 .. Len(out) : AllCore(out[i]) = AllCore(SpecInfo(chain, start - i + 1))
    BY DEF AInv
  <2>2. Len(SpecAllSamples(chain, start)) = start
    BY <2>1 DEF SpecAllSamples
  <2> QED BY <2>1, <2>2 DEF SpecAllSamples
<1> QED BY <1>1, <1>2, <1>3, PTL DEF Spec

---------------------------------------------------------------------------
(* Types                                                                   *)

\* What next() returns: a HeaderInfo or a Policy.
OutRec == InfoRec \cup BottleRec

\* The last conjunct of TypeOK: every timespan a difficulty cursor returned
\* fits the u64 it was cast to.
SpanOK ==
    \A i \in 1 .. Len(out) :
        kind # "bottle" => out[i].span \in SpanVals

\* The inductive invariant behind TypeOK: the chain is well formed for the
\* iterator, the walk's prev_difficulty and prev_timespan are integers,
\* and inside next() the walk's `head` and the header of the call are
\* headers of the chain (BottleIter's counter still below the cap).
TInv ==
    /\ kind \in Kinds
    /\ kind = "bottle" => ChainOK
    /\ kind # "bottle" => DiffChainOK
    /\ start \in 0 .. Len(chain) /\ header \in 0 .. Len(chain) /\ prev \in 0 .. Len(chain)
    /\ pc \in {"idle", "scan", "done"}
    /\ count \in 0 .. LimitSearch + 1
    /\ pdiff \in Int /\ pspan \in Int
    /\ pc = "scan" => head \in 1 .. Len(chain) /\ header \in 1 .. Len(chain)
    /\ kind = "bottle" /\ pc = "scan" => count \in 0 .. LimitSearch
    /\ out \in Seq(OutRec)
    /\ SpanOK


\* The initial state satisfies TInv.
LEMMA InitTInv ==
    ASSUME Init
    PROVE  TInv
<1>1. kind \in Kinds /\ start \in 0 .. Len(chain) /\ header = 0 /\ prev = 0 /\ pc = "idle"
      /\ count = 0 /\ pdiff = 0 /\ pspan = 0 /\ out = << >>
  BY DEF Init
<1>2. kind = "bottle" => ChainOK
  BY InitChain
<1>3. kind # "bottle" => DiffChainOK
  BY InitDiffChain
<1>4. Len(chain) \in Nat
  BY <1>2, <1>3 DEF ChainOK, DiffChainOK
<1> QED BY <1>1, <1>2, <1>3, <1>4 DEF TInv, SpanOK

\* The chain seen through either shape.
LEMMA ChainLen ==
    ASSUME TInv
    PROVE  Len(chain) \in 1 .. MaxLen /\ DOMAIN chain = 1 .. Len(chain)
  BY DEF TInv, ChainOK, DiffChainOK

\* A step that keeps the chain and the start and leaves the walk's
\* variables in range keeps TInv.
LEMMA TKeep ==
    ASSUME TInv, kind' = kind, chain' = chain, start' = start,
           header' \in 0 .. Len(chain), prev' \in 0 .. Len(chain),
           pc' \in {"idle", "scan", "done"}, count' \in 0 .. LimitSearch + 1,
           pdiff' \in Int, pspan' \in Int,
           pc' = "scan" => head' \in 1 .. Len(chain) /\ header' \in 1 .. Len(chain),
           kind = "bottle" /\ pc' = "scan" => count' \in 0 .. LimitSearch,
           out' \in Seq(OutRec), SpanOK'
    PROVE  TInv'
  BY DEF TInv, ChainOK, DiffChainOK

\* A returned item of the right shape keeps the outputs typed.
LEMMA AppendOut ==
    ASSUME TInv, kind' = kind, NEW r \in OutRec,
           kind # "bottle" => r.span \in SpanVals,
           out' = Append(out, r)
    PROVE  out' \in Seq(OutRec) /\ SpanOK'
<1>1. out \in Seq(OutRec) /\ SpanOK
  BY DEF TInv
<1>2. out' \in Seq(OutRec) /\ Len(out') = Len(out) + 1
      /\ \A i \in 1 .. Len(out) : out'[i] = out[i]
      /\ out'[Len(out) + 1] = r
  BY <1>1
<1>3. SpanOK'
  <2> SUFFICES ASSUME NEW i \in 1 .. Len(out'), kind # "bottle"
               PROVE  out'[i].span \in SpanVals
    BY DEF SpanOK
  <2>1. CASE i \in 1 .. Len(out)
    BY <1>1, <1>2, <2>1 DEF SpanOK
  <2>2. CASE i = Len(out) + 1
    BY <1>2, <2>2
  <2> QED BY <1>1, <1>2, <2>1, <2>2
<1> QED BY <1>2, <1>3

\* The header of a call is the start or the read-ahead, a header or 0.
LEMMA CallHeaderRange ==
    ASSUME TInv
    PROVE  CallHeader \in 0 .. Len(chain)
  BY DEF TInv, CallHeader

\* DifficultyIter::next, entry: the walk starts at the header of the call
\* with its own total difficulty and the 60 s timespan.
LEMMA DiffCallT ==
    ASSUME TInv, diff_call
    PROVE  TInv'
<1>1. kind = "diff" /\ pc = "idle" /\ header' = CallHeader
      /\ kind' = kind /\ chain' = chain /\ start' = start
  BY DEF diff_call
<1>2. CallHeader \in 0 .. Len(chain) /\ Len(chain) \in Nat
  BY CallHeaderRange, ChainLen
<1>3. CASE CallHeader = 0
  <2>1. pc' = "done" /\ prev' = prev /\ count' = count /\ pdiff' = pdiff /\ pspan' = pspan
        /\ out' = out
    BY <1>1, <1>3 DEF diff_call, walk
  <2> QED BY <1>1, <1>2, <1>3, <2>1, TKeep DEF TInv, SpanOK
<1>4. CASE CallHeader # 0
  <2>1. /\ pc' = "scan" /\ head' = CallHeader /\ pdiff' = chain[CallHeader].td
        /\ pspan' = 60 /\ prev' = prev /\ count' = count /\ out' = out
    BY <1>1, <1>4 DEF diff_call
  <2>2. chain[CallHeader].td \in Int
    BY <1>1, <1>2, <1>4 DEF TInv, DiffChainOK
  <2> QED BY <1>1, <1>2, <1>4, <2>1, <2>2, TKeep DEF TInv, SpanOK
<1> QED BY <1>3, <1>4

\* DifficultyIterAll::next: a sample of the header of the call, against
\* its parent.
LEMMA AllCallT ==
    ASSUME TInv, all_call
    PROVE  TInv'
<1>1. kind = "all" /\ pc = "idle" /\ header' = CallHeader
      /\ kind' = kind /\ chain' = chain /\ start' = start
      /\ head' = head /\ count' = count /\ pdiff' = pdiff /\ pspan' = pspan
  BY DEF all_call, walk
<1>2. CallHeader \in 0 .. Len(chain) /\ Len(chain) \in Nat
  BY CallHeaderRange, ChainLen
<1>3. CASE CallHeader = 0
  <2>1. pc' = "done" /\ prev' = prev /\ out' = out
    BY <1>1, <1>3 DEF all_call
  <2> QED BY <1>1, <1>2, <1>3, <2>1, TKeep DEF TInv, SpanOK
<1>4. CASE CallHeader # 0
  <2> DEFINE h == CallHeader
             pd == IF h - 1 # 0 THEN chain[h - 1].td ELSE 0
             sp == IF h - 1 # 0 THEN AsU64(chain[h].ts - chain[h - 1].ts) ELSE 60
             new == Info(h, chain[h].td - pd, chain[h].scaling, sp)
  <2>1. prev' = h - 1 /\ out' = Append(out, new) /\ pc' = pc
    BY <1>1, <1>4 DEF all_call, Parent
  <2>2. /\ chain[h].ts \in Nat /\ chain[h].td \in Int /\ chain[h].scaling \in Int
        /\ (h - 1 # 0 => chain[h - 1].ts \in Nat /\ chain[h - 1].td \in Int)
    BY <1>1, <1>2, <1>4 DEF TInv, DiffChainOK
  <2>3. sp \in SpanVals /\ pd \in Int
    BY <2>2, SpanRange
  <2>4. new \in OutRec /\ new.span = sp
    BY <1>2, <2>2, <2>3 DEF Info, InfoRec, OutRec
  <2>5. out' \in Seq(OutRec) /\ SpanOK'
    BY <1>1, <2>1, <2>3, <2>4, AppendOut
  <2> QED BY <1>1, <1>2, <1>4, <2>1, <2>5, TKeep DEF TInv
<1> QED BY <1>3, <1>4

\* BottleIter::next, entry: the search starts at the header of the call.
LEMMA BottleCallT ==
    ASSUME TInv, bottle_call
    PROVE  TInv'
<1>1. kind = "bottle" /\ pc = "idle" /\ header' = CallHeader
      /\ kind' = kind /\ chain' = chain /\ start' = start /\ pdiff' = pdiff /\ pspan' = pspan
  BY DEF bottle_call
<1>2. CallHeader \in 0 .. Len(chain) /\ Len(chain) \in Nat
  BY CallHeaderRange, ChainLen
<1>3. CASE CallHeader = 0
  <2>1. pc' = "done" /\ prev' = prev /\ count' = count /\ out' = out
    BY <1>1, <1>3 DEF bottle_call
  <2> QED BY <1>1, <1>2, <1>3, <2>1, TKeep DEF TInv, SpanOK
<1>4. CASE CallHeader # 0
  <2>1. pc' = "scan" /\ head' = CallHeader /\ count' = 0 /\ prev' = prev /\ out' = out
    BY <1>1, <1>4 DEF bottle_call
  <2> QED BY <1>1, <1>2, <1>4, <2>1, TKeep DEF TInv, SpanOK
<1> QED BY <1>3, <1>4

\* The inner loop of DifficultyIter::next breaks: the sample of the header
\* of the call, with the scaling of `head` and the cast timespan.
LEMMA DiffYieldT ==
    ASSUME TInv, kind = "diff", pc = "scan",
           kind' = kind, chain' = chain, start' = start, header' = header, count' = count,
           \E nx \in 0 .. Len(chain), dd \in Int, ss \in Int : diff_yield(nx, dd, ss)
    PROVE  TInv'
<1> PICK nx \in 0 .. Len(chain), dd \in Int, ss \in Int : diff_yield(nx, dd, ss)
  OBVIOUS
<1>1. /\ prev' = nx /\ pc' = "idle" /\ pdiff' = pdiff /\ pspan' = pspan
      /\ out' = Append(out, Info(header, dd, chain[head].scaling, AsU64(ss)))
  BY DEF diff_yield
<1>2. /\ head \in 1 .. Len(chain) /\ header \in 1 .. Len(chain) /\ Len(chain) \in Nat
      /\ pdiff \in Int /\ pspan \in Int
      /\ chain[header].ts \in Nat /\ chain[head].scaling \in Int
  BY DEF TInv, DiffChainOK
<1>3. AsU64(ss) \in SpanVals
  BY SpanRange
<1>4. Info(header, dd, chain[head].scaling, AsU64(ss)) \in OutRec
      /\ Info(header, dd, chain[head].scaling, AsU64(ss)).span = AsU64(ss)
  BY <1>2, <1>3 DEF Info, InfoRec, OutRec
<1>5. out' \in Seq(OutRec) /\ SpanOK'
  BY <1>1, <1>3, <1>4, AppendOut
<1> QED BY <1>1, <1>2, <1>5, TKeep DEF TInv

\* One iteration of the inner loop of DifficultyIter::next.
LEMMA DiffScanT ==
    ASSUME TInv, diff_scan
    PROVE  TInv'
<1>1. kind = "diff" /\ pc = "scan"
      /\ kind' = kind /\ chain' = chain /\ start' = start /\ header' = header /\ count' = count
  BY DEF diff_scan
<1>2. /\ head \in 1 .. Len(chain) /\ header \in 1 .. Len(chain) /\ Len(chain) \in Nat
      /\ pdiff \in Int /\ pspan \in Int
      /\ chain[header].ts \in Nat /\ chain[header].td \in Int
      /\ (head - 1 # 0 => chain[head - 1].ts \in Nat /\ chain[head - 1].td \in Int)
  BY <1>1 DEF TInv, DiffChainOK
<1> DEFINE p == head - 1
           d == IF first THEN chain[header].td - chain[p].td ELSE pdiff
           s == IF first THEN chain[header].ts - chain[p].ts ELSE pspan
<1>3. CASE p = 0
  <2>1. diff_yield(0, pdiff, pspan)
    BY <1>3 DEF diff_scan, Parent
  <2>2. 0 \in 0 .. Len(chain)
    BY <1>2
  <2>3. \E nx \in 0 .. Len(chain), dd \in Int, ss \in Int : diff_yield(nx, dd, ss)
    BY <1>2, <2>1, <2>2
  <2> QED BY <1>1, <2>3, DiffYieldT
<1>4. p # 0 => d \in Int /\ s \in Int /\ p \in 1 .. Len(chain)
  BY <1>2
<1>5. CASE p # 0 /\ chain[p].pow = chain[header].pow
  <2>1. diff_yield(p, d, s)
    BY <1>5 DEF diff_scan, Parent
  <2>2. \E nx \in 0 .. Len(chain), dd \in Int, ss \in Int : diff_yield(nx, dd, ss)
    <3>1. p \in 0 .. Len(chain) /\ d \in Int /\ s \in Int
      BY <1>4, <1>5
    <3> USE <3>1
    <3> WITNESS p \in 0 .. Len(chain), d \in Int, s \in Int
    <3> QED BY <2>1
  <2> QED BY <1>1, <2>2, DiffYieldT
<1>6. CASE p # 0 /\ chain[p].pow # chain[header].pow
  <2>1. head' = p /\ pdiff' = d /\ pspan' = s /\ prev' = prev /\ pc' = pc /\ out' = out
    BY <1>6 DEF diff_scan, Parent
  <2> QED BY <1>1, <1>2, <1>4, <1>6, <2>1, TKeep DEF TInv, SpanOK
<1> QED BY <1>3, <1>5, <1>6

\* The search loop of BottleIter::next breaks: the bottles of the header
\* of the call or of the ancestor found, or None.
LEMMA BottleYieldT ==
    ASSUME TInv, kind = "bottle", pc = "scan",
           kind' = kind, chain' = chain, start' = start, header' = header,
           pdiff' = pdiff, pspan' = pspan, count' \in 0 .. LimitSearch + 1,
           \E found \in 0 .. Len(chain) : bottle_yield(found)
    PROVE  TInv'
<1> PICK found \in 0 .. Len(chain) : bottle_yield(found)
  OBVIOUS
<1>1. prev' = found
  BY DEF bottle_yield
<1>2. header \in 1 .. Len(chain) /\ Len(chain) \in Nat
      /\ \A x \in 1 .. Len(chain) : Bottles(x) \in OutRec
  BY DEF TInv, ChainOK, Bottles, BottleRec, OutRec
<1>3. CASE chain[header].policy = Target
  <2>1. out' = Append(out, Bottles(header)) /\ pc' = "idle"
    BY <1>3 DEF bottle_yield
  <2>2. out' \in Seq(OutRec) /\ SpanOK'
    BY <1>2, <2>1, AppendOut
  <2> QED BY <1>1, <1>2, <2>1, <2>2, TKeep DEF TInv
<1>4. CASE chain[header].policy # Target /\ found # 0
  <2>1. out' = Append(out, Bottles(found)) /\ pc' = "idle"
    BY <1>4 DEF bottle_yield
  <2>2. out' \in Seq(OutRec) /\ SpanOK'
    BY <1>2, <1>4, <2>1, AppendOut
  <2> QED BY <1>1, <1>2, <2>1, <2>2, TKeep DEF TInv
<1>5. CASE chain[header].policy # Target /\ found = 0
  <2>1. out' = out /\ pc' = "done"
    BY <1>5 DEF bottle_yield
  <2> QED BY <1>1, <1>2, <2>1, TKeep DEF TInv, SpanOK
<1> QED BY <1>3, <1>4, <1>5

\* One iteration of the search loop of BottleIter::next.
LEMMA BottleScanT ==
    ASSUME TInv, bottle_scan
    PROVE  TInv'
<1>1. kind = "bottle" /\ pc = "scan" /\ count' = count + 1
      /\ kind' = kind /\ chain' = chain /\ start' = start /\ header' = header
      /\ pdiff' = pdiff /\ pspan' = pspan
  BY DEF bottle_scan
<1>2. /\ head \in 1 .. Len(chain) /\ header \in 1 .. Len(chain) /\ Len(chain) \in Nat
      /\ count \in 0 .. LimitSearch /\ LimitSearch \in Nat
  BY <1>1 DEF TInv
<1>3. count' \in 0 .. LimitSearch + 1
  BY <1>1, <1>2
<1> DEFINE p == head - 1
<1>4. CASE count + 1 > LimitSearch
  <2>1. pc' = "done" /\ prev' = prev /\ head' = head /\ out' = out
    BY <1>4 DEF bottle_scan
  <2> QED BY <1>1, <1>2, <1>3, <2>1, TKeep DEF TInv, SpanOK
<1>5. CASE count + 1 <= LimitSearch /\ p = 0
  <2>1. bottle_yield(0) /\ 0 \in 0 .. Len(chain)
    BY <1>2, <1>5 DEF bottle_scan, Parent
  <2>2. \E found \in 0 .. Len(chain) : bottle_yield(found)
    BY <2>1
  <2> QED BY <1>1, <1>3, <2>2, BottleYieldT
<1>6. CASE count + 1 <= LimitSearch /\ p # 0 /\ chain[p].policy = Target
  <2>1. bottle_yield(p) /\ p \in 0 .. Len(chain)
    BY <1>2, <1>6 DEF bottle_scan, Parent
  <2>2. \E found \in 0 .. Len(chain) : bottle_yield(found)
    BY <2>1
  <2> QED BY <1>1, <1>3, <2>2, BottleYieldT
<1>7. CASE count + 1 <= LimitSearch /\ p # 0 /\ chain[p].policy # Target
  <2>1. head' = p /\ prev' = prev /\ pc' = pc /\ out' = out
    BY <1>7 DEF bottle_scan, Parent
  <2>2. p \in 1 .. Len(chain) /\ count' \in 0 .. LimitSearch
    BY <1>1, <1>2, <1>7
  <2>3. pc' = "scan" /\ head' \in 1 .. Len(chain) /\ header' \in 1 .. Len(chain)
    BY <1>1, <1>2, <2>1, <2>2
  <2>4. out' \in Seq(OutRec) /\ SpanOK' /\ prev' \in 0 .. Len(chain)
        /\ pdiff' \in Int /\ pspan' \in Int
    BY <1>1, <2>1 DEF TInv, SpanOK
  <2> QED BY <1>1, <1>3, <2>2, <2>3, <2>4, TKeep
<1> QED BY <1>2, <1>4, <1>5, <1>6, <1>7

\* Every step keeps TInv.
LEMMA TStep ==
    ASSUME TInv, [Next]_vars
    PROVE  TInv'
<1>1. CASE diff_call
  BY <1>1, DiffCallT
<1>2. CASE diff_scan
  BY <1>2, DiffScanT
<1>3. CASE all_call
  BY <1>3, AllCallT
<1>4. CASE bottle_call
  BY <1>4, BottleCallT
<1>5. CASE bottle_scan
  BY <1>5, BottleScanT
<1>6. CASE UNCHANGED vars
  BY <1>6 DEF vars, TInv, ChainOK, DiffChainOK, SpanOK
<1> QED BY <1>1, <1>2, <1>3, <1>4, <1>5, <1>6 DEF Next

\* The three cursors of store.rs keep their state in range for every chain
\* length, limit_search and u64 width that holds the 60 s fallback: the
\* start, self.header and self.prev_header name headers of the chain or
\* None, BottleIter's counter stops one past limit_search, and every
\* timespan a difficulty cursor returns is a value of the u64 it is cast to
\* (the `as u64` of a negative i64 wraps instead of leaving the range).
THEOREM TypeSafe == Spec => []TypeOK
<1>1. Init => TInv
  BY InitTInv
<1>2. TInv /\ [Next]_vars => TInv'
  BY TStep
<1>3. TInv => TypeOK
  BY DEF TInv, TypeOK, SpanOK, SpanVals
<1> QED BY <1>1, <1>2, <1>3, PTL DEF Spec

=============================================================================
