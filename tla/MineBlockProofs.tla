--------------------------- MODULE MineBlockProofs ---------------------------
(***************************************************************************)
(* TLAPS proofs about MineBlock.                                           *)
(***************************************************************************)
EXTENDS MineBlock, TLAPS

USE MineBlockAssumption

\* A failing step keeps faults within MaxFaults and records an error kind.
LEMMA FailTypeOK ==
    ASSUME TypeOK, NEW kind \in Errs, Fail(kind)
    PROVE  faults' \in 0 .. MaxFaults /\ err' \in Errs /\ pc' \in Steps
BY DEF Fail, TypeOK, Steps

\* Every step keeps the types, and no read head gets ahead of the head.
LEMMA TypeStep == TypeOK /\ [Next]_vars => TypeOK'
<1> SUFFICES ASSUME TypeOK, [Next]_vars PROVE TypeOK'
  OBVIOUS
<1>1. CASE build_head
  <2>1. CASE Fail("other")
    BY <1>1, <2>1, FailTypeOK DEF build_head, TypeOK, Errs, reads
  <2>2. CASE ~Fail("other")
    BY <1>1, <2>2 DEF build_head, Go, TypeOK, Steps, reads
  <2>3. QED
    BY <2>1, <2>2
<1>2. CASE build_seed
  BY <1>2, FailTypeOK DEF build_seed, Go, TypeOK, Steps, Errs, reads
<1>3. CASE build_difficulty
  <2>1. CASE Fail("other")
    BY <1>3, <2>1, FailTypeOK DEF build_difficulty, TypeOK, Errs, reads
  <2>2. CASE ~Fail("other")
    BY <1>3, <2>2 DEF build_difficulty, Go, TypeOK, Steps, reads
  <2>3. QED
    BY <2>1, <2>2
<1>4. CASE build_coinbase
  BY <1>4, FailTypeOK DEF build_coinbase, Go, TypeOK, Steps, Errs, reads
<1>5. CASE build_assemble
  BY <1>5, FailTypeOK DEF build_assemble, Go, TypeOK, Steps, Errs, reads
<1>6. CASE build_bottles
  <2>1. CASE Fail("other")
    BY <1>6, <2>1, FailTypeOK DEF build_bottles, TypeOK, Errs, reads
  <2>2. CASE ~Fail("other")
    BY <1>6, <2>2 DEF build_bottles, Go, TypeOK, Steps, reads
  <2>3. QED
    BY <2>1, <2>2
<1>7. CASE build_roots
  BY <1>7, FailTypeOK DEF build_roots, Go, TypeOK, Steps, Errs, reads
<1>8. CASE handle
  BY <1>8 DEF handle, TypeOK, KeyArgs, Steps, reads
<1>9. CASE commit_head
  BY <1>9 DEF commit_head, TypeOK, reads
<1>10. CASE UNCHANGED vars
  BY <1>10 DEF vars, TypeOK
<1>11. QED
  BY <1>1, <1>2, <1>3, <1>4, <1>5, <1>6, <1>7, <1>8, <1>9, <1>10
     DEF Next, Assembler

\* Types (MineBlock's TypeOK): every value is of its type, and no head the
\* assembler read (line 146, difficulty_iter, bottles_iter) is ahead of the
\* chain head, whatever the writer commits in between.
THEOREM TypeCorrect == Spec => []TypeOK
<1>1. Init => TypeOK
  BY DEF Init, TypeOK, KeyArgs, Steps, Errs
<1>2. QED
  BY <1>1, TypeStep, PTL DEF Spec

====
