--------------------------- MODULE AllocatorProofs ---------------------------
(* The safe allocator keeps blocks apart; the exact one loses none. *)
EXTENDS Allocator, TLAPS

AInv == TypeOK /\ Exclusive

\* In every behaviour of the safe allocator, and so in every one of a quiet
\* heap, no block is held twice, nor both held and spare.
THEOREM SafeMeansExclusive == Spec => []Exclusive
<1>1. Init => AInv
  BY DEF Init, AInv, TypeOK, Exclusive
<1>2. AInv /\ [Next]_allocVars => AInv'
  <2> SUFFICES ASSUME AInv, [Next]_allocVars PROVE AInv'
    OBVIOUS
  <2>1. ASSUME NEW h \in Holders, NEW B \in SUBSET spare, Grant(h, B)
        PROVE  AInv'
    BY <2>1 DEF Grant, AInv, TypeOK, Exclusive
  <2>2. ASSUME NEW h \in Holders, NEW back \in SUBSET held[h], Release(h, back)
        PROVE  AInv'
    BY <2>2 DEF Release, AInv, TypeOK, Exclusive
  <2>3. CASE UNCHANGED allocVars
    BY <2>3 DEF AInv, TypeOK, Exclusive, allocVars
  <2> QED BY <2>1, <2>2, <2>3 DEF Next
<1>3. AInv => Exclusive
  BY DEF AInv
<1> QED BY <1>1, <1>2, <1>3, PTL DEF Spec

CInv == TypeOK /\ Conserved

\* In every behaviour of the exact allocator, and so in every one of a heap
\* whose requests are of one block, each block is spare or somebody's.
THEOREM ExactMeansConserved == ExactSpec => []Conserved
<1>1. ExactInit => CInv
  BY DEF ExactInit, CInv, TypeOK, Conserved
<1>2. CInv /\ [ExactNext]_allocVars => CInv'
  <2> SUFFICES ASSUME CInv, [ExactNext]_allocVars PROVE CInv'
    OBVIOUS
  <2>1. ASSUME NEW h \in Holders, NEW B \in SUBSET spare, Grant(h, B)
        PROVE  CInv'
    BY <2>1 DEF Grant, CInv, TypeOK, Conserved
  <2>2. ASSUME NEW h \in Holders, Release(h, held[h])
        PROVE  CInv'
    BY <2>2 DEF Release, CInv, TypeOK, Conserved
  <2>3. CASE UNCHANGED allocVars
    BY <2>3 DEF CInv, TypeOK, Conserved, allocVars
  <2> QED BY <2>1, <2>2, <2>3 DEF ExactNext
<1>3. CInv => Conserved
  BY DEF CInv
<1> QED BY <1>1, <1>2, <1>3, PTL DEF ExactSpec

=============================================================================
