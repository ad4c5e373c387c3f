------------------------------ MODULE Allocator ------------------------------
(***************************************************************************)
(* What a memory allocator promises its callers, without saying how: it    *)
(* grants a holder blocks nobody else holds, and takes back only blocks of *)
(* the holder that releases them.  Spec is the safe allocator, which may   *)
(* lose blocks when they are released; ExactSpec is the one that never     *)
(* loses any.  Heap.tla is shown to implement them.                        *)
(***************************************************************************)

CONSTANTS
  Holders,  \* who asks for memory
  Pool      \* the blocks there are

VARIABLES
  held,     \* held[h]: the blocks granted to h and not yet released
  spare     \* the blocks the allocator may still grant

allocVars == <<held, spare>>

TypeOK ==
  /\ held \in [Holders -> SUBSET Pool]
  /\ spare \in SUBSET Pool

Init ==
  /\ held = [h \in Holders |-> {}]
  /\ spare \in SUBSET Pool

ExactInit ==
  /\ held = [h \in Holders |-> {}]
  /\ spare = Pool

Grant(h, B) ==
  /\ held[h] = {}
  /\ B # {}
  /\ held' = [held EXCEPT ![h] = B]
  /\ spare' = spare \ B

\* The blocks released come back, or some of them never do.
Release(h, back) ==
  /\ held[h] # {}
  /\ held' = [held EXCEPT ![h] = {}]
  /\ spare' = spare \cup back

Next ==
  \E h \in Holders :
    \/ \E B \in SUBSET spare : Grant(h, B)
    \/ \E back \in SUBSET held[h] : Release(h, back)

ExactNext ==
  \E h \in Holders :
    \/ \E B \in SUBSET spare : Grant(h, B)
    \/ Release(h, held[h])

Spec == Init /\ [][Next]_allocVars

ExactSpec == ExactInit /\ [][ExactNext]_allocVars

-----------------------------------------------------------------------------
(* What the promise comes to (proved in AllocatorProofs) *)

\* No block is held twice, nor held and spare at the same time: what
\* heap_malloc returns is the caller's alone.
Exclusive ==
  \A h \in Holders :
    /\ held[h] \cap spare = {}
    /\ \A g \in Holders \ {h} : held[g] \cap held[h] = {}

\* No block is lost: what heap_free gets can be granted again.
Conserved == \A b \in Pool : b \in spare \/ \E h \in Holders : b \in held[h]

=============================================================================
