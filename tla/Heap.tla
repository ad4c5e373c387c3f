-------------------------------- MODULE Heap --------------------------------
(***************************************************************************)
(* The kernel heap (memory/heap/heap.c, kheap.c): a table of blocks, and   *)
(* the pointers the rest of the kernel got from kheap_malloc and has not   *)
(* given to kheap_free yet.                                                *)
(*                                                                         *)
(* Spec lets a holder free its pointer at any time.  QuietSpec is the      *)
(* discipline under which heap_free is harmless: a pointer is freed only   *)
(* when the run of entries the loop will clear is the holder's own.        *)
(***************************************************************************)
EXTENDS HeapTable

CONSTANTS
  Holders,  \* the pointer variables that may hold a heap address
  Sizes     \* the sizes in bytes that are asked for

ASSUME HeapAssumption ==
  /\ Sizes \subseteq 0 .. MaxSize
  /\ \A size \in Sizes : BlocksFor(size) <= MaxRun

VARIABLES
  table,  \* the table's bytes and those that follow it
  ptr     \* ptr[h]: the region h got: its first block and number of blocks

vars == <<table, ptr>>

NULL == [at |-> NoBlock, len |-> 0]

Regions == [at : Pool, len : 0 .. MaxRun]

RegionBlocks(r) == r.at .. (r.at + r.len - 1)

FreeBlocks == {b \in Entries : is_free_block(table[b])}

-----------------------------------------------------------------------------

\* kheap_init and heap_create: every entry of the table is free; the bytes
\* after it are what the machine left there.
Init ==
  /\ table \in [Entries -> Entry]
  /\ \A b \in Pool : table[b] = HEAP_BLOCK_TABLE_ENTRY_FREE
  /\ ptr = [h \in Holders |-> NULL]

\* heap_malloc when a run is found.  A request of no blocks gets the address
\* of a free block that stays free.
Malloc(h, size) ==
  LET n == BlocksFor(size)
      s == find_free_block_start(table, n)
  IN /\ ptr[h] = NULL
     /\ s # NoBlock
     /\ table' = heap_mark_table_entries_taken(table, s, n)
     /\ ptr' = [ptr EXCEPT ![h] = [at |-> s, len |-> n]]

\* heap_malloc when there is none: it returns NULL.
MallocFails(h, size) ==
  /\ ptr[h] = NULL
  /\ find_free_block_start(table, BlocksFor(size)) = NoBlock
  /\ UNCHANGED vars

\* heap_free; the holder drops the pointer.
Free(h) ==
  /\ ptr[h] # NULL
  /\ table' = ClearRun(table, ptr[h].at)
  /\ ptr' = [ptr EXCEPT ![h] = NULL]

\* The loop of heap_free would stay within h's region.
Quiet(h) == FreedRun(table, ptr[h].at) \subseteq RegionBlocks(ptr[h])

QuietFree(h) == Quiet(h) /\ Free(h)

Request(h) ==
  \E size \in Sizes : Malloc(h, size) \/ MallocFails(h, size)

Next == \E h \in Holders : Request(h) \/ Free(h)

QuietNext == \E h \in Holders : Request(h) \/ QuietFree(h)

Spec == Init /\ [][Next]_vars

QuietSpec == Init /\ [][QuietNext]_vars

-----------------------------------------------------------------------------
(* Properties *)

\* Every entry is a byte of flags, and every pointer handed out is the
\* address of a block of the pool (heap_malloc_blocks).
TypeOK ==
  /\ table \in [Entries -> Entry]
  /\ ptr \in [Holders -> Regions \cup {NULL}]

\* heap_malloc never hands the same block to two holders, whatever was
\* allocated and freed before.
NoOverlap ==
  \A g, h \in Holders :
    g # h => RegionBlocks(ptr[g]) \cap RegionBlocks(ptr[h]) = {}

\* The metadata heap.h describes stays right for as long as a region is
\* held: all of it is taken, only its first block is the first, and all
\* blocks but the last have a next one.
ChainsIntact ==
  \A h \in Holders :
    LET r == ptr[h]
    IN \A b \in RegionBlocks(r) :
         /\ ~is_free_block(table[b])
         /\ (HEAP_BLOCK_IS_FIRST \in table[b]) <=> (b = r.at)
         /\ has_next(table[b]) <=> (b + 1 \in RegionBlocks(r))

\* No call of the heap changes the entries of a region that is held before
\* and after it; heap_free clears the blocks' bytes together with their
\* entries, so nor does it change a byte of its contents.
LiveUntouchedStep ==
  \A h \in Holders :
    ptr[h] # NULL /\ ptr'[h] = ptr[h] =>
      \A b \in RegionBlocks(ptr[h]) : table'[b] = table[b]

LiveUntouched == [][LiveUntouchedStep]_vars

\* A block of the pool that is taken is somebody's: heap_free gives back
\* everything heap_malloc took, so that heap_malloc fails only when the
\* blocks are really in use.
NoLeak ==
  \A b \in Pool :
    ~is_free_block(table[b]) => \E h \in Holders : b \in RegionBlocks(ptr[h])

\* Every block handed out is a block of the data pool (heap.c:118-119).
InPool == \A h \in Holders : RegionBlocks(ptr[h]) \subseteq Pool

\* The blocks of the regions held are the abstract allocator's, over all
\* the bytes the code takes for table entries.
Safe == INSTANCE Allocator WITH
  Pool <- Entries,
  held <- [h \in Holders |-> RegionBlocks(ptr[h])],
  spare <- FreeBlocks

\* heap_malloc and heap_free implement the safe allocator.
ImplementsSafe == Safe!Spec

\* The same over the blocks of the pool alone.
Exact == INSTANCE Allocator WITH
  Pool <- Pool,
  held <- [h \in Holders |-> RegionBlocks(ptr[h])],
  spare <- FreeBlocks \cap Pool

\* With requests of one block each, heap_malloc and heap_free implement the
\* allocator that never loses a block.
ImplementsExact == Exact!ExactSpec

=============================================================================
