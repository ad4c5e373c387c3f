------------------------------ MODULE HeapTable ------------------------------
(***************************************************************************)
(* The block table of the kernel heap (memory/heap/heap.c) and the         *)
(* functions that read and write it, as operators on a table value.  The   *)
(* modules that own a table (Heap, and those that compose it) apply them.  *)
(*                                                                         *)
(* A table entry is one byte of flags (heap.h); it is modelled as the set  *)
(* of the flags that are up.  The table has Blocks entries, but the code   *)
(* also reads and writes the bytes that follow it, which no one            *)
(* initialises: they are the entries from Blocks on.                       *)
(***************************************************************************)
EXTENDS Integers

CONSTANTS
  Blocks,  \* heap_table_t.size, the number of blocks of the pool
  MaxRun   \* bound: the largest number of blocks a request asks for

ASSUME HeapTableAssumption ==
  /\ Blocks \in Nat \ {0}
  /\ MaxRun \in Nat \ {0}

KERNEL_HEAP_BLOCK_SIZE == 4096

\* Sizes above this wrap the 32-bit arithmetic of heap_malloc; no caller in
\* the kernel asks for more than 2MB + 1 (kernel.c).
MaxSize == 2147483647 - 4095

HEAP_BLOCK_TABLE_ENTRY_TAKE == "TAKE"
HEAP_BLOCK_HAS_NEXT == "HAS_NEXT"
HEAP_BLOCK_IS_FIRST == "IS_FIRST"

Flags ==
  {HEAP_BLOCK_TABLE_ENTRY_TAKE, HEAP_BLOCK_HAS_NEXT, HEAP_BLOCK_IS_FIRST}

Entry == SUBSET Flags

HEAP_BLOCK_TABLE_ENTRY_FREE == {}

Pool == 0 .. (Blocks - 1)

\* The table and the MaxRun bytes after it, as far as a request can reach.
Entries == 0 .. (Blocks + MaxRun - 1)

NoBlock == -1

-----------------------------------------------------------------------------
(* Sizes and entries *)

heap_align_to_upper(val) ==
  LET rem == val % KERNEL_HEAP_BLOCK_SIZE
  IN IF rem = 0 THEN val ELSE val + KERNEL_HEAP_BLOCK_SIZE - rem

BlocksFor(size) == heap_align_to_upper(size) \div KERNEL_HEAP_BLOCK_SIZE

is_free_block(entry) == HEAP_BLOCK_TABLE_ENTRY_TAKE \notin entry

has_next(entry) == HEAP_BLOCK_HAS_NEXT \in entry

-----------------------------------------------------------------------------
(* Searching, marking, freeing *)

\* A slip in is_free_blocks: the last block of the run is not looked at.
ShortRunFree(tbl, s, n) ==
  /\ s < Blocks
  /\ \A b \in s .. (s + n - 2) : is_free_block(tbl[b])

\* A slip in is_free_blocks: `cur_start > end` for `cur_start >= end`.
LateRunFree(tbl, s, n) ==
  /\ s <= Blocks
  /\ \A b \in s .. (s + n - 1) : is_free_block(tbl[b])

\* Only the first entry is compared with the end of the table: a run that
\* starts in it may end after it.
is_free_blocks(tbl, s, n) ==
  /\ s < Blocks
  /\ \A b \in s .. (s + n - 1) : is_free_block(tbl[b])

\* A slip in find_free_block_start: one entry too many is considered.
PastEndCandidates(tbl, n) ==
  {s \in 0 .. Blocks : is_free_block(tbl[s]) /\ LateRunFree(tbl, s, n)}

\* The candidates are the free blocks find_next_free_block stops at, in order.
Candidates(tbl, n) ==
  {s \in Pool : is_free_block(tbl[s]) /\ is_free_blocks(tbl, s, n)}

find_free_block_start(tbl, n) ==
  LET fits == Candidates(tbl, n)
  IN IF fits = {}
       THEN NoBlock
       ELSE CHOOSE s \in fits : \A t \in fits : s <= t

\* A slip in heap_mark_table_entries_taken: the last entry is left out.
MarkAllButLast(tbl, s, n) ==
  [b \in DOMAIN tbl |->
     IF b \in s .. (s + n - 2) THEN Flags ELSE tbl[b]]

\* A slip in heap_mark_table_entries_taken: `cur < end` for `cur < end - 1`.
MarkLastHasNext(tbl, s, n) ==
  [b \in DOMAIN tbl |->
     IF b \in s .. (s + n - 1)
       THEN {HEAP_BLOCK_TABLE_ENTRY_TAKE, HEAP_BLOCK_HAS_NEXT}
            \cup {f \in {HEAP_BLOCK_IS_FIRST} : b = s}
       ELSE tbl[b]]

heap_mark_table_entries_taken(tbl, s, n) ==
  [b \in DOMAIN tbl |->
     IF b \in s .. (s + n - 1)
       THEN {HEAP_BLOCK_TABLE_ENTRY_TAKE}
            \cup {f \in {HEAP_BLOCK_IS_FIRST} : b = s}
            \cup {f \in {HEAP_BLOCK_HAS_NEXT} : b < s + n - 1}
       ELSE tbl[b]]

\* The entries the do-while loop of heap_free clears.  The loop steps to the
\* next entry before it asks whether there is a next one, so it is the flag
\* of the entry it is about to clear that it looks at.
FreedRun(tbl, s) ==
  {b \in DOMAIN tbl :
     /\ s <= b
     /\ \A c \in (s + 1) .. b : has_next(tbl[c])}

\* A slip in the loop: the entry it stops at is cleared too.
ClearOneMore(tbl, s) ==
  [b \in DOMAIN tbl |->
     IF b \in FreedRun(tbl, s) \/ (b - 1) \in FreedRun(tbl, s)
       THEN HEAP_BLOCK_TABLE_ENTRY_FREE
       ELSE tbl[b]]

\* A slip in the loop: `entry++` before the entry is cleared.
ClearAfterStep(tbl, s) ==
  [b \in DOMAIN tbl |->
     IF (b - 1) \in FreedRun(tbl, s)
       THEN HEAP_BLOCK_TABLE_ENTRY_FREE
       ELSE tbl[b]]

ClearRun(tbl, s) ==
  [b \in DOMAIN tbl |->
     IF b \in FreedRun(tbl, s) THEN HEAP_BLOCK_TABLE_ENTRY_FREE ELSE tbl[b]]

=============================================================================
