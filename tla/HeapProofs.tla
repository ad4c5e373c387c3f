----------------------------- MODULE HeapProofs -----------------------------
(***************************************************************************)
(* Proofs about the kernel heap, for every table size, every largest       *)
(* request and every set of holders.                                       *)
(***************************************************************************)
EXTENDS Heap, Arithmetic, TLAPS

-----------------------------------------------------------------------------
(* The functions on the table *)

\* The number of blocks heap_malloc asks for holds the size and wastes less
\* than a block (heap_align_to_upper and the division in heap_malloc).
THEOREM BlocksCoverSize ==
  ASSUME NEW size \in Nat
  PROVE  /\ BlocksFor(size) \in Nat
         /\ size <= BlocksFor(size) * KERNEL_HEAP_BLOCK_SIZE
         /\ BlocksFor(size) * KERNEL_HEAP_BLOCK_SIZE < size + KERNEL_HEAP_BLOCK_SIZE
BY SMT DEF BlocksFor, heap_align_to_upper, KERNEL_HEAP_BLOCK_SIZE

LEMMA RequestFits ==
  ASSUME NEW size \in Sizes
  PROVE  BlocksFor(size) \in 0 .. MaxRun
<1>1. size \in Nat
  BY HeapAssumption, SMT
<1> QED BY <1>1, BlocksCoverSize, HeapAssumption

\* What find_free_block_start returns is the first of a run of free entries,
\* the first such run of the table, and NULL only when there is none.
LEMMA RunFound ==
  ASSUME NEW tbl, NEW n \in 0 .. MaxRun,
         find_free_block_start(tbl, n) # NoBlock
  PROVE  LET s == find_free_block_start(tbl, n)
         IN /\ s \in Pool
            /\ s .. (s + n - 1) \subseteq Entries
            /\ \A b \in s .. (s + n - 1) : is_free_block(tbl[b])
            /\ \A t \in Candidates(tbl, n) : s <= t
<1> DEFINE fits == Candidates(tbl, n)
           s == find_free_block_start(tbl, n)
<1>1. fits \subseteq Nat /\ fits # {}
  BY HeapTableAssumption DEF Candidates, Pool, find_free_block_start
<1>2. s \in fits /\ \A t \in fits : s <= t
  <2>1. s = CHOOSE x \in fits : \A t \in fits : x <= t
    BY <1>1 DEF find_free_block_start
  <2>2. \E x \in fits : \A t \in fits : x <= t
    <3> HIDE DEF fits
    <3> QED BY <1>1, LeastExists
  <2> HIDE DEF fits, s
  <2> QED BY <2>1, <2>2
<1>3. s \in Pool /\ \A b \in s .. (s + n - 1) : is_free_block(tbl[b])
  BY <1>2 DEF Candidates, is_free_blocks
<1>4. s .. (s + n - 1) \subseteq Entries
  <2> HIDE DEF s
  <2> QED BY <1>3, HeapTableAssumption DEF Pool, Entries
<1> QED BY <1>2, <1>3, <1>4

\* The loop of heap_free always clears the first block.
LEMMA FreedRunHasFirst ==
  ASSUME NEW tbl, NEW s \in DOMAIN tbl, s \in Int
  PROVE  s \in FreedRun(tbl, s)
BY DEF FreedRun

LEMMA MarkTyped ==
  ASSUME NEW tbl \in [Entries -> Entry], NEW s, NEW n
  PROVE  heap_mark_table_entries_taken(tbl, s, n) \in [Entries -> Entry]
BY DEF heap_mark_table_entries_taken, Entry, Flags

LEMMA ClearTyped ==
  ASSUME NEW tbl \in [Entries -> Entry], NEW s
  PROVE  ClearRun(tbl, s) \in [Entries -> Entry]
BY DEF ClearRun, Entry, HEAP_BLOCK_TABLE_ENTRY_FREE

-----------------------------------------------------------------------------
(* Type correctness *)

LEMMA RegionsInEntries ==
  ASSUME TypeOK, NEW h \in Holders
  PROVE  /\ RegionBlocks(ptr[h]) \subseteq Entries
         /\ ptr[h] # NULL => ptr[h].at \in Pool /\ ptr[h].len \in 0 .. MaxRun
         /\ RegionBlocks(NULL) = {}
<1>1. ptr[h] \in Regions \/ ptr[h] = NULL
  BY DEF TypeOK
<1>2. RegionBlocks(NULL) = {}
  BY DEF RegionBlocks, NULL, NoBlock
<1>3. CASE ptr[h] \in Regions
  BY <1>2, <1>3, HeapTableAssumption DEF Regions, RegionBlocks, Pool, Entries
<1> QED BY <1>1, <1>2, <1>3

LEMMA TypeStep == TypeOK /\ [Next]_vars => TypeOK'
<1> SUFFICES ASSUME TypeOK, [Next]_vars PROVE TypeOK'
  OBVIOUS
<1>1. ASSUME NEW h \in Holders, NEW size \in Sizes, Malloc(h, size)
      PROVE  TypeOK'
  <2> DEFINE n == BlocksFor(size)
             s == find_free_block_start(table, n)
  <2>1. n \in 0 .. MaxRun
    BY RequestFits
  <2>2. s \in Pool
    BY <1>1, <2>1, RunFound DEF Malloc
  <2>3. table' \in [Entries -> Entry]
    BY <1>1, MarkTyped DEF Malloc, TypeOK
  <2>4. [at |-> s, len |-> n] \in Regions
    BY <2>1, <2>2 DEF Regions
  <2>5. ptr' = [ptr EXCEPT ![h] = [at |-> s, len |-> n]]
    BY <1>1 DEF Malloc
  <2> HIDE DEF n, s
  <2> QED BY <2>3, <2>4, <2>5 DEF TypeOK
<1>2. ASSUME NEW h \in Holders, Free(h)
      PROVE  TypeOK'
  BY <1>2, ClearTyped DEF Free, TypeOK
<1>3. CASE UNCHANGED vars
  BY <1>3 DEF TypeOK, vars
<1> QED BY <1>1, <1>2, <1>3 DEF Next, Request, MallocFails, vars

\* The table stays a table of flags and every pointer handed out is the
\* address of a block of the pool, whoever frees what (heap_malloc_blocks).
THEOREM TypeCorrect == Spec => []TypeOK
<1>1. Init => TypeOK
  BY DEF Init, TypeOK
<1> QED BY <1>1, TypeStep, PTL DEF Spec

\* The discipline only takes behaviours away.
LEMMA QuietIsSpec == QuietNext => Next
BY DEF QuietNext, Next, QuietFree

-----------------------------------------------------------------------------
(* Under the discipline: regions are disjoint, and their metadata right *)

IInv == TypeOK /\ NoOverlap /\ ChainsIntact

\* A region that is held is left alone by the request of another holder:
\* its blocks are taken, so they are not among those that were found.
LEMMA MallocIsApart ==
  ASSUME IInv, NEW h \in Holders, NEW size \in Sizes, Malloc(h, size),
         NEW g \in Holders, g # h
  PROVE  /\ ptr'[g] = ptr[g]
         /\ RegionBlocks(ptr'[h]) \cap RegionBlocks(ptr[g]) = {}
         /\ \A b \in RegionBlocks(ptr[g]) : table'[b] = table[b]
<1> DEFINE n == BlocksFor(size)
           s == find_free_block_start(table, n)
<1>1. n \in 0 .. MaxRun
  BY RequestFits
<1>2. /\ table' = heap_mark_table_entries_taken(table, s, n)
      /\ ptr' = [ptr EXCEPT ![h] = [at |-> s, len |-> n]]
      /\ s # NoBlock
  BY DEF Malloc
<1>3. \A b \in s .. (s + n - 1) : is_free_block(table[b])
  BY <1>1, <1>2, RunFound
<1> HIDE DEF n, s
<1>4. ptr'[g] = ptr[g] /\ RegionBlocks(ptr'[h]) = s .. (s + n - 1)
  BY <1>2 DEF IInv, TypeOK, RegionBlocks
<1>5. \A b \in RegionBlocks(ptr[g]) : ~is_free_block(table[b])
  BY DEF IInv, ChainsIntact
<1>6. RegionBlocks(ptr[g]) \subseteq Entries
  BY RegionsInEntries DEF IInv
<1>7. RegionBlocks(ptr'[h]) \cap RegionBlocks(ptr[g]) = {}
  BY <1>3, <1>4, <1>5
<1>8. \A b \in RegionBlocks(ptr[g]) : table'[b] = table[b]
  BY <1>2, <1>4, <1>6, <1>7 DEF heap_mark_table_entries_taken, IInv, TypeOK
<1> QED BY <1>4, <1>7, <1>8

\* So is it by the release of another holder, when that is quiet.
LEMMA QuietFreeIsApart ==
  ASSUME IInv, NEW h \in Holders, QuietFree(h), NEW g \in Holders, g # h
  PROVE  /\ ptr'[g] = ptr[g]
         /\ ptr'[h] = NULL
         /\ \A b \in RegionBlocks(ptr[g]) : table'[b] = table[b]
<1>1. /\ table' = ClearRun(table, ptr[h].at)
      /\ ptr' = [ptr EXCEPT ![h] = NULL]
      /\ FreedRun(table, ptr[h].at) \subseteq RegionBlocks(ptr[h])
  BY DEF QuietFree, Free, Quiet
<1>2. ptr'[g] = ptr[g] /\ ptr'[h] = NULL
  BY <1>1 DEF IInv, TypeOK
<1>3. RegionBlocks(ptr[g]) \cap RegionBlocks(ptr[h]) = {}
  BY DEF IInv, NoOverlap
<1>4. RegionBlocks(ptr[g]) \subseteq Entries
  BY RegionsInEntries DEF IInv
<1>5. \A b \in RegionBlocks(ptr[g]) : table'[b] = table[b]
  BY <1>1, <1>3, <1>4 DEF ClearRun, IInv, TypeOK
<1> QED BY <1>2, <1>5

\* The entries heap_mark_table_entries_taken writes are the chain heap.h
\* describes.
LEMMA MarkedChain ==
  ASSUME NEW tbl \in [Entries -> Entry], NEW s \in Pool, NEW n \in 0 .. MaxRun,
         NEW b \in s .. (s + n - 1)
  PROVE  LET e == heap_mark_table_entries_taken(tbl, s, n)[b]
         IN /\ ~is_free_block(e)
            /\ (HEAP_BLOCK_IS_FIRST \in e) <=> (b = s)
            /\ has_next(e) <=> (b + 1 \in s .. (s + n - 1))
<1>1. b \in Entries
  BY HeapTableAssumption DEF Pool, Entries
<1>2. heap_mark_table_entries_taken(tbl, s, n)[b] =
        {HEAP_BLOCK_TABLE_ENTRY_TAKE}
          \cup {f \in {HEAP_BLOCK_IS_FIRST} : b = s}
          \cup {f \in {HEAP_BLOCK_HAS_NEXT} : b < s + n - 1}
  BY <1>1 DEF heap_mark_table_entries_taken
<1>3. b + 1 \in s .. (s + n - 1) <=> b < s + n - 1
  BY DEF Pool
<1>4. /\ HEAP_BLOCK_TABLE_ENTRY_TAKE # HEAP_BLOCK_IS_FIRST
      /\ HEAP_BLOCK_TABLE_ENTRY_TAKE # HEAP_BLOCK_HAS_NEXT
      /\ HEAP_BLOCK_IS_FIRST # HEAP_BLOCK_HAS_NEXT
  BY DEF HEAP_BLOCK_TABLE_ENTRY_TAKE, HEAP_BLOCK_IS_FIRST, HEAP_BLOCK_HAS_NEXT
<1> QED BY <1>2, <1>3, <1>4 DEF is_free_block, has_next

LEMMA QuietStep == IInv /\ [QuietNext]_vars => IInv'
<1> SUFFICES ASSUME IInv, [QuietNext]_vars PROVE IInv'
  OBVIOUS
<1>1. TypeOK'
  BY TypeStep, QuietIsSpec DEF IInv
<1>2. ASSUME NEW h \in Holders, NEW size \in Sizes, Malloc(h, size)
      PROVE  NoOverlap' /\ ChainsIntact'
  <2>1. \A g \in Holders \ {h} :
          /\ ptr'[g] = ptr[g]
          /\ RegionBlocks(ptr'[h]) \cap RegionBlocks(ptr[g]) = {}
          /\ \A b \in RegionBlocks(ptr[g]) : table'[b] = table[b]
    BY <1>2, MallocIsApart
  <2>2. NoOverlap'
    BY <2>1 DEF IInv, NoOverlap
  <2>3. \A b \in RegionBlocks(ptr'[h]) :
          /\ ~is_free_block(table'[b])
          /\ (HEAP_BLOCK_IS_FIRST \in table'[b]) <=> (b = ptr'[h].at)
          /\ has_next(table'[b]) <=> (b + 1 \in RegionBlocks(ptr'[h]))
    <3> DEFINE n == BlocksFor(size)
               s == find_free_block_start(table, n)
    <3>1. n \in 0 .. MaxRun
      BY RequestFits
    <3>2. s \in Pool
      BY <1>2, <3>1, RunFound DEF Malloc
    <3>3. ptr'[h] = [at |-> s, len |-> n]
      BY <1>2 DEF Malloc, IInv, TypeOK
    <3>4. table' = heap_mark_table_entries_taken(table, s, n)
      BY <1>2 DEF Malloc
    <3> HIDE DEF n, s
    <3> QED BY <3>1, <3>2, <3>3, <3>4, MarkedChain
            DEF RegionBlocks, IInv, TypeOK
  <2>4. ChainsIntact'
    BY <2>1, <2>3 DEF IInv, ChainsIntact
  <2> QED BY <2>2, <2>4
<1>3. ASSUME NEW h \in Holders, QuietFree(h)
      PROVE  NoOverlap' /\ ChainsIntact'
  <2>1. \A g \in Holders \ {h} :
          /\ ptr'[g] = ptr[g]
          /\ \A b \in RegionBlocks(ptr[g]) : table'[b] = table[b]
    BY <1>3, QuietFreeIsApart
  <2>2. ptr'[h] = NULL
    BY <1>3 DEF QuietFree, Free, IInv, TypeOK
  <2>3. RegionBlocks(NULL) = {}
    BY DEF RegionBlocks, NULL, NoBlock
  <2>4. NoOverlap'
    BY <2>1, <2>2, <2>3 DEF IInv, NoOverlap
  <2>5. ChainsIntact'
    BY <2>1, <2>2, <2>3 DEF IInv, ChainsIntact
  <2> QED BY <2>4, <2>5
<1>4. ASSUME UNCHANGED vars
      PROVE  NoOverlap' /\ ChainsIntact'
  BY <1>4 DEF IInv, NoOverlap, ChainsIntact, vars
<1>5. NoOverlap' /\ ChainsIntact'
  BY <1>2, <1>3, <1>4 DEF QuietNext, Request, MallocFails, vars
<1> QED BY <1>1, <1>5 DEF IInv

LEMMA QuietInvariant == QuietSpec => []IInv
<1>1. Init => IInv
  <2> SUFFICES ASSUME Init PROVE IInv
    OBVIOUS
  <2>1. TypeOK
    BY DEF Init, TypeOK
  <2>2. \A h \in Holders : RegionBlocks(ptr[h]) = {}
    BY DEF Init, RegionBlocks, NULL, NoBlock
  <2> QED BY <2>1, <2>2 DEF IInv, NoOverlap, ChainsIntact
<1> QED BY <1>1, QuietStep, PTL DEF QuietSpec

\* heap_malloc never hands the same block to two holders, if heap_free is
\* only called where its loop stays in the region that is freed.
THEOREM RegionsDisjoint == QuietSpec => []NoOverlap
<1>1. IInv => NoOverlap
  BY DEF IInv
<1> QED BY <1>1, QuietInvariant, PTL

\* Under the same discipline the flags of the entries of a region that is
\* held are the chain heap_mark_table_entries_taken wrote.
THEOREM MetadataRight == QuietSpec => []ChainsIntact
<1>1. IInv => ChainsIntact
  BY DEF IInv
<1> QED BY <1>1, QuietInvariant, PTL

\* And no call of the heap touches an entry of a region that is not its own.
THEOREM OthersUntouched == QuietSpec => LiveUntouched
<1>1. IInv /\ [QuietNext]_vars => [LiveUntouchedStep]_vars
  <2> SUFFICES ASSUME IInv, [QuietNext]_vars, ~UNCHANGED vars,
                      NEW g \in Holders, ptr[g] # NULL, ptr'[g] = ptr[g],
                      NEW b \in RegionBlocks(ptr[g])
               PROVE  table'[b] = table[b]
    BY DEF LiveUntouchedStep
  <2>1. ASSUME NEW h \in Holders, NEW size \in Sizes, Malloc(h, size)
        PROVE  table'[b] = table[b]
    <3>1. h # g
      BY <2>1 DEF Malloc
    <3> QED BY <2>1, <3>1, MallocIsApart
  <2>2. ASSUME NEW h \in Holders, QuietFree(h)
        PROVE  table'[b] = table[b]
    <3>1. h # g
      BY <2>2 DEF QuietFree, Free, IInv, TypeOK
    <3> QED BY <2>2, <3>1, QuietFreeIsApart
  <2> QED BY <2>1, <2>2 DEF QuietNext, Request, MallocFails, vars
<1> QED BY <1>1, QuietInvariant, PTL DEF QuietSpec, LiveUntouched

-----------------------------------------------------------------------------
(* heap_malloc and heap_free implement the safe allocator *)

\* What a request does to the free entries: it takes those it was granted.
LEMMA MallocGrants ==
  ASSUME TypeOK, NEW h \in Holders, NEW size \in Sizes, Malloc(h, size)
  PROVE  /\ ptr'[h] \in Regions
         /\ RegionBlocks(ptr'[h]) \subseteq FreeBlocks
         /\ FreeBlocks' = FreeBlocks \ RegionBlocks(ptr'[h])
         /\ \A g \in Holders \ {h} : ptr'[g] = ptr[g]
         /\ RegionBlocks(ptr[h]) = {}
         /\ ptr'[h].len = BlocksFor(size)
<1> DEFINE n == BlocksFor(size)
           s == find_free_block_start(table, n)
<1>1. n \in 0 .. MaxRun
  BY RequestFits
<1>2. /\ table' = heap_mark_table_entries_taken(table, s, n)
      /\ ptr' = [ptr EXCEPT ![h] = [at |-> s, len |-> n]]
      /\ s # NoBlock
      /\ ptr[h] = NULL
  BY DEF Malloc
<1>3. /\ s \in Pool
      /\ s .. (s + n - 1) \subseteq Entries
      /\ \A b \in s .. (s + n - 1) : is_free_block(table[b])
  BY <1>1, <1>2, RunFound
<1> HIDE DEF n, s
<1>4. ptr'[h] = [at |-> s, len |-> n] /\ \A g \in Holders \ {h} : ptr'[g] = ptr[g]
  BY <1>2 DEF TypeOK
<1>5. RegionBlocks(ptr'[h]) = s .. (s + n - 1) /\ ptr'[h] \in Regions
  BY <1>1, <1>3, <1>4 DEF RegionBlocks, Regions
<1>6. \A b \in Entries :
        is_free_block(table'[b]) <=>
          is_free_block(table[b]) /\ b \notin s .. (s + n - 1)
  BY <1>2 DEF heap_mark_table_entries_taken, is_free_block, TypeOK
<1>7. RegionBlocks(ptr[h]) = {}
  BY <1>2, RegionsInEntries
<1>8. ptr'[h].len = BlocksFor(size)
  BY <1>4 DEF n
<1> QED BY <1>3, <1>4, <1>5, <1>6, <1>7, <1>8 DEF FreeBlocks

\* What a release does to them: it adds those the loop cleared, at least the
\* first of the region.
LEMMA FreeReleases ==
  ASSUME TypeOK, NEW h \in Holders, Free(h)
  PROVE  /\ FreeBlocks' = FreeBlocks \cup FreedRun(table, ptr[h].at)
         /\ ptr[h].at \in FreedRun(table, ptr[h].at)
         /\ FreedRun(table, ptr[h].at) \subseteq Entries
         /\ ptr'[h] = NULL
         /\ \A g \in Holders \ {h} : ptr'[g] = ptr[g]
<1>1. /\ table' = ClearRun(table, ptr[h].at)
      /\ ptr' = [ptr EXCEPT ![h] = NULL]
      /\ ptr[h] # NULL
  BY DEF Free
<1>2. ptr[h].at \in Pool
  BY <1>1, RegionsInEntries
<1>3. ptr[h].at \in FreedRun(table, ptr[h].at)
  BY <1>2, HeapTableAssumption, FreedRunHasFirst DEF TypeOK, Pool, Entries
<1>4. FreedRun(table, ptr[h].at) \subseteq Entries
  BY DEF FreedRun, TypeOK
<1>5. \A b \in Entries :
        is_free_block(table'[b]) <=>
          is_free_block(table[b]) \/ b \in FreedRun(table, ptr[h].at)
  BY <1>1 DEF ClearRun, is_free_block, HEAP_BLOCK_TABLE_ENTRY_FREE, TypeOK
<1> QED BY <1>1, <1>3, <1>4, <1>5 DEF FreeBlocks, TypeOK

\* Whatever is requested, and whatever is freed quietly, the blocks of the
\* regions held behave as the safe allocator's: granted only when spare, and
\* taken back only from the holder that releases them.
THEOREM QuietHeapIsSafe == QuietSpec => ImplementsSafe
<1> DEFINE held == [h \in Holders |-> RegionBlocks(ptr[h])]
<1>1. Init => Safe!Init
  BY DEF Init, Safe!Init, RegionBlocks, NULL, NoBlock, FreeBlocks
<1>2. TypeOK /\ [QuietNext]_vars => [Safe!Next]_(Safe!allocVars)
  <2> SUFFICES ASSUME TypeOK, [QuietNext]_vars
               PROVE  [Safe!Next]_(Safe!allocVars)
    OBVIOUS
  <2>1. ASSUME NEW h \in Holders, NEW size \in Sizes, Malloc(h, size)
        PROVE  [Safe!Next]_(Safe!allocVars)
    <3> DEFINE B == RegionBlocks(ptr'[h])
    <3>1. /\ B \subseteq FreeBlocks
          /\ FreeBlocks' = FreeBlocks \ B
          /\ held[h] = {}
          /\ held' = [held EXCEPT ![h] = B]
      BY <2>1, MallocGrants
    <3>2. CASE B = {}
      BY <3>1, <3>2 DEF Safe!allocVars
    <3>3. CASE B # {}
      BY <3>1, <3>3 DEF Safe!Next, Safe!Grant
    <3> QED BY <3>2, <3>3
  <2>2. ASSUME NEW h \in Holders, QuietFree(h)
        PROVE  [Safe!Next]_(Safe!allocVars)
    <3> DEFINE back == FreedRun(table, ptr[h].at)
    <3>1. /\ FreeBlocks' = FreeBlocks \cup back
          /\ ptr[h].at \in back
          /\ back \subseteq held[h]
          /\ ptr'[h] = NULL
          /\ \A g \in Holders \ {h} : ptr'[g] = ptr[g]
      BY <2>2, FreeReleases DEF QuietFree, Quiet
    <3>2. held' = [held EXCEPT ![h] = {}]
      <4>1. RegionBlocks(NULL) = {}
        BY DEF RegionBlocks, NULL, NoBlock
      <4>2. \A g \in Holders :
              RegionBlocks(ptr'[g]) = IF g = h THEN {} ELSE RegionBlocks(ptr[g])
        <5>1. ptr'[h] = NULL /\ \A g \in Holders \ {h} : ptr'[g] = ptr[g]
          BY <3>1
        <5> QED BY <5>1, <4>1
      <4> QED BY <4>2
    <3> HIDE DEF back
    <3> QED BY <3>1, <3>2 DEF Safe!Next, Safe!Release
  <2>3. CASE UNCHANGED vars
    BY <2>3 DEF vars, Safe!allocVars, FreeBlocks
  <2> QED BY <2>1, <2>2, <2>3 DEF QuietNext, Request, MallocFails, vars
<1>3. QuietSpec => []TypeOK
  <2>1. Init => TypeOK
    BY DEF Init, TypeOK
  <2>2. TypeOK /\ [QuietNext]_vars => TypeOK'
    BY TypeStep, QuietIsSpec
  <2> QED BY <2>1, <2>2, PTL DEF QuietSpec
<1> QED BY <1>1, <1>2, <1>3, PTL DEF QuietSpec, ImplementsSafe, Safe!Spec

-----------------------------------------------------------------------------
(* Requests of one block each: nothing is lost, whoever frees what *)

OneBlock == \A size \in Sizes : size \in 1 .. KERNEL_HEAP_BLOCK_SIZE

\* The strengthening of NoLeak: no entry of the pool has a next one, so that
\* the loop of heap_free always stops at the second; every region is one
\* block, which is taken; and regions are disjoint.
OneBlockInv ==
  /\ TypeOK
  /\ \A b \in Pool : ~has_next(table[b])
  /\ \A h \in Holders : ptr[h] # NULL => ptr[h].len = 1
  /\ NoOverlap
  /\ \A b \in Pool :
       ~is_free_block(table[b]) <=> \E h \in Holders : b \in RegionBlocks(ptr[h])

LEMMA OneBlockEach ==
  ASSUME OneBlock, NEW size \in Sizes
  PROVE  BlocksFor(size) = 1
<1> DEFINE n == BlocksFor(size)
<1>1. size \in Nat /\ 1 <= size /\ size <= 4096
  <2>1. size \in 1 .. 4096
    BY SMT DEF OneBlock, KERNEL_HEAP_BLOCK_SIZE
  <2> QED BY <2>1, SMT
<1>2. n \in Nat /\ size <= n * 4096 /\ n * 4096 < size + 4096
  BY <1>1, BlocksCoverSize, SMT DEF KERNEL_HEAP_BLOCK_SIZE
<1> HIDE DEF n
<1>3. n = 1
  BY <1>1, <1>2, SMT
<1> QED BY <1>3 DEF n

LEMMA OneBlockRegion ==
  ASSUME NEW r \in Regions, r.len = 1
  PROVE  RegionBlocks(r) = {r.at} /\ r.at \in Pool
BY HeapTableAssumption DEF Regions, RegionBlocks, Pool

\* One block is granted, and it has no next one.
LEMMA OneBlockMalloc ==
  ASSUME OneBlock, OneBlockInv,
         NEW h \in Holders, NEW size \in Sizes, Malloc(h, size)
  PROVE  /\ ptr'[h].len = 1
         /\ RegionBlocks(ptr'[h]) = {ptr'[h].at}
         /\ ptr'[h].at \in Pool \cap FreeBlocks
         /\ \A b \in Pool : ~has_next(table'[b])
<1>1. BlocksFor(size) = 1
  BY OneBlockEach
<1>2. /\ ptr'[h] \in Regions
      /\ RegionBlocks(ptr'[h]) \subseteq FreeBlocks
      /\ ptr'[h].len = 1
  BY <1>1, MallocGrants DEF OneBlockInv
<1>3. RegionBlocks(ptr'[h]) = {ptr'[h].at} /\ ptr'[h].at \in Pool
  BY <1>2, OneBlockRegion
<1>4. \A b \in Pool : ~has_next(table'[b])
  <2>1. find_free_block_start(table, 1) \in Pool
    BY <1>1, RunFound, HeapTableAssumption DEF Malloc
  <2>2. table' = heap_mark_table_entries_taken(table, find_free_block_start(table, 1), 1)
    BY <1>1 DEF Malloc
  <2> DEFINE s == find_free_block_start(table, 1)
  <2> HIDE DEF s
  <2>3. \A b \in Pool : b = s \/ table'[b] = table[b]
    BY <2>1, <2>2, HeapTableAssumption
    DEF s, heap_mark_table_entries_taken, OneBlockInv, TypeOK, Pool, Entries
  <2>4. ~has_next(table'[s])
    <3>1. s \in s .. (s + 1 - 1) /\ s + 1 \notin s .. (s + 1 - 1)
      BY <2>1 DEF s, Pool
    <3>2. 1 \in 0 .. MaxRun
      BY HeapTableAssumption
    <3> QED BY <2>1, <2>2, <3>1, <3>2, MarkedChain DEF s, OneBlockInv, TypeOK
  <2> QED BY <2>3, <2>4 DEF OneBlockInv
<1> QED BY <1>2, <1>3, <1>4

\* Exactly the block of the region is released.
LEMMA OneBlockFree ==
  ASSUME OneBlockInv, NEW h \in Holders, Free(h)
  PROVE  /\ RegionBlocks(ptr[h]) = {ptr[h].at}
         /\ ptr[h].at \in Pool
         /\ FreedRun(table, ptr[h].at) \cap Pool = {ptr[h].at}
         /\ \A b \in Pool : ~has_next(table'[b])
<1>1. ptr[h] # NULL /\ table' = ClearRun(table, ptr[h].at)
  BY DEF Free
<1>2. RegionBlocks(ptr[h]) = {ptr[h].at} /\ ptr[h].at \in Pool
  BY <1>1, OneBlockRegion DEF OneBlockInv, TypeOK
<1>3. FreedRun(table, ptr[h].at) \cap Pool = {ptr[h].at}
  <2> DEFINE s == ptr[h].at
  <2>1. s \in FreedRun(table, s)
    BY FreeReleases DEF OneBlockInv
  <2>2. ASSUME NEW b \in Pool, b \in FreedRun(table, s), b # s
        PROVE  FALSE
    <3>1. s < b /\ s + 1 \in Pool /\ s + 1 \in (s + 1) .. b
      <4>1. s \in Pool
        BY <1>2
      <4>2. s <= b /\ b # s
        BY <2>2 DEF FreedRun
      <4> HIDE DEF s
      <4> QED BY <4>1, <4>2, HeapTableAssumption DEF Pool
    <3>2. has_next(table[s + 1])
      BY <2>2, <3>1 DEF FreedRun
    <3> QED BY <3>1, <3>2 DEF OneBlockInv
  <2> HIDE DEF s
  <2>3. FreedRun(table, s) \cap Pool = {s}
    BY <1>2, <2>1, <2>2 DEF s
  <2> QED BY <2>3 DEF s
<1>4. \A b \in Pool : ~has_next(table'[b])
  BY <1>1, HeapTableAssumption
  DEF ClearRun, has_next, HEAP_BLOCK_TABLE_ENTRY_FREE, OneBlockInv, TypeOK, Pool, Entries
<1> QED BY <1>2, <1>3, <1>4

LEMMA OneBlockStep ==
  ASSUME OneBlock, OneBlockInv, [Next]_vars
  PROVE  OneBlockInv'
<1>1. TypeOK'
  BY TypeStep DEF OneBlockInv
<1>2. FreeBlocks \subseteq Entries /\ Pool \subseteq Entries
  BY HeapTableAssumption DEF FreeBlocks, Pool, Entries
<1>3. \A b \in Pool : ~is_free_block(table[b]) <=> b \notin FreeBlocks
  BY <1>2 DEF FreeBlocks
<1>4. \A b \in Pool : ~is_free_block(table'[b]) <=> b \notin FreeBlocks'
  BY <1>2 DEF FreeBlocks
<1>5. RegionBlocks(NULL) = {}
  BY DEF RegionBlocks, NULL, NoBlock
<1>6. ASSUME NEW h \in Holders, NEW size \in Sizes, Malloc(h, size)
      PROVE  OneBlockInv'
  <2> DEFINE s == ptr'[h].at
  <2>1. /\ ptr'[h].len = 1
        /\ RegionBlocks(ptr'[h]) = {s}
        /\ s \in Pool \cap FreeBlocks
        /\ \A b \in Pool : ~has_next(table'[b])
    BY <1>6, OneBlockMalloc
  <2>2. /\ \A g \in Holders \ {h} : ptr'[g] = ptr[g]
        /\ FreeBlocks' = FreeBlocks \ {s}
        /\ RegionBlocks(ptr[h]) = {}
    BY <1>6, <2>1, MallocGrants DEF OneBlockInv
  <2> HIDE DEF s
  <2>3. \A g \in Holders : s \notin RegionBlocks(ptr[g])
    BY <1>3, <2>1 DEF OneBlockInv
  <2>4. NoOverlap'
    BY <2>1, <2>2, <2>3 DEF OneBlockInv, NoOverlap
  <2>5. \A b \in Pool :
          b \notin FreeBlocks' <=> \E g \in Holders : b \in RegionBlocks(ptr'[g])
    <3> SUFFICES ASSUME NEW b \in Pool
                 PROVE  b \notin FreeBlocks' <=>
                          \E g \in Holders : b \in RegionBlocks(ptr'[g])
      OBVIOUS
    <3>1. CASE b = s
      BY <2>1, <2>2, <3>1
    <3>2. CASE b # s
      <4>1. \A g \in Holders : b \in RegionBlocks(ptr'[g]) <=> b \in RegionBlocks(ptr[g])
        BY <2>1, <2>2, <3>2
      <4> QED BY <1>3, <2>2, <3>2, <4>1 DEF OneBlockInv
    <3> QED BY <3>1, <3>2
  <2> QED BY <1>1, <1>4, <2>1, <2>2, <2>4, <2>5 DEF OneBlockInv
<1>7. ASSUME NEW h \in Holders, Free(h)
      PROVE  OneBlockInv'
  <2> DEFINE s == ptr[h].at
             run == FreedRun(table, s)
  <2>1. /\ RegionBlocks(ptr[h]) = {s}
        /\ s \in Pool
        /\ run \cap Pool = {s}
        /\ \A b \in Pool : ~has_next(table'[b])
    BY <1>7, OneBlockFree
  <2>2. /\ \A g \in Holders \ {h} : ptr'[g] = ptr[g]
        /\ ptr'[h] = NULL
        /\ FreeBlocks' = FreeBlocks \cup run
    BY <1>7, FreeReleases DEF OneBlockInv
  <2> HIDE DEF s, run
  <2>3. NoOverlap'
    BY <1>5, <2>2 DEF OneBlockInv, NoOverlap
  <2>4. \A g \in Holders \ {h} : s \notin RegionBlocks(ptr[g])
    BY <2>1 DEF OneBlockInv, NoOverlap
  <2>5. \A b \in Pool :
          b \notin FreeBlocks' <=> \E g \in Holders : b \in RegionBlocks(ptr'[g])
    <3> SUFFICES ASSUME NEW b \in Pool
                 PROVE  b \notin FreeBlocks' <=>
                          \E g \in Holders : b \in RegionBlocks(ptr'[g])
      OBVIOUS
    <3>1. CASE b = s
      BY <1>5, <2>1, <2>2, <2>4, <3>1
    <3>2. CASE b # s
      <4>1. \A g \in Holders : b \in RegionBlocks(ptr'[g]) <=> b \in RegionBlocks(ptr[g])
        BY <1>5, <2>1, <2>2, <3>2
      <4>2. b \notin run
        BY <2>1, <3>2
      <4> QED BY <1>3, <2>2, <4>1, <4>2 DEF OneBlockInv
    <3> QED BY <3>1, <3>2
  <2> QED BY <1>1, <1>4, <2>1, <2>2, <2>3, <2>5 DEF OneBlockInv
<1>8. CASE UNCHANGED vars
  BY <1>8 DEF OneBlockInv, TypeOK, NoOverlap, vars
<1> QED BY <1>6, <1>7, <1>8 DEF Next, Request, MallocFails, vars

LEMMA OneBlockInit == Init => OneBlockInv
<1> SUFFICES ASSUME Init PROVE OneBlockInv
  OBVIOUS
<1>1. TypeOK
  BY DEF Init, TypeOK
<1>2. \A h \in Holders : RegionBlocks(ptr[h]) = {} /\ ptr[h] = NULL
  BY DEF Init, RegionBlocks, NULL, NoBlock
<1>3. \A b \in Pool : is_free_block(table[b]) /\ ~has_next(table[b])
  BY DEF Init, HEAP_BLOCK_TABLE_ENTRY_FREE, is_free_block, has_next
<1> QED BY <1>1, <1>2, <1>3 DEF OneBlockInv, NoOverlap

\* With requests of one block each, every block that is taken is somebody's:
\* heap_free loses nothing, in whatever order regions are freed.
THEOREM NothingLeaks == OneBlock /\ Spec => []NoLeak
<1> SUFFICES ASSUME OneBlock PROVE Spec => []NoLeak
  OBVIOUS
<1>1. OneBlockInv => NoLeak
  BY DEF OneBlockInv, NoLeak
<1>2. OneBlockInv /\ [Next]_vars => OneBlockInv'
  BY OneBlockStep
<1> QED BY <1>1, <1>2, OneBlockInit, PTL DEF Spec

\* With requests of one block each the heap implements the allocator that
\* never loses a block.
THEOREM OneBlockHeapIsExact == OneBlock /\ Spec => ImplementsExact
<1> SUFFICES ASSUME OneBlock PROVE Spec => ImplementsExact
  OBVIOUS
<1> DEFINE held == [h \in Holders |-> RegionBlocks(ptr[h])]
           spare == FreeBlocks \cap Pool
<1>1. Init => Exact!ExactInit
  <2> SUFFICES ASSUME Init PROVE held = [h \in Holders |-> {}] /\ spare = Pool
    BY DEF Exact!ExactInit
  <2>1. held = [h \in Holders |-> {}]
    BY DEF Init, RegionBlocks, NULL, NoBlock
  <2>2. spare = Pool
    BY HeapTableAssumption
    DEF Init, FreeBlocks, HEAP_BLOCK_TABLE_ENTRY_FREE, is_free_block, Pool, Entries
  <2> QED BY <2>1, <2>2
<1>2. OneBlockInv /\ [Next]_vars => [Exact!ExactNext]_(Exact!allocVars)
  <2> SUFFICES ASSUME OneBlockInv, [Next]_vars
               PROVE  [Exact!ExactNext]_(Exact!allocVars)
    OBVIOUS
  <2>1. ASSUME NEW h \in Holders, NEW size \in Sizes, Malloc(h, size)
        PROVE  [Exact!ExactNext]_(Exact!allocVars)
    <3> DEFINE B == RegionBlocks(ptr'[h])
    <3>1. /\ B \subseteq spare
          /\ B # {}
          /\ spare' = spare \ B
          /\ held[h] = {}
          /\ held' = [held EXCEPT ![h] = B]
      BY <2>1, MallocGrants, OneBlockMalloc DEF OneBlockInv
    <3> HIDE DEF spare, held, B
    <3>2. \E g \in Holders : \E C \in SUBSET spare :
            held[g] = {} /\ C # {} /\ held' = [held EXCEPT ![g] = C] /\ spare' = spare \ C
      BY <3>1
    <3> QED BY <3>2 DEF spare, held, Exact!ExactNext, Exact!Grant
  <2>2. ASSUME NEW h \in Holders, Free(h)
        PROVE  [Exact!ExactNext]_(Exact!allocVars)
    <3>1. /\ held[h] = {ptr[h].at}
          /\ spare' = spare \cup held[h]
      BY <2>2, FreeReleases, OneBlockFree DEF OneBlockInv
    <3>2. held' = [held EXCEPT ![h] = {}]
      <4>1. RegionBlocks(NULL) = {}
        BY DEF RegionBlocks, NULL, NoBlock
      <4>2. \A g \in Holders :
              RegionBlocks(ptr'[g]) = IF g = h THEN {} ELSE RegionBlocks(ptr[g])
        BY <2>2, <4>1, FreeReleases DEF OneBlockInv
      <4> QED BY <4>2
    <3> QED BY <3>1, <3>2 DEF Exact!ExactNext, Exact!Release
  <2>3. CASE UNCHANGED vars
    BY <2>3 DEF vars, Exact!allocVars, FreeBlocks
  <2> QED BY <2>1, <2>2, <2>3 DEF Next, Request, MallocFails, vars
<1>3. OneBlockInv /\ [Next]_vars => OneBlockInv'
  BY OneBlockStep
<1> QED BY <1>1, <1>2, <1>3, OneBlockInit, PTL DEF Spec, ImplementsExact, Exact!ExactSpec

=============================================================================
