------------------------------- MODULE Files -------------------------------
(***************************************************************************)
(* The file layer (fs/file.c) over the path parser (fs/pparser.c), FAT16's *)
(* open and close (fs/fat/fat16.c) and the heap: which objects a call      *)
(* allocates and frees, in order, and who points to them.                  *)
(*                                                                         *)
(* Each of these objects fits in one block, so the heap is the exact       *)
(* allocator of HeapProofs!OneBlockHeapIsExact, which hands out the first  *)
(* free block.  kheap_free clears what it frees; kheap_zalloc returns NULL *)
(* when every block is taken.  Where the code goes on through a NULL       *)
(* pointer, or an object that was freed and is now another's, pc becomes   *)
(* "wild" and nothing more is said.                                        *)
(***************************************************************************)
EXTENDS Fat16Dir

CONSTANTS
  Volumes,            \* the volumes that may be mounted
  Root,               \* the node of the root directory
  Broken,             \* directories whose cluster chain ends before their entries do
  Requests,           \* what fopen is called with: a path and a mode
  DemoPaths,          \* the paths demo_pparser parses
  MAX_FILEDESCRIPTORS,
  Blocks              \* the number of blocks of the heap

\* What the parser makes of a path.
PathRoots == [parses : BOOLEAN, drive : 0 .. 9, names : Seq(Names) \ {<<>>}]

\* get_file_mode
Modes == {"r", "w", "a", "invalid"}

ASSUME FilesAssumption ==
  /\ Root \in Nodes
  /\ Broken \subseteq Nodes \ {Root}
  /\ Volumes \subseteq [Nodes -> Listing]
  \* No entry is of the root directory: it has no cluster.
  /\ \A v \in Volumes : \A n \in Nodes : \A i \in Used(v[n]) : v[n][i].node # Root
  /\ Requests \subseteq [path : PathRoots, mode : Modes]
  /\ DemoPaths \subseteq {p \in PathRoots : p.parses}
  /\ MAX_FILEDESCRIPTORS \in Nat \ {0}
  /\ Blocks \in Nat /\ Blocks > 5

Addr == 0 .. (Blocks - 1)
NULL == -1

\* What the calls return: no error, or one of the negative ones.
OK == 0
Error == -1

Descriptors == 1 .. MAX_FILEDESCRIPTORS

VARIABLES
  volume,   \* what is on the disk; nothing in the kernel writes it
  mounted,  \* root_disk.filesystem is set
  heap,     \* heap[a]: the object in block a
  table,    \* filedescriptors[fd - 1]
  pc,       \* where the call in course is
  call,     \* that call, or the last one: its arguments, and what was lost and
            \* how many blocks were free before it
  parsed,   \* the blocks of the parsed path
  k,        \* the component of the path that is parsed or looked up
  fatd,     \* fat16_open: descriptor
  cur,      \* fat16_get_directory_entry: current_item
  tmp,      \* and tmp_item, or root_item
  ret       \* what the last call returned

locals == <<parsed, k, fatd, cur, tmp>>
vars == <<volume, mounted, heap, table, pc, call, locals, ret>>

-----------------------------------------------------------------------------
(* The heap *)

\* kind: the type of the object; to: the object it points to;
\* of: the file or directory it is about, or a descriptor's index.
Object(kind, to, of) == [kind |-> kind, to |-> to, of |-> of]

Free == Object("free", NULL, Root)

Kinds ==
  {"free", "fs", "path", "fatdesc", "file", "dir",
   "directory", "entries", "clone", "desc"}

Spare == {a \in Addr : heap[a].kind = "free"}

Full == Spare = {}

\* What kheap_zalloc returns.
Fresh == CHOOSE a \in Spare : \A b \in Spare : a <= b

With(obj) == [heap EXCEPT ![Fresh] = obj]

Without(blocks) == [a \in Addr |-> IF a \in blocks THEN Free ELSE heap[a]]

Is(a, kind) == a \in Addr /\ heap[a].kind = kind

To(a) == IF a \in Addr THEN heap[a].to ELSE NULL

\* A slip in fat16_directory_free: the entries are not freed.
ItemWithoutEntries(i) == {i, To(i)} \ {NULL}

\* What fat16_fat_item_free frees: an item and its copy of the directory
\* entry, or its directory and that one's entries.
ItemBlocks(i) == {i, To(i), To(To(i))} \ {NULL}

\* What an issued descriptor holds.
HeldBy(fd) == {table[fd], To(table[fd])} \cup ItemBlocks(To(To(table[fd])))

Issued == {fd \in Descriptors : table[fd] # NULL}

\* What nothing points to any more, between two calls.
Lost ==
  {a \in Addr : heap[a].kind \notin {"free", "fs"}}
    \ UNION {HeldBy(fd) : fd \in Issued}

-----------------------------------------------------------------------------
(* Initialisation *)

\* The path of a call that has none.
NoPath == [names |-> <<>>, parses |-> FALSE, drive |-> 0]

Init ==
  /\ volume \in Volumes
  /\ mounted = FALSE
  /\ heap = [a \in Addr |-> Free]
  /\ table = [fd \in Descriptors |-> NULL]
  /\ pc = "boot"
  /\ call = [op |-> "other", path |-> NoPath, mode |-> "r",
             lost |-> {}, room |-> Blocks]
  /\ parsed = {} /\ k = 0 /\ fatd = NULL /\ cur = NULL /\ tmp = NULL
  /\ ret = 0

\* The blocks of the three streamers and of the root directory's entries.
fat16_init_private == {1, 2, 3}
fat16_get_root_directory == {5}

\* The private data are in block 0; the streamer in block 4 is closed.  When
\* the volume is another's, the private data are freed but not its streamers.
fat16_resolve(ours) ==
  /\ pc = "boot"
  /\ mounted' = ours
  /\ heap' = [a \in Addr |->
                IF \/ a \in fat16_init_private
                   \/ ours /\ a \in {0} \cup fat16_get_root_directory
                  THEN Object("fs", NULL, Root)
                  ELSE Free]
  /\ pc' = "idle"
  /\ UNCHANGED <<volume, table, call, locals, ret>>

-----------------------------------------------------------------------------
(* fopen: the path *)

Return(r) ==
  /\ ret' = r
  /\ pc' = "idle"

Start(op, path, mode) ==
  /\ pc = "idle"
  /\ call' = [op |-> op, path |-> path, mode |-> mode,
              lost |-> Lost, room |-> Cardinality(Spare)]
  /\ parsed' = {} /\ k' = 1 /\ fatd' = NULL /\ cur' = NULL /\ tmp' = NULL

fopen(path, mode) ==
  /\ Start("fopen", path, mode)
  /\ pc' = "root"
  /\ UNCHANGED <<volume, mounted, heap, table, ret>>

\* It parses a path and frees what it got.
demo_pparser(path) ==
  /\ Start("demo_pparser", path, "r")
  /\ pc' = "root"
  /\ UNCHANGED <<volume, mounted, heap, table, ret>>

Parse ==
  /\ ~Full
  /\ heap' = With(Object("path", NULL, Root))
  /\ parsed' = parsed \cup {Fresh}
  /\ UNCHANGED <<volume, mounted, table, call, fatd, cur, tmp>>

\* A path that does not parse leaves the root behind.
ParseRoot ==
  /\ pc = "root"
  /\ Parse
  /\ IF call.path.parses
       THEN pc' = "part" /\ UNCHANGED ret
       ELSE Return(0)
  /\ UNCHANGED k

ParsePart ==
  /\ pc = "part"
  /\ Parse
  /\ pc' = "name"
  /\ UNCHANGED <<k, ret>>

\* The parser calls itself for the next part.
ParseName ==
  /\ pc = "name"
  /\ Parse
  /\ IF k < Len(call.path.names)
       THEN pc' = "part" /\ k' = k + 1
       ELSE pc' = "resolve" /\ k' = 1
  /\ UNCHANGED ret

pparser_free_path_root ==
  /\ pc = "resolve"
  /\ call.op = "demo_pparser"
  /\ heap' = Without(parsed)
  /\ Return(0)
  /\ UNCHANGED <<volume, mounted, table, call, locals>>

-----------------------------------------------------------------------------
(* fopen: the lookup of fat16_open *)

\* Drive 0 is the only disk, and fat16_open takes the mode "r" only.
Refused ==
  /\ pc = "resolve"
  /\ call.op = "fopen"
  /\ call.path.drive # 0 \/ ~mounted \/ call.mode # "r" \/ Full
  /\ Return(0)
  /\ UNCHANGED <<volume, mounted, heap, table, call, locals>>

fat16_open ==
  /\ pc = "resolve"
  /\ call.op = "fopen"
  /\ call.path.drive = 0 /\ mounted /\ call.mode = "r" /\ ~Full
  /\ fatd' = Fresh
  /\ heap' = With(Object("fatdesc", NULL, Root))
  /\ pc' = "lookup"
  /\ UNCHANGED <<volume, mounted, table, call, parsed, k, cur, tmp, ret>>

\* A slip in fat16_get_directory_entry: every component is looked up in the root.
SearchedRoot == volume[Root]

\* The directory searched for component k.  One that was freed and is still
\* free is all zeros: its total is 0.
Searched ==
  IF k = 1
    THEN volume[Root]
    ELSE IF Is(To(cur), "directory") THEN volume[heap[To(cur)].of] ELSE <<>>

Found == Matches(Searched, call.path.names[k]) # {}

Entry == Searched[FirstMatch(Searched, call.path.names[k])]

\* fat16_get_item_in_directory returns no item: the name is not there, or
\* the heap is full.
NotFound ==
  /\ pc = "lookup"
  /\ k > 1 => To(cur) # NULL
  /\ ~Found \/ Full
  /\ pc' = "next"
  /\ UNCHANGED <<volume, mounted, heap, table, call, locals, ret>>

fat16_new_fat_item ==
  /\ pc = "lookup"
  /\ k > 1 => To(cur) # NULL
  /\ Found /\ ~Full
  /\ heap' = With(Object(IF Entry.subdirectory THEN "dir" ELSE "file", NULL, Entry.node))
  /\ tmp' = Fresh
  /\ pc' = IF Entry.subdirectory THEN "load" ELSE "clone"
  /\ UNCHANGED <<volume, mounted, table, call, parsed, k, fatd, cur, ret>>

\* The item points to a new object, or to NULL when there is none.
PointTo(kind) ==
  heap' = IF Full
            THEN heap
            ELSE [With(Object(kind, NULL, heap[tmp].of)) EXCEPT ![tmp].to = Fresh]

fat16_clone_directory_item ==
  /\ pc = "clone"
  /\ PointTo("clone")
  /\ pc' = "next"
  /\ UNCHANGED <<volume, mounted, table, call, locals, ret>>

AllocateDirectory ==
  /\ pc = "load"
  /\ PointTo("directory")
  /\ pc' = IF Full THEN "next" ELSE "entries"
  /\ UNCHANGED <<volume, mounted, table, call, locals, ret>>

Total == fat16_get_total_items_for_directory(volume[heap[tmp].of])

\* A directory without entries asks for 0 bytes: it gets the address of a
\* block that stays free, and reads nothing.
LoadEntries ==
  /\ pc = "entries"
  /\ ~Full
  /\ Total > 0 => heap[tmp].of \notin Broken
  /\ LET filled == IF Total > 0 THEN With(Object("entries", NULL, heap[tmp].of)) ELSE heap
     IN heap' = [filled EXCEPT ![heap[tmp].to].to = Fresh]
  /\ pc' = "next"
  /\ UNCHANGED <<volume, mounted, table, call, locals, ret>>

\* The directory is freed, and its address returned all the same.
LoadFails ==
  /\ pc = "entries"
  /\ Full \/ (Total > 0 /\ heap[tmp].of \in Broken)
  /\ heap' = Without({heap[tmp].to})
  /\ pc' = "next"
  /\ UNCHANGED <<volume, mounted, table, call, locals, ret>>

Last == k = Len(call.path.names)

\* A slip in fat16_get_directory_entry: it frees the item it found.
FreesFound == IF k > 1 THEN Without(ItemBlocks(tmp)) ELSE heap

\* fat16_get_directory_entry frees the item it searched.
AfterFree == IF k > 1 THEN Without(ItemBlocks(cur)) ELSE heap

\* A slip in its loop: next_part stays.
DescendSamePart ==
  /\ pc = "next"
  /\ ~Last
  /\ Is(tmp, "dir")
  /\ heap' = AfterFree
  /\ cur' = tmp
  /\ tmp' = NULL
  /\ pc' = "lookup"
  /\ UNCHANGED <<volume, mounted, table, call, parsed, k, fatd, ret>>

Descend ==
  /\ pc = "next"
  /\ ~Last
  /\ Is(tmp, "dir")
  /\ heap' = AfterFree
  /\ cur' = tmp
  /\ tmp' = NULL
  /\ k' = k + 1
  /\ pc' = "lookup"
  /\ UNCHANGED <<volume, mounted, table, call, parsed, fatd, ret>>

\* The path ends here, or goes on below a file: fat16_open returns -EIO and
\* keeps its descriptor, and the file's item.
OpenFails ==
  /\ pc = "next"
  /\ \/ tmp = NULL /\ (Last \/ k = 1)
     \/ ~Last /\ Is(tmp, "file")
  /\ heap' = AfterFree
  /\ Return(0)
  /\ UNCHANGED <<volume, mounted, table, call, locals>>

OpenSucceeds ==
  /\ pc = "next"
  /\ Last
  /\ tmp # NULL
  /\ heap' = [AfterFree EXCEPT ![fatd].to = tmp]
  /\ pc' = "descriptor"
  /\ UNCHANGED <<volume, mounted, table, call, locals, ret>>

Slots == {fd \in Descriptors : table[fd] = NULL}

\* A slip in file_new_descriptor: a slot is taken whether free or not.
AnySlot == CHOOSE fd \in Descriptors : \A g \in Descriptors : fd <= g

\* Another slip: the index counts from 0.
SlotFromZero == (CHOOSE fd \in Slots : \A g \in Slots : fd <= g) - 1

FreeSlot == CHOOSE fd \in Slots : \A g \in Slots : fd <= g

file_new_descriptor ==
  /\ pc = "descriptor"
  /\ Slots # {} /\ ~Full
  /\ heap' = With(Object("desc", fatd, FreeSlot))
  /\ table' = [table EXCEPT ![FreeSlot] = Fresh]
  /\ Return(FreeSlot)
  /\ UNCHANGED <<volume, mounted, call, locals>>

\* What fat16_open built is kept.
NoSlot ==
  /\ pc = "descriptor"
  /\ Slots = {}
  /\ Return(0)
  /\ UNCHANGED <<volume, mounted, heap, table, call, locals>>

-----------------------------------------------------------------------------
(* The other calls *)

\* file_get_descriptor refuses the last number file_new_descriptor issues.
Accepted(fd) == fd \in 1 .. (MAX_FILEDESCRIPTORS - 1) /\ table[fd] # NULL

\* The objects fclose, fseek, fread and fstat go through are what the code
\* takes them for.
Sound(fd) ==
  LET item == To(To(table[fd]))
  IN /\ Is(table[fd], "desc")
     /\ Is(To(table[fd]), "fatdesc")
     /\ \/ Is(item, "file") /\ Is(To(item), "clone")
        \/ Is(item, "dir") /\ (To(item) # NULL => heap[To(item)].kind \in {"directory", "free"})

Use == Start("other", NoPath, "r")

Rejected(op, fd) ==
  /\ Use
  /\ ~Accepted(fd)
  /\ Return(Error)
  /\ UNCHANGED <<volume, mounted, heap, table>>

\* fseek and fstat refuse directories.  fread takes the directory for an
\* item, in which the bytes of the first cluster are 0: reading cluster 0 fails.
Served(op, fd) ==
  /\ Use
  /\ Accepted(fd) /\ Sound(fd)
  /\ op = "fread" => To(To(To(table[fd]))) # NULL
  /\ Return(IF Is(To(To(table[fd])), "file") THEN OK ELSE Error)
  /\ UNCHANGED <<volume, mounted, heap, table>>

\* What is freed before file_descriptor_free.
fat16_close(fd) == {To(table[fd])} \cup ItemBlocks(To(To(table[fd])))

\* It finds the slot by the descriptor's index, which is 0 when fat16_close
\* cleared the descriptor itself.
file_descriptor_free(fd) ==
  IF table[fd] \in fat16_close(fd)
    THEN table
    ELSE [table EXCEPT ![heap[table[fd]].of] = NULL]

fclose(fd) ==
  /\ Use
  /\ Accepted(fd) /\ Sound(fd)
  /\ heap' = Without(fat16_close(fd) \cup {table[fd]})
  /\ table' = file_descriptor_free(fd)
  /\ Return(OK)
  /\ UNCHANGED <<volume, mounted>>

Calls == {"fseek", "fread", "fstat", "fclose"}

-----------------------------------------------------------------------------
(* Undefined behaviour *)

\* Parser and file_new_descriptor use what kheap_zalloc returned untested;
\* a path that goes on below a missing component, or below a directory that
\* could not be allocated, is looked up through NULL.
ThroughNull ==
  \/ pc \in {"root", "part", "name"} /\ Full
  \/ pc = "descriptor" /\ Slots # {} /\ Full
  \/ pc = "lookup" /\ k > 1 /\ To(cur) = NULL
  \/ pc = "next" /\ ~Last /\ k > 1 /\ tmp = NULL

GoesWild ==
  /\ ThroughNull
  /\ pc' = "wild"
  /\ UNCHANGED <<volume, mounted, heap, table, call, locals, ret>>

\* Descriptor 0, which is what fopen returns when it fails, is looked up in
\* front of the table, except by fread; a descriptor whose objects were
\* freed is used.
UseGoesWild(op, fd) ==
  /\ Use
  /\ \/ fd = 0 /\ op # "fread"
     \/ Accepted(fd) /\ ~Sound(fd)
     \/ Accepted(fd) /\ op = "fread" /\ To(To(To(table[fd]))) = NULL
  /\ pc' = "wild"
  /\ UNCHANGED <<volume, mounted, heap, table, ret>>

-----------------------------------------------------------------------------

Mount == \E ours \in BOOLEAN : fat16_resolve(ours)

OpenStep ==
  \/ ParseRoot \/ ParsePart \/ ParseName \/ pparser_free_path_root
  \/ Refused \/ fat16_open
  \/ NotFound \/ fat16_new_fat_item \/ fat16_clone_directory_item
  \/ AllocateDirectory \/ LoadEntries \/ LoadFails
  \/ Descend \/ OpenFails \/ OpenSucceeds
  \/ file_new_descriptor \/ NoSlot
  \/ GoesWild

Opening ==
  \/ \E path \in DemoPaths : demo_pparser(path)
  \/ \E r \in Requests : fopen(r.path, r.mode)

Using ==
  \E fd \in {0} \cup Descriptors :
    \/ fclose(fd)
    \/ \E op \in Calls \ {"fclose"} : Served(op, fd)
    \/ \E op \in Calls : Rejected(op, fd) \/ UseGoesWild(op, fd)

Next == Mount \/ OpenStep \/ Opening \/ Using

Spec == Init /\ [][Next]_vars

-----------------------------------------------------------------------------
(* Properties *)

TypeOK ==
  /\ volume \in Volumes
  /\ mounted \in BOOLEAN
  /\ heap \in [Addr -> [kind : Kinds, to : Addr \cup {NULL}, of : Nodes \cup Descriptors]]
  /\ table \in [Descriptors -> Addr \cup {NULL}]
  /\ pc \in {"boot", "idle", "root", "part", "name", "resolve", "lookup", "clone",
             "load", "entries", "next", "descriptor", "wild"}
  /\ call \in [op : {"fopen", "demo_pparser", "other"},
               path : DemoPaths \cup {r.path : r \in Requests} \cup {NoPath}, mode : Modes,
               lost : SUBSET Addr, room : 0 .. Blocks]
  /\ parsed \in SUBSET Addr
  /\ k \in Nat
  /\ {fatd, cur, tmp} \subseteq Addr \cup {NULL}
  /\ ret \in {OK, Error} \cup Descriptors

Item(fd) == To(To(table[fd]))

\* The objects of an issued descriptor, but for a directory's own.
Core(fd) ==
  {table[fd], To(table[fd]), Item(fd)}
    \cup (IF Is(Item(fd), "file") THEN {To(Item(fd))} \ {NULL} ELSE {})

\* Through every sequence of calls, those that fail halfway included, the
\* objects of an issued descriptor stay allocated, stay what the code takes
\* them for, and belong to no other descriptor.
DescriptorsIntact ==
  \A fd \in Issued :
    /\ Is(table[fd], "desc") /\ heap[table[fd]].of = fd
    /\ Is(To(table[fd]), "fatdesc")
    /\ \/ Is(Item(fd), "dir")
       \/ Is(Item(fd), "file") /\ (To(Item(fd)) # NULL => Is(To(Item(fd)), "clone"))
    /\ \A g \in Issued \ {fd} : Core(fd) \cap Core(g) = {}

Opened == pc = "idle" /\ call.op = "fopen" /\ ret \in Descriptors

Denoted == Walk(volume, Root, call.path.names)

\* A descriptor fopen returns is of the file or directory its path denotes,
\* found by the lookups component by component.
OpensWhatPathDenotes ==
  Opened =>
    /\ call.path.parses /\ call.path.drive = 0 /\ call.mode = "r"
    /\ Denoted # Nowhere
    /\ heap[Item(ret)].of = Denoted.node
    /\ Is(Item(ret), "dir") <=> Denoted.subdirectory

\* Blocks enough for a path of n components: what stays of it, and the two
\* directories the descent holds at once.
Needed(n) == 2 * n + 8

Sufficient == call.room >= Needed(Len(call.path.names))

\* The directories a path leads through or to.
OnPath ==
  {Root} \cup {Walk(volume, Root, SubSeq(call.path.names, 1, j)).node :
                 j \in {j \in 1 .. Len(call.path.names) :
                          Walk(volume, Root, SubSeq(call.path.names, 1, j)) # Nowhere}}

\* A path of a file or directory that exists is opened when there are room
\* on the heap and a free descriptor.
FoundIfThere ==
  /\ pc = "idle" /\ call.op = "fopen" /\ ret = 0 /\ mounted
  /\ call.mode = "r" /\ call.path.parses /\ call.path.drive = 0
  /\ Denoted # Nowhere
  => ~Sufficient \/ Slots = {}

\* The same, as long as no directory on the path has a deleted entry or
\* cannot be read.
FoundIfNoneDeleted ==
  FoundIfThere \/ \E n \in OnPath : n \in Broken \/ HasDeleted(volume[n])

\* A component that is not the last one is missing, and not the first one.
MissingInside ==
  \E j \in 2 .. (Len(call.path.names) - 1) :
    Walk(volume, Root, SubSeq(call.path.names, 1, j)) = Nowhere

\* With room on the heap a call of fopen never runs into a NULL pointer,
\* unless a component in the middle of its path is missing, or cannot be
\* found.
SafeWithRoom ==
  pc = "wild" /\ call.op \in {"fopen", "demo_pparser"} /\ Sufficient =>
    MissingInside \/ \E n \in OnPath : n \in Broken \/ HasDeleted(volume[n])

LostNow == {heap[a].kind : a \in Lost \ call.lost}

\* A component that is not the last one is a file.
BelowFile ==
  \E j \in 1 .. (Len(call.path.names) - 1) :
    LET w == Walk(volume, Root, SubSeq(call.path.names, 1, j))
    IN w # Nowhere /\ ~w.subdirectory

\* What a call leaves allocated that nothing points to: fopen the parsed
\* path, and when it fails its descriptor, with the item if the descent ended
\* at a file or no slot was free; the other calls nothing.
NothingElseLost ==
  pc = "idle" =>
    LostNow \subseteq
      CASE call.op = "fopen" /\ ret # 0 -> {"path"}
        [] call.op = "fopen" /\ ret = 0 ->
             {"path", "fatdesc"}
               \cup (IF BelowFile \/ Slots = {}
                       THEN {"file", "clone", "dir", "directory", "entries"}
                       ELSE {})
        [] OTHER -> {}

\* A bound on the steps until the call in course returns: two to parse a
\* component and four to look it up.
StepsLeft ==
  LET n == Len(call.path.names)
      rest == n - k
  IN CASE pc = "root"               -> 6 * n + 3
       [] pc = "part"               -> 4 * n + 2 * rest + 4
       [] pc = "name"               -> 4 * n + 2 * rest + 3
       [] pc = "resolve"            -> 4 * n + 2
       [] pc = "lookup"             -> 4 * rest + 5
       [] pc = "load"               -> 4 * rest + 4
       [] pc \in {"clone", "entries"} -> 4 * rest + 3
       [] pc = "next"               -> 4 * rest + 2
       [] pc = "descriptor"         -> 1
       [] OTHER                     -> 0

\* Every step of fopen or of the parser takes the call nearer to its return, on
\* every volume: also along `..` and in directories that contain each other it
\* is the path that ends the descent.
CallsAdvance ==
  [][pc \notin {"boot", "idle", "wild"} => StepsLeft' \in 0 .. (StepsLeft - 1)]_vars


\* The table of open files that fopen and fclose present.
Promised == INSTANCE FileTable WITH
  file <- [fd \in Descriptors |->
             IF table[fd] = NULL THEN Root ELSE heap[Item(fd)].of],
  Closed <- Root

\* fopen issues a number that is not in use, for one file or directory, and
\* it stays that one's until fclose.
ImplementsFileTable == Promised!Spec

=============================================================================
