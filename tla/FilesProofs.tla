----------------------------- MODULE FilesProofs -----------------------------
(***************************************************************************)
(* Proofs about the file layer, for every volume, path, number of          *)
(* descriptors and size of the heap.                                       *)
(***************************************************************************)
EXTENDS Files, Arithmetic, FiniteSetTheorems, SequenceTheorems

-----------------------------------------------------------------------------
(* Choosing *)

\* kheap_zalloc returns a free block when there is one.
LEMMA FreshIsSpare ==
  ASSUME ~Full
  PROVE  Fresh \in Spare
<1>1. Spare \subseteq Nat /\ Spare # {}
  BY FilesAssumption DEF Full, Spare, Addr
<1>2. \E s \in Spare : \A t \in Spare : s <= t
  BY <1>1, LeastExists
<1> QED BY <1>2 DEF Fresh

LEMMA FreeSlotIsSlot ==
  ASSUME Slots # {}
  PROVE  FreeSlot \in Slots
<1>1. Slots \subseteq Nat
  BY FilesAssumption DEF Slots, Descriptors
<1>2. \E s \in Slots : \A t \in Slots : s <= t
  BY <1>1, LeastExists
<1> QED BY <1>2 DEF FreeSlot

\* The lookup stops at an entry that is used and has the name.
LEMMA FirstMatchIsMatch ==
  ASSUME NEW d \in Listing, NEW name, Matches(d, name) # {}
  PROVE  FirstMatch(d, name) \in Matches(d, name)
<1>1. Matches(d, name) \subseteq Nat
  BY DEF Matches, Used, Listing
<1>2. \E s \in Matches(d, name) : \A t \in Matches(d, name) : s <= t
  BY <1>1, LeastExists
<1> QED BY <1>2 DEF FirstMatch

LEMMA MatchIsItem ==
  ASSUME NEW d \in Listing, NEW name, NEW i \in Matches(d, name)
  PROVE  /\ i \in Used(d)
         /\ d[i] \in DirectoryItem
         /\ d[i].name = name
<1>1. i \in DOMAIN d /\ d[i] # Deleted /\ d[i].name = name /\ i \in Used(d)
  BY DEF Matches, Used
<1>2. d[i] \in DirectoryItem \cup {Deleted}
  BY <1>1 DEF Listing
<1> QED BY <1>1, <1>2

-----------------------------------------------------------------------------
(* Types *)

Objects == [kind : Kinds, to : Addr \cup {NULL}, of : Nodes \cup Descriptors]

\* Every object but a descriptor is about a node, and an item about another
\* one than the root.
AboutNodes ==
  \A a \in Addr :
    /\ heap[a].kind # "desc" => heap[a].of \in Nodes
    /\ heap[a].kind \in {"file", "dir"} => heap[a].of # Root

\* The item whose directory entry, directory or entries are next.
ItemInCourse ==
  pc \in {"clone", "load", "entries"} =>
    tmp \in Addr /\ heap[tmp].kind \in {"file", "dir"}

TInv == TypeOK /\ AboutNodes /\ ItemInCourse

LEMMA PathTyped ==
  ASSUME NEW p \in DemoPaths \cup {r.path : r \in Requests} \cup {NoPath}
  PROVE  p.names \in Seq(Names)
<1>1. CASE p \in DemoPaths
  BY <1>1, FilesAssumption DEF PathRoots
<1>2. CASE p \in {r.path : r \in Requests}
  <2>1. PICK r \in Requests : p = r.path
    BY <1>2
  <2>2. p \in PathRoots
    BY <2>1, FilesAssumption
  <2> QED BY <2>2 DEF PathRoots
<1>3. CASE p = NoPath
  BY <1>3 DEF NoPath
<1> QED BY <1>1, <1>2, <1>3

LEMMA NullApart == NULL \notin Addr
  BY DEF NULL, Addr

LEMMA SpareCounted ==
  Cardinality(Spare) \in 0 .. Blocks
<1>1. IsFiniteSet(Addr) /\ Cardinality(Addr) = Blocks
  BY FS_Interval, FilesAssumption DEF Addr
<1>2. Spare \subseteq Addr
  BY DEF Spare
<1> QED BY <1>1, <1>2, FS_Subset, FS_CardinalityType, FilesAssumption

\* What is searched is the listing of a directory, or nothing.
LEMMA SearchedTyped ==
  ASSUME TInv
  PROVE  Searched \in Listing
<1>1. volume \in [Nodes -> Listing]
  BY FilesAssumption DEF TInv, TypeOK
<1>2. <<>> \in Listing
  BY DEF Listing
<1>3. Is(To(cur), "directory") => heap[To(cur)].of \in Nodes
  BY DEF TInv, AboutNodes, Is
<1> QED BY <1>1, <1>2, <1>3, FilesAssumption DEF Searched

LEMMA EntryTyped ==
  ASSUME TInv, Found
  PROVE  Entry \in DirectoryItem /\ Entry.node # Root
<1>1. Searched \in Listing
  BY SearchedTyped
<1>2. FirstMatch(Searched, call.path.names[k]) \in Matches(Searched, call.path.names[k])
  BY <1>1, FirstMatchIsMatch DEF Found
<1>3. /\ Entry \in DirectoryItem
      /\ FirstMatch(Searched, call.path.names[k]) \in Used(Searched)
  BY <1>1, <1>2, MatchIsItem DEF Entry
<1>4. \A n \in Nodes : \A i \in Used(volume[n]) : volume[n][i].node # Root
  BY FilesAssumption DEF TInv, TypeOK
<1>5. (\E n \in Nodes : Searched = volume[n]) \/ Searched = <<>>
  BY FilesAssumption DEF Searched, TInv, AboutNodes, Is
<1>6. Searched # <<>>
  BY <1>3 DEF Used
<1> QED BY <1>3, <1>4, <1>5, <1>6 DEF Entry

Heaps == [Addr -> Objects]

LEMMA FreeTyped == Free \in Objects
  BY FilesAssumption DEF Free, Object, Objects, Kinds

\* What kheap_zalloc does to the heap.
LEMMA WithPuts ==
  ASSUME heap \in Heaps, ~Full, NEW obj \in Objects
  PROVE  /\ With(obj) \in Heaps
         /\ Fresh \in Addr
         /\ heap[Fresh].kind = "free"
         /\ With(obj)[Fresh] = obj
         /\ \A a \in Addr \ {Fresh} : With(obj)[a] = heap[a]
<1>1. Fresh \in Addr /\ heap[Fresh].kind = "free"
  BY FreshIsSpare DEF Spare
<1> QED BY <1>1 DEF With, Heaps

LEMMA WithoutTyped ==
  ASSUME heap \in Heaps, NEW S
  PROVE  Without(S) \in Heaps
  BY FreeTyped DEF Without, Heaps

\* What a directory, or the copy of a file's directory entry, does to it.
LEMMA PointToPuts ==
  ASSUME TInv, pc \in {"clone", "load"}, ~Full, NEW kind \in Kinds, PointTo(kind)
  PROVE  /\ heap' \in Heaps
         /\ Fresh \in Addr \ {tmp}
         /\ heap[Fresh].kind = "free"
         /\ heap'[Fresh] = Object(kind, NULL, heap[tmp].of)
         /\ heap'[tmp] = Object(heap[tmp].kind, Fresh, heap[tmp].of)
         /\ \A a \in Addr \ {Fresh, tmp} : heap'[a] = heap[a]
<1> DEFINE obj == Object(kind, NULL, heap[tmp].of)
<1>1. heap \in Heaps /\ tmp \in Addr /\ heap[tmp].kind \in {"file", "dir"}
  BY DEF TInv, TypeOK, ItemInCourse, Heaps, Objects
<1>2. obj \in Objects
  BY <1>1 DEF Object, Objects, Heaps
<1>3. /\ With(obj) \in Heaps
      /\ Fresh \in Addr
      /\ heap[Fresh].kind = "free"
      /\ With(obj)[Fresh] = obj
      /\ \A a \in Addr \ {Fresh} : With(obj)[a] = heap[a]
  BY <1>1, <1>2, WithPuts
<1>4. Fresh # tmp
  BY <1>1, <1>3
<1>5. heap' = [With(obj) EXCEPT ![tmp].to = Fresh]
  BY DEF PointTo
<1>6. With(obj)[tmp] = heap[tmp]
  BY <1>1, <1>3, <1>4
<1> HIDE DEF obj
<1>7. heap'[tmp] = [heap[tmp] EXCEPT !.to = Fresh]
  BY <1>1, <1>3, <1>5, <1>6 DEF Heaps
<1>8. heap'[tmp] = Object(heap[tmp].kind, Fresh, heap[tmp].of)
  BY <1>1, <1>7 DEF Object, Heaps, Objects
<1>9. heap'[tmp] \in Objects
  BY <1>1, <1>3, <1>8 DEF Object, Heaps, Objects
<1>10. heap' \in Heaps
  BY <1>1, <1>3, <1>5, <1>9 DEF Heaps
<1>11. heap'[Fresh] = With(obj)[Fresh] /\ \A a \in Addr \ {Fresh, tmp} : heap'[a] = With(obj)[a]
  BY <1>1, <1>3, <1>4, <1>5 DEF Heaps
<1> QED BY <1>1, <1>3, <1>4, <1>8, <1>10, <1>11 DEF obj

\* The entries of a directory, or none, make the directory point to them.
LEMMA LoadKeepsTypes ==
  ASSUME TInv, LoadEntries
  PROVE  heap' \in Heaps /\ AboutNodes'
<1> DEFINE obj == Object("entries", NULL, heap[tmp].of)
           filled == IF Total > 0 THEN With(obj) ELSE heap
<1>1. heap \in Heaps /\ tmp \in Addr /\ heap[tmp].kind \in {"file", "dir"} /\ ~Full
  BY DEF TInv, TypeOK, ItemInCourse, Heaps, Objects, LoadEntries
<1>2. obj \in Objects /\ obj.of \in Nodes /\ obj.kind = "entries"
  BY <1>1 DEF Object, Objects, Heaps, Kinds, TInv, AboutNodes
<1>3. /\ With(obj) \in Heaps
      /\ Fresh \in Addr
      /\ With(obj)[Fresh] = obj
      /\ \A a \in Addr \ {Fresh} : With(obj)[a] = heap[a]
  BY <1>1, <1>2, WithPuts
<1>4. /\ filled \in Heaps
      /\ \A a \in Addr : filled[a] = heap[a] \/ filled[a] = obj
  BY <1>1, <1>3
<1>5. heap' = [filled EXCEPT ![heap[tmp].to].to = Fresh]
  BY DEF LoadEntries
<1> HIDE DEF obj, filled
<1>6. heap' \in Heaps
  BY <1>3, <1>4, <1>5 DEF Heaps, Objects
<1>7. \A a \in Addr : heap'[a].kind = filled[a].kind /\ heap'[a].of = filled[a].of
  BY <1>3, <1>4, <1>5 DEF Heaps, Objects
<1> QED BY <1>2, <1>4, <1>6, <1>7 DEF TInv, AboutNodes

\* What is allocated keeps the heap's types when it is about a node.
LEMMA WithKeepsTypes ==
  ASSUME TInv, ~Full, NEW obj \in Objects, heap' = With(obj),
         obj.kind # "desc" => obj.of \in Nodes,
         obj.kind \in {"file", "dir"} => obj.of # Root
  PROVE  heap' \in Heaps /\ AboutNodes'
<1>1. heap \in Heaps
  BY DEF TInv, TypeOK, Heaps, Objects
<1>2. /\ With(obj) \in Heaps
      /\ With(obj)[Fresh] = obj
      /\ \A a \in Addr \ {Fresh} : With(obj)[a] = heap[a]
  BY <1>1, WithPuts
<1> QED BY <1>2 DEF AboutNodes, TInv

LEMMA WithoutKeepsTypes ==
  ASSUME TInv, NEW S, heap' = Without(S)
  PROVE  heap' \in Heaps /\ AboutNodes'
<1>1. heap \in Heaps
  BY DEF TInv, TypeOK, Heaps, Objects
<1>2. heap' \in Heaps
  BY <1>1, WithoutTyped
<1>3. \A a \in Addr : heap'[a] = heap[a] \/ heap'[a] = Free
  BY DEF Without
<1>4. Free.of \in Nodes /\ Free.kind = "free"
  BY FilesAssumption DEF Free, Object
<1> QED BY <1>2, <1>3, <1>4 DEF AboutNodes, TInv

\* What Start and Return do is typed.
LEMMA StartTyped ==
  ASSUME TInv, NEW op \in {"fopen", "demo_pparser", "other"}, NEW mode \in Modes,
         NEW path \in DemoPaths \cup {r.path : r \in Requests} \cup {NoPath},
         Start(op, path, mode)
  PROVE  /\ call' \in [op : {"fopen", "demo_pparser", "other"},
                       path : DemoPaths \cup {r.path : r \in Requests} \cup {NoPath},
                       mode : Modes, lost : SUBSET Addr, room : 0 .. Blocks]
         /\ parsed' \in SUBSET Addr
         /\ k' \in Nat
         /\ {fatd', cur', tmp'} \subseteq Addr \cup {NULL}
<1>1. Lost \in SUBSET Addr
  BY DEF Lost
<1>2. Cardinality(Spare) \in 0 .. Blocks
  BY SpareCounted
<1>3. call' = [op |-> op, path |-> path, mode |-> mode, lost |-> Lost, room |-> Cardinality(Spare)]
  BY DEF Start
<1>4. call' \in [op : {"fopen", "demo_pparser", "other"},
                 path : DemoPaths \cup {r.path : r \in Requests} \cup {NoPath},
                 mode : Modes, lost : SUBSET Addr, room : 0 .. Blocks]
  BY <1>1, <1>2, <1>3
<1> QED BY <1>4 DEF Start

\* Changing the heap only is all that matters to the types of the other
\* variables in the steps of fat16_open.
LEMMA OpenStepTyped ==
  ASSUME TInv, OpenStep
  PROVE  TInv'
<1>1. heap \in Heaps
  BY DEF TInv, TypeOK, Heaps, Objects
<1> USE DEF Return
<1>2. ASSUME Parse PROVE heap' \in Heaps /\ AboutNodes' /\ parsed' \in SUBSET Addr
  <2>1. Object("path", NULL, Root) \in Objects
    BY FilesAssumption DEF Object, Objects, Kinds
  <2>2. heap' \in Heaps /\ AboutNodes'
    BY <1>2, <2>1, FilesAssumption, WithKeepsTypes DEF Parse, Object
  <2>3. Fresh \in Addr
    BY <1>2, FreshIsSpare DEF Parse, Spare
  <2> QED BY <1>2, <2>2, <2>3 DEF Parse, TInv, TypeOK
<1>3. CASE ParseRoot
  BY <1>2, <1>3 DEF ParseRoot, Parse, TInv, TypeOK, ItemInCourse, OK, Heaps, Objects
<1>4. CASE ParsePart
  BY <1>2, <1>4 DEF ParsePart, Parse, TInv, TypeOK, ItemInCourse, OK, Heaps, Objects
<1>5. CASE ParseName
  BY <1>2, <1>5 DEF ParseName, Parse, TInv, TypeOK, ItemInCourse, OK, Heaps, Objects
<1>6. CASE pparser_free_path_root
  <2>1. heap' \in Heaps /\ AboutNodes'
    BY <1>6, WithoutKeepsTypes DEF pparser_free_path_root
  <2> QED BY <1>6, <2>1
          DEF pparser_free_path_root, TInv, TypeOK, ItemInCourse, OK, Heaps, Objects, locals
<1>7. CASE Refused
  BY <1>7 DEF Refused, TInv, TypeOK, AboutNodes, ItemInCourse, OK, locals
<1>8. CASE fat16_open
  <2>1. Object("fatdesc", NULL, Root) \in Objects
    BY FilesAssumption DEF Object, Objects, Kinds
  <2>2. heap' \in Heaps /\ AboutNodes'
    BY <1>8, <2>1, FilesAssumption, WithKeepsTypes DEF fat16_open, Object
  <2>3. Fresh \in Addr
    BY <1>8, FreshIsSpare DEF fat16_open, Spare
  <2> QED BY <1>8, <2>2, <2>3 DEF fat16_open, TInv, TypeOK, ItemInCourse, Heaps, Objects
<1>9. CASE NotFound
  BY <1>9 DEF NotFound, TInv, TypeOK, AboutNodes, ItemInCourse, locals
<1>10. CASE fat16_new_fat_item
  <2> DEFINE kind == IF Entry.subdirectory THEN "dir" ELSE "file"
  <2>1. Entry \in DirectoryItem /\ Entry.node # Root
    BY <1>10, EntryTyped DEF fat16_new_fat_item
  <2>2. kind \in {"file", "dir"} /\ Object(kind, NULL, Entry.node) \in Objects
    BY <2>1 DEF Object, Objects, Kinds, DirectoryItem
  <2>3. ~Full /\ heap' = With(Object(kind, NULL, Entry.node)) /\ tmp' = Fresh
    BY <1>10 DEF fat16_new_fat_item
  <2> HIDE DEF kind
  <2>4. Object(kind, NULL, Entry.node).of = Entry.node /\ Entry.node \in Nodes
    BY <2>1 DEF Object, DirectoryItem
  <2>5. heap' \in Heaps /\ AboutNodes'
    BY <2>1, <2>2, <2>3, <2>4, WithKeepsTypes
  <2>6. Fresh \in Addr /\ heap'[Fresh].kind \in {"file", "dir"}
    BY <1>1, <2>2, <2>3, WithPuts DEF Object
  <2> QED BY <1>10, <2>3, <2>5, <2>6
          DEF fat16_new_fat_item, TInv, TypeOK, ItemInCourse, Heaps, Objects
<1>11. ASSUME NEW kind \in Kinds \ {"desc", "file", "dir"}, PointTo(kind), pc \in {"clone", "load"}
       PROVE  /\ heap' \in Heaps /\ AboutNodes'
              /\ heap'[tmp].kind = heap[tmp].kind
  <2>1. CASE Full
    BY <1>1, <1>11, <2>1 DEF PointTo, TInv, AboutNodes
  <2>2. CASE ~Full
    <3>1. /\ heap' \in Heaps
          /\ heap'[Fresh] = Object(kind, NULL, heap[tmp].of)
          /\ heap'[tmp] = Object(heap[tmp].kind, Fresh, heap[tmp].of)
          /\ \A a \in Addr \ {Fresh, tmp} : heap'[a] = heap[a]
      BY <1>11, <2>2, PointToPuts
    <3>2. tmp \in Addr /\ heap[tmp].kind \in {"file", "dir"}
      BY <1>11 DEF TInv, ItemInCourse
    <3> QED BY <1>11, <3>1, <3>2 DEF Object, AboutNodes, TInv
  <2> QED BY <2>1, <2>2
<1>12. CASE fat16_clone_directory_item
  <2>1. heap' \in Heaps /\ AboutNodes'
    BY <1>11, <1>12 DEF fat16_clone_directory_item, Kinds
  <2> QED BY <1>12, <2>1
          DEF fat16_clone_directory_item, TInv, TypeOK, ItemInCourse, Heaps, Objects, locals
<1>13. CASE AllocateDirectory
  <2>1. heap' \in Heaps /\ AboutNodes' /\ heap'[tmp].kind = heap[tmp].kind
    BY <1>11, <1>13 DEF AllocateDirectory, Kinds
  <2> QED BY <1>13, <2>1
          DEF AllocateDirectory, TInv, TypeOK, ItemInCourse, Heaps, Objects, locals
<1>14. CASE LoadEntries
  <2>1. heap' \in Heaps /\ AboutNodes'
    BY <1>14, LoadKeepsTypes
  <2> QED BY <1>14, <2>1 DEF LoadEntries, TInv, TypeOK, ItemInCourse, Heaps, Objects, locals
<1>15. CASE LoadFails
  <2>1. heap' \in Heaps /\ AboutNodes'
    BY <1>15, WithoutKeepsTypes DEF LoadFails
  <2> QED BY <1>15, <2>1 DEF LoadFails, TInv, TypeOK, ItemInCourse, Heaps, Objects, locals
<1>16. ASSUME heap' = AfterFree PROVE heap' \in Heaps /\ AboutNodes'
  BY <1>1, <1>16, WithoutKeepsTypes DEF AfterFree, TInv, AboutNodes
<1>17. CASE Descend
  <2>1. heap' \in Heaps /\ AboutNodes'
    BY <1>16, <1>17 DEF Descend
  <2> QED BY <1>17, <2>1 DEF Descend, TInv, TypeOK, ItemInCourse, Heaps, Objects
<1>18. CASE OpenFails
  <2>1. heap' \in Heaps /\ AboutNodes'
    BY <1>16, <1>18 DEF OpenFails
  <2> QED BY <1>18, <2>1 DEF OpenFails, TInv, TypeOK, ItemInCourse, Heaps, Objects, OK, locals
<1>19. CASE OpenSucceeds
  <2> DEFINE freed == AfterFree
  <2>1. freed \in Heaps /\ \A a \in Addr : freed[a] = heap[a] \/ freed[a] = Free
    <3>1. freed \in Heaps
      BY <1>1, WithoutTyped DEF AfterFree
    <3> QED BY <3>1 DEF AfterFree, Without
  <2>2. heap' = [freed EXCEPT ![fatd].to = tmp] /\ tmp \in Addr \cup {NULL}
    BY <1>19 DEF OpenSucceeds, TInv, TypeOK
  <2> HIDE DEF freed
  <2>3. heap' \in Heaps
    BY <2>1, <2>2 DEF Heaps, Objects
  <2>4. \A a \in Addr : heap'[a].kind = freed[a].kind /\ heap'[a].of = freed[a].of
    BY <2>1, <2>2 DEF Heaps, Objects
  <2>5. Free.kind = "free" /\ Free.of \in Nodes
    BY FilesAssumption DEF Free, Object
  <2>6. AboutNodes'
    BY <2>1, <2>4, <2>5 DEF TInv, AboutNodes
  <2> QED BY <1>19, <2>3, <2>6 DEF OpenSucceeds, TInv, TypeOK, ItemInCourse, Heaps, Objects, locals
<1>20. CASE file_new_descriptor
  <2>1. FreeSlot \in Descriptors /\ ~Full /\ fatd \in Addr \cup {NULL}
    BY <1>20, FreeSlotIsSlot DEF file_new_descriptor, Slots, TInv, TypeOK
  <2>2. Object("desc", fatd, FreeSlot) \in Objects
    BY <2>1 DEF Object, Objects, Kinds
  <2>3. heap' \in Heaps /\ AboutNodes'
    BY <1>20, <2>1, <2>2, WithKeepsTypes DEF file_new_descriptor, Object
  <2>4. Fresh \in Addr
    BY <2>1, FreshIsSpare DEF Spare
  <2>5. table' \in [Descriptors -> Addr \cup {NULL}]
    BY <1>20, <2>1, <2>4 DEF file_new_descriptor, TInv, TypeOK
  <2> QED BY <1>20, <2>1, <2>3, <2>5
          DEF file_new_descriptor, TInv, TypeOK, ItemInCourse, Heaps, Objects, locals
<1>21. CASE NoSlot
  BY <1>21 DEF NoSlot, TInv, TypeOK, AboutNodes, ItemInCourse, OK, locals
<1>22. CASE GoesWild
  BY <1>22 DEF GoesWild, TInv, TypeOK, AboutNodes, ItemInCourse, locals
<1> QED BY <1>3, <1>4, <1>5, <1>6, <1>7, <1>8, <1>9, <1>10, <1>12, <1>13, <1>14, <1>15, <1>17,
           <1>18, <1>19, <1>20, <1>21, <1>22 DEF OpenStep

LEMMA OtherStepsTyped ==
  ASSUME TInv, Mount \/ Opening \/ Using
  PROVE  TInv'
<1>1. heap \in Heaps
  BY DEF TInv, TypeOK, Heaps, Objects
<1>2. ASSUME NEW ours \in BOOLEAN, fat16_resolve(ours) PROVE TInv'
  <2> DEFINE fs == Object("fs", NULL, Root)
             made == {1, 2, 3} \cup (IF ours THEN {0, 5} ELSE {})
  <2>1. fs \in Objects /\ fs.of \in Nodes /\ fs.kind = "fs"
    BY FilesAssumption DEF Object, Objects, Kinds
  <2>2. Free \in Objects /\ Free.of \in Nodes /\ Free.kind = "free"
    BY FreeTyped, FilesAssumption DEF Free, Object
  <2>3. heap' = [a \in Addr |-> IF a \in made THEN fs ELSE Free]
    BY <1>2 DEF fat16_resolve, fat16_init_private, fat16_get_root_directory
  <2> HIDE DEF fs, made
  <2>4. heap' \in Heaps
    BY <2>1, <2>2, <2>3 DEF Heaps
  <2>5. AboutNodes'
    BY <2>1, <2>2, <2>3 DEF AboutNodes
  <2> QED BY <1>2, <2>4, <2>5
          DEF fat16_resolve, TInv, TypeOK, ItemInCourse, Heaps, Objects, locals
<1>3. ASSUME NEW path \in DemoPaths, demo_pparser(path) PROVE TInv'
  <2>1. Start("demo_pparser", path, "r")
    BY <1>3 DEF demo_pparser
  <2> QED BY <1>3, <2>1, StartTyped DEF demo_pparser, Modes, TInv, TypeOK, AboutNodes, ItemInCourse
<1>4. ASSUME NEW r \in Requests, fopen(r.path, r.mode) PROVE TInv'
  <2>1. Start("fopen", r.path, r.mode) /\ r.mode \in Modes
    BY <1>4, FilesAssumption DEF fopen
  <2> QED BY <1>4, <2>1, StartTyped DEF fopen, TInv, TypeOK, AboutNodes, ItemInCourse
<1>5. Use => /\ call' \in [op : {"fopen", "demo_pparser", "other"},
                           path : DemoPaths \cup {r.path : r \in Requests} \cup {NoPath},
                           mode : Modes, lost : SUBSET Addr, room : 0 .. Blocks]
             /\ parsed' \in SUBSET Addr
             /\ k' \in Nat
             /\ {fatd', cur', tmp'} \subseteq Addr \cup {NULL}
  BY StartTyped DEF Use, Modes
<1>6. ASSUME NEW fd, fclose(fd) PROVE TInv'
  <2>1. heap' \in Heaps /\ AboutNodes'
    BY <1>6, WithoutKeepsTypes DEF fclose
  <2>2. table' \in [Descriptors -> Addr \cup {NULL}]
    BY <1>6 DEF fclose, file_descriptor_free, TInv, TypeOK
  <2>3. Use
    BY <1>6 DEF fclose
  <2> QED BY <1>5, <1>6, <2>1, <2>2, <2>3
          DEF fclose, Return, OK, TInv, TypeOK, ItemInCourse, Heaps, Objects
<1>7. ASSUME NEW fd, NEW op, Served(op, fd) PROVE TInv'
  <2>1. Use
    BY <1>7 DEF Served
  <2> QED BY <1>5, <1>7, <2>1
          DEF Served, Return, OK, Error, TInv, TypeOK, AboutNodes, ItemInCourse
<1>8. ASSUME NEW fd, NEW op, Rejected(op, fd) PROVE TInv'
  <2>1. Use
    BY <1>8 DEF Rejected
  <2> QED BY <1>5, <1>8, <2>1
          DEF Rejected, Return, OK, Error, TInv, TypeOK, AboutNodes, ItemInCourse
<1>9. ASSUME NEW fd, NEW op, UseGoesWild(op, fd) PROVE TInv'
  <2>1. Use
    BY <1>9 DEF UseGoesWild
  <2> QED BY <1>5, <1>9, <2>1 DEF UseGoesWild, TInv, TypeOK, AboutNodes, ItemInCourse
<1> QED BY <1>2, <1>3, <1>4, <1>6, <1>7, <1>8, <1>9 DEF Mount, Opening, Using

LEMMA TypedInitially == Init => TInv
<1> SUFFICES ASSUME Init PROVE TInv
  OBVIOUS
<1>1. heap \in Heaps /\ AboutNodes
  <2>1. Free.of \in Nodes /\ Free.kind = "free"
    BY FilesAssumption DEF Free, Object
  <2> QED BY <2>1, FreeTyped DEF Init, Heaps, AboutNodes
<1>2. call \in [op : {"fopen", "demo_pparser", "other"},
                path : DemoPaths \cup {r.path : r \in Requests} \cup {NoPath},
                mode : Modes, lost : SUBSET Addr, room : 0 .. Blocks]
  BY FilesAssumption DEF Init, Modes
<1> QED BY <1>1, <1>2 DEF Init, TInv, TypeOK, ItemInCourse, Heaps, Objects, OK

LEMMA TypedNext == TInv /\ [Next]_vars => TInv'
<1>1. ASSUME TInv, UNCHANGED vars PROVE TInv'
  BY <1>1 DEF vars, locals, TInv, TypeOK, AboutNodes, ItemInCourse
<1> QED BY <1>1, OpenStepTyped, OtherStepsTyped DEF Next

\* Every variable keeps its type, whatever is opened, used and closed: what
\* the lookup reads as a directory's entries are a directory's.
THEOREM TypeCorrect == Spec => []TypeOK
<1>1. Spec => []TInv
  BY TypedInitially, TypedNext, PTL DEF Spec
<1>2. TInv => TypeOK
  BY DEF TInv
<1> QED BY <1>1, <1>2, PTL

-----------------------------------------------------------------------------
(* The inductive invariant: what points to what *)

\* The kinds of objects that are the only ones to point to what they point
\* to.  An item whose directory was freed points to a block that may become
\* anything.
Owners == {"desc", "fatdesc", "file", "directory"}

\* What an owner may point to.
Targets(kind) ==
  {t \in Kinds :
     <<kind, t>> \in {<<"desc", "fatdesc">>, <<"fatdesc", "file">>, <<"fatdesc", "dir">>,
                     <<"file", "clone">>, <<"directory", "entries">>}}

WellShaped ==
  \A a \in Addr :
    /\ heap[a].kind \notin Owners \cup {"dir"} => heap[a].to = NULL
    /\ heap[a].kind = "desc" => heap[a].to # NULL
    /\ heap[a].kind \in Owners /\ heap[a].to # NULL =>
         heap[heap[a].to].kind \in Targets(heap[a].kind)

OneOwner ==
  \A a, b \in Addr :
    /\ heap[a].kind \in Owners /\ heap[b].kind \in Owners
    /\ heap[a].to = heap[b].to /\ heap[a].to # NULL
    => a = b

TableRight ==
  \A fd \in Issued :
    Is(table[fd], "desc") /\ heap[table[fd]].of = fd /\ Item(fd) # NULL

Unowned(a) == \A b \in Addr : heap[b].kind \in Owners => heap[b].to # a

\* The steps of fat16_get_directory_entry.
Looking == {"lookup", "clone", "load", "entries", "next"}

Calling == Looking \cup {"root", "part", "name", "resolve", "descriptor"}

CallRight ==
  /\ pc \in Calling =>
       /\ call.path \in PathRoots
       /\ k \in 1 .. Len(call.path.names)
       /\ call.op \in {"fopen", "demo_pparser"}
       /\ \A a \in parsed : Is(a, "path")
  /\ pc \in Calling \ {"root"} => call.path.parses
  /\ pc \in {"root", "part", "name", "resolve"} => cur = NULL /\ tmp = NULL
  /\ pc = "resolve" => k = 1
  /\ pc \in Looking \cup {"descriptor"} =>
       /\ call.op = "fopen" /\ mounted /\ call.mode = "r" /\ call.path.drive = 0

FatdRight ==
  /\ pc \in Looking \cup {"descriptor"} => Is(fatd, "fatdesc") /\ Unowned(fatd)
  /\ pc \in Looking => heap[fatd].to = NULL
  /\ pc = "descriptor" => heap[fatd].to # NULL

\* An item's directory is one, or was freed and is still free.
Loaded(i) == To(i) # NULL => heap[To(i)].kind \in {"directory", "free"}

\* current_item
CurRight ==
  pc \in Looking =>
    IF k = 1
      THEN cur = NULL
      ELSE /\ Is(cur, "dir") /\ Unowned(cur) /\ Loaded(cur)
           /\ tmp # cur
           /\ pc \in {"clone", "load", "entries"} => Is(To(cur), "directory")
           /\ To(tmp) # NULL => To(tmp) # To(cur)

\* tmp_item
TmpRight ==
  /\ pc = "lookup" => tmp = NULL
  /\ pc \in Looking /\ tmp # NULL => Unowned(tmp)
  /\ pc = "clone" => Is(tmp, "file") /\ To(tmp) = NULL
  /\ pc = "load" => Is(tmp, "dir") /\ To(tmp) = NULL
  /\ pc = "entries" => Is(tmp, "dir") /\ Is(To(tmp), "directory") /\ To(To(tmp)) = NULL
  /\ pc = "next" => tmp = NULL \/ Is(tmp, "file") \/ (Is(tmp, "dir") /\ Loaded(tmp))
  /\ pc \in {"load", "entries"} => Used(volume[heap[tmp].of]) # {}

OInv ==
  /\ TInv /\ WellShaped /\ OneOwner /\ TableRight
  /\ CallRight /\ FatdRight /\ CurRight /\ TmpRight

\* Before the file system is resolved no file is open.
NothingIssued == pc = "boot" => Issued = {}

LEMMA HeapTyped == TInv => heap \in Heaps
  BY DEF TInv, TypeOK, Heaps, Objects

LEMMA TargetsNotFree == \A kind : "free" \notin Targets(kind)
  BY DEF Targets

LEMMA TargetsOf ==
  /\ Targets("desc") = {"fatdesc"}
  /\ Targets("fatdesc") = {"file", "dir"}
  /\ Targets("file") = {"clone"}
  /\ Targets("directory") = {"entries"}
  BY DEF Targets, Kinds

\* No owner points to a free block.
LEMMA FreeIsUnowned ==
  ASSUME WellShaped, NEW f \in Addr, heap[f].kind = "free"
  PROVE  Unowned(f)
  BY NullApart, TargetsNotFree DEF WellShaped, Unowned

\* A new object that points to nothing, or a descriptor that is the first to
\* point to fat16_open's.
LEMMA PutKeepsShape ==
  ASSUME heap \in Heaps, heap' \in Heaps, WellShaped, OneOwner,
         NEW f \in Addr, heap[f].kind = "free",
         \A a \in Addr \ {f} : heap'[a] = heap[a],
         IF heap'[f].kind = "desc"
           THEN Is(heap'[f].to, "fatdesc") /\ Unowned(heap'[f].to)
           ELSE heap'[f].to = NULL
  PROVE  WellShaped' /\ OneOwner'
<1>1. Unowned(f)
  BY FreeIsUnowned
<1>2. \A a \in Addr : heap[a].to \in Addr \cup {NULL} /\ heap'[a].to \in Addr \cup {NULL}
  BY DEF Heaps, Objects
<1>3. heap'[f].kind = "desc" =>
        /\ heap'[f].to \in Addr \ {f}
        /\ heap'[heap'[f].to].kind = "fatdesc"
        /\ \A a \in Addr : heap[a].kind \in Owners => heap[a].to # heap'[f].to
  BY DEF Is, Unowned
<1>4. WellShaped'
  <2> SUFFICES ASSUME NEW a \in Addr
               PROVE  /\ heap'[a].kind \notin Owners \cup {"dir"} => heap'[a].to = NULL
                      /\ heap'[a].kind = "desc" => heap'[a].to # NULL
                      /\ heap'[a].kind \in Owners /\ heap'[a].to # NULL =>
                           heap'[heap'[a].to].kind \in Targets(heap'[a].kind)
    BY DEF WellShaped
  <2>1. CASE a = f
    BY <1>3, <2>1, NullApart, TargetsOf DEF Owners
  <2>2. CASE a # f
    <3>1. heap'[a] = heap[a]
      BY <2>2
    <3>2. heap[a].kind \in Owners => heap[a].to # f
      BY <1>1 DEF Unowned
    <3> QED BY <1>2, <3>1, <3>2 DEF WellShaped
  <2> QED BY <2>1, <2>2
<1>5. OneOwner'
  BY <1>1, <1>3 DEF OneOwner, Unowned
<1> QED BY <1>4, <1>5

\* An object made to point to one that no owner points to.
LEMMA LinkKeepsShape ==
  ASSUME heap \in Heaps, heap' \in Heaps, WellShaped, OneOwner,
         NEW t \in Addr, NEW f \in Addr \ {t}, Unowned(f),
         \A a \in Addr \ {t, f} : heap'[a] = heap[a],
         heap'[t].kind = heap[t].kind, heap'[t].to = f,
         heap'[f] = heap[f] \/ (heap[f].kind = "free" /\ heap'[f].to = NULL),
         heap[f].kind = "free" => heap'[f].kind # "desc",
         heap[t].kind = "dir" \/ (heap[t].kind \in Owners /\ heap'[f].kind \in Targets(heap[t].kind))
  PROVE  WellShaped' /\ OneOwner'
<1>1. \A a \in Addr \ {t, f} : heap[a].kind \in Owners => heap[a].to # f
  BY DEF Unowned
<1>2. \A a \in Addr : heap[a].to \in Addr \cup {NULL}
  BY DEF Heaps, Objects
<1>3. WellShaped'
  <2> SUFFICES ASSUME NEW a \in Addr
               PROVE  /\ heap'[a].kind \notin Owners \cup {"dir"} => heap'[a].to = NULL
                      /\ heap'[a].kind = "desc" => heap'[a].to # NULL
                      /\ heap'[a].kind \in Owners /\ heap'[a].to # NULL =>
                           heap'[heap'[a].to].kind \in Targets(heap'[a].kind)
    BY DEF WellShaped
  <2>1. CASE a = t
    BY <2>1, NullApart DEF Owners
  <2>2. CASE a # t /\ heap'[a] = heap[a]
    <3>1. heap[a].kind \in Owners => heap[a].to # f
      BY <2>2 DEF Unowned
    <3>2. heap[a].to \in Addr \ {f} => heap'[heap[a].to].kind = heap[heap[a].to].kind
      OBVIOUS
    <3> QED BY <1>2, <2>2, <3>1, <3>2 DEF WellShaped
  <2>3. CASE a = f /\ heap[f].kind = "free" /\ heap'[f].to = NULL
    BY <2>3
  <2> QED BY <2>1, <2>2, <2>3
<1>4. OneOwner'
  <2> SUFFICES ASSUME NEW a \in Addr, NEW b \in Addr,
                      heap'[a].kind \in Owners, heap'[b].kind \in Owners,
                      heap'[a].to = heap'[b].to, heap'[a].to # NULL
               PROVE  a = b
    BY DEF OneOwner
  <2>1. CASE a # t /\ b # t
    BY <2>1 DEF OneOwner
  <2>2. CASE a = t /\ b # t
    BY <2>2, <1>1, NullApart DEF Unowned
  <2>3. CASE a # t /\ b = t
    BY <2>3, <1>1, NullApart DEF Unowned
  <2> QED BY <2>1, <2>2, <2>3
<1> QED BY <1>3, <1>4

\* What is freed is pointed to by no owner that stays.
LEMMA FreeingKeepsShape ==
  ASSUME heap \in Heaps, WellShaped, OneOwner, NEW S, heap' = Without(S),
         \A a \in Addr \ S : heap[a].kind \in Owners => heap[a].to \notin S
  PROVE  WellShaped' /\ OneOwner'
<1>1. \A a \in Addr : heap'[a] = IF a \in S THEN Free ELSE heap[a]
  BY DEF Without
<1>2. Free.kind = "free" /\ Free.to = NULL
  BY DEF Free, Object
<1>3. \A a \in Addr : heap[a].to \in Addr \cup {NULL}
  BY DEF Heaps, Objects
<1>4. WellShaped'
  BY <1>1, <1>2, <1>3 DEF WellShaped, Owners
<1>5. OneOwner'
  BY <1>1, <1>2 DEF OneOwner
<1> QED BY <1>4, <1>5

\* Descriptors and what they hold stay.
LEMMA TableKept ==
  ASSUME TInv, WellShaped, TableRight, UNCHANGED table,
         \A a \in Addr :
           heap[a].kind = "desc" \/ (heap[a].kind = "fatdesc" /\ heap[a].to # NULL) =>
             heap'[a] = heap[a]
  PROVE  TableRight'
<1> SUFFICES ASSUME NEW fd \in Descriptors, table[fd] # NULL
             PROVE  (Is(table[fd], "desc") /\ heap[table[fd]].of = fd /\ Item(fd) # NULL)'
  BY DEF TableRight, Issued
<1>1. Is(table[fd], "desc") /\ heap[table[fd]].of = fd /\ Item(fd) # NULL
  BY DEF TableRight, Issued
<1> DEFINE d == heap[table[fd]].to
<1>2. d \in Addr /\ heap[d].kind = "fatdesc"
  <2>1. d \in Addr \cup {NULL}
    BY <1>1 DEF Is, TInv, TypeOK
  <2> QED BY <1>1, <2>1, TargetsOf DEF Is, WellShaped, Owners
<1>3. heap[d].to # NULL
  BY <1>1, <1>2 DEF Item, To, Is
<1>4. heap'[table[fd]] = heap[table[fd]] /\ heap'[d] = heap[d]
  BY <1>1, <1>2, <1>3 DEF Is
<1> QED BY <1>1, <1>2, <1>3, <1>4 DEF Item, To, Is

LEMMA PathRootNames ==
  ASSUME NEW p \in PathRoots
  PROVE  1 \in 1 .. Len(p.names) /\ Len(p.names) \in Nat
<1>1. p.names \in Seq(Names) /\ p.names # <<>>
  BY DEF PathRoots
<1> QED BY <1>1, EmptySeq, LenProperties

\* The steps of the parser: a block more.
LEMMA ParseKeeps ==
  ASSUME OInv, OpenStep, ParseRoot \/ ParsePart \/ ParseName
  PROVE  OInv'
<1>1. TInv' /\ heap \in Heaps /\ heap' \in Heaps
  BY OpenStepTyped, HeapTyped DEF OInv, TInv, TypeOK, Heaps, Objects
<1>2. ~Full /\ heap' = With(Object("path", NULL, Root)) /\ parsed' = parsed \cup {Fresh}
      /\ UNCHANGED <<mounted, table, call>>
  BY DEF ParseRoot, ParsePart, ParseName, Parse
<1>3. Object("path", NULL, Root) \in Objects
  BY FilesAssumption DEF Object, Objects, Kinds
<1>4. /\ Fresh \in Addr
      /\ heap[Fresh].kind = "free"
      /\ heap'[Fresh] = Object("path", NULL, Root)
      /\ \A a \in Addr \ {Fresh} : heap'[a] = heap[a]
  BY <1>1, <1>2, <1>3, WithPuts
<1>5. heap'[Fresh].kind = "path" /\ heap'[Fresh].to = NULL
  BY <1>4 DEF Object
<1>6. WellShaped' /\ OneOwner'
  BY <1>1, <1>4, <1>5, PutKeepsShape DEF OInv
<1>7. TableRight'
  BY <1>2, <1>4, TableKept DEF OInv
<1>8. /\ pc \in {"root", "part", "name"}
      /\ pc' \in {"part", "name", "resolve", "idle"}
      /\ pc = "root" => pc' = "idle" \/ call.path.parses
  BY DEF ParseRoot, ParsePart, ParseName, Return
<1>9. CallRight'
  <2>1. call.path \in PathRoots /\ k \in 1 .. Len(call.path.names)
        /\ call.op \in {"fopen", "demo_pparser"} /\ \A a \in parsed : Is(a, "path")
    BY <1>8 DEF OInv, CallRight, Calling
  <2>2. k' \in 1 .. Len(call.path.names)
    BY <2>1, PathRootNames DEF ParseRoot, ParsePart, ParseName
  <2>3. \A a \in parsed' : Is(a, "path")'
    BY <1>2, <1>4, <1>5, <2>1 DEF Is
  <2>4. pc' # "idle" => call.path.parses
    BY <1>8 DEF OInv, CallRight, Calling
  <2>5. cur' = NULL /\ tmp' = NULL /\ (pc' = "resolve" => k' = 1)
    BY <1>8 DEF OInv, CallRight, ParseRoot, ParsePart, ParseName, Parse, Return
  <2> QED BY <1>2, <1>8, <2>1, <2>2, <2>3, <2>4, <2>5 DEF CallRight, Calling, Looking
<1> QED BY <1>1, <1>6, <1>7, <1>8, <1>9 DEF OInv, FatdRight, CurRight, TmpRight, Looking

LEMMA RefusedKeeps ==
  ASSUME OInv, OpenStep, Refused \/ NoSlot
  PROVE  OInv'
<1>1. TInv'
  BY OpenStepTyped DEF OInv
<1>2. UNCHANGED <<heap, table>> /\ pc' = "idle"
  BY DEF Refused, NoSlot, Return
<1>3. WellShaped' /\ OneOwner' /\ TableRight'
  BY <1>2 DEF OInv, WellShaped, OneOwner, TableRight, Issued, Is, Item, To
<1> QED BY <1>1, <1>2, <1>3
        DEF OInv, CallRight, FatdRight, CurRight, TmpRight, Looking, Calling

LEMMA WildKeeps ==
  ASSUME OInv, OpenStep, GoesWild
  PROVE  OInv'
<1>1. TInv'
  BY OpenStepTyped DEF OInv
<1>2. UNCHANGED <<heap, table>> /\ pc' = "wild"
  BY DEF GoesWild
<1>3. WellShaped' /\ OneOwner' /\ TableRight'
  BY <1>2 DEF OInv, WellShaped, OneOwner, TableRight, Issued, Is, Item, To
<1> QED BY <1>1, <1>2, <1>3
        DEF OInv, CallRight, FatdRight, CurRight, TmpRight, Looking, Calling

LEMMA DemoKeeps ==
  ASSUME OInv, OpenStep, pparser_free_path_root
  PROVE  OInv'
<1>1. TInv' /\ heap \in Heaps
  BY OpenStepTyped, HeapTyped DEF OInv
<1>2. heap' = Without(parsed) /\ UNCHANGED table /\ pc = "resolve" /\ pc' = "idle"
  BY DEF pparser_free_path_root, Return
<1>3. \A a \in parsed : a \in Addr /\ heap[a].kind = "path"
  BY <1>2 DEF OInv, CallRight, Calling, Is
<1>4. \A a \in Addr \ parsed : heap[a].kind \in Owners => heap[a].to \notin parsed
  <2> SUFFICES ASSUME NEW a \in Addr \ parsed, heap[a].kind \in Owners, heap[a].to \in parsed
               PROVE  FALSE
    OBVIOUS
  <2>1. heap[heap[a].to].kind \in Targets(heap[a].kind)
    BY <1>3, NullApart DEF OInv, WellShaped
  <2> QED BY <1>3, <2>1, TargetsOf DEF Owners
<1>5. WellShaped' /\ OneOwner'
  BY <1>1, <1>2, <1>4, FreeingKeepsShape DEF OInv
<1>6. TableRight'
  BY <1>2, <1>3, TableKept DEF OInv, Without
<1> QED BY <1>1, <1>2, <1>5, <1>6
        DEF OInv, CallRight, FatdRight, CurRight, TmpRight, Looking, Calling

\* A path in use that names an entry with FAT_FILE_SUBDIRECTORY names one of a
\* directory that has entries.  So it is unless it goes through the entry `..`
\* of a directory in the root, which has cluster 0; a path that does breaks the
\* descriptor.
Paths == DemoPaths \cup {r.path : r \in Requests}

NoneEmpty == \A v \in Volumes : NamedHaveEntries(v, Paths)

\* What was found was in the root directory or in a directory that is loaded.
LEMMA FoundInDirectory ==
  ASSUME TInv, Found
  PROVE  /\ k = 1 \/ Is(To(cur), "directory")
         /\ \E n \in Nodes : Searched = volume[n]
         /\ FirstMatch(Searched, call.path.names[k]) \in Used(Searched)
<1>1. Searched \in Listing
  BY SearchedTyped
<1>2. FirstMatch(Searched, call.path.names[k]) \in Matches(Searched, call.path.names[k])
  BY <1>1, FirstMatchIsMatch DEF Found
<1>3. FirstMatch(Searched, call.path.names[k]) \in Used(Searched)
  BY <1>1, <1>2, MatchIsItem
<1>4. Searched # <<>>
  BY <1>3 DEF Used
<1> QED BY <1>3, <1>4, FilesAssumption DEF Searched, TInv, AboutNodes, Is

LEMMA EntryHasEntries ==
  ASSUME OInv, pc = "lookup", NoneEmpty, Found, Entry.subdirectory
  PROVE  Used(volume[Entry.node]) # {}
<1>1. TInv /\ call.path.names \in Seq(Names) /\ k \in 1 .. Len(call.path.names)
  BY DEF OInv, CallRight, Calling, Looking, PathRoots
<1>2. PICK n \in Nodes : Searched = volume[n]
  BY <1>1, FoundInDirectory
<1>3. PICK i \in Used(volume[n]) : i = FirstMatch(Searched, call.path.names[k])
  BY <1>1, <1>2, FoundInDirectory
<1>4. volume[n][i] = Entry /\ Entry.name = call.path.names[k]
  <2>1. Searched \in Listing
    BY <1>1, SearchedTyped
  <2>2. i \in Matches(Searched, call.path.names[k])
    BY <1>3, <2>1, FirstMatchIsMatch DEF Found
  <2> QED BY <1>2, <1>3, <2>2 DEF Entry, Matches
<1>5. volume \in Volumes
  BY <1>1 DEF TInv, TypeOK
<1>6. call.path \in Paths /\ k \in DOMAIN call.path.names
  <2>1. call.path \in Paths \cup {NoPath}
    BY <1>1 DEF TInv, TypeOK, Paths
  <2>2. k \in DOMAIN call.path.names /\ call.path.names # <<>>
    BY <1>1
  <2> QED BY <2>1, <2>2 DEF NoPath
<1> QED BY <1>3, <1>4, <1>5, <1>6 DEF NoneEmpty, NamedHaveEntries

LEMMA OpenKeeps ==
  ASSUME OInv, OpenStep, fat16_open
  PROVE  OInv'
<1>1. TInv' /\ heap \in Heaps /\ heap' \in Heaps
  BY OpenStepTyped, HeapTyped DEF OInv, TInv, TypeOK, Heaps, Objects
<1>2. /\ ~Full /\ heap' = With(Object("fatdesc", NULL, Root)) /\ fatd' = Fresh
      /\ pc = "resolve" /\ pc' = "lookup"
      /\ UNCHANGED <<mounted, table, call, parsed, k, cur, tmp>>
      /\ call.op = "fopen" /\ mounted /\ call.mode = "r" /\ call.path.drive = 0
  BY DEF fat16_open
<1>3. Object("fatdesc", NULL, Root) \in Objects
  BY FilesAssumption DEF Object, Objects, Kinds
<1>4. /\ Fresh \in Addr
      /\ heap[Fresh].kind = "free"
      /\ heap'[Fresh] = Object("fatdesc", NULL, Root)
      /\ \A a \in Addr \ {Fresh} : heap'[a] = heap[a]
  BY <1>1, <1>2, <1>3, WithPuts
<1>5. heap'[Fresh].kind = "fatdesc" /\ heap'[Fresh].to = NULL
  BY <1>4 DEF Object
<1>6. WellShaped' /\ OneOwner'
  BY <1>1, <1>4, <1>5, PutKeepsShape DEF OInv
<1>7. TableRight'
  BY <1>2, <1>4, TableKept DEF OInv
<1>8. CallRight'
  BY <1>2, <1>4 DEF OInv, CallRight, Calling, Looking, Is
<1>9. FatdRight'
  <2>1. Unowned(Fresh)
    BY <1>4, FreeIsUnowned DEF OInv
  <2>2. Unowned(fatd)'
    BY <1>2, <1>4, <1>5, <2>1, NullApart DEF Unowned
  <2> QED BY <1>2, <1>4, <1>5, <2>2 DEF FatdRight, Looking, Is
<1>10. cur' = NULL /\ tmp' = NULL /\ k' = 1
  BY <1>2 DEF OInv, CallRight
<1> QED BY <1>1, <1>2, <1>6, <1>7, <1>8, <1>9, <1>10 DEF OInv, CurRight, TmpRight, Looking

LEMMA NotFoundKeeps ==
  ASSUME OInv, OpenStep, NotFound
  PROVE  OInv'
<1>1. TInv'
  BY OpenStepTyped DEF OInv
<1>2. /\ UNCHANGED <<volume, mounted, heap, table, call, locals>>
      /\ pc = "lookup" /\ pc' = "next"
  BY DEF NotFound
<1>3. WellShaped' /\ OneOwner' /\ TableRight'
  BY <1>2 DEF OInv, WellShaped, OneOwner, TableRight, Issued, Is, Item, To
<1>4. CallRight' /\ FatdRight'
  BY <1>2 DEF OInv, CallRight, FatdRight, Calling, Looking, Is, Unowned, locals
<1>5. CurRight' /\ TmpRight'
  BY <1>2 DEF OInv, CurRight, TmpRight, Looking, Is, Unowned, Loaded, To, locals
<1> QED BY <1>1, <1>3, <1>4, <1>5 DEF OInv

LEMMA ItemKeeps ==
  ASSUME OInv, NoneEmpty, OpenStep, fat16_new_fat_item
  PROVE  OInv'
<1> DEFINE kind == IF Entry.subdirectory THEN "dir" ELSE "file"
           obj == Object(kind, NULL, Entry.node)
<1>1. TInv' /\ heap \in Heaps /\ heap' \in Heaps /\ TInv
  BY OpenStepTyped, HeapTyped DEF OInv, TInv, TypeOK, Heaps, Objects
<1>2. /\ ~Full /\ heap' = With(obj) /\ tmp' = Fresh
      /\ pc = "lookup" /\ pc' = IF Entry.subdirectory THEN "load" ELSE "clone"
      /\ UNCHANGED <<volume, mounted, table, call, parsed, k, fatd, cur>>
      /\ Found
  BY DEF fat16_new_fat_item
<1>3. obj \in Objects /\ obj.kind \in {"dir", "file"} /\ obj.to = NULL
      /\ (Entry.subdirectory <=> obj.kind = "dir") /\ obj.of = Entry.node
  BY <1>1, <1>2, EntryTyped DEF Object, Objects, Kinds, DirectoryItem
<1> HIDE DEF obj
<1>4. /\ Fresh \in Addr
      /\ heap[Fresh].kind = "free"
      /\ heap'[Fresh] = obj
      /\ \A a \in Addr \ {Fresh} : heap'[a] = heap[a]
  BY <1>1, <1>2, <1>3, WithPuts
<1>5. WellShaped' /\ OneOwner'
  BY <1>1, <1>3, <1>4, PutKeepsShape DEF OInv
<1>6. TableRight'
  BY <1>2, <1>4, TableKept DEF OInv
<1>7. CallRight'
  BY <1>2, <1>4 DEF OInv, CallRight, Calling, Looking, Is
<1>8. \A x \in Addr : Unowned(x) => Unowned(x)'
  BY <1>3, <1>4, NullApart DEF Unowned
<1>9. Unowned(tmp)'
  <2>1. Unowned(Fresh)
    BY <1>4, FreeIsUnowned DEF OInv
  <2> QED BY <1>2, <1>3, <1>4, <2>1, NullApart DEF Unowned
<1>10. FatdRight'
  BY <1>2, <1>4, <1>8 DEF OInv, FatdRight, Looking, Is
<1>11. k = 1 \/ Is(To(cur), "directory")
  BY <1>1, <1>2, FoundInDirectory
<1>12. CurRight'
  <2>1. CASE k = 1
    BY <1>2, <2>1 DEF OInv, CurRight, Looking
  <2>2. CASE k # 1
    <3>1. Is(cur, "dir") /\ Unowned(cur) /\ cur # Fresh /\ To(cur) # Fresh
      BY <1>2, <1>4, <1>11, <2>2 DEF OInv, CurRight, Looking, Is
    <3>2. To(cur)' = To(cur) /\ Is(To(cur), "directory")' /\ Is(cur, "dir")'
      BY <1>2, <1>4, <1>11, <2>2, <3>1 DEF Is, To
    <3>3. To(tmp)' = NULL
      BY <1>2, <1>3, <1>4 DEF To
    <3> QED BY <1>2, <1>8, <2>2, <3>1, <3>2, <3>3 DEF CurRight, Looking, Loaded, Is
  <2> QED BY <2>1, <2>2
<1>13. TmpRight'
  <2>1. Entry.subdirectory => Used(volume[Entry.node]) # {}
    BY <1>2, EntryHasEntries
  <2>2. tmp' \in Addr /\ heap'[tmp'].kind = obj.kind /\ heap'[tmp'].to = NULL /\ heap'[tmp'].of = Entry.node
    BY <1>2, <1>3, <1>4
  <2>3. pc' = (IF Entry.subdirectory THEN "load" ELSE "clone") /\ volume' = volume
    BY <1>2
  <2>4. CASE Entry.subdirectory
    BY <1>3, <1>9, <2>1, <2>2, <2>3, <2>4 DEF TmpRight, Looking, Is, To
  <2>5. CASE ~Entry.subdirectory
    BY <1>3, <1>9, <2>2, <2>3, <2>5 DEF TmpRight, Looking, Is, To
  <2> QED BY <2>4, <2>5
<1> QED BY <1>1, <1>5, <1>6, <1>7, <1>10, <1>12, <1>13 DEF OInv

LEMMA CloneKeeps ==
  ASSUME OInv, OpenStep, fat16_clone_directory_item
  PROVE  OInv'
<1>1. TInv' /\ heap \in Heaps /\ heap' \in Heaps /\ TInv
  BY OpenStepTyped, HeapTyped DEF OInv, TInv, TypeOK, Heaps, Objects
<1>2. /\ UNCHANGED <<volume, mounted, table, call, parsed, k, fatd, cur, tmp>>
      /\ pc = "clone" /\ pc' = "next" /\ PointTo("clone")
  BY DEF fat16_clone_directory_item, locals
<1>3. /\ tmp \in Addr /\ heap[tmp].kind = "file" /\ heap[tmp].to = NULL /\ Unowned(tmp)
      /\ fatd \in Addr /\ heap[fatd].kind = "fatdesc" /\ heap[fatd].to = NULL /\ Unowned(fatd)
  BY <1>2, NullApart DEF OInv, TmpRight, FatdRight, Looking, Is, To
<1>4. k # 1 => /\ cur \in Addr /\ heap[cur].kind = "dir" /\ Unowned(cur)
               /\ Is(To(cur), "directory")
  BY <1>2 DEF OInv, CurRight, Looking, Is
<1>5. k = 1 => cur = NULL
  BY <1>2 DEF OInv, CurRight, Looking
<1>6. CASE Full
  <2>1. heap' = heap
    BY <1>2, <1>6 DEF PointTo
  <2>2. WellShaped' /\ OneOwner' /\ TableRight'
    BY <1>2, <2>1 DEF OInv, WellShaped, OneOwner, TableRight, Issued, Is, Item, To
  <2>3. CallRight'
    BY <1>2, <2>1 DEF OInv, CallRight, Calling, Looking, Is
  <2>4. FatdRight' /\ CurRight' /\ TmpRight'
    BY <1>2, <1>3, <1>4, <1>5, <2>1
       DEF FatdRight, CurRight, TmpRight, Looking, Is, To, Unowned, Loaded
  <2> QED BY <1>1, <2>2, <2>3, <2>4 DEF OInv
<1>7. CASE ~Full
  <2>1. /\ Fresh \in Addr \ {tmp} /\ heap[Fresh].kind = "free"
        /\ heap'[Fresh] = Object("clone", NULL, heap[tmp].of)
        /\ heap'[tmp] = Object(heap[tmp].kind, Fresh, heap[tmp].of)
        /\ \A a \in Addr \ {Fresh, tmp} : heap'[a] = heap[a]
    BY <1>1, <1>2, <1>7, PointToPuts DEF Kinds
  <2>2. /\ heap'[Fresh].kind = "clone" /\ heap'[Fresh].to = NULL
        /\ heap'[tmp].kind = "file" /\ heap'[tmp].to = Fresh
    BY <1>3, <2>1 DEF Object
  <2>3. Unowned(Fresh)
    BY <2>1, FreeIsUnowned DEF OInv
  <2>4. WellShaped' /\ OneOwner'
    BY <1>1, <1>3, <2>1, <2>2, <2>3, LinkKeepsShape, TargetsOf DEF OInv, Owners
  <2>5. TableRight'
    BY <1>1, <1>2, <1>3, <2>1, TableKept DEF OInv
  <2>6. CallRight'
    BY <1>2, <1>3, <2>1 DEF OInv, CallRight, Calling, Looking, Is
  <2>7. \A x \in Addr : Unowned(x) /\ heap[x].kind # "free" => Unowned(x)'
    BY <2>1, <2>2, NullApart DEF Unowned
  <2>8. FatdRight'
    BY <1>2, <1>3, <2>1, <2>7 DEF FatdRight, Looking, Is
  <2>9. CurRight'
    <3>1. CASE k = 1
      BY <1>2, <1>5, <3>1 DEF CurRight
    <3>2. CASE k # 1
      <4>1. cur \notin {Fresh, tmp} /\ To(cur) \in Addr \ {Fresh, tmp}
        BY <1>3, <1>4, <2>1, <3>2 DEF Is
      <4>2. heap'[cur] = heap[cur] /\ heap'[To(cur)] = heap[To(cur)] /\ To(cur)' = To(cur)
        BY <1>2, <1>4, <2>1, <3>2, <4>1 DEF To
      <4>3. To(tmp)' = Fresh /\ To(cur) # Fresh
        BY <1>2, <1>3, <2>2, <4>1 DEF To
      <4> QED BY <1>2, <1>4, <2>7, <3>2, <4>1, <4>2, <4>3 DEF CurRight, Loaded, Is
    <3> QED BY <3>1, <3>2
  <2>10. TmpRight'
    BY <1>2, <1>3, <2>2, <2>7 DEF TmpRight, Is
  <2> QED BY <1>1, <2>4, <2>5, <2>6, <2>8, <2>9, <2>10 DEF OInv
<1> QED BY <1>6, <1>7

LEMMA DirectoryKeeps ==
  ASSUME OInv, OpenStep, AllocateDirectory
  PROVE  OInv'
<1>1. TInv' /\ heap \in Heaps /\ heap' \in Heaps /\ TInv
  BY OpenStepTyped, HeapTyped DEF OInv, TInv, TypeOK, Heaps, Objects
<1>2. /\ UNCHANGED <<volume, mounted, table, call, parsed, k, fatd, cur, tmp>>
      /\ pc = "load" /\ pc' = (IF Full THEN "next" ELSE "entries") /\ PointTo("directory")
  BY DEF AllocateDirectory, locals
<1>3. /\ tmp \in Addr /\ heap[tmp].kind = "dir" /\ heap[tmp].to = NULL /\ Unowned(tmp)
      /\ Used(volume[heap[tmp].of]) # {}
      /\ fatd \in Addr /\ heap[fatd].kind = "fatdesc" /\ heap[fatd].to = NULL /\ Unowned(fatd)
  BY <1>2, NullApart DEF OInv, TmpRight, FatdRight, Looking, Is, To
<1>4. k # 1 => /\ cur \in Addr /\ heap[cur].kind = "dir" /\ Unowned(cur) /\ tmp # cur
               /\ Is(To(cur), "directory")
  BY <1>2 DEF OInv, CurRight, Looking, Is
<1>5. k = 1 => cur = NULL
  BY <1>2 DEF OInv, CurRight, Looking
<1>6. CASE Full
  <2>1. heap' = heap
    BY <1>2, <1>6 DEF PointTo
  <2>2. WellShaped' /\ OneOwner' /\ TableRight'
    BY <1>2, <2>1 DEF OInv, WellShaped, OneOwner, TableRight, Issued, Is, Item, To
  <2>3. CallRight'
    BY <1>2, <2>1 DEF OInv, CallRight, Calling, Looking, Is
  <2>4. FatdRight' /\ CurRight' /\ TmpRight'
    BY <1>2, <1>3, <1>4, <1>5, <1>6, <2>1
       DEF FatdRight, CurRight, TmpRight, Looking, Is, To, Unowned, Loaded
  <2> QED BY <1>1, <2>2, <2>3, <2>4 DEF OInv
<1>7. CASE ~Full
  <2>1. /\ Fresh \in Addr \ {tmp} /\ heap[Fresh].kind = "free"
        /\ heap'[Fresh] = Object("directory", NULL, heap[tmp].of)
        /\ heap'[tmp] = Object(heap[tmp].kind, Fresh, heap[tmp].of)
        /\ \A a \in Addr \ {Fresh, tmp} : heap'[a] = heap[a]
    BY <1>1, <1>2, <1>7, PointToPuts DEF Kinds
  <2>2. /\ heap'[Fresh].kind = "directory" /\ heap'[Fresh].to = NULL
        /\ heap'[tmp].kind = "dir" /\ heap'[tmp].to = Fresh /\ heap'[tmp].of = heap[tmp].of
    BY <1>3, <2>1 DEF Object
  <2>3. Unowned(Fresh)
    BY <2>1, FreeIsUnowned DEF OInv
  <2>4. WellShaped' /\ OneOwner'
    BY <1>1, <1>3, <2>1, <2>2, <2>3, LinkKeepsShape DEF OInv
  <2>5. TableRight'
    BY <1>1, <1>2, <1>3, <2>1, TableKept DEF OInv
  <2>6. CallRight'
    BY <1>2, <1>3, <1>7, <2>1 DEF OInv, CallRight, Calling, Looking, Is
  <2>7. \A x \in Addr : Unowned(x) => Unowned(x)'
    BY <1>3, <2>1, <2>2, NullApart DEF Unowned, Owners
  <2>8. FatdRight'
    BY <1>2, <1>3, <1>7, <2>1, <2>7 DEF FatdRight, Looking, Is
  <2>9. CurRight'
    <3>1. CASE k = 1
      BY <1>2, <1>5, <3>1 DEF CurRight
    <3>2. CASE k # 1
      <4>1. cur \notin {Fresh, tmp} /\ To(cur) \in Addr \ {Fresh, tmp}
        BY <1>3, <1>4, <2>1, <3>2 DEF Is
      <4>2. heap'[cur] = heap[cur] /\ heap'[To(cur)] = heap[To(cur)] /\ To(cur)' = To(cur)
        BY <1>2, <1>4, <2>1, <3>2, <4>1 DEF To
      <4>3. To(tmp)' = Fresh /\ To(cur) # Fresh
        BY <1>2, <1>3, <2>2, <4>1 DEF To
      <4> QED BY <1>2, <1>4, <2>7, <3>2, <4>1, <4>2, <4>3 DEF CurRight, Loaded, Is
    <3> QED BY <3>1, <3>2
  <2>10. TmpRight'
    <3>1. tmp' = tmp /\ To(tmp)' = Fresh /\ pc' = "entries" /\ volume' = volume
      BY <1>2, <1>3, <1>7, <2>2 DEF To
    <3>2. Is(tmp, "dir")' /\ Unowned(tmp)' /\ Used(volume'[heap'[tmp'].of]) # {}
      BY <1>3, <2>2, <2>7, <3>1 DEF Is
    <3>3. heap'[To(tmp)'].kind = "directory" /\ heap'[To(tmp)'].to = NULL /\ To(tmp)' \in Addr
      BY <2>1, <2>2, <3>1
    <3>4. Is(To(tmp), "directory")' /\ To(To(tmp))' = NULL
      BY <3>3 DEF Is, To
    <3> QED BY <3>1, <3>2, <3>4 DEF TmpRight, Looking
  <2> QED BY <1>1, <2>4, <2>5, <2>6, <2>8, <2>9, <2>10 DEF OInv
<1> QED BY <1>6, <1>7

\* A directory with a used entry has a total above 0.
LEMMA TotalPositive ==
  ASSUME NEW d \in Listing, Used(d) # {}
  PROVE  fat16_get_total_items_for_directory(d) > 0
<1>1. IsFiniteSet(1 .. Len(d))
  BY FS_Interval DEF Listing
<1>2. Used(d) \subseteq 1 .. Len(d)
  BY DEF Used, Listing
<1>3. IsFiniteSet(Used(d)) /\ Cardinality(Used(d)) \in Nat
  BY <1>1, <1>2, FS_Subset, FS_CardinalityType
<1>4. Cardinality(Used(d)) # 0
  BY <1>3, FS_EmptySet
<1> QED BY <1>3, <1>4 DEF fat16_get_total_items_for_directory

LEMMA LoadPuts ==
  ASSUME OInv, LoadEntries
  PROVE  /\ Fresh \in Addr /\ heap[Fresh].kind = "free"
         /\ Fresh # heap[tmp].to
         /\ heap'[Fresh].kind = "entries" /\ heap'[Fresh].to = NULL
         /\ heap'[heap[tmp].to].kind = "directory" /\ heap'[heap[tmp].to].to = Fresh
         /\ heap'[heap[tmp].to].of = heap[heap[tmp].to].of
         /\ \A a \in Addr \ {Fresh, heap[tmp].to} : heap'[a] = heap[a]
<1> DEFINE obj == Object("entries", NULL, heap[tmp].of)
           D == heap[tmp].to
<1>1. heap \in Heaps /\ TInv
  BY HeapTyped DEF OInv
<1>2. /\ pc = "entries" /\ ~Full
      /\ tmp \in Addr /\ heap[tmp].kind = "dir"
      /\ D \in Addr /\ heap[D].kind = "directory" /\ heap[D].to = NULL
      /\ Used(volume[heap[tmp].of]) # {}
  BY DEF OInv, TmpRight, LoadEntries, Is, To
<1>3. obj \in Objects
  BY <1>1, <1>2 DEF Object, Objects, Heaps, Kinds
<1>4. /\ With(obj) \in Heaps
      /\ Fresh \in Addr
      /\ heap[Fresh].kind = "free"
      /\ With(obj)[Fresh] = obj
      /\ \A a \in Addr \ {Fresh} : With(obj)[a] = heap[a]
  BY <1>1, <1>2, <1>3, WithPuts
<1>5. Total > 0
  <2>1. volume[heap[tmp].of] \in Listing
    BY <1>1, <1>2, FilesAssumption DEF TInv, TypeOK, AboutNodes
  <2> QED BY <1>2, <2>1, TotalPositive DEF Total
<1>6. heap' = [With(obj) EXCEPT ![D].to = Fresh]
  BY <1>5 DEF LoadEntries
<1>7. obj.kind = "entries" /\ obj.to = NULL
  BY DEF Object
<1> HIDE DEF obj, D
<1>8. Fresh # D
  BY <1>2, <1>4
<1>9. heap'[D] = [heap[D] EXCEPT !.to = Fresh]
  BY <1>2, <1>4, <1>6, <1>8 DEF Heaps
<1>10. heap'[D].kind = "directory" /\ heap'[D].to = Fresh /\ heap'[D].of = heap[D].of
  BY <1>1, <1>2, <1>9 DEF Heaps, Objects
<1>11. heap'[Fresh] = obj /\ \A a \in Addr \ {Fresh, D} : heap'[a] = heap[a]
  BY <1>2, <1>4, <1>6, <1>8 DEF Heaps
<1> QED BY <1>4, <1>7, <1>8, <1>10, <1>11 DEF D

LEMMA LoadKeeps ==
  ASSUME OInv, OpenStep, LoadEntries
  PROVE  OInv'
<1> DEFINE D == heap[tmp].to
<1>1. TInv' /\ heap \in Heaps /\ heap' \in Heaps /\ TInv
  BY OpenStepTyped, HeapTyped DEF OInv, TInv, TypeOK, Heaps, Objects
<1>2. /\ UNCHANGED <<volume, mounted, table, call, parsed, k, fatd, cur, tmp>>
      /\ pc = "entries" /\ pc' = "next"
  BY DEF LoadEntries, locals
<1>3. /\ tmp \in Addr /\ heap[tmp].kind = "dir" /\ Unowned(tmp)
      /\ D \in Addr /\ heap[D].kind = "directory" /\ heap[D].to = NULL
      /\ fatd \in Addr /\ heap[fatd].kind = "fatdesc" /\ heap[fatd].to = NULL /\ Unowned(fatd)
  BY <1>2, NullApart DEF OInv, TmpRight, FatdRight, Looking, Is, To
<1>4. k # 1 => /\ cur \in Addr /\ heap[cur].kind = "dir" /\ Unowned(cur) /\ tmp # cur
               /\ heap[cur].to \in Addr /\ heap[heap[cur].to].kind = "directory"
               /\ heap[cur].to # D
  BY <1>2, <1>3, NullApart DEF OInv, CurRight, Looking, Is, To
<1>5. k = 1 => cur = NULL
  BY <1>2 DEF OInv, CurRight, Looking
<1>6. /\ Fresh \in Addr /\ heap[Fresh].kind = "free" /\ Fresh # D
      /\ heap'[Fresh].kind = "entries" /\ heap'[Fresh].to = NULL
      /\ heap'[D].kind = "directory" /\ heap'[D].to = Fresh
      /\ \A a \in Addr \ {Fresh, D} : heap'[a] = heap[a]
  BY LoadPuts
<1> HIDE DEF D
<1>7. Unowned(Fresh)
  BY <1>6, FreeIsUnowned DEF OInv
<1>8. WellShaped' /\ OneOwner'
  BY <1>1, <1>3, <1>6, <1>7, LinkKeepsShape, TargetsOf DEF OInv, Owners
<1>9. TableRight'
  BY <1>1, <1>2, <1>3, <1>6, TableKept DEF OInv
<1>10. CallRight'
  BY <1>2, <1>3, <1>6 DEF OInv, CallRight, Calling, Looking, Is
<1>11. \A x \in Addr : Unowned(x) /\ heap[x].kind # "free" => Unowned(x)'
  BY <1>3, <1>6, NullApart DEF Unowned
<1>12. FatdRight'
  BY <1>2, <1>3, <1>6, <1>11 DEF FatdRight, Looking, Is
<1>13. heap'[tmp] = heap[tmp] /\ To(tmp)' = D
  <2>1. heap'[tmp] = heap[tmp]
    BY <1>3, <1>6
  <2> QED BY <1>2, <1>3, <2>1 DEF To, D
<1>14. CurRight'
  <2>1. CASE k = 1
    BY <1>2, <1>5, <2>1 DEF CurRight
  <2>2. CASE k # 1
    <3>1. heap'[cur] = heap[cur] /\ heap'[heap[cur].to] = heap[heap[cur].to]
      BY <1>3, <1>4, <1>6, <2>2
    <3>2. To(cur)' = heap[cur].to
      BY <1>2, <1>4, <2>2, <3>1 DEF To
    <3> QED BY <1>2, <1>4, <1>11, <1>13, <2>2, <3>1, <3>2 DEF CurRight, Loaded, Is
  <2> QED BY <2>1, <2>2
<1>15. TmpRight'
  BY <1>2, <1>3, <1>6, <1>11, <1>13 DEF TmpRight, Loaded, Is
<1> QED BY <1>1, <1>8, <1>9, <1>10, <1>12, <1>14, <1>15 DEF OInv

LEMMA LoadFailsKeeps ==
  ASSUME OInv, OpenStep, LoadFails
  PROVE  OInv'
<1> DEFINE D == heap[tmp].to
<1>1. TInv' /\ heap \in Heaps /\ heap' \in Heaps /\ TInv
  BY OpenStepTyped, HeapTyped DEF OInv, TInv, TypeOK, Heaps, Objects
<1>2. /\ UNCHANGED <<volume, mounted, table, call, parsed, k, fatd, cur, tmp>>
      /\ pc = "entries" /\ pc' = "next" /\ heap' = Without({D})
  BY DEF LoadFails, locals
<1>3. /\ tmp \in Addr /\ heap[tmp].kind = "dir" /\ Unowned(tmp)
      /\ D \in Addr /\ heap[D].kind = "directory" /\ heap[D].to = NULL
      /\ fatd \in Addr /\ heap[fatd].kind = "fatdesc" /\ heap[fatd].to = NULL /\ Unowned(fatd)
  BY <1>2, NullApart DEF OInv, TmpRight, FatdRight, Looking, Is, To
<1>4. k # 1 => /\ cur \in Addr /\ heap[cur].kind = "dir" /\ Unowned(cur) /\ tmp # cur
               /\ heap[cur].to \in Addr /\ heap[heap[cur].to].kind = "directory"
               /\ heap[cur].to # D
  BY <1>2, <1>3, NullApart DEF OInv, CurRight, Looking, Is, To
<1>5. k = 1 => cur = NULL
  BY <1>2 DEF OInv, CurRight, Looking
<1>6. heap'[D] = Free /\ \A a \in Addr \ {D} : heap'[a] = heap[a]
  BY <1>2, <1>3 DEF Without
<1>7. Free.kind = "free" /\ Free.to = NULL
  BY DEF Free, Object
<1>8. WellShaped' /\ OneOwner'
  <2>1. \A a \in Addr \ {D} : heap[a].kind \in Owners => heap[a].to \notin {D}
    <3> SUFFICES ASSUME NEW a \in Addr \ {D}, heap[a].kind \in Owners, heap[a].to = D
                 PROVE  FALSE
      OBVIOUS
    <3>1. heap[D].kind \in Targets(heap[a].kind)
      BY <1>3, NullApart DEF OInv, WellShaped
    <3> QED BY <1>3, <3>1, TargetsOf DEF Owners
  <2> QED BY <1>1, <1>2, <2>1, FreeingKeepsShape DEF OInv
<1> HIDE DEF D
<1>9. TableRight'
  BY <1>1, <1>2, <1>3, <1>6, TableKept DEF OInv
<1>10. CallRight'
  BY <1>2, <1>3, <1>6 DEF OInv, CallRight, Calling, Looking, Is
<1>11. \A x \in Addr : Unowned(x) => Unowned(x)'
  BY <1>6, <1>7 DEF Unowned, Owners
<1>12. FatdRight'
  BY <1>2, <1>3, <1>6, <1>11 DEF FatdRight, Looking, Is
<1>13. heap'[tmp] = heap[tmp] /\ To(tmp)' = D
  <2>1. heap'[tmp] = heap[tmp]
    BY <1>3, <1>6
  <2> QED BY <1>2, <1>3, <2>1 DEF To, D
<1>14. CurRight'
  <2>1. CASE k = 1
    BY <1>2, <1>5, <2>1 DEF CurRight
  <2>2. CASE k # 1
    <3>1. heap'[cur] = heap[cur] /\ heap'[heap[cur].to] = heap[heap[cur].to]
      BY <1>3, <1>4, <1>6, <2>2
    <3>2. To(cur)' = heap[cur].to
      BY <1>2, <1>4, <2>2, <3>1 DEF To
    <3> QED BY <1>2, <1>4, <1>11, <1>13, <2>2, <3>1, <3>2 DEF CurRight, Loaded, Is
  <2> QED BY <2>1, <2>2
<1>15. TmpRight'
  BY <1>2, <1>3, <1>6, <1>7, <1>11, <1>13 DEF TmpRight, Loaded, Is
<1> QED BY <1>1, <1>8, <1>9, <1>10, <1>12, <1>14, <1>15 DEF OInv

\* The item that was searched, its directory and the entries.
LEMMA SearchedBlocks ==
  ASSUME OInv, pc = "next", k > 1
  PROVE  /\ ItemBlocks(cur) \subseteq Addr
         /\ \A a \in ItemBlocks(cur) :
              a = cur \/ (a = To(cur) /\ heap[a].kind \in {"directory", "free"})
                \/ heap[a].kind = "entries"
         /\ \A a \in Addr \ ItemBlocks(cur) :
              heap[a].kind \in Owners => heap[a].to \notin ItemBlocks(cur)
<1> DEFINE C == heap[cur].to
           E == heap[C].to
<1>1. heap \in Heaps /\ TInv
  BY HeapTyped DEF OInv
<1>2. cur \in Addr /\ heap[cur].kind = "dir" /\ Unowned(cur) /\ Loaded(cur) /\ To(cur) = C
  BY DEF OInv, CurRight, Looking, Is, To
<1>3. C \in Addr \cup {NULL} /\ (C # NULL => C \in Addr /\ heap[C].kind \in {"directory", "free"} /\ To(C) = E)
  BY <1>1, <1>2 DEF Loaded, Heaps, Objects, To
<1>4. C # NULL => E \in Addr \cup {NULL}
  BY <1>1, <1>3 DEF Heaps, Objects
<1>5. C # NULL /\ E # NULL => heap[C].kind = "directory" /\ heap[E].kind = "entries"
  <2> SUFFICES ASSUME C # NULL, E # NULL
               PROVE  heap[C].kind = "directory" /\ heap[E].kind = "entries"
    OBVIOUS
  <2>1. heap[C].kind = "directory"
    BY <1>3 DEF OInv, WellShaped, Owners
  <2>2. heap[E].kind \in Targets("directory")
    BY <1>3, <2>1 DEF OInv, WellShaped, Owners
  <2> QED BY <2>1, <2>2, TargetsOf
<1>6. C = NULL => To(C) = NULL
  BY NullApart DEF To
<1> HIDE DEF C, E
<1>7. ItemBlocks(cur) = {cur, C, IF C = NULL THEN NULL ELSE E} \ {NULL}
  BY <1>2, <1>3, <1>6 DEF ItemBlocks
<1>8. ItemBlocks(cur) \subseteq Addr
  BY <1>2, <1>3, <1>4, <1>7
<1>9. \A a \in ItemBlocks(cur) :
        a = cur \/ (a = To(cur) /\ heap[a].kind \in {"directory", "free"})
          \/ heap[a].kind = "entries"
  BY <1>2, <1>3, <1>5, <1>7
<1>10. ASSUME NEW a \in Addr \ ItemBlocks(cur), heap[a].kind \in Owners, heap[a].to \in ItemBlocks(cur)
       PROVE  FALSE
  <2>1. heap[a].to # NULL /\ heap[heap[a].to].kind \in {"fatdesc", "file", "dir", "clone", "entries"}
    <3>1. heap[a].to \in Addr
      BY <1>8, <1>10
    <3>2. heap[heap[a].to].kind \in Targets(heap[a].kind)
      BY <1>10, <3>1, NullApart DEF OInv, WellShaped
    <3> QED BY <1>10, <3>1, <3>2, NullApart, TargetsOf DEF Owners
  <2>2. heap[a].to # cur
    BY <1>2, <1>10 DEF Unowned
  <2>3. heap[a].to # C
    BY <1>3, <2>1
  <2>4. C # NULL /\ E # NULL /\ heap[a].to = E
    BY <1>7, <1>10, <2>1, <2>2, <2>3
  <2>5. C \in Addr /\ heap[C].kind = "directory" /\ heap[C].to = E
    BY <1>3, <1>5, <2>4 DEF E
  <2>6. a = C
    BY <1>10, <2>4, <2>5 DEF OInv, OneOwner, Owners
  <2>7. C \in ItemBlocks(cur)
    BY <1>7, <2>4
  <2> QED BY <1>10, <2>6, <2>7
<1> QED BY <1>8, <1>9, <1>10

\* What freeing the item that was searched leaves alone.
LEMMA AfterFreeLeaves ==
  ASSUME OInv, pc = "next"
  PROVE  /\ AfterFree \in Heaps
         /\ \A a \in Addr : AfterFree[a] = heap[a] \/ AfterFree[a] = Free
         /\ \A a \in Addr : heap[a].kind \notin {"dir", "directory", "entries", "free"} =>
                            AfterFree[a] = heap[a]
         /\ tmp \in Addr => AfterFree[tmp] = heap[tmp]
         /\ To(tmp) \in Addr => AfterFree[To(tmp)] = heap[To(tmp)]
<1>1. heap \in Heaps /\ TInv
  BY HeapTyped DEF OInv
<1>2. CASE k > 1
  <2>1. AfterFree = [a \in Addr |-> IF a \in ItemBlocks(cur) THEN Free ELSE heap[a]]
    BY <1>2 DEF AfterFree, Without
  <2>2. AfterFree \in Heaps
    BY <1>1, <1>2, WithoutTyped DEF AfterFree
  <2>3. /\ cur \in Addr /\ heap[cur].kind = "dir" /\ tmp # cur
        /\ To(tmp) # NULL => To(tmp) # To(cur)
        /\ tmp # NULL => Is(tmp, "file") \/ (Is(tmp, "dir") /\ Loaded(tmp))
    BY <1>2 DEF OInv, CurRight, TmpRight, Looking, Is
  <2>4. \A a \in ItemBlocks(cur) :
          a = cur \/ (a = To(cur) /\ heap[a].kind \in {"directory", "free"}) \/ heap[a].kind = "entries"
    BY <1>2, SearchedBlocks
  <2>5. \A a \in Addr : heap[a].kind \notin {"dir", "directory", "entries", "free"} =>
                        AfterFree[a] = heap[a]
    BY <2>1, <2>3, <2>4
  <2>6. tmp \in Addr => AfterFree[tmp] = heap[tmp]
    <3> SUFFICES ASSUME tmp \in Addr PROVE AfterFree[tmp] = heap[tmp]
      OBVIOUS
    <3>1. heap[tmp].kind \in {"file", "dir"} /\ tmp # cur
      BY <2>3, NullApart DEF Is
    <3>2. tmp \notin ItemBlocks(cur)
      BY <2>4, <3>1
    <3> QED BY <2>1, <3>2
  <2>7. To(tmp) \in Addr => AfterFree[To(tmp)] = heap[To(tmp)]
    <3> SUFFICES ASSUME To(tmp) \in Addr
                 PROVE  AfterFree[To(tmp)] = heap[To(tmp)]
      OBVIOUS
    <3>1. tmp \in Addr
      BY NullApart DEF To
    <3>2. To(tmp) # To(cur)
      BY <2>3, NullApart
    <3>3. heap[To(tmp)].kind \in {"clone", "directory", "free"}
      <4>1. CASE heap[tmp].kind = "file"
        <5>1. heap[heap[tmp].to].kind \in Targets("file")
          BY <3>1, <4>1, NullApart DEF OInv, WellShaped, Owners, To
        <5> QED BY <3>1, <5>1, TargetsOf DEF To
      <4>2. CASE heap[tmp].kind = "dir"
        BY <2>3, <3>1, <4>2, NullApart DEF Is, Loaded
      <4> QED BY <2>3, <3>1, <4>1, <4>2, NullApart DEF Is
    <3>4. To(tmp) \notin ItemBlocks(cur)
      BY <2>3, <2>4, <3>2, <3>3
    <3> QED BY <2>1, <3>4
  <2>8. \A a \in Addr : AfterFree[a] = heap[a] \/ AfterFree[a] = Free
    BY <2>1
  <2> QED BY <2>2, <2>5, <2>6, <2>7, <2>8
<1>3. CASE ~(k > 1)
  BY <1>1, <1>3 DEF AfterFree
<1> QED BY <1>2, <1>3

LEMMA DescendKeeps ==
  ASSUME OInv, OpenStep, Descend
  PROVE  OInv'
<1>1. TInv' /\ heap \in Heaps /\ TInv
  BY OpenStepTyped, HeapTyped DEF OInv
<1>2. /\ UNCHANGED <<volume, mounted, table, call, parsed, fatd>>
      /\ pc = "next" /\ pc' = "lookup" /\ heap' = AfterFree
      /\ cur' = tmp /\ tmp' = NULL /\ k' = k + 1 /\ k # Len(call.path.names)
  BY DEF Descend, Last
<1>3. /\ tmp \in Addr /\ heap[tmp].kind = "dir" /\ Unowned(tmp) /\ Loaded(tmp)
      /\ fatd \in Addr /\ heap[fatd].kind = "fatdesc" /\ heap[fatd].to = NULL /\ Unowned(fatd)
  BY <1>2, NullApart DEF Descend, OInv, TmpRight, FatdRight, Looking, Is
<1>4. /\ \A a \in Addr : heap'[a] = heap[a] \/ heap'[a] = Free
      /\ \A a \in Addr : heap[a].kind \notin {"dir", "directory", "entries", "free"} =>
                         heap'[a] = heap[a]
      /\ heap'[tmp] = heap[tmp]
      /\ To(tmp) \in Addr => heap'[To(tmp)] = heap[To(tmp)]
  BY <1>2, <1>3, AfterFreeLeaves
<1>5. WellShaped' /\ OneOwner'
  <2>1. CASE k > 1
    <3>1. heap' = Without(ItemBlocks(cur))
      BY <1>2, <2>1 DEF AfterFree
    <3> QED BY <1>1, <1>2, <2>1, <3>1, SearchedBlocks, FreeingKeepsShape DEF OInv
  <2>2. CASE ~(k > 1)
    BY <1>2, <2>2 DEF AfterFree, OInv, WellShaped, OneOwner
  <2> QED BY <2>1, <2>2
<1>6. TableRight'
  BY <1>1, <1>2, <1>4, TableKept DEF OInv
<1>7. Free.kind = "free" /\ Free.to = NULL
  BY DEF Free, Object
<1>8. \A x \in Addr : Unowned(x) => Unowned(x)'
  BY <1>4, <1>7 DEF Unowned, Owners
<1>9. CallRight'
  <2>1. /\ call.path \in PathRoots /\ k \in 1 .. Len(call.path.names) /\ call.op = "fopen"
        /\ call.path.parses /\ mounted /\ call.mode = "r" /\ call.path.drive = 0
        /\ \A a \in parsed : Is(a, "path")
    BY <1>2 DEF OInv, CallRight, Calling, Looking
  <2>2. k' \in 1 .. Len(call.path.names)
    BY <1>2, <2>1, PathRootNames
  <2>3. \A a \in parsed : Is(a, "path")'
    BY <1>4, <2>1 DEF Is
  <2> QED BY <1>2, <2>1, <2>2, <2>3 DEF CallRight, Calling, Looking
<1>10. FatdRight'
  BY <1>2, <1>3, <1>4, <1>8 DEF FatdRight, Looking, Is
<1>11. CurRight'
  <2>1. k \in Nat /\ k >= 1
    BY <1>2, PathRootNames DEF OInv, CallRight, Calling, Looking
  <2>2. Is(cur, "dir")' /\ Unowned(cur)' /\ (tmp # cur)'
    BY <1>2, <1>3, <1>4, <1>8, NullApart DEF Is
  <2>3. To(cur)' = To(tmp)
    BY <1>2, <1>3, <1>4 DEF To
  <2>4. To(tmp) \in Addr \cup {NULL}
    BY <1>1, <1>3 DEF To, Heaps, Objects
  <2>5. Loaded(cur)'
    BY <1>3, <1>4, <2>3, <2>4 DEF Loaded
  <2>6. To(tmp)' = NULL
    BY <1>2, NullApart DEF To
  <2> QED BY <1>2, <2>1, <2>2, <2>5, <2>6 DEF CurRight, Looking
<1>12. TmpRight'
  BY <1>2 DEF TmpRight
<1> QED BY <1>1, <1>5, <1>6, <1>9, <1>10, <1>11, <1>12 DEF OInv

LEMMA OpenFailsKeeps ==
  ASSUME OInv, OpenStep, OpenFails
  PROVE  OInv'
<1>1. TInv' /\ heap \in Heaps /\ TInv
  BY OpenStepTyped, HeapTyped DEF OInv
<1>2. /\ UNCHANGED <<volume, mounted, table, call, locals>>
      /\ pc = "next" /\ pc' = "idle" /\ heap' = AfterFree
  BY DEF OpenFails, Return
<1>3. \A a \in Addr : heap[a].kind \notin {"dir", "directory", "entries", "free"} => heap'[a] = heap[a]
  BY <1>2, AfterFreeLeaves
<1>4. WellShaped' /\ OneOwner'
  <2>1. CASE k > 1
    <3>1. heap' = Without(ItemBlocks(cur))
      BY <1>2, <2>1 DEF AfterFree
    <3> QED BY <1>1, <1>2, <2>1, <3>1, SearchedBlocks, FreeingKeepsShape DEF OInv
  <2>2. CASE ~(k > 1)
    BY <1>2, <2>2 DEF AfterFree, OInv, WellShaped, OneOwner
  <2> QED BY <2>1, <2>2
<1>5. TableRight'
  BY <1>1, <1>2, <1>3, TableKept DEF OInv
<1> QED BY <1>1, <1>2, <1>4, <1>5
        DEF OInv, CallRight, FatdRight, CurRight, TmpRight, Looking, Calling

LEMMA OpenSucceedsKeeps ==
  ASSUME OInv, OpenStep, OpenSucceeds
  PROVE  OInv'
<1> DEFINE freed == AfterFree
<1>1. TInv' /\ heap \in Heaps /\ heap' \in Heaps /\ TInv
  BY OpenStepTyped, HeapTyped DEF OInv, TInv, TypeOK, Heaps, Objects
<1>2. /\ UNCHANGED <<volume, mounted, table, call, locals>>
      /\ pc = "next" /\ pc' = "descriptor" /\ heap' = [freed EXCEPT ![fatd].to = tmp]
      /\ tmp # NULL
  BY DEF OpenSucceeds
<1>3. /\ tmp \in Addr /\ heap[tmp].kind \in {"file", "dir"} /\ Unowned(tmp)
      /\ fatd \in Addr /\ heap[fatd].kind = "fatdesc" /\ heap[fatd].to = NULL /\ Unowned(fatd)
  BY <1>2, NullApart DEF OInv, TmpRight, FatdRight, Looking, Is
<1>4. /\ freed \in Heaps
      /\ \A a \in Addr : freed[a] = heap[a] \/ freed[a] = Free
      /\ \A a \in Addr : heap[a].kind \notin {"dir", "directory", "entries", "free"} =>
                         freed[a] = heap[a]
      /\ freed[tmp] = heap[tmp]
  BY <1>2, <1>3, AfterFreeLeaves
<1>5. \A a \in Addr : freed[a] # heap[a] =>
        \A b \in Addr : heap[b].kind \in Owners /\ heap[b].to = a => freed[b] = Free
  <2>1. CASE k > 1
    <3>1. \A a \in Addr \ ItemBlocks(cur) : heap[a].kind \in Owners => heap[a].to \notin ItemBlocks(cur)
      BY <1>2, <2>1, SearchedBlocks
    <3>2. \A a \in Addr : freed[a] = IF a \in ItemBlocks(cur) THEN Free ELSE heap[a]
      BY <2>1 DEF AfterFree, Without
    <3> HIDE DEF freed
    <3> QED BY <3>1, <3>2
  <2>2. CASE ~(k > 1)
    BY <2>2 DEF AfterFree
  <2> QED BY <2>1, <2>2
<1> HIDE DEF freed
<1>6. /\ heap'[fatd].kind = "fatdesc" /\ heap'[fatd].to = tmp
      /\ \A a \in Addr \ {fatd} : heap'[a] = freed[a]
  BY <1>1, <1>2, <1>3, <1>4 DEF Heaps, Objects
<1>7. Free.kind = "free" /\ Free.to = NULL
  BY DEF Free, Object
<1>8. WellShaped'
  <2> SUFFICES ASSUME NEW a \in Addr
               PROVE  /\ heap'[a].kind \notin Owners \cup {"dir"} => heap'[a].to = NULL
                      /\ heap'[a].kind = "desc" => heap'[a].to # NULL
                      /\ heap'[a].kind \in Owners /\ heap'[a].to # NULL =>
                           heap'[heap'[a].to].kind \in Targets(heap'[a].kind)
    BY DEF WellShaped
  <2>1. CASE a = fatd
    <3>1. tmp # fatd /\ heap'[tmp] = heap[tmp]
      BY <1>3, <1>4, <1>6
    <3> QED BY <1>3, <1>6, <2>1, <3>1, NullApart, TargetsOf DEF Owners
  <2>2. CASE a # fatd /\ freed[a] = Free
    BY <1>6, <1>7, <2>2 DEF Owners
  <2>3. CASE a # fatd /\ freed[a] = heap[a] /\ freed[a] # Free
    <3>1. heap'[a] = heap[a]
      BY <1>6, <2>3
    <3>2. ASSUME heap[a].kind \in Owners, heap[a].to # NULL
          PROVE  heap'[heap[a].to].kind = heap[heap[a].to].kind
      <4>1. heap[a].to \in Addr
        BY <1>1, <3>2 DEF Heaps, Objects
      <4>2. freed[heap[a].to] = heap[heap[a].to]
        BY <1>5, <2>3, <3>2, <4>1
      <4> QED BY <1>3, <1>6, <4>1, <4>2
    <3> QED BY <3>1, <3>2 DEF OInv, WellShaped
  <2> QED BY <1>4, <2>1, <2>2, <2>3
<1>9. OneOwner'
  <2>1. \A a \in Addr \ {fatd} : heap'[a].kind \in Owners => heap'[a] = heap[a] /\ heap[a].to # tmp
    BY <1>3, <1>4, <1>6, <1>7 DEF Unowned, Owners
  <2> QED BY <1>6, <2>1 DEF OInv, OneOwner
<1>10. TableRight'
  BY <1>1, <1>2, <1>3, <1>4, <1>6, TableKept DEF OInv
<1>11. CallRight'
  BY <1>2, <1>3, <1>4, <1>6 DEF OInv, CallRight, Calling, Looking, Is, locals
<1>12. FatdRight'
  <2>1. Unowned(fatd)'
    <3>1. \A a \in Addr \ {fatd} : heap'[a].kind \in Owners => heap'[a] = heap[a]
      BY <1>4, <1>6, <1>7 DEF Owners
    <3>2. fatd # tmp
      BY <1>3
    <3> QED BY <1>2, <1>3, <1>6, <3>1, <3>2 DEF Unowned, locals
  <2> QED BY <1>2, <1>3, <1>6, <2>1, NullApart DEF FatdRight, Looking, Is, locals
<1> QED BY <1>1, <1>2, <1>8, <1>9, <1>10, <1>11, <1>12 DEF OInv, CurRight, TmpRight, Looking

LEMMA DescriptorKeeps ==
  ASSUME OInv, OpenStep, file_new_descriptor
  PROVE  OInv'
<1> DEFINE obj == Object("desc", fatd, FreeSlot)
<1>1. TInv' /\ heap \in Heaps /\ heap' \in Heaps /\ TInv
  BY OpenStepTyped, HeapTyped DEF OInv, TInv, TypeOK, Heaps, Objects
<1>2. /\ pc = "descriptor" /\ pc' = "idle" /\ ~Full /\ heap' = With(obj)
      /\ table' = [table EXCEPT ![FreeSlot] = Fresh]
      /\ UNCHANGED <<volume, mounted, call, locals>>
  BY DEF file_new_descriptor, Return
<1>3. FreeSlot \in Descriptors /\ table[FreeSlot] = NULL
  BY FreeSlotIsSlot DEF file_new_descriptor, Slots
<1>4. fatd \in Addr /\ heap[fatd].kind = "fatdesc" /\ heap[fatd].to # NULL /\ Unowned(fatd)
  BY <1>2 DEF OInv, FatdRight, Is
<1>5. obj \in Objects /\ obj.kind = "desc" /\ obj.to = fatd /\ obj.of = FreeSlot
  BY <1>3, <1>4 DEF Object, Objects, Kinds
<1> HIDE DEF obj
<1>6. /\ Fresh \in Addr
      /\ heap[Fresh].kind = "free"
      /\ heap'[Fresh] = obj
      /\ \A a \in Addr \ {Fresh} : heap'[a] = heap[a]
  BY <1>1, <1>2, <1>5, WithPuts
<1>7. WellShaped' /\ OneOwner'
  <2>1. heap'[Fresh].kind = "desc" /\ Is(heap'[Fresh].to, "fatdesc") /\ Unowned(heap'[Fresh].to)
    BY <1>4, <1>5, <1>6 DEF Is
  <2> QED BY <1>1, <1>6, <2>1, PutKeepsShape DEF OInv
<1>8. TableRight'
  <2> SUFFICES ASSUME NEW fd \in Descriptors, table'[fd] # NULL
               PROVE  (Is(table[fd], "desc") /\ heap[table[fd]].of = fd /\ Item(fd) # NULL)'
    BY DEF TableRight, Issued
  <2>1. table \in [Descriptors -> Addr \cup {NULL}]
    BY <1>1 DEF TInv, TypeOK
  <2>2. CASE fd = FreeSlot
    <3>1. table'[fd] = Fresh
      BY <1>2, <1>3, <2>1, <2>2
    <3>2. heap'[fatd] = heap[fatd]
      BY <1>4, <1>6
    <3> QED BY <1>4, <1>5, <1>6, <2>2, <3>1, <3>2 DEF Is, Item, To
  <2>3. CASE fd # FreeSlot
    <3>1. table'[fd] = table[fd]
      BY <1>2, <1>3, <2>1, <2>3
    <3>2. Is(table[fd], "desc") /\ heap[table[fd]].of = fd /\ Item(fd) # NULL
      BY <2>3, <3>1 DEF OInv, TableRight, Issued
    <3>3. heap[table[fd]].to \in Addr /\ heap[heap[table[fd]].to].kind = "fatdesc"
      <4>1. heap[table[fd]].to \in Addr \cup {NULL}
        BY <1>1, <3>2 DEF Is, Heaps, Objects
      <4> QED BY <3>2, <4>1, TargetsOf DEF Is, OInv, WellShaped, Owners
    <3>4. heap'[table[fd]] = heap[table[fd]] /\ heap'[heap[table[fd]].to] = heap[heap[table[fd]].to]
      BY <1>6, <3>2, <3>3 DEF Is
    <3> QED BY <3>1, <3>2, <3>3, <3>4 DEF Is, Item, To
  <2> QED BY <2>2, <2>3
<1> QED BY <1>1, <1>2, <1>7, <1>8
        DEF OInv, CallRight, FatdRight, CurRight, TmpRight, Looking, Calling

\* The objects of a descriptor that fclose frees.
LEMMA HeldBlocks ==
  ASSUME OInv, NEW fd \in Issued, Sound(fd)
  PROVE  LET S == fat16_close(fd) \cup {table[fd]}
         IN /\ S \subseteq Addr
            /\ table[fd] \notin fat16_close(fd)
            /\ \A a \in S :
                 \/ a \in {table[fd], To(table[fd]), Item(fd)}
                 \/ heap[a].kind \notin {"desc", "fatdesc", "file", "dir"}
            /\ \A a \in Addr \ S : heap[a].kind \in Owners => heap[a].to \notin S
<1> DEFINE d == table[fd]
           e == heap[d].to
           i == heap[e].to
           c == heap[i].to
           n == heap[c].to
           S == {d, e, i, c, IF c = NULL THEN NULL ELSE n} \ {NULL}
<1>1. heap \in Heaps /\ TInv
  BY HeapTyped DEF OInv
<1>2. d \in Addr /\ heap[d].kind = "desc" /\ Item(fd) # NULL
  BY DEF OInv, TableRight, Is
<1>3. e \in Addr /\ heap[e].kind = "fatdesc" /\ To(d) = e
  BY <1>2 DEF Sound, Is, To
<1>4. i \in Addr /\ To(e) = i /\ Item(fd) = i
      /\ \/ heap[i].kind = "file" /\ c \in Addr /\ heap[c].kind = "clone"
         \/ heap[i].kind = "dir" /\ (c # NULL => c \in Addr /\ heap[c].kind \in {"directory", "free"})
  <2>1. i = To(To(table[fd])) /\ i \in Addr \cup {NULL}
    BY <1>1, <1>2, <1>3 DEF To, Heaps, Objects
  <2>2. i \in Addr
    BY <1>2, <2>1 DEF Item
  <2>3. c \in Addr \cup {NULL} /\ To(i) = c
    BY <1>1, <2>2 DEF To, Heaps, Objects
  <2> QED BY <1>3, <2>1, <2>2, <2>3, NullApart DEF Sound, Is, Item, To
<1>5. c # NULL => c \in Addr /\ n \in Addr \cup {NULL} /\ To(c) = n
  BY <1>1, <1>4 DEF To, Heaps, Objects
<1>6. c # NULL /\ n # NULL => heap[c].kind = "directory" /\ heap[n].kind = "entries"
  <2> SUFFICES ASSUME c # NULL, n # NULL
               PROVE  heap[c].kind = "directory" /\ heap[n].kind = "entries"
    OBVIOUS
  <2>1. heap[c].kind = "directory"
    BY <1>4, <1>5 DEF OInv, WellShaped, Owners
  <2>2. heap[n].kind \in Targets("directory")
    BY <1>5, <2>1 DEF OInv, WellShaped, Owners
  <2> QED BY <2>1, <2>2, TargetsOf
<1>7. c = NULL => To(c) = NULL
  BY NullApart DEF To
<1>8. To(i) = c
  BY <1>4 DEF To
<1> HIDE DEF d, e, i, c, n
<1>9. fat16_close(fd) = {e, i, c, IF c = NULL THEN NULL ELSE n} \ {NULL}
  BY <1>3, <1>4, <1>5, <1>7, <1>8, NullApart DEF fat16_close, ItemBlocks, d, Item
<1>10. S = fat16_close(fd) \cup {table[fd]}
  BY <1>2, <1>9, NullApart DEF d
<1>11. S \subseteq Addr
  BY <1>2, <1>3, <1>4, <1>5
<1>12. d \notin fat16_close(fd)
  BY <1>2, <1>3, <1>4, <1>5, <1>6, <1>9
<1>13. \A a \in S : a \in {d, e, i} \/ heap[a].kind \notin {"desc", "fatdesc", "file", "dir"}
  BY <1>4, <1>6
<1>14. ASSUME NEW a \in Addr \ S, heap[a].kind \in Owners, heap[a].to \in S
       PROVE  FALSE
  <2>1. heap[a].to # NULL /\ heap[heap[a].to].kind \in {"fatdesc", "file", "dir", "clone", "entries"}
    <3>1. heap[a].to \in Addr
      BY <1>11, <1>14
    <3>2. heap[heap[a].to].kind \in Targets(heap[a].kind)
      BY <1>14, <3>1, NullApart DEF OInv, WellShaped
    <3> QED BY <1>14, <3>1, <3>2, NullApart, TargetsOf DEF Owners
  <2>2. heap[a].to # d
    BY <1>2, <2>1
  <2>3. heap[a].to # e
    <3>1. heap[d].to = e /\ heap[d].kind \in Owners /\ d \in S
      BY <1>2, NullApart DEF e, Owners
    <3> QED BY <1>2, <1>14, <2>1, <3>1 DEF OInv, OneOwner
  <2>4. heap[a].to # i
    <3>1. heap[e].to = i /\ heap[e].kind \in Owners /\ e \in S
      BY <1>3, NullApart DEF i, Owners
    <3> QED BY <1>3, <1>14, <2>1, <3>1 DEF OInv, OneOwner
  <2>5. heap[a].to # c
    <3>1. CASE heap[i].kind = "file"
      <4>1. heap[i].to = c /\ heap[i].kind \in Owners /\ i \in S
        BY <1>4, <3>1, NullApart DEF c, Owners
      <4> QED BY <1>4, <1>14, <2>1, <4>1 DEF OInv, OneOwner
    <3>2. CASE heap[i].kind = "dir"
      BY <1>4, <2>1, <3>2
    <3> QED BY <1>4, <3>1, <3>2
  <2>6. c # NULL /\ n # NULL /\ heap[a].to = n
    BY <1>14, <2>1, <2>2, <2>3, <2>4, <2>5
  <2>7. heap[c].to = n /\ heap[c].kind \in Owners /\ c \in S /\ c \in Addr
    BY <1>5, <1>6, <2>6 DEF n, Owners
  <2> QED BY <1>14, <2>1, <2>6, <2>7 DEF OInv, OneOwner
<1> QED BY <1>3, <1>4, <1>10, <1>11, <1>12, <1>13, <1>14 DEF d

LEMMA CloseKeeps ==
  ASSUME OInv, NEW fd \in {0} \cup Descriptors, fclose(fd), TInv'
  PROVE  /\ OInv'
         /\ fd \in Issued
         /\ table' = [table EXCEPT ![fd] = NULL]
<1> DEFINE S == fat16_close(fd) \cup {table[fd]}
<1>1. heap \in Heaps /\ TInv
  BY HeapTyped DEF OInv
<1>2. /\ fd \in Issued /\ Sound(fd) /\ heap' = Without(S) /\ table' = file_descriptor_free(fd)
      /\ pc' = "idle"
  BY FilesAssumption DEF fclose, Accepted, Issued, Return, Descriptors
<1>3. /\ S \subseteq Addr
      /\ table[fd] \notin fat16_close(fd)
      /\ \A a \in S : \/ a \in {table[fd], To(table[fd]), Item(fd)}
                      \/ heap[a].kind \notin {"desc", "fatdesc", "file", "dir"}
      /\ \A a \in Addr \ S : heap[a].kind \in Owners => heap[a].to \notin S
  BY <1>2, HeldBlocks
<1> HIDE DEF S
<1>4. WellShaped' /\ OneOwner'
  BY <1>1, <1>2, <1>3, FreeingKeepsShape DEF OInv
<1>5. table' = [table EXCEPT ![fd] = NULL]
  BY <1>2, <1>3 DEF file_descriptor_free, OInv, TableRight
<1>6. TableRight'
  <2> SUFFICES ASSUME NEW g \in Descriptors, table'[g] # NULL
               PROVE  (Is(table[g], "desc") /\ heap[table[g]].of = g /\ Item(g) # NULL)'
    BY DEF TableRight, Issued
  <2>1. g # fd /\ table'[g] = table[g] /\ g \in Issued
    BY <1>1, <1>2, <1>5 DEF TInv, TypeOK, Issued
  <2>2. Is(table[g], "desc") /\ heap[table[g]].of = g /\ Item(g) # NULL
    BY <2>1 DEF OInv, TableRight
  <2>3. Is(table[fd], "desc") /\ heap[table[fd]].of = fd /\ Is(To(table[fd]), "fatdesc")
        /\ (Is(Item(fd), "file") \/ Is(Item(fd), "dir"))
    BY <1>2 DEF OInv, TableRight, Sound, Item
  <2>4. heap[table[g]].to \in Addr /\ heap[heap[table[g]].to].kind = "fatdesc"
    <3>1. heap[table[g]].to \in Addr \cup {NULL}
      BY <1>1, <2>2 DEF Is, Heaps, Objects
    <3> QED BY <2>2, <3>1, TargetsOf DEF Is, OInv, WellShaped, Owners
  <2>5. table[g] # table[fd]
    BY <2>1, <2>2, <2>3
  <2>6. heap[table[g]].to # heap[table[fd]].to
    BY <2>2, <2>3, <2>4, <2>5, NullApart DEF OInv, OneOwner, Owners, Is
  <2>7. table[g] \notin S
    BY <1>3, <2>2, <2>3, <2>5 DEF Is
  <2>8. heap[table[g]].to \notin S
    BY <1>3, <2>3, <2>4, <2>6 DEF Is, To
  <2>9. heap'[table[g]] = heap[table[g]] /\ heap'[heap[table[g]].to] = heap[heap[table[g]].to]
    BY <1>2, <2>2, <2>4, <2>7, <2>8 DEF Without, Is
  <2> QED BY <2>1, <2>2, <2>4, <2>9 DEF Is, Item, To
<1> QED BY <1>2, <1>4, <1>5, <1>6
        DEF OInv, CallRight, FatdRight, CurRight, TmpRight, Looking, Calling

LEMMA MountKeeps ==
  ASSUME OInv, NothingIssued, Mount
  PROVE  OInv'
<1>1. PICK ours \in BOOLEAN : fat16_resolve(ours)
  BY DEF Mount
<1>2. TInv' /\ TInv
  BY OtherStepsTyped DEF OInv
<1> DEFINE fs == Object("fs", NULL, Root)
           made == {1, 2, 3} \cup (IF ours THEN {0, 5} ELSE {})
<1>3. heap' = [a \in Addr |-> IF a \in made THEN fs ELSE Free]
  BY <1>1 DEF fat16_resolve, fat16_init_private, fat16_get_root_directory
<1>4. fs.kind = "fs" /\ fs.to = NULL /\ Free.kind = "free" /\ Free.to = NULL
  BY DEF Object, Free
<1> HIDE DEF fs, made
<1>5. WellShaped' /\ OneOwner'
  BY <1>3, <1>4 DEF WellShaped, OneOwner, Owners
<1>6. pc = "boot" /\ pc' = "idle" /\ UNCHANGED table
  BY <1>1 DEF fat16_resolve
<1>7. TableRight'
  <2>1. Issued = {}
    BY <1>6 DEF NothingIssued
  <2> QED BY <1>6, <2>1 DEF TableRight, Issued
<1> QED BY <1>2, <1>5, <1>6, <1>7
        DEF OInv, CallRight, FatdRight, CurRight, TmpRight, Looking, Calling

LEMMA StartKeeps ==
  ASSUME OInv, Opening, TInv'
  PROVE  OInv'
<1>1. /\ UNCHANGED <<volume, mounted, heap, table>>
      /\ pc = "idle" /\ pc' = "root"
      /\ parsed' = {} /\ k' = 1 /\ cur' = NULL /\ tmp' = NULL
      /\ call'.path \in PathRoots /\ call'.op \in {"fopen", "demo_pparser"}
  <2>1. ASSUME NEW path \in DemoPaths, demo_pparser(path)
        PROVE  /\ UNCHANGED <<volume, mounted, heap, table>>
               /\ pc = "idle" /\ pc' = "root"
               /\ parsed' = {} /\ k' = 1 /\ cur' = NULL /\ tmp' = NULL
               /\ call'.path \in PathRoots /\ call'.op \in {"fopen", "demo_pparser"}
    BY <2>1, FilesAssumption DEF demo_pparser, Start
  <2>2. ASSUME NEW r \in Requests, fopen(r.path, r.mode)
        PROVE  /\ UNCHANGED <<volume, mounted, heap, table>>
               /\ pc = "idle" /\ pc' = "root"
               /\ parsed' = {} /\ k' = 1 /\ cur' = NULL /\ tmp' = NULL
               /\ call'.path \in PathRoots /\ call'.op \in {"fopen", "demo_pparser"}
    <3>1. r.path \in PathRoots
      BY FilesAssumption
    <3> QED BY <2>2, <3>1 DEF fopen, Start
  <2> QED BY <2>1, <2>2 DEF Opening
<1>2. WellShaped' /\ OneOwner' /\ TableRight'
  BY <1>1 DEF OInv, WellShaped, OneOwner, TableRight, Issued, Is, Item, To
<1>3. CallRight'
  BY <1>1, PathRootNames DEF CallRight, Calling, Looking
<1> QED BY <1>1, <1>2, <1>3
        DEF OInv, FatdRight, CurRight, TmpRight, Looking

\* A call that changes no object.
LEMMA UseKeeps ==
  ASSUME OInv, UNCHANGED <<volume, mounted, heap, table>>, pc = "idle", pc' \in {"idle", "wild"}, TInv'
  PROVE  OInv'
<1>1. WellShaped' /\ OneOwner' /\ TableRight'
  BY DEF OInv, WellShaped, OneOwner, TableRight, Issued, Is, Item, To
<1> QED BY <1>1
        DEF OInv, CallRight, FatdRight, CurRight, TmpRight, Looking, Calling

LEMMA UsingKeeps ==
  ASSUME OInv, Using, TInv'
  PROVE  OInv'
<1>1. ASSUME NEW fd, NEW op, Served(op, fd) \/ Rejected(op, fd) \/ UseGoesWild(op, fd)
      PROVE  UNCHANGED <<volume, mounted, heap, table>> /\ pc = "idle" /\ pc' \in {"idle", "wild"}
  BY <1>1 DEF Served, Rejected, UseGoesWild, Use, Start, Return
<1> QED BY <1>1, CloseKeeps, UseKeeps DEF Using

LEMMA ShapedInitially == Init => OInv
<1> SUFFICES ASSUME Init PROVE OInv
  OBVIOUS
<1>1. Free.kind = "free" /\ Free.to = NULL
  BY DEF Free, Object
<1>2. WellShaped /\ OneOwner
  BY <1>1 DEF Init, WellShaped, OneOwner, Owners
<1> QED BY <1>2, TypedInitially
        DEF Init, OInv, TableRight, Issued, CallRight, FatdRight, CurRight, TmpRight,
            Looking, Calling

LEMMA NothingIssuedNext == NothingIssued /\ [Next]_vars => NothingIssued'
<1> SUFFICES ASSUME NothingIssued, [Next]_vars PROVE NothingIssued'
  OBVIOUS
<1>1. Mount => pc' # "boot"
  BY DEF Mount, fat16_resolve
<1>2. Opening => pc' # "boot"
  BY DEF Opening, demo_pparser, fopen
<1>3. Using => pc' # "boot"
  BY DEF Using, Served, Rejected, UseGoesWild, fclose, Return
<1>4. OpenStep => pc' # "boot"
  BY DEF OpenStep, ParseRoot, ParsePart, ParseName, pparser_free_path_root, Refused, fat16_open,
         NotFound, fat16_new_fat_item, fat16_clone_directory_item, AllocateDirectory, LoadEntries,
         LoadFails, Descend, OpenFails, OpenSucceeds, file_new_descriptor, NoSlot, GoesWild, Return
<1>5. UNCHANGED vars => NothingIssued'
  BY DEF vars, NothingIssued, Issued
<1> QED BY <1>1, <1>2, <1>3, <1>4, <1>5 DEF Next, NothingIssued

LEMMA ShapedNext == NoneEmpty /\ OInv /\ NothingIssued /\ [Next]_vars => OInv'
<1> SUFFICES ASSUME NoneEmpty, OInv, NothingIssued, [Next]_vars PROVE OInv'
  OBVIOUS
<1>1. TInv'
  BY TypedNext DEF OInv
<1>2. CASE OpenStep
  BY <1>2, ParseKeeps, RefusedKeeps, WildKeeps, DemoKeeps, OpenKeeps, NotFoundKeeps, ItemKeeps,
     CloneKeeps, DirectoryKeeps, LoadKeeps, LoadFailsKeeps, DescendKeeps, OpenFailsKeeps,
     OpenSucceedsKeeps, DescriptorKeeps DEF OpenStep
<1>3. CASE UNCHANGED vars
  <2>1. UNCHANGED <<volume, mounted, heap, table, pc, call, parsed, k, fatd, cur, tmp, ret>>
    BY <1>3 DEF vars, locals
  <2>2. WellShaped' /\ OneOwner' /\ TableRight' /\ CallRight' /\ FatdRight'
    BY <2>1 DEF OInv, WellShaped, OneOwner, TableRight, Issued, Is, Item, To, CallRight, FatdRight,
                Unowned
  <2>3. CurRight' /\ TmpRight'
    BY <2>1 DEF OInv, CurRight, TmpRight, Is, To, Unowned, Loaded
  <2> QED BY <1>1, <2>1, <2>2, <2>3 DEF OInv
<1> QED BY <1>1, <1>2, <1>3, MountKeeps, StartKeeps, UsingKeeps DEF Next

LEMMA Shaped == NoneEmpty /\ Spec => [](OInv /\ NothingIssued)
<1>1. Init => OInv /\ NothingIssued
  <2>1. Init => NothingIssued
    BY DEF Init, NothingIssued, Issued
  <2> QED BY <2>1, ShapedInitially
<1>2. NoneEmpty /\ OInv /\ NothingIssued /\ [Next]_vars => (OInv /\ NothingIssued)'
  BY ShapedNext, NothingIssuedNext
<1>3. NoneEmpty => NoneEmpty'
  BY DEF NoneEmpty
<1> HIDE DEF NoneEmpty
<1> QED BY <1>1, <1>2, <1>3, PTL DEF Spec

-----------------------------------------------------------------------------
(* The descriptors *)

\* An issued descriptor leads to fat16_open's, and that one to an item.
LEMMA HeldTyped ==
  ASSUME OInv, NEW fd \in Issued
  PROVE  /\ fd \in Descriptors
         /\ table[fd] \in Addr /\ heap[table[fd]].kind = "desc" /\ heap[table[fd]].of = fd
         /\ To(table[fd]) = heap[table[fd]].to
         /\ To(table[fd]) \in Addr /\ heap[To(table[fd])].kind = "fatdesc"
         /\ Item(fd) = heap[To(table[fd])].to
         /\ Item(fd) \in Addr /\ heap[Item(fd)].kind \in {"file", "dir"}
         /\ heap[Item(fd)].of \in Nodes \ {Root}
<1>1. heap \in Heaps /\ TInv /\ fd \in Descriptors
  BY HeapTyped DEF OInv, Issued
<1>2. table[fd] \in Addr /\ heap[table[fd]].kind = "desc" /\ heap[table[fd]].of = fd /\ Item(fd) # NULL
  BY DEF OInv, TableRight, Is
<1>3. To(table[fd]) = heap[table[fd]].to /\ To(table[fd]) \in Addr /\ heap[To(table[fd])].kind = "fatdesc"
  <2>1. heap[table[fd]].to \in Addr \cup {NULL}
    BY <1>1, <1>2 DEF Heaps, Objects
  <2> QED BY <1>2, <2>1, TargetsOf DEF OInv, WellShaped, Owners, To
<1>4. Item(fd) = heap[To(table[fd])].to /\ Item(fd) \in Addr /\ heap[Item(fd)].kind \in {"file", "dir"}
  <2>1. heap[To(table[fd])].to \in Addr \cup {NULL}
    BY <1>1, <1>3 DEF Heaps, Objects
  <2>2. Item(fd) = heap[To(table[fd])].to
    BY <1>3 DEF Item, To
  <2> QED BY <1>2, <1>3, <2>1, <2>2, TargetsOf DEF OInv, WellShaped, Owners
<1>5. heap[Item(fd)].of \in Nodes \ {Root}
  BY <1>1, <1>4 DEF TInv, AboutNodes
<1> QED BY <1>1, <1>2, <1>3, <1>4, <1>5

\* Two descriptors hold different objects.
LEMMA HeldApart ==
  ASSUME OInv, NEW fd \in Issued, NEW g \in Issued \ {fd}
  PROVE  table[g] # table[fd] /\ To(table[g]) # To(table[fd]) /\ Item(g) # Item(fd)
<1>1. table[g] # table[fd]
  BY HeldTyped
<1>2. To(table[g]) # To(table[fd])
  BY <1>1, HeldTyped, NullApart DEF OInv, OneOwner, Owners
<1>3. Item(g) # Item(fd)
  BY <1>2, HeldTyped, NullApart DEF OInv, OneOwner, Owners
<1> QED BY <1>1, <1>2, <1>3

LEMMA CloneOf ==
  ASSUME OInv, NEW i \in Addr, heap[i].kind = "file"
  PROVE  /\ To(i) = heap[i].to
         /\ To(i) # NULL => To(i) \in Addr /\ heap[To(i)].kind = "clone"
<1>1. To(i) = heap[i].to
  BY DEF To
<1>2. heap[i].to \in Addr \cup {NULL}
  BY HeapTyped DEF OInv, Heaps, Objects
<1> QED BY <1>1, <1>2, TargetsOf DEF OInv, WellShaped, Owners

LEMMA ShapedIsIntact == OInv => DescriptorsIntact
<1> SUFFICES ASSUME OInv, NEW fd \in Issued
             PROVE  /\ Is(table[fd], "desc") /\ heap[table[fd]].of = fd
                    /\ Is(To(table[fd]), "fatdesc")
                    /\ \/ Is(Item(fd), "dir")
                       \/ Is(Item(fd), "file") /\ (To(Item(fd)) # NULL => Is(To(Item(fd)), "clone"))
                    /\ \A g \in Issued \ {fd} : Core(fd) \cap Core(g) = {}
  BY DEF DescriptorsIntact
<1>1. /\ Is(table[fd], "desc") /\ heap[table[fd]].of = fd
      /\ Is(To(table[fd]), "fatdesc")
      /\ \/ Is(Item(fd), "dir")
         \/ Is(Item(fd), "file") /\ (To(Item(fd)) # NULL => Is(To(Item(fd)), "clone"))
  BY HeldTyped, CloneOf DEF Is
<1>2. ASSUME NEW g \in Issued \ {fd}, NEW a \in Core(fd), a \in Core(g)
      PROVE  FALSE
  <2>1. \A h \in Issued : \A b \in Core(h) :
          \/ b = table[h] /\ heap[b].kind = "desc"
          \/ b = To(table[h]) /\ heap[b].kind = "fatdesc"
          \/ b = Item(h) /\ heap[b].kind \in {"file", "dir"}
          \/ b = To(Item(h)) /\ b # NULL /\ heap[Item(h)].kind = "file" /\ heap[b].kind = "clone"
    <3> SUFFICES ASSUME NEW h \in Issued, NEW b \in Core(h)
                 PROVE  \/ b = table[h] /\ heap[b].kind = "desc"
                        \/ b = To(table[h]) /\ heap[b].kind = "fatdesc"
                        \/ b = Item(h) /\ heap[b].kind \in {"file", "dir"}
                        \/ b = To(Item(h)) /\ b # NULL /\ heap[Item(h)].kind = "file" /\ heap[b].kind = "clone"
      OBVIOUS
    <3>1. CASE b \in {table[h], To(table[h]), Item(h)}
      BY <3>1, HeldTyped
    <3>2. CASE b = To(Item(h)) /\ b # NULL /\ Is(Item(h), "file")
      BY <3>2, CloneOf DEF Is
    <3> QED BY <3>1, <3>2 DEF Core
  <2>2. table[g] # table[fd] /\ To(table[g]) # To(table[fd]) /\ Item(g) # Item(fd)
    BY <1>2, HeldApart
  <2>3. /\ a = To(Item(fd)) /\ a # NULL /\ heap[Item(fd)].kind = "file"
        /\ a = To(Item(g)) /\ heap[Item(g)].kind = "file"
    BY <1>2, <2>1, <2>2
  <2>4. Item(fd) \in Addr /\ Item(g) \in Addr
    BY <1>2, HeldTyped
  <2>5. heap[Item(fd)].to = heap[Item(g)].to /\ heap[Item(g)].to # NULL
    BY <2>3, <2>4 DEF To
  <2> QED BY <2>2, <2>3, <2>4, <2>5 DEF OInv, OneOwner, Owners
<1> QED BY <1>1, <1>2

\* Whatever is opened and closed, in whatever order, and whichever of the
\* calls of fopen fail halfway, the objects of an issued descriptor stay
\* allocated, stay what the code takes them for, and belong to no other
\* descriptor.
THEOREM DescriptorsStayIntact == NoneEmpty /\ Spec => []DescriptorsIntact
  BY Shaped, ShapedIsIntact, PTL

-----------------------------------------------------------------------------
(* The table of open files *)

\* What each number is open for.
Presented == [fd \in Descriptors |-> IF table[fd] = NULL THEN Root ELSE heap[Item(fd)].of]

\* What a step of a call leaves alone: descriptors, what fat16_open built for
\* them, and the file or directory their items are of.
HeldKept ==
  \A a \in Addr :
    /\ heap[a].kind = "desc" \/ (heap[a].kind = "fatdesc" /\ heap[a].to # NULL) => heap'[a] = heap[a]
    /\ heap[a].kind \in {"file", "dir"} /\ ~Unowned(a) => heap'[a].of = heap[a].of

\* An item that a descriptor leads to stays what it is.
LEMMA ItemKept ==
  ASSUME OInv, NEW fd \in Issued, table'[fd] = table[fd],
         heap'[table[fd]] = heap[table[fd]],
         heap'[To(table[fd])] = heap[To(table[fd])],
         heap'[Item(fd)].of = heap[Item(fd)].of
  PROVE  Item(fd)' = Item(fd) /\ (heap[Item(fd)].of)' = heap[Item(fd)].of
<1>1. /\ table[fd] \in Addr /\ To(table[fd]) = heap[table[fd]].to
      /\ To(table[fd]) \in Addr /\ Item(fd) = heap[To(table[fd])].to
  BY HeldTyped
<1>2. To(table[fd])' = To(table[fd])
  BY <1>1 DEF To
<1>3. Item(fd)' = Item(fd)
  BY <1>1, <1>2 DEF Item, To
<1> QED BY <1>3

LEMMA PresentedKept ==
  ASSUME OInv, UNCHANGED table, HeldKept
  PROVE  UNCHANGED Presented
<1> SUFFICES ASSUME NEW fd \in Descriptors, table[fd] # NULL
             PROVE  (heap[Item(fd)].of)' = heap[Item(fd)].of
  BY DEF Presented
<1>1. fd \in Issued /\ table'[fd] = table[fd]
  BY DEF Issued
<1>2. /\ table[fd] \in Addr /\ heap[table[fd]].kind = "desc"
      /\ To(table[fd]) \in Addr /\ heap[To(table[fd])].kind = "fatdesc"
      /\ Item(fd) = heap[To(table[fd])].to
      /\ Item(fd) \in Addr /\ heap[Item(fd)].kind \in {"file", "dir"}
  BY <1>1, HeldTyped
<1>3. ~Unowned(Item(fd)) /\ heap[To(table[fd])].to # NULL
  BY <1>2, NullApart DEF Unowned, Owners
<1>4. /\ heap'[table[fd]] = heap[table[fd]]
      /\ heap'[To(table[fd])] = heap[To(table[fd])]
      /\ heap'[Item(fd)].of = heap[Item(fd)].of
  BY <1>2, <1>3 DEF HeldKept
<1> QED BY <1>1, <1>4, ItemKept

\* A new object is nobody's.
LEMMA PutKeepsHeld ==
  ASSUME heap \in Heaps, ~Full, NEW obj \in Objects, heap' = With(obj)
  PROVE  HeldKept
  BY WithPuts DEF HeldKept

\* Only the item that is returned is linked to fat16_open's descriptor.
LEMMA OpenStepHolds ==
  ASSUME OInv, OpenStep
  PROVE  UNCHANGED volume /\ (file_new_descriptor \/ (UNCHANGED table /\ HeldKept))
<1>1. heap \in Heaps /\ TInv
  BY HeapTyped DEF OInv
<1>2. CASE ParseRoot \/ ParsePart \/ ParseName
  <2>1. ~Full /\ heap' = With(Object("path", NULL, Root)) /\ UNCHANGED <<volume, table>>
    BY <1>2 DEF ParseRoot, ParsePart, ParseName, Parse
  <2>2. Object("path", NULL, Root) \in Objects
    BY FilesAssumption DEF Object, Objects, Kinds
  <2> QED BY <1>1, <2>1, <2>2, PutKeepsHeld
<1>3. CASE pparser_free_path_root
  <2>1. heap' = Without(parsed) /\ UNCHANGED <<volume, table>> /\ \A a \in parsed : heap[a].kind = "path"
    BY <1>3 DEF pparser_free_path_root, OInv, CallRight, Calling, Is
  <2> QED BY <2>1 DEF HeldKept, Without
<1>4. CASE Refused \/ NotFound \/ NoSlot \/ GoesWild
  BY <1>4 DEF Refused, NotFound, NoSlot, GoesWild, HeldKept
<1>5. CASE fat16_open
  <2>1. ~Full /\ heap' = With(Object("fatdesc", NULL, Root)) /\ UNCHANGED <<volume, table>>
    BY <1>5 DEF fat16_open
  <2>2. Object("fatdesc", NULL, Root) \in Objects
    BY FilesAssumption DEF Object, Objects, Kinds
  <2> QED BY <1>1, <2>1, <2>2, PutKeepsHeld
<1>6. CASE fat16_new_fat_item
  <2> DEFINE obj == Object(IF Entry.subdirectory THEN "dir" ELSE "file", NULL, Entry.node)
  <2>1. Found /\ ~Full /\ heap' = With(obj) /\ UNCHANGED <<volume, table>>
    BY <1>6 DEF fat16_new_fat_item
  <2>2. obj \in Objects
    BY <1>1, <2>1, EntryTyped DEF Object, Objects, Kinds, DirectoryItem
  <2> HIDE DEF obj
  <2> QED BY <1>1, <2>1, <2>2, PutKeepsHeld
<1>7. ASSUME NEW kind \in Kinds, PointTo(kind), pc \in {"clone", "load"}
      PROVE  HeldKept
  <2>1. tmp \in Addr /\ heap[tmp].kind \in {"file", "dir"}
    BY <1>1, <1>7 DEF TInv, ItemInCourse
  <2>2. CASE Full
    BY <1>7, <2>2 DEF PointTo, HeldKept
  <2>3. CASE ~Full
    <3>1. /\ heap[Fresh].kind = "free"
          /\ heap'[tmp] = Object(heap[tmp].kind, Fresh, heap[tmp].of)
          /\ \A a \in Addr \ {Fresh, tmp} : heap'[a] = heap[a]
      BY <1>1, <1>7, <2>3, PointToPuts
    <3>2. heap'[tmp].of = heap[tmp].of
      BY <3>1 DEF Object
    <3> QED BY <2>1, <3>1, <3>2 DEF HeldKept
  <2> QED BY <2>2, <2>3
<1>8. CASE fat16_clone_directory_item
  <2>1. PointTo("clone") /\ pc = "clone" /\ UNCHANGED <<volume, table>>
    BY <1>8 DEF fat16_clone_directory_item
  <2> QED BY <1>7, <2>1 DEF Kinds
<1>9. CASE AllocateDirectory
  <2>1. PointTo("directory") /\ pc = "load" /\ UNCHANGED <<volume, table>>
    BY <1>9 DEF AllocateDirectory
  <2> QED BY <1>7, <2>1 DEF Kinds
<1>10. CASE LoadEntries
  <2>1. UNCHANGED <<volume, table>> /\ heap[heap[tmp].to].kind = "directory"
    BY <1>10 DEF LoadEntries, OInv, TmpRight, Is, To
  <2>2. heap[Fresh].kind = "free" /\ \A a \in Addr \ {Fresh, heap[tmp].to} : heap'[a] = heap[a]
    BY <1>10, LoadPuts
  <2> QED BY <2>1, <2>2 DEF HeldKept
<1>11. CASE LoadFails
  <2>1. /\ UNCHANGED <<volume, table>> /\ heap[heap[tmp].to].kind = "directory"
        /\ heap' = Without({heap[tmp].to})
    BY <1>11 DEF LoadFails, OInv, TmpRight, Is, To
  <2> QED BY <2>1 DEF HeldKept, Without
<1>12. ASSUME pc = "next"
       PROVE  \A a \in Addr :
                /\ heap[a].kind \in {"desc", "fatdesc"} => AfterFree[a] = heap[a]
                /\ heap[a].kind \in {"file", "dir"} /\ ~Unowned(a) => AfterFree[a] = heap[a]
  <2>1. \A a \in Addr : heap[a].kind \notin {"dir", "directory", "entries", "free"} => AfterFree[a] = heap[a]
    BY <1>12, AfterFreeLeaves
  <2>2. ASSUME NEW a \in Addr, heap[a].kind = "dir", ~Unowned(a)
        PROVE  AfterFree[a] = heap[a]
    <3>1. CASE k > 1
      <4>1. Unowned(cur)
        BY <1>12, <3>1 DEF OInv, CurRight, Looking
      <4>2. a \notin ItemBlocks(cur)
        BY <1>12, <2>2, <3>1, <4>1, SearchedBlocks
      <4> QED BY <2>2, <3>1, <4>2 DEF AfterFree, Without
    <3>2. CASE ~(k > 1)
      BY <3>2 DEF AfterFree
    <3> QED BY <3>1, <3>2
  <2> QED BY <2>1, <2>2
<1>13. CASE Descend \/ OpenFails
  <2>1. pc = "next" /\ UNCHANGED <<volume, table>> /\ heap' = AfterFree
    BY <1>13 DEF Descend, OpenFails
  <2> QED BY <1>12, <2>1 DEF HeldKept
<1>14. CASE OpenSucceeds
  <2>1. pc = "next" /\ UNCHANGED <<volume, table>> /\ heap' = [AfterFree EXCEPT ![fatd].to = tmp]
    BY <1>14 DEF OpenSucceeds
  <2>2. fatd \in Addr /\ heap[fatd].kind = "fatdesc" /\ heap[fatd].to = NULL
    BY <2>1 DEF OInv, FatdRight, Looking, Is
  <2>3. \A a \in Addr \ {fatd} : heap'[a] = AfterFree[a]
    BY <2>1, AfterFreeLeaves DEF Heaps
  <2> QED BY <1>12, <2>1, <2>2, <2>3 DEF HeldKept
<1>15. CASE file_new_descriptor
  BY <1>15 DEF file_new_descriptor
<1> QED BY <1>2, <1>3, <1>4, <1>5, <1>6, <1>8, <1>9, <1>10, <1>11, <1>13, <1>14, <1>15 DEF OpenStep

\* Filling a slot is the opening of a number that is not in use.
LEMMA DescriptorOpens ==
  ASSUME OInv, file_new_descriptor
  PROVE  \E fd \in Descriptors, node \in Nodes \ {Root} :
           /\ Presented[fd] = Root
           /\ Presented' = [Presented EXCEPT ![fd] = node]
<1> DEFINE obj == Object("desc", fatd, FreeSlot)
<1>1. heap \in Heaps /\ TInv
  BY HeapTyped DEF OInv
<1>2. /\ pc = "descriptor" /\ ~Full /\ heap' = With(obj)
      /\ table' = [table EXCEPT ![FreeSlot] = Fresh]
  BY DEF file_new_descriptor
<1>3. FreeSlot \in Descriptors /\ table[FreeSlot] = NULL /\ table \in [Descriptors -> Addr \cup {NULL}]
  BY <1>1, FreeSlotIsSlot DEF file_new_descriptor, Slots, TInv, TypeOK
<1>4. fatd \in Addr /\ heap[fatd].kind = "fatdesc" /\ heap[fatd].to # NULL
  BY <1>2 DEF OInv, FatdRight, Is
<1>5. obj \in Objects /\ obj.to = fatd
  BY <1>3, <1>4 DEF Object, Objects, Kinds
<1> HIDE DEF obj
<1>6. /\ Fresh \in Addr
      /\ heap[Fresh].kind = "free"
      /\ heap'[Fresh] = obj
      /\ \A a \in Addr \ {Fresh} : heap'[a] = heap[a]
  BY <1>1, <1>2, <1>5, WithPuts
<1>7. heap[fatd].to \in Addr /\ heap[heap[fatd].to].kind \in {"file", "dir"}
  <2>1. heap[fatd].to \in Addr \cup {NULL}
    BY <1>1, <1>4 DEF Heaps, Objects
  <2> QED BY <1>4, <2>1, TargetsOf DEF OInv, WellShaped, Owners
<1>8. heap[heap[fatd].to].of \in Nodes \ {Root}
  BY <1>1, <1>7 DEF TInv, AboutNodes
<1>9. table'[FreeSlot] = Fresh
  BY <1>2, <1>3
<1> PICK new : new = FreeSlot
  OBVIOUS
<1> PICK node : node = heap[heap[fatd].to].of
  OBVIOUS
<1>10. Presented[new] = Root
  BY <1>3 DEF Presented
<1>11. Presented'[new] = node
  <2>1. table'[new] = Fresh /\ Fresh # NULL
    BY <1>6, <1>9, NullApart
  <2>2. heap'[Fresh].to = fatd /\ heap'[fatd].to = heap[fatd].to
    BY <1>4, <1>5, <1>6
  <2>3. Item(new)' = heap[fatd].to
    BY <1>4, <1>6, <2>1, <2>2 DEF Item, To
  <2>4. heap'[heap[fatd].to].of = node
    BY <1>6, <1>7
  <2> QED BY <1>3, <2>1, <2>3, <2>4 DEF Presented
<1>12. ASSUME NEW g \in Descriptors \ {new}
       PROVE  Presented'[g] = Presented[g]
  <2>1. table'[g] = table[g]
    BY <1>2, <1>3, <1>12
  <2>2. CASE table[g] # NULL
    <3>1. g \in Issued
      BY <2>2 DEF Issued
    <3>2. /\ heap'[table[g]] = heap[table[g]]
          /\ heap'[To(table[g])] = heap[To(table[g])]
          /\ heap'[Item(g)].of = heap[Item(g)].of
      BY <1>6, <3>1, HeldTyped
    <3>3. (heap[Item(g)].of)' = heap[Item(g)].of
      BY <2>1, <3>1, <3>2, ItemKept
    <3> QED BY <2>1, <2>2, <3>3 DEF Presented
  <2> QED BY <2>1, <2>2 DEF Presented
<1>13. Presented' = [Presented EXCEPT ![new] = node]
  BY <1>3, <1>11, <1>12 DEF Presented
<1> QED BY <1>3, <1>8, <1>10, <1>13


\* fclose is the closing of a number that is in use.
LEMMA CloseCloses ==
  ASSUME OInv, NEW fd \in {0} \cup Descriptors, fclose(fd), TInv'
  PROVE  /\ fd \in Descriptors /\ Presented[fd] # Root
         /\ Presented' = [Presented EXCEPT ![fd] = Root]
<1> DEFINE S == fat16_close(fd) \cup {table[fd]}
<1>1. fd \in Issued /\ fd \in Descriptors /\ table' = [table EXCEPT ![fd] = NULL]
  BY CloseKeeps DEF Issued
<1>2. heap' = Without(S) /\ Sound(fd)
  BY DEF fclose
<1>3. \A a \in S : \/ a \in {table[fd], To(table[fd]), Item(fd)}
                   \/ heap[a].kind \notin {"desc", "fatdesc", "file", "dir"}
  BY <1>1, <1>2, HeldBlocks
<1> HIDE DEF S
<1>4. table[fd] # NULL /\ heap[Item(fd)].of # Root /\ table \in [Descriptors -> Addr \cup {NULL}]
  BY <1>1, HeldTyped DEF Issued, OInv, TInv, TypeOK
<1>5. ASSUME NEW g \in Descriptors \ {fd}
      PROVE  Presented'[g] = Presented[g]
  <2>1. table'[g] = table[g]
    BY <1>1, <1>4
  <2>2. CASE table[g] # NULL
    <3>1. g \in Issued
      BY <2>2 DEF Issued
    <3>2. /\ table[g] \in Addr /\ heap[table[g]].kind = "desc"
          /\ To(table[g]) \in Addr /\ heap[To(table[g])].kind = "fatdesc"
          /\ Item(g) \in Addr /\ heap[Item(g)].kind \in {"file", "dir"}
      BY <3>1, HeldTyped
    <3>3. /\ heap[table[fd]].kind = "desc" /\ heap[To(table[fd])].kind = "fatdesc"
          /\ heap[Item(fd)].kind \in {"file", "dir"}
          /\ table[g] # table[fd] /\ To(table[g]) # To(table[fd]) /\ Item(g) # Item(fd)
      BY <1>1, <3>1, HeldTyped, HeldApart
    <3>4. table[g] \notin S /\ To(table[g]) \notin S /\ Item(g) \notin S
      BY <1>3, <3>2, <3>3
    <3>5. /\ heap'[table[g]] = heap[table[g]]
          /\ heap'[To(table[g])] = heap[To(table[g])]
          /\ heap'[Item(g)] = heap[Item(g)]
      BY <1>2, <3>2, <3>4 DEF Without
    <3>6. (heap[Item(g)].of)' = heap[Item(g)].of
      BY <2>1, <3>1, <3>5, ItemKept
    <3> QED BY <2>1, <2>2, <3>6 DEF Presented
  <2> QED BY <2>1, <2>2 DEF Presented
<1>6. Presented[fd] # Root
  BY <1>1, <1>4 DEF Presented
<1>7. Presented' = [Presented EXCEPT ![fd] = Root]
  BY <1>1, <1>4, <1>5 DEF Presented
<1> QED BY <1>1, <1>6, <1>7

LEMMA PresentsNext == OInv /\ NothingIssued /\ TInv' /\ [Next]_vars => [Promised!Next]_Presented
<1> SUFFICES ASSUME OInv, NothingIssued, TInv', [Next]_vars
             PROVE  \/ UNCHANGED Presented
                    \/ \E fd \in Descriptors :
                         \/ \E node \in Nodes \ {Root} :
                              /\ Presented[fd] = Root
                              /\ Presented' = [Presented EXCEPT ![fd] = node]
                         \/ /\ Presented[fd] # Root
                            /\ Presented' = [Presented EXCEPT ![fd] = Root]
  BY DEF Promised!Next, Promised!Open, Promised!Close, Presented
<1> HIDE DEF Presented
<1>1. CASE Mount
  <2>1. pc = "boot" /\ UNCHANGED table
    BY <1>1 DEF Mount, fat16_resolve
  <2>2. \A fd \in Descriptors : table[fd] = NULL
    BY <2>1 DEF NothingIssued, Issued
  <2> QED BY <2>1, <2>2 DEF Presented
<1>2. CASE OpenStep
  BY <1>2, OpenStepHolds, PresentedKept, DescriptorOpens
<1>3. ASSUME UNCHANGED <<heap, table>>
      PROVE  UNCHANGED Presented
  BY <1>3 DEF Presented, Item, To
<1>4. CASE Opening
  BY <1>3, <1>4 DEF Opening, demo_pparser, fopen
<1>5. CASE Using
  <2>1. PICK fd \in {0} \cup Descriptors :
          \/ fclose(fd)
          \/ \E op \in Calls \ {"fclose"} : Served(op, fd)
          \/ \E op \in Calls : Rejected(op, fd) \/ UseGoesWild(op, fd)
    BY <1>5 DEF Using
  <2>2. CASE fclose(fd)
    BY <2>2, CloseCloses
  <2>3. CASE ~fclose(fd)
    BY <1>3, <2>1, <2>3 DEF Served, Rejected, UseGoesWild
  <2> QED BY <2>2, <2>3
<1>6. CASE UNCHANGED vars
  BY <1>3, <1>6 DEF vars
<1> QED BY <1>1, <1>2, <1>4, <1>5, <1>6 DEF Next

\* Through fopen and fclose the file layer is a table of open files: a call of
\* fopen issues at most one number, which is not in use, for one file or
\* directory; it stays that one's, whatever else is opened, closed or fails,
\* until fclose gives it back.
THEOREM ImplementsTheFileTable == NoneEmpty /\ Spec => ImplementsFileTable
<1>1. Init => Promised!Init
  BY DEF Init, Promised!Init
<1>2. TInv /\ [Next]_vars => TInv'
  BY TypedNext
<1>3. OInv => TInv
  BY DEF OInv
<1>4. OInv /\ NothingIssued /\ TInv' /\ [Next]_vars => [Promised!Next]_Presented
  BY PresentsNext
<1> QED BY <1>1, <1>2, <1>3, <1>4, Shaped, PTL DEF Spec, ImplementsFileTable, Promised!Spec, Presented

-----------------------------------------------------------------------------
(* What a path denotes, name by name *)

TheRoot == [name |-> "/", subdirectory |-> TRUE, node |-> Root]

\* The step from an entry to the one below it.
Below(v, w, name) ==
  IF w # Nowhere /\ w.subdirectory /\ IsIn(v[w.node], name)
    THEN ItemNamed(v[w.node], name)
    ELSE Nowhere

IsWalk(g, v, names, n) ==
  g = [m \in 0 .. n |-> IF m = 0 THEN TheRoot ELSE Below(v, g[m - 1], names[m])]

LEMMA WalksExist ==
  ASSUME NEW v, NEW names, NEW n \in Nat
  PROVE  \E g : IsWalk(g, v, names, n)
<1> DEFINE Bad == {j \in Nat : ~ \E g : IsWalk(g, v, names, j)}
<1> SUFFICES ASSUME Bad # {} PROVE FALSE
  OBVIOUS
<1>1. PICK j \in Bad : \A i \in Bad : j <= i
  <2>1. Bad \subseteq Nat
    OBVIOUS
  <2> HIDE DEF Bad
  <2> QED BY <2>1, LeastExists
<1>2. j # 0
  <2>1. IsWalk([m \in 0 .. 0 |-> TheRoot], v, names, 0)
    BY DEF IsWalk
  <2> QED BY <2>1, <1>1
<1>3. PICK g : IsWalk(g, v, names, j - 1)
  <2>1. j - 1 \in Nat /\ j - 1 \notin Bad
    BY <1>1, <1>2
  <2> QED BY <2>1
<1> DEFINE h == [m \in 0 .. j |-> IF m < j THEN g[m] ELSE Below(v, g[j - 1], names[j])]
<1>4. \A m \in 0 .. j : h[m] = IF m = 0 THEN TheRoot ELSE Below(v, h[m - 1], names[m])
  <2> TAKE m \in 0 .. j
  <2>1. CASE m = 0
    BY <1>1, <1>2, <1>3, <2>1 DEF IsWalk
  <2>2. CASE m # 0 /\ m < j
    BY <1>1, <1>2, <1>3, <2>2 DEF IsWalk
  <2>3. CASE m = j
    BY <1>1, <1>2, <2>3
  <2> QED BY <1>1, <2>1, <2>2, <2>3
<1>5. IsWalk(h, v, names, j)
  <2>1. h = [m \in 0 .. j |-> h[m]]
    OBVIOUS
  <2> HIDE DEF h
  <2> QED BY <1>4, <2>1 DEF IsWalk
<1> QED BY <1>1, <1>5

\* Two walks lead to the same place as long as the names are the same.
LEMMA WalksAgree ==
  ASSUME NEW v, NEW s, NEW t, NEW n \in Nat, NEW m \in Nat, NEW g, NEW h,
         IsWalk(g, v, s, n), IsWalk(h, v, t, m),
         NEW j \in Nat, j <= n, j <= m, \A i \in 1 .. j : s[i] = t[i]
  PROVE  g[j] = h[j]
<1> DEFINE Bad == {i \in 0 .. j : g[i] # h[i]}
<1> SUFFICES ASSUME Bad # {} PROVE FALSE
  OBVIOUS
<1>1. PICK i \in Bad : \A l \in Bad : i <= l
  <2>1. Bad \subseteq Nat
    OBVIOUS
  <2> HIDE DEF Bad
  <2> QED BY <2>1, LeastExists
<1>2. /\ g[i] = IF i = 0 THEN TheRoot ELSE Below(v, g[i - 1], s[i])
      /\ h[i] = IF i = 0 THEN TheRoot ELSE Below(v, h[i - 1], t[i])
  BY <1>1 DEF IsWalk
<1>3. CASE i = 0
  BY <1>1, <1>2, <1>3
<1>4. CASE i # 0
  <2>1. i - 1 \in 0 .. j /\ i - 1 \notin Bad /\ i \in 1 .. j
    BY <1>1, <1>4
  <2> QED BY <1>1, <1>2, <1>4, <2>1
<1> QED BY <1>3, <1>4

LEMMA WalkIs ==
  ASSUME NEW v, NEW names, Len(names) \in Nat
  PROVE  \E g : IsWalk(g, v, names, Len(names)) /\ Walk(v, Root, names) = g[Len(names)]
<1> DEFINE at == CHOOSE g : IsWalk(g, v, names, Len(names))
<1>1. IsWalk(at, v, names, Len(names))
  BY WalksExist
<1>2. Walk(v, Root, names) = at[Len(names)]
  BY DEF Walk, IsWalk, Below, TheRoot
<1> QED BY <1>1, <1>2

\* The prefixes of a path, one below the other.
LEMMA WalkUnfolds ==
  ASSUME NEW v, NEW names, names \in Seq(Names)
  PROVE  /\ Walk(v, Root, SubSeq(names, 1, 0)) = TheRoot
         /\ Walk(v, Root, SubSeq(names, 1, Len(names))) = Walk(v, Root, names)
         /\ \A j \in 1 .. Len(names) :
              Walk(v, Root, SubSeq(names, 1, j)) =
                Below(v, Walk(v, Root, SubSeq(names, 1, j - 1)), names[j])
<1> DEFINE n == Len(names)
           Part(j) == SubSeq(names, 1, j)
<1>1. n \in Nat
  BY LenProperties
<1>2. ASSUME NEW j \in 0 .. n
      PROVE  Len(Part(j)) = j /\ \A i \in 1 .. j : Part(j)[i] = names[i]
  <2>1. CASE j = 0
    BY <1>1, <2>1
  <2>2. CASE j # 0
    BY <1>1, <1>2, <2>2, SubSeqProperties
  <2> QED BY <2>1, <2>2
<1> PICK whole : IsWalk(whole, v, names, n)
  BY <1>1, WalksExist
<1>3. ASSUME NEW j \in 0 .. n
      PROVE  Walk(v, Root, Part(j)) = whole[j]
  <2>1. Len(Part(j)) = j /\ j \in Nat /\ \A i \in 1 .. j : Part(j)[i] = names[i]
    BY <1>1, <1>2
  <2> HIDE DEF Part, n
  <2>2. PICK g : IsWalk(g, v, Part(j), j) /\ Walk(v, Root, Part(j)) = g[j]
    BY <2>1, WalkIs
  <2> QED BY <1>1, <2>1, <2>2, WalksAgree
<1>4. Walk(v, Root, names) = whole[n]
  <2>1. PICK g : IsWalk(g, v, names, n) /\ Walk(v, Root, names) = g[n]
    BY <1>1, WalkIs
  <2> HIDE DEF n
  <2> QED BY <1>1, <2>1, WalksAgree
<1>5. whole[0] = TheRoot /\ \A j \in 1 .. n : whole[j] = Below(v, whole[j - 1], names[j])
  BY <1>1 DEF IsWalk
<1>6. Walk(v, Root, Part(0)) = TheRoot /\ Walk(v, Root, Part(n)) = Walk(v, Root, names)
  <2> HIDE DEF Part, n
  <2> QED BY <1>1, <1>3, <1>4, <1>5
<1>7. ASSUME NEW j \in 1 .. n
      PROVE  Walk(v, Root, Part(j)) = Below(v, Walk(v, Root, Part(j - 1)), names[j])
  <2>1. j \in 0 .. n /\ j - 1 \in 0 .. n
    BY <1>1
  <2> HIDE DEF Part, n
  <2> QED BY <1>3, <1>5, <2>1
<1> QED BY <1>6, <1>7

\* No directory has two entries of the same name.
OneOfEachName == \A v \in Volumes : NamesUnique(v)

\* What the first j names of the path denote.
Prefix(j) == Walk(volume, Root, SubSeq(call.path.names, 1, j))

\* The item is of the file or directory that was denoted.
Denotes(w, i) ==
  w # Nowhere /\ w.node = heap[i].of /\ (w.subdirectory <=> heap[i].kind = "dir")

\* The directory an item points to is the item's own.
OwnDirectory(i) == Is(To(i), "directory") => heap[To(i)].of = heap[i].of

WalkRight ==
  /\ pc \in Looking => OwnDirectory(cur) /\ OwnDirectory(tmp)
  /\ pc \in Looking /\ k > 1 => Denotes(Prefix(k - 1), cur)
  /\ pc \in Looking /\ tmp # NULL => Denotes(Prefix(k), tmp)
  /\ pc = "descriptor" => Denotes(Denoted, To(fatd))

WInv ==
  /\ OInv /\ WalkRight /\ OpensWhatPathDenotes
  /\ pc = "boot" => call.op = "other"

\* What is found is what the path denotes this far.
LEMMA FoundIsDenoted ==
  ASSUME OInv, WalkRight, OneOfEachName, pc = "lookup", Found
  PROVE  Prefix(k) = Entry /\ Entry # Nowhere
<1> DEFINE name == call.path.names[k]
           i == FirstMatch(Searched, name)
           w == Prefix(k - 1)
<1>1. TInv /\ call.path.names \in Seq(Names) /\ k \in 1 .. Len(call.path.names)
  BY DEF OInv, CallRight, Calling, Looking, PathRoots
<1>2. /\ Prefix(0) = TheRoot
      /\ Prefix(k) = Below(volume, w, name)
  BY <1>1, WalkUnfolds DEF Prefix
<1>3. w # Nowhere /\ w.subdirectory /\ volume[w.node] = Searched
  <2>1. CASE k = 1
    <3>1. w = TheRoot
      BY <1>2, <2>1
    <3>2. TheRoot # Nowhere /\ TheRoot.subdirectory /\ TheRoot.node = Root
      BY DEF TheRoot, Nowhere
    <3> QED BY <2>1, <3>1, <3>2 DEF Searched
  <2>2. CASE k > 1
    <3>1. Is(To(cur), "directory")
      BY <1>1, <2>2, FoundInDirectory
    <3>2. Is(cur, "dir") /\ Denotes(w, cur) /\ heap[To(cur)].of = heap[cur].of
      BY <2>2, <3>1 DEF OInv, CurRight, WalkRight, Looking, OwnDirectory
    <3> HIDE DEF w
    <3> QED BY <2>2, <3>1, <3>2 DEF Denotes, Searched, Is
  <2> QED BY <1>1, <2>1, <2>2
<1>4. i \in Used(Searched) /\ Searched[i].name = name /\ Searched \in Listing
  BY <1>1, SearchedTyped, FirstMatchIsMatch, MatchIsItem DEF Found
<1>5. PICK n \in Nodes : Searched = volume[n]
  BY <1>1, FoundInDirectory
<1>6. ItemNamed(Searched, name) = Searched[i]
  <2>1. \A j \in Used(Searched) : Searched[j].name = name => j = i
    <3>1. NamesUnique(volume)
      BY <1>1 DEF TInv, TypeOK, OneOfEachName
    <3> HIDE DEF i, name
    <3> QED BY <1>4, <1>5, <3>1 DEF NamesUnique
  <2> HIDE DEF i, name
  <2> QED BY <1>4, <2>1 DEF ItemNamed
<1>7. Prefix(k) = Entry
  <2>1. IsIn(Searched, name)
    BY <1>4 DEF IsIn
  <2> HIDE DEF w
  <2> QED BY <1>2, <1>3, <1>6, <2>1 DEF Below, Entry
<1>8. Entry # Nowhere
  <2>1. Entry \in DirectoryItem
    BY <1>1, EntryTyped
  <2>2. DOMAIN Entry = {"name", "subdirectory", "node"}
    BY <2>1 DEF DirectoryItem
  <2>3. DOMAIN Nowhere = {"nowhere"}
    BY DEF Nowhere
  <2>4. "name" # "nowhere"
    OBVIOUS
  <2> HIDE DEF i
  <2> QED BY <2>2, <2>3, <2>4
<1> QED BY <1>7, <1>8

\* Between the steps of the lookup current_item and tmp_item stay what they
\* are of.
LEMMA ItemsStay ==
  ASSUME WalkRight, pc \in Looking, pc' \in Looking, UNCHANGED <<volume, call, k, cur, tmp>>,
         k > 1 => heap'[cur].of = heap[cur].of /\ heap'[cur].kind = heap[cur].kind,
         tmp # NULL => heap'[tmp].of = heap[tmp].of /\ heap'[tmp].kind = heap[tmp].kind,
         OwnDirectory(cur)', OwnDirectory(tmp)'
  PROVE  WalkRight'
<1>1. \A j : Prefix(j)' = Prefix(j)
  BY DEF Prefix
<1>2. k > 1 => Denotes(Prefix(k - 1), cur)'
  BY <1>1 DEF WalkRight, Denotes
<1>3. tmp # NULL => Denotes(Prefix(k), tmp)'
  BY <1>1 DEF WalkRight, Denotes
<1>4. pc' # "descriptor"
  BY DEF Looking
<1> QED BY <1>2, <1>3, <1>4 DEF WalkRight

LEMMA NoDirectory == OwnDirectory(NULL)
  BY NullApart DEF OwnDirectory, To, Is

\* The directory of current_item while tmp_item is filled.
LEMMA CurrentStays ==
  ASSUME OInv, WalkRight, pc \in {"lookup", "clone", "load", "entries"}, UNCHANGED cur,
         k > 1 => /\ heap'[cur] = heap[cur]
                  /\ \A a \in Addr : heap[a].kind = "directory" /\ a # To(tmp) => heap'[a] = heap[a]
                  /\ Is(To(cur), "directory")
  PROVE  /\ k > 1 => heap'[cur].of = heap[cur].of /\ heap'[cur].kind = heap[cur].kind
         /\ OwnDirectory(cur)'
<1>1. k \in Nat /\ k >= 1
  BY PathRootNames DEF OInv, CallRight, Calling, Looking
<1>2. CASE k = 1
  <2>1. cur = NULL
    BY <1>2 DEF OInv, CurRight, Looking
  <2> QED BY <1>2, <2>1, NullApart DEF OwnDirectory, To, Is
<1>3. CASE k > 1
  <2>1. /\ cur \in Addr /\ To(tmp) # To(cur) /\ OwnDirectory(cur)
        /\ To(cur) \in Addr /\ heap[To(cur)].kind = "directory"
    BY <1>3, NullApart DEF OInv, CurRight, WalkRight, Looking, Is
  <2>2. heap'[cur] = heap[cur] /\ heap'[To(cur)] = heap[To(cur)]
    BY <1>3, <2>1
  <2>3. To(cur)' = To(cur)
    BY <2>1, <2>2 DEF To
  <2> QED BY <2>1, <2>2, <2>3 DEF OwnDirectory, Is
<1> QED BY <1>1, <1>2, <1>3

LEMMA PointToWalks ==
  ASSUME OInv, WalkRight, NEW kind \in Kinds, PointTo(kind), pc \in {"clone", "load"}, pc' \in Looking,
         UNCHANGED <<volume, call, k, cur, tmp>>
  PROVE  WalkRight'
<1>1. TInv /\ tmp \in Addr /\ heap[tmp].kind \in {"file", "dir"}
  BY DEF OInv, TInv, ItemInCourse
<1>2. pc \in Looking /\ k \in Nat
  BY PathRootNames DEF OInv, CallRight, Calling, Looking
<1>3. k > 1 => Is(cur, "dir") /\ tmp # cur /\ Is(To(cur), "directory")
  BY <1>2 DEF OInv, CurRight, Looking
<1>4. CASE Full
  <2>1. UNCHANGED heap
    BY <1>4 DEF PointTo
  <2>2. OwnDirectory(cur)' /\ OwnDirectory(tmp)'
    BY <1>2, <2>1 DEF WalkRight, OwnDirectory, Is, To
  <2> QED BY <1>2, <2>1, <2>2, ItemsStay
<1>5. CASE ~Full
  <2>1. /\ Fresh \in Addr \ {tmp}
        /\ heap[Fresh].kind = "free"
        /\ heap'[Fresh] = Object(kind, NULL, heap[tmp].of)
        /\ heap'[tmp] = Object(heap[tmp].kind, Fresh, heap[tmp].of)
        /\ \A a \in Addr \ {Fresh, tmp} : heap'[a] = heap[a]
    BY <1>1, <1>5, PointToPuts
  <2>2. /\ heap'[Fresh].of = heap[tmp].of
        /\ heap'[tmp].of = heap[tmp].of /\ heap'[tmp].kind = heap[tmp].kind /\ heap'[tmp].to = Fresh
    BY <2>1 DEF Object
  <2>3. OwnDirectory(tmp)'
    BY <1>1, <2>1, <2>2 DEF OwnDirectory, To
  <2>4. k > 1 => heap'[cur] = heap[cur]
    BY <1>3, <2>1 DEF Is
  <2>5. \A a \in Addr : heap[a].kind = "directory" => heap'[a] = heap[a]
    BY <1>1, <2>1
  <2>6. /\ k > 1 => heap'[cur].of = heap[cur].of /\ heap'[cur].kind = heap[cur].kind
        /\ OwnDirectory(cur)'
    BY <1>3, <2>4, <2>5, CurrentStays
  <2> QED BY <1>2, <2>2, <2>3, <2>6, ItemsStay
<1> QED BY <1>4, <1>5

LEMMA LoadWalks ==
  ASSUME OInv, WalkRight, LoadEntries
  PROVE  WalkRight'
<1> DEFINE D == heap[tmp].to
<1>1. pc = "entries" /\ pc' = "next" /\ UNCHANGED <<volume, call, k, cur, tmp>>
  BY DEF LoadEntries, locals
<1>2. /\ tmp \in Addr /\ heap[tmp].kind = "dir" /\ D \in Addr /\ heap[D].kind = "directory"
      /\ To(tmp) = D
  BY <1>1, NullApart DEF OInv, TmpRight, Is, To
<1>3. /\ heap[Fresh].kind = "free" /\ heap'[D].of = heap[D].of
      /\ \A a \in Addr \ {Fresh, D} : heap'[a] = heap[a]
  BY LoadPuts
<1> HIDE DEF D
<1>4. k > 1 => Is(cur, "dir") /\ Is(To(cur), "directory")
  BY <1>1 DEF OInv, CurRight, Looking
<1>5. heap'[tmp] = heap[tmp] /\ (k > 1 => heap'[cur] = heap[cur])
  BY <1>2, <1>3, <1>4 DEF Is
<1>6. \A a \in Addr : heap[a].kind = "directory" /\ a # To(tmp) => heap'[a] = heap[a]
  BY <1>2, <1>3
<1>7. /\ k > 1 => heap'[cur].of = heap[cur].of /\ heap'[cur].kind = heap[cur].kind
      /\ OwnDirectory(cur)'
  BY <1>1, <1>4, <1>5, <1>6, CurrentStays
<1>8. OwnDirectory(tmp)'
  <2>1. To(tmp)' = D
    BY <1>1, <1>2, <1>5 DEF To
  <2>2. heap[D].of = heap[tmp].of
    BY <1>1, <1>2 DEF WalkRight, Looking, OwnDirectory, Is
  <2>3. heap'[D].of = heap'[tmp].of
    BY <1>3, <1>5, <2>2
  <2> QED BY <1>1, <2>1, <2>3 DEF OwnDirectory
<1> QED BY <1>1, <1>5, <1>7, <1>8, ItemsStay DEF Looking

LEMMA LoadFailsWalks ==
  ASSUME OInv, WalkRight, LoadFails
  PROVE  WalkRight'
<1> DEFINE D == heap[tmp].to
<1>1. pc = "entries" /\ pc' = "next" /\ heap' = Without({D}) /\ UNCHANGED <<volume, call, k, cur, tmp>>
  BY DEF LoadFails, locals
<1>2. /\ tmp \in Addr /\ heap[tmp].kind = "dir" /\ D \in Addr /\ heap[D].kind = "directory"
      /\ To(tmp) = D
  BY <1>1, NullApart DEF OInv, TmpRight, Is, To
<1>3. heap'[D].kind = "free" /\ \A a \in Addr \ {D} : heap'[a] = heap[a]
  BY <1>1, <1>2 DEF Without, Free, Object
<1> HIDE DEF D
<1>4. k > 1 => Is(cur, "dir") /\ Is(To(cur), "directory")
  BY <1>1 DEF OInv, CurRight, Looking
<1>5. heap'[tmp] = heap[tmp] /\ (k > 1 => heap'[cur] = heap[cur])
  BY <1>2, <1>3, <1>4 DEF Is
<1>6. \A a \in Addr : heap[a].kind = "directory" /\ a # To(tmp) => heap'[a] = heap[a]
  BY <1>2, <1>3
<1>7. /\ k > 1 => heap'[cur].of = heap[cur].of /\ heap'[cur].kind = heap[cur].kind
      /\ OwnDirectory(cur)'
  BY <1>1, <1>4, <1>5, <1>6, CurrentStays
<1>8. OwnDirectory(tmp)'
  <2>1. To(tmp)' = D
    BY <1>1, <1>2, <1>5 DEF To
  <2> QED BY <1>3, <2>1 DEF OwnDirectory, Is
<1> QED BY <1>1, <1>5, <1>7, <1>8, ItemsStay DEF Looking

LEMMA NotFoundWalks ==
  ASSUME OInv, WalkRight, NotFound
  PROVE  WalkRight'
<1>1. pc = "lookup" /\ pc' = "next" /\ UNCHANGED <<volume, heap, call, k, cur, tmp>>
  BY DEF NotFound, locals
<1>2. OwnDirectory(cur)' /\ OwnDirectory(tmp)'
  BY <1>1 DEF WalkRight, Looking, OwnDirectory, Is, To
<1> QED BY <1>1, <1>2, ItemsStay DEF Looking

LEMMA ItemWalks ==
  ASSUME OInv, WalkRight, OneOfEachName, fat16_new_fat_item
  PROVE  WalkRight'
<1> DEFINE obj == Object(IF Entry.subdirectory THEN "dir" ELSE "file", NULL, Entry.node)
<1>1. heap \in Heaps /\ TInv
  BY HeapTyped DEF OInv
<1>2. /\ ~Full /\ heap' = With(obj) /\ tmp' = Fresh /\ Found
      /\ pc = "lookup" /\ pc' \in {"load", "clone"}
      /\ UNCHANGED <<volume, call, k, cur>>
  BY DEF fat16_new_fat_item
<1>3. obj \in Objects /\ obj.to = NULL /\ obj.of = Entry.node
      /\ (Entry.subdirectory <=> obj.kind = "dir")
  BY <1>1, <1>2, EntryTyped DEF Object, Objects, Kinds, DirectoryItem
<1> HIDE DEF obj
<1>4. /\ Fresh \in Addr
      /\ heap[Fresh].kind = "free"
      /\ heap'[Fresh] = obj
      /\ \A a \in Addr \ {Fresh} : heap'[a] = heap[a]
  BY <1>1, <1>2, <1>3, WithPuts
<1>5. PICK item : item = Entry
  OBVIOUS
<1>6. Prefix(k) = item /\ item # Nowhere
  BY <1>2, <1>5, FoundIsDenoted
<1>7. \A j : Prefix(j)' = Prefix(j)
  BY <1>2 DEF Prefix
<1>8. Denotes(Prefix(k), tmp)'
  <2>1. heap'[tmp'].of = item.node /\ (heap'[tmp'].kind = "dir" <=> item.subdirectory)
    BY <1>2, <1>3, <1>4, <1>5
  <2>2. Prefix(k)' = item
    BY <1>2, <1>6, <1>7
  <2> QED BY <1>6, <2>1, <2>2 DEF Denotes
<1>9. OwnDirectory(tmp)'
  <2>1. To(tmp)' = NULL
    BY <1>2, <1>3, <1>4 DEF To
  <2> QED BY <2>1, NullApart DEF OwnDirectory, Is
<1>10. k > 1 => Is(cur, "dir") /\ Is(To(cur), "directory")
  <2>1. k > 1 => Is(cur, "dir")
    BY <1>2 DEF OInv, CurRight, Looking
  <2>2. k \in Nat
    BY <1>1 DEF TInv, TypeOK
  <2> QED BY <1>1, <1>2, <2>1, <2>2, FoundInDirectory
<1>11. k > 1 => heap'[cur] = heap[cur]
  BY <1>4, <1>10 DEF Is
<1>12. \A a \in Addr : heap[a].kind = "directory" => heap'[a] = heap[a]
  BY <1>4
<1>13. /\ k > 1 => heap'[cur].of = heap[cur].of /\ heap'[cur].kind = heap[cur].kind
       /\ OwnDirectory(cur)'
  BY <1>2, <1>10, <1>11, <1>12, CurrentStays
<1>14. k > 1 => Denotes(Prefix(k - 1), cur)'
  BY <1>2, <1>7, <1>13 DEF WalkRight, Looking, Denotes
<1>15. pc' # "descriptor"
  BY <1>2
<1> QED BY <1>2, <1>8, <1>9, <1>13, <1>14, <1>15 DEF WalkRight

LEMMA DescendWalks ==
  ASSUME OInv, WalkRight, Descend
  PROVE  WalkRight'
<1>1. /\ pc = "next" /\ pc' = "lookup" /\ heap' = AfterFree
      /\ cur' = tmp /\ tmp' = NULL /\ k' = k + 1
      /\ UNCHANGED <<volume, call>> /\ tmp \in Addr
  BY DEF Descend, Is
<1>2. heap'[tmp] = heap[tmp] /\ (To(tmp) \in Addr => heap'[To(tmp)] = heap[To(tmp)])
  BY <1>1, AfterFreeLeaves
<1>3. \A j : Prefix(j)' = Prefix(j)
  BY <1>1 DEF Prefix
<1>4. Denotes(Prefix(k), tmp) /\ OwnDirectory(tmp)
  BY <1>1, NullApart DEF WalkRight, Looking
<1>5. k \in Nat /\ k' - 1 = k
  BY <1>1 DEF OInv, TInv, TypeOK
<1>6. Denotes(Prefix(k - 1), cur)'
  <2>1. Prefix(k - 1)' = Prefix(k)
    BY <1>1, <1>5 DEF Prefix
  <2> QED BY <1>1, <1>2, <1>4, <2>1 DEF Denotes
<1>7. OwnDirectory(cur)'
  <2>1. To(cur)' = To(tmp)
    BY <1>1, <1>2 DEF To
  <2> QED BY <1>1, <1>2, <1>4, <2>1 DEF OwnDirectory, Is
<1>8. OwnDirectory(tmp)'
  BY <1>1, NullApart DEF OwnDirectory, To, Is
<1> QED BY <1>1, <1>6, <1>7, <1>8 DEF WalkRight

LEMMA SucceedsWalks ==
  ASSUME OInv, WalkRight, OpenSucceeds
  PROVE  WalkRight'
<1>1. /\ pc = "next" /\ pc' = "descriptor" /\ heap' = [AfterFree EXCEPT ![fatd].to = tmp]
      /\ Last /\ tmp # NULL /\ UNCHANGED <<volume, call, fatd>>
  BY DEF OpenSucceeds, locals
<1>2. /\ tmp \in Addr /\ heap[tmp].kind \in {"file", "dir"}
      /\ fatd \in Addr /\ heap[fatd].kind = "fatdesc"
  BY <1>1, NullApart DEF OInv, TmpRight, FatdRight, Looking, Is
<1>3. AfterFree \in Heaps /\ AfterFree[tmp] = heap[tmp]
  BY <1>1, <1>2, AfterFreeLeaves
<1>4. heap'[tmp] = heap[tmp] /\ heap'[fatd].to = tmp
  BY <1>1, <1>2, <1>3 DEF Heaps, Objects
<1>5. Denoted = Prefix(k)
  <2>1. call.path.names \in Seq(Names) /\ k = Len(call.path.names)
    BY <1>1 DEF OInv, CallRight, Calling, Looking, PathRoots, Last
  <2> QED BY <2>1, WalkUnfolds DEF Denoted, Prefix
<1>6. Denotes(Denoted, tmp)
  BY <1>1, <1>5 DEF WalkRight, Looking
<1>7. Denotes(Denoted, To(fatd))'
  <2>1. To(fatd)' = tmp
    BY <1>1, <1>2, <1>4 DEF To
  <2>2. Denoted' = Denoted
    BY <1>1 DEF Denoted
  <2> QED BY <1>4, <1>6, <2>1, <2>2 DEF Denotes
<1> QED BY <1>1, <1>7 DEF WalkRight, Looking

\* What file_new_descriptor returns is of what the path denotes.
LEMMA DescriptorDenotes ==
  ASSUME OInv, WalkRight, file_new_descriptor
  PROVE  OpensWhatPathDenotes'
<1> DEFINE obj == Object("desc", fatd, FreeSlot)
<1>1. heap \in Heaps /\ TInv
  BY HeapTyped DEF OInv
<1>2. /\ pc = "descriptor" /\ ~Full /\ heap' = With(obj)
      /\ table' = [table EXCEPT ![FreeSlot] = Fresh] /\ ret' = FreeSlot
      /\ UNCHANGED <<volume, call, fatd>>
  BY DEF file_new_descriptor, Return, locals
<1>3. FreeSlot \in Descriptors /\ table \in [Descriptors -> Addr \cup {NULL}]
  BY <1>1, FreeSlotIsSlot DEF file_new_descriptor, Slots, TInv, TypeOK
<1>4. fatd \in Addr /\ heap[fatd].kind = "fatdesc" /\ heap[fatd].to # NULL
  BY <1>2 DEF OInv, FatdRight, Is
<1>5. obj \in Objects /\ obj.to = fatd
  BY <1>3, <1>4 DEF Object, Objects, Kinds
<1> HIDE DEF obj
<1>6. /\ Fresh \in Addr
      /\ heap[Fresh].kind = "free"
      /\ heap'[Fresh] = obj
      /\ \A a \in Addr \ {Fresh} : heap'[a] = heap[a]
  BY <1>1, <1>2, <1>5, WithPuts
<1>7. /\ To(fatd) \in Addr /\ To(fatd) = heap[fatd].to
      /\ heap[To(fatd)].kind \in {"file", "dir"}
  <2>1. heap[fatd].to \in Addr \cup {NULL}
    BY <1>1, <1>4 DEF Heaps, Objects
  <2> QED BY <1>4, <2>1, TargetsOf DEF OInv, WellShaped, Owners, To
<1>8. heap'[To(fatd)] = heap[To(fatd)] /\ heap'[fatd] = heap[fatd] /\ heap'[Fresh].to = fatd
  BY <1>4, <1>5, <1>6, <1>7
<1>9. Item(ret)' = To(fatd)
  <2>1. table'[ret'] = Fresh
    BY <1>2, <1>3
  <2> QED BY <1>4, <1>6, <1>7, <1>8, <2>1 DEF Item, To
<1>10. Denoted' = Denoted
  BY <1>2 DEF Denoted
<1>11. Denotes(Denoted, To(fatd))
  BY <1>2 DEF WalkRight
<1>12. call.path.parses /\ call.path.drive = 0 /\ call.mode = "r"
  BY <1>2 DEF OInv, CallRight, Calling
<1>13. heap'[Item(ret)'] = heap[To(fatd)] /\ Item(ret)' \in Addr
  BY <1>7, <1>8, <1>9
<1> QED BY <1>2, <1>10, <1>11, <1>12, <1>13 DEF OpensWhatPathDenotes, Denotes, Is

LEMMA WalkInitially == Init => WInv
<1> SUFFICES ASSUME Init PROVE WInv
  OBVIOUS
<1> QED BY ShapedInitially DEF Init, WInv, WalkRight, Looking, OpensWhatPathDenotes, Opened

LEMMA WalkNext ==
  ASSUME WInv, OneOfEachName, OInv', [Next]_vars
  PROVE  WInv'
<1>1. WalkRight /\ OInv /\ OpensWhatPathDenotes
  BY DEF WInv
<1>2. ASSUME pc' \notin Looking \cup {"descriptor", "boot"}, pc' # "idle" \/ ret' \notin Descriptors \/ call'.op # "fopen"
      PROVE  WInv'
  BY <1>2 DEF WInv, WalkRight, OpensWhatPathDenotes, Opened
<1>3. ASSUME WalkRight', pc' \in Looking \cup {"descriptor"}
      PROVE  WInv'
  BY <1>3 DEF WInv, OpensWhatPathDenotes, Opened, Looking
<1>4. CASE Mount
  <2>1. pc = "boot" /\ pc' = "idle" /\ UNCHANGED call
    BY <1>4 DEF Mount, fat16_resolve
  <2> QED BY <1>2, <2>1 DEF WInv, Looking
<1>5. CASE OpenStep
  <2>1. 0 \notin Descriptors
    BY FilesAssumption DEF Descriptors
  <2>2. CASE ParseRoot \/ ParsePart \/ ParseName \/ pparser_free_path_root
    BY <1>2, <2>1, <2>2 DEF ParseRoot, ParsePart, ParseName, pparser_free_path_root, Return, Looking
  <2>3. CASE Refused \/ NoSlot \/ OpenFails \/ GoesWild
    BY <1>2, <2>1, <2>3 DEF Refused, NoSlot, OpenFails, GoesWild, Return, Looking
  <2>4. CASE fat16_open
    <3>1. pc' = "lookup" /\ k' = 1 /\ cur' = NULL /\ tmp' = NULL
      BY <1>1, <2>4 DEF fat16_open, OInv, CallRight
    <3>2. WalkRight'
      BY <3>1, NullApart DEF WalkRight, OwnDirectory, To, Is
    <3> QED BY <1>3, <3>1, <3>2 DEF Looking
  <2>5. CASE NotFound
    BY <1>1, <1>3, <2>5, NotFoundWalks DEF NotFound, Looking
  <2>6. CASE fat16_new_fat_item
    <3>1. pc' \in {"load", "clone"}
      BY <2>6 DEF fat16_new_fat_item
    <3> QED BY <1>1, <1>3, <2>6, <3>1, ItemWalks DEF Looking
  <2>7. CASE fat16_clone_directory_item
    <3>1. PointTo("clone") /\ pc = "clone" /\ pc' = "next" /\ UNCHANGED <<volume, call, k, cur, tmp>>
      BY <2>7 DEF fat16_clone_directory_item, locals
    <3>2. "clone" \in Kinds /\ pc' \in Looking
      BY <3>1 DEF Kinds, Looking
    <3> QED BY <1>1, <1>3, <3>1, <3>2, PointToWalks
  <2>8. CASE AllocateDirectory
    <3>1. PointTo("directory") /\ pc = "load" /\ pc' \in {"next", "entries"}
          /\ UNCHANGED <<volume, call, k, cur, tmp>>
      BY <2>8 DEF AllocateDirectory, locals
    <3>2. "directory" \in Kinds /\ pc' \in Looking
      BY <3>1 DEF Kinds, Looking
    <3> QED BY <1>1, <1>3, <3>1, <3>2, PointToWalks
  <2>9. CASE LoadEntries
    BY <1>1, <1>3, <2>9, LoadWalks DEF LoadEntries, Looking
  <2>10. CASE LoadFails
    BY <1>1, <1>3, <2>10, LoadFailsWalks DEF LoadFails, Looking
  <2>11. CASE Descend
    BY <1>1, <1>3, <2>11, DescendWalks DEF Descend, Looking
  <2>12. CASE OpenSucceeds
    BY <1>1, <1>3, <2>12, SucceedsWalks DEF OpenSucceeds
  <2>13. CASE file_new_descriptor
    <3>1. pc' = "idle"
      BY <2>13 DEF file_new_descriptor, Return
    <3>2. OpensWhatPathDenotes'
      BY <1>1, <2>13, DescriptorDenotes
    <3> QED BY <3>1, <3>2 DEF WInv, WalkRight, Looking
  <2> QED BY <1>5, <2>2, <2>3, <2>4, <2>5, <2>6, <2>7, <2>8, <2>9, <2>10, <2>11, <2>12, <2>13
          DEF OpenStep
<1>6. CASE Opening
  <2>1. pc' = "root"
    BY <1>6 DEF Opening, demo_pparser, fopen
  <2> QED BY <1>2, <2>1 DEF Looking
<1>7. CASE Using
  <2>1. pc' \in {"idle", "wild"} /\ call'.op = "other"
    BY <1>7 DEF Using, Served, Rejected, UseGoesWild, fclose, Use, Start, Return
  <2> QED BY <1>2, <2>1 DEF Looking
<1>8. CASE UNCHANGED vars
  <2>1. UNCHANGED <<volume, heap, table, pc, call, k, fatd, cur, tmp, ret>>
    BY <1>8 DEF vars, locals
  <2>2. WalkRight'
    BY <1>1, <2>1 DEF WalkRight, OwnDirectory, Denotes, Prefix, Denoted, Is, To
  <2>3. OpensWhatPathDenotes'
    BY <1>1, <2>1 DEF OpensWhatPathDenotes, Opened, Denoted, Item, Is, To
  <2> QED BY <2>1, <2>2, <2>3 DEF WInv
<1> QED BY <1>4, <1>5, <1>6, <1>7, <1>8 DEF Next

LEMMA Walked == NoneEmpty /\ OneOfEachName /\ Spec => []WInv
<1>1. OneOfEachName /\ WInv /\ OInv' /\ [Next]_vars => WInv'
  BY WalkNext
<1>2. OneOfEachName => OneOfEachName'
  BY DEF OneOfEachName
<1> HIDE DEF OneOfEachName, NoneEmpty
<1> QED BY <1>1, <1>2, WalkInitially, Shaped, PTL DEF Spec

\* A descriptor that fopen returns is of the file or directory that its path
\* denotes: the lookup, component by component, with the directories it loads
\* and frees on the way, ends where the names lead.
THEOREM OpensRight == NoneEmpty /\ OneOfEachName /\ Spec => []OpensWhatPathDenotes
<1>1. WInv => OpensWhatPathDenotes
  BY DEF WInv
<1> QED BY <1>1, Walked, PTL

-----------------------------------------------------------------------------
(* What is lost, and what room is left *)

\* Blocks of the call in course that nothing else points to.
Mine ==
  CASE pc \in Looking -> parsed \cup {fatd} \cup ItemBlocks(cur) \cup ItemBlocks(tmp)
    [] pc = "descriptor" -> parsed \cup {fatd} \cup ItemBlocks(tmp)
    [] OTHER -> parsed

LostRight == pc \in Calling => Lost \subseteq call.lost \cup Mine

RoomRight == pc \in Calling => call.room <= Cardinality(Spare \cup Mine)

\* A step that frees the blocks of S, with what they point to, and takes those
\* of N: other objects stay, but may come to point to something.
Changes(S, N) ==
  /\ \A a \in S \cap Addr : heap'[a].kind = "free" /\ To(a) \in S \cup {NULL}
  /\ \A a \in Addr \ (S \cup N) : heap'[a].kind = heap[a].kind
  /\ \A a \in Addr \ S : heap[a].to # NULL => heap'[a].to = heap[a].to
  /\ \A g \in Issued : table'[g] = table[g] \/ HeldBy(g) \subseteq S

\* What is reached from a block that stays is reached afterwards.
LEMMA ReachedStays ==
  ASSUME NEW S, NEW N, Changes(S, N), NEW x, x \notin S
  PROVE  To(x) = NULL \/ To(x)' = To(x)
  BY DEF Changes, To

LEMMA ReachedFreed ==
  ASSUME NEW S, NEW N, Changes(S, N), NEW x, x \in S \cup {NULL}
  PROVE  To(x) \in S \cup {NULL}
  BY NullApart DEF Changes, To

LEMMA ItemStays ==
  ASSUME NEW S, NEW N, Changes(S, N), NEW x
  PROVE  ItemBlocks(x) \ S \subseteq ItemBlocks(x)'
<1> SUFFICES ASSUME NEW y \in ItemBlocks(x), y \notin S
             PROVE  y \in ItemBlocks(x)'
  OBVIOUS
<1>1. y # NULL /\ y \in {x, To(x), To(To(x))}
  BY DEF ItemBlocks
<1>2. CASE y = x
  BY <1>1, <1>2 DEF ItemBlocks
<1>3. CASE y = To(x)
  <2>1. x \notin S
    BY <1>1, <1>3, ReachedFreed
  <2>2. To(x)' = y
    BY <1>1, <1>3, <2>1, ReachedStays
  <2> QED BY <1>1, <2>2 DEF ItemBlocks
<1>4. CASE y = To(To(x))
  <2>1. To(x) \notin S
    BY <1>1, <1>4, ReachedFreed
  <2>2. To(x) # NULL
    BY <1>1, <1>4, NullApart DEF To
  <2>3. x \notin S
    BY <2>1, <2>2, ReachedFreed
  <2>4. To(x)' = To(x)
    BY <2>2, <2>3, ReachedStays
  <2> PICK z : z = To(x)
    OBVIOUS
  <2>5. To(z)' = y
    BY <1>1, <1>4, <2>1, ReachedStays
  <2>6. To(To(x))' = y
    BY <2>4, <2>5 DEF To
  <2> QED BY <1>1, <2>6 DEF ItemBlocks
<1> QED BY <1>1, <1>2, <1>3, <1>4

\* A descriptor that stays holds what it held, but for what was freed.
LEMMA HeldStays ==
  ASSUME NEW S, NEW N, Changes(S, N), NEW fd \in Issued, table'[fd] = table[fd]
  PROVE  HeldBy(fd) \ (S \cup {NULL}) \subseteq HeldBy(fd)'
<1> SUFFICES ASSUME NEW y \in HeldBy(fd), y \notin S, y # NULL
             PROVE  y \in HeldBy(fd)'
  OBVIOUS
<1> PICK d : d = table[fd]
  OBVIOUS
<1> PICK e : e = To(d)
  OBVIOUS
<1> PICK i : i = To(e)
  OBVIOUS
<1>1. HeldBy(fd) = {d, e} \cup ItemBlocks(i)
  BY DEF HeldBy
<1>2. y = d => y \in HeldBy(fd)'
  BY DEF HeldBy
<1>3. e \notin S \cup {NULL} => To(table[fd])' = e
  <2>1. e \notin S \cup {NULL} => d \notin S \cup {NULL}
    BY ReachedFreed
  <2>2. e \notin S \cup {NULL} => To(d)' = e
    BY <2>1, ReachedStays
  <2> QED BY <2>2 DEF To
<1>4. i \notin S \cup {NULL} => To(To(table[fd]))' = i
  <2>1. i \notin S \cup {NULL} => e \notin S \cup {NULL}
    BY ReachedFreed
  <2>2. i \notin S \cup {NULL} => To(e)' = i
    BY <2>1, ReachedStays
  <2> QED BY <1>3, <2>1, <2>2 DEF To
<1>5. y = e => y \in HeldBy(fd)'
  BY <1>3 DEF HeldBy
<1>6. ASSUME y \in ItemBlocks(i)
      PROVE  y \in HeldBy(fd)'
  <2>1. i \notin S \cup {NULL}
    <3>1. i \in S \cup {NULL} => To(i) \in S \cup {NULL}
      BY ReachedFreed
    <3>2. i \in S \cup {NULL} => To(To(i)) \in S \cup {NULL}
      BY <3>1, ReachedFreed
    <3> QED BY <1>6, <3>1, <3>2 DEF ItemBlocks
  <2>2. y \in ItemBlocks(i)'
    BY <1>6, ItemStays
  <2>3. ItemBlocks(To(To(table[fd])))' = ItemBlocks(i)'
    BY <1>4, <2>1
  <2> QED BY <2>2, <2>3 DEF HeldBy
<1> QED BY <1>1, <1>2, <1>5, <1>6

\* Nothing is lost but what the step took.
LEMMA LostChanges ==
  ASSUME NEW S, NEW N, Changes(S, N)
  PROVE  Lost' \subseteq (Lost \ S) \cup N
<1> SUFFICES ASSUME NEW y \in Lost', y \notin N
             PROVE  y \in Lost \ S
  OBVIOUS
<1>1. y \in Addr /\ heap'[y].kind \notin {"free", "fs"} /\ \A fd \in Issued' : y \notin HeldBy(fd)'
  BY DEF Lost
<1>2. y \notin S
  BY <1>1 DEF Changes
<1>3. heap[y].kind \notin {"free", "fs"}
  BY <1>1, <1>2 DEF Changes
<1>4. ASSUME NEW fd \in Issued
      PROVE  y \notin HeldBy(fd)
  <2>1. CASE HeldBy(fd) \subseteq S
    BY <1>2, <2>1
  <2>2. CASE table'[fd] = table[fd]
    <3>1. fd \in Issued'
      BY <2>2 DEF Issued
    <3>2. HeldBy(fd) \ (S \cup {NULL}) \subseteq HeldBy(fd)'
      BY <2>2, HeldStays
    <3> QED BY <1>1, <1>2, <3>1, <3>2, NullApart
  <2> QED BY <2>1, <2>2 DEF Changes
<1> QED BY <1>1, <1>2, <1>3, <1>4 DEF Lost

LEMMA MineTyped == TInv => Mine \subseteq Addr \cup {NULL}
<1> SUFFICES ASSUME TInv PROVE Mine \subseteq Addr \cup {NULL}
  OBVIOUS
<1>1. \A x \in Addr \cup {NULL} : To(x) \in Addr \cup {NULL}
  BY DEF TInv, TypeOK, To
<1>2. \A x \in Addr \cup {NULL} : ItemBlocks(x) \subseteq Addr \cup {NULL}
  BY <1>1 DEF ItemBlocks
<1>3. parsed \subseteq Addr /\ {fatd, cur, tmp} \subseteq Addr \cup {NULL}
  BY DEF TInv, TypeOK
<1> QED BY <1>2, <1>3 DEF Mine

LEMMA RoomFinite == TInv => IsFiniteSet(Spare \cup Mine)
<1> SUFFICES ASSUME TInv PROVE IsFiniteSet(Spare \cup Mine)
  OBVIOUS
<1>1. Spare \cup Mine \subseteq -1 .. Blocks
  BY MineTyped, FilesAssumption DEF Spare, Addr, NULL
<1>2. IsFiniteSet(-1 .. Blocks)
  BY FilesAssumption, FS_Interval
<1> QED BY <1>1, <1>2, FS_Subset

\* A block that is free or the call's own counts as room for it.
LEMMA RoomStays ==
  ASSUME TInv, TInv', NEW S, NEW N, Changes(S, N), S \subseteq Addr, (Mine \ S) \cup N \subseteq Mine',
         pc \in Calling, UNCHANGED call, RoomRight
  PROVE  RoomRight'
<1>1. Spare \cup Mine \subseteq Spare' \cup Mine'
  BY DEF Changes, Spare
<1>2. IsFiniteSet(Spare' \cup Mine')
  <2>1. TInv' => IsFiniteSet(Spare \cup Mine)'
    BY RoomFinite, PTL
  <2> QED BY <2>1
<1>3. Cardinality(Spare \cup Mine) <= Cardinality(Spare' \cup Mine')
      /\ Cardinality(Spare \cup Mine) \in Nat /\ Cardinality(Spare' \cup Mine') \in Nat
  BY <1>1, <1>2, FS_Subset, FS_CardinalityType
<1>4. call.room \in Nat /\ call.room <= Cardinality(Spare \cup Mine)
  BY FilesAssumption DEF RoomRight, TInv, TypeOK
<1> QED BY <1>3, <1>4 DEF RoomRight

LEMMA LostStays ==
  ASSUME NEW S, NEW N, Changes(S, N), (Mine \ S) \cup N \subseteq Mine',
         pc \in Calling, UNCHANGED call, LostRight
  PROVE  LostRight'
  BY LostChanges DEF LostRight

LEMMA PutChanges ==
  ASSUME OInv, ~Full, NEW obj \in Objects, heap' = With(obj), \A g \in Issued : table'[g] = table[g]
  PROVE  Changes({}, {Fresh}) /\ heap'[Fresh] = obj /\ Fresh \in Addr
<1>1. /\ Fresh \in Addr
      /\ heap[Fresh].kind = "free"
      /\ heap'[Fresh] = obj
      /\ \A a \in Addr \ {Fresh} : heap'[a] = heap[a]
  BY HeapTyped, WithPuts DEF OInv
<1>2. heap[Fresh].to = NULL
  BY <1>1 DEF OInv, WellShaped, Owners
<1> QED BY <1>1, <1>2 DEF Changes

LEMMA SameChanges ==
  ASSUME UNCHANGED <<heap, table>>
  PROVE  Changes({}, {})
  BY DEF Changes

\* The item that was searched is freed with all it points to.
LEMMA SearchedFreed ==
  ASSUME OInv, pc = "next"
  PROVE  /\ ItemBlocks(cur) \subseteq Addr
         /\ \A a \in Addr : AfterFree[a] = IF a \in ItemBlocks(cur) THEN Free ELSE heap[a]
         /\ \A a \in ItemBlocks(cur) : To(a) \in ItemBlocks(cur) \cup {NULL}
<1>1. k \in Nat /\ k >= 1
  BY PathRootNames DEF OInv, CallRight, Calling, Looking
<1>2. CASE k = 1
  <2>1. cur = NULL
    BY <1>2 DEF OInv, CurRight, Looking
  <2>2. ItemBlocks(cur) = {}
    BY <2>1, NullApart DEF ItemBlocks, To
  <2> QED BY <1>2, <2>2 DEF AfterFree
<1>3. CASE k > 1
  <2>1. /\ ItemBlocks(cur) \subseteq Addr
        /\ \A a \in ItemBlocks(cur) : a = cur \/ a = To(cur) \/ heap[a].kind = "entries"
    BY <1>3, SearchedBlocks
  <2>2. \A a \in Addr : AfterFree[a] = IF a \in ItemBlocks(cur) THEN Free ELSE heap[a]
    BY <1>3 DEF AfterFree, Without
  <2>3. \A a \in Addr : heap[a].kind = "entries" => To(a) = NULL
    BY DEF OInv, WellShaped, Owners, To
  <2>4. To(cur) \in ItemBlocks(cur) \cup {NULL} /\ To(To(cur)) \in ItemBlocks(cur) \cup {NULL}
    BY DEF ItemBlocks
  <2> QED BY <2>1, <2>2, <2>3, <2>4
<1> QED BY <1>1, <1>2, <1>3

\* What the call in course had, and does not free, it keeps.
LEMMA MineKept ==
  ASSUME pc \in Looking, pc' \in Looking, UNCHANGED <<parsed, fatd, cur, tmp>>,
         NEW S, NEW N, Changes(S, N)
  PROVE  Mine \ S \subseteq Mine'
<1>1. Mine = parsed \cup {fatd} \cup ItemBlocks(cur) \cup ItemBlocks(tmp)
  BY DEF Mine, Looking
<1>2. Mine' = parsed \cup {fatd} \cup ItemBlocks(cur)' \cup ItemBlocks(tmp)'
  BY DEF Mine, Looking
<1>3. ItemBlocks(cur) \ S \subseteq ItemBlocks(cur)' /\ ItemBlocks(tmp) \ S \subseteq ItemBlocks(tmp)'
  BY ItemStays
<1> QED BY <1>1, <1>2, <1>3

\* What a step of the lookup frees was the call's, and what it takes is.
StepTakes ==
  \E S, N : S \subseteq Addr /\ Changes(S, N) /\ (Mine \ S) \cup N \subseteq Mine'

LEMMA ParseTakes ==
  ASSUME OInv, ParseRoot \/ ParsePart \/ ParseName
  PROVE  /\ ~Full /\ Changes({}, {Fresh}) /\ parsed' = parsed \cup {Fresh} /\ UNCHANGED call
         /\ pc \in {"root", "part", "name"}
         /\ pc' \in {"part", "name", "resolve", "idle"}
         /\ StepTakes
<1>1. ~Full /\ heap' = With(Object("path", NULL, Root)) /\ parsed' = parsed \cup {Fresh}
      /\ UNCHANGED <<table, call>>
  BY DEF ParseRoot, ParsePart, ParseName, Parse
<1>2. Object("path", NULL, Root) \in Objects
  BY FilesAssumption DEF Object, Objects, Kinds
<1>3. Changes({}, {Fresh})
  BY <1>1, <1>2, PutChanges
<1>4. pc \in {"root", "part", "name"} /\ pc' \in {"part", "name", "resolve", "idle"}
  BY DEF ParseRoot, ParsePart, ParseName, Return
<1>5. Mine = parsed /\ Mine' = parsed'
  BY <1>4 DEF Mine, Looking
<1>6. StepTakes
  BY <1>1, <1>3, <1>5 DEF StepTakes
<1> QED BY <1>1, <1>3, <1>4, <1>6

LEMMA OpenTakes ==
  ASSUME OInv, fat16_open
  PROVE  StepTakes
<1>1. ~Full /\ heap' = With(Object("fatdesc", NULL, Root)) /\ fatd' = Fresh
      /\ UNCHANGED <<table, call, parsed>> /\ pc = "resolve" /\ pc' = "lookup"
  BY DEF fat16_open
<1>2. Object("fatdesc", NULL, Root) \in Objects
  BY FilesAssumption DEF Object, Objects, Kinds
<1>3. Changes({}, {Fresh})
  BY <1>1, <1>2, PutChanges
<1>4. Mine = parsed
  BY <1>1 DEF Mine, Looking
<1>5. Mine' = parsed' \cup {fatd'} \cup ItemBlocks(cur)' \cup ItemBlocks(tmp)'
  BY <1>1 DEF Mine, Looking
<1> QED BY <1>1, <1>3, <1>4, <1>5 DEF StepTakes

LEMMA ItemTakes ==
  ASSUME OInv, fat16_new_fat_item
  PROVE  StepTakes
<1> DEFINE obj == Object(IF Entry.subdirectory THEN "dir" ELSE "file", NULL, Entry.node)
<1>1. /\ ~Full /\ heap' = With(obj) /\ tmp' = Fresh /\ Found
      /\ pc = "lookup" /\ pc' \in {"load", "clone"}
      /\ UNCHANGED <<table, call, parsed, fatd, cur>>
  BY DEF fat16_new_fat_item
<1>2. obj \in Objects
  BY <1>1, EntryTyped DEF OInv, Object, Objects, Kinds, DirectoryItem
<1> HIDE DEF obj
<1>3. Changes({}, {Fresh}) /\ Fresh \in Addr
  BY <1>1, <1>2, PutChanges
<1>4. Mine = parsed \cup {fatd} \cup ItemBlocks(cur)
  <2>1. tmp = NULL
    BY <1>1 DEF OInv, TmpRight
  <2>2. ItemBlocks(tmp) = {}
    BY <2>1, NullApart DEF ItemBlocks, To
  <2> QED BY <1>1, <2>2 DEF Mine, Looking
<1>5. Mine' = parsed \cup {fatd} \cup ItemBlocks(cur)' \cup ItemBlocks(tmp)'
  BY <1>1 DEF Mine, Looking
<1>6. Fresh \in ItemBlocks(tmp)'
  BY <1>1, <1>3, NullApart DEF ItemBlocks
<1>7. ItemBlocks(cur) \subseteq ItemBlocks(cur)'
  <2>1. ItemBlocks(cur) \ {} \subseteq ItemBlocks(cur)'
    BY <1>1, <1>3, ItemStays
  <2> QED BY <2>1
<1> QED BY <1>3, <1>4, <1>5, <1>6, <1>7 DEF StepTakes

LEMMA PointToTakes ==
  ASSUME OInv, NEW kind \in Kinds, PointTo(kind), pc \in {"clone", "load"}, pc' \in Looking,
         UNCHANGED <<table, parsed, fatd, cur, tmp>>
  PROVE  StepTakes
<1>1. TInv /\ tmp \in Addr /\ heap[tmp].to = NULL /\ pc \in Looking
  BY NullApart DEF OInv, TmpRight, Is, To, Looking
<1>2. CASE Full
  <2>1. Changes({}, {})
    BY <1>2, SameChanges DEF PointTo
  <2>2. Mine \ {} \subseteq Mine'
    BY <1>1, <2>1, MineKept
  <2> QED BY <2>1, <2>2 DEF StepTakes
<1>3. CASE ~Full
  <2>1. /\ Fresh \in Addr \ {tmp}
        /\ heap[Fresh].kind = "free"
        /\ heap'[tmp] = Object(heap[tmp].kind, Fresh, heap[tmp].of)
        /\ \A a \in Addr \ {Fresh, tmp} : heap'[a] = heap[a]
    BY <1>1, <1>3, PointToPuts
  <2>2. heap'[tmp].kind = heap[tmp].kind /\ heap'[tmp].to = Fresh
    BY <2>1 DEF Object
  <2>3. heap[Fresh].to = NULL
    BY <2>1 DEF OInv, WellShaped, Owners
  <2>4. Changes({}, {Fresh})
    BY <1>1, <2>1, <2>2, <2>3 DEF Changes
  <2>5. Mine \ {} \subseteq Mine'
    BY <1>1, <2>4, MineKept
  <2>6. Fresh \in Mine'
    <3>1. To(tmp)' = Fresh
      BY <1>1, <2>2 DEF To
    <3>2. Fresh \in ItemBlocks(tmp)'
      BY <2>1, <3>1, NullApart DEF ItemBlocks
    <3> QED BY <3>2 DEF Mine
  <2> QED BY <2>4, <2>5, <2>6 DEF StepTakes
<1> QED BY <1>2, <1>3

LEMMA LoadTakes ==
  ASSUME OInv, LoadEntries
  PROVE  StepTakes
<1> DEFINE D == heap[tmp].to
<1>1. pc = "entries" /\ pc' = "next" /\ UNCHANGED <<table, call, parsed, fatd, cur, tmp>>
  BY DEF LoadEntries, locals
<1>2. /\ tmp \in Addr /\ heap[tmp].kind = "dir" /\ D \in Addr /\ heap[D].kind = "directory"
      /\ heap[D].to = NULL /\ To(tmp) = D
  BY <1>1, NullApart DEF OInv, TmpRight, Is, To
<1>3. /\ Fresh \in Addr /\ heap[Fresh].kind = "free" /\ Fresh # D
      /\ heap'[D].kind = "directory" /\ heap'[D].to = Fresh
      /\ \A a \in Addr \ {Fresh, D} : heap'[a] = heap[a]
  BY LoadPuts
<1> HIDE DEF D
<1>4. heap[Fresh].to = NULL
  BY <1>3 DEF OInv, WellShaped, Owners
<1>5. Changes({}, {Fresh})
  BY <1>1, <1>2, <1>3, <1>4 DEF Changes
<1>6. Mine \ {} \subseteq Mine'
  BY <1>1, <1>5, MineKept DEF Looking
<1>7. Fresh \in Mine'
  <2>1. To(tmp)' = D
    BY <1>1, <1>2, <1>3 DEF To, D
  <2>2. heap'[D].to = Fresh /\ D \in Addr
    BY <1>2, <1>3
  <2>3. To(To(tmp))' = Fresh
    BY <2>1, <2>2 DEF To
  <2>4. Fresh \in ItemBlocks(tmp)'
    BY <1>3, <2>3, NullApart DEF ItemBlocks
  <2> QED BY <1>1, <2>4 DEF Mine, Looking
<1> QED BY <1>5, <1>6, <1>7 DEF StepTakes

LEMMA LoadFailsTakes ==
  ASSUME OInv, LoadFails
  PROVE  StepTakes
<1> DEFINE D == heap[tmp].to
<1>1. /\ pc = "entries" /\ pc' = "next" /\ heap' = Without({D})
      /\ UNCHANGED <<table, call, parsed, fatd, cur, tmp>>
  BY DEF LoadFails, locals
<1>2. D \in Addr /\ heap[D].to = NULL
  BY <1>1, NullApart DEF OInv, TmpRight, Is, To
<1>3. heap'[D].kind = "free" /\ \A a \in Addr \ {D} : heap'[a] = heap[a]
  BY <1>1, <1>2 DEF Without, Free, Object
<1> HIDE DEF D
<1>4. Changes({D}, {})
  BY <1>1, <1>2, <1>3 DEF Changes, To
<1>5. Mine \ {D} \subseteq Mine'
  BY <1>1, <1>4, MineKept DEF Looking
<1> QED BY <1>2, <1>4, <1>5 DEF StepTakes

LEMMA NotFoundTakes ==
  ASSUME OInv, NotFound
  PROVE  StepTakes
<1>1. pc = "lookup" /\ pc' = "next" /\ UNCHANGED <<heap, table, parsed, fatd, cur, tmp>>
  BY DEF NotFound, locals
<1>2. Changes({}, {})
  BY <1>1, SameChanges
<1>3. Mine \ {} \subseteq Mine'
  BY <1>1, <1>2, MineKept DEF Looking
<1> QED BY <1>2, <1>3 DEF StepTakes

\* The item that was searched is freed, and fat16_open's descriptor may come
\* to point to the one that was found.
LEMMA FreeingChanges ==
  ASSUME OInv, pc = "next", UNCHANGED table,
         heap' = AfterFree \/ heap' = [AfterFree EXCEPT ![fatd].to = tmp]
  PROVE  Changes(ItemBlocks(cur), {}) /\ ItemBlocks(cur) \subseteq Addr
<1> PICK S : S = ItemBlocks(cur)
  OBVIOUS
<1>1. /\ S \subseteq Addr
      /\ \A a \in Addr : AfterFree[a] = IF a \in S THEN Free ELSE heap[a]
      /\ \A a \in S : To(a) \in S \cup {NULL}
  BY SearchedFreed
<1>2. AfterFree \in Heaps
  BY AfterFreeLeaves
<1>3. fatd \in Addr /\ heap[fatd].to = NULL
  BY DEF OInv, FatdRight, Looking, Is
<1>4. \A a \in Addr : heap'[a].kind = AfterFree[a].kind /\ (a # fatd => heap'[a].to = AfterFree[a].to)
  BY <1>2, <1>3 DEF Heaps, Objects
<1>5. Free.kind = "free"
  BY DEF Free, Object
<1>6. Changes(S, {})
  BY <1>1, <1>3, <1>4, <1>5 DEF Changes
<1> QED BY <1>1, <1>6

LEMMA DescendTakes ==
  ASSUME OInv, Descend
  PROVE  StepTakes
<1>1. /\ pc = "next" /\ pc' = "lookup" /\ heap' = AfterFree /\ cur' = tmp
      /\ UNCHANGED <<table, parsed, fatd>>
  BY DEF Descend
<1>2. Changes(ItemBlocks(cur), {}) /\ ItemBlocks(cur) \subseteq Addr
  BY <1>1, FreeingChanges
<1>3. Mine \subseteq parsed \cup {fatd} \cup ItemBlocks(cur) \cup ItemBlocks(tmp)
  BY <1>1 DEF Mine, Looking
<1>4. parsed \cup {fatd} \cup ItemBlocks(cur)' \subseteq Mine'
  BY <1>1 DEF Mine, Looking
<1> PICK t : t = tmp
  OBVIOUS
<1>5. ItemBlocks(t) \ ItemBlocks(cur) \subseteq ItemBlocks(t)'
  BY <1>2, ItemStays
<1>6. ItemBlocks(cur)' = ItemBlocks(t)'
  BY <1>1 DEF ItemBlocks, To
<1>7. Mine \ ItemBlocks(cur) \subseteq Mine'
  BY <1>3, <1>4, <1>5, <1>6
<1> QED BY <1>2, <1>7 DEF StepTakes

LEMMA SucceedsTakes ==
  ASSUME OInv, OpenSucceeds
  PROVE  StepTakes
<1>1. /\ pc = "next" /\ pc' = "descriptor" /\ heap' = [AfterFree EXCEPT ![fatd].to = tmp]
      /\ UNCHANGED <<table, parsed, fatd, cur, tmp>>
  BY DEF OpenSucceeds, locals
<1>2. Changes(ItemBlocks(cur), {}) /\ ItemBlocks(cur) \subseteq Addr
  BY <1>1, FreeingChanges
<1>3. Mine \subseteq parsed \cup {fatd} \cup ItemBlocks(cur) \cup ItemBlocks(tmp)
  BY <1>1 DEF Mine, Looking
<1>4. Mine' = parsed \cup {fatd} \cup ItemBlocks(tmp)'
  BY <1>1 DEF Mine, Looking
<1>5. ItemBlocks(tmp) \ ItemBlocks(cur) \subseteq ItemBlocks(tmp)'
  BY <1>1, <1>2, ItemStays
<1>6. Mine \ ItemBlocks(cur) \subseteq Mine'
  BY <1>3, <1>4, <1>5
<1> QED BY <1>2, <1>6 DEF StepTakes

\* The steps after which the call is still in course.
LEMMA OpenStepTakes ==
  ASSUME OInv, OpenStep, pc' \in Calling
  PROVE  StepTakes /\ pc \in Calling /\ UNCHANGED call
<1>1. CASE ParseRoot \/ ParsePart \/ ParseName
  BY <1>1, ParseTakes DEF Calling
<1>2. CASE fat16_open
  BY <1>2, OpenTakes DEF fat16_open, Calling
<1>3. CASE NotFound
  BY <1>3, NotFoundTakes DEF NotFound, Calling, Looking
<1>4. CASE fat16_new_fat_item
  BY <1>4, ItemTakes DEF fat16_new_fat_item, Calling, Looking
<1>5. CASE fat16_clone_directory_item
  <2>1. PointTo("clone") /\ pc = "clone" /\ pc' = "next" /\ UNCHANGED <<table, call, parsed, fatd, cur, tmp>>
    BY <1>5 DEF fat16_clone_directory_item, locals
  <2>2. "clone" \in Kinds /\ pc' \in Looking /\ pc \in Calling
    BY <2>1 DEF Kinds, Looking, Calling
  <2> QED BY <2>1, <2>2, PointToTakes
<1>6. CASE AllocateDirectory
  <2>1. PointTo("directory") /\ pc = "load" /\ pc' \in {"next", "entries"}
        /\ UNCHANGED <<table, call, parsed, fatd, cur, tmp>>
    BY <1>6 DEF AllocateDirectory, locals
  <2>2. "directory" \in Kinds /\ pc' \in Looking /\ pc \in Calling
    BY <2>1 DEF Kinds, Looking, Calling
  <2> QED BY <2>1, <2>2, PointToTakes
<1>7. CASE LoadEntries
  BY <1>7, LoadTakes DEF LoadEntries, Calling, Looking
<1>8. CASE LoadFails
  BY <1>8, LoadFailsTakes DEF LoadFails, Calling, Looking
<1>9. CASE Descend
  BY <1>9, DescendTakes DEF Descend, Calling, Looking
<1>10. CASE OpenSucceeds
  BY <1>10, SucceedsTakes DEF OpenSucceeds, Calling, Looking
<1>11. CASE pparser_free_path_root \/ Refused \/ OpenFails \/ NoSlot \/ file_new_descriptor \/ GoesWild
  <2>1. pc' \in {"idle", "wild"}
    BY <1>11 DEF pparser_free_path_root, Refused, OpenFails, NoSlot, file_new_descriptor, GoesWild, Return
  <2> QED BY <2>1 DEF Calling, Looking
<1> QED BY <1>1, <1>2, <1>3, <1>4, <1>5, <1>6, <1>7, <1>8, <1>9, <1>10, <1>11 DEF OpenStep

-----------------------------------------------------------------------------
(* What a call leaves allocated *)

\* The item that was found is fat16_open's.
LastRight ==
  pc = "descriptor" => heap[fatd].to = tmp /\ (heap[tmp].kind = "dir" => Loaded(tmp))

DemoParses == pc \in Calling /\ call.op = "demo_pparser" => call.path.parses

LInv == WInv /\ LostRight /\ LastRight /\ DemoParses /\ NothingElseLost

\* The objects that belong to an item.
LEMMA ItemKinds ==
  ASSUME OInv, NEW i \in Addr, heap[i].kind \in {"file", "dir"}, heap[i].kind = "dir" => Loaded(i)
  PROVE  \A a \in ItemBlocks(i) :
           /\ a \in Addr
           /\ heap[a].kind \in {"file", "clone", "dir", "directory", "entries", "free"}
           /\ To(a) \in ItemBlocks(i) \cup {NULL}
<1>1. To(i) = heap[i].to
  BY DEF To
<1>2. To(i) \in Addr \cup {NULL}
  BY <1>1, HeapTyped DEF OInv, Heaps, Objects
<1>3. To(i) # NULL => heap[To(i)].kind \in {"clone", "directory", "free"}
  <2>1. CASE heap[i].kind = "file"
    BY <1>1, <2>1, TargetsOf DEF OInv, WellShaped, Owners
  <2>2. CASE heap[i].kind = "dir"
    BY <2>2 DEF Loaded
  <2> QED BY <2>1, <2>2
<1>4. ASSUME To(i) # NULL, To(To(i)) # NULL
      PROVE  To(To(i)) \in Addr /\ heap[To(To(i))].kind = "entries"
  <2>1. To(i) \in Addr /\ To(To(i)) = heap[To(i)].to
    BY <1>2, <1>4 DEF To
  <2>2. heap[To(i)].to \in Addr \cup {NULL}
    BY <2>1, HeapTyped DEF OInv, Heaps, Objects
  <2>3. heap[To(i)].kind = "directory"
    BY <1>3, <1>4, <2>1 DEF OInv, WellShaped, Owners
  <2> QED BY <1>4, <2>1, <2>2, <2>3, TargetsOf DEF OInv, WellShaped, Owners
<1>5. To(i) = NULL => To(To(i)) = NULL
  BY NullApart DEF To
<1>6. \A a \in Addr : heap[a].kind = "entries" => To(a) = NULL
  BY DEF OInv, WellShaped, Owners, To
<1> QED BY <1>2, <1>3, <1>4, <1>5, <1>6 DEF ItemBlocks

\* The last lookup's item is loaded, if a directory.
LEMMA SucceedsLast ==
  ASSUME OInv, OpenSucceeds
  PROVE  LastRight'
<1>1. /\ pc = "next" /\ heap' = [AfterFree EXCEPT ![fatd].to = tmp]
      /\ tmp # NULL /\ UNCHANGED <<fatd, tmp>>
  BY DEF OpenSucceeds, locals
<1>2. /\ tmp \in Addr /\ heap[tmp].kind \in {"file", "dir"}
      /\ heap[tmp].kind = "dir" => Loaded(tmp)
      /\ fatd \in Addr /\ heap[fatd].kind = "fatdesc"
  BY <1>1, NullApart DEF OInv, TmpRight, FatdRight, Looking, Is
<1>3. /\ AfterFree \in Heaps
      /\ AfterFree[tmp] = heap[tmp]
      /\ To(tmp) \in Addr => AfterFree[To(tmp)] = heap[To(tmp)]
  BY <1>1, <1>2, AfterFreeLeaves
<1>4. /\ heap'[fatd].to = tmp /\ heap'[tmp] = heap[tmp]
      /\ To(tmp) \in Addr \ {fatd} => heap'[To(tmp)] = heap[To(tmp)]
  BY <1>1, <1>2, <1>3 DEF Heaps, Objects
<1>5. ASSUME heap[tmp].kind = "dir"
      PROVE  Loaded(tmp)'
  <2>1. To(tmp)' = To(tmp)
    BY <1>1, <1>2, <1>4 DEF To
  <2>2. To(tmp) \in Addr \cup {NULL}
    BY <1>2, HeapTyped DEF OInv, Heaps, Objects, To
  <2>3. To(tmp) # NULL => heap[To(tmp)].kind \in {"directory", "free"}
    BY <1>2, <1>5 DEF Loaded
  <2>4. To(tmp) # NULL => To(tmp) \in Addr \ {fatd}
    BY <1>2, <2>2, <2>3
  <2> QED BY <1>4, <2>1, <2>3, <2>4 DEF Loaded
<1> QED BY <1>1, <1>4, <1>5 DEF LastRight

\* The descriptor holds what the lookup found.
LEMMA DescriptorLoses ==
  ASSUME LInv, file_new_descriptor
  PROVE  NothingElseLost'
<1> DEFINE obj == Object("desc", fatd, FreeSlot)
<1>1. OInv /\ TInv /\ LostRight /\ LastRight /\ CallRight
  BY DEF LInv, WInv, OInv
<1>2. /\ pc = "descriptor" /\ pc' = "idle" /\ ~Full /\ heap' = With(obj)
      /\ table' = [table EXCEPT ![FreeSlot] = Fresh] /\ ret' = FreeSlot
      /\ UNCHANGED <<call, parsed, fatd, tmp>>
  BY DEF file_new_descriptor, Return, locals
<1>3. FreeSlot \in Descriptors /\ table[FreeSlot] = NULL /\ table \in [Descriptors -> Addr \cup {NULL}]
  BY <1>1, FreeSlotIsSlot DEF file_new_descriptor, Slots, TInv, TypeOK
<1>4. fatd \in Addr /\ heap[fatd].kind = "fatdesc" /\ heap[fatd].to = tmp /\ heap[fatd].to # NULL
  BY <1>1, <1>2 DEF OInv, FatdRight, LastRight, Is
<1>5. obj \in Objects /\ obj.to = fatd
  BY <1>3, <1>4 DEF Object, Objects, Kinds
<1> HIDE DEF obj
<1>6. /\ Fresh \in Addr
      /\ heap[Fresh].kind = "free"
      /\ heap'[Fresh] = obj
      /\ \A a \in Addr \ {Fresh} : heap'[a] = heap[a]
  BY <1>1, <1>2, <1>5, HeapTyped, WithPuts
<1>7. Changes({}, {Fresh})
  <2>1. \A g \in Issued : table'[g] = table[g]
    BY <1>2, <1>3 DEF Issued
  <2> QED BY <1>1, <1>2, <1>5, <2>1, PutChanges
<1> PICK new : new = FreeSlot
  OBVIOUS
<1> PICK f : f = Fresh
  OBVIOUS
<1>8. new \in Issued' /\ table'[new] = f
  BY <1>2, <1>3, <1>6, NullApart DEF Issued
<1>9. {f, fatd} \cup ItemBlocks(tmp) \subseteq HeldBy(new)'
  <2>1. heap'[f].to = fatd /\ heap'[fatd].to = tmp
    BY <1>4, <1>5, <1>6, <1>2
  <2>2. To(table[new])' = fatd
    BY <1>6, <1>8, <2>1 DEF To
  <2>3. To(To(table[new]))' = tmp
    BY <1>4, <2>1, <2>2 DEF To
  <2>4. HeldBy(new)' = {f, fatd} \cup ItemBlocks(To(To(table[new])))'
    BY <1>8, <2>2 DEF HeldBy
  <2>5. ItemBlocks(To(To(table[new])))' = ItemBlocks(tmp)'
    BY <1>2, <2>3
  <2>6. ItemBlocks(tmp) \ {} \subseteq ItemBlocks(tmp)'
    BY <1>2, <1>7, ItemStays
  <2> QED BY <2>4, <2>5, <2>6
<1>10. Lost' \subseteq (Lost \ {}) \cup {f}
  BY <1>7, LostChanges
<1>11. Lost \subseteq call.lost \cup parsed \cup {fatd} \cup ItemBlocks(tmp)
  BY <1>1, <1>2 DEF LostRight, Calling, Mine, Looking
<1>12. Lost' \cap HeldBy(new)' = {}
  BY <1>8 DEF Lost
<1>13. Lost' \subseteq call.lost \cup parsed
  BY <1>9, <1>10, <1>11, <1>12
<1>14. \A a \in parsed : heap'[a].kind = "path"
  <2>1. \A a \in parsed : a \in Addr /\ heap[a].kind = "path"
    BY <1>1, <1>2 DEF CallRight, Calling, Is
  <2> QED BY <1>6, <2>1
<1>15. LostNow' \subseteq {"path"}
  BY <1>2, <1>13, <1>14 DEF LostNow
<1>16. ret' # 0 /\ call'.op = "fopen"
  BY <1>1, <1>2, <1>3, FilesAssumption DEF CallRight, Descriptors
<1> QED BY <1>15, <1>16 DEF NothingElseLost

\* A call of fopen that fails keeps the parsed path and its descriptor; and
\* the item it found, when that is a file in the middle of the path.
LEMMA FailsLoses ==
  ASSUME LInv, OpenFails
  PROVE  NothingElseLost'
<1>1. OInv /\ WalkRight /\ LostRight
  BY DEF LInv, WInv
<1>2. /\ pc = "next" /\ pc' = "idle" /\ ret' = 0 /\ heap' = AfterFree
      /\ UNCHANGED <<volume, table, call, parsed, fatd, cur, tmp>>
      /\ \/ tmp = NULL
         \/ ~Last /\ Is(tmp, "file")
  BY DEF OpenFails, Return, locals
<1>3. /\ call.op = "fopen" /\ k \in 1 .. Len(call.path.names) /\ Len(call.path.names) \in Nat
      /\ \A a \in parsed : a \in Addr /\ heap[a].kind = "path"
      /\ fatd \in Addr /\ heap[fatd].kind = "fatdesc"
  BY <1>1, <1>2, PathRootNames DEF OInv, CallRight, FatdRight, Calling, Looking, Is
<1>4. Changes(ItemBlocks(cur), {})
  BY <1>1, <1>2, FreeingChanges
<1>5. Lost' \subseteq Lost \ ItemBlocks(cur)
  BY <1>4, LostChanges
<1>6. Lost' \subseteq call.lost \cup parsed \cup {fatd} \cup ItemBlocks(tmp)
  BY <1>1, <1>2, <1>5 DEF LostRight, Calling, Mine, Looking
<1>7. \A a \in Addr : heap'[a] = heap[a] \/ heap'[a].kind = "free"
  BY <1>1, <1>2, AfterFreeLeaves DEF Free, Object
<1>8. \A a \in Lost' : a \in Addr /\ heap'[a].kind # "free"
  BY DEF Lost
<1>9. CASE tmp = NULL
  <2>1. ItemBlocks(tmp) = {}
    BY <1>9, NullApart DEF ItemBlocks, To
  <2>2. \A a \in Lost' \ call.lost : heap'[a].kind \in {"path", "fatdesc"}
    BY <1>3, <1>6, <1>7, <1>8, <2>1
  <2>3. LostNow' \subseteq {"path", "fatdesc"}
    BY <1>2, <2>2 DEF LostNow
  <2> QED BY <1>2, <1>3, <2>3 DEF NothingElseLost
<1>10. CASE tmp # NULL
  <2>1. ~Last /\ tmp \in Addr /\ heap[tmp].kind = "file"
    BY <1>2, <1>10 DEF Is
  <2>2. \A a \in ItemBlocks(tmp) :
          heap[a].kind \in {"file", "clone", "dir", "directory", "entries", "free"}
    BY <1>1, <2>1, ItemKinds
  <2>3. \A a \in Lost' \ call.lost :
          heap'[a].kind \in {"path", "fatdesc", "file", "clone", "dir", "directory", "entries"}
    BY <1>3, <1>6, <1>7, <1>8, <2>2
  <2>4. LostNow' \subseteq {"path", "fatdesc", "file", "clone", "dir", "directory", "entries"}
    BY <1>2, <2>3 DEF LostNow
  <2>5. Denotes(Prefix(k), tmp)
    BY <1>1, <1>2, <1>10 DEF WalkRight, Looking
  <2>6. Prefix(k) # Nowhere /\ ~Prefix(k).subdirectory
    BY <2>1, <2>5 DEF Denotes
  <2>7. k \in 1 .. (Len(call.path.names) - 1)
    BY <1>3, <2>1 DEF Last
  <2>8. BelowFile
    BY <2>6, <2>7 DEF BelowFile, Prefix
  <2>9. BelowFile'
    BY <1>2, <2>8 DEF BelowFile
  <2> QED BY <1>2, <1>3, <2>4, <2>9 DEF NothingElseLost
<1> QED BY <1>9, <1>10

LEMMA LostSame == UNCHANGED <<heap, table>> => Lost' = Lost
  BY DEF Lost, Issued, HeldBy, ItemBlocks, To

LEMMA NoSlotLoses ==
  ASSUME LInv, NoSlot
  PROVE  NothingElseLost'
<1>1. OInv /\ LostRight /\ LastRight
  BY DEF LInv, WInv
<1>2. /\ pc = "descriptor" /\ pc' = "idle" /\ ret' = 0 /\ Slots = {}
      /\ UNCHANGED <<heap, table, call, parsed, fatd, tmp>>
  BY DEF NoSlot, Return, locals
<1>3. /\ call.op = "fopen"
      /\ \A a \in parsed : a \in Addr /\ heap[a].kind = "path"
      /\ fatd \in Addr /\ heap[fatd].kind = "fatdesc" /\ heap[fatd].to = tmp /\ tmp # NULL
  BY <1>1, <1>2 DEF OInv, CallRight, FatdRight, LastRight, Calling, Looking, Is
<1>4. tmp \in Addr /\ heap[tmp].kind \in {"file", "dir"} /\ (heap[tmp].kind = "dir" => Loaded(tmp))
  <2>1. tmp \in Addr \cup {NULL}
    BY <1>1 DEF OInv, TInv, TypeOK
  <2> QED BY <1>1, <1>2, <1>3, <2>1, TargetsOf DEF OInv, WellShaped, Owners, LastRight
<1>5. \A a \in ItemBlocks(tmp) :
        heap[a].kind \in {"file", "clone", "dir", "directory", "entries", "free"}
  BY <1>1, <1>4, ItemKinds
<1>6. Lost \subseteq call.lost \cup parsed \cup {fatd} \cup ItemBlocks(tmp)
  BY <1>1, <1>2 DEF LostRight, Calling, Mine, Looking
<1>7. \A a \in Lost : heap[a].kind # "free"
  BY DEF Lost
<1>8. \A a \in Lost \ call.lost :
        heap[a].kind \in {"path", "fatdesc", "file", "clone", "dir", "directory", "entries"}
  BY <1>3, <1>5, <1>6, <1>7
<1>9. LostNow' \subseteq {"path", "fatdesc", "file", "clone", "dir", "directory", "entries"}
  BY <1>2, <1>8, LostSame DEF LostNow
<1>10. Slots' = {}
  BY <1>2 DEF Slots
<1> QED BY <1>2, <1>3, <1>9, <1>10 DEF NothingElseLost

\* What the parser allocated, and demo_pparser frees.
LEMMA ParserLoses ==
  ASSUME LInv, ParseRoot \/ pparser_free_path_root \/ Refused, pc' = "idle"
  PROVE  NothingElseLost'
<1>1. OInv /\ LostRight /\ DemoParses
  BY DEF LInv, WInv
<1>2. pc \in {"root", "resolve"} /\ UNCHANGED call /\ ret' = 0
  BY DEF ParseRoot, Parse, pparser_free_path_root, Refused, Return
<1>3. Lost \subseteq call.lost \cup parsed /\ \A a \in parsed : a \in Addr /\ heap[a].kind = "path"
  BY <1>1, <1>2 DEF LostRight, Mine, OInv, CallRight, Calling, Looking, Is
<1>4. CASE pparser_free_path_root
  <2>1. heap' = Without(parsed) /\ UNCHANGED table /\ call.op = "demo_pparser"
    BY <1>4 DEF pparser_free_path_root
  <2>2. \A a \in parsed : To(a) = NULL
    BY <1>1, <1>3 DEF OInv, WellShaped, Owners, To
  <2>3. Changes(parsed, {})
    BY <1>3, <2>1, <2>2 DEF Changes, Without, Free, Object
  <2>4. Lost' \subseteq call.lost
    BY <1>3, <2>3, LostChanges
  <2>5. LostNow' = {}
    BY <1>2, <2>4 DEF LostNow
  <2> QED BY <2>5 DEF NothingElseLost
<1>5. CASE Refused
  <2>1. UNCHANGED <<heap, table>> /\ call.op = "fopen"
    BY <1>5 DEF Refused
  <2>2. Lost' = Lost
    BY <2>1, LostSame
  <2>3. LostNow' \subseteq {"path"}
    BY <1>2, <1>3, <2>1, <2>2 DEF LostNow
  <2> QED BY <1>2, <2>1, <2>3 DEF NothingElseLost
<1>6. CASE ParseRoot
  <2>1. ~call.path.parses /\ heap' = With(Object("path", NULL, Root)) /\ pc = "root"
    BY <1>6 DEF ParseRoot, Parse
  <2>2. call.op = "fopen"
    BY <1>1, <2>1 DEF DemoParses, OInv, CallRight, Calling
  <2>3. Changes({}, {Fresh}) /\ ~Full
    BY <1>1, <1>6, ParseTakes
  <2>4. Lost' \subseteq (Lost \ {}) \cup {Fresh}
    BY <2>3, LostChanges
  <2>5. heap'[Fresh].kind = "path" /\ \A a \in Addr \ {Fresh} : heap'[a] = heap[a]
    <3>1. Object("path", NULL, Root) \in Objects
      BY FilesAssumption DEF Object, Objects, Kinds
    <3> QED BY <1>1, <2>1, <2>3, <3>1, HeapTyped, WithPuts DEF OInv, Object
  <2>6. \A a \in Lost' \ call.lost : heap'[a].kind = "path"
    BY <1>3, <2>4, <2>5
  <2>7. LostNow' \subseteq {"path"}
    BY <1>2, <2>6 DEF LostNow
  <2> QED BY <1>2, <2>2, <2>7 DEF NothingElseLost
<1> QED BY <1>4, <1>5, <1>6

\* fclose frees all that its descriptor holds.
LEMMA CloseLoses ==
  ASSUME OInv, NEW fd \in {0} \cup Descriptors, fclose(fd), TInv'
  PROVE  NothingElseLost'
<1> PICK S : S = fat16_close(fd) \cup {table[fd]}
  OBVIOUS
<1>1. fd \in Issued /\ fd \in Descriptors /\ table' = [table EXCEPT ![fd] = NULL]
  BY CloseKeeps DEF Issued
<1>2. heap' = Without(S) /\ Sound(fd) /\ call'.op = "other" /\ call'.lost = Lost
  BY DEF fclose, Use, Start
<1>3. S \subseteq Addr /\ S = HeldBy(fd)
  <2>1. fat16_close(fd) \cup {table[fd]} \subseteq Addr
    BY <1>1, <1>2, HeldBlocks
  <2>2. fat16_close(fd) \cup {table[fd]} = HeldBy(fd)
    BY DEF fat16_close, HeldBy
  <2> QED BY <2>1, <2>2
<1>4. \A a \in S : To(a) \in S \cup {NULL}
  <2>1. /\ table[fd] \in Addr /\ To(table[fd]) = heap[table[fd]].to
        /\ Item(fd) = heap[To(table[fd])].to
        /\ Item(fd) \in Addr /\ heap[Item(fd)].kind \in {"file", "dir"}
    BY <1>1, HeldTyped
  <2>2. heap[Item(fd)].kind = "dir" => Loaded(Item(fd))
    BY <1>2, <2>1 DEF Sound, Is, Item, Loaded
  <2>3. \A a \in ItemBlocks(Item(fd)) : To(a) \in ItemBlocks(Item(fd)) \cup {NULL}
    BY <2>1, <2>2, ItemKinds
  <2>4. S = {table[fd], To(table[fd])} \cup ItemBlocks(Item(fd))
    BY <1>3 DEF HeldBy, Item
  <2>5. To(To(table[fd])) \in ItemBlocks(Item(fd))
    BY <2>1, NullApart DEF ItemBlocks, Item
  <2> QED BY <2>3, <2>4, <2>5
<1>5. Changes(S, {})
  <2>1. \A g \in Issued : table'[g] = table[g] \/ HeldBy(g) \subseteq S
    BY <1>1, <1>3 DEF OInv, TInv, TypeOK, Issued
  <2> QED BY <1>2, <1>3, <1>4, <2>1 DEF Changes, Without, Free, Object
<1>6. Lost' \subseteq call'.lost
  BY <1>2, <1>5, LostChanges
<1>7. LostNow' = {}
  BY <1>6 DEF LostNow
<1> QED BY <1>2, <1>7 DEF NothingElseLost

LEMMA LostInitially == Init => LInv
<1> SUFFICES ASSUME Init PROVE LInv
  OBVIOUS
<1> QED BY WalkInitially
        DEF Init, LInv, LostRight, LastRight, DemoParses, NothingElseLost, Calling, Looking

LEMMA LostNext ==
  ASSUME LInv, WInv', [Next]_vars
  PROVE  LInv'
<1>1. OInv /\ TInv' /\ LostRight /\ LastRight /\ DemoParses /\ NothingElseLost
      /\ (pc = "boot" => call.op = "other")
  BY DEF LInv, WInv, OInv
<1>2. ASSUME pc' \notin Calling, NothingElseLost' PROVE LInv'
  BY <1>2 DEF LInv, LostRight, LastRight, DemoParses, Calling
<1>3. CASE Mount
  <2>1. PICK ours \in BOOLEAN : fat16_resolve(ours)
    BY <1>3 DEF Mount
  <2>2. pc = "boot" /\ pc' = "idle" /\ UNCHANGED call
    BY <2>1 DEF fat16_resolve
  <2>3. \A a \in Addr : heap'[a].kind \in {"fs", "free"}
    BY <2>1 DEF fat16_resolve, Object, Free
  <2>4. LostNow' = {}
    BY <2>3 DEF LostNow, Lost
  <2>5. NothingElseLost'
    BY <1>1, <2>2, <2>4 DEF NothingElseLost
  <2> QED BY <1>2, <2>2, <2>5 DEF Calling, Looking
<1>4. CASE OpenStep /\ pc' \in Calling
  <2>1. StepTakes /\ pc \in Calling /\ UNCHANGED call
    BY <1>1, <1>4, OpenStepTakes
  <2>2. LostRight'
    BY <1>1, <2>1, LostStays DEF StepTakes
  <2>3. LastRight'
    <3>1. CASE OpenSucceeds
      BY <1>1, <3>1, SucceedsLast
    <3>2. CASE ~OpenSucceeds
      <4>1. pc' # "descriptor"
        BY <1>4, <3>2
           DEF OpenStep, ParseRoot, ParsePart, ParseName, pparser_free_path_root, Refused, fat16_open,
               NotFound, fat16_new_fat_item, fat16_clone_directory_item, AllocateDirectory,
               LoadEntries, LoadFails, Descend, OpenFails, file_new_descriptor, NoSlot, GoesWild, Return
      <4> QED BY <4>1 DEF LastRight
    <3> QED BY <3>1, <3>2
  <2>4. DemoParses'
    BY <1>1, <2>1 DEF DemoParses
  <2>5. pc' # "idle"
    BY <1>4 DEF Calling, Looking
  <2> QED BY <2>2, <2>3, <2>4, <2>5 DEF LInv, NothingElseLost
<1>5. CASE OpenStep /\ pc' \notin Calling
  <2>1. \/ file_new_descriptor \/ OpenFails \/ NoSlot \/ GoesWild
        \/ ParseRoot \/ pparser_free_path_root \/ Refused
    BY <1>5 DEF OpenStep, ParsePart, ParseName, fat16_open, NotFound, fat16_new_fat_item,
                fat16_clone_directory_item, AllocateDirectory, LoadEntries, LoadFails, Descend,
                OpenSucceeds, Calling, Looking
  <2>2. CASE GoesWild
    BY <1>2, <1>5, <2>2 DEF GoesWild, NothingElseLost
  <2>3. CASE ParseRoot \/ pparser_free_path_root \/ Refused
    <3>1. pc' = "idle"
      BY <1>5, <2>3 DEF ParseRoot, pparser_free_path_root, Refused, Return, Calling, Looking
    <3> QED BY <1>2, <1>5, <2>3, <3>1, ParserLoses
  <2> QED BY <1>2, <1>5, <2>1, <2>2, <2>3, DescriptorLoses, FailsLoses, NoSlotLoses
<1>6. CASE Opening
  <2>1. /\ pc = "idle" /\ pc' = "root" /\ UNCHANGED <<heap, table>> /\ parsed' = {}
        /\ call'.lost = Lost
        /\ call'.op = "demo_pparser" => call'.path.parses
    <3>1. ASSUME NEW path \in DemoPaths, demo_pparser(path)
          PROVE  /\ pc = "idle" /\ pc' = "root" /\ UNCHANGED <<heap, table>> /\ parsed' = {}
                 /\ call'.lost = Lost
                 /\ call'.op = "demo_pparser" => call'.path.parses
      BY <3>1, FilesAssumption DEF demo_pparser, Start
    <3>2. ASSUME NEW path, NEW mode, fopen(path, mode)
          PROVE  /\ pc = "idle" /\ pc' = "root" /\ UNCHANGED <<heap, table>> /\ parsed' = {}
                 /\ call'.lost = Lost
                 /\ call'.op = "demo_pparser" => call'.path.parses
      BY <3>2 DEF fopen, Start
    <3> QED BY <1>6, <3>1, <3>2 DEF Opening
  <2>2. Lost' = Lost
    BY <2>1, LostSame
  <2> QED BY <2>1, <2>2 DEF LInv, LostRight, LastRight, DemoParses, NothingElseLost
<1>7. CASE Using
  <2>1. PICK fd \in {0} \cup Descriptors :
          \/ fclose(fd)
          \/ \E op \in Calls \ {"fclose"} : Served(op, fd)
          \/ \E op \in Calls : Rejected(op, fd) \/ UseGoesWild(op, fd)
    BY <1>7 DEF Using
  <2>2. pc' \in {"idle", "wild"}
    BY <2>1 DEF Served, Rejected, UseGoesWild, fclose, Return
  <2>3. pc' \notin Calling
    BY <2>2 DEF Calling, Looking
  <2>4. CASE fclose(fd)
    BY <1>1, <1>2, <2>3, <2>4, CloseLoses
  <2>5. CASE ~fclose(fd)
    <3>1. UNCHANGED <<heap, table>> /\ call'.lost = Lost
      BY <2>1, <2>5 DEF Served, Rejected, UseGoesWild, Use, Start
    <3>2. Lost' = Lost
      BY <3>1, LostSame
    <3>3. LostNow' = {}
      BY <3>1, <3>2 DEF LostNow
    <3>4. NothingElseLost'
      BY <3>3 DEF NothingElseLost
    <3> QED BY <1>2, <2>3, <3>4
  <2> QED BY <2>4, <2>5
<1>8. CASE UNCHANGED vars
  <2>1. UNCHANGED <<volume, mounted, heap, table, pc, call, parsed, k, fatd, cur, tmp, ret>>
    BY <1>8 DEF vars, locals
  <2>2. Lost' = Lost /\ Mine' = Mine
    BY <2>1, LostSame DEF Mine, ItemBlocks, To
  <2>3. LostRight' /\ DemoParses'
    BY <1>1, <2>1, <2>2 DEF LostRight, DemoParses
  <2>4. LastRight'
    BY <1>1, <2>1 DEF LastRight, Loaded, To
  <2>5. NothingElseLost'
    <3>1. LostNow' = LostNow /\ BelowFile' = BelowFile /\ Slots' = Slots
      BY <2>1, <2>2 DEF LostNow, BelowFile, Slots
    <3> QED BY <1>1, <2>1, <3>1 DEF NothingElseLost
  <2> QED BY <2>3, <2>4, <2>5 DEF LInv
<1> QED BY <1>3, <1>4, <1>5, <1>6, <1>7, <1>8 DEF Next

LEMMA LostKnown == NoneEmpty /\ OneOfEachName /\ Spec => []LInv
<1>1. LInv /\ WInv' /\ [Next]_vars => LInv'
  BY LostNext
<1> QED BY <1>1, LostInitially, Walked, PTL DEF Spec

\* A call of fopen leaves behind the parsed path, and when it fails its
\* descriptor, and the item only when the path goes on below a file or there
\* is no free slot; demo_pparser, fclose and the other calls leave nothing.
\* Every block that another step of the lookup takes is freed or the
\* descriptor's in the end.
THEOREM LosesNothingElse == NoneEmpty /\ OneOfEachName /\ Spec => []NothingElseLost
<1>1. LInv => NothingElseLost
  BY DEF LInv
<1> QED BY <1>1, LostKnown, PTL

-----------------------------------------------------------------------------
(* Room on the heap, and what is found *)

\* A directory with a deleted entry, or whose entries cannot be read.
Unreadable(n) == n \in Broken \/ HasDeleted(volume[n])

\* What the parser has allocated so far.
CountRight ==
  /\ pc = "root" => parsed = {} /\ k = 1
  /\ pc = "part" => Cardinality(parsed) <= 2 * k - 1
  /\ pc = "name" => Cardinality(parsed) <= 2 * k
  /\ pc \in Calling \ {"root", "part", "name"} =>
       Cardinality(parsed) <= 2 * Len(call.path.names) + 1

\* The item's directory was allocated, and loaded unless it cannot be read.
Reads(i) == To(i) # NULL /\ (Is(To(i), "directory") \/ heap[i].of \in Broken)

\* With room, the directories on the way are loaded, and a name that is not
\* found is missing or its directory cannot be read.
MissRight ==
  Sufficient =>
    /\ pc \in Looking /\ k > 1 => Reads(cur)
    /\ pc = "next" /\ Is(tmp, "dir") => Reads(tmp)
    /\ pc = "next" /\ tmp = NULL => Prefix(k) = Nowhere \/ Unreadable(Prefix(k - 1).node)

RInv == WInv /\ RoomRight /\ CountRight /\ MissRight /\ SafeWithRoom /\ FoundIfNoneDeleted

\* How many blocks there are at most.
AtMost(S, n) == IsFiniteSet(S) /\ Cardinality(S) <= n

LEMMA UnionAtMost ==
  ASSUME NEW S, NEW T, NEW m \in Nat, NEW n \in Nat, AtMost(S, m), AtMost(T, n)
  PROVE  AtMost(S \cup T, m + n)
<1>1. /\ IsFiniteSet(S \cup T)
      /\ Cardinality(S \cup T) = Cardinality(S) + Cardinality(T) - Cardinality(S \cap T)
  BY FS_Union DEF AtMost
<1>2. Cardinality(S \cap T) \in Nat /\ Cardinality(S) \in Nat /\ Cardinality(T) \in Nat
  BY FS_Intersection, FS_CardinalityType DEF AtMost
<1> QED BY <1>1, <1>2 DEF AtMost

LEMMA SingleAtMost ==
  ASSUME NEW x
  PROVE  AtMost({x}, 1)
<1>1. IsFiniteSet({x}) /\ Cardinality({x}) = 1
  BY FS_Singleton
<1> QED BY <1>1 DEF AtMost

LEMMA OneMore ==
  ASSUME NEW S, NEW x, NEW m \in Nat, AtMost(S, m)
  PROVE  AtMost(S \cup {x}, m + 1)
<1>1. 1 \in Nat
  OBVIOUS
<1> QED BY <1>1, SingleAtMost, UnionAtMost

LEMMA FewerAtMost ==
  ASSUME NEW T, NEW S \in SUBSET T, NEW m \in Nat, AtMost(T, m)
  PROVE  AtMost(S, m)
<1>1. IsFiniteSet(S) /\ Cardinality(S) <= Cardinality(T)
  BY FS_Subset DEF AtMost
<1>2. Cardinality(S) \in Nat /\ Cardinality(T) \in Nat
  BY <1>1, FS_CardinalityType DEF AtMost
<1> QED BY <1>1, <1>2 DEF AtMost

LEMMA AtMostLess ==
  ASSUME NEW S, NEW m \in Nat, NEW n \in Nat, AtMost(S, m), m <= n
  PROVE  AtMost(S, n)
<1>1. Cardinality(S) \in Nat
  BY FS_CardinalityType DEF AtMost
<1> QED BY <1>1 DEF AtMost

\* An item has as many blocks as were allocated for it.
LEMMA ItemAtMost ==
  ASSUME NEW i
  PROVE  /\ AtMost(ItemBlocks(i), 3)
         /\ i = NULL \/ To(i) = NULL \/ To(To(i)) = NULL => AtMost(ItemBlocks(i), 2)
<1>1. AtMost({i}, 1)
  BY SingleAtMost
<1>2. AtMost({i} \cup {To(i)}, 2)
  <2>1. AtMost({i} \cup {To(i)}, 1 + 1)
    BY <1>1, OneMore
  <2> QED BY <2>1
<1>3. AtMost({i} \cup {To(i)} \cup {To(To(i))}, 3)
  <2>1. AtMost({i} \cup {To(i)} \cup {To(To(i))}, 2 + 1)
    BY <1>2, OneMore
  <2> QED BY <2>1
<1>4. To(NULL) = NULL
  BY NullApart DEF To
<1>5. ItemBlocks(i) \subseteq {i} \cup {To(i)} \cup {To(To(i))}
  BY DEF ItemBlocks
<1>6. i = NULL \/ To(i) = NULL \/ To(To(i)) = NULL => ItemBlocks(i) \subseteq {i} \cup {To(i)}
  BY <1>4 DEF ItemBlocks
<1> QED BY <1>2, <1>3, <1>5, <1>6, FewerAtMost

LEMMA ParsedFinite == TInv => IsFiniteSet(parsed) /\ Cardinality(parsed) \in Nat
<1> SUFFICES ASSUME TInv PROVE IsFiniteSet(parsed) /\ Cardinality(parsed) \in Nat
  OBVIOUS
<1>1. IsFiniteSet(Addr)
  BY FilesAssumption, FS_Interval DEF Addr
<1>2. parsed \in SUBSET Addr
  BY DEF TInv, TypeOK
<1> QED BY <1>1, <1>2, FS_Subset, FS_CardinalityType

LEMMA ParsedAtMost ==
  ASSUME OInv, CountRight, pc \in Calling, NEW m, m = 2 * Len(call.path.names) + 1
  PROVE  m \in Nat /\ AtMost(parsed, m)
<1> PICK n : n = Len(call.path.names)
  OBVIOUS
<1>1. TInv /\ n \in Nat /\ k \in 1 .. n
  BY PathRootNames DEF OInv, CallRight
<1>2. IsFiniteSet(parsed) /\ Cardinality(parsed) \in Nat
  BY <1>1, ParsedFinite
<1>3. CASE pc = "root"
  <2>1. Cardinality(parsed) = 0
    BY <1>3, FS_EmptySet DEF CountRight
  <2> QED BY <1>1, <1>2, <2>1 DEF AtMost
<1>4. CASE pc # "root"
  BY <1>1, <1>2, <1>4 DEF CountRight, AtMost
<1> QED BY <1>3, <1>4

LEMMA Bounds ==
  ASSUME NEW n \in Nat
  PROVE  \E m \in Nat :
           /\ m = 2 * n + 1 /\ m + 1 \in Nat /\ (m + 1) + 3 \in Nat /\ ((m + 1) + 3) + 2 \in Nat
           /\ \A r, c \in Nat : r >= 2 * n + 8 /\ r <= c => ~ c <= ((m + 1) + 3) + 2
  OBVIOUS

\* With room for the path there is a free block wherever one is asked for.
LEMMA NotFull ==
  ASSUME OInv, RoomRight, CountRight, Sufficient, pc \in Calling \ {"next"}
  PROVE  ~Full
<1> PICK n : n = Len(call.path.names)
  OBVIOUS
<1>1. TInv /\ n \in Nat
  BY PathRootNames DEF OInv, CallRight
<1> PICK m \in Nat :
      /\ m = 2 * n + 1 /\ m + 1 \in Nat /\ (m + 1) + 3 \in Nat /\ ((m + 1) + 3) + 2 \in Nat
      /\ \A r, c \in Nat : r >= 2 * n + 8 /\ r <= c => ~ c <= ((m + 1) + 3) + 2
  BY <1>1, Bounds
<1>2. m + 1 \in Nat /\ (m + 1) + 3 \in Nat /\ ((m + 1) + 3) + 2 \in Nat /\ 2 \in Nat /\ 3 \in Nat
  OBVIOUS
<1>3. AtMost(parsed, m)
  BY ParsedAtMost
<1>4. AtMost(parsed \cup {fatd}, m + 1)
  BY <1>2, <1>3, OneMore
<1>5. AtMost(Mine, ((m + 1) + 3) + 2)
  <2>1. CASE pc \in Looking
    <3>1. AtMost(parsed \cup {fatd} \cup ItemBlocks(cur), (m + 1) + 3)
      BY <1>2, <1>4, ItemAtMost, UnionAtMost
    <3>2. tmp = NULL \/ To(tmp) = NULL \/ To(To(tmp)) = NULL
      BY <2>1 DEF OInv, TmpRight, Looking
    <3>3. AtMost(parsed \cup {fatd} \cup ItemBlocks(cur) \cup ItemBlocks(tmp), ((m + 1) + 3) + 2)
      BY <1>2, <3>1, <3>2, ItemAtMost, UnionAtMost
    <3>4. Mine = parsed \cup {fatd} \cup ItemBlocks(cur) \cup ItemBlocks(tmp)
      BY <2>1 DEF Mine, Looking
    <3> QED BY <3>3, <3>4
  <2>2. CASE pc = "descriptor"
    <3>1. AtMost(parsed \cup {fatd} \cup ItemBlocks(tmp), (m + 1) + 3)
      BY <1>2, <1>4, ItemAtMost, UnionAtMost
    <3>2. Mine = parsed \cup {fatd} \cup ItemBlocks(tmp)
      BY <2>2 DEF Mine, Looking
    <3>3. (m + 1) + 3 <= ((m + 1) + 3) + 2
      BY <1>2
    <3> QED BY <1>2, <3>1, <3>2, <3>3, AtMostLess
  <2>3. CASE pc \notin Looking \cup {"descriptor"}
    <3>1. Mine = parsed
      BY <2>3 DEF Mine, Looking
    <3>2. m <= ((m + 1) + 3) + 2
      BY <1>2
    <3> QED BY <1>2, <1>3, <3>1, <3>2, AtMostLess
  <2> QED BY <2>1, <2>2, <2>3
<1>6. call.room \in Nat /\ call.room >= 2 * n + 8
  BY <1>1, FilesAssumption DEF Sufficient, Needed, TInv, TypeOK
<1>7. call.room <= Cardinality(Spare \cup Mine)
  BY DEF RoomRight
<1> SUFFICES ASSUME Full PROVE FALSE
  OBVIOUS
<1>8. Spare \cup Mine = Mine
  BY DEF Full
<1>9. Cardinality(Mine) <= ((m + 1) + 3) + 2 /\ Cardinality(Mine) \in Nat
  BY <1>5, FS_CardinalityType DEF AtMost
<1> QED BY <1>1, <1>6, <1>7, <1>8, <1>9

\* Two blocks for each part of the path, after the one for its root.
LEMMA CountStays ==
  ASSUME OInv, CountRight, OpenStep, pc' \in Calling
  PROVE  CountRight'
<1> PICK n : n = Len(call.path.names)
  OBVIOUS
<1>1. TInv /\ n \in Nat /\ (pc \in Calling => k \in 1 .. n)
  BY PathRootNames DEF OInv, CallRight
<1>2. CASE ParseRoot \/ ParsePart \/ ParseName
  <2>1. parsed' = parsed \cup {Fresh} /\ UNCHANGED call /\ pc \in {"root", "part", "name"}
    BY <1>2, ParseTakes
  <2>2. k \in Nat /\ k >= 1 /\ k <= n
    BY <1>1, <2>1 DEF Calling
  <2>3. IsFiniteSet(parsed) /\ Cardinality(parsed) \in Nat
    BY <1>1, ParsedFinite
  <2>4. AtMost(parsed, Cardinality(parsed))
    BY <2>3 DEF AtMost
  <2>5. AtMost(parsed', Cardinality(parsed) + 1)
    BY <2>1, <2>3, <2>4, OneMore
  <2>6. Cardinality(parsed') <= Cardinality(parsed) + 1 /\ Cardinality(parsed') \in Nat
    BY <2>5, FS_CardinalityType DEF AtMost
  <2>7. CASE ParseRoot
    <3>1. pc = "root" /\ pc' = "part" /\ k' = k
      BY <1>2, <2>7 DEF ParseRoot, Return, Calling, Looking
    <3>2. Cardinality(parsed) = 0 /\ k = 1
      BY <3>1, FS_EmptySet DEF CountRight
    <3>3. Cardinality(parsed') <= 2 * k' - 1
      BY <2>6, <3>1, <3>2
    <3> QED BY <3>1, <3>3 DEF CountRight, Calling, Looking
  <2>8. CASE ParsePart
    <3>1. pc = "part" /\ pc' = "name" /\ k' = k
      BY <2>8 DEF ParsePart
    <3>2. Cardinality(parsed) <= 2 * k - 1
      BY <3>1 DEF CountRight
    <3>3. Cardinality(parsed') <= 2 * k'
      BY <2>2, <2>3, <2>6, <3>1, <3>2
    <3> QED BY <3>1, <3>3 DEF CountRight, Calling, Looking
  <2>9. CASE ParseName
    <3>1. pc = "name"
      BY <2>9 DEF ParseName
    <3>2. Cardinality(parsed) <= 2 * k
      BY <3>1 DEF CountRight
    <3>3. CASE pc' = "part" /\ k' = k + 1
      <4>1. Cardinality(parsed') <= 2 * k' - 1
        BY <2>2, <2>3, <2>6, <3>2, <3>3
      <4> QED BY <3>3, <4>1 DEF CountRight, Calling, Looking
    <3>4. CASE pc' = "resolve"
      <4>1. Cardinality(parsed') <= 2 * n + 1
        BY <1>1, <2>2, <2>3, <2>6, <3>2
      <4>2. Len(call'.path.names) = n
        BY <2>1
      <4> QED BY <3>4, <4>1, <4>2 DEF CountRight, Calling, Looking
    <3> QED BY <2>9, <3>3, <3>4 DEF ParseName
  <2> QED BY <1>2, <2>7, <2>8, <2>9
<1>3. CASE ~(ParseRoot \/ ParsePart \/ ParseName)
  <2>1. /\ UNCHANGED <<parsed, call>>
        /\ pc \in Calling \ {"root", "part", "name"} /\ pc' \notin {"root", "part", "name"}
    BY <1>3
       DEF OpenStep, pparser_free_path_root, Refused, fat16_open, NotFound, fat16_new_fat_item,
           fat16_clone_directory_item, AllocateDirectory, LoadEntries, LoadFails, Descend,
           OpenFails, OpenSucceeds, file_new_descriptor, NoSlot, GoesWild, Return, locals,
           Calling, Looking
  <2> QED BY <2>1 DEF CountRight, Calling, Looking
<1> QED BY <1>2, <1>3

\* A name that is used in a directory without deleted entries is found.
LEMMA FoundUnlessDeleted ==
  ASSUME NEW d \in Listing, ~HasDeleted(d), NEW name, Matches(d, name) = {}
  PROVE  ~IsIn(d, name)
<1> SUFFICES ASSUME NEW i \in Used(d), d[i].name = name PROVE FALSE
  BY DEF IsIn
<1>1. d \in Seq(DirectoryItem \cup {Deleted})
  BY DEF Listing
<1>2. Len(d) \in Nat /\ DOMAIN d = 1 .. Len(d)
  BY <1>1, LenProperties
<1>3. Used(d) = 1 .. Len(d)
  BY <1>2 DEF Used, HasDeleted
<1>4. Cardinality(1 .. Len(d)) = Len(d)
  <2>1. \A n \in Nat : Cardinality(1 .. n) = n
    BY FS_Interval
  <2> QED BY <1>2, <2>1
<1>5. i <= fat16_get_total_items_for_directory(d)
  BY <1>2, <1>3, <1>4 DEF fat16_get_total_items_for_directory
<1> QED BY <1>5 DEF Matches

\* What the lookup does not find is missing, or hidden behind deleted entries.
LEMMA NotFoundIsMissing ==
  ASSUME OInv, WalkRight, pc = "lookup", ~Found, k > 1 => Reads(cur)
  PROVE  Prefix(k) = Nowhere \/ Unreadable(Prefix(k - 1).node)
<1> PICK name : name = call.path.names[k]
  OBVIOUS
<1> PICK w : w = Prefix(k - 1)
  OBVIOUS
<1>1. TInv /\ call.path.names \in Seq(Names) /\ k \in 1 .. Len(call.path.names)
  BY DEF OInv, CallRight, Calling, Looking, PathRoots
<1>2. Prefix(0) = TheRoot /\ Prefix(k) = Below(volume, w, name)
  BY <1>1, WalkUnfolds DEF Prefix
<1>3. k > 1 => Is(cur, "dir") /\ Denotes(w, cur)
  BY DEF OInv, CurRight, WalkRight, Looking
<1>4. w \in {TheRoot} \/ w.node = heap[cur].of
  BY <1>1, <1>2, <1>3 DEF Denotes
<1>5. CASE k > 1 /\ heap[cur].of \in Broken
  BY <1>3, <1>5 DEF Denotes, Unreadable
<1>6. CASE k > 1 => Is(To(cur), "directory")
  <2>1. volume[w.node] = Searched
    <3>1. CASE k = 1
      BY <1>2, <3>1 DEF Searched, TheRoot
    <3>2. CASE k > 1
      <4>1. heap[To(cur)].of = heap[cur].of
        BY <1>6, <3>2 DEF WalkRight, Looking, OwnDirectory
      <4> QED BY <1>3, <1>6, <3>2, <4>1 DEF Searched, Denotes
    <3> QED BY <1>1, <3>1, <3>2
  <2>2. Searched \in Listing /\ Matches(Searched, name) = {}
    BY <1>1, SearchedTyped DEF Found
  <2>3. CASE HasDeleted(Searched)
    BY <2>1, <2>3 DEF Unreadable
  <2>4. CASE ~HasDeleted(Searched)
    <3>1. ~IsIn(volume[w.node], name)
      BY <2>1, <2>2, <2>4, FoundUnlessDeleted
    <3> QED BY <1>2, <3>1 DEF Below
  <2> QED BY <2>3, <2>4
<1> QED BY <1>5, <1>6 DEF Reads

\* A directory that was loaded, or could not be read, stays so.
LEMMA ReadsStays ==
  ASSUME NEW i \in Addr, Reads(i), heap'[i] = heap[i],
         Is(To(i), "directory") => heap'[To(i)].kind = "directory"
  PROVE  Reads(i)'
<1>1. To(i) = heap[i].to /\ To(i)' = heap[i].to
  BY DEF To
<1>2. (Is(To(i), "directory") \/ heap[i].of \in Broken)'
  BY <1>1 DEF Reads, Is
<1> QED BY <1>1, <1>2 DEF Reads

\* The steps that fill tmp_item leave current_item alone.
LEMMA CurrentReads ==
  ASSUME OInv, pc \in {"lookup", "clone", "load", "entries"}, k > 1, Reads(cur), UNCHANGED cur,
         NEW f \in Addr \cup {NULL}, f # NULL => heap[f].kind = "free",
         \A a \in Addr \ {f, tmp, To(tmp)} : heap'[a] = heap[a]
  PROVE  Reads(cur)'
<1>1. Is(cur, "dir") /\ tmp # cur /\ (To(tmp) # NULL => To(tmp) # To(cur))
  BY DEF OInv, CurRight, Looking
<1>2. To(tmp) = NULL \/ Is(To(tmp), "directory")
  BY NullApart DEF OInv, TmpRight, To
<1>3. tmp # NULL => heap[tmp].kind \in {"file", "dir"}
  BY DEF OInv, TmpRight, TInv, ItemInCourse
<1>4. heap'[cur] = heap[cur]
  BY <1>1, <1>2, NullApart DEF Is
<1>5. Is(To(cur), "directory") => heap'[To(cur)].kind = "directory"
  BY <1>1, <1>3, NullApart DEF Is
<1>6. cur \in Addr
  BY <1>1 DEF Is
<1> QED BY <1>4, <1>5, <1>6, ReadsStays

\* With room nothing but a missing name or an unreadable directory stops the
\* lookup.
LEMMA MissStays ==
  ASSUME OInv, WalkRight, RoomRight, CountRight, MissRight, OpenStep, pc' \in Calling
  PROVE  MissRight'
<1>1. UNCHANGED call /\ UNCHANGED volume /\ TInv /\ heap \in Heaps
  BY OpenStepTakes, OpenStepHolds, HeapTyped DEF OInv
<1> SUFFICES ASSUME Sufficient
             PROVE  /\ (pc \in Looking /\ k > 1 => Reads(cur))'
                    /\ (pc = "next" /\ Is(tmp, "dir") => Reads(tmp))'
                    /\ (pc = "next" /\ tmp = NULL =>
                          Prefix(k) = Nowhere \/ Unreadable(Prefix(k - 1).node))'
  BY <1>1 DEF MissRight, Sufficient
<1>2. pc \in Looking /\ k > 1 => Reads(cur)
  BY DEF MissRight
<1>3. pc \in Calling \ {"next"} => ~Full
  BY NotFull
<1>4. CASE pc' \notin Looking
  BY <1>4 DEF Looking
<1>5. CASE fat16_open
  <2>1. pc' = "lookup" /\ k' = 1
    BY <1>5 DEF fat16_open, OInv, CallRight, Calling
  <2> QED BY <2>1
<1>6. CASE NotFound
  <2>1. pc = "lookup" /\ pc' = "next" /\ UNCHANGED <<heap, k, cur, tmp>>
    BY <1>6 DEF NotFound, locals
  <2>2. tmp = NULL /\ ~Found
    BY <1>3, <1>6, <2>1 DEF NotFound, Calling, Looking, OInv, TmpRight
  <2>3. Prefix(k) = Nowhere \/ Unreadable(Prefix(k - 1).node)
    BY <1>2, <2>1, <2>2, NotFoundIsMissing DEF Looking
  <2>4. (Prefix(k) = Nowhere \/ Unreadable(Prefix(k - 1).node))'
    BY <1>1, <2>1, <2>3 DEF Prefix, Unreadable
  <2>5. (k > 1 => Reads(cur))'
    BY <1>2, <2>1 DEF Looking, Reads, To, Is
  <2>6. ~Is(tmp, "dir")'
    BY <2>1, <2>2, NullApart DEF Is
  <2> QED BY <2>4, <2>5, <2>6
<1>7. CASE fat16_new_fat_item
  <2>1. pc = "lookup" /\ pc' \in {"load", "clone"} /\ UNCHANGED <<k, cur>> /\ ~Full
    BY <1>7 DEF fat16_new_fat_item
  <2>2. PICK obj : heap' = With(obj)
    BY <1>7 DEF fat16_new_fat_item
  <2>3. Fresh \in Spare
    BY <2>1, FreshIsSpare
  <2>4. \A a \in Addr \ {Fresh} : heap'[a] = heap[a]
    BY <1>1, <2>2 DEF With, Heaps
  <2>5. Fresh \in Addr /\ heap[Fresh].kind = "free"
    BY <2>3 DEF Spare
  <2> PICK f \in Addr : f = Fresh
    BY <2>5
  <2>6. k > 1 => Reads(cur)'
    BY <1>2, <2>1, <2>4, <2>5, CurrentReads DEF Looking
  <2> QED BY <2>1, <2>6
<1>8. CASE fat16_clone_directory_item
  <2>1. pc = "clone" /\ pc' = "next" /\ PointTo("clone") /\ UNCHANGED <<k, cur, tmp>> /\ ~Full
    BY <1>3, <1>8 DEF fat16_clone_directory_item, locals, Calling, Looking
  <2>2. /\ Fresh \in Addr \ {tmp} /\ heap[Fresh].kind = "free"
        /\ heap'[tmp] = Object(heap[tmp].kind, Fresh, heap[tmp].of)
        /\ \A a \in Addr \ {Fresh, tmp} : heap'[a] = heap[a]
    BY <1>1, <2>1, PointToPuts DEF Kinds
  <2> PICK f \in Addr : f = Fresh
    BY <2>2
  <2>3. k > 1 => Reads(cur)'
    BY <1>2, <2>1, <2>2, CurrentReads DEF Looking
  <2>4. tmp \in Addr /\ heap[tmp].kind = "file"
    BY <2>1 DEF OInv, TmpRight, Is
  <2>5. heap'[tmp].kind = "file"
    BY <2>2, <2>4 DEF Object
  <2>6. ~Is(tmp, "dir")' /\ tmp # NULL
    BY <2>1, <2>4, <2>5, NullApart DEF Is
  <2> QED BY <2>1, <2>3, <2>6
<1>9. CASE AllocateDirectory
  <2>1. pc = "load" /\ PointTo("directory") /\ UNCHANGED <<k, cur, tmp>> /\ ~Full /\ pc' = "entries"
    BY <1>3, <1>9 DEF AllocateDirectory, locals, Calling, Looking
  <2>2. /\ Fresh \in Addr \ {tmp} /\ heap[Fresh].kind = "free"
        /\ \A a \in Addr \ {Fresh, tmp} : heap'[a] = heap[a]
    BY <1>1, <2>1, PointToPuts DEF Kinds
  <2> PICK f \in Addr : f = Fresh
    BY <2>2
  <2>3. k > 1 => Reads(cur)'
    BY <1>2, <2>1, <2>2, CurrentReads DEF Looking
  <2> QED BY <2>1, <2>3
<1>10. CASE LoadEntries
  <2>1. pc = "entries" /\ pc' = "next" /\ UNCHANGED <<k, cur, tmp>>
    BY <1>10 DEF LoadEntries, locals
  <2> PICK f : f = Fresh
    OBVIOUS
  <2> PICK D : D = heap[tmp].to
    OBVIOUS
  <2>2. /\ f \in Addr /\ heap[f].kind = "free" /\ heap'[D].kind = "directory"
        /\ \A a \in Addr \ {f, D} : heap'[a] = heap[a]
    BY <1>10, LoadPuts
  <2>3. tmp \in Addr /\ heap[tmp].kind = "dir" /\ To(tmp) = D /\ D \in Addr /\ heap[D].kind = "directory"
    BY <2>1 DEF OInv, TmpRight, Is, To
  <2>4. k > 1 => Reads(cur)'
    BY <1>2, <2>1, <2>2, <2>3, CurrentReads DEF Looking
  <2>5. heap'[tmp] = heap[tmp]
    BY <2>2, <2>3
  <2>6. To(tmp)' = D
    BY <2>1, <2>3, <2>5 DEF To
  <2>7. Reads(tmp)'
    BY <2>2, <2>3, <2>6, NullApart DEF Reads, Is
  <2> QED BY <2>1, <2>3, <2>4, <2>7, NullApart
<1>11. CASE LoadFails
  <2>1. pc = "entries" /\ pc' = "next" /\ UNCHANGED <<k, cur, tmp>> /\ heap[tmp].of \in Broken
    BY <1>3, <1>11 DEF LoadFails, locals, Calling, Looking
  <2> PICK D : D = heap[tmp].to
    OBVIOUS
  <2>2. heap' = Without({D})
    BY <1>11 DEF LoadFails
  <2>3. tmp \in Addr /\ heap[tmp].kind = "dir" /\ To(tmp) = D /\ D \in Addr /\ heap[D].kind = "directory"
    BY <2>1 DEF OInv, TmpRight, Is, To
  <2>4. \A a \in Addr \ {D} : heap'[a] = heap[a]
    BY <2>2 DEF Without
  <2>5. \A a \in Addr \ {NULL, tmp, To(tmp)} : heap'[a] = heap[a]
    BY <2>3, <2>4
  <2>6. k > 1 => Reads(cur)'
    BY <1>2, <2>1, <2>5, CurrentReads DEF Looking
  <2>7. heap'[tmp] = heap[tmp]
    BY <2>3, <2>4
  <2>8. Reads(tmp)'
    BY <2>1, <2>3, <2>7, NullApart DEF Reads, To
  <2> QED BY <2>1, <2>3, <2>6, <2>8, NullApart
<1>12. CASE Descend
  <2>1. pc = "next" /\ pc' = "lookup" /\ Is(tmp, "dir") /\ heap' = AfterFree /\ cur' = tmp
    BY <1>12 DEF Descend
  <2>2. Reads(tmp)
    BY <2>1 DEF MissRight
  <2>3. heap'[tmp] = heap[tmp] /\ (To(tmp) \in Addr => heap'[To(tmp)] = heap[To(tmp)])
    BY <2>1, AfterFreeLeaves DEF Is
  <2> PICK i : i = tmp
    OBVIOUS
  <2>4. Reads(i)'
    BY <2>1, <2>2, <2>3, ReadsStays DEF Is
  <2>5. Reads(cur)'
    BY <2>1, <2>4 DEF Reads, Is, To
  <2> QED BY <2>1, <2>5
<1> QED BY <1>4, <1>5, <1>6, <1>7, <1>8, <1>9, <1>10, <1>11, <1>12
        DEF OpenStep, ParseRoot, ParsePart, ParseName, pparser_free_path_root, Refused, OpenFails,
            OpenSucceeds, file_new_descriptor, NoSlot, GoesWild, Return, Looking

\* Below what is not there, and below a file, there is nothing.
LEMMA NothingBelow ==
  ASSUME NEW v, NEW names \in Seq(Names), NEW j \in 1 .. Len(names),
         Walk(v, Root, SubSeq(names, 1, j)) = Nowhere
  PROVE  Walk(v, Root, names) = Nowhere
<1> PICK n : n = Len(names)
  OBVIOUS
<1> DEFINE at(i) == Walk(v, Root, SubSeq(names, 1, i))
           Bad == {i \in j .. n : at(i) # Nowhere}
<1>1. n \in Nat /\ j \in 1 .. n
  BY LenProperties
<1>2. at(n) = Walk(v, Root, names) /\ \A i \in 1 .. n : at(i) = Below(v, at(i - 1), names[i])
  <2> HIDE DEF Bad
  <2>1. at(Len(names)) = Walk(v, Root, names)
    BY WalkUnfolds
  <2>2. \A i \in 1 .. Len(names) : at(i) = Below(v, at(i - 1), names[i])
    BY WalkUnfolds
  <2> HIDE DEF at
  <2> QED BY <2>1, <2>2
<1> SUFFICES ASSUME Bad # {} PROVE FALSE
  BY <1>1, <1>2
<1>3. PICK i \in Bad : \A l \in Bad : i <= l
  <2>1. Bad \subseteq Nat
    BY <1>1
  <2> HIDE DEF Bad
  <2> QED BY <2>1, LeastExists
<1> HIDE DEF at
<1>4. i # j /\ i \in 1 .. n /\ i - 1 \in j .. n
  <2>1. at(j) = Nowhere
    BY DEF at
  <2> QED BY <1>1, <1>3, <2>1
<1>5. at(i - 1) = Nowhere
  <2>1. i - 1 \notin Bad
    BY <1>1, <1>3, <1>4
  <2> QED BY <1>4, <2>1
<1>6. at(i) = Nowhere
  BY <1>2, <1>4, <1>5 DEF Below
<1> QED BY <1>3, <1>6

\* A component that a path leads to is on the path.
LEMMA PrefixOnPath ==
  ASSUME OInv, WalkRight, pc \in Looking
  PROVE  Prefix(k - 1).node \in OnPath
<1>1. call.path.names \in Seq(Names) /\ k \in 1 .. Len(call.path.names)
  BY DEF OInv, CallRight, Calling, PathRoots
<1>2. CASE k = 1
  <2>1. Prefix(k - 1) = TheRoot
    BY <1>1, <1>2, WalkUnfolds DEF Prefix
  <2> QED BY <2>1 DEF TheRoot, OnPath
<1>3. CASE k # 1
  <2>1. k - 1 \in 1 .. Len(call.path.names) /\ k > 1
    BY <1>1, <1>3
  <2>2. Prefix(k - 1) # Nowhere
    BY <2>1 DEF WalkRight, Denotes
  <2> PICK j : j = k - 1
    OBVIOUS
  <2>3. j \in 1 .. Len(call.path.names) /\ Prefix(j) # Nowhere
    BY <2>1, <2>2
  <2>4. Prefix(j).node \in OnPath
    BY <2>3 DEF Prefix, OnPath
  <2> QED BY <2>4
<1> QED BY <1>2, <1>3

\* Where a call runs into a NULL pointer.
LEMMA WildIsMissing ==
  ASSUME OInv, WalkRight, RoomRight, CountRight, MissRight, Sufficient, GoesWild
  PROVE  MissingInside \/ \E n \in OnPath : Unreadable(n)
<1>1. pc \in Calling \ {"next"} => ~Full
  BY NotFull
<1>2. pc = "next" /\ ~Last /\ k > 1 /\ tmp = NULL
  <2>1. pc \notin {"root", "part", "name", "descriptor"} \/ ~Full
    BY <1>1 DEF Calling, Looking
  <2>2. ~(pc = "lookup" /\ k > 1 /\ To(cur) = NULL)
    BY DEF MissRight, Looking, Reads
  <2> QED BY <2>1, <2>2 DEF GoesWild, ThroughNull
<1>3. k \in 2 .. (Len(call.path.names) - 1)
  <2>1. k \in 1 .. Len(call.path.names) /\ Len(call.path.names) \in Nat
    BY <1>2, PathRootNames DEF OInv, CallRight, Calling, Looking
  <2> QED BY <1>2, <2>1 DEF Last
<1>4. CASE Prefix(k) = Nowhere
  BY <1>3, <1>4 DEF MissingInside, Prefix
<1>5. CASE Unreadable(Prefix(k - 1).node)
  BY <1>2, <1>5, PrefixOnPath DEF Looking
<1> QED BY <1>2, <1>4, <1>5 DEF MissRight

\* Where a call of fopen with room fails although there is a free slot.
LEMMA FailIsMissing ==
  ASSUME OInv, WalkRight, MissRight, Sufficient, OpenFails
  PROVE  Denoted = Nowhere \/ \E n \in OnPath : Unreadable(n)
<1>1. pc = "next" /\ (tmp = NULL \/ (~Last /\ Is(tmp, "file")))
  BY DEF OpenFails
<1>2. call.path.names \in Seq(Names) /\ k \in 1 .. Len(call.path.names)
  BY <1>1 DEF OInv, CallRight, Calling, Looking, PathRoots
<1>3. ASSUME NEW j \in 1 .. Len(call.path.names), Prefix(j) = Nowhere
      PROVE  Denoted = Nowhere
  BY <1>2, <1>3, NothingBelow DEF Prefix, Denoted
<1>4. CASE tmp = NULL
  <2>1. CASE Prefix(k) = Nowhere
    BY <1>2, <1>3, <2>1
  <2>2. CASE Unreadable(Prefix(k - 1).node)
    BY <1>1, <2>2, PrefixOnPath DEF Looking
  <2> QED BY <1>1, <1>4, <2>1, <2>2 DEF MissRight
<1>5. CASE ~Last /\ Is(tmp, "file")
  <2>1. Denotes(Prefix(k), tmp) /\ heap[tmp].kind = "file"
    BY <1>1, <1>5, NullApart DEF WalkRight, Looking, Is
  <2>2. ~Prefix(k).subdirectory
    BY <2>1 DEF Denotes
  <2>3. k + 1 \in 1 .. Len(call.path.names) /\ (k + 1) - 1 = k
    <3>1. Len(call.path.names) \in Nat
      BY <1>2, LenProperties
    <3> QED BY <1>2, <1>5, <3>1 DEF Last
  <2> PICK j : j = k + 1
    OBVIOUS
  <2>4. j \in 1 .. Len(call.path.names) /\ j - 1 = k
    BY <2>3
  <2>5. Prefix(j) = Below(volume, Prefix(j - 1), call.path.names[j])
    <3>1. \A i \in 1 .. Len(call.path.names) :
            Prefix(i) = Below(volume, Prefix(i - 1), call.path.names[i])
      BY <1>2, WalkUnfolds DEF Prefix
    <3> QED BY <2>4, <3>1
  <2>6. Prefix(j) = Nowhere
    BY <2>2, <2>4, <2>5 DEF Below
  <2> QED BY <1>3, <2>4, <2>6
<1> QED BY <1>1, <1>4, <1>5

\* The property of a call that returns, from what is known before it does.
LEMMA ReturnFinds ==
  ASSUME UNCHANGED <<volume, call, mounted, table>>,
         /\ call.op = "fopen" /\ ret' = 0 /\ mounted
         /\ call.mode = "r" /\ call.path.parses /\ call.path.drive = 0
         /\ Sufficient /\ Slots # {}
         => Denoted = Nowhere \/ \E n \in OnPath : Unreadable(n)
  PROVE  FoundIfNoneDeleted'
<1>1. Denoted' = Denoted /\ OnPath' = OnPath /\ Slots' = Slots /\ Sufficient' = Sufficient
  BY DEF Denoted, OnPath, Slots, Sufficient
<1>2. (\E n \in OnPath : Unreadable(n))
        => (\E n \in OnPath : n \in Broken \/ HasDeleted(volume[n]))'
  BY <1>1 DEF Unreadable
<1> QED BY <1>1, <1>2 DEF FoundIfNoneDeleted, FoundIfThere

\* How the calls return that do not issue a descriptor.
LEMMA FailsFound ==
  ASSUME RInv, ParseRoot \/ pparser_free_path_root \/ Refused \/ OpenFails \/ NoSlot, pc' = "idle"
  PROVE  FoundIfNoneDeleted'
<1>1. OInv /\ WalkRight /\ RoomRight /\ CountRight /\ MissRight
  BY DEF RInv, WInv
<1>2. UNCHANGED <<volume, call, mounted, table>>
  BY DEF ParseRoot, Parse, pparser_free_path_root, Refused, OpenFails, NoSlot
<1>3. CASE ParseRoot
  <2>1. ~call.path.parses
    BY <1>3 DEF ParseRoot
  <2> QED BY <1>2, <2>1, ReturnFinds
<1>4. CASE pparser_free_path_root
  <2>1. call.op # "fopen"
    BY <1>4 DEF pparser_free_path_root
  <2> QED BY <1>2, <2>1, ReturnFinds
<1>5. CASE Refused
  <2>1. pc = "resolve" /\ (call.path.drive # 0 \/ ~mounted \/ call.mode # "r" \/ Full)
    BY <1>5 DEF Refused
  <2>2. Sufficient => ~Full
    BY <1>1, <2>1, NotFull DEF Calling
  <2> QED BY <1>2, <2>1, <2>2, ReturnFinds
<1>6. CASE OpenFails
  <2>1. Sufficient => Denoted = Nowhere \/ \E n \in OnPath : Unreadable(n)
    BY <1>1, <1>6, FailIsMissing
  <2> QED BY <1>2, <2>1, ReturnFinds
<1>7. CASE NoSlot
  <2>1. Slots = {}
    BY <1>7 DEF NoSlot
  <2> QED BY <1>2, <2>1, ReturnFinds
<1> QED BY <1>3, <1>4, <1>5, <1>6, <1>7

LEMMA RoomInitially == Init => RInv
<1> SUFFICES ASSUME Init PROVE RInv
  OBVIOUS
<1> QED BY WalkInitially
        DEF Init, RInv, RoomRight, CountRight, MissRight, SafeWithRoom, FoundIfNoneDeleted,
            FoundIfThere, Calling, Looking

LEMMA RoomNext ==
  ASSUME RInv, WInv', [Next]_vars
  PROVE  RInv'
<1>1. /\ WInv /\ OInv /\ TInv /\ TInv' /\ WalkRight
      /\ RoomRight /\ CountRight /\ MissRight /\ SafeWithRoom /\ FoundIfNoneDeleted
      /\ (pc = "boot" => call.op = "other")
  BY DEF RInv, WInv, OInv
<1>2. ASSUME pc' \notin Calling, SafeWithRoom', FoundIfNoneDeleted'
      PROVE  RInv'
  BY <1>2 DEF RInv, RoomRight, CountRight, MissRight, Calling, Looking
<1>3. ASSUME pc' \notin Calling, call'.op = "other"
      PROVE  RInv'
  <2>1. SafeWithRoom' /\ FoundIfNoneDeleted'
    BY <1>3 DEF SafeWithRoom, FoundIfNoneDeleted, FoundIfThere
  <2> QED BY <1>2, <1>3, <2>1
<1>4. CASE Mount
  <2>1. PICK ours \in BOOLEAN : fat16_resolve(ours)
    BY <1>4 DEF Mount
  <2>2. pc = "boot" /\ pc' = "idle" /\ UNCHANGED call
    BY <2>1 DEF fat16_resolve
  <2> QED BY <1>1, <1>3, <2>2 DEF Calling, Looking
<1>5. CASE OpenStep /\ pc' \in Calling
  <2>1. StepTakes /\ pc \in Calling /\ UNCHANGED call
    BY <1>1, <1>5, OpenStepTakes
  <2>2. RoomRight'
    <3>1. PICK S, N : S \subseteq Addr /\ Changes(S, N) /\ (Mine \ S) \cup N \subseteq Mine'
      BY <2>1 DEF StepTakes
    <3> QED BY <1>1, <2>1, <3>1, RoomStays
  <2>3. CountRight'
    BY <1>1, <1>5, CountStays
  <2>4. MissRight'
    BY <1>1, <1>5, MissStays
  <2>5. pc' \notin {"idle", "wild"}
    BY <1>5 DEF Calling, Looking
  <2>6. SafeWithRoom' /\ FoundIfNoneDeleted'
    BY <2>5 DEF SafeWithRoom, FoundIfNoneDeleted, FoundIfThere
  <2> QED BY <2>2, <2>3, <2>4, <2>6 DEF RInv
<1>6. CASE OpenStep /\ pc' \notin Calling
  <2>1. \/ file_new_descriptor \/ OpenFails \/ NoSlot \/ GoesWild
        \/ ParseRoot \/ pparser_free_path_root \/ Refused
    BY <1>6 DEF OpenStep, ParsePart, ParseName, fat16_open, NotFound, fat16_new_fat_item,
                fat16_clone_directory_item, AllocateDirectory, LoadEntries, LoadFails, Descend,
                OpenSucceeds, Calling, Looking
  <2>2. CASE GoesWild
    <3>1. pc' = "wild" /\ UNCHANGED <<volume, call>>
      BY <2>2 DEF GoesWild
    <3>2. Sufficient => MissingInside \/ \E n \in OnPath : Unreadable(n)
      BY <1>1, <2>2, WildIsMissing
    <3>3. Sufficient' = Sufficient /\ MissingInside' = MissingInside /\ OnPath' = OnPath
      BY <3>1 DEF Sufficient, MissingInside, OnPath
    <3>4. SafeWithRoom'
      BY <3>1, <3>2, <3>3 DEF SafeWithRoom, Unreadable
    <3>5. FoundIfNoneDeleted'
      BY <3>1 DEF FoundIfNoneDeleted, FoundIfThere
    <3> QED BY <1>2, <1>6, <3>4, <3>5
  <2>3. CASE file_new_descriptor
    <3>1. pc' = "idle" /\ ret' = FreeSlot /\ Slots # {}
      BY <2>3 DEF file_new_descriptor, Return
    <3>2. FreeSlot \in 1 .. MAX_FILEDESCRIPTORS
      BY <3>1, FreeSlotIsSlot DEF Slots, Descriptors
    <3>3. ret' # 0
      BY <3>1, <3>2, FilesAssumption
    <3>4. SafeWithRoom' /\ FoundIfNoneDeleted'
      BY <3>1, <3>3 DEF SafeWithRoom, FoundIfNoneDeleted, FoundIfThere
    <3> QED BY <1>2, <1>6, <3>4
  <2>4. CASE ParseRoot \/ pparser_free_path_root \/ Refused \/ OpenFails \/ NoSlot
    <3>1. pc' = "idle"
      BY <1>6, <2>4 DEF ParseRoot, pparser_free_path_root, Refused, OpenFails, NoSlot, Return,
                        Calling, Looking
    <3>2. SafeWithRoom'
      BY <3>1 DEF SafeWithRoom
    <3> QED BY <1>2, <1>6, <2>4, <3>1, <3>2, FailsFound
  <2> QED BY <2>1, <2>2, <2>3, <2>4
<1>7. CASE Opening
  <2>1. /\ pc' = "root" /\ UNCHANGED heap /\ parsed' = {} /\ k' = 1
        /\ call'.room = Cardinality(Spare)
    BY <1>7 DEF Opening, demo_pparser, fopen, Start
  <2>2. Spare' = Spare /\ Mine' = {}
    BY <2>1 DEF Spare, Mine, Looking
  <2>3. RoomRight'
    <3>1. Spare' \cup Mine' = Spare
      BY <2>2
    <3>2. Cardinality(Spare) \in Nat
      BY SpareCounted, FilesAssumption
    <3> QED BY <2>1, <3>1, <3>2 DEF RoomRight
  <2> QED BY <2>1, <2>3 DEF RInv, CountRight, MissRight, SafeWithRoom, FoundIfNoneDeleted,
                            FoundIfThere, Calling, Looking
<1>8. CASE Using
  <2>1. PICK fd \in {0} \cup Descriptors :
          \/ fclose(fd)
          \/ \E op \in Calls \ {"fclose"} : Served(op, fd)
          \/ \E op \in Calls : Rejected(op, fd) \/ UseGoesWild(op, fd)
    BY <1>8 DEF Using
  <2>2. pc' \in {"idle", "wild"} /\ call'.op = "other"
    BY <2>1 DEF Served, Rejected, UseGoesWild, fclose, Return, Use, Start
  <2> QED BY <1>3, <2>2 DEF Calling, Looking
<1>9. CASE UNCHANGED vars
  <2>1. UNCHANGED <<volume, mounted, heap, table, pc, call, parsed, k, fatd, cur, tmp, ret>>
    BY <1>9 DEF vars, locals
  <2>2. Mine' = Mine /\ Spare' = Spare
    BY <2>1 DEF Mine, ItemBlocks, To, Spare
  <2>3. /\ Sufficient' = Sufficient /\ MissingInside' = MissingInside /\ OnPath' = OnPath
        /\ Denoted' = Denoted /\ Slots' = Slots
    BY <2>1 DEF Sufficient, MissingInside, OnPath, Denoted, Slots
  <2>4. RoomRight' /\ CountRight'
    BY <1>1, <2>1, <2>2 DEF RoomRight, CountRight
  <2>5. MissRight'
    BY <1>1, <2>1, <2>3 DEF MissRight, Reads, Is, To, Prefix, Unreadable
  <2>6. SafeWithRoom' /\ FoundIfNoneDeleted'
    BY <1>1, <2>1, <2>3 DEF SafeWithRoom, FoundIfNoneDeleted, FoundIfThere
  <2> QED BY <2>4, <2>5, <2>6 DEF RInv
<1> QED BY <1>4, <1>5, <1>6, <1>7, <1>8, <1>9 DEF Next

LEMMA RoomKnown == NoneEmpty /\ OneOfEachName /\ Spec => []RInv
<1>1. RInv /\ WInv' /\ [Next]_vars => RInv'
  BY RoomNext
<1> QED BY <1>1, RoomInitially, Walked, PTL DEF Spec

\* As long as 2n + 8 blocks are free when it begins, a call of fopen with a
\* path of n components never runs into a NULL pointer, unless a component in
\* the middle is missing, or a directory on the path has a deleted entry or
\* cannot be read.
THEOREM RoomIsEnough == NoneEmpty /\ OneOfEachName /\ Spec => []SafeWithRoom
<1>1. RInv => SafeWithRoom
  BY DEF RInv
<1> QED BY <1>1, RoomKnown, PTL

\* With that room and a free descriptor, fopen opens every path that denotes
\* something, unless a directory on the path has a deleted entry or cannot be
\* read.
THEOREM OpensWhatIsThere == NoneEmpty /\ OneOfEachName /\ Spec => []FoundIfNoneDeleted
<1>1. RInv => FoundIfNoneDeleted
  BY DEF RInv
<1> QED BY <1>1, RoomKnown, PTL

-----------------------------------------------------------------------------
(* The variant: every call returns, on every volume, or goes wild.         *)

\* What the steps of a call count.
InCourse ==
  /\ pc \in Calling => call.path \in PathRoots /\ k \in 1 .. Len(call.path.names)
  /\ pc = "root" => call.op \in {"fopen", "demo_pparser"}
  /\ pc \in {"root", "resolve"} => k = 1

LEMMA CallStarts ==
  ASSUME NEW path, Start("fopen", path, call'.mode) \/ Start("demo_pparser", path, "r"),
         path \in PathRoots, pc' = "root"
  PROVE  InCourse'
<1>1. /\ call'.path = path /\ call'.op \in {"fopen", "demo_pparser"} /\ k' = 1
      /\ pc' = "root"
  BY DEF Start
<1>2. Len(path.names) \in Nat /\ Len(path.names) >= 1
  BY PathRootNames
<1>3. k' \in 1 .. Len(call'.path.names)
  BY <1>1, <1>2
<1> QED BY <1>1, <1>3 DEF InCourse

\* Where each step of a call goes, and which component it goes to.
LEMMA Moves ==
  ASSUME OpenStep
  PROVE  /\ call' = call /\ pc \in Calling
         /\ \/ pc' \in {"idle", "wild"}
            \/ pc = "root" /\ pc' = "part" /\ k' = k
            \/ pc = "part" /\ pc' = "name" /\ k' = k
            \/ pc = "name" /\ pc' = "part" /\ k < Len(call.path.names) /\ k' = k + 1
            \/ pc = "name" /\ pc' = "resolve" /\ k' = 1
            \/ pc = "resolve" /\ pc' = "lookup" /\ k' = k
            \/ pc = "lookup" /\ pc' \in {"next", "load", "clone"} /\ k' = k
            \/ pc = "load" /\ pc' \in {"next", "entries"} /\ k' = k
            \/ pc \in {"clone", "entries"} /\ pc' = "next" /\ k' = k
            \/ pc = "next" /\ pc' = "lookup" /\ k # Len(call.path.names) /\ k' = k + 1
            \/ pc = "next" /\ pc' = "descriptor" /\ k' = k
<1>1. CASE ParseRoot \/ ParsePart \/ ParseName
  BY <1>1 DEF ParseRoot, ParsePart, ParseName, Parse, Return, Calling
<1>2. CASE pparser_free_path_root \/ Refused \/ fat16_open
  BY <1>2 DEF pparser_free_path_root, Refused, fat16_open, Return, Calling
<1>3. CASE NotFound \/ fat16_new_fat_item \/ fat16_clone_directory_item
  BY <1>3 DEF NotFound, fat16_new_fat_item, fat16_clone_directory_item, locals,
              Calling, Looking
<1>4. CASE AllocateDirectory \/ LoadEntries \/ LoadFails
  BY <1>4 DEF AllocateDirectory, LoadEntries, LoadFails, locals, Calling, Looking
<1>5. CASE Descend \/ OpenFails \/ OpenSucceeds
  BY <1>5 DEF Descend, OpenFails, OpenSucceeds, Last, Return, locals, Calling, Looking
<1>6. CASE file_new_descriptor \/ NoSlot \/ GoesWild
  BY <1>6 DEF file_new_descriptor, NoSlot, GoesWild, ThroughNull, Return, Calling, Looking
<1> QED BY <1>1, <1>2, <1>3, <1>4, <1>5, <1>6 DEF OpenStep

\* A component of the path that is not the last has one after it.
LEMMA NextComponent ==
  ASSUME NEW n \in Nat, NEW c \in 1 .. n, c < n \/ c # n
  PROVE  c + 1 \in 1 .. n
OBVIOUS

LEMMA InCourseNext == InCourse /\ [Next]_vars => InCourse'
<1> SUFFICES ASSUME InCourse, [Next]_vars PROVE InCourse'
  OBVIOUS
<1>1. CASE OpenStep
  <2>1. /\ call' = call /\ call.path \in PathRoots
        /\ k \in 1 .. Len(call.path.names) /\ Len(call.path.names) \in Nat
    BY <1>1, Moves, PathRootNames DEF InCourse
  <2>2. CASE pc' \in {"idle", "wild"}
    BY <2>2 DEF InCourse, Calling, Looking
  <2>3. CASE pc' = "resolve" /\ k' = 1
    BY <2>1, <2>3 DEF InCourse
  <2>4. CASE k' = k /\ pc' \notin {"root", "resolve"}
    BY <2>1, <2>4 DEF InCourse
  <2>5. CASE /\ k < Len(call.path.names) \/ k # Len(call.path.names)
             /\ k' = k + 1 /\ pc' \in {"part", "lookup"}
    <3>1. k' \in 1 .. Len(call.path.names)
      BY <2>1, <2>5, NextComponent
    <3> QED BY <2>1, <2>5, <3>1 DEF InCourse
  <2> QED BY <1>1, <2>2, <2>3, <2>4, <2>5, Moves
<1>2. ASSUME NEW p \in DemoPaths, demo_pparser(p) PROVE InCourse'
  <2>1. p \in PathRoots
    BY FilesAssumption
  <2> QED BY <1>2, <2>1, CallStarts DEF demo_pparser
<1>3. ASSUME NEW r \in Requests, fopen(r.path, r.mode) PROVE InCourse'
  <2>1. r.path \in PathRoots
    BY FilesAssumption
  <2>2. Start("fopen", r.path, call'.mode) /\ pc' = "root"
    BY <1>3 DEF fopen, Start
  <2> QED BY <2>1, <2>2, CallStarts
<1>4. CASE Mount \/ Using
  <2>1. pc' \in {"idle", "wild"}
    BY <1>4 DEF Mount, fat16_resolve, Using, Served, Rejected, UseGoesWild, fclose,
                Return, Use, Start
  <2> QED BY <2>1 DEF InCourse, Calling, Looking
<1>5. CASE UNCHANGED vars
  BY <1>5 DEF vars, locals, InCourse
<1> QED BY <1>1, <1>2, <1>3, <1>4, <1>5 DEF Next, Opening

LEMMA StepAdvances ==
  ASSUME InCourse, OpenStep
  PROVE  StepsLeft' \in 0 .. (StepsLeft - 1)
<1>1. PICK n : n = Len(call.path.names)
  OBVIOUS
<1>2. PICK c : c = k
  OBVIOUS
<1>3. /\ n \in Nat /\ c \in 1 .. n
      /\ pc \in {"root", "resolve"} => c = 1
      /\ pc \in Calling
  BY <1>1, <1>2, Moves, PathRootNames DEF InCourse
<1>4. Len(call'.path.names) = n
  BY <1>1, Moves
<1>5. StepsLeft =
        CASE pc = "root"                -> 6 * n + 3
          [] pc = "part"                -> 4 * n + 2 * (n - c) + 4
          [] pc = "name"                -> 4 * n + 2 * (n - c) + 3
          [] pc = "resolve"             -> 4 * n + 2
          [] pc = "lookup"              -> 4 * (n - c) + 5
          [] pc = "load"                -> 4 * (n - c) + 4
          [] pc \in {"clone", "entries"} -> 4 * (n - c) + 3
          [] pc = "next"                -> 4 * (n - c) + 2
          [] pc = "descriptor"          -> 1
          [] OTHER                      -> 0
  BY <1>1, <1>2 DEF StepsLeft
<1>6. StepsLeft' =
        CASE pc' = "root"                -> 6 * n + 3
          [] pc' = "part"                -> 4 * n + 2 * (n - k') + 4
          [] pc' = "name"                -> 4 * n + 2 * (n - k') + 3
          [] pc' = "resolve"             -> 4 * n + 2
          [] pc' = "lookup"              -> 4 * (n - k') + 5
          [] pc' = "load"                -> 4 * (n - k') + 4
          [] pc' \in {"clone", "entries"} -> 4 * (n - k') + 3
          [] pc' = "next"                -> 4 * (n - k') + 2
          [] pc' = "descriptor"          -> 1
          [] OTHER                       -> 0
  BY <1>4 DEF StepsLeft
<1> HIDE DEF StepsLeft
<1>7. n - c \in Nat /\ n >= 1
  BY <1>3
<1>8. CASE pc' \in {"idle", "wild"}
  <2>1. StepsLeft' = 0
    BY <1>6, <1>8
  <2>2. StepsLeft \in Nat /\ StepsLeft > 0
    BY <1>3, <1>5, <1>7 DEF Calling, Looking
  <2> QED BY <2>1, <2>2
<1>9. CASE pc = "root" /\ pc' = "part" /\ k' = k
  <2>1. StepsLeft = 6 * n + 3 /\ StepsLeft' = 4 * n + 2 * (n - 1) + 4
    BY <1>2, <1>3, <1>5, <1>6, <1>9
  <2> QED BY <1>7, <1>3, <2>1
<1>10. CASE pc = "part" /\ pc' = "name" /\ k' = k
  <2>1. StepsLeft = 4 * n + 2 * (n - c) + 4 /\ StepsLeft' = 4 * n + 2 * (n - c) + 3
    BY <1>2, <1>5, <1>6, <1>10
  <2> QED BY <1>3, <1>7, <2>1
<1>11. CASE pc = "name" /\ pc' = "part" /\ k < Len(call.path.names) /\ k' = k + 1
  <2>1. /\ StepsLeft = 4 * n + 2 * (n - c) + 3 /\ StepsLeft' = 4 * n + 2 * (n - (c + 1)) + 4
        /\ c < n
    BY <1>1, <1>2, <1>5, <1>6, <1>11
  <2> QED BY <1>3, <1>7, <2>1
<1>12. CASE pc = "name" /\ pc' = "resolve"
  <2>1. StepsLeft = 4 * n + 2 * (n - c) + 3 /\ StepsLeft' = 4 * n + 2
    BY <1>5, <1>6, <1>12
  <2> QED BY <1>3, <1>7, <2>1
<1>13. CASE pc = "resolve" /\ pc' = "lookup" /\ k' = k
  <2>1. StepsLeft = 4 * n + 2 /\ StepsLeft' = 4 * (n - 1) + 5
    BY <1>2, <1>3, <1>5, <1>6, <1>13
  <2> QED BY <1>3, <1>7, <2>1
<1>14. CASE pc = "lookup" /\ pc' \in {"next", "load", "clone"} /\ k' = k
  <2>1. /\ StepsLeft = 4 * (n - c) + 5
        /\ StepsLeft' \in {4 * (n - c) + 4, 4 * (n - c) + 3, 4 * (n - c) + 2}
    BY <1>2, <1>5, <1>6, <1>14
  <2> QED BY <1>7, <2>1
<1>15. CASE pc = "load" /\ pc' \in {"next", "entries"} /\ k' = k
  <2>1. /\ StepsLeft = 4 * (n - c) + 4
        /\ StepsLeft' \in {4 * (n - c) + 3, 4 * (n - c) + 2}
    BY <1>2, <1>5, <1>6, <1>15
  <2> QED BY <1>7, <2>1
<1>16. CASE pc \in {"clone", "entries"} /\ pc' = "next" /\ k' = k
  <2>1. StepsLeft = 4 * (n - c) + 3 /\ StepsLeft' = 4 * (n - c) + 2
    BY <1>2, <1>5, <1>6, <1>16
  <2> QED BY <1>7, <2>1
<1>17. CASE pc = "next" /\ pc' = "lookup" /\ k # Len(call.path.names) /\ k' = k + 1
  <2>1. /\ StepsLeft = 4 * (n - c) + 2 /\ StepsLeft' = 4 * (n - (c + 1)) + 5
        /\ c # n
    BY <1>1, <1>2, <1>5, <1>6, <1>17
  <2> QED BY <1>3, <1>7, <2>1
<1>18. CASE pc = "next" /\ pc' = "descriptor"
  <2>1. StepsLeft = 4 * (n - c) + 2 /\ StepsLeft' = 1
    BY <1>5, <1>6, <1>18
  <2> QED BY <1>7, <2>1
<1> QED
  BY <1>8, <1>9, <1>10, <1>11, <1>12, <1>13, <1>14, <1>15, <1>16, <1>17, <1>18, Moves

\* On every volume, whatever its directories contain, and for every path: a
\* step of fopen or of the parser leaves fewer than there were, so that a call
\* with a path of n components returns, or goes wild, within 6n + 3 steps.
THEOREM EveryCallAdvances == Spec => CallsAdvance
<1>1. Init => InCourse
  BY DEF Init, InCourse, Calling, Looking
<1>2. InCourse /\ [Next]_vars =>
        [pc \notin {"boot", "idle", "wild"} => StepsLeft' \in 0 .. (StepsLeft - 1)]_vars
  <2> SUFFICES ASSUME InCourse, Next, pc \notin {"boot", "idle", "wild"}
               PROVE  StepsLeft' \in 0 .. (StepsLeft - 1)
    OBVIOUS
  <2>1. OpenStep
    BY DEF Next, Mount, fat16_resolve, Opening, demo_pparser, fopen, Using, Served,
           Rejected, UseGoesWild, fclose, Use, Start
  <2> QED BY <2>1, StepAdvances
<1> QED BY <1>1, <1>2, InCourseNext, PTL DEF Spec, CallsAdvance

=============================================================================
