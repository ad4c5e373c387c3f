-------------------------- MODULE Fat16FileProofs --------------------------
(***************************************************************************)
(* Proofs about reading a file, for every geometry, table, file and read.  *)
(***************************************************************************)
EXTENDS Fat16File, Arithmetic, SequenceTheorems, TLAPS

-----------------------------------------------------------------------------
(* The chain of a file, which is defined by recursion: induction takes the *)
(* form of a least counterexample.                                         *)

\* The cluster after one of a chain.
After(f, c) == IF is_readable_cluster(c) THEN fat16_get_fat_entry(f, c) ELSE c

\* The first n + 1 clusters of a chain.
IsChain(g, f, first, n) ==
  g = [m \in 0 .. n |-> IF m = 0 THEN first ELSE After(f, g[m - 1])]

LEMMA ChainsExist ==
  ASSUME NEW f, NEW first, NEW n \in Nat
  PROVE  \E g : IsChain(g, f, first, n)
<1> DEFINE Bad == {k \in Nat : ~ \E g : IsChain(g, f, first, k)}
<1> SUFFICES Bad = {}
  OBVIOUS
<1> SUFFICES ASSUME Bad # {} PROVE FALSE
  OBVIOUS
<1>1. PICK k \in Bad : \A j \in Bad : k <= j
  <2>1. Bad \subseteq Nat
    OBVIOUS
  <2> HIDE DEF Bad
  <2> QED BY <2>1, LeastExists
<1>2. k # 0
  <2>1. IsChain([m \in 0 .. 0 |-> first], f, first, 0)
    BY DEF IsChain
  <2> QED BY <2>1, <1>1
<1>3. PICK g : IsChain(g, f, first, k - 1)
  <2>1. k - 1 \in Nat /\ k - 1 \notin Bad
    BY <1>1, <1>2
  <2> QED BY <2>1
<1> DEFINE h == [m \in 0 .. k |-> IF m < k THEN g[m] ELSE After(f, g[k - 1])]
<1>4. \A m \in 0 .. k : h[m] = IF m = 0 THEN first ELSE After(f, h[m - 1])
  <2> TAKE m \in 0 .. k
  <2>1. CASE m = 0
    BY <1>1, <1>2, <1>3, <2>1 DEF IsChain
  <2>2. CASE m # 0 /\ m < k
    BY <1>1, <1>2, <1>3, <2>2 DEF IsChain
  <2>3. CASE m = k
    BY <1>1, <1>2, <2>3
  <2> QED BY <1>1, <2>1, <2>2, <2>3
<1>5. IsChain(h, f, first, k)
  <2>1. h = [m \in 0 .. k |-> h[m]]
    OBVIOUS
  <2> HIDE DEF h
  <2> QED BY <1>4, <2>1 DEF IsChain
<1> QED BY <1>1, <1>5

LEMMA ChainsAgree ==
  ASSUME NEW f, NEW first, NEW n \in Nat, NEW k \in 0 .. n, NEW g, NEW h,
         IsChain(g, f, first, k), IsChain(h, f, first, n)
  PROVE  g[k] = h[k]
<1> DEFINE Bad == {m \in 0 .. k : g[m] # h[m]}
<1> SUFFICES ASSUME Bad # {} PROVE FALSE
  OBVIOUS
<1>1. PICK m \in Bad : \A j \in Bad : m <= j
  <2>1. Bad \subseteq Nat
    OBVIOUS
  <2> HIDE DEF Bad
  <2> QED BY <2>1, LeastExists
<1>2. /\ g[m] = IF m = 0 THEN first ELSE After(f, g[m - 1])
      /\ h[m] = IF m = 0 THEN first ELSE After(f, h[m - 1])
  BY <1>1 DEF IsChain
<1>3. CASE m = 0
  BY <1>1, <1>2, <1>3
<1>4. CASE m # 0
  <2>1. m - 1 \in 0 .. k /\ m - 1 \notin Bad
    BY <1>1, <1>4
  <2> QED BY <1>1, <1>2, <1>4, <2>1
<1> QED BY <1>3, <1>4

\* What the recursion of ClusterAt computes: the file's first cluster, and
\* then from each readable one what the table says.
THEOREM ChainSteps ==
  ASSUME NEW f, NEW first
  PROVE  /\ ClusterAt(f, first, 0) = first
         /\ \A n \in Nat :
              ClusterAt(f, first, n + 1) = After(f, ClusterAt(f, first, n))
<1> DEFINE Part(n) == CHOOSE g : IsChain(g, f, first, n)
           whole == [n \in Nat |-> Part(n)[n]]
           IsWhole(w) ==
             w = [m \in Nat |-> IF m = 0
                                  THEN first
                                  ELSE IF is_readable_cluster(w[m - 1])
                                         THEN fat16_get_fat_entry(f, w[m - 1])
                                         ELSE w[m - 1]]
<1>1. \A n \in Nat : IsChain(Part(n), f, first, n)
  BY ChainsExist
<1>2. \A n \in Nat :
        whole[n] = IF n = 0 THEN first ELSE After(f, whole[n - 1])
  <2> TAKE n \in Nat
  <2>1. Part(n)[n] = IF n = 0 THEN first ELSE After(f, Part(n)[n - 1])
    <3>1. IsChain(Part(n), f, first, n)
      BY <1>1
    <3> HIDE DEF Part
    <3> QED BY <3>1 DEF IsChain
  <2>2. CASE n = 0
    BY <2>1, <2>2
  <2>3. CASE n # 0
    <3>1. n - 1 \in Nat /\ n - 1 \in 0 .. n
      BY <2>3
    <3>2. Part(n - 1)[n - 1] = Part(n)[n - 1]
      <4>1. IsChain(Part(n), f, first, n) /\ IsChain(Part(n - 1), f, first, n - 1)
        BY <1>1, <3>1
      <4> HIDE DEF Part
      <4> QED BY <3>1, <4>1, ChainsAgree
    <3> HIDE DEF Part
    <3> QED BY <2>1, <2>3, <3>1, <3>2
  <2> QED BY <2>2, <2>3
<1>3. IsWhole(whole)
  <2>1. whole = [n \in Nat |-> whole[n]]
    OBVIOUS
  <2> HIDE DEF whole
  <2> QED BY <1>2, <2>1 DEF After
<1> DEFINE w == CHOOSE x : IsWhole(x)
<1>4. IsWhole(w)
  <2> HIDE DEF whole, IsWhole
  <2> QED BY <1>3
<1>5. \A n \in Nat : ClusterAt(f, first, n) = w[n]
  BY DEF ClusterAt
<1>6. \A n \in Nat : w[n] = IF n = 0 THEN first ELSE After(f, w[n - 1])
  <2> HIDE DEF w
  <2> QED BY <1>4 DEF After
<1> HIDE DEF w
<1>7. ClusterAt(f, first, 0) = first
  BY <1>5, <1>6
<1>8. \A n \in Nat : ClusterAt(f, first, n + 1) = After(f, ClusterAt(f, first, n))
  <2> TAKE n \in Nat
  <2>1. n + 1 \in Nat /\ n + 1 # 0 /\ (n + 1) - 1 = n
    OBVIOUS
  <2>2. w[n + 1] = After(f, w[n])
    BY <1>6, <2>1
  <2> QED BY <1>5, <2>1, <2>2
<1> QED BY <1>7, <1>8

-----------------------------------------------------------------------------
(* Division *)

LEMMA DivMod ==
  ASSUME NEW a \in Nat, NEW b \in Nat \ {0}
  PROVE  /\ a \div b \in Nat
         /\ a % b \in 0 .. (b - 1)
         /\ a = b * (a \div b) + (a % b)
BY SMT

LEMMA DivUnique ==
  ASSUME NEW b \in Nat \ {0}, NEW q \in Nat, NEW r \in 0 .. (b - 1)
  PROVE  (b * q + r) \div b = q /\ (b * q + r) % b = r
<1> DEFINE a == b * q + r
           p == a \div b
           s == a % b
<1>1. a \in Nat
  BY SMT
<1>2. p \in Nat /\ s \in 0 .. (b - 1) /\ a = b * p + s
  BY <1>1, DivMod
<1>3. b * q + r = b * p + s
  BY <1>2
<1> HIDE DEF a, p, s
<1>4. p = q
  <2>1. ASSUME p < q PROVE FALSE
    <3>1. q - p - 1 \in Nat /\ b * (q - p - 1) \in Nat
      BY <1>2, <2>1, SMT
    <3>2. b * q = b * p + b + b * (q - p - 1)
      BY <1>2, SMT
    <3> QED BY <1>2, <1>3, <3>1, <3>2, SMT
  <2>2. ASSUME q < p PROVE FALSE
    <3>1. p - q - 1 \in Nat /\ b * (p - q - 1) \in Nat
      BY <1>2, <2>2, SMT
    <3>2. b * p = b * q + b + b * (p - q - 1)
      BY <1>2, SMT
    <3> QED BY <1>2, <1>3, <3>1, <3>2, SMT
  <2> QED BY <1>2, <2>1, <2>2
<1>5. s = r
  BY <1>2, <1>3, <1>4, SMT
<1> QED BY <1>4, <1>5 DEF a, p, s

\* A step within a block, and one to its end.
LEMMA DivStep ==
  ASSUME NEW b \in Nat \ {0}, NEW a \in Nat, NEW m \in Nat
  PROVE  /\ (a % b) + m < b => /\ (a + m) \div b = a \div b
                             /\ (a + m) % b = (a % b) + m
         /\ (a % b) + m = b => /\ (a + m) \div b = a \div b + 1
                             /\ (a + m) % b = 0
<1>1. a \div b \in Nat /\ a % b \in 0 .. (b - 1) /\ a = b * (a \div b) + (a % b)
  BY DivMod
<1> DEFINE q == a \div b
           r == a % b
<1> HIDE DEF q, r
<1>2. q \in Nat /\ r \in 0 .. (b - 1) /\ a = b * q + r
  BY <1>1 DEF q, r
<1>3. ASSUME r + m < b
      PROVE  (a + m) \div b = q /\ (a + m) % b = r + m
  <2>1. a + m = b * q + (r + m) /\ r + m \in 0 .. (b - 1)
    BY <1>2, <1>3, SMT
  <2> QED BY <1>2, <2>1, DivUnique
<1>4. ASSUME r + m = b
      PROVE  (a + m) \div b = q + 1 /\ (a + m) % b = 0
  <2>1. a + m = b * (q + 1) + 0 /\ 0 \in 0 .. (b - 1)
    BY <1>2, <1>4, SMT
  <2>2. q + 1 \in Nat
    BY <1>2
  <2> DEFINE u == q + 1
  <2>3. u \in Nat /\ a + m = b * u + 0
    BY <2>1, <2>2
  <2> HIDE DEF u
  <2>4. (a + m) \div b = u /\ (a + m) % b = 0
    BY <2>1, <2>3, DivUnique
  <2> QED BY <2>4 DEF u
<1> QED BY <1>3, <1>4 DEF q, r

LEMMA TimesMonotone ==
  ASSUME NEW s \in Nat, NEW a \in Nat, NEW b \in Nat, a < b
  PROVE  a * s + s <= s * b
<1>1. (b - a - 1) \in Nat /\ (b - a - 1) * s \in Nat
  BY SMT
<1>2. s * b = a * s + s + (b - a - 1) * s
  BY SMT
<1> QED BY <1>1, <1>2, SMT

-----------------------------------------------------------------------------
(* Types *)

LEMMA ClusterPositive == ClusterBytes \in Nat \ {0}
<1>1. SectorsPerCluster > 0 /\ SectorSize > 0
  BY VolumeAssumption
<1>2. SectorsPerCluster * SectorSize \in Nat
  BY VolumeAssumption, SMT
<1>3. SectorsPerCluster * SectorSize > 0
  BY VolumeAssumption, <1>1, SMT
<1> QED BY <1>2, <1>3 DEF ClusterBytes

\* What an entry read from the table can be.
LEMMA EntryType ==
  ASSUME NEW f \in FatTables, NEW c
  PROVE  fat16_get_fat_entry(f, c) \in FatEntry \cup {65528}
<1>1. CASE c \in DOMAIN f
  BY <1>1, SMT DEF fat16_get_fat_entry, FatTables
<1>2. CASE c \notin DOMAIN f
  BY <1>2, SMT DEF fat16_get_fat_entry, FatEntry, KERNEL_FAT16_UNUSED
<1> QED BY <1>1, <1>2

\* Where the loops are in the read they serve.
TInv ==
  /\ TypeOK
  /\ pc # "idle" => call.size > 0 /\ offset = call.from + i * call.size
  /\ pc \notin {"idle", "members"} => i < call.nmemb

LEMMA ChunkType ==
  ASSUME left \in Nat, within \in 0 .. (ClusterBytes - 1)
  PROVE  /\ Chunk \in 0 .. ClusterBytes
         /\ Chunk <= left
         /\ Chunk <= ClusterBytes - within
         /\ left > 0 => Chunk > 0
         /\ Chunk # ClusterBytes - within => Chunk = left
BY ClusterPositive DEF Chunk, Least

\* How far one call of the streamer reads.
LEMMA ReadableType ==
  ASSUME spos \in Int
  PROVE  SectorSize - (spos % SectorSize) \in 1 .. SectorSize
BY VolumeAssumption, SMT

\* Where a cluster starts on the disk.
LEMMA PositionBase ==
  ASSUME TypeOK
  PROVE  fat16_cluster_to_sector(cluster) * SectorSize \in Int
<1>1. cluster \in Int
  BY VolumeAssumption, SMT DEF TypeOK, FatEntry, DataClusters,
     KERNEL_FAT16_UNUSED, KERNEL_FAT16_BAD_SECTOR, LastCluster, EIO
<1>2. fat16_cluster_to_sector(cluster) \in Int
  BY <1>1, VolumeAssumption, SMT DEF fat16_cluster_to_sector
<1>3. SectorSize \in Int
  BY VolumeAssumption
<1> QED BY ONLY <1>2, <1>3, SMT

LEMMA PositionType ==
  ASSUME TypeOK
  PROVE  PositionIn(cluster, within) \in Int
<1> DEFINE base == fat16_cluster_to_sector(cluster) * SectorSize
<1>1. base \in Int
  BY PositionBase
<1>2. within \in Int
  BY ClusterPositive DEF TypeOK
<1>3. PositionIn(cluster, within) = within + base
  BY DEF PositionIn
<1> HIDE DEF base
<1> QED BY <1>1, <1>2, <1>3

LEMMA TInvInit == Init => TInv
<1> SUFFICES ASSUME Init PROVE TInv
  OBVIOUS
<1>1. TypeOK
  <2>1. 0 \in FatEntry \cup {65528, -EIO}
    BY DEF FatEntry, KERNEL_FAT16_UNUSED
  <2>2. out \in Seq(Int)
    BY DEF Init
  <2> QED BY <2>1, <2>2, FileAssumption, ClusterPositive DEF Init, TypeOK, OK
<1> QED BY <1>1 DEF Init, TInv

LEMMA TInvStep == TInv /\ [Next]_vars => TInv'
<1> SUFFICES ASSUME TInv, [Next]_vars PROVE TInv'
  OBVIOUS
<1> USE DEF TInv
<1>0. /\ fat \in FatTables
      /\ item.first \in FatEntry
      /\ item.first \in Nat
  <2>1. fat \in FatTables /\ item.first \in {KERNEL_FAT16_UNUSED} \cup DataClusters
    BY FileAssumption DEF TypeOK
  <2> QED BY <2>1, VolumeAssumption DEF FatEntry, DataClusters, KERNEL_FAT16_UNUSED
<1>1. CASE UNCHANGED vars
  BY <1>1 DEF vars, disk, member, place, stream, TypeOK
<1>2. ASSUME NEW off \in Offsets, NEW whence \in {SEEK_SET, SEEK_CUR, SEEK_END},
             fat16_seek(off, whence)
      PROVE  TInv'
  <2>1. pos' \in 0 .. MaxPos
    BY <1>2, FileAssumption DEF fat16_seek, SeekAllowed, TypeOK
  <2> QED BY <1>2, <2>1
        DEF fat16_seek, disk, member, place, stream, TypeOK
<1>3. ASSUME NEW off \in Offsets, NEW whence \in {SEEK_SET, SEEK_CUR, SEEK_END},
             SeekFails(off, whence)
      PROVE  TInv'
  BY <1>1, <1>3 DEF SeekFails
<1>4. ASSUME NEW size \in Sizes, NEW nmemb \in Counts, fat16_read(size, nmemb)
      PROVE  TInv'
  <2>1. size \in Nat /\ size > 0 /\ nmemb \in Nat
    BY FileAssumption
  <2>2. out' \in Seq(Int)
    BY <1>4 DEF fat16_read
  <2>3. TypeOK'
    BY <1>4, <2>1, <2>2 DEF fat16_read, disk, place, TypeOK
  <2> QED BY <1>4, <2>1, <2>3 DEF fat16_read, TypeOK
<1>5. CASE NextMember
  <2>1. /\ offset \div ClusterBytes \in Nat
        /\ offset % ClusterBytes \in 0 .. (ClusterBytes - 1)
    <3>1. offset \in Nat
      BY DEF TypeOK
    <3> QED BY ONLY <3>1, ClusterPositive, DivMod
  <2>2. TypeOK'
    BY <1>0, <1>5, <2>1 DEF NextMember, disk, member, stream, TypeOK
  <2> QED BY <1>5, <2>2 DEF NextMember, member, TypeOK
<1>6. CASE MembersDone
  BY <1>6 DEF MembersDone, disk, member, place, stream, TypeOK
<1>7. CASE Follow
  <2>1. cluster' \in FatEntry \cup {65528, -EIO}
    BY <1>0, <1>7, EntryType DEF Follow
  <2> QED BY <1>7, <2>1 DEF Follow, disk, member, stream, TypeOK
<1>8. CASE FollowFails
  BY <1>8 DEF FollowFails, disk, member, stream, TypeOK
<1>9. CASE Followed
  BY <1>9 DEF Followed, disk, member, place, stream, TypeOK
<1>10. CASE ReadCluster
  <2>1. want' \in 0 .. ClusterBytes
    BY <1>10, ChunkType DEF ReadCluster, TypeOK
  <2>2. spos' \in Int
    BY <1>10, PositionType DEF ReadCluster
  <2> QED BY <1>10, <2>1, <2>2 DEF ReadCluster, disk, member, place, TypeOK
<1>11. CASE ReadFails
  BY <1>11 DEF ReadFails, disk, member, place, stream, TypeOK, EIO
<1>12. CASE ReadSector
  <2> DEFINE readable == SectorSize - (spos % SectorSize)
             n == Least(want, readable)
  <2>1. readable \in Nat
    BY ReadableType DEF TypeOK
  <2> HIDE DEF readable
  <2>2. n \in 0 .. want
    BY <2>1 DEF Least, TypeOK
  <2> HIDE DEF n
  <2>3. out' \in Seq(Int)
    <3>1. out' = out \o [k \in 1 .. n |-> spos + k - 1]
      BY <1>12 DEF ReadSector, n, readable
    <3>2. n \in Nat /\ spos \in Int /\ out \in Seq(Int)
      BY <2>2 DEF TypeOK
    <3> HIDE DEF TInv
    <3>3. [k \in 1 .. n |-> spos + k - 1] \in Seq(Int)
      BY <3>2
    <3> QED BY <3>1, <3>2, <3>3
  <2>4. spos' \in Int /\ want' \in 0 .. ClusterBytes
    <3>1. spos' = spos + n /\ want' = want - n
      BY <1>12 DEF ReadSector, n, readable
    <3> QED BY <2>2, <3>1, ClusterPositive DEF TypeOK
  <2>5. pc' \in {"sectors", "advance"}
    BY <1>12 DEF ReadSector
  <2>6. UNCHANGED <<disk, pos, call, member, place, res>> /\ pc = "sectors"
    BY <1>12 DEF ReadSector
  <2> QED BY <2>3, <2>4, <2>5, <2>6 DEF disk, member, place, TypeOK
<1>13. CASE Advance
  <2>1. left' \in Nat
    BY <1>13, ChunkType DEF Advance, TypeOK
  <2>2. /\ cluster' \in FatEntry \cup {65528, -EIO}
        /\ within' \in 0 .. (ClusterBytes - 1)
    BY <1>0, <1>13, ClusterPositive, EntryType DEF Advance, TypeOK
  <2> QED BY <1>13, <2>1, <2>2 DEF Advance, disk, member, stream, TypeOK
<1>14. CASE MemberDone
  <2>1. i' \in 0 .. call.nmemb
    BY <1>14 DEF MemberDone, TypeOK
  <2>2. offset' = call.from + (i + 1) * call.size
    <3>1. i \in Int /\ call.size \in Int /\ call.from \in Int
      BY DEF TypeOK
    <3>2. offset' = call.from + i * call.size + call.size
      BY <1>14 DEF MemberDone
    <3> HIDE DEF TInv
    <3> QED BY <3>1, <3>2, SMT
  <2>3. offset' \in Nat /\ call.size > 0
    BY <1>14 DEF MemberDone, TypeOK
  <2> QED BY <1>14, <2>1, <2>2, <2>3
        DEF MemberDone, disk, place, stream, TypeOK
<1> QED
  BY <1>1, <1>2, <1>3, <1>4, <1>5, <1>6, <1>7, <1>8, <1>9, <1>10, <1>11, <1>12,
     <1>13, <1>14 DEF Next, Seek, Read, Step

\* Every variable keeps its type, however calls follow one another.
THEOREM TypeCorrect == Spec => []TypeOK
<1>1. TInv => TypeOK
  BY DEF TInv
<1> QED BY <1>1, TInvInit, TInvStep, PTL DEF Spec

-----------------------------------------------------------------------------
(* What was read: the invariant.                                           *)

\* The file's n-th cluster.
Nth(n) == ClusterAt(fat, item.first, n)

\* The position in the file at which the rest of the current cluster starts.
Reading == offset + (call.size - left)

\* The bytes of the current cluster that are in the buffer already.
Taken == IF pc = "clusters" THEN 0 ELSE Chunk - want

Inside == {"clusters", "sectors", "advance"}

\* How much the loops did: what is in the buffer, and where they stand.
Progress ==
  /\ pc \in {"members", "follow"} => Len(out) = i * call.size
  /\ pc = "follow" =>
       /\ left = call.size
       /\ within = offset % ClusterBytes
       /\ ahead <= offset \div ClusterBytes
  /\ pc \in Inside =>
       /\ left <= call.size
       /\ left > 0 => within = Reading % ClusterBytes
       /\ call.from + Len(out) = Reading + Taken
  /\ pc \in {"sectors", "advance"} => left > 0 /\ is_readable_cluster(cluster)
  /\ pc = "sectors" =>
       /\ want \in 1 .. Chunk
       /\ spos = PositionIn(cluster, within) + Taken
  /\ pc = "advance" => want = 0

\* If the member starts in the file, the current cluster is the one of the
\* file at which the read stands.
Reached ==
  InFile(fat, item.first, offset) =>
    /\ pc = "follow" => cluster = Nth((offset \div ClusterBytes) - ahead)
    /\ pc \in Inside /\ left > 0 => cluster = Nth(Reading \div ClusterBytes)

\* What a finished read returned, and why.
Ended ==
  pc = "idle" /\ call.nmemb > 0 =>
    \/ res = OK /\ Len(out) = call.size * call.nmemb
    \/ res = -EIO /\ \E k \in Asked : ~InFile(fat, item.first, k)

RInv == TInv /\ Progress /\ Reached /\ RightBytes /\ Ended

\* The disk is only read, and a call keeps its arguments.
LEMMA DiskKept ==
  ASSUME [Next]_vars
  PROVE  /\ fat' = fat /\ item' = item
         /\ pc # "idle" => call' = call
BY DEF Next, Seek, Read, Step, vars, disk, fat16_seek, SeekFails, fat16_read,
   NextMember, MembersDone, Follow, FollowFails, Followed, ReadCluster,
   ReadFails, ReadSector, Advance, MemberDone

\* The types as the steps of arithmetic need them.
LEMMA Numbers ==
  ASSUME TInv
  PROVE  /\ call.size \in Nat /\ call.nmemb \in Nat /\ call.from \in Nat
         /\ i \in Nat /\ i <= call.nmemb /\ offset \in Nat
         /\ ahead \in Nat /\ within \in 0 .. (ClusterBytes - 1)
         /\ left \in Nat /\ spos \in Int /\ want \in Nat
         /\ out \in Seq(Int) /\ Len(out) \in Nat
BY FileAssumption, ClusterPositive DEF TInv, TypeOK

LEMMA ProgressStep ==
  ASSUME TInv, Progress, [Next]_vars
  PROVE  Progress'
<1>0. /\ call.size \in Nat /\ call.nmemb \in Nat /\ call.from \in Nat
      /\ i \in Nat /\ offset \in Nat /\ ahead \in Nat
      /\ within \in 0 .. (ClusterBytes - 1)
      /\ left \in Nat /\ spos \in Int /\ want \in Nat /\ Len(out) \in Nat
      /\ ClusterBytes \in Nat \ {0}
  BY Numbers, ClusterPositive
<1>c. /\ Chunk \in Nat
      /\ Chunk <= left
      /\ Chunk <= ClusterBytes - within
      /\ left > 0 => Chunk > 0
      /\ Chunk # ClusterBytes - within => Chunk = left
  BY <1>0, ChunkType
<1>p. pc # "idle" => offset = call.from + i * call.size
  BY DEF TInv
<1>1. CASE UNCHANGED vars
  BY <1>1 DEF vars, disk, member, place, stream, Progress, Reading, Taken, Chunk
<1>2. CASE pc' = "idle"
  BY <1>2 DEF Progress, Inside
<1>3. ASSUME NEW size \in Sizes, NEW nmemb \in Counts, fat16_read(size, nmemb)
      PROVE  Progress'
  <2>1. Len(out') = 0 /\ i' = 0 /\ call'.size = size /\ pc' = "members"
    BY <1>3 DEF fat16_read
  <2>2. 0 * size = 0
    BY FileAssumption
  <2> QED BY <2>1, <2>2 DEF Progress, Inside
<1>4. CASE NextMember
  BY <1>0, <1>4, DivMod DEF NextMember, member, stream, Progress, Inside
<1>5. CASE Follow
  BY <1>0, <1>5, DivMod DEF Follow, member, stream, Progress, Inside
<1>6. CASE FollowFails \/ Followed
  <2>1. /\ pc = "follow" /\ pc' = "clusters"
        /\ UNCHANGED <<call, i, offset, within, left, out>>
    BY <1>6 DEF FollowFails, Followed, member, place, stream
  <2>2. /\ left = call.size /\ Len(out) = i * call.size
        /\ within = offset % ClusterBytes
    BY <2>1 DEF Progress
  <2>3. Reading' = offset /\ Taken' = 0
    <3>1. Reading' = offset + (call.size - left)
      BY <2>1 DEF Reading
    <3>2. Reading' = offset
      BY <1>0, <2>2, <3>1
    <3> QED BY <2>1, <3>2 DEF Taken
  <2>4. call.from + Len(out) = offset
    BY <1>p, <2>1, <2>2
  <2> QED BY <1>0, <2>1, <2>2, <2>3, <2>4 DEF Progress
<1>7. CASE ReadCluster
  <2>1. Taken' = 0 /\ Reading' = Reading /\ Chunk' = Chunk
    BY <1>c, <1>7 DEF ReadCluster, member, place, Taken, Reading, Chunk
  <2>2. Taken = 0
    BY <1>7 DEF ReadCluster, Taken
  <2>3. spos' = PositionIn(cluster, within) + 0
    <3>1. PositionIn(cluster, within) \in Int
      BY PositionType DEF TInv
    <3> QED BY <1>7, <3>1 DEF ReadCluster
  <2>4. /\ pc = "clusters" /\ pc' = "sectors" /\ left > 0
        /\ is_readable_cluster(cluster) /\ want' = Chunk
        /\ UNCHANGED <<call, i, offset, cluster, within, left, out>>
    BY <1>7 DEF ReadCluster, member, place
  <2> QED BY <1>c, <2>1, <2>2, <2>3, <2>4 DEF Progress, Inside
<1>8. CASE ReadSector
  <2> DEFINE readable == SectorSize - (spos % SectorSize)
             n == Least(want, readable)
  <2>1. readable \in 1 .. SectorSize
    BY <1>0, ReadableType
  <2>2. readable \in Nat /\ readable > 0
    BY <2>1, VolumeAssumption
  <2> HIDE DEF readable
  <2>3. /\ n \in 0 .. want
        /\ IF want > readable THEN n < want ELSE n = want
    BY <1>0, <2>2 DEF Least
  <2> HIDE DEF n
  <2>4. /\ pc = "sectors"
        /\ pc' = IF want > readable THEN "sectors" ELSE "advance"
        /\ out' = out \o [k \in 1 .. n |-> spos + k - 1]
        /\ spos' = spos + n /\ want' = want - n
        /\ UNCHANGED <<call, i, offset, cluster, within, left>>
    BY <1>8 DEF ReadSector, member, place, n, readable
  <2>5. Len(out') = Len(out) + n
    <3> DEFINE bytes == [k \in 1 .. n |-> spos + k - 1]
    <3>1. n \in Nat /\ spos \in Int /\ out \in Seq(Int)
      BY <1>0, <2>3, Numbers
    <3>2. bytes \in Seq(Int) /\ Len(bytes) = n
      BY <3>1
    <3>3. out' = out \o bytes
      BY <2>4
    <3> HIDE DEF bytes
    <3>4. bytes \in Seq(Int) /\ out \in Seq(Int)
      BY <3>1, <3>2
    <3>5. Len(out \o bytes) = Len(out) + Len(bytes)
      BY ONLY <3>4, ConcatProperties
    <3> QED BY <3>2, <3>3, <3>5
  <2>6. Reading' = Reading /\ Chunk' = Chunk /\ Taken' = Taken + n
    BY <1>0, <1>c, <2>3, <2>4 DEF Reading, Chunk, Taken
  <2>7. /\ left > 0 /\ is_readable_cluster(cluster) /\ want \in 1 .. Chunk
        /\ left <= call.size /\ within = Reading % ClusterBytes
        /\ call.from + Len(out) = Reading + Taken
        /\ spos = PositionIn(cluster, within) + Taken
    BY <2>4 DEF Progress, Inside
  <2>8. Reading \in Int /\ Taken \in Int
    <3>1. Taken = Chunk - want
      BY <2>4 DEF Taken
    <3>2. Reading = offset + (call.size - left)
      BY DEF Reading
    <3> QED BY <1>0, <1>c, <3>1, <3>2
  <2>9. call.from + Len(out') = Reading' + Taken'
    BY <1>0, <2>3, <2>5, <2>6, <2>7, <2>8
  <2>10. PositionIn(cluster, within) + Taken + n = PositionIn(cluster, within) + (Taken + n)
    <3>1. PositionIn(cluster, within) \in Int
      BY PositionType DEF TInv
    <3> QED BY <1>0, <2>3, <2>8, <3>1
  <2>11. want > readable => want' \in 1 .. Chunk'
    BY <1>c, <2>3, <2>4, <2>6, <2>7
  <2>12. ~(want > readable) => want' = 0
    BY <1>0, <2>3, <2>4
  <2> QED BY <2>4, <2>6, <2>7, <2>9, <2>10, <2>11, <2>12 DEF Progress, Inside
<1>9. CASE Advance
  <2>1. /\ pc = "advance" /\ pc' = "clusters" /\ left' = left - Chunk
        /\ UNCHANGED <<call, i, offset, out>>
    BY <1>9 DEF Advance, member, stream
  <2>2. /\ left > 0 /\ want = 0 /\ left <= call.size
        /\ within = Reading % ClusterBytes
        /\ call.from + Len(out) = Reading + Taken
    BY <2>1 DEF Progress, Inside
  <2>3. Taken = Chunk /\ Taken' = 0 /\ Reading \in Nat /\ Reading' = Reading + Chunk
    <3>1. Taken = Chunk - want /\ Taken' = 0
      BY <2>1 DEF Taken
    <3>2. /\ Reading = offset + (call.size - left)
          /\ Reading' = offset + (call.size - left')
      BY <2>1 DEF Reading
    <3>3. left' = left - Chunk /\ want = 0 /\ left <= call.size
      BY <2>1, <2>2
    <3>4. call.size - left \in Nat
      BY <1>0, <3>3
    <3>5. Reading \in Nat
      BY <1>0, <3>2, <3>4
    <3>6. Reading' = Reading + Chunk
      BY <1>0, <1>c, <3>2, <3>3
    <3>7. Taken = Chunk
      BY <1>c, <3>1, <3>3
    <3> QED BY <3>1, <3>5, <3>6, <3>7
  <2>4. left' > 0 => within' = Reading' % ClusterBytes
    <3> SUFFICES ASSUME left' > 0 PROVE within' = Reading' % ClusterBytes
      OBVIOUS
    <3>1. Chunk = ClusterBytes - within
      BY <1>0, <1>c, <2>1
    <3>2. within' = 0
      BY <1>9, <3>1 DEF Advance
    <3>3. (Reading % ClusterBytes) + Chunk = ClusterBytes
      BY <1>0, <2>2, <3>1
    <3>4. (Reading + Chunk) % ClusterBytes = 0
      BY <1>0, <1>c, <2>3, <3>3, DivStep
    <3> QED BY <2>3, <3>2, <3>4
  <2> QED BY <1>0, <1>c, <2>1, <2>2, <2>3, <2>4 DEF Progress
<1>10. CASE MemberDone
  <2>1. /\ pc = "clusters" /\ pc' = "members" /\ left = 0 /\ i' = i + 1
        /\ UNCHANGED <<call, out>>
    BY <1>10 DEF MemberDone, stream
  <2>2. call.from + Len(out) = call.from + i * call.size + call.size
    <3>1. call.from + Len(out) = offset + call.size
      BY <1>0, <2>1 DEF Progress, Reading, Taken, Inside
    <3> QED BY <1>p, <2>1, <3>1
  <2>3. Len(out) = (i + 1) * call.size
    BY ONLY <1>0, <2>2, SMT
  <2> QED BY <2>1, <2>3 DEF Progress, Inside
<1>11. \A off, whence : fat16_seek(off, whence) \/ SeekFails(off, whence) =>
         pc' = "idle" \/ UNCHANGED vars
  BY DEF fat16_seek, SeekFails
<1>12. MembersDone \/ ReadFails => pc' = "idle"
  BY DEF MembersDone, ReadFails
<1> QED
  BY <1>1, <1>2, <1>3, <1>4, <1>5, <1>6, <1>7, <1>8, <1>9, <1>10, <1>11, <1>12
  DEF Next, Seek, Read, Step

\* The chain does not go on after a cluster that is not readable.
LEMMA ReadableBefore ==
  ASSUME NEW f, NEW first, NEW n \in Nat, NEW m \in 0 .. n,
         is_readable_cluster(ClusterAt(f, first, n))
  PROVE  is_readable_cluster(ClusterAt(f, first, m))
<1> DEFINE Bad == {j \in Nat : j <= n /\ ~is_readable_cluster(ClusterAt(f, first, n - j))}
<1> SUFFICES ASSUME ~is_readable_cluster(ClusterAt(f, first, m)) PROVE FALSE
  OBVIOUS
<1>1. n - m \in Bad
  <2>1. n - m \in Nat /\ n - m <= n /\ n - (n - m) = m
    OBVIOUS
  <2> QED BY <2>1
<1>2. PICK j \in Bad : \A k \in Bad : j <= k
  <2>1. Bad \subseteq Nat
    OBVIOUS
  <2> HIDE DEF Bad
  <2> QED BY <1>1, <2>1, LeastExists
<1>3. j # 0
  <2>1. n - 0 = n
    OBVIOUS
  <2> QED BY <1>2, <2>1
<1>4. is_readable_cluster(ClusterAt(f, first, n - (j - 1)))
  <2>1. j - 1 \in Nat /\ j - 1 <= n /\ j - 1 \notin Bad
    BY <1>2, <1>3
  <2> QED BY <2>1
<1>5. ClusterAt(f, first, n - (j - 1)) = ClusterAt(f, first, n - j)
  <2>1. n - j \in Nat /\ n - (j - 1) = (n - j) + 1
    BY <1>2
  <2>2. ClusterAt(f, first, (n - j) + 1) = After(f, ClusterAt(f, first, n - j))
    BY <2>1, ChainSteps
  <2> QED BY <1>2, <2>1, <2>2 DEF After
<1> QED BY <1>2, <1>4, <1>5

\* From one cluster of the file to the next.
LEMMA NthNext ==
  ASSUME NEW n \in Nat, is_readable_cluster(Nth(n))
  PROVE  Nth(n + 1) = fat16_get_fat_entry(fat, Nth(n))
BY ChainSteps DEF Nth, After

LEMMA ReachedStep ==
  ASSUME TInv, Progress, Reached, [Next]_vars
  PROVE  Reached'
<1>0. /\ call.size \in Nat /\ offset \in Nat /\ ahead \in Nat
      /\ within \in 0 .. (ClusterBytes - 1) /\ left \in Nat
      /\ ClusterBytes \in Nat \ {0}
  BY Numbers, ClusterPositive
<1> DEFINE q == offset \div ClusterBytes
<1>q. q \in Nat
  BY <1>0, DivMod
<1> HIDE DEF q
<1>d. fat' = fat /\ item' = item
  BY DiskKept
<1>1. CASE UNCHANGED vars
  BY <1>1 DEF vars, disk, member, place, stream, Reached, Nth, Reading
<1>2. CASE pc' \in {"idle", "members"}
  BY <1>2 DEF Reached, Inside
<1>3. CASE NextMember
  <2>1. q - q = 0
    BY <1>q
  <2>2. Nth(0) = item.first
    BY ChainSteps DEF Nth
  <2>3. /\ pc' = "follow" /\ offset' = offset /\ cluster' = item.first
        /\ ahead' = q
    BY <1>3 DEF NextMember, member, q
  <2> QED BY <1>d, <2>1, <2>2, <2>3 DEF Reached, Nth, Inside, q
<1>4. CASE Follow \/ FollowFails
  <2>1. pc = "follow" /\ ahead > 0 /\ offset' = offset
    BY <1>4 DEF Follow, FollowFails, member
  <2>2. q - ahead \in 0 .. q /\ q - ahead \in Nat /\ (q - ahead) + 1 \in 0 .. q
    BY <1>0, <1>q, <2>1 DEF Progress, q
  <2> SUFFICES ASSUME InFile(fat, item.first, offset) PROVE Reached'
    BY <1>d, <2>1 DEF Reached
  <2>3. is_readable_cluster(Nth(q))
    BY DEF InFile, Nth, q
  <2>4. /\ cluster = Nth(q - ahead)
        /\ is_readable_cluster(Nth(q - ahead))
        /\ is_readable_cluster(Nth((q - ahead) + 1))
    <3>1. cluster = Nth(q - ahead)
      BY <2>1 DEF Reached, q
    <3>2. is_readable_cluster(Nth(q - ahead))
      BY <1>q, <2>2, <2>3, ReadableBefore DEF Nth
    <3>3. is_readable_cluster(Nth((q - ahead) + 1))
      BY <1>q, <2>2, <2>3, ReadableBefore DEF Nth
    <3> QED BY <3>1, <3>2, <3>3
  <2>5. Nth((q - ahead) + 1) = fat16_get_fat_entry(fat, cluster)
    BY <2>2, <2>4, NthNext
  <2>6. Follow
    BY <1>4, <2>4, <2>5 DEF FollowFails
  <2>7. /\ pc' = "follow" /\ ahead' = ahead - 1
        /\ cluster' = fat16_get_fat_entry(fat, cluster)
    BY <2>1, <2>6 DEF Follow
  <2>8. q - ahead' = (q - ahead) + 1
    BY <1>0, <1>q, <2>7
  <2> QED BY <1>d, <2>1, <2>5, <2>7, <2>8 DEF Reached, Nth, Inside, q
<1>5. CASE Followed
  <2>1. /\ pc = "follow" /\ ahead = 0 /\ pc' = "clusters"
        /\ UNCHANGED <<call, offset, cluster, left>>
    BY <1>5 DEF Followed, member, place
  <2>2. left = call.size
    BY <2>1 DEF Progress
  <2>3. Reading' = offset
    <3>1. Reading' = offset + (call.size - left)
      BY <2>1 DEF Reading
    <3> QED BY <1>0, <2>2, <3>1
  <2>4. q - ahead = q
    BY <1>q, <2>1
  <2> QED BY <1>d, <2>1, <2>3, <2>4 DEF Reached, Nth, q
<1>6. CASE ReadCluster \/ ReadSector
  <2>1. /\ pc \in Inside
        /\ UNCHANGED <<call, offset, cluster, left>>
    BY <1>6 DEF ReadCluster, ReadSector, member, place, Inside
  <2>2. pc' # "follow"
    BY <1>6 DEF ReadCluster, ReadSector
  <2>3. Reading' = Reading
    BY <2>1 DEF Reading
  <2> QED BY <1>d, <2>1, <2>2, <2>3 DEF Reached, Nth
<1>7. CASE Advance
  <2>1. /\ pc = "advance" /\ pc' = "clusters" /\ left' = left - Chunk
        /\ UNCHANGED <<call, offset>>
    BY <1>7 DEF Advance, member
  <2> SUFFICES ASSUME InFile(fat, item.first, offset), left' > 0
               PROVE  cluster' = Nth(Reading' \div ClusterBytes)
    BY <1>d, <2>1 DEF Reached, Nth, Inside
  <2>2. /\ left > 0 /\ is_readable_cluster(cluster) /\ left <= call.size
        /\ within = Reading % ClusterBytes
        /\ cluster = Nth(Reading \div ClusterBytes)
    BY <2>1 DEF Progress, Reached, Inside
  <2>3. Chunk \in Nat /\ Chunk = ClusterBytes - within
    BY <1>0, <2>1, ChunkType
  <2>4. Reading \in Nat /\ Reading' = Reading + Chunk
    <3>1. /\ Reading = offset + (call.size - left)
          /\ Reading' = offset + (call.size - left')
      BY <2>1 DEF Reading
    <3>2. call.size - left \in Nat
      BY <1>0, <2>2
    <3>3. Reading \in Nat
      BY <1>0, <3>1, <3>2
    <3> QED BY <1>0, <2>1, <2>3, <3>1, <3>3
  <2>5. (Reading % ClusterBytes) + Chunk = ClusterBytes
    BY <1>0, <2>2, <2>3
  <2>6. Reading' \div ClusterBytes = (Reading \div ClusterBytes) + 1
    BY <1>0, <2>3, <2>4, <2>5, DivStep
  <2>7. Reading \div ClusterBytes \in Nat
    BY <1>0, <2>4, DivMod
  <2>8. cluster' = fat16_get_fat_entry(fat, cluster)
    BY <1>7, <2>3 DEF Advance
  <2> QED BY <2>2, <2>6, <2>7, <2>8, NthNext
<1>8. \A off, whence : fat16_seek(off, whence) \/ SeekFails(off, whence) =>
         pc' = "idle" \/ UNCHANGED vars
  BY DEF fat16_seek, SeekFails
<1>9. \A size, nmemb : fat16_read(size, nmemb) => pc' = "members"
  BY DEF fat16_read
<1>10. /\ MembersDone \/ ReadFails => pc' = "idle"
       /\ MemberDone => pc' = "members"
  BY DEF MembersDone, ReadFails, MemberDone
<1> QED
  BY <1>1, <1>2, <1>3, <1>4, <1>5, <1>6, <1>7, <1>8, <1>9, <1>10
  DEF Next, Seek, Read, Step

\* The member that a byte being read belongs to.
LEMMA OwnMember ==
  ASSUME TInv, pc # "idle", NEW k \in Nat,
         i * call.size <= k, k < i * call.size + call.size
  PROVE  MemberStart(k) = offset
<1>1. /\ call.size \in Nat \ {0} /\ call.from \in Nat /\ i \in Nat
      /\ offset = call.from + i * call.size
  BY Numbers DEF TInv
<1> DEFINE s == call.size
           r == k - i * s
<1>2. s \in Nat \ {0}
  BY <1>1
<1>3. i * s \in Nat
  BY ONLY <1>1, <1>2, SMT
<1>4. r \in 0 .. (s - 1) /\ k = i * s + r
  BY <1>2, <1>3
<1> HIDE DEF s, r
<1>5. k = s * i + r
  BY ONLY <1>1, <1>2, <1>3, <1>4, SMT
<1>6. k \div s = i
  BY <1>1, <1>2, <1>4, <1>5, DivUnique
<1> QED BY <1>1, <1>6 DEF MemberStart, s

LEMMA RightBytesStep ==
  ASSUME TInv, Progress, Reached, RightBytes, [Next]_vars
  PROVE  RightBytes'
<1>0. /\ call.size \in Nat /\ call.from \in Nat /\ i \in Nat /\ offset \in Nat
      /\ within \in 0 .. (ClusterBytes - 1) /\ left \in Nat
      /\ spos \in Int /\ want \in Nat /\ out \in Seq(Int) /\ Len(out) \in Nat
      /\ ClusterBytes \in Nat \ {0}
  BY Numbers, ClusterPositive
<1>d. fat' = fat /\ item' = item
  BY DiskKept
<1>1. CASE UNCHANGED <<call, out>>
  BY <1>d, <1>1 DEF RightBytes, MemberStart
<1>2. ASSUME NEW size \in Sizes, NEW nmemb \in Counts, fat16_read(size, nmemb)
      PROVE  RightBytes'
  <2>1. Len(out') = 0
    BY <1>2 DEF fat16_read
  <2> QED BY <2>1 DEF RightBytes
<1>3. CASE ReadSector
  <2> DEFINE readable == SectorSize - (spos % SectorSize)
             n == Least(want, readable)
             bytes == [k \in 1 .. n |-> spos + k - 1]
  <2>1. readable \in Nat
    <3>1. readable \in 1 .. SectorSize
      BY <1>0, ReadableType
    <3> QED BY <3>1, VolumeAssumption
  <2> HIDE DEF readable
  <2>2. n \in Nat /\ n <= want
    BY <1>0, <2>1 DEF Least
  <2>3. /\ pc = "sectors" /\ out' = out \o bytes
        /\ UNCHANGED <<call, offset>>
    BY <1>3 DEF ReadSector, member, readable
  <2> HIDE DEF n
  <2>4. bytes \in Seq(Int) /\ Len(bytes) = n
    BY <1>0, <2>2
  <2>5. \A j \in 1 .. n : bytes[j] = spos + j - 1
    OBVIOUS
  <2> HIDE DEF bytes
  <2>6. /\ Len(out') = Len(out) + n
        /\ \A k \in 1 .. (Len(out) + n) :
             out'[k] = IF k <= Len(out) THEN out[k] ELSE bytes[k - Len(out)]
    <3>1. out \in Seq(Int)
      BY <1>0
    <3> QED BY <2>3, <2>4, <3>1, ConcatProperties
  <2>7. /\ left > 0 /\ left <= call.size /\ want \in 1 .. Chunk
        /\ is_readable_cluster(cluster)
        /\ within = Reading % ClusterBytes
        /\ call.from + Len(out) = Reading + Taken
        /\ spos = PositionIn(cluster, within) + Taken
    BY <2>3 DEF Progress, Inside
  <2>8. /\ Chunk \in Nat /\ Chunk <= left /\ Chunk <= ClusterBytes - within
        /\ Taken = Chunk - want
    BY <1>0, <2>3, ChunkType DEF Taken
  <2>9. Reading = offset + (call.size - left) /\ Reading \in Nat
    <3>1. call.size - left \in Nat
      BY <1>0, <2>7
    <3> QED BY <1>0, <3>1 DEF Reading
  <2>10. Taken \in Nat /\ Taken + n <= Chunk
    BY <1>0, <2>2, <2>7, <2>8
  <2> SUFFICES ASSUME NEW k \in 0 .. (Len(out') - 1),
                      InFile(fat, item.first, MemberStart(k))
               PROVE  /\ InFile(fat, item.first, call.from + k)
                      /\ out'[k + 1] = FileByte(fat, item.first, call.from + k)
    BY <1>d, <2>3 DEF RightBytes, MemberStart
  <2>11. CASE k < Len(out)
    <3>1. k \in 0 .. (Len(out) - 1) /\ k + 1 \in 1 .. (Len(out) + n) /\ k + 1 <= Len(out)
      BY <1>0, <2>2, <2>11
    <3>2. out'[k + 1] = out[k + 1]
      BY <2>6, <3>1
    <3> QED BY <3>1, <3>2 DEF RightBytes
  <2>12. CASE ~(k < Len(out))
    <3> DEFINE j == k - Len(out)
               m == Taken + j
    <3>1. /\ k \in Nat /\ j \in Nat /\ j < n /\ m \in Nat
          /\ call.from + k = Reading + m
          /\ m < Chunk
      <4>1. k \in Nat /\ k < Len(out) + n
        BY <1>0, <2>2, <2>6
      <4>2. j \in Nat /\ j < n /\ k = Len(out) + j
        BY <1>0, <2>2, <2>12, <4>1
      <4> HIDE DEF j
      <4>3. m \in Nat /\ m < Chunk
        BY <2>2, <2>8, <2>10, <4>2
      <4>4. call.from + k = Reading + m
        <5>1. call.from + Len(out) = Reading + Taken
          BY <2>7
        <5>2. Reading \in Nat /\ Taken \in Nat
          BY <2>9, <2>10
        <5>3. call.from + (Len(out) + j) = Reading + (Taken + j)
          BY ONLY <1>0, <4>2, <5>1, <5>2
        <5> QED BY <4>2, <5>3
      <4> QED BY <4>1, <4>2, <4>3, <4>4
    <3>2. MemberStart(k) = offset
      <4>1. i * call.size \in Nat
        BY ONLY <1>0, SMT
      <4>2. offset = call.from + i * call.size
        BY <2>3 DEF TInv
      <4>3. call.from + k = offset + ((call.size - left) + m)
        BY <1>0, <2>9, <3>1
      <4>4. (call.size - left) + m \in Nat /\ (call.size - left) + m < call.size
        <5>1. left <= call.size /\ Chunk \in Nat /\ Chunk <= left
          BY <2>7, <2>8
        <5>2. m \in Nat /\ m < Chunk
          BY <3>1
        <5> HIDE DEF m
        <5> QED BY <1>0, <5>1, <5>2
      <4>5. i * call.size <= k /\ k < i * call.size + call.size
        <5> DEFINE done == i * call.size
                   d == (call.size - left) + m
        <5>1. done \in Nat /\ offset = call.from + done
          BY <4>1, <4>2
        <5>2. /\ d \in Nat /\ d < call.size
              /\ call.from + k = offset + d /\ k \in Nat
          BY <3>1, <4>3, <4>4
        <5> HIDE DEF done, d
        <5>3. done <= k /\ k < done + call.size
          <6>1. ASSUME NEW from \in Nat, NEW b \in Nat, NEW e \in Nat, NEW s \in Nat, NEW u \in Nat,
                       NEW o, o = from + b, e < s, from + u = o + e
                PROVE  b <= u /\ u < b + s
            BY <6>1
          <6> QED BY <1>0, <5>1, <5>2, <6>1
        <5> QED BY <5>3 DEF done
      <4> QED BY <2>3, <3>1, <4>5, OwnMember
    <3> HIDE DEF m
    <3>3. cluster = Nth(Reading \div ClusterBytes)
      BY <2>3, <2>7, <3>2 DEF Reached, Inside
    <3>4. /\ (Reading + m) \div ClusterBytes = Reading \div ClusterBytes
          /\ (Reading + m) % ClusterBytes = within + m
      <4>1. (Reading % ClusterBytes) + m < ClusterBytes
        BY <1>0, <2>7, <2>8, <3>1
      <4>2. m \in Nat /\ Reading \in Nat /\ ClusterBytes \in Nat \ {0}
        BY <1>0, <2>9, <3>1
      <4>3. /\ (Reading + m) \div ClusterBytes = Reading \div ClusterBytes
            /\ (Reading + m) % ClusterBytes = (Reading % ClusterBytes) + m
        BY ONLY <4>1, <4>2, DivStep
      <4> QED BY <2>7, <4>3
    <3>5. InFile(fat, item.first, call.from + k)
      BY <2>7, <3>1, <3>3, <3>4 DEF InFile, Nth
    <3>6. FileByte(fat, item.first, call.from + k) = PositionIn(cluster, within + m)
      BY <3>1, <3>3, <3>4 DEF FileByte, Nth
    <3>7. PositionIn(cluster, within + m) = PositionIn(cluster, within) + m
      <4>1. PositionIn(cluster, within) \in Int
        BY PositionType DEF TInv
      <4> DEFINE base == fat16_cluster_to_sector(cluster) * SectorSize
      <4>2. base \in Int
        BY PositionBase DEF TInv
      <4>3. /\ PositionIn(cluster, within) = within + base
            /\ PositionIn(cluster, within + m) = within + m + base
        BY DEF PositionIn
      <4> HIDE DEF base
      <4> QED BY <1>0, <3>1, <4>2, <4>3
    <3>8. out'[k + 1] = spos + j
      <4>1. /\ k + 1 \in 1 .. (Len(out) + n) /\ ~(k + 1 <= Len(out))
            /\ (k + 1) - Len(out) = j + 1 /\ j + 1 \in 1 .. n
        BY <1>0, <2>2, <3>1
      <4>2. out'[k + 1] = bytes[j + 1]
        BY <2>6, <4>1
      <4>3. bytes[j + 1] = spos + (j + 1) - 1
        BY <2>5, <4>1
      <4> QED BY <1>0, <3>1, <4>2, <4>3
    <3>9. spos + j = PositionIn(cluster, within) + m
      <4>1. PositionIn(cluster, within) \in Int
        BY PositionType DEF TInv
      <4> QED BY <2>7, <2>10, <3>1, <4>1 DEF m
    <3> QED BY <3>5, <3>6, <3>7, <3>8, <3>9
  <2> QED BY <2>11, <2>12
<1>4. \A off, whence : fat16_seek(off, whence) \/ SeekFails(off, whence) =>
         UNCHANGED <<call, out>>
  BY DEF fat16_seek, SeekFails, vars, stream
<1>5. Step => ReadSector \/ UNCHANGED <<call, out>>
  BY DEF Step, NextMember, MembersDone, Follow, FollowFails, Followed,
     ReadCluster, ReadFails, Advance, MemberDone, stream
<1>6. UNCHANGED vars => UNCHANGED <<call, out>>
  BY DEF vars, stream
<1> QED BY <1>1, <1>2, <1>3, <1>4, <1>5, <1>6 DEF Next, Seek, Read

LEMMA EndedStep ==
  ASSUME TInv, Progress, Reached, Ended, [Next]_vars
  PROVE  Ended'
<1>0. /\ call.size \in Nat /\ call.nmemb \in Nat /\ call.from \in Nat
      /\ i \in Nat /\ i <= call.nmemb /\ offset \in Nat /\ left \in Nat
      /\ ClusterBytes \in Nat \ {0}
  BY Numbers, ClusterPositive
<1>d. fat' = fat /\ item' = item
  BY DiskKept
<1>1. CASE pc = "idle" /\ UNCHANGED <<pc, call, out, res>>
  BY <1>d, <1>1 DEF Ended, Asked
<1>2. CASE pc' # "idle"
  BY <1>2 DEF Ended
<1>3. CASE MembersDone
  <2>1. /\ pc = "members" /\ i = call.nmemb /\ res' = OK
        /\ UNCHANGED <<call, out>>
    BY <1>3 DEF MembersDone, stream
  <2>2. Len(out) = call.nmemb * call.size
    BY <2>1 DEF Progress
  <2>3. call.nmemb * call.size = call.size * call.nmemb
    BY ONLY <1>0, SMT
  <2> QED BY <2>1, <2>2, <2>3 DEF Ended
<1>4. CASE ReadFails
  <2>1. /\ pc = "clusters" /\ left > 0 /\ ~is_readable_cluster(cluster)
        /\ res' = -EIO /\ call' = call
    BY <1>4 DEF ReadFails
  <2>2. left <= call.size /\ i < call.nmemb /\ call.size > 0
        /\ offset = call.from + i * call.size
    BY <2>1 DEF Progress, Inside, TInv
  <2>3. \A d \in 0 .. (call.size - 1) : offset + d \in Asked
    <3> DEFINE done == i * call.size
               total == call.size * call.nmemb
    <3>1. done \in Nat /\ total \in Nat
      BY ONLY <1>0, SMT
    <3>2. done + call.size <= total
      BY <1>0, <2>2, TimesMonotone
    <3>3. offset = call.from + done
      BY <2>2
    <3>4. Asked = call.from .. (call.from + total - 1)
      BY DEF Asked
    <3> HIDE DEF done, total
    <3> TAKE d \in 0 .. (call.size - 1)
    <3>5. d \in Nat /\ d < call.size
      BY <1>0
    <3>6. offset + d \in Int /\ call.from <= offset + d
      BY <1>0, <3>1, <3>3, <3>5
    <3>7. done + d < total
      BY <1>0, <3>1, <3>2, <3>5
    <3>8. offset + d <= call.from + total - 1
      BY <1>0, <3>1, <3>3, <3>5, <3>7
    <3> QED BY <1>0, <3>1, <3>4, <3>6, <3>8
  <2>4. \E k \in Asked : ~InFile(fat, item.first, k)
    <3>1. CASE ~InFile(fat, item.first, offset)
      <4>1. 0 \in 0 .. (call.size - 1) /\ offset + 0 = offset
        BY <1>0, <2>2
      <4> QED BY <2>3, <3>1, <4>1
    <3>2. CASE InFile(fat, item.first, offset)
      <4>1. cluster = Nth(Reading \div ClusterBytes)
        BY <2>1, <3>2 DEF Reached, Inside
      <4>2. ~InFile(fat, item.first, Reading)
        BY <2>1, <4>1 DEF InFile, Nth
      <4>3. call.size - left \in 0 .. (call.size - 1)
        BY <1>0, <2>1, <2>2
      <4>4. Reading \in Asked
        BY <2>3, <4>3 DEF Reading
      <4> QED BY <4>2, <4>4
    <3> QED BY <3>1, <3>2
  <2> QED BY <1>d, <2>1, <2>4 DEF Ended, Asked
<1>5. \A off, whence : fat16_seek(off, whence) \/ SeekFails(off, whence) =>
         pc = "idle" /\ UNCHANGED <<pc, call, out, res>>
  BY DEF fat16_seek, SeekFails, vars, stream
<1>6. \A size, nmemb : fat16_read(size, nmemb) => pc' # "idle"
  BY DEF fat16_read
<1>7. Step => MembersDone \/ ReadFails \/ pc' # "idle"
  BY DEF Step, NextMember, Follow, FollowFails, Followed,
     ReadCluster, ReadSector, Advance, MemberDone
<1>8. UNCHANGED vars => pc' # "idle" \/ (pc = "idle" /\ UNCHANGED <<pc, call, out, res>>)
  BY DEF vars, stream
<1> QED
  BY <1>1, <1>2, <1>3, <1>4, <1>5, <1>6, <1>7, <1>8 DEF Next, Seek, Read

LEMMA RInvInit == Init => RInv
<1> SUFFICES ASSUME Init PROVE RInv
  OBVIOUS
<1>1. pc = "idle" /\ Len(out) = 0 /\ call.nmemb = 0
  BY DEF Init
<1> QED BY <1>1, TInvInit DEF RInv, Progress, Reached, RightBytes, Ended, Inside

LEMMA RInvStep == RInv /\ [Next]_vars => RInv'
BY TInvStep, ProgressStep, ReachedStep, RightBytesStep, EndedStep DEF RInv

\* Whatever the geometry, the chain and the read, the bytes in the buffer are
\* the file's, as long as each member starts in the file.
THEOREM ReadsRightBytes == Spec => []RightBytes
<1>1. RInv => RightBytes
  BY DEF RInv
<1> QED BY <1>1, RInvInit, RInvStep, PTL DEF Spec

\* And the result tells a read that was served from one the file ended in.
THEOREM ReadsRightResult == Spec => []RightResult
<1>1. RInv => RightResult
  <2> SUFFICES ASSUME RInv, pc = "idle", call.nmemb > 0 PROVE RightResult
    BY DEF RightResult
  <2>1. \/ res = OK /\ Len(out) = call.size * call.nmemb
        \/ res = -EIO /\ \E k \in Asked : ~InFile(fat, item.first, k)
    BY DEF RInv, Ended
  <2>2. ASSUME \A k \in Asked : InFile(fat, item.first, k)
        PROVE  res = OK /\ Len(out) = call.size * call.nmemb
    BY <2>1, <2>2
  <2>3. ASSUME NEW k \in Asked, ~InFile(fat, item.first, k),
               InFile(fat, item.first, MemberStart(k - call.from))
        PROVE  res = -EIO
    <3> SUFFICES ASSUME Len(out) = call.size * call.nmemb PROVE FALSE
      BY <2>1
    <3> DEFINE total == call.size * call.nmemb
    <3>1. k \in call.from .. (call.from + total - 1) /\ Len(out) = total
      BY DEF Asked
    <3>2. call.from \in Nat /\ total \in Nat
      <4>1. Len(out) \in Nat /\ call.from \in Nat
        BY Numbers DEF RInv
      <4> QED BY <4>1
    <3> HIDE DEF total
    <3>3. k - call.from \in 0 .. (Len(out) - 1) /\ call.from + (k - call.from) = k
      BY <3>1, <3>2
    <3>4. InFile(fat, item.first, call.from + (k - call.from))
      BY <2>3, <3>3 DEF RInv, RightBytes
    <3> QED BY <2>3, <3>3, <3>4
  <2> QED BY <2>2, <2>3 DEF RightResult
<1> QED BY <1>1, RInvInit, RInvStep, PTL DEF Spec

-----------------------------------------------------------------------------
(* The variant: what ReadEnds rests on.                                    *)

LEMMA QuotientMonotone ==
  ASSUME NEW b \in Nat \ {0}, NEW a \in Nat, NEW c \in Nat, a <= c
  PROVE  a \div b <= c \div b
<1>1. PICK p \in Nat, r \in 0 .. (b - 1) : p = a \div b /\ a = b * p + r
  BY DivMod
<1>2. PICK q \in Nat, t \in 0 .. (b - 1) : q = c \div b /\ c = b * q + t
  BY DivMod
<1>3. ASSUME q < p PROVE FALSE
  <2>1. q * b + b <= b * p
    BY <1>1, <1>2, <1>3, TimesMonotone
  <2>2. q * b = b * q /\ b * p \in Nat /\ b * q \in Nat
    BY ONLY <1>1, <1>2, SMT
  <2> QED BY <1>1, <1>2, <2>1, <2>2
<1> QED BY <1>1, <1>2, <1>3

\* The steps that the members not yet begun may take.
LEMMA Budget ==
  ASSUME TInv, pc # "idle"
  PROVE  /\ MemberSteps \in Nat
         /\ (call.nmemb - i) * MemberSteps \in Nat
         /\ i < call.nmemb =>
              /\ (call.nmemb - i - 1) * MemberSteps \in Nat
              /\ (call.nmemb - i) * MemberSteps
                   = (call.nmemb - i - 1) * MemberSteps + MemberSteps
              /\ (offset \div ClusterBytes) + 3 * call.size + 3 <= MemberSteps
<1> DEFINE total == call.size * call.nmemb
           steps == ((call.from + total) \div ClusterBytes) + 3 * call.size + 3
<1>1. /\ call.size \in Nat /\ call.nmemb \in Nat /\ call.from \in Nat
      /\ i \in Nat /\ i <= call.nmemb /\ offset \in Nat
      /\ ClusterBytes \in Nat \ {0}
  BY Numbers, ClusterPositive
<1>2. total \in Nat /\ call.from + total \in Nat
  BY ONLY <1>1, SMT
<1>3. MemberSteps = steps
  BY DEF MemberSteps
<1> HIDE DEF total
<1>4. (call.from + total) \div ClusterBytes \in Nat
  BY <1>1, <1>2, DivMod
<1>5. steps \in Nat
  BY <1>1, <1>4
<1>6. ASSUME i < call.nmemb
      PROVE  (offset \div ClusterBytes) + 3 * call.size + 3 <= steps
  <2>1. i * call.size + call.size <= total
    BY <1>1, <1>6, TimesMonotone DEF total
  <2>2. i * call.size \in Nat
    BY ONLY <1>1, SMT
  <2>3. offset = call.from + i * call.size
    BY DEF TInv
  <2>4. offset <= call.from + total
    BY <1>1, <1>2, <2>1, <2>2, <2>3
  <2>5. (offset \div ClusterBytes) <= ((call.from + total) \div ClusterBytes)
    BY <1>1, <1>2, <2>4, QuotientMonotone
  <2>6. (offset \div ClusterBytes) \in Nat
    BY <1>1, DivMod
  <2> QED BY <1>1, <1>4, <2>5, <2>6
<1> HIDE DEF steps
<1>7. ASSUME NEW k \in Nat, NEW m \in Nat
      PROVE  k * m \in Nat /\ (k > 0 => (k - 1) * m \in Nat /\ k * m = (k - 1) * m + m)
  BY ONLY <1>7, SMT
<1>8. call.nmemb - i \in Nat
  BY <1>1
<1> QED BY <1>1, <1>3, <1>5, <1>6, <1>7, <1>8

\* What a step of a read does to the members done and to the numbers that
\* bound the rest.
LEMMA StepAdvances ==
  ASSUME TInv, Progress, Step
  PROVE  StepsLeft' \in 0 .. (StepsLeft - 1)
<1>0. /\ call.size \in Nat \ {0} /\ call.nmemb \in Nat /\ i \in Nat /\ i <= call.nmemb
      /\ ahead \in Nat /\ left \in Nat /\ want \in Nat
      /\ pc # "idle"
  BY Numbers DEF TInv, Step, NextMember, MembersDone, Follow, FollowFails, Followed,
     ReadCluster, ReadFails, ReadSector, Advance, MemberDone
<1>1. PICK m \in Nat, s \in Nat :
        /\ m = MemberSteps /\ s = (call.nmemb - i) * m
  BY <1>0, Budget
<1>2. CASE MembersDone
  BY <1>1, <1>2 DEF MembersDone, StepsLeft
<1>3. SUFFICES ASSUME ~MembersDone
      PROVE  StepsLeft' \in 0 .. (StepsLeft - 1)
  BY <1>2
<1>4. i < call.nmemb
  BY <1>0, <1>3 DEF TInv, Step, NextMember, Follow, FollowFails, Followed,
     ReadCluster, ReadFails, ReadSector, Advance, MemberDone
<1>5. PICK r \in Nat : r = (call.nmemb - i - 1) * m /\ s = r + m
  BY <1>0, <1>1, <1>4, Budget
<1>6. Chunk \in Nat /\ Chunk <= left /\ (left > 0 => Chunk > 0)
  BY <1>0, ClusterPositive, ChunkType DEF TInv, TypeOK
<1>7. CASE NextMember
  <2>1. /\ pc = "members" /\ pc' = "follow" /\ left' = call.size
        /\ ahead' = offset \div ClusterBytes /\ UNCHANGED <<call, i>>
    BY <1>7 DEF NextMember, member
  <2>2. StepsLeft = s + 1
    BY <1>1, <2>1 DEF StepsLeft
  <2>3. StepsLeft' = r + (ahead' + 3 * call.size + 3)
    BY <1>1, <1>5, <2>1 DEF StepsLeft, StepsInMember, MemberSteps
  <2>4. ahead' \in Nat /\ ahead' + 3 * call.size + 3 <= m
    <3>1. offset \div ClusterBytes \in Nat
      BY ClusterPositive, Numbers, DivMod
    <3>2. (offset \div ClusterBytes) + 3 * call.size + 3 <= MemberSteps
      BY <1>0, <1>4, Budget
    <3> QED BY <1>1, <2>1, <3>1, <3>2
  <2> QED BY <1>0, <1>1, <1>5, <2>2, <2>3, <2>4
<1>8. CASE MemberDone
  <2>1. pc = "clusters" /\ pc' = "members" /\ left = 0 /\ i' = i + 1 /\ call' = call
    BY <1>8 DEF MemberDone
  <2>2. StepsLeft = r + 2
    BY <1>1, <1>5, <2>1 DEF StepsLeft, StepsInMember
  <2>3. call'.nmemb - i' = call.nmemb - i - 1
    BY <1>0, <2>1
  <2>4. StepsLeft' = r + 1
    BY <1>1, <1>5, <2>1, <2>3 DEF StepsLeft, MemberSteps
  <2> QED BY <1>5, <2>2, <2>4
<1>9. CASE ReadFails
  <2>1. pc = "clusters" /\ pc' = "idle"
    BY <1>9 DEF ReadFails
  <2>2. StepsLeft = r + (3 * left + 2) /\ StepsLeft' = 0
    BY <1>1, <1>5, <2>1 DEF StepsLeft, StepsInMember
  <2> QED BY <1>0, <1>5, <2>2
<1>10. ASSUME UNCHANGED <<call, i>>, pc' \notin {"idle", "members"},
              pc \notin {"idle", "members"},
              StepsInMember \in Nat, StepsInMember' \in Nat, StepsInMember' < StepsInMember
       PROVE  StepsLeft' \in 0 .. (StepsLeft - 1)
  <2>1. StepsLeft = r + StepsInMember
    BY <1>1, <1>5, <1>10 DEF StepsLeft
  <2>2. StepsLeft' = r + StepsInMember'
    <3>1. MemberSteps' = m
      BY <1>1, <1>10 DEF MemberSteps
    <3> QED BY <1>5, <1>10, <3>1 DEF StepsLeft
  <2> HIDE DEF StepsLeft, StepsInMember
  <2>3. ASSUME NEW x \in Nat, NEW y \in Nat, y < x
        PROVE  r + y \in 0 .. ((r + x) - 1)
    BY <1>5, <2>3
  <2> QED BY <1>10, <2>1, <2>2, <2>3
<1>11. CASE Follow \/ FollowFails \/ Followed
  <2>1. /\ pc = "follow" /\ UNCHANGED <<call, i, left>>
        /\ \/ pc' = "follow" /\ ahead > 0 /\ ahead' = ahead - 1
           \/ pc' = "clusters"
    BY <1>11 DEF Follow, FollowFails, Followed, member, place
  <2>2. StepsInMember = ahead + 3 * left + 3
    BY <2>1 DEF StepsInMember
  <2>3. \/ ahead > 0 /\ StepsInMember' = (ahead - 1) + 3 * left + 3
        \/ StepsInMember' = 3 * left + 2
    BY <2>1 DEF StepsInMember
  <2>4. /\ StepsInMember \in Nat /\ StepsInMember' \in Nat
        /\ StepsInMember' < StepsInMember
    BY <1>0, <2>2, <2>3
  <2> QED BY <1>10, <2>1, <2>4
<1>12. CASE ReadCluster
  <2>1. /\ pc = "clusters" /\ pc' = "sectors" /\ left > 0 /\ want' = Chunk
        /\ UNCHANGED <<call, i, left, within>>
    BY <1>12 DEF ReadCluster, member, place
  <2>2. StepsInMember = 3 * left + 2 /\ StepsInMember' = 3 * (left - Chunk) + Chunk + 3
    BY <2>1 DEF StepsInMember, Chunk
  <2>3. /\ StepsInMember \in Nat /\ StepsInMember' \in Nat
        /\ StepsInMember' < StepsInMember
    BY <1>0, <1>6, <2>1, <2>2
  <2> QED BY <1>10, <2>1, <2>3
<1>13. CASE ReadSector
  <2>1. /\ pc = "sectors" /\ pc' \in {"sectors", "advance"}
        /\ UNCHANGED <<call, i, left, within>>
    BY <1>13 DEF ReadSector, member, place
  <2>2. want' \in Nat /\ want' < want
    <3>1. want' = want - Least(want, SectorSize - (spos % SectorSize))
      BY <1>13 DEF ReadSector
    <3>2. want \in 1 .. Chunk
      BY <2>1 DEF Progress
    <3>3. SectorSize - (spos % SectorSize) \in 1 .. SectorSize
      BY ReadableType DEF TInv, TypeOK
    <3> QED BY <1>0, <1>6, <3>1, <3>2, <3>3, VolumeAssumption DEF Least
  <2>3. /\ StepsInMember = 3 * (left - Chunk) + want + 3
        /\ StepsInMember' = 3 * (left - Chunk) + want' + 3
    BY <2>1 DEF StepsInMember, Chunk
  <2>4. /\ StepsInMember \in Nat /\ StepsInMember' \in Nat
        /\ StepsInMember' < StepsInMember
    <3>1. PICK rest \in Nat : rest = 3 * (left - Chunk)
      BY <1>0, <1>6
    <3>2. StepsInMember = rest + want + 3 /\ StepsInMember' = rest + want' + 3
      BY <2>3, <3>1
    <3> QED BY ONLY <1>0, <2>2, <3>1, <3>2
  <2> QED BY <1>10, <2>1, <2>4
<1>14. CASE Advance
  <2>1. /\ pc = "advance" /\ pc' = "clusters" /\ left' = left - Chunk
        /\ UNCHANGED <<call, i>>
    BY <1>14 DEF Advance, member
  <2>2. /\ StepsInMember = 3 * (left - Chunk) + want + 3
        /\ StepsInMember' = 3 * (left - Chunk) + 2
    BY <2>1 DEF StepsInMember
  <2>3. /\ StepsInMember \in Nat /\ StepsInMember' \in Nat
        /\ StepsInMember' < StepsInMember
    BY <1>0, <1>6, <2>2
  <2> QED BY <1>10, <2>1, <2>3
<1> QED
  BY <1>3, <1>7, <1>8, <1>9, <1>11, <1>12, <1>13, <1>14 DEF Step

\* In every chain, cycles included, and for every geometry and read: a step of
\* a read leaves fewer than there were.  With the fairness of Step this is why
\* every read ends.
THEOREM EveryReadAdvances == Spec => ReadAdvances
<1>1. RInv /\ [Next]_vars =>
        [pc # "idle" => StepsLeft' \in 0 .. (StepsLeft - 1)]_vars
  <2> SUFFICES ASSUME RInv, Next, pc # "idle"
               PROVE  StepsLeft' \in 0 .. (StepsLeft - 1)
    OBVIOUS
  <2>1. Step
    BY DEF Next, Seek, Read, fat16_seek, SeekFails, fat16_read
  <2> QED BY <2>1, StepAdvances DEF RInv
<1> QED BY <1>1, RInvInit, RInvStep, PTL DEF Spec, ReadAdvances

-----------------------------------------------------------------------------
(* The open file. *)

\* What a state is for the open file.
Presented ==
  <<[fat |-> fat, first |-> item.first], pos, pc # "idle", call,
    [ok |-> pc = "idle" /\ res = OK, got |-> IF pc = "idle" THEN out ELSE <<>>]>>

\* The members of the read start in the file.
Straight ==
  \A m \in 0 .. (call.nmemb - 1) : InFile(fat, item.first, call.from + m * call.size)

\* All a call does before it returns is hidden.
LEMMA StepHidden ==
  ASSUME Step, pc' # "idle"
  PROVE  UNCHANGED Presented
<1>1. pc # "idle" /\ UNCHANGED <<fat, item, pos, call>>
  BY DEF Step, NextMember, MembersDone, Follow, FollowFails, Followed,
     ReadCluster, ReadFails, ReadSector, Advance, MemberDone, disk
<1> QED BY <1>1 DEF Presented

\* What a read has in its buffer is the file's first bytes from its position.
LEMMA BufferIsFile ==
  ASSUME TInv, RightBytes, pc # "idle", Straight, Len(out) <= call.size * call.nmemb
  PROVE  /\ \A k \in 0 .. (Len(out) - 1) : InFile(fat, item.first, call.from + k)
         /\ out = [k \in 1 .. Len(out) |-> FileByte(fat, item.first, call.from + k - 1)]
<1>1. PICK b \in Nat, t \in Nat : b = Len(out) /\ t = call.size * call.nmemb /\ b <= t
  <2>1. Len(out) \in Nat /\ call.size \in Nat /\ call.nmemb \in Nat
    BY Numbers
  <2>2. call.size * call.nmemb \in Nat
    BY ONLY <2>1, SMT
  <2> QED BY <2>1, <2>2
<1>2. call.size \in Nat \ {0} /\ call.nmemb \in Nat /\ call.from \in Nat
  BY Numbers DEF TInv
<1>3. ASSUME NEW k \in 0 .. (b - 1)
      PROVE  /\ InFile(fat, item.first, call.from + k)
             /\ out[k + 1] = FileByte(fat, item.first, call.from + k)
  <2>1. k \in Nat /\ k < t
    BY <1>1
  <2>2. PICK m : m = k \div call.size
    OBVIOUS
  <2>3. m \in 0 .. (call.nmemb - 1)
    <3>1. (k \div call.size) < call.nmemb
      <4>1. call.nmemb \in Nat \ {0}
        <5>1. ASSUME call.nmemb = 0 PROVE FALSE
          <6>1. call.size * 0 = 0
            BY <1>2
          <6> QED BY <1>1, <2>1, <5>1, <6>1
        <5> QED BY <1>2, <5>1
      <4> QED BY <1>1, <1>2, <2>1, <4>1, QuotientBelow
    <3>2. (k \div call.size) \in Nat
      BY <1>2, <2>1, Parts
    <3> QED BY <1>2, <2>2, <3>1, <3>2
  <2>4. InFile(fat, item.first, MemberStart(k))
    BY <2>2, <2>3 DEF Straight, MemberStart
  <2> QED BY <1>1, <2>4 DEF RightBytes
<1>4. \A j \in 1 .. b : out[j] = FileByte(fat, item.first, call.from + j - 1)
  <2> TAKE j \in 1 .. b
  <2>1. PICK k \in 0 .. (b - 1) : k = j - 1 /\ k + 1 = j
    <3>1. j - 1 \in 0 .. (b - 1) /\ (j - 1) + 1 = j
      BY <1>1
    <3> QED BY <3>1
  <2>2. call.from + k = call.from + j - 1
    BY <1>2, <2>1
  <2> QED BY <1>3, <2>1, <2>2
<1>5. out = [j \in 1 .. b |-> out[j]]
  BY <1>1, Numbers
<1> QED BY <1>1, <1>3, <1>4, <1>5

\* The read has what is there of it.
Complete ==
  LET total == call.size * call.nmemb
  IN /\ Len(out) \in 0 .. total
     /\ Len(out) < total => ~InFile(fat, item.first, call.from + Len(out))
     /\ \A k \in 0 .. (Len(out) - 1) : InFile(fat, item.first, call.from + k)
     /\ out = [k \in 1 .. Len(out) |-> FileByte(fat, item.first, call.from + k - 1)]

LEMMA DoneComplete ==
  ASSUME RInv, Straight, MembersDone
  PROVE  Complete /\ Len(out) = call.size * call.nmemb
<1>1. pc = "members" /\ i = call.nmemb
  BY DEF MembersDone
<1>2. call.size \in Nat /\ call.nmemb \in Nat /\ Len(out) \in Nat
  BY Numbers DEF RInv
<1>3. Len(out) = call.nmemb * call.size
  BY <1>1 DEF RInv, Progress
<1>4. Len(out) = call.size * call.nmemb
  BY ONLY <1>2, <1>3, SMT
<1>5. Len(out) <= call.size * call.nmemb /\ Len(out) \in 0 .. Len(out)
  BY <1>2, <1>4
<1> QED BY <1>1, <1>4, <1>5, BufferIsFile DEF RInv, Complete

\* A read fails where the file ends, and not before.
LEMMA FailComplete ==
  ASSUME RInv, Straight, ReadFails
  PROVE  Complete /\ Len(out) < call.size * call.nmemb
<1>1. pc = "clusters" /\ left > 0 /\ ~is_readable_cluster(cluster)
  BY DEF ReadFails
<1>2. /\ call.size \in Nat /\ call.nmemb \in Nat /\ call.from \in Nat /\ i \in Nat
      /\ left \in Nat /\ Len(out) \in Nat /\ offset \in Nat
  BY Numbers DEF RInv
<1>3. /\ left <= call.size /\ i < call.nmemb /\ offset = call.from + i * call.size
      /\ call.from + Len(out) = Reading
  <2>1. Taken = 0 /\ Reading \in Int
    BY <1>1, <1>2 DEF Taken, Reading
  <2>2. call.from + Len(out) = Reading + Taken /\ left <= call.size
    BY <1>1 DEF RInv, Progress, Inside
  <2> QED BY <1>1, <2>1, <2>2 DEF RInv, TInv
<1>4. Len(out) < call.size * call.nmemb
  <2> DEFINE done == i * call.size
             total == call.size * call.nmemb
  <2>1. done \in Nat /\ total \in Nat
    BY ONLY <1>2, SMT
  <2>2. done + call.size <= total
    BY <1>2, <1>3, TimesMonotone
  <2>3. offset = call.from + done
    BY <1>3
  <2> HIDE DEF done, total
  <2>4. call.from + Len(out) = (call.from + done) + (call.size - left)
    BY <1>3, <2>3 DEF Reading
  <2>5. Len(out) < total
    <3>1. ASSUME NEW b \in Nat, NEW f \in Nat, NEW d \in Nat, NEW t \in Nat, NEW s \in Nat,
                 NEW l \in Nat, l > 0, d + s <= t, f + b = (f + d) + (s - l)
          PROVE  b < t
      BY <3>1
    <3> QED BY <1>1, <1>2, <2>1, <2>2, <2>4, <3>1
  <2> QED BY <2>5 DEF total
<1>5. InFile(fat, item.first, offset)
  <2>1. i \in 0 .. (call.nmemb - 1)
    BY <1>2, <1>3
  <2> QED BY <1>3, <2>1 DEF Straight
<1>6. ~InFile(fat, item.first, call.from + Len(out))
  <2>1. cluster = Nth(Reading \div ClusterBytes)
    BY <1>1, <1>5 DEF RInv, Reached, Inside
  <2> QED BY <1>1, <1>3, <2>1 DEF InFile, Nth
<1>7. Len(out) <= call.size * call.nmemb /\ Len(out) \in 0 .. (call.size * call.nmemb)
  <2>1. call.size * call.nmemb \in Nat
    BY ONLY <1>2, SMT
  <2> QED BY <1>2, <1>4, <2>1
<1> QED BY <1>1, <1>4, <1>6, <1>7, BufferIsFile DEF RInv, Complete

\* The step in which a call returns is the open file's answer.
LEMMA ReturnAnswers ==
  ASSUME RInv, MembersDone \/ ReadFails
  PROVE  Promised!Answer \/ Promised!AnswerAnything
<1>1. /\ pc # "idle" /\ pc' = "idle"
      /\ UNCHANGED <<fat, item, pos, call, out>>
      /\ MembersDone => res' = OK
      /\ ReadFails => res' = -EIO
  BY DEF MembersDone, ReadFails, disk, stream
<1>2. CASE ~Straight
  <2>1. Promised!Astray
    BY <1>2 DEF Straight, Promised!Astray, Has
  <2> QED BY <1>1, <2>1 DEF Promised!AnswerAnything
<1>3. CASE Straight
  <2>1. Complete /\ (res' = OK <=> Len(out) = call.size * call.nmemb)
    <3>1. -EIO # OK
      BY DEF EIO, OK
    <3>2. CASE MembersDone
      BY <1>1, <1>3, <3>2, DoneComplete
    <3>3. CASE ReadFails
      <4>1. Len(out) # call.size * call.nmemb
        <5>1. Len(out) \in Int
          BY Numbers DEF RInv
        <5> QED BY <1>3, <3>3, <5>1, FailComplete
      <4> QED BY <1>1, <1>3, <3>1, <3>3, <4>1, FailComplete
    <3> QED BY <3>2, <3>3
  <2> DEFINE n == Len(out)
  <2>2. PICK total : total = call.size * call.nmemb
    OBVIOUS
  <2>3. /\ n \in 0 .. total
        /\ n < total => ~Has([fat |-> fat, first |-> item.first], call.from + n)
        /\ \A k \in 0 .. (n - 1) : Has([fat |-> fat, first |-> item.first], call.from + k)
        /\ out = [k \in 1 .. n |-> Byte([fat |-> fat, first |-> item.first], call.from + k - 1)]
    BY <2>1, <2>2 DEF Complete, Has, Byte
  <2>4. [ok |-> pc' = "idle" /\ res' = OK, got |-> IF pc' = "idle" THEN out' ELSE <<>>]
          = [ok |-> n = total, got |-> out]
    BY <1>1, <2>1, <2>2
  <2> HIDE DEF n, Has, Byte
  <2>5. Promised!Answer
    BY <1>1, <2>2, <2>3, <2>4 DEF Promised!Answer, Promised!There, Promised!Total
  <2> QED BY <2>5
<1> QED BY <1>2, <1>3

LEMMA PresentedNext == RInv /\ RInv' /\ [Next]_vars => [Promised!Next]_Presented
<1> SUFFICES ASSUME RInv, RInv', [Next]_vars PROVE Promised!Next \/ UNCHANGED Presented
  BY DEF Presented
<1>1. CASE UNCHANGED vars
  BY <1>1 DEF vars, disk, stream, Presented
<1>2. ASSUME NEW off, NEW whence, fat16_seek(off, whence)
      PROVE  Promised!Next
  <2>1. pos' \in Nat
    BY FileAssumption DEF RInv, TInv, TypeOK
  <2> QED BY <1>2, <2>1 DEF fat16_seek, disk, stream, Promised!Next, Promised!Move
<1>3. ASSUME NEW size \in Sizes, NEW nmemb \in Counts, fat16_read(size, nmemb)
      PROVE  Promised!Next
  <2>1. size \in Nat /\ nmemb \in Nat
    BY FileAssumption
  <2>2. Promised!Ask
    BY <1>3, <2>1 DEF fat16_read, disk, Promised!Ask, Promised!None
  <2> QED BY <2>2 DEF Promised!Next
<1>4. CASE Step
  <2>1. MembersDone \/ ReadFails \/ pc' # "idle"
    BY <1>4 DEF Step, NextMember, Follow, FollowFails, Followed,
       ReadCluster, ReadSector, Advance, MemberDone
  <2>2. CASE pc' # "idle"
    BY <1>4, <2>2, StepHidden
  <2>3. CASE MembersDone \/ ReadFails
    BY <2>3, ReturnAnswers DEF Promised!Next
  <2> QED BY <2>1, <2>2, <2>3
<1>5. \A off, whence : SeekFails(off, whence) => UNCHANGED vars
  BY DEF SeekFails
<1> QED BY <1>1, <1>2, <1>3, <1>4, <1>5 DEF Next, Seek, Read

\* For every geometry, table, file and sequence of seeks and reads: what a
\* read returns when it does is what the open file answers, and nothing else
\* a call does can be seen.
THEOREM ImplementsTheOpenFile == Spec => ImplementsOpenFile
<1>1. Init => Promised!Init
  BY DEF Init, Promised!Init
<1>2. RInv /\ RInv' /\ [Next]_vars => [Promised!Next]_Presented
  BY PresentedNext
<1> QED
  BY <1>1, <1>2, RInvInit, RInvStep, PTL DEF Spec, ImplementsOpenFile, Promised!Spec, Presented

=============================================================================
