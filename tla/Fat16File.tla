----------------------------- MODULE Fat16File -----------------------------
(***************************************************************************)
(* Seeking in and reading one open file: fat16_seek, and fat16_read with   *)
(* the loops under it, down to the streamer's loop over the disk's sectors *)
(* (disk/streamer.c).  One step per iteration of a loop.                   *)
(***************************************************************************)
EXTENDS Fat16Volume, Sequences

CONSTANTS
  Tables,   \* the tables the volume may have
  Items,    \* the directory entries the file may have
  Sizes,    \* the sizes fread is called with
  Counts,   \* and the numbers of members
  Offsets,  \* the offsets fseek is called with
  MaxPos    \* bound: how far SEEK_CUR may take the position

ASSUME FileAssumption ==
  /\ Tables \subseteq FatTables
  /\ Items \subseteq [first : {KERNEL_FAT16_UNUSED} \cup DataClusters, filesize : Nat]
  /\ Sizes \subseteq Nat \ {0}
  /\ Counts \subseteq Nat \ {0}
  /\ Offsets \subseteq Int
  /\ MaxPos \in Nat

SEEK_SET == "SEEK_SET"
SEEK_CUR == "SEEK_CUR"
SEEK_END == "SEEK_END"

VARIABLES
  fat,      \* the volume's table; nothing in the kernel writes it
  item,     \* the file's directory entry: its first cluster and its size
  pos,      \* fat_file_descriptor.pos
  pc,       \* which loop runs
  call,     \* the read in course or done last: size, nmemb, pos at the call
  i,        \* fat16_read: the members read
  offset,   \* fat16_read: where the next member starts
  cluster,  \* cluster_to_use, then cur_cluster
  ahead,    \* fat16_get_cluster_for_offset: the clusters yet to follow
  within,   \* offset_from_cur_cluster
  left,     \* fat16_read_internal_from_stream_v2: total
  spos,     \* disk_streamer.pos of cluster_read_stream
  want,     \* disk_streamer_read_bytes: total
  out,      \* the bytes written to the caller's buffer
  res       \* the result of the last read

disk == <<fat, item>>
member == <<i, offset>>
place == <<cluster, ahead, within, left>>
stream == <<spos, want, out>>
vars == <<disk, pos, pc, call, member, place, stream, res>>

Least(a, b) == IF a < b THEN a ELSE b

-----------------------------------------------------------------------------

\* A file fat16_open just opened.
Init ==
  /\ fat \in Tables
  /\ item \in Items
  /\ pos = 0
  /\ pc = "idle"
  /\ call = [size |-> 0, nmemb |-> 0, from |-> 0]
  /\ i = 0 /\ offset = 0
  /\ cluster = 0 /\ ahead = 0 /\ within = 0 /\ left = 0
  /\ spos = 0 /\ want = 0 /\ out = <<>>
  /\ res = OK

\* The comparison with filesize is unsigned: a negative offset is too large.
SeekAllowed(off, whence) ==
  /\ 0 <= off
  /\ off <= item.filesize
  /\ whence \in {SEEK_SET, SEEK_CUR}

fat16_seek(off, whence) ==
  /\ pc = "idle"
  /\ SeekAllowed(off, whence)
  /\ pos' = IF whence = SEEK_SET THEN off ELSE pos + off
  /\ pos' <= MaxPos
  /\ UNCHANGED <<disk, pc, call, member, place, stream, res>>

\* SEEK_END is not implemented.
SeekFails(off, whence) ==
  /\ pc = "idle"
  /\ ~SeekAllowed(off, whence)
  /\ UNCHANGED vars

\* fread refuses no bytes and no members; fat16_read starts at desc->pos,
\* which it does not move.
fat16_read(size, nmemb) ==
  /\ pc = "idle"
  /\ call' = [size |-> size, nmemb |-> nmemb, from |-> pos]
  /\ i' = 0
  /\ offset' = pos
  /\ out' = <<>>
  /\ pc' = "members"
  /\ UNCHANGED <<disk, pos, place, spos, want, res>>

\* Enters fat16_read_internal_from_stream_v2 and fat16_get_cluster_for_offset.
NextMember ==
  /\ pc = "members"
  /\ i < call.nmemb
  /\ cluster' = item.first
  /\ ahead' = offset \div ClusterBytes
  /\ within' = offset % ClusterBytes
  /\ left' = call.size
  /\ pc' = "follow"
  /\ UNCHANGED <<disk, pos, call, member, stream, res>>

MembersDone ==
  /\ pc = "members"
  /\ i = call.nmemb
  /\ res' = OK
  /\ pc' = "idle"
  /\ UNCHANGED <<disk, pos, call, member, place, stream>>

\* A slip in the loop of fat16_get_cluster_for_offset: it counts nothing.
FollowForever ==
  LET entry == fat16_get_fat_entry(fat, cluster)
  IN /\ pc = "follow"
     /\ ahead > 0
     /\ is_readable_cluster(entry)
     /\ cluster' = entry
     /\ UNCHANGED <<disk, pos, pc, call, member, ahead, within, left, stream, res>>

\* The loop of fat16_get_cluster_for_offset.
Follow ==
  LET entry == fat16_get_fat_entry(fat, cluster)
  IN /\ pc = "follow"
     /\ ahead > 0
     /\ is_readable_cluster(entry)
     /\ cluster' = entry
     /\ ahead' = ahead - 1
     /\ UNCHANGED <<disk, pos, pc, call, member, within, left, stream, res>>

\* It returns -EIO, which its caller takes for a cluster.
FollowFails ==
  /\ pc = "follow"
  /\ ahead > 0
  /\ ~is_readable_cluster(fat16_get_fat_entry(fat, cluster))
  /\ cluster' = -EIO
  /\ ahead' = 0
  /\ pc' = "clusters"
  /\ UNCHANGED <<disk, pos, call, member, within, left, stream, res>>

Followed ==
  /\ pc = "follow"
  /\ ahead = 0
  /\ pc' = "clusters"
  /\ UNCHANGED <<disk, pos, call, member, place, stream, res>>

\* A slip in it: more than the rest of the cluster is read at once.
WholeRequest == left

\* What is read of the current cluster: available_in_cur_cluster or total.
Chunk == Least(left, ClusterBytes - within)

\* The loop of fat16_read_internal_from_stream_v2, up to the streamer's call.
ReadCluster ==
  /\ pc = "clusters"
  /\ left > 0
  /\ is_readable_cluster(cluster)
  /\ spos' = PositionIn(cluster, within)
  /\ want' = Chunk
  /\ pc' = "sectors"
  /\ UNCHANGED <<disk, pos, call, member, place, out, res>>

\* A slip in fat16_read_internal_from_stream_v2: `res = -EIO` forgotten.
ReadFailsSilently ==
  /\ pc = "clusters"
  /\ left > 0
  /\ ~is_readable_cluster(cluster)
  /\ res' = OK
  /\ pc' = "idle"
  /\ UNCHANGED <<disk, pos, call, member, place, stream>>

ReadFails ==
  /\ pc = "clusters"
  /\ left > 0
  /\ ~is_readable_cluster(cluster)
  /\ res' = -EIO
  /\ pc' = "idle"
  /\ UNCHANGED <<disk, pos, call, member, place, stream>>

\* A slip in disk_streamer_read_bytes: it does not call itself for the rest.
ReadOneSector ==
  LET readable == SectorSize - (spos % SectorSize)
      n == Least(want, readable)
  IN /\ pc = "sectors"
     /\ out' = out \o [k \in 1 .. n |-> spos + k - 1]
     /\ spos' = spos + n
     /\ want' = want - n
     /\ pc' = "advance"
     /\ UNCHANGED <<disk, pos, call, member, place, res>>

\* One call of disk_streamer_read_bytes, which calls itself when the bytes
\* wanted are not all in the sector.
ReadSector ==
  LET readable == SectorSize - (spos % SectorSize)
      n == Least(want, readable)
  IN /\ pc = "sectors"
     /\ out' = out \o [k \in 1 .. n |-> spos + k - 1]
     /\ spos' = spos + n
     /\ want' = want - n
     /\ pc' = IF want > readable THEN "sectors" ELSE "advance"
     /\ UNCHANGED <<disk, pos, call, member, place, res>>

\* A slip in the rest of the iteration: offset_from_cur_cluster is kept.
AdvanceKeepsOffset ==
  /\ pc = "advance"
  /\ left' = left - Chunk
  /\ IF Chunk = ClusterBytes - within
       THEN cluster' = fat16_get_fat_entry(fat, cluster)
       ELSE UNCHANGED cluster
  /\ pc' = "clusters"
  /\ UNCHANGED <<disk, pos, call, member, ahead, within, stream, res>>

\* The rest of the iteration, after the streamer returned.
Advance ==
  /\ pc = "advance"
  /\ left' = left - Chunk
  /\ IF Chunk = ClusterBytes - within
       THEN /\ cluster' = fat16_get_fat_entry(fat, cluster)
            /\ within' = 0
       ELSE UNCHANGED <<cluster, within>>
  /\ pc' = "clusters"
  /\ UNCHANGED <<disk, pos, call, member, ahead, stream, res>>

MemberDone ==
  /\ pc = "clusters"
  /\ left = 0
  /\ i' = i + 1
  /\ offset' = offset + call.size
  /\ pc' = "members"
  /\ UNCHANGED <<disk, pos, call, place, stream, res>>

Step ==
  \/ NextMember \/ MembersDone
  \/ Follow \/ FollowFails \/ Followed
  \/ ReadCluster \/ ReadFails \/ ReadSector \/ Advance \/ MemberDone

Seek ==
  \E off \in Offsets, whence \in {SEEK_SET, SEEK_CUR, SEEK_END} :
    fat16_seek(off, whence) \/ SeekFails(off, whence)

Read == \E size \in Sizes, nmemb \in Counts : fat16_read(size, nmemb)

Next == Seek \/ Read \/ Step

\* A call that runs goes on running: nothing blocks it.
Spec == Init /\ [][Next]_vars /\ WF_vars(Step)

-----------------------------------------------------------------------------
(* Properties *)

TypeOK ==
  /\ fat \in Tables
  /\ item \in Items
  /\ pos \in 0 .. MaxPos
  /\ pc \in {"idle", "members", "follow", "clusters", "sectors", "advance"}
  /\ call \in [size : Nat, nmemb : Nat, from : 0 .. MaxPos]
  /\ i \in 0 .. call.nmemb
  /\ offset \in Nat
  /\ cluster \in FatEntry \cup {65528, -EIO}
  /\ ahead \in Nat
  /\ within \in 0 .. (ClusterBytes - 1)
  /\ left \in Nat
  /\ spos \in Int
  /\ want \in 0 .. ClusterBytes
  /\ out \in Seq(Int)
  /\ res \in {OK, -EIO}

\* Where the member starts that byte k of the read's buffer belongs to.
MemberStart(k) == call.from + (k \div call.size) * call.size

\* However the read is cut by members, clusters and sectors, what it put in
\* the buffer so far are the file's bytes from the position on, in order, as
\* long as each member starts before the end of the file's clusters.
RightBytes ==
  \A k \in 0 .. (Len(out) - 1) :
    InFile(fat, item.first, MemberStart(k)) =>
      /\ InFile(fat, item.first, call.from + k)
      /\ out[k + 1] = FileByte(fat, item.first, call.from + k)

\* The bytes the read was asked for.
Asked == call.from .. (call.from + call.size * call.nmemb - 1)

\* A read that ends before the chain does succeeds, and fills the buffer; one
\* that reaches the end of the chain within a member fails.
RightResult ==
  pc = "idle" /\ call.nmemb > 0 =>
    /\ (\A k \in Asked : InFile(fat, item.first, k)) =>
         res = OK /\ Len(out) = call.size * call.nmemb
    /\ (\E k \in Asked :
          /\ ~InFile(fat, item.first, k)
          /\ InFile(fat, item.first, MemberStart(k - call.from))) =>
         res = -EIO

\* A read that succeeds gave its caller bytes of the file's clusters only.
OkMeansInFile ==
  pc = "idle" /\ res = OK => \A k \in Asked : InFile(fat, item.first, k)

\* What a member may still take: at most the clusters before it, and three
\* steps for each byte.
MemberSteps ==
  ((call.from + call.size * call.nmemb) \div ClusterBytes) + 3 * call.size + 3

\* What is left of the member that is being read.
StepsInMember ==
  CASE pc = "follow"                -> ahead + 3 * left + 3
    [] pc = "clusters"              -> 3 * left + 2
    [] pc \in {"sectors", "advance"} -> 3 * (left - Chunk) + want + 3
    [] OTHER                        -> 0

\* A bound on the steps until fat16_read returns.
StepsLeft ==
  CASE pc = "idle"    -> 0
    [] pc = "members" -> (call.nmemb - i) * MemberSteps + 1
    [] OTHER          -> (call.nmemb - i - 1) * MemberSteps + StepsInMember

\* Every step of a read takes it nearer to its return, in every chain: the
\* loops count what they follow and what they read, never where the chain ends.
ReadAdvances == [][pc # "idle" => StepsLeft' \in 0 .. (StepsLeft - 1)]_vars

Has(file, k) == InFile(file.fat, file.first, k)
Byte(file, k) == FileByte(file.fat, file.first, k)

\* The open file that fseek and fread present: its bytes are what the clusters
\* of its chain hold, and a read answers when fat16_read returns.
Promised == INSTANCE OpenFile WITH
  file <- [fat |-> fat, first |-> item.first],
  position <- pos,
  busy <- pc # "idle",
  request <- call,
  answer <- [ok |-> pc = "idle" /\ res = OK, got |-> IF pc = "idle" THEN out ELSE <<>>]

\* fseek and fread implement the open file: however a read is cut, if all its
\* members start in the file it returns all the bytes it was asked for, or
\* those up to the end and a failure; no read moves the position.
ImplementsOpenFile == Promised!Spec

\* Every read ends, also in a chain that is a cycle.
ReadEnds == pc = "members" ~> pc = "idle"

=============================================================================
