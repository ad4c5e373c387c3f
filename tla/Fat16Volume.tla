---------------------------- MODULE Fat16Volume ----------------------------
(***************************************************************************)
(* The layout of a FAT16 volume as fs/fat/fat16.c computes it, and what    *)
(* the bytes of a file are.  A byte of the disk is told apart from the     *)
(* others by its position.  The file allocation table is a function from   *)
(* clusters to 16-bit entries.                                             *)
(***************************************************************************)
EXTENDS Integers

CONSTANTS
  SectorSize,         \* disk_t.sector_size, DISK_SECTOR_SIZE
  SectorsPerCluster,  \* fat_header.sectors_per_cluster
  FirstDataSector,    \* root_directory.ending_sector_pos
  Clusters            \* the number of data clusters, numbered from 2

ASSUME VolumeAssumption ==
  /\ SectorSize \in Nat \ {0}
  /\ SectorsPerCluster \in Nat \ {0}
  /\ FirstDataSector \in Nat \ {0}
  /\ Clusters \in Nat \ {0}

OK == 0
EIO == 1

DataClusters == 2 .. (Clusters + 1)

KERNEL_FAT16_UNUSED == 0
KERNEL_FAT16_BAD_SECTOR == 65527
LastCluster == 65535

\* The entries a file's clusters may have on a volume another system wrote:
\* another cluster, or one of the marks.
FatEntry ==
  DataClusters \cup {KERNEL_FAT16_UNUSED, KERNEL_FAT16_BAD_SECTOR, LastCluster}

\* Entries 0 and 1 hold the media type and an end mark.
FatTables ==
  {f \in [0 .. (Clusters + 1) -> FatEntry \cup {65528}] :
     /\ f[0] = 65528
     /\ f[1] = LastCluster
     /\ \A c \in DataClusters : f[c] \in FatEntry}

ClusterBytes == SectorsPerCluster * SectorSize

fat16_cluster_to_sector(cluster) ==
  FirstDataSector + (cluster - 2) * SectorsPerCluster

\* Before the table are the reserved sectors, the last of which the image
\* fills with zeros (Makefile, $(OS_BIN)).
fat16_get_fat_entry(fat, cluster) ==
  IF cluster \in DOMAIN fat THEN fat[cluster] ELSE 0

is_readable_cluster(entry) ==
  /\ entry < 65528
  /\ entry # KERNEL_FAT16_BAD_SECTOR
  /\ entry \notin {65520, 65526}
  /\ entry # KERNEL_FAT16_UNUSED

\* The position on the disk of a byte of a cluster.
PositionIn(cluster, offset) ==
  offset + fat16_cluster_to_sector(cluster) * SectorSize

-----------------------------------------------------------------------------
(* What a file is, whatever the code does: the clusters reached from the   *)
(* first one by the table's entries, up to the first that is not readable. *)

ClusterAt(fat, first, n) ==
  LET at[m \in Nat] ==
        IF m = 0
          THEN first
          ELSE IF is_readable_cluster(at[m - 1])
                 THEN fat16_get_fat_entry(fat, at[m - 1])
                 ELSE at[m - 1]
  IN at[n]

InFile(fat, first, k) ==
  is_readable_cluster(ClusterAt(fat, first, k \div ClusterBytes))

FileByte(fat, first, k) ==
  PositionIn(ClusterAt(fat, first, k \div ClusterBytes), k % ClusterBytes)

=============================================================================
