------------------------------ MODULE Fat16Dir ------------------------------
(***************************************************************************)
(* Directories of a FAT16 volume as fs/fat/fat16.c reads them: counting    *)
(* the entries, and looking a name up.  A directory is the sequence of its *)
(* 32-byte entries up to the first that begins with 0.  Names are compared *)
(* without regard to case (istrncmp), so a name stands for all its         *)
(* spellings.                                                              *)
(***************************************************************************)
EXTENDS Integers, FiniteSets, Sequences

CONSTANTS
  Names,  \* the names entries and paths may have
  Nodes   \* the files and directories of a volume, by first cluster

\* An entry that begins with 0xE5: it was deleted.
Deleted == [deleted |-> TRUE]

\* FAT_FILE_SUBDIRECTORY set or not, and fat16_get_first_cluster.
DirectoryItem == [name : Names, subdirectory : BOOLEAN, node : Nodes]

Listing == Seq(DirectoryItem \cup {Deleted})

HasDeleted(d) == \E i \in DOMAIN d : d[i] = Deleted

Used(d) == {i \in DOMAIN d : d[i] # Deleted}

fat16_get_total_items_for_directory(d) == Cardinality(Used(d))

\* A slip in it: the scan starts at the second entry.
MatchesFromSecond(d, name) ==
  {i \in Used(d) :
     /\ 1 < i
     /\ i <= fat16_get_total_items_for_directory(d)
     /\ d[i].name = name}

\* The positions at which the lookup's scan would stop.  It looks at as many
\* entries from the first on as there are used ones.
Matches(d, name) ==
  {i \in Used(d) :
     /\ i <= fat16_get_total_items_for_directory(d)
     /\ d[i].name = name}

FirstMatch(d, name) ==
  CHOOSE i \in Matches(d, name) : \A j \in Matches(d, name) : i <= j

-----------------------------------------------------------------------------
(* What a path denotes, whatever the code does. *)

IsIn(d, name) == \E i \in Used(d) : d[i].name = name

ItemNamed(d, name) == d[CHOOSE i \in Used(d) : d[i].name = name]

\* The directory that the first k names of a path lead to is reached from
\* the root; Nowhere when one of them is missing or a file.
Nowhere == [nowhere |-> TRUE]

Walk(volume, root, names) ==
  LET at[k \in 0 .. Len(names)] ==
        IF k = 0
          THEN [name |-> "/", subdirectory |-> TRUE, node |-> root]
          ELSE IF /\ at[k - 1] # Nowhere
                  /\ at[k - 1].subdirectory
                  /\ IsIn(volume[at[k - 1].node], names[k])
                 THEN ItemNamed(volume[at[k - 1].node], names[k])
                 ELSE Nowhere
  IN at[Len(names)]

-----------------------------------------------------------------------------
(* What a volume usually is. *)

\* Every subdirectory that an entry with a name of one of the paths leads to
\* has entries.  Its `.` alone is one; only the `..` of a directory in the root
\* leads to cluster 0, where none are.
NamedHaveEntries(volume, paths) ==
  \A n \in Nodes : \A i \in Used(volume[n]) :
    /\ volume[n][i].subdirectory
    /\ \E p \in paths : \E k \in DOMAIN p.names : p.names[k] = volume[n][i].name
    => Used(volume[volume[n][i].node]) # {}

\* No two entries of a directory have the same name.
NamesUnique(volume) ==
  \A n \in Nodes : \A i, j \in Used(volume[n]) :
    volume[n][i].name = volume[n][j].name => i = j

=============================================================================
