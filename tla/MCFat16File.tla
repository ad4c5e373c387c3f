---------------------------- MODULE MCFat16File ----------------------------
(* Instances of Fat16File for TLC. *)
EXTENDS Fat16File

\* Backwards, not at all, by a byte, by a cluster.
MCOffsets == {-1, 0, 1, 4}

\* Chains that end well, in a bad or a free cluster, or never.
AllTables == FatTables

\* An empty file has no cluster.
SomeItems == {[first |-> 0, filesize |-> 0], [first |-> 2, filesize |-> 7]}

\* A file of two full clusters, as any system writes it.
OneTable ==
  {[c \in 0 .. (Clusters + 1) |->
      CASE c = 0 -> 65528
        [] c = 2 -> 3
        [] OTHER -> LastCluster]}

FullItem == {[first |-> 2, filesize |-> 2 * ClusterBytes]}
=============================================================================
