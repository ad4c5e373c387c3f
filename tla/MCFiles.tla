------------------------------ MODULE MCFiles ------------------------------
(* Instances of Files for TLC. *)
EXTENDS Files

CONSTANTS
  a, b, c, f, up,  \* names: three directories, a file, `..`
  top, na, nb, nc, nf, ng, zero

\* A directory's own entries `.` are left out: no path names them.
Dir(name, node) == [name |-> name, node |-> node, subdirectory |-> TRUE]
File(name, node) == [name |-> name, node |-> node, subdirectory |-> FALSE]

Listings(root, ofA, ofB) ==
  [n \in Nodes |->
     CASE n = top -> root
       [] n = na -> ofA
       [] n = nb -> ofB
       [] n = nc -> <<File(f, nf)>>
       [] OTHER -> <<>>]

\* As the image is built: /a/b/f, and a file in front of a, and a directory c.
\* The entry `..` of a directory in the root has cluster 0.
Below(root) ==
  Listings(root, <<Dir(up, zero), Dir(b, nb)>>, <<Dir(up, na), File(f, nf)>>)

Plain == Below(<<File(f, ng), Dir(a, na), Dir(c, nc)>>)

\* The file in front of a was deleted.
Holed == Below(<<Deleted, Dir(a, na), Dir(c, nc)>>)

PlainAndHoled == {Plain, Holed}
OnlyHoled == {Holed}
OnlyPlain == {Plain}

Path(names) == [names |-> names, parses |-> TRUE, drive |-> 0]

Read(path) == [path |-> path, mode |-> "r"]

\* Files and directories that exist at every depth; then, in this order, a
\* name missing below a directory, missing inside the path, below a file, a
\* broken directory and a path through it, another drive, another mode, and
\* a path that does not parse.
SomeRequests ==
  {Read(Path(<<f>>)), Read(Path(<<a, b>>)), Read(Path(<<a, b, f>>)),
   Read(Path(<<a, f>>)), Read(Path(<<a, f, f>>)), Read(Path(<<f, a>>)),
   Read(Path(<<c>>)), Read(Path(<<c, f, f>>)),
   Read([Path(<<f>>) EXCEPT !.drive = 1]), [Read(Path(<<f>>)) EXCEPT !.mode = "w"],
   Read([Path(<<f>>) EXCEPT !.parses = FALSE])}

ToParent == {Read(Path(<<a, up>>))}

DemoPath == {[Path(<<a, f>>) EXCEPT !.drive = 1]}

\* These meet the premises of the theorems on Files; a path through `..` does
\* not.
ASSUME Premises ==
  /\ \A v \in PlainAndHoled :
       NamedHaveEntries(v, DemoPath \cup {r.path : r \in SomeRequests}) /\ NamesUnique(v)
  /\ ~NamedHaveEntries(Plain, {r.path : r \in ToParent})

=============================================================================
