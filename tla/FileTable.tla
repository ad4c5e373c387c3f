----------------------------- MODULE FileTable -----------------------------
(***************************************************************************)
(* What a program may expect of fopen and fclose: numbers for open files.  *)
(***************************************************************************)
CONSTANTS
  Descriptors,  \* the numbers fopen may return
  Nodes,        \* the files and directories
  Closed        \* the value of a number that is not in use

VARIABLE file   \* file[fd]: what fd was opened for

Init == file = [fd \in Descriptors |-> Closed]

Open(fd, node) ==
  /\ file[fd] = Closed
  /\ file' = [file EXCEPT ![fd] = node]

Close(fd) ==
  /\ file[fd] # Closed
  /\ file' = [file EXCEPT ![fd] = Closed]

Next ==
  \E fd \in Descriptors :
    \/ \E node \in Nodes \ {Closed} : Open(fd, node)
    \/ Close(fd)

Spec == Init /\ [][Next]_file

=============================================================================
