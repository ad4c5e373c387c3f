------------------------------ MODULE OpenFile -------------------------------
(***************************************************************************)
(* What a program may expect of a file it opened: a position that it moves *)
(* and a read does not, and reads that return the bytes from there on, or  *)
(* as many as there are and say so.  Of a read one of whose members starts *)
(* behind the end of the file it may expect nothing.                       *)
(***************************************************************************)
EXTENDS Integers, Sequences

CONSTANTS
  Has(_, _),  \* whether a file has a byte at a position
  Byte(_, _)  \* and which one

VARIABLES
  file,
  position,
  busy,      \* a read is in course
  request,   \* it, or the last one
  answer     \* what the last one returned

None == [ok |-> FALSE, got |-> <<>>]

Init ==
  /\ position = 0
  /\ busy = FALSE
  /\ answer = [ok |-> TRUE, got |-> <<>>]

Move ==
  /\ ~busy
  /\ position' \in Nat
  /\ UNCHANGED <<file, busy, request, answer>>

Ask ==
  /\ ~busy
  /\ busy' = TRUE
  /\ request' \in [size : Nat, nmemb : Nat, from : {position}]
  /\ answer' = None
  /\ UNCHANGED <<file, position>>

Total == request.size * request.nmemb

\* The first n bytes from the request's position on are there.
There(n) == \A k \in 0 .. (n - 1) : Has(file, request.from + k)

Answer ==
  /\ busy
  /\ busy' = FALSE
  /\ \E n \in 0 .. Total :
       /\ n < Total => ~Has(file, request.from + n)
       /\ There(n)
       /\ answer' = [ok |-> n = Total, got |-> [k \in 1 .. n |-> Byte(file, request.from + k - 1)]]
  /\ UNCHANGED <<file, position, request>>

\* Some member starts behind the end.
Astray ==
  \E m \in 0 .. (request.nmemb - 1) : ~Has(file, request.from + m * request.size)

AnswerAnything ==
  /\ busy
  /\ Astray
  /\ busy' = FALSE
  /\ UNCHANGED <<file, position, request>>

Next == Move \/ Ask \/ Answer \/ AnswerAnything

Spec == Init /\ [][Next]_<<file, position, busy, request, answer>>

=============================================================================
