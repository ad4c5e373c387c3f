---------------------------- MODULE MCKernelMain -----------------------------
(* An instance of KernelMain for TLC.  Limits have 6 bits (3 in limit_first, *)
(* 1 in limit_high, units of 4), bases 5; two page tables of two pages.      *)
EXTENDS KernelMain

Seg(base, limit) == [base |-> base, limit |-> limit, access_type |-> base + limit]

\* The kernel's: four segments of all memory, and the task state.
KernelSegments == <<Seg(0, 63), Seg(0, 63), Seg(0, 63), Seg(0, 63), Seg(19, 5)>>

\* Every limit that can be encoded, each with another base.
AllLimits ==
  [m \in 1 .. 22 |-> Seg((5 * m) % 32, IF m <= 8 THEN m - 1 ELSE (4 * (m - 8)) + 7)]

\* One in the middle that cannot: its limit is not of whole pages.
OneBad == <<Seg(0, 63), Seg(0, 63), Seg(0, 8), Seg(0, 63)>>

FromZero(s) == [m \in 0 .. Len(s) |-> IF m = 0 THEN Seg(0, 0) ELSE s[m]]

Tables == {FromZero(KernelSegments), FromZero(AllLimits), FromZero(OneBad)}

\* A page of another without a right to write, and one that is not present.
Entered == {21, 8}

\* Of a digit, the two separators and a letter; then longer ones that parse,
\* up to one too long, the last digit, and what is before the first.
Strings ==
  UNION {[1 .. m -> {48, 47, 58, 97}] : m \in 0 .. 4}
    \cup {<<48, 58, 47>> \o rest : rest \in UNION {[1 .. m -> {47, 97}] : m \in 2 .. 4}}
    \cup {<<57, 58, 47, 97>>, <<46, 58, 47, 97>>}

\* One letter or two, in either case, and an extension or none; and `.` and `..`.
Entries83 ==
  [filename : {65, 97} \X {65, 97, 32}, ext : {<<65>>, <<97>>, <<32>>}]
    \cup [filename : {46} \X {32, 46}, ext : {<<32>>}]

ASSUME Premises == Fields83(Entries83)

Numbers0 == (0 .. 120) \cup {999, 1000, 1048576, 2097153, 2147483647}

=============================================================================
