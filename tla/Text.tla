-------------------------------- MODULE Text ---------------------------------
(***************************************************************************)
(* The kernel's conversions of text, as functions: parsing a path          *)
(* (fs/pparser.c), numbers to decimals (string/string.c), the file names   *)
(* of directory entries and their comparison (fs/fat/fat16.c).  Characters *)
(* are their ASCII codes; a string is a sequence of them, without the      *)
(* terminating 0.                                                          *)
(***************************************************************************)
EXTENDS Integers, Sequences, SequencesExt, FiniteSetsExt

CONSTANT
  PPARSER_MAX_PATH  \* 256

ASSUME TextAssumption == PPARSER_MAX_PATH \in Nat

NUL == 0
SPACE == 32
DOT == 46
SLASH == 47
COLON == 58

\* Reading s[n - 1] in C, up to the terminating 0.
At(s, n) == IF n <= Len(s) THEN s[n] ELSE NUL

is_digit(c) == 48 <= c /\ c <= 57

\* The first position at which two strings of one length differ, or 0.
FirstDifference(l, r) ==
  LET d == {n \in DOMAIN l : l[n] # r[n]} IN IF d = {} THEN 0 ELSE Min(d)

memcmp(l, r) ==
  LET n == FirstDifference(l, r)
  IN IF n = 0 THEN 0 ELSE IF l[n] < r[n] THEN -1 ELSE 1

-----------------------------------------------------------------------------
(* pparser_parse_path_root *)

\* A slip in it: what is empty ends the path.
PartsToEmpty(s) ==
  LET from[n \in 4 .. (Len(s) + 2)] ==
        LET slashes == {m \in n .. Len(s) : s[m] = SLASH}
        IN IF slashes = {} \/ n \in slashes
             THEN <<SubSeq(s, n, Len(s))>>
             ELSE <<SubSeq(s, n, Min(slashes) - 1)>> \o from[Min(slashes) + 1]
  IN from[4]

pparser_parse_path_parts(s) ==
  LET from[n \in 4 .. (Len(s) + 2)] ==
        LET slashes == {m \in n .. Len(s) : s[m] = SLASH}
        IN IF slashes = {}
             THEN <<SubSeq(s, n, Len(s))>>
             ELSE <<SubSeq(s, n, Min(slashes) - 1)>> \o from[Min(slashes) + 1]
  IN from[4]

\* The digit in front, or -1; char_to_numeric.
pparser_parse_drive_no(s) == IF is_digit(At(s, 1)) THEN At(s, 1) - 48 ELSE -1

EINVARG == [parses |-> FALSE, drive |-> 0, names |-> <<>>]

\* Only what is greater than :/ is refused after the drive.
validate_start_of_path(s) == memcmp(<<COLON, SLASH>>, <<At(s, 2), At(s, 3)>>) >= 0

pparser_parse_path_root(s) ==
  IF Len(s) > PPARSER_MAX_PATH \/ pparser_parse_drive_no(s) < 0 \/ ~validate_start_of_path(s)
    THEN EINVARG
    ELSE [parses |-> TRUE, drive |-> pparser_parse_drive_no(s),
          \* Shorter ones are read from past their end.
          names |-> IF Len(s) < 3 THEN <<>> ELSE pparser_parse_path_parts(s)]

-----------------------------------------------------------------------------
(* itoa *)

\* The loop's digits, the last one first: leaving out reverse is a slip.
Digits(i) ==
  LET from[n \in 0 .. i] == IF n = 0 THEN <<>> ELSE <<(n % 10) + 48>> \o from[n \div 10]
  IN from[i]

itoa(i) == Reverse(Digits(i))

-----------------------------------------------------------------------------
(* File names of directory entries *)

fat16_to_proper_string(field) ==
  LET ends == {n \in DOMAIN field : field[n] \in {NUL, SPACE}}
  IN IF ends = {} THEN field ELSE SubSeq(field, 1, Min(ends) - 1)

\* A slip in it: no dot is put in.
NameWithoutDot(item) ==
  fat16_to_proper_string(item.filename) \o fat16_to_proper_string(item.ext)

fat16_get_full_relative_filename(item) ==
  fat16_to_proper_string(item.filename) \o
    (IF item.ext[1] \in {NUL, SPACE} THEN <<>> ELSE <<DOT>> \o fat16_to_proper_string(item.ext))

tolower(c) == IF 65 <= c /\ c <= 90 THEN c + 32 ELSE c

\* 0 when two strings are the same but for case, else how they differ where
\* they do first.
istrncmp(l, r) ==
  LET ends == 1 .. (Max({Len(l), Len(r)}) + 1)
      d == {n \in ends : tolower(At(l, n)) # tolower(At(r, n))}
  IN IF d = {} THEN 0 ELSE IF At(l, Min(d)) > At(r, Min(d)) THEN 1 ELSE -1

-----------------------------------------------------------------------------
(* What directory entries usually are. *)

\* A name and an extension fill their fields, with spaces behind them.  An
\* extension has no dot in it, nor has a name without one, but for the entries
\* `.` and `..`, which are of dots only.
Filled(field) ==
  /\ field \in Seq(Nat \ {NUL})
  /\ \A m, l \in DOMAIN field : m < l /\ field[m] = SPACE => field[l] = SPACE

Fields83(items) ==
  /\ \A e \in items :
       /\ Filled(e.filename) /\ Filled(e.ext) /\ e.ext # <<>>
       /\ DOT \notin Range(e.ext)
       /\ e.ext[1] = SPACE => DOT \notin Range(e.filename) \/ Range(e.filename) \subseteq {DOT, SPACE}
  /\ \A e, f \in items : Len(e.filename) = Len(f.filename) /\ Len(e.ext) = Len(f.ext)

=============================================================================
