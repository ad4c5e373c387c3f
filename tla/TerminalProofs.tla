--------------------------- MODULE TerminalProofs ---------------------------
(***************************************************************************)
(* Proofs about the terminal, for every width, text, message and number of *)
(* interrupts.                                                             *)
(***************************************************************************)
EXTENDS Terminal, Arithmetic, FiniteSetTheorems

\* What CursorOnScreen rests on: what the kernel is about to store is the
\* column of a moment when it was on the screen.
CInv ==
  /\ TypeOK
  /\ CursorOnScreen
  /\ pc = "storeCol" => reg < Width
  /\ pc \in Inside => at <= Len(text)

LEMMA WrittenDomain ==
  ASSUME DOMAIN screen \subseteq Nat, NEW position \in Nat, NEW char
  PROVE  DOMAIN Put(position, char) \subseteq Nat
BY DEF Put

LEMMA ProductType ==
  ASSUME NEW m \in Nat, NEW n \in Nat, NEW k \in Nat
  PROVE  m * n + k \in Nat
BY SMT

LEMMA CInvInit == Init => CInv
<1> SUFFICES ASSUME Init PROVE CInv
  OBVIOUS
<1>1. DOMAIN screen = {}
  BY DEF Init
<1>2. 0 <= Width /\ Width # 0 /\ 0 \in 0 .. MaxIrqs /\ 0 \in 0 .. (Len(Message) + 1)
  BY TerminalAssumption
<1>3. text \in Seq(Chars \cup {NewLine}) /\ log \in Seq(Chars \cup {NewLine})
  BY DEF Init
<1>4. at \in 1 .. (Len(text) + 1)
  BY DEF Init
<1> QED BY <1>1, <1>2, <1>3, <1>4 DEF Init, CInv, TypeOK, CursorOnScreen, Inside

\* A step of the kernel's print_char.
LEMMA PrintKeepsCursor ==
  ASSUME CInv, PrintStep
  PROVE  CInv'
<1> USE DEF CInv, cursor, history, kernel
<1>0. /\ Width \in Nat \ {0} /\ text \in Seq(Chars \cup {NewLine})
      /\ Len(text) \in Nat /\ at \in 1 .. (Len(text) + 1)
      /\ row \in Nat /\ col \in Nat /\ reg \in Nat
  BY TerminalAssumption DEF TypeOK
<1>1. CASE PrintEnds
  BY <1>1 DEF PrintEnds, TypeOK, CursorOnScreen, Inside
<1>2. CASE StartNewLine
  <2>1. log' \in Seq(Chars \cup {NewLine})
    BY <1>2 DEF StartNewLine, TypeOK
  <2> QED BY <1>0, <1>2, <2>1 DEF StartNewLine, TypeOK, CursorOnScreen, Inside
<1>3. CASE StartChar
  <2>1. text[at] \in Chars \cup {NewLine}
    BY <1>0, <1>3 DEF StartChar
  <2>2. log' \in Seq(Chars \cup {NewLine})
    BY <1>3, <2>1 DEF StartChar, TypeOK
  <2> QED BY <1>0, <1>3, <2>2 DEF StartChar, TypeOK, CursorOnScreen, Inside
<1>4. CASE Place
  <2>1. reg' \in Nat
    BY <1>0, <1>4, ProductType DEF Place
  <2> QED BY <1>4, <2>1 DEF Place, TypeOK, CursorOnScreen, Inside
<1>5. CASE Write
  <2>1. DOMAIN screen' \subseteq Nat
    BY <1>0, <1>5, WrittenDomain DEF Write, TypeOK
  <2> QED BY <1>5, <2>1 DEF Write, TypeOK, CursorOnScreen, Inside
<1>6. CASE LoadCol
  BY <1>0, <1>6 DEF LoadCol, TypeOK, CursorOnScreen, Inside
<1>7. CASE StoreCol
  BY <1>0, <1>7 DEF StoreCol, TypeOK, CursorOnScreen, Inside
<1>8. CASE NoWrap \/ StoreRow
  <2>1. at' \in 1 .. (Len(text') + 1)
    <3>1. at <= Len(text)
      BY <1>8 DEF NoWrap, StoreRow, TypeOK
    <3> QED BY <1>0, <1>8, <3>1 DEF NoWrap, StoreRow
  <2>2. row' \in Nat /\ col' = col /\ pc' = "next" /\ col < Width
    BY <1>0, <1>8 DEF NoWrap, StoreRow, CursorOnScreen
  <2> QED BY <1>8, <2>1, <2>2 DEF NoWrap, StoreRow, TypeOK, CursorOnScreen, Inside
<1>9. CASE Wrap
  BY <1>9 DEF Wrap, TypeOK, CursorOnScreen, Inside
<1>10. CASE Home \/ LoadRow
  BY <1>0, <1>10 DEF Home, LoadRow, TypeOK, CursorOnScreen, Inside
<1> QED
  BY <1>1, <1>2, <1>3, <1>4, <1>5, <1>6, <1>7, <1>8, <1>9, <1>10 DEF PrintStep

LEMMA CInvStep == CInv /\ [Next]_vars => CInv'
<1> SUFFICES ASSUME CInv, [Next]_vars PROVE CInv'
  OBVIOUS
<1> USE DEF CInv, cursor, history, kernel
<1>0. /\ Width \in Nat \ {0} /\ Message \in Seq(Chars) /\ Len(Message) \in Nat
      /\ row \in Nat /\ col \in Nat /\ MaxIrqs \in Nat
  BY TerminalAssumption DEF TypeOK
<1>1. CASE UNCHANGED vars
  BY <1>1 DEF vars, TypeOK, CursorOnScreen
<1>2. CASE idtr_init
  BY <1>2 DEF idtr_init, TypeOK, CursorOnScreen
<1>3. ASSUME NEW t \in Texts, print_string(t) PROVE CInv'
  <2>1. t \in Seq(Chars \cup {NewLine})
    BY TerminalAssumption
  <2>2. 1 \in 1 .. (Len(t) + 1)
    BY <2>1
  <2> QED BY <1>3, <2>1, <2>2 DEF print_string, TypeOK, CursorOnScreen, Inside
<1>4. CASE PrintStep
  BY <1>4, PrintKeepsCursor
<1>5. CASE Interrupt
  BY <1>0, <1>5 DEF Interrupt, TypeOK, CursorOnScreen
<1>6. CASE HandlerPrints
  <2>1. DOMAIN screen' \subseteq Nat
    <3>1. row * Width + col \in Nat
      BY <1>0, ProductType
    <3> QED BY <1>6, <3>1, WrittenDomain DEF HandlerPrints, TypeOK
  <2>2. log' \in Seq(Chars \cup {NewLine})
    <3>1. Message[hat] \in Chars
      BY <1>0, <1>6 DEF HandlerPrints
    <3> QED BY <1>6, <3>1 DEF HandlerPrints, TypeOK
  <2>3. row' \in Nat /\ col' \in Nat /\ col' < Width
    BY <1>0, <1>6 DEF HandlerPrints
  <2>4. hat' \in 0 .. (Len(Message) + 1)
    BY <1>0, <1>6 DEF HandlerPrints
  <2> QED BY <1>0, <1>6, <2>1, <2>2, <2>3, <2>4
        DEF HandlerPrints, TypeOK, CursorOnScreen
<1>7. CASE HandlerReturns
  BY <1>0, <1>7 DEF HandlerReturns, TypeOK, CursorOnScreen
<1> QED
  BY <1>1, <1>2, <1>3, <1>4, <1>5, <1>6, <1>7 DEF Next, HandlerStep

\* Every variable keeps its type, wherever interrupts cut print_char.
THEOREM TypeCorrect == Spec => []TypeOK
<1>1. CInv => TypeOK
  BY DEF CInv
<1> QED BY <1>1, CInvInit, CInvStep, PTL DEF Spec

\* The cursor stays on the screen, wherever interrupts cut print_char.
THEOREM CursorKept == Spec => []CursorOnScreen
<1>1. CInv => CursorOnScreen
  BY DEF CInv
<1> QED BY <1>1, CInvInit, CInvStep, PTL DEF Spec

-----------------------------------------------------------------------------
(* Where a text belongs *)

\* The last newline in front of a character, or 0.
LEMMA LineStartIsLast ==
  ASSUME NEW L, NEW k \in Nat \ {0}
  PROVE  LET S == {0} \cup {j \in 1 .. (k - 1) : L[j] = NewLine}
         IN LineStart(L, k) \in S /\ \A j \in S : LineStart(L, k) >= j
<1> DEFINE S == {0} \cup {j \in 1 .. (k - 1) : L[j] = NewLine}
<1>1. PICK x \in S : \A j \in S : x >= j
  <2>1. S \subseteq 0 .. k /\ S # {}
    OBVIOUS
  <2> HIDE DEF S
  <2> QED BY <2>1, GreatestExists
<1>2. Max(S) \in S /\ \A j \in S : Max(S) >= j
  <2> HIDE DEF S
  <2> QED BY <1>1 DEF Max
<1> QED BY <1>2 DEF LineStart

LEMMA LineStartNext ==
  ASSUME NEW L, NEW k \in Nat \ {0}
  PROVE  /\ LineStart(L, k) \in 0 .. (k - 1)
         /\ LineStart(L, k + 1) = IF L[k] = NewLine THEN k ELSE LineStart(L, k)
<1> DEFINE S == {0} \cup {j \in 1 .. (k - 1) : L[j] = NewLine}
           T == {0} \cup {j \in 1 .. k : L[j] = NewLine}
<1>1. LineStart(L, k) \in S /\ \A j \in S : LineStart(L, k) >= j
  BY LineStartIsLast
<1>2. LineStart(L, k + 1) \in T /\ \A j \in T : LineStart(L, k + 1) >= j
  <2>1. k + 1 \in Nat \ {0} /\ (k + 1) - 1 = k
    OBVIOUS
  <2> PICK m \in Nat \ {0} : m = k + 1 /\ m - 1 = k
    BY <2>1
  <2>2. LET U == {0} \cup {j \in 1 .. (m - 1) : L[j] = NewLine}
        IN LineStart(L, m) \in U /\ \A j \in U : LineStart(L, m) >= j
    BY LineStartIsLast
  <2> QED BY <2>2
<1>3. LineStart(L, k) \in 0 .. (k - 1)
  BY <1>1
<1>4. CASE L[k] = NewLine
  <2>1. k \in T
    BY <1>4
  <2>2. LineStart(L, k + 1) >= k /\ LineStart(L, k + 1) \in 0 .. k
    BY <1>2, <2>1
  <2> QED BY <1>3, <1>4, <2>2
<1>5. CASE L[k] # NewLine
  <2>1. S = T
    <3>1. \A j \in T : j \in S
      BY <1>5
    <3>2. \A j \in S : j \in T
      OBVIOUS
    <3> QED BY <3>1, <3>2
  <2>2. LineStart(L, k) >= LineStart(L, k + 1) /\ LineStart(L, k + 1) >= LineStart(L, k)
    BY <1>1, <1>2, <2>1
  <2>3. LineStart(L, k) \in Nat /\ LineStart(L, k + 1) \in Nat
    BY <1>1, <1>2
  <2> QED BY <1>3, <1>5, <2>2, <2>3
<1> QED BY <1>4, <1>5

\* A character ends its row when it is a newline or in the last column.
EndsRow(L, k) == L[k] = NewLine \/ Column(L, k) = Width - 1

LEMMA ColumnNext ==
  ASSUME NEW L, NEW k \in Nat \ {0}
  PROVE  /\ Column(L, k) \in 0 .. (Width - 1)
         /\ Column(L, k + 1) = IF EndsRow(L, k) THEN 0 ELSE Column(L, k) + 1
<1> PICK s : s = LineStart(L, k)
  OBVIOUS
<1>1. Width \in Nat \ {0}
  BY TerminalAssumption
<1>2. s \in 0 .. (k - 1) /\ LineStart(L, k + 1) = IF L[k] = NewLine THEN k ELSE s
  BY LineStartNext
<1> PICK l \in Nat : l = k - 1 - s
  BY <1>2
<1>3. Column(L, k) = l % Width
  BY DEF Column
<1>4. l % Width \in 0 .. (Width - 1)
  BY <1>1, Parts
<1>5. CASE L[k] = NewLine
  <2>1. Column(L, k + 1) = 0 % Width
    BY <1>2, <1>5 DEF Column
  <2>2. 0 % Width = 0
    BY <1>1, RemainderOfSmall
  <2> QED BY <1>3, <1>4, <1>5, <2>1, <2>2 DEF EndsRow
<1>6. CASE L[k] # NewLine
  <2>1. k + 1 - 1 - s = l + 1
    BY <1>2
  <2>2. Column(L, k + 1) = (l + 1) % Width
    BY <1>2, <1>6, <2>1 DEF Column
  <2>3. (l + 1) % Width = IF l % Width = Width - 1 THEN 0 ELSE (l % Width) + 1
    BY <1>1, RemainderNext
  <2> QED BY <1>3, <1>4, <1>6, <2>2, <2>3 DEF EndsRow
<1> QED BY <1>5, <1>6

LEMMA RowNext ==
  ASSUME NEW L, NEW k \in Nat \ {0}
  PROVE  /\ Row(L, k) \in Nat
         /\ Row(L, k + 1) = Row(L, k) + (IF EndsRow(L, k) THEN 1 ELSE 0)
<1> DEFINE S == {j \in 1 .. (k - 1) : EndsRow(L, j)}
           T == {j \in 1 .. k : EndsRow(L, j)}
<1>1. Row(L, k) = Cardinality(S)
  BY DEF Row, EndsRow
<1>2. Row(L, k + 1) = Cardinality(T)
  <2>1. (k + 1) - 1 = k
    OBVIOUS
  <2> QED BY <2>1 DEF Row, EndsRow
<1>3. IsFiniteSet(S)
  <2>1. IsFiniteSet(1 .. (k - 1))
    BY FS_Interval
  <2>2. S \subseteq 1 .. (k - 1)
    OBVIOUS
  <2> HIDE DEF S
  <2> QED BY <2>1, <2>2, FS_Subset
<1>4. T = IF EndsRow(L, k) THEN S \cup {k} ELSE S
  <2>1. \A j \in 1 .. k : j = k \/ j \in 1 .. (k - 1)
    OBVIOUS
  <2>2. \A j \in 1 .. (k - 1) : j \in 1 .. k
    OBVIOUS
  <2>3. k \in 1 .. k
    OBVIOUS
  <2> QED BY <2>1, <2>2, <2>3, Zenon
<1>5. k \notin S
  OBVIOUS
<1> HIDE DEF S, T
<1>6. Cardinality(S) \in Nat /\ Cardinality(S \cup {k}) = Cardinality(S) + 1
  BY <1>3, <1>5, FS_AddElement, FS_CardinalityType
<1> QED BY <1>1, <1>2, <1>4, <1>6

LEMMA RowsApart ==
  ASSUME NEW r \in Nat, NEW w \in Nat \ {0}, NEW c \in 0 .. (w - 1)
  PROVE  r * w + c < (r + 1) * w + 0 /\ r * w + c < r * w + (c + 1) /\ r * w + c \in Nat
BY SMT

\* Each character comes after the ones before it.
LEMMA CellNext ==
  ASSUME NEW L, NEW k \in Nat \ {0}
  PROVE  Cell(L, k) < Cell(L, k + 1) /\ Cell(L, k) \in Nat
<1> PICK r \in Nat, c \in 0 .. (Width - 1) : r = Row(L, k) /\ c = Column(L, k)
  BY RowNext, ColumnNext
<1>1. Width \in Nat \ {0}
  BY TerminalAssumption
<1>2. r * Width + c < (r + 1) * Width + 0 /\ r * Width + c < r * Width + (c + 1)
      /\ r * Width + c \in Nat
  BY <1>1, RowsApart
<1>3. Cell(L, k) = r * Width + c
  BY DEF Cell
<1>4. CASE EndsRow(L, k)
  <2>1. Row(L, k + 1) = r + 1 /\ Column(L, k + 1) = 0
    BY <1>4, RowNext, ColumnNext
  <2> QED BY <1>2, <1>3, <2>1 DEF Cell
<1>5. CASE ~EndsRow(L, k)
  <2>1. Row(L, k + 1) = r /\ Column(L, k + 1) = c + 1
    BY <1>5, RowNext, ColumnNext
  <2> QED BY <1>2, <1>3, <2>1 DEF Cell
<1> QED BY <1>4, <1>5

LEMMA CellsGrow ==
  ASSUME NEW L, NEW j \in Nat \ {0}, NEW k \in Nat \ {0}, j < k
  PROVE  Cell(L, j) < Cell(L, k)
<1> DEFINE Bad == {m \in Nat : j < m /\ ~(Cell(L, j) < Cell(L, m))}
<1> SUFFICES ASSUME Bad # {} PROVE FALSE
  OBVIOUS
<1>1. PICK m \in Bad : \A i \in Bad : m <= i
  <2>1. Bad \subseteq Nat
    OBVIOUS
  <2> HIDE DEF Bad
  <2> QED BY <2>1, LeastExists
<1> PICK i \in Nat \ {0} : i = m - 1 /\ m = i + 1
  BY <1>1
<1>2. Cell(L, i) < Cell(L, m) /\ Cell(L, i) \in Nat /\ Cell(L, m) \in Nat /\ Cell(L, j) \in Nat
  BY <1>1, CellNext
<1>3. CASE i = j
  BY <1>1, <1>2, <1>3
<1>4. CASE i # j
  <2>1. j < i /\ ~(m <= i)
    BY <1>1, <1>4
  <2>2. Cell(L, j) < Cell(L, i)
    BY <1>1, <2>1
  <2> QED BY <1>1, <1>2, <2>2
<1> QED BY <1>3, <1>4

\* No two characters share a place.
LEMMA CellsApart ==
  ASSUME NEW L, NEW j \in Nat \ {0}, NEW k \in Nat \ {0}, j # k
  PROVE  Cell(L, j) # Cell(L, k)
<1>1. Cell(L, j) \in Nat /\ Cell(L, k) \in Nat
  BY CellNext
<1>2. j < k \/ k < j
  OBVIOUS
<1> QED BY <1>1, <1>2, CellsGrow

\* What is printed later moves nothing.
LEMMA PlacesStay ==
  ASSUME NEW L, NEW M, NEW n \in Nat, \A j \in 1 .. n : M[j] = L[j], NEW k \in 1 .. (n + 1)
  PROVE  Row(M, k) = Row(L, k) /\ Column(M, k) = Column(L, k) /\ Cell(M, k) = Cell(L, k)
<1>1. ASSUME NEW m \in 1 .. (n + 1)
      PROVE  Column(M, m) = Column(L, m)
  <2>1. \A j \in 1 .. (m - 1) : M[j] = L[j]
    OBVIOUS
  <2>2. {j \in 1 .. (m - 1) : M[j] = NewLine} = {j \in 1 .. (m - 1) : L[j] = NewLine}
    BY <2>1
  <2> QED BY <2>2 DEF Column, LineStart
<1>2. \A j \in 1 .. (k - 1) : M[j] = L[j] /\ Column(M, j) = Column(L, j)
  BY <1>1
<1>3. {j \in 1 .. (k - 1) : M[j] = NewLine \/ Column(M, j) = Width - 1}
        = {j \in 1 .. (k - 1) : L[j] = NewLine \/ Column(L, j) = Width - 1}
  BY <1>2
<1>4. Row(M, k) = Row(L, k)
  BY <1>3 DEF Row
<1> QED BY <1>1, <1>4 DEF Cell

-----------------------------------------------------------------------------
(* The inductive invariant: what of the log is on the screen *)

\* Of L, the characters of K are in their places, and nothing else.
InPlace(L, K) ==
  /\ DOMAIN screen = {Cell(L, m) : m \in K}
  /\ \A m \in K : screen[Cell(L, m)] = L[m]

\* As long as no interrupt came inside print_char: between characters the
\* cursor is where the next one belongs; inside, where the kernel's belongs
\* that is the last one of the log, or after it.
LogRight ==
  ~cut =>
    /\ pc \in {"idle", "next"} =>
         /\ InPlace(log, Shown(log))
         /\ row = Row(log, Len(log) + 1) /\ col = Column(log, Len(log) + 1)
    /\ pc \in Inside =>
         /\ hat = 0 /\ Len(log) > 0
         /\ log[Len(log)] = text[at] /\ row = Row(log, Len(log))
    /\ pc \in {"place", "write"} =>
         /\ log[Len(log)] # NewLine /\ InPlace(log, Shown(log) \ {Len(log)})
         /\ col = Column(log, Len(log))
    /\ pc = "place" => reg = row
    /\ pc = "write" => reg = Cell(log, Len(log))
    /\ pc \in {"loadCol", "storeCol", "wrap", "home", "loadRow", "storeRow"} =>
         InPlace(log, Shown(log))
    /\ pc \in {"loadCol", "storeCol"} => col = Column(log, Len(log))
    /\ pc \in {"loadCol", "storeCol", "wrap", "home"} => log[Len(log)] # NewLine
    /\ pc = "storeCol" => reg = col
    /\ pc \in {"wrap", "home"} => col = Column(log, Len(log)) + 1
    /\ pc = "home" => col = Width
    /\ pc \in {"loadRow", "storeRow"} => col = 0 /\ EndsRow(log, Len(log))
    /\ pc = "storeRow" => reg = row

LInv == CInv /\ LogRight

\* A character put in its place.
LEMMA PutInPlace ==
  ASSUME NEW L, NEW n \in Nat \ {0}, NEW K \in SUBSET (Nat \ {0}), n \notin K,
         InPlace(L, K), screen' = Put(Cell(L, n), L[n])
  PROVE  InPlace(L, K \cup {n})'
<1> PICK p : p = Cell(L, n)
  OBVIOUS
<1>1. \A m \in K : Cell(L, m) # p
  BY CellsApart
<1>2. DOMAIN screen' = DOMAIN screen \cup {p}
      /\ screen'[p] = L[n] /\ \A q \in DOMAIN screen : q # p => screen'[q] = screen[q]
  BY DEF Put
<1>3. DOMAIN screen' = {Cell(L, m) : m \in K \cup {n}}
  BY <1>2 DEF InPlace
<1>4. \A m \in K \cup {n} : screen'[Cell(L, m)] = L[m]
  BY <1>1, <1>2 DEF InPlace
<1> QED BY <1>3, <1>4 DEF InPlace, Cell, Row, Column, LineStart

\* Its place does not depend on what comes after it.
LEMMA AppendInPlace ==
  ASSUME NEW L, NEW M, NEW n \in Nat, \A j \in 1 .. n : M[j] = L[j], NEW K \in SUBSET (1 .. n),
         InPlace(L, K)
  PROVE  InPlace(M, K)
<1>1. \A m \in K : Cell(M, m) = Cell(L, m) /\ M[m] = L[m]
  BY PlacesStay
<1> QED BY <1>1 DEF InPlace

\* What a log M of n characters is when c comes after those of L.
Follows(L, M, n, c) ==
  /\ n \in Nat \ {0} /\ Len(M) = n /\ M[n] = c
  /\ Shown(L) \in SUBSET (Nat \ {0}) /\ n \notin Shown(L)
  /\ Shown(M) = IF c = NewLine THEN Shown(L) ELSE Shown(L) \cup {n}
  /\ Row(M, n) = Row(L, n) /\ Column(M, n) = Column(L, n)
  /\ InPlace(L, Shown(L)) => InPlace(M, Shown(L))

LEMMA AppendFollows ==
  ASSUME NEW L \in Seq(Chars \cup {NewLine}), NEW c \in Chars \cup {NewLine}
  PROVE  Follows(L, Append(L, c), Len(L) + 1, c)
<1>1. PICK M, k, n : M = Append(L, c) /\ k = Len(L) /\ n = k + 1
  OBVIOUS
<1>2. k \in Nat /\ n \in Nat \ {0} /\ DOMAIN L = 1 .. k
  BY <1>1
<1>3. M \in Seq(Chars \cup {NewLine}) /\ Len(M) = n
  BY <1>1
<1>4. DOMAIN M = 1 .. n /\ M[n] = c /\ \A j \in 1 .. k : M[j] = L[j]
  BY <1>1, <1>2, <1>3
<1>5. n \in 1 .. (k + 1) /\ n \notin 1 .. k /\ 1 .. k \in SUBSET (Nat \ {0})
      /\ 1 .. n = 1 .. k \cup {n}
  BY <1>1, <1>2
<1>6. /\ Shown(L) \in SUBSET (1 .. k)
      /\ Shown(M) = IF c = NewLine THEN Shown(L) ELSE Shown(L) \cup {n}
  BY <1>2, <1>4, <1>5 DEF Shown
<1>7. Row(M, n) = Row(L, n) /\ Column(M, n) = Column(L, n)
  BY <1>2, <1>4, <1>5, PlacesStay
<1>8. InPlace(L, Shown(L)) => InPlace(M, Shown(L))
  BY <1>2, <1>4, <1>6, AppendInPlace
<1>9. Follows(L, M, n, c)
  BY <1>2, <1>3, <1>4, <1>5, <1>6, <1>7, <1>8 DEF Follows
<1> QED BY <1>1, <1>9

LEMMA LogInitially == Init => LInv
<1> SUFFICES ASSUME Init PROVE LInv
  OBVIOUS
<1>1. log = <<>> /\ row = 0 /\ col = 0 /\ pc = "idle" /\ DOMAIN screen = {}
  BY DEF Init
<1>2. Shown(log) = {} /\ Len(log) = 0
  BY <1>1 DEF Shown
<1>3. InPlace(log, Shown(log))
  BY <1>1, <1>2 DEF InPlace
<1>4. LineStart(log, 1) = 0
  <2>1. 1 \in Nat \ {0}
    OBVIOUS
  <2>2. LineStart(log, 1) \in 0 .. (1 - 1)
    BY <2>1, LineStartNext
  <2> QED BY <2>2
<1>5. Column(log, 1) = 0
  <2>1. Column(log, 1) = 0 % Width
    BY <1>4 DEF Column
  <2> QED BY <2>1, TerminalAssumption, RemainderOfSmall
<1>6. Row(log, 1) = 0
  <2>1. {j \in 1 .. (1 - 1) : log[j] = NewLine \/ Column(log, j) = Width - 1} = {}
    OBVIOUS
  <2> QED BY <2>1, FS_EmptySet DEF Row
<1> QED BY <1>1, <1>2, <1>3, <1>5, <1>6, CInvInit DEF LInv, LogRight, Inside

\* Steps that leave the screen and the log alone.
LEMMA ShownSame ==
  ASSUME UNCHANGED <<screen, log>>
  PROVE  /\ Len(log)' = Len(log) /\ log[Len(log)]' = log[Len(log)]
         /\ InPlace(log, Shown(log))' = InPlace(log, Shown(log))
         /\ InPlace(log, Shown(log) \ {Len(log)})' = InPlace(log, Shown(log) \ {Len(log)})
         /\ Row(log, Len(log))' = Row(log, Len(log))
         /\ Row(log, Len(log) + 1)' = Row(log, Len(log) + 1)
         /\ Column(log, Len(log))' = Column(log, Len(log))
         /\ Column(log, Len(log) + 1)' = Column(log, Len(log) + 1)
         /\ Cell(log, Len(log))' = Cell(log, Len(log))
         /\ EndsRow(log, Len(log))' = EndsRow(log, Len(log))
<1>1. /\ InPlace(log, Shown(log))' = InPlace(log, Shown(log))
      /\ InPlace(log, Shown(log) \ {Len(log)})' = InPlace(log, Shown(log) \ {Len(log)})
  BY DEF InPlace, Shown, Cell, Row, Column, LineStart
<1> QED BY <1>1 DEF Cell, Row, Column, LineStart, EndsRow

\* The steps of print_char that only move the cursor.
LEMMA CursorMoves ==
  ASSUME LInv, ~cut, Place \/ LoadCol \/ StoreCol \/ NoWrap \/ Wrap \/ Home \/ LoadRow \/ StoreRow
  PROVE  LogRight'
<1>1. /\ UNCHANGED <<screen, log, cut, hat, text>> /\ pc \in Inside
  BY DEF Place, LoadCol, StoreCol, NoWrap, Wrap, Home, LoadRow, StoreRow, history, cursor, Inside
<1>2. /\ Width \in Nat \ {0} /\ row \in Nat /\ col \in Nat /\ Len(log) \in Nat \ {0}
      /\ col <= Width /\ (pc = "storeCol" => reg < Width)
      /\ LogRight
  BY <1>1, TerminalAssumption DEF LInv, CInv, TypeOK, CursorOnScreen, LogRight
<1>3. /\ Column(log, Len(log)) \in 0 .. (Width - 1)
      /\ Column(log, Len(log) + 1) =
           IF EndsRow(log, Len(log)) THEN 0 ELSE Column(log, Len(log)) + 1
      /\ Row(log, Len(log)) \in Nat
      /\ Row(log, Len(log) + 1) = Row(log, Len(log)) + (IF EndsRow(log, Len(log)) THEN 1 ELSE 0)
      /\ EndsRow(log, Len(log)) <=>
           log[Len(log)] = NewLine \/ Column(log, Len(log)) = Width - 1
  BY <1>2, RowNext, ColumnNext DEF EndsRow
<1>4. CASE Place
  BY <1>1, <1>2, <1>4, ShownSame DEF Place, LogRight, Inside, cursor, history, Cell
<1>5. CASE LoadCol
  BY <1>1, <1>2, <1>5, ShownSame DEF LoadCol, LogRight, Inside, cursor, history
<1>6. CASE StoreCol
  BY <1>1, <1>2, <1>6, ShownSame DEF StoreCol, LogRight, Inside, cursor, history
<1>7. CASE NoWrap
  BY <1>1, <1>2, <1>3, <1>7, ShownSame DEF NoWrap, LogRight, Inside, cursor, history
<1>8. CASE Wrap
  BY <1>1, <1>2, <1>3, <1>8, ShownSame DEF Wrap, LogRight, Inside, cursor, history
<1>9. CASE Home
  BY <1>1, <1>2, <1>3, <1>9, ShownSame DEF Home, LogRight, Inside, cursor, history
<1>10. CASE LoadRow
  BY <1>1, <1>2, <1>10, ShownSame DEF LoadRow, LogRight, Inside, cursor, history
<1>11. CASE StoreRow
  BY <1>1, <1>2, <1>3, <1>11, ShownSame DEF StoreRow, LogRight, Inside, cursor, history
<1> QED BY <1>4, <1>5, <1>6, <1>7, <1>8, <1>9, <1>10, <1>11

\* print_char begins: the log has its character, the screen not yet.
LEMMA StartNewLineRight ==
  ASSUME LInv, StartNewLine
  PROVE  LogRight'
<1> SUFFICES ASSUME ~cut PROVE LogRight'
  BY DEF StartNewLine, LogRight
<1>1. /\ pc = "next" /\ pc' = "loadRow" /\ hat = 0 /\ hat' = 0 /\ col' = 0
      /\ log' = Append(log, NewLine) /\ text[at] = NewLine
      /\ UNCHANGED <<row, screen, text, at>>
  BY DEF StartNewLine
<1> PICK L \in Seq(Chars \cup {NewLine}) : L = log
  BY DEF LInv, CInv, TypeOK
<1> PICK M, n : M = log' /\ M = Append(L, NewLine) /\ n = Len(L) + 1
  BY <1>1
<1>2. /\ n \in Nat \ {0} /\ Len(M) = n /\ M[n] = NewLine /\ Shown(M) = Shown(L)
      /\ Row(M, n) = Row(L, n)
      /\ InPlace(L, Shown(L)) => InPlace(M, Shown(L))
  <2>1. NewLine \in Chars \cup {NewLine}
    OBVIOUS
  <2>2. Follows(L, M, n, NewLine)
    BY <2>1, AppendFollows
  <2> QED BY <2>2 DEF Follows
<1>3. InPlace(L, Shown(L)) /\ row = Row(L, n)
  BY <1>1 DEF LInv, LogRight
<1>4. InPlace(M, Shown(M))'
  <2>1. InPlace(M, Shown(M))
    BY <1>2, <1>3
  <2> QED BY <1>1, <2>1 DEF InPlace, Shown, Cell, Row, Column, LineStart
<1>5. row = Row(M, n) /\ EndsRow(M, n) /\ n > 0
  BY <1>2, <1>3 DEF EndsRow
<1>6. /\ InPlace(log, Shown(log))' /\ Len(log)' = n
      /\ log[Len(log)]' = NewLine
      /\ row' = Row(log, Len(log))' /\ EndsRow(log, Len(log))'
  <2>1. /\ Row(log, Len(log))' = Row(M, n) /\ EndsRow(log, Len(log))' = EndsRow(M, n)
        /\ Len(log)' = n /\ log[Len(log)]' = M[n]
        /\ InPlace(log, Shown(log))' = InPlace(M, Shown(M))'
    BY <1>2 DEF Row, EndsRow, Column, LineStart, InPlace, Shown, Cell
  <2> QED BY <1>1, <1>2, <1>4, <1>5, <2>1
<1> QED BY <1>1, <1>5, <1>6 DEF LogRight, Inside

LEMMA StartCharRight ==
  ASSUME LInv, StartChar
  PROVE  LogRight'
<1> SUFFICES ASSUME ~cut PROVE LogRight'
  BY DEF StartChar, LogRight, history
<1>1. /\ pc = "next" /\ pc' = "place" /\ hat = 0 /\ hat' = 0 /\ reg' = row
      /\ log' = Append(log, text[at]) /\ text[at] # NewLine
      /\ UNCHANGED <<row, col, screen, text, at>>
  BY DEF StartChar, cursor
<1> PICK L \in Seq(Chars \cup {NewLine}) : L = log
  BY DEF LInv, CInv, TypeOK
<1> PICK c \in Chars \cup {NewLine} : c = text[at]
  <2>1. /\ text \in Seq(Chars \cup {NewLine}) /\ at \in 1 .. Len(text)
    BY DEF LInv, CInv, TypeOK, StartChar
  <2> QED BY <2>1
<1> PICK M, n : M = log' /\ M = Append(L, c) /\ n = Len(L) + 1
  BY <1>1
<1>2. /\ n \in Nat \ {0} /\ Len(M) = n /\ M[n] = c
      /\ n \notin Shown(L) /\ Shown(M) = IF c = NewLine THEN Shown(L) ELSE Shown(L) \cup {n}
      /\ Row(M, n) = Row(L, n) /\ Column(M, n) = Column(L, n)
      /\ InPlace(L, Shown(L)) => InPlace(M, Shown(L))
  <2>1. Follows(L, M, n, c)
    BY AppendFollows
  <2> QED BY <2>1 DEF Follows
<1>3. InPlace(L, Shown(L)) /\ row = Row(L, n) /\ col = Column(L, n)
  BY <1>1 DEF LInv, LogRight
<1>4. InPlace(M, Shown(M) \ {n})'
  <2>1. Shown(M) \ {n} = Shown(L)
    BY <1>1, <1>2
  <2>2. InPlace(M, Shown(M) \ {n})
    BY <1>2, <1>3, <2>1
  <2> QED BY <1>1, <2>2 DEF InPlace, Shown, Cell, Row, Column, LineStart
<1>5. row = Row(M, n) /\ col = Column(M, n) /\ n > 0
  BY <1>2, <1>3
<1>6. /\ InPlace(log, Shown(log) \ {Len(log)})' /\ Len(log)' = n
      /\ log[Len(log)]' = c
      /\ row' = Row(log, Len(log))' /\ col' = Column(log, Len(log))'
  <2>1. /\ Row(log, Len(log))' = Row(M, n) /\ Column(log, Len(log))' = Column(M, n)
        /\ Len(log)' = n /\ log[Len(log)]' = M[n]
        /\ InPlace(log, Shown(log) \ {Len(log)})' = InPlace(M, Shown(M) \ {n})'
    BY <1>2 DEF Row, Column, LineStart, InPlace, Shown, Cell
  <2> QED BY <1>1, <1>2, <1>4, <1>5, <2>1
<1> QED BY <1>1, <1>5, <1>6 DEF LogRight, Inside

LEMMA WriteRight ==
  ASSUME LInv, Write
  PROVE  LogRight'
<1> SUFFICES ASSUME ~cut PROVE LogRight'
  BY DEF Write, LogRight, history
<1>1. /\ pc = "write" /\ pc' = "loadCol" /\ screen' = Put(reg, text[at])
      /\ UNCHANGED <<row, col, text, at, log, hat>>
  BY DEF Write, cursor, history
<1> PICK L \in Seq(Chars \cup {NewLine}) : L = log /\ L = log'
  BY <1>1 DEF LInv, CInv, TypeOK
<1> PICK n \in Nat \ {0} : n = Len(L)
  BY <1>1 DEF LInv, LogRight, Inside
<1>2. /\ hat = 0 /\ L[n] = text[at] /\ L[n] # NewLine
      /\ row = Row(L, n) /\ col = Column(L, n) /\ reg = Cell(L, n)
      /\ InPlace(L, Shown(L) \ {n})
  BY <1>1 DEF LInv, LogRight, Inside
<1>3. Shown(L) \ {n} \in SUBSET (Nat \ {0}) /\ (Shown(L) \ {n}) \cup {n} = Shown(L)
  <2>1. DOMAIN L = 1 .. n
    OBVIOUS
  <2> QED BY <1>2, <2>1 DEF Shown
<1>4. InPlace(L, Shown(L))'
  <2> PICK K : K = Shown(L) \ {n}
    OBVIOUS
  <2>1. InPlace(L, K \cup {n})'
    BY <1>1, <1>2, <1>3, PutInPlace
  <2>2. K \cup {n} = Shown(L)
    BY <1>3
  <2>3. InPlace(L, Shown(L))' = InPlace(L, K \cup {n})'
    BY <2>2 DEF InPlace, Shown, Cell, Row, Column, LineStart
  <2> QED BY <2>1, <2>3
<1>5. InPlace(log, Shown(log))'
  <2>1. InPlace(log, Shown(log))' = InPlace(L, Shown(L))'
    BY DEF InPlace, Shown, Cell, Row, Column, LineStart
  <2> QED BY <1>4, <2>1
<1>6. Row(log, Len(log))' = Row(L, n) /\ Column(log, Len(log))' = Column(L, n)
  BY DEF Row, Column, LineStart
<1> QED BY <1>1, <1>2, <1>5, <1>6 DEF LogRight, Inside

\* The handler prints a character between two of the kernel's.
LEMMA HandlerRight ==
  ASSUME LInv, HandlerPrints
  PROVE  LogRight'
<1> SUFFICES ASSUME ~cut PROVE LogRight'
  BY DEF HandlerPrints, LogRight
<1>1. /\ hat \in 1 .. Len(Message) /\ UNCHANGED <<pc, text, at>>
      /\ screen' = Put(row * Width + col, Message[hat])
      /\ IF col + 1 >= Width THEN col' = 0 /\ row' = row + 1 ELSE col' = col + 1 /\ row' = row
      /\ log' = Append(log, Message[hat])
  BY DEF HandlerPrints, kernel
<1>2. pc \in {"idle", "next"}
  <2>1. hat # 0
    BY <1>1
  <2> QED BY <2>1 DEF LInv, CInv, TypeOK, LogRight
<1> PICK L \in Seq(Chars \cup {NewLine}) : L = log
  BY DEF LInv, CInv, TypeOK
<1> PICK c \in Chars \cup {NewLine} : c = Message[hat] /\ c # NewLine
  <2>1. Message \in Seq(Chars) /\ NewLine \notin Chars
    BY TerminalAssumption
  <2> QED BY <1>1, <2>1
<1>3. PICK M, n : M = log' /\ M = Append(L, c) /\ n = Len(L) + 1
  BY <1>1
<1>4. /\ n \in Nat \ {0} /\ Len(M) = n /\ M[n] = c
      /\ Shown(L) \in SUBSET (Nat \ {0}) /\ n \notin Shown(L)
      /\ Shown(M) = Shown(L) \cup {n}
      /\ Row(M, n) = Row(L, n) /\ Column(M, n) = Column(L, n)
      /\ InPlace(L, Shown(L)) => InPlace(M, Shown(L))
  <2>1. Follows(L, M, n, c)
    BY <1>3, AppendFollows
  <2> QED BY <2>1 DEF Follows
<1>5. InPlace(L, Shown(L)) /\ row = Row(L, n) /\ col = Column(L, n)
  BY <1>2, <1>3 DEF LInv, LogRight
<1>6. row = Row(M, n) /\ col = Column(M, n) /\ row * Width + col = Cell(M, n)
  <2>1. row = Row(M, n) /\ col = Column(M, n)
    BY <1>4, <1>5
  <2> QED BY <2>1 DEF Cell
<1>7. InPlace(M, Shown(M))'
  <2>1. PICK K : K = Shown(L)
    OBVIOUS
  <2>2. K \in SUBSET (Nat \ {0}) /\ n \notin K /\ K \cup {n} = Shown(M) /\ InPlace(M, K)
    BY <1>4, <1>5, <2>1
  <2>3. screen' = Put(Cell(M, n), M[n])
    BY <1>1, <1>4, <1>6
  <2>4. InPlace(M, K \cup {n})'
    BY <1>4, <2>2, <2>3, PutInPlace
  <2>5. InPlace(M, Shown(M))' = InPlace(M, K \cup {n})'
    BY <1>3, <2>2 DEF InPlace, Shown, Cell, Row, Column, LineStart
  <2> QED BY <2>4, <2>5
<1>8. row' = Row(M, n + 1) /\ col' = Column(M, n + 1)
  <2>1. /\ Column(M, n) \in 0 .. (Width - 1)
        /\ Column(M, n + 1) = IF EndsRow(M, n) THEN 0 ELSE Column(M, n) + 1
        /\ Row(M, n) \in Nat
        /\ Row(M, n + 1) = Row(M, n) + (IF EndsRow(M, n) THEN 1 ELSE 0)
        /\ EndsRow(M, n) <=> Column(M, n) = Width - 1
    BY <1>4, RowNext, ColumnNext DEF EndsRow
  <2> PICK c0 \in 0 .. (Width - 1), r0 \in Nat : c0 = Column(M, n) /\ r0 = Row(M, n)
    BY <2>1
  <2>2. IF col + 1 >= Width THEN col' = 0 /\ row' = row + 1 ELSE col' = col + 1 /\ row' = row
    BY <1>1
  <2>3. row = r0 /\ col = c0
    BY <1>6
  <2>4. Width \in Nat \ {0}
    BY TerminalAssumption
  <2>5. c0 + 1 >= Width <=> c0 = Width - 1
    BY <2>4
  <2>6. CASE c0 = Width - 1
    <3>1. row' = r0 + 1 /\ col' = 0
      BY <2>2, <2>3, <2>5, <2>6
    <3> QED BY <2>1, <2>6, <3>1
  <2>7. CASE c0 # Width - 1
    <3>1. row' = r0 /\ col' = c0 + 1
      BY <2>2, <2>3, <2>5, <2>7
    <3> QED BY <2>1, <2>7, <3>1
  <2> QED BY <2>6, <2>7
<1>9. /\ InPlace(log, Shown(log))' = InPlace(M, Shown(M))'
      /\ Row(log, Len(log) + 1)' = Row(M, n + 1)
      /\ Column(log, Len(log) + 1)' = Column(M, n + 1)
  BY <1>3, <1>4 DEF InPlace, Shown, Cell, Row, Column, LineStart
<1> QED BY <1>1, <1>2, <1>7, <1>8, <1>9 DEF LogRight, Inside

LEMMA LogNext == LInv /\ CInv' /\ [Next]_vars => LInv'
<1> SUFFICES ASSUME LInv, CInv', [Next]_vars PROVE LogRight'
  BY DEF LInv
<1>1. CASE StartNewLine \/ StartChar \/ Write \/ HandlerPrints
  BY <1>1, StartNewLineRight, StartCharRight, WriteRight, HandlerRight
<1>2. CASE Place \/ LoadCol \/ StoreCol \/ NoWrap \/ Wrap \/ Home \/ LoadRow \/ StoreRow
  <2>1. cut' = cut
    BY <1>2 DEF Place, LoadCol, StoreCol, NoWrap, Wrap, Home, LoadRow, StoreRow, history
  <2> QED BY <1>2, <2>1, CursorMoves DEF LogRight
<1>3. CASE idtr_init \/ (\E t \in Texts : print_string(t)) \/ PrintEnds
  <2>1. UNCHANGED <<row, col, screen, log, cut>> /\ pc \in {"idle", "next"} /\ pc' \in {"idle", "next"}
    BY <1>3 DEF idtr_init, print_string, PrintEnds, cursor, history, kernel
  <2> QED BY <2>1, ShownSame DEF LInv, LogRight, Inside
<1>4. CASE Interrupt
  <2>1. UNCHANGED <<row, col, screen, log, pc, text, at, reg>>
        /\ cut' = (cut \/ pc \notin {"idle", "next"})
    BY <1>4 DEF Interrupt, cursor, kernel
  <2> QED BY <2>1, ShownSame DEF LInv, LogRight, Inside
<1>5. CASE HandlerReturns \/ UNCHANGED vars
  <2>1. UNCHANGED <<row, col, screen, log, pc, text, at, reg, cut>> /\ hat' \in {0, hat}
    BY <1>5 DEF HandlerReturns, vars, cursor, history, kernel
  <2> QED BY <2>1, ShownSame DEF LInv, LogRight
<1> QED BY <1>1, <1>2, <1>3, <1>4, <1>5 DEF Next, PrintStep, HandlerStep

\* Unless an interrupt comes inside print_char, what kernel and handler print
\* is on the screen as one text, each character where the ones before it lead
\* and none over another: for every width, every text, every message, and
\* however often the handler runs between two characters.
THEOREM TextPlaced == Spec => []TextInPlace
<1>1. LInv => TextInPlace
  BY DEF LInv, LogRight, TextInPlace, InPlace
<1>2. LInv /\ CInv' /\ [Next]_vars => LInv'
  BY LogNext
<1> QED BY <1>1, <1>2, LogInitially, CInvInit, CInvStep, PTL DEF Spec

-----------------------------------------------------------------------------
(* The variant: what PrintingEnds rests on. *)

\* The kernel's steps, by the access they make.
LEMMA KernelAdvances ==
  ASSUME CInv, PrintStep
  PROVE  StepsLeft' \in 0 .. (StepsLeft - 1)
<1>1. PICK l : l = Len(text)
  OBVIOUS
<1>2. /\ l \in Nat /\ at \in 1 .. (l + 1) /\ pc # "idle"
      /\ pc \in Inside => at <= l
  BY <1>1 DEF CInv, TypeOK, PrintStep, PrintEnds, StartNewLine, StartChar, Place, Write,
     LoadCol, StoreCol, NoWrap, Wrap, Home, LoadRow, StoreRow
<1>3. CASE PrintEnds
  <2>1. pc = "next" /\ pc' = "idle"
    BY <1>3 DEF PrintEnds
  <2>2. StepsLeft = 9 * (l - at) + 10 /\ StepsLeft' = 0
    BY <1>1, <2>1 DEF StepsLeft
  <2> QED BY <1>2, <2>2
<1>4. SUFFICES ASSUME ~PrintEnds PROVE StepsLeft' \in 0 .. (StepsLeft - 1)
  BY <1>3
<1>5. PICK more \in Nat : more = 9 * (l - at)
  <2>1. at <= l
    BY <1>1, <1>2, <1>4 DEF PrintStep, StartNewLine, StartChar, Place, Write, Inside,
       LoadCol, StoreCol, NoWrap, Wrap, Home, LoadRow, StoreRow
  <2> QED BY <1>2, <2>1
<1>6. CASE NoWrap \/ StoreRow
  <2>1. pc \in {"wrap", "storeRow"} /\ pc' = "next" /\ text' = text /\ at' = at + 1
    BY <1>6 DEF NoWrap, StoreRow
  <2>2. StepsLeft \in {more + 5, more + 2}
    BY <1>1, <1>5, <2>1 DEF StepsLeft
  <2>3. StepsLeft' = 9 * (l - (at + 1)) + 10
    BY <1>1, <2>1 DEF StepsLeft
  <2>4. 9 * (l - (at + 1)) + 9 = more
    BY <1>2, <1>5
  <2>5. StepsLeft' = more + 1
    BY <1>2, <1>5, <2>3, <2>4
  <2> QED BY <1>5, <2>2, <2>5
<1>7. CASE \/ StartNewLine \/ StartChar \/ Place \/ Write
           \/ LoadCol \/ StoreCol \/ Wrap \/ Home \/ LoadRow
  <2>1. /\ text' = text /\ at' = at
        /\ <<pc, pc'>> \in {<<"next", "loadRow">>, <<"next", "place">>, <<"place", "write">>,
                            <<"write", "loadCol">>, <<"loadCol", "storeCol">>,
                            <<"storeCol", "wrap">>, <<"wrap", "home">>,
                            <<"home", "loadRow">>, <<"loadRow", "storeRow">>}
    BY <1>7 DEF StartNewLine, StartChar, Place, Write, LoadCol, StoreCol, Wrap, Home, LoadRow
  <2>2. /\ pc = "next" => StepsLeft = more + 10
        /\ pc = "place" => StepsLeft = more + 9
        /\ pc = "write" => StepsLeft = more + 8
        /\ pc = "loadCol" => StepsLeft = more + 7
        /\ pc = "storeCol" => StepsLeft = more + 6
        /\ pc = "wrap" => StepsLeft = more + 5
        /\ pc = "home" => StepsLeft = more + 4
        /\ pc = "loadRow" => StepsLeft = more + 3
    BY <1>1, <1>5 DEF StepsLeft
  <2>3. /\ pc' = "place" => StepsLeft' = more + 9
        /\ pc' = "write" => StepsLeft' = more + 8
        /\ pc' = "loadCol" => StepsLeft' = more + 7
        /\ pc' = "storeCol" => StepsLeft' = more + 6
        /\ pc' = "wrap" => StepsLeft' = more + 5
        /\ pc' = "home" => StepsLeft' = more + 4
        /\ pc' = "loadRow" => StepsLeft' = more + 3
        /\ pc' = "storeRow" => StepsLeft' = more + 2
    BY <1>1, <1>5, <2>1 DEF StepsLeft
  <2>4. \E x, y \in 2 .. 10 : y < x /\ StepsLeft = more + x /\ StepsLeft' = more + y
    BY <2>1, <2>2, <2>3
  <2> QED BY <1>5, <2>4
<1> QED BY <1>4, <1>6, <1>7 DEF PrintStep

LEMMA HandlerAdvances ==
  ASSUME CInv, HandlerStep
  PROVE  HandlerStepsLeft' \in 0 .. (HandlerStepsLeft - 1)
<1>1. Len(Message) \in Nat /\ hat \in 0 .. (Len(Message) + 1)
  BY TerminalAssumption DEF CInv, TypeOK
<1>2. CASE HandlerPrints
  BY <1>1, <1>2 DEF HandlerPrints, HandlerStepsLeft
<1>3. CASE HandlerReturns
  BY <1>1, <1>3 DEF HandlerReturns, HandlerStepsLeft
<1> QED BY <1>2, <1>3 DEF HandlerStep

\* For every width, text and message, and however often a key is pressed: what
\* the handler does never sets the kernel's printing back, and each handler
\* that began ends.
THEOREM EveryTextAdvances == Spec => PrintingAdvances
<1> DEFINE Advances ==
      \/ hat = 0 /\ hat' = 0 /\ StepsLeft' \in 0 .. (StepsLeft - 1)
      \/ hat = 0 /\ hat' = 1 /\ StepsLeft' = StepsLeft
      \/ /\ HandlerStepsLeft' \in 0 .. (HandlerStepsLeft - 1)
         /\ StepsLeft' = StepsLeft
<1>1. ASSUME CInv, Next, pc # "idle" PROVE Advances
  <2>1. CASE PrintStep
    <3>1. hat = 0 /\ hat' = 0
      BY <2>1 DEF PrintStep, PrintEnds, StartNewLine, StartChar, Place, Write,
         LoadCol, StoreCol, NoWrap, Wrap, Home, LoadRow, StoreRow
    <3> QED BY <1>1, <2>1, <3>1, KernelAdvances
  <2>2. CASE Interrupt
    BY <2>2 DEF Interrupt, kernel, StepsLeft
  <2>3. CASE HandlerStep
    <3>1. UNCHANGED <<pc, text, at>>
      BY <2>3 DEF HandlerStep, HandlerPrints, HandlerReturns, kernel
    <3>2. StepsLeft' = StepsLeft
      BY <3>1 DEF StepsLeft
    <3> QED BY <1>1, <2>3, <3>2, HandlerAdvances
  <2> QED BY <1>1, <2>1, <2>2, <2>3 DEF Next, idtr_init, print_string
<1>2. CInv /\ [Next]_vars => [pc # "idle" => Advances]_vars
  <2> HIDE DEF Advances
  <2> QED BY <1>1
<1> QED BY <1>2, CInvInit, CInvStep, PTL DEF Spec, PrintingAdvances

=============================================================================
