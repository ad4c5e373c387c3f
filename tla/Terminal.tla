------------------------------ MODULE Terminal ------------------------------
(***************************************************************************)
(* terminal/terminal.c, used by the kernel and, at any point after         *)
(* idtr_init, by the keyboard interrupt (idt/idt.c).  The build does not   *)
(* optimise: each access to terminal_row, terminal_col or the video memory *)
(* is an instruction of its own, and a step of the kernel here.  The       *)
(* handler runs with interrupts off, so a character of it is one step.     *)
(***************************************************************************)
EXTENDS Integers, Sequences, FiniteSetsExt

CONSTANTS
  Width,     \* TERMINAL_WIDTH
  Chars,     \* the characters printed
  NewLine,   \* '\n'
  Texts,     \* what the kernel prints
  Message,   \* what int21h_handler prints, which has no newline
  MaxIrqs,   \* bound: how often a key is pressed
  MaxChars   \* bound: the kernel starts no text that takes the log past it

ASSUME TerminalAssumption ==
  /\ Width \in Nat \ {0}
  /\ NewLine \notin Chars
  /\ Texts \subseteq Seq(Chars \cup {NewLine})
  /\ Message \in Seq(Chars)
  /\ MaxIrqs \in Nat
  /\ MaxChars \in Nat

VARIABLES
  row,      \* terminal_row
  col,      \* terminal_col
  screen,   \* video_mem: the cells written since terminal_init, by position
  enabled,  \* the processor takes interrupts, outside the handler
  irqs,     \* how often it did
  pc,       \* the kernel's next access in print_char
  text,     \* what it prints
  at,       \* where in it it is
  reg,      \* the register print_char computes in
  hat,      \* where in Message the handler is; 0 when it does not run
  log,      \* history: the characters both printed, in order
  cut       \* history: an interrupt came inside print_char

kernel == <<pc, text, at, reg>>
cursor == <<row, col>>
history == <<log, cut>>
vars == <<cursor, screen, enabled, irqs, kernel, hat, history>>

-----------------------------------------------------------------------------

\* The video memory with a character written at a position.
Put(position, char) ==
  [p \in DOMAIN screen \cup {position} |->
     IF p = position THEN char ELSE screen[p]]

\* After terminal_init; the boot code left interrupts off.
Init ==
  /\ row = 0 /\ col = 0
  /\ screen = <<>>
  /\ enabled = FALSE
  /\ irqs = 0
  /\ pc = "idle" /\ text = <<>> /\ at = 1 /\ reg = 0
  /\ hat = 0
  /\ log = <<>>
  /\ cut = FALSE

idtr_init ==
  /\ pc = "idle" /\ hat = 0
  /\ ~enabled
  /\ enabled' = TRUE
  /\ UNCHANGED <<cursor, screen, irqs, kernel, hat, history>>

print_string(t) ==
  /\ pc = "idle" /\ hat = 0
  /\ Len(log) + Len(t) <= MaxChars
  /\ text' = t
  /\ at' = 1
  /\ pc' = "next"
  /\ UNCHANGED <<cursor, screen, enabled, irqs, reg, hat, history>>

\* A slip in its loop: it looks at the character after the current one.
PrintEndsEarly ==
  /\ pc = "next" /\ hat = 0
  /\ at = Len(text)
  /\ pc' = "idle"
  /\ UNCHANGED <<cursor, screen, enabled, irqs, text, at, reg, hat, history>>

PrintEnds ==
  /\ pc = "next" /\ hat = 0
  /\ at > Len(text)
  /\ pc' = "idle"
  /\ UNCHANGED <<cursor, screen, enabled, irqs, text, at, reg, hat, history>>

\* A slip in print_char: a newline that only goes down.
NewLineKeepsColumn ==
  /\ pc = "next" /\ hat = 0
  /\ at <= Len(text)
  /\ text[at] = NewLine
  /\ pc' = "loadRow"
  /\ log' = Append(log, NewLine)
  /\ UNCHANGED <<cursor, screen, enabled, irqs, text, at, reg, hat, cut>>

\* print_char of a newline, up to its first access.
StartNewLine ==
  /\ pc = "next" /\ hat = 0
  /\ at <= Len(text)
  /\ text[at] = NewLine
  /\ col' = 0
  /\ pc' = "loadRow"
  /\ log' = Append(log, NewLine)
  /\ UNCHANGED <<row, screen, enabled, irqs, text, at, reg, hat, cut>>

\* print_char of any other character, up to its first access.
StartChar ==
  /\ pc = "next" /\ hat = 0
  /\ at <= Len(text)
  /\ text[at] # NewLine
  /\ reg' = row
  /\ pc' = "place"
  /\ log' = Append(log, text[at])
  /\ UNCHANGED <<cursor, screen, enabled, irqs, text, at, hat, cut>>

Place ==
  /\ pc = "place" /\ hat = 0
  /\ reg' = reg * Width + col
  /\ pc' = "write"
  /\ UNCHANGED <<cursor, screen, enabled, irqs, text, at, hat, history>>

Write ==
  /\ pc = "write" /\ hat = 0
  /\ screen' = Put(reg, text[at])
  /\ pc' = "loadCol"
  /\ UNCHANGED <<cursor, enabled, irqs, text, at, reg, hat, history>>

LoadCol ==
  /\ pc = "loadCol" /\ hat = 0
  /\ reg' = col
  /\ pc' = "storeCol"
  /\ UNCHANGED <<cursor, screen, enabled, irqs, text, at, hat, history>>

\* A slip in the increment of terminal_col: it decrements.
StoreColBack ==
  /\ pc = "storeCol" /\ hat = 0
  /\ col' = reg - 1
  /\ pc' = "wrap"
  /\ UNCHANGED <<row, screen, enabled, irqs, text, at, reg, hat, history>>

StoreCol ==
  /\ pc = "storeCol" /\ hat = 0
  /\ col' = reg + 1
  /\ pc' = "wrap"
  /\ UNCHANGED <<row, screen, enabled, irqs, text, at, reg, hat, history>>

\* A slip in the test for the row's end: `>` for `>=`.
NoWrapAtWidth ==
  /\ pc = "wrap" /\ hat = 0
  /\ col <= Width
  /\ at' = at + 1
  /\ pc' = "next"
  /\ UNCHANGED <<cursor, screen, enabled, irqs, text, reg, hat, history>>

NoWrap ==
  /\ pc = "wrap" /\ hat = 0
  /\ col < Width
  /\ at' = at + 1
  /\ pc' = "next"
  /\ UNCHANGED <<cursor, screen, enabled, irqs, text, reg, hat, history>>

Wrap ==
  /\ pc = "wrap" /\ hat = 0
  /\ col >= Width
  /\ pc' = "home"
  /\ UNCHANGED <<cursor, screen, enabled, irqs, text, at, reg, hat, history>>

Home ==
  /\ pc = "home" /\ hat = 0
  /\ col' = 0
  /\ pc' = "loadRow"
  /\ UNCHANGED <<row, screen, enabled, irqs, text, at, reg, hat, history>>

LoadRow ==
  /\ pc = "loadRow" /\ hat = 0
  /\ reg' = row
  /\ pc' = "storeRow"
  /\ UNCHANGED <<cursor, screen, enabled, irqs, text, at, hat, history>>

\* A slip: after a full row the character is taken again.
StoreRowAgain ==
  /\ pc = "storeRow" /\ hat = 0
  /\ row' = reg + 1
  /\ pc' = "next"
  /\ UNCHANGED <<col, screen, enabled, irqs, text, at, reg, hat, history>>

StoreRow ==
  /\ pc = "storeRow" /\ hat = 0
  /\ row' = reg + 1
  /\ at' = at + 1
  /\ pc' = "next"
  /\ UNCHANGED <<col, screen, enabled, irqs, text, reg, hat, history>>

\* A key is pressed.  The gate and `cli` keep further interrupts out until
\* `iret`, which `sti` still covers.
Interrupt ==
  /\ enabled /\ hat = 0
  /\ irqs < MaxIrqs
  /\ irqs' = irqs + 1
  /\ hat' = 1
  /\ cut' = (cut \/ pc \notin {"idle", "next"})
  /\ UNCHANGED <<cursor, screen, enabled, kernel, log>>

\* A character of int21h_handler's print_string.
HandlerPrints ==
  /\ hat \in 1 .. Len(Message)
  /\ screen' = Put(row * Width + col, Message[hat])
  /\ IF col + 1 >= Width
       THEN col' = 0 /\ row' = row + 1
       ELSE col' = col + 1 /\ UNCHANGED row
  /\ hat' = hat + 1
  /\ log' = Append(log, Message[hat])
  /\ UNCHANGED <<enabled, irqs, kernel, cut>>

\* The acknowledgement to the PIC, popad and iret.
HandlerReturns ==
  /\ hat > Len(Message)
  /\ hat' = 0
  /\ UNCHANGED <<cursor, screen, enabled, irqs, kernel, history>>

PrintStep ==
  \/ PrintEnds \/ StartNewLine \/ StartChar \/ Place \/ Write
  \/ LoadCol \/ StoreCol \/ NoWrap \/ Wrap \/ Home \/ LoadRow \/ StoreRow

HandlerStep == HandlerPrints \/ HandlerReturns

Next ==
  \/ idtr_init
  \/ \E t \in Texts : print_string(t)
  \/ PrintStep
  \/ Interrupt
  \/ HandlerStep

\* The processor executes what was begun.
Spec == Init /\ [][Next]_vars /\ WF_vars(PrintStep) /\ WF_vars(HandlerStep)

-----------------------------------------------------------------------------
(* Where a text belongs on the screen, whoever prints it.                  *)

LineStart(L, k) == Max({0} \cup {j \in 1 .. (k - 1) : L[j] = NewLine})

Column(L, k) == (k - 1 - LineStart(L, k)) % Width

Row(L, k) ==
  Cardinality({j \in 1 .. (k - 1) : L[j] = NewLine \/ Column(L, j) = Width - 1})

Cell(L, k) == Row(L, k) * Width + Column(L, k)

Shown(L) == {k \in DOMAIN L : L[k] # NewLine}

-----------------------------------------------------------------------------
(* Properties *)

Inside ==
  {"place", "write", "loadCol", "storeCol", "wrap", "home", "loadRow", "storeRow"}

TypeOK ==
  /\ row \in Nat
  /\ col \in Nat
  /\ DOMAIN screen \subseteq Nat
  /\ enabled \in BOOLEAN
  /\ irqs \in 0 .. MaxIrqs
  /\ pc \in {"idle", "next"} \cup Inside
  /\ text \in Seq(Chars \cup {NewLine})
  /\ at \in 1 .. (Len(text) + 1)
  /\ reg \in Nat
  /\ hat \in 0 .. (Len(Message) + 1)
  /\ log \in Seq(Chars \cup {NewLine})
  /\ cut \in BOOLEAN

\* However an interrupt cuts print_char, the column leaves the screen only
\* between the kernel's increment and its wrap, and by one: the handler never
\* hands print_char a column to the right of the screen.
CursorOnScreen ==
  /\ col <= Width
  /\ col = Width => pc \in {"wrap", "home"}

\* If no interrupt came inside print_char, every character of both, also of
\* two texts interleaved between characters, is in its place, and no other.
TextInPlace ==
  hat = 0 /\ pc \in {"idle", "next"} /\ ~cut =>
    /\ DOMAIN screen = {Cell(log, k) : k \in Shown(log)}
    /\ \A k \in Shown(log) : screen[Cell(log, k)] = log[k]

\* A bound on the kernel's steps until its text is printed, and on those of a
\* handler that runs.
StepsLeft ==
  LET more == 9 * (Len(text) - at)
  IN CASE pc = "next"     -> more + 10
       [] pc = "place"    -> more + 9
       [] pc = "write"    -> more + 8
       [] pc = "loadCol"  -> more + 7
       [] pc = "storeCol" -> more + 6
       [] pc = "wrap"     -> more + 5
       [] pc = "home"     -> more + 4
       [] pc = "loadRow"  -> more + 3
       [] pc = "storeRow" -> more + 2
       [] OTHER           -> 0

HandlerStepsLeft == IF hat = 0 THEN 0 ELSE Len(Message) + 2 - hat

\* While the kernel prints, a step brings its text to its end, or begins a
\* handler, or brings that to its end: an interrupt, at whatever access of
\* print_char and with whatever it does to the cursor, costs the kernel no
\* access it already made.
PrintingAdvances ==
  [][pc # "idle" =>
       \/ hat = 0 /\ hat' = 0 /\ StepsLeft' \in 0 .. (StepsLeft - 1)
       \/ hat = 0 /\ hat' = 1 /\ StepsLeft' = StepsLeft
       \/ /\ HandlerStepsLeft' \in 0 .. (HandlerStepsLeft - 1)
          /\ StepsLeft' = StepsLeft]_vars

\* A text being printed gets printed, interrupts or not.
PrintingEnds == pc = "next" ~> pc = "idle"

=============================================================================
