----------------------------- MODULE KernelMain ------------------------------
(***************************************************************************)
(* kernel_main (kernel.c) from its first step to its panic: the interrupt  *)
(* gates, the segments, the page tables and the conversions of text that   *)
(* its demonstrations run.  Heap, files and disk are in Heap, Files and    *)
(* Ata; here the heap has room.                                            *)
(***************************************************************************)
EXTENDS Gdt, Paging, Text

CONSTANTS
  SegmentTables,   \* what gdt_structured_table may be
  Vectors,         \* OS_TOTAL_INTERRUPTS
  Keyboard,        \* 0x21, the keyboard's vector
  no_interrupt, int21h,  \* the addresses of the two handlers
  Directory,       \* the address of the page directory
  Changes,         \* how often a page is changed
  Addresses, NewEntries,  \* what paging_set_value is called with
  PathStrings, Numbers, Items  \* what the conversions are applied to

ASSUME KernelMainAssumption ==
  /\ \A t \in SegmentTables :
       /\ DOMAIN t \subseteq Nat /\ \A m \in DOMAIN t : 0 .. m \subseteq DOMAIN t
       /\ 1 \in DOMAIN t /\ ~Unencodable(t[0]) /\ ~Unencodable(t[1])
       /\ \A m \in DOMAIN t : t[m] \in Segment
  /\ Keyboard \in Vectors
  /\ {no_interrupt, int21h} \subseteq 0 .. (LimitFirst * LimitFirst - 1)
  /\ Addresses \subseteq 0 .. (Space - 1)
  /\ Directory \in Nat /\ Aligned(Directory)
  /\ PathStrings \subseteq Seq(Nat \ {NUL})
  /\ Numbers \subseteq Nat

VARIABLES
  stage,       \* the next step of kernel_main
  n,           \* the loops' i
  idt,         \* idt_descriptors
  enabled,     \* interrupts are
  segments,    \* gdt_structured_table
  gdt_table,
  loaded,      \* gdt_table is what the processor uses, and not the boot loader's
  directory, tables,  \* the page directory, and memory at the page tables
  paging,      \* CR0's paging bit
  changes,     \* the calls of paging_set_value so far
  text         \* the last conversion: what it was, its input and its result

vars == <<stage, n, idt, enabled, segments, gdt_table, loaded, directory, tables, paging, changes, text>>
protection == <<idt, enabled, segments, gdt_table, loaded>>
memory == <<directory, tables, paging, changes>>

NoText == [of |-> "nothing", in |-> 0, out |-> 0]

Init ==
  /\ stage = "idt" /\ n = 0
  /\ idt = [v \in Vectors |-> Gate(0)] /\ enabled = FALSE
  /\ segments \in SegmentTables
  /\ gdt_table = [m \in DOMAIN segments |-> Null] /\ loaded = FALSE
  /\ directory = [m \in Indices |-> 0] /\ tables = <<>> /\ paging = FALSE /\ changes = <<>>
  /\ text = NoText

-----------------------------------------------------------------------------
(* Interrupts and segments *)

idtr_init ==
  /\ stage = "idt"
  /\ idt' = [v \in Vectors |-> Gate(IF v = Keyboard THEN int21h ELSE no_interrupt)]
  /\ enabled' = TRUE
  /\ stage' = "gdt"
  /\ UNCHANGED <<n, segments, gdt_table, loaded, memory, text>>

gdt_structured_to_gdt ==
  /\ stage = "gdt"
  /\ n \in DOMAIN segments
  /\ ~Unencodable(segments[n])
  /\ gdt_table' = [gdt_table EXCEPT ![n] = Encode(segments[n])]
  /\ n' = n + 1
  /\ UNCHANGED <<stage, idt, enabled, segments, loaded, memory, text>>

\* A slip in gdt_table_init: the table is loaded before it is filled.
LoadEarly ==
  /\ stage = "gdt"
  /\ loaded' = TRUE
  /\ stage' = IF n \in DOMAIN segments /\ ~Unencodable(segments[n]) THEN "gdt" ELSE "paging"
  /\ n' = IF stage' = "gdt" THEN n ELSE 0
  /\ UNCHANGED <<idt, enabled, segments, gdt_table, memory, text>>

\* gdt_table_init does not look at what the conversion returned.
gdt_load ==
  /\ stage = "gdt"
  /\ n \in DOMAIN segments => Unencodable(segments[n])
  /\ loaded' = TRUE
  /\ stage' = "paging"
  /\ n' = 0
  /\ UNCHANGED <<idt, enabled, segments, gdt_table, memory, text>>

-----------------------------------------------------------------------------
(* Paging *)

\* kheap_zalloc's next block.
TableAddress(i) == Directory + ((i + 1) * PageSize)

paging_new_4gb ==
  /\ stage = "paging"
  /\ n \in Indices
  /\ tables' = [a \in DOMAIN tables \cup {TableAddress(n)} |->
                  IF a = TableAddress(n) THEN IdentityTable(n) ELSE tables[a]]
  /\ directory' = [directory EXCEPT ![n] = Or(TableAddress(n), FLAGS)]
  /\ n' = n + 1
  /\ UNCHANGED <<stage, protection, paging, changes, text>>

paging_enable_paging ==
  /\ stage = "paging"
  /\ n = Entries
  /\ paging' = TRUE
  /\ stage' = "demo_pparser"
  /\ UNCHANGED <<n, protection, directory, tables, changes, text>>

\* No call in the kernel; it returns -EINVARG for an address inside a page.
ChangePage(address, entry) ==
  /\ stage = "demo_pparser" /\ text = NoText
  /\ Len(changes) < Changes
  /\ tables' = IF Aligned(address)
                 THEN paging_set_value(directory, tables, address, entry)
                 ELSE tables
  /\ changes' = Append(changes, [address |-> address, entry |-> entry])
  /\ UNCHANGED <<stage, n, protection, directory, paging, text>>

-----------------------------------------------------------------------------
(* The demonstrations *)

Convert(demo, of, in, out) ==
  /\ stage = demo
  /\ text = NoText
  /\ text' = [of |-> of, in |-> in, out |-> out]
  /\ UNCHANGED <<stage, n, protection, memory>>

demo_pparser(s) == Convert("demo_pparser", "path", s, pparser_parse_path_root(s))

\* The lookup compares the entry's name with a path's, here another entry's.
fat16_get_item_in_directory(e, f) ==
  Convert("demo_fopen", "name", <<e, f>>,
          istrncmp(fat16_get_full_relative_filename(e), fat16_get_full_relative_filename(f)))

count_and_print(i) == Convert("demo_fread", "number", i, itoa(i))

\* A demonstration returns, and its variables go.
DemoReturns ==
  /\ text # NoText
  /\ text' = NoText
  /\ stage' = CASE stage = "demo_pparser" -> "demo_fopen"
                [] stage = "demo_fopen" -> "demo_fread"
                [] stage = "demo_fread" -> "panic"
  /\ UNCHANGED <<n, protection, memory>>

panic ==
  /\ stage = "panic"
  /\ UNCHANGED vars

Next ==
  \/ idtr_init
  \/ gdt_structured_to_gdt \/ gdt_load
  \/ paging_new_4gb \/ paging_enable_paging
  \/ \E a \in Addresses, e \in NewEntries : ChangePage(a, e)
  \/ \E s \in PathStrings : demo_pparser(s)
  \/ \E e \in Items, f \in Items : fat16_get_item_in_directory(e, f)
  \/ \E i \in Numbers : count_and_print(i)
  \/ DemoReturns
  \/ panic

Spec == Init /\ [][Next]_vars

-----------------------------------------------------------------------------
(* Properties *)

TypeOK ==
  /\ stage \in {"idt", "gdt", "paging", "demo_pparser", "demo_fopen", "demo_fread", "panic"}
  /\ n \in Nat
  /\ DOMAIN idt = Vectors
  /\ {enabled, loaded, paging} \subseteq BOOLEAN
  /\ segments \in SegmentTables /\ DOMAIN gdt_table = DOMAIN segments
  /\ DOMAIN directory = Indices
  /\ DOMAIN tables \subseteq {TableAddress(i) : i \in Indices}
  /\ \A a \in DOMAIN tables : DOMAIN tables[a] = Indices
  /\ changes \in Seq([address : Addresses, entry : NewEntries])
  /\ text.of \in {"nothing", "path", "name", "number"}

\* Whenever interrupts are enabled, every vector leads to its handler through
\* a code segment the processor finds at the gates' selector: the boot
\* loader's, or the second one of a table that is already filled.
InterruptsTakeable ==
  enabled =>
    /\ \A v \in Vectors : Handler(idt[v]) = IF v = Keyboard THEN int21h ELSE no_interrupt
    /\ loaded => Decode(gdt_table[1]) = segments[1]

\* Once loaded, the processor reads in the table the segments it was made
\* from, each with all of its base and limit, up to the first that cannot be
\* encoded; from there on it has none.
SegmentsAsStated ==
  loaded =>
    \A m \in DOMAIN segments :
      IF \E l \in 0 .. m : Unencodable(segments[l])
        THEN gdt_table[m] = Null
        ELSE Decode(gdt_table[m]) = segments[m]

\* What page p was given last, or itself.
Asked(p) ==
  LET given == {m \in DOMAIN changes : changes[m].address = p * PageSize}
  IN IF given = {} THEN Or(p * PageSize, FLAGS) ELSE changes[Max(given)].entry

\* From the moment paging is on, the processor's walk through directory and
\* tables finds every page at its own address, but for those given another
\* entry; giving one changes no other page, nor does a refused call.
PagesAsAsked ==
  paging => \A p \in 0 .. ((Entries * Entries) - 1) :
              Walked(directory, tables, p * PageSize) = Asked(p)

\* The names are what is between one cut and the next: each cut after the
\* first is at a slash, but for the last, at the end, and no slash is between.
CutAt(s, names, cut) ==
  /\ cut[Len(names)] = Len(s) + 1
  /\ \A m \in 1 .. Len(names) :
       /\ cut[m - 1] < cut[m]
       /\ m < Len(names) => s[cut[m]] = SLASH
       /\ \A l \in (cut[m - 1] + 1) .. (cut[m] - 1) : s[l] # SLASH
       /\ names[m] = SubSeq(s, cut[m - 1] + 1, cut[m] - 1)

\* A path that parses has its drive's digit in front and its names are what
\* is between the slashes: none lost, also no empty one, and in order.  What
\* is written as a path of a drive parses.
PathAsWritten ==
  text.of = "path" =>
    LET s == text.in
        r == text.out
    IN /\ r.parses /\ Len(s) >= 3 =>
            /\ r.drive = s[1] - 48
            /\ \E cut \in [0 .. Len(r.names) -> 3 .. (Len(s) + 1)] :
                 CutAt(s, r.names, cut) /\ cut[0] = 3
       /\ /\ Len(s) \in 3 .. PPARSER_MAX_PATH
          /\ is_digit(s[1]) /\ s[2] = COLON /\ s[3] = SLASH
          => r.parses

\* Two directory entries have the same name for the lookup only if they have
\* the same name and extension but for case.
NamesTellEntries ==
  text.of = "name" =>
    LET e == text.in[1]
        f == text.in[2]
        Lower(s) == [m \in DOMAIN s |-> tolower(s[m])]
    IN text.out = 0 <=> /\ Lower(e.filename) = Lower(f.filename)
                        /\ Lower(e.ext) = Lower(f.ext)

\* What digits are the number of.
ValueOf(digits) ==
  LET value[m \in 0 .. Len(digits)] ==
        IF m = 0 THEN 0 ELSE (value[m - 1] * 10) + (digits[m] - 48)
  IN value[Len(digits)]

\* The digits of a number, read back, are the number, and the first is not 0;
\* for 0 there are none.
NumberReadsBack ==
  text.of = "number" =>
    /\ ValueOf(text.out) = text.in
    /\ text.out # <<>> => text.out[1] # 48

=============================================================================
