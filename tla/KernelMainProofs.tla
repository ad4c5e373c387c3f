-------------------------- MODULE KernelMainProofs --------------------------
(***************************************************************************)
(* Segments, gates and pages are what the kernel made them, and the        *)
(* conversions of text lose nothing, for every width of the fields, size   *)
(* of the tables, change, entry, path and number.                          *)
(***************************************************************************)
EXTENDS KernelMain, Arithmetic

-----------------------------------------------------------------------------
(* Packing loses nothing. *)

\* Every segment that gdt_structured_to_gdt does not refuse is in the
\* descriptor it makes: the processor reads the same base, limit and access.
THEOREM DescriptorsAsStated ==
  ASSUME NEW s \in Segment, ~Unencodable(s)
  PROVE  Decode(Encode(s)) = s
<1> DEFINE limit == IF Large(s) THEN s.limit \div PageUnit ELSE s.limit
<1>0. /\ LimitFirst \in Nat \ {0} /\ LimitHigh \in Nat \ {0}
      /\ PageUnit \in Nat \ {0} /\ BaseByte \in Nat \ {0}
  BY GdtAssumption
<1>1. /\ s.base \in Nat /\ s.base < LimitFirst * BaseByte * BaseByte
      /\ s.limit \in Nat /\ s.limit < LimitFirst * LimitHigh * PageUnit
  BY <1>0 DEF Segment
<1>2. (s.base % LimitFirst) + LimitFirst *
        (((s.base \div LimitFirst) % BaseByte)
           + BaseByte * ((s.base \div (LimitFirst * BaseByte)) % BaseByte)) = s.base
  <2> DEFINE base == s.base
  <2>1. base \in Nat /\ base < LimitFirst * BaseByte * BaseByte
    BY <1>1
  <2>2. (base % LimitFirst) + LimitFirst *
          (((base \div LimitFirst) % BaseByte)
             + BaseByte * ((base \div (LimitFirst * BaseByte)) % BaseByte)) = base
    <3> HIDE DEF base
    <3> QED BY <1>0, <2>1, BaseParts, Zenon
  <2> QED BY <2>2
<1>3. limit \in Nat /\ limit < LimitFirst * LimitHigh
  <2>1. CASE Large(s)
    <3>1. LimitFirst * LimitHigh \in Nat \ {0} /\ s.limit < PageUnit * (LimitFirst * LimitHigh)
      BY <1>0, <1>1
    <3> QED BY <1>0, <1>1, <2>1, <3>1, Parts, QuotientBelow
  <2>2. CASE ~Large(s)
    <3>1. s.limit < LimitFirst
      BY <1>0, <1>1, <2>2 DEF Large
    <3>2. LimitFirst <= LimitFirst * LimitHigh
      BY <1>0
    <3>3. LimitFirst * LimitHigh \in Nat
      BY <1>0
    <3> QED BY <1>0, <1>1, <2>2, <3>1, <3>2, <3>3
  <2> QED BY <2>1, <2>2
<1>4. (limit % LimitFirst) + LimitFirst * ((limit \div LimitFirst) % LimitHigh) = limit
  <2> HIDE DEF limit
  <2> QED BY <1>0, <1>3, TwoParts
<1>5. Large(s) => limit * PageUnit + (PageUnit - 1) = s.limit
  <2> SUFFICES ASSUME Large(s) PROVE limit * PageUnit + (PageUnit - 1) = s.limit
    OBVIOUS
  <2>1. s.limit % PageUnit = PageUnit - 1
    BY DEF Unencodable
  <2>2. PageUnit * (s.limit \div PageUnit) + (s.limit % PageUnit) = s.limit
    BY <1>0, <1>1, Parts
  <2>3. s.limit \div PageUnit \in Nat
    BY <1>0, <1>1, Parts
  <2>4. limit = s.limit \div PageUnit
    OBVIOUS
  <2> HIDE DEF limit
  <2>5. PageUnit * limit + (PageUnit - 1) = s.limit /\ limit \in Nat
    BY <2>1, <2>2, <2>3, <2>4
  <2> QED BY <1>0, <2>5
<1>6. ~Large(s) => limit = s.limit
  OBVIOUS
<1>7. /\ Encode(s).limit_first + LimitFirst * Encode(s).limit_high = limit
      /\ Encode(s).granular = Large(s)
      /\ Encode(s).access_type = s.access_type
  BY <1>4 DEF Encode
<1>8. Encode(s).base_first + LimitFirst * (Encode(s).base + BaseByte * Encode(s).base_24_31_bits) = s.base
  BY <1>2 DEF Encode
<1>9. Decode(Encode(s)) = [base |-> s.base, limit |-> s.limit, access_type |-> s.access_type]
  <2> HIDE DEF limit
  <2> QED BY <1>5, <1>6, <1>7, <1>8 DEF Decode
<1> QED BY <1>9 DEF Segment

\* The processor finds a handler's address in the gate made for it.
THEOREM GatesAsStated ==
  ASSUME NEW h \in Nat
  PROVE  Handler(Gate(h)) = h
BY GdtAssumption, Parts DEF Handler, Gate

-----------------------------------------------------------------------------
(* Types. *)

Demos == {"demo_pparser", "demo_fopen", "demo_fread"}

\* A conversion's result is there only while its demonstration runs, so that
\* DemoReturns has a stage to go on to.
Demonstrates == text # NoText => stage \in Demos

LEMMA TypeInit == Init => TypeOK /\ Demonstrates
<1> SUFFICES ASSUME Init PROVE TypeOK /\ Demonstrates
  OBVIOUS
<1>1. changes \in Seq([address : Addresses, entry : NewEntries])
  BY DEF Init
<1>2. DOMAIN tables = {}
  BY DEF Init
<1>3. text.of = "nothing"
  BY DEF Init, NoText
<1> QED BY <1>1, <1>2, <1>3 DEF Init, TypeOK, Demonstrates

LEMMA TypeNext == TypeOK /\ Demonstrates /\ [Next]_vars => (TypeOK /\ Demonstrates)'
<1> SUFFICES ASSUME TypeOK, Demonstrates, [Next]_vars PROVE TypeOK' /\ Demonstrates'
  OBVIOUS
<1> USE DEF Demonstrates, Demos
<1>1. CASE idtr_init
  BY <1>1 DEF idtr_init, TypeOK, memory
<1>2. CASE gdt_structured_to_gdt
  BY <1>2 DEF gdt_structured_to_gdt, TypeOK, memory
<1>3. CASE gdt_load
  BY <1>3 DEF gdt_load, TypeOK, memory
<1>4. CASE paging_new_4gb
  <2>1. /\ n \in Indices
        /\ tables' = [a \in DOMAIN tables \cup {TableAddress(n)} |->
                        IF a = TableAddress(n) THEN IdentityTable(n) ELSE tables[a]]
        /\ directory' = [directory EXCEPT ![n] = Or(TableAddress(n), FLAGS)]
        /\ n' = n + 1
        /\ UNCHANGED <<stage, protection, paging, changes, text>>
    BY <1>4 DEF paging_new_4gb
  <2>2. DOMAIN IdentityTable(n) = Indices
    BY DEF IdentityTable
  <2>3. /\ DOMAIN tables' \subseteq {TableAddress(i) : i \in Indices}
        /\ \A a \in DOMAIN tables' : DOMAIN tables'[a] = Indices
    BY <2>1, <2>2 DEF TypeOK
  <2>4. DOMAIN directory' = Indices
    BY <2>1 DEF TypeOK
  <2>5. n' \in Nat /\ Demonstrates'
    BY <2>1 DEF TypeOK
  <2> QED BY <2>1, <2>3, <2>4, <2>5 DEF TypeOK, protection, TableAddress
<1>5. CASE paging_enable_paging
  BY <1>5 DEF paging_enable_paging, TypeOK, protection
<1>6. ASSUME NEW a \in Addresses, NEW e \in NewEntries, ChangePage(a, e)
      PROVE  TypeOK' /\ Demonstrates'
  <2>1. /\ tables' = IF Aligned(a) THEN paging_set_value(directory, tables, a, e) ELSE tables
        /\ changes' = Append(changes, [address |-> a, entry |-> e])
        /\ UNCHANGED <<stage, n, protection, directory, paging, text>>
    BY <1>6 DEF ChangePage
  <2>2. changes' \in Seq([address : Addresses, entry : NewEntries])
    BY <2>1 DEF TypeOK
  <2>3. /\ DOMAIN tables' = DOMAIN tables
        /\ \A b \in DOMAIN tables : DOMAIN tables'[b] = DOMAIN tables[b]
    BY <2>1 DEF paging_set_value
  <2>4. /\ DOMAIN tables' \subseteq {TableAddress(i) : i \in Indices}
        /\ \A b \in DOMAIN tables' : DOMAIN tables'[b] = Indices
    BY <2>3 DEF TypeOK
  <2> QED BY <2>1, <2>2, <2>4 DEF TypeOK, protection, TableAddress
<1>7. ASSUME NEW demo \in Demos,
             NEW of \in {"path", "name", "number"}, NEW in, NEW out, Convert(demo, of, in, out)
      PROVE  TypeOK' /\ Demonstrates'
  BY <1>7 DEF Convert, TypeOK, protection, memory
<1>8. CASE DemoReturns
  <2>1. text' = NoText /\ text'.of = "nothing" /\ UNCHANGED <<n, protection, memory>>
    BY <1>8 DEF DemoReturns, NoText
  <2>2. stage' \in {"demo_fopen", "demo_fread", "panic"}
    BY <1>8 DEF DemoReturns
  <2> QED BY <2>1, <2>2 DEF TypeOK, protection, memory
<1>9. CASE panic \/ UNCHANGED vars
  BY <1>9 DEF panic, vars, TypeOK
<1> QED
  BY <1>1, <1>2, <1>3, <1>4, <1>5, <1>6, <1>7, <1>8, <1>9
  DEF Next, demo_pparser, fat16_get_item_in_directory, count_and_print

LEMMA Typed == Spec => [](TypeOK /\ Demonstrates)
BY TypeInit, TypeNext, PTL DEF Spec

\* From the first step to the panic every table keeps its shape: no page
\* table gets an entry more, and none lies beside its directory's blocks.
THEOREM TypeCorrect == Spec => []TypeOK
BY Typed, PTL

-----------------------------------------------------------------------------
(* Segments. *)

\* While the table is filled, what is before n is encoded and the rest is
\* what the memset left.
FilledToN ==
  /\ stage = "idt" => n = 0
  /\ stage \in {"idt", "gdt"} => ~loaded
  /\ ~loaded =>
       /\ stage \in {"idt", "gdt"}
       /\ \A m \in DOMAIN segments :
            IF m < n
              THEN ~Unencodable(segments[m]) /\ gdt_table[m] = Encode(segments[m])
              ELSE gdt_table[m] = Null

SInv == TypeOK /\ FilledToN /\ SegmentsAsStated

\* A table of segments has one at every index up to its last.
LEMMA TableTyped ==
  ASSUME TypeOK
  PROVE  /\ DOMAIN segments \subseteq Nat
         /\ \A m \in DOMAIN segments : 0 .. m \subseteq DOMAIN segments
         /\ \A m \in DOMAIN segments : segments[m] \in Segment
         /\ 1 \in DOMAIN segments /\ ~Unencodable(segments[0]) /\ ~Unencodable(segments[1])
         /\ DOMAIN gdt_table = DOMAIN segments
BY KernelMainAssumption DEF TypeOK

LEMMA SegmentsInit == Init => FilledToN /\ SegmentsAsStated
<1> SUFFICES ASSUME Init PROVE FilledToN /\ SegmentsAsStated
  OBVIOUS
<1>1. /\ stage = "idt" /\ n = 0 /\ ~loaded
      /\ \A m \in DOMAIN segments : m \in Nat /\ gdt_table[m] = Null
  BY TypeInit, TableTyped DEF Init
<1> QED BY <1>1 DEF FilledToN, SegmentsAsStated

\* The step that fills the table, and the one that loads it.
LEMMA FillStep ==
  ASSUME SInv, gdt_structured_to_gdt
  PROVE  FilledToN' /\ SegmentsAsStated'
<1>1. /\ stage = "gdt" /\ ~loaded /\ n \in DOMAIN segments /\ n \in Nat
      /\ ~Unencodable(segments[n])
      /\ gdt_table' = [gdt_table EXCEPT ![n] = Encode(segments[n])]
      /\ n' = n + 1 /\ UNCHANGED <<stage, segments, loaded>>
  BY DEF SInv, FilledToN, gdt_structured_to_gdt, TypeOK
<1>2. ASSUME NEW m \in DOMAIN segments
      PROVE  IF m < n'
               THEN ~Unencodable(segments[m]) /\ gdt_table'[m] = Encode(segments[m])
               ELSE gdt_table'[m] = Null
  <2>1. m \in Nat /\ DOMAIN gdt_table = DOMAIN segments
    BY TableTyped DEF SInv
  <2>2. IF m < n
          THEN ~Unencodable(segments[m]) /\ gdt_table[m] = Encode(segments[m])
          ELSE gdt_table[m] = Null
    BY <1>1 DEF SInv, FilledToN
  <2>3. CASE m = n
    BY <1>1, <2>1, <2>3
  <2>4. CASE m < n
    BY <1>1, <2>1, <2>2, <2>4
  <2>5. CASE m > n
    BY <1>1, <2>1, <2>2, <2>5
  <2> QED BY <1>1, <2>1, <2>3, <2>4, <2>5
<1> QED BY <1>1, <1>2 DEF FilledToN, SegmentsAsStated, Unencodable, Large, Encode, Null

LEMMA LoadStep ==
  ASSUME SInv, gdt_load
  PROVE  FilledToN' /\ SegmentsAsStated'
<1>1. /\ stage = "gdt" /\ ~loaded /\ n \in Nat
      /\ n \in DOMAIN segments => Unencodable(segments[n])
      /\ loaded' = TRUE /\ stage' = "paging" /\ UNCHANGED <<segments, gdt_table>>
  BY DEF SInv, FilledToN, gdt_load, TypeOK, memory
<1>2. ASSUME NEW m \in DOMAIN segments
      PROVE  IF \E l \in 0 .. m : Unencodable(segments[l])
               THEN gdt_table[m] = Null
               ELSE Decode(gdt_table[m]) = segments[m]
  <2>1. m \in Nat /\ 0 .. m \subseteq DOMAIN segments /\ segments[m] \in Segment
    BY TableTyped DEF SInv
  <2>2. \A l \in 0 .. m :
          IF l < n
            THEN ~Unencodable(segments[l]) /\ gdt_table[l] = Encode(segments[l])
            ELSE gdt_table[l] = Null
    BY <1>1, <2>1 DEF SInv, FilledToN
  <2>3. CASE m < n
    <3>1. \A l \in 0 .. m : ~Unencodable(segments[l])
      BY <1>1, <2>1, <2>2, <2>3
    <3>2. Decode(gdt_table[m]) = segments[m]
      BY <2>1, <2>2, <2>3, <3>1, DescriptorsAsStated
    <3> QED BY <3>1, <3>2
  <2>4. CASE ~(m < n)
    <3>1. n \in 0 .. m /\ Unencodable(segments[n])
      BY <1>1, <2>1, <2>4
    <3>2. gdt_table[m] = Null
      BY <2>1, <2>2, <2>4
    <3> QED BY <3>1, <3>2
  <2> QED BY <2>3, <2>4
<1>3. FilledToN'
  BY <1>1 DEF FilledToN
<1>4. SegmentsAsStated'
  BY <1>1, <1>2 DEF SegmentsAsStated, Unencodable, Large, Null, Decode
<1> QED BY <1>3, <1>4

\* A step that has nothing to do with the segments.
Aside ==
  /\ UNCHANGED <<segments, gdt_table, loaded>>
  /\ \/ stage \notin {"idt", "gdt"} /\ stage' \notin {"idt", "gdt"}
     \/ stage = "idt" /\ stage' = "gdt" /\ n' = n
     \/ stage' = stage /\ n' = n

LEMMA SegmentsElse ==
  ASSUME SInv, Aside
  PROVE  FilledToN' /\ SegmentsAsStated'
<1>1. SegmentsAsStated'
  BY DEF Aside, SInv, SegmentsAsStated, Unencodable, Large, Null, Decode
<1>2. FilledToN'
  BY DEF Aside, SInv, FilledToN, Unencodable, Large, Null, Encode
<1> QED BY <1>1, <1>2

LEMMA SegmentsNext == SInv /\ Demonstrates /\ [Next]_vars => FilledToN' /\ SegmentsAsStated'
<1> SUFFICES ASSUME SInv, Demonstrates, [Next]_vars PROVE FilledToN' /\ SegmentsAsStated'
  OBVIOUS
<1>1. CASE idtr_init
  BY <1>1, SegmentsElse DEF Aside, idtr_init
<1>2. CASE gdt_structured_to_gdt
  BY <1>2, FillStep
<1>3. CASE gdt_load
  BY <1>3, LoadStep
<1>4. CASE paging_new_4gb
  BY <1>4, SegmentsElse DEF Aside, paging_new_4gb, protection
<1>5. CASE paging_enable_paging
  BY <1>5, SegmentsElse DEF Aside, paging_enable_paging, protection
<1>6. ASSUME NEW a \in Addresses, NEW e \in NewEntries, ChangePage(a, e)
      PROVE  FilledToN' /\ SegmentsAsStated'
  BY <1>6, SegmentsElse DEF Aside, ChangePage, protection
<1>7. ASSUME NEW demo \in Demos, NEW of, NEW in, NEW out, Convert(demo, of, in, out)
      PROVE  FilledToN' /\ SegmentsAsStated'
  BY <1>7, SegmentsElse DEF Aside, Convert, protection
<1>8. CASE DemoReturns
  <2>1. stage \in Demos /\ stage' \in {"demo_fopen", "demo_fread", "panic"}
    BY <1>8 DEF DemoReturns, SInv, Demonstrates, Demos
  <2> QED BY <1>8, <2>1, SegmentsElse DEF Aside, DemoReturns, protection, Demos
<1>9. CASE panic \/ UNCHANGED vars
  BY <1>9, SegmentsElse DEF Aside, panic, vars
<1> QED
  BY <1>1, <1>2, <1>3, <1>4, <1>5, <1>6, <1>7, <1>8, <1>9
  DEF Next, demo_pparser, fat16_get_item_in_directory, count_and_print, Demos

LEMMA SegmentsKept == Spec => []SInv
<1>1. Init => SInv
  BY TypeInit, SegmentsInit DEF SInv
<1>2. SInv /\ Demonstrates /\ [Next]_vars => SInv'
  BY TypeNext, SegmentsNext DEF SInv
<1> QED BY <1>1, <1>2, Typed, PTL DEF Spec

\* For every table of segments: once loaded, the processor reads in it the
\* segments as they were stated, up to the first that cannot be encoded.
THEOREM SegmentsStated == Spec => []SegmentsAsStated
<1>1. SInv => SegmentsAsStated
  BY DEF SInv
<1> QED BY <1>1, SegmentsKept, PTL

-----------------------------------------------------------------------------
(* Interrupts. *)

GatesRight ==
  enabled => \A v \in Vectors : idt[v] = Gate(IF v = Keyboard THEN int21h ELSE no_interrupt)

LEMMA GatesNext == GatesRight /\ [Next]_vars => GatesRight'
<1> SUFFICES ASSUME GatesRight, [Next]_vars PROVE GatesRight'
  OBVIOUS
<1>1. CASE idtr_init
  BY <1>1 DEF idtr_init, GatesRight
<1>2. CASE UNCHANGED <<idt, enabled>>
  BY <1>2 DEF GatesRight
<1> QED
  BY <1>1, <1>2
  DEF Next, vars, protection, memory, gdt_structured_to_gdt, gdt_load, paging_new_4gb,
      paging_enable_paging, ChangePage, Convert, demo_pparser, fat16_get_item_in_directory,
      count_and_print, DemoReturns, panic

\* At every step with interrupts enabled, also between their enabling and
\* the reload of the segments, each vector leads to its handler.
THEOREM InterruptsAlwaysTakeable == Spec => []InterruptsTakeable
<1>1. Init => GatesRight
  BY DEF Init, GatesRight
<1>2. SInv /\ GatesRight => InterruptsTakeable
  <2> SUFFICES ASSUME SInv, GatesRight, enabled PROVE
        /\ \A v \in Vectors : Handler(idt[v]) = IF v = Keyboard THEN int21h ELSE no_interrupt
        /\ loaded => Decode(gdt_table[1]) = segments[1]
    BY DEF InterruptsTakeable
  <2>1. no_interrupt \in Nat /\ int21h \in Nat
    BY KernelMainAssumption, GdtAssumption
  <2>2. \A v \in Vectors : Handler(idt[v]) = IF v = Keyboard THEN int21h ELSE no_interrupt
    BY <2>1, GatesAsStated DEF GatesRight
  <2>3. ASSUME loaded PROVE Decode(gdt_table[1]) = segments[1]
    <3>1. /\ 1 \in DOMAIN segments
          /\ \A l \in 0 .. 1 : ~Unencodable(segments[l])
      BY TableTyped DEF SInv
    <3> QED BY <2>3, <3>1 DEF SInv, SegmentsAsStated
  <2> QED BY <2>2, <2>3
<1> QED BY <1>1, <1>2, GatesNext, SegmentsKept, PTL DEF Spec

-----------------------------------------------------------------------------
(* Pages. *)

LEMMA PagingSizes ==
  /\ Entries \in Nat \ {0} /\ PageSize \in Nat \ {0} /\ PageSize > 7
  /\ TableTotal = PageSize * Entries /\ TableTotal \in Nat \ {0}
  /\ Space = PageSize * (Entries * Entries) /\ Space \in Nat
<1>1. Entries \in Nat \ {0} /\ PageSize \in Nat \ {0} /\ PageSize > 7
  BY PagingAssumption
<1>2. TableTotal = PageSize * Entries /\ TableTotal \in Nat \ {0}
  BY <1>1 DEF TableTotal
<1>3. Space = PageSize * (Entries * Entries) /\ Space \in Nat
  BY <1>1, <1>2 DEF Space
<1> QED BY <1>1, <1>2, <1>3

\* The number of the page at entry j of table i.
Page(i, j) == (Entries * i) + j

LEMMA PageTyped ==
  ASSUME NEW i \in Indices, NEW j \in Indices
  PROVE  Page(i, j) \in 0 .. ((Entries * Entries) - 1)
BY PagingSizes, InSquare DEF Page, Indices

\* Every page has one table and one place in it.
LEMMA PageSplit ==
  ASSUME NEW p \in 0 .. ((Entries * Entries) - 1)
  PROVE  /\ p \div Entries \in Indices /\ p % Entries \in Indices
         /\ p = Page(p \div Entries, p % Entries)
<1>1. p \in Nat /\ p < Entries * Entries /\ Entries \in Nat \ {0}
  BY PagingSizes
<1>2. /\ (p % Entries) \in 0 .. (Entries - 1) /\ (p \div Entries) \in Nat
      /\ Entries * (p \div Entries) + (p % Entries) = p
  BY <1>1, Parts
<1>3. (p \div Entries) < Entries
  BY <1>1, QuotientBelow
<1> QED BY <1>1, <1>2, <1>3 DEF Page, Indices

\* The two indices of a page's address are its table and its place in it.
LEMMA AddressSplit ==
  ASSUME NEW i \in Indices, NEW j \in Indices
  PROVE  /\ (Page(i, j) * PageSize) \div TableTotal = i
         /\ ((Page(i, j) * PageSize) % TableTotal) \div PageSize = j
<1>0. /\ i \in Nat /\ j \in Nat /\ j < Entries
      /\ Entries \in Nat \ {0} /\ PageSize \in Nat \ {0}
  BY PagingSizes DEF Indices
<1> DEFINE rest == PageSize * j
<1>1. rest \in 0 .. (TableTotal - 1)
  <2>1. PageSize * j + PageSize <= PageSize * Entries
    BY <1>0, MultiplesApart
  <2>2. PageSize * j \in Nat
    BY <1>0
  <2> QED BY <2>1, <2>2, <1>0, PagingSizes
<1>2. Page(i, j) * PageSize = TableTotal * i + rest
  BY <1>0, PagingSizes DEF Page
<1>3. rest \div PageSize = j
  <2>1. 0 \in 0 .. (PageSize - 1)
    BY <1>0
  <2>2. (PageSize * j + 0) \div PageSize = j
    BY <1>0, <2>1, QuotientIs
  <2>3. PageSize * j + 0 = PageSize * j
    BY <1>0
  <2> QED BY <2>2, <2>3
<1>4. (TableTotal * i + rest) \div TableTotal = i /\ (TableTotal * i + rest) % TableTotal = rest
  <2>1. TableTotal \in Nat \ {0}
    BY PagingSizes
  <2> HIDE DEF rest
  <2> QED BY <1>0, <1>1, <2>1, QuotientIs
<1> QED BY <1>2, <1>3, <1>4

\* An aligned address is a page's.
LEMMA AlignedIsPage ==
  ASSUME NEW a \in 0 .. (Space - 1), Aligned(a)
  PROVE  \E q \in 0 .. ((Entries * Entries) - 1) : a = q * PageSize
<1>0. a \in Nat /\ a < Space /\ PageSize \in Nat \ {0} /\ Entries \in Nat \ {0}
  BY PagingSizes
<1> DEFINE q == a \div PageSize
           size == Entries * Entries
<1>1. q \in Nat /\ PageSize * q + (a % PageSize) = a
  BY <1>0, Parts
<1>2. a % PageSize = 0
  BY DEF Aligned
<1>3. size \in Nat \ {0} /\ a < PageSize * size
  BY <1>0, PagingSizes
<1>4. q < size
  <2> HIDE DEF size
  <2> QED BY <1>0, <1>3, QuotientBelow
<1>5. a = q * PageSize
  <2> HIDE DEF q
  <2> QED BY <1>0, <1>1, <1>2
<1>6. q \in 0 .. (size - 1)
  <2> HIDE DEF q, size
  <2> QED BY <1>1, <1>3, <1>4
<1> HIDE DEF q
<1> QED BY <1>5, <1>6

LEMMA PageIsAligned ==
  ASSUME NEW p \in Nat
  PROVE  Aligned(p * PageSize)
<1>1. PageSize \in Nat \ {0} /\ 0 \in 0 .. (PageSize - 1)
  BY PagingSizes
<1>2. (PageSize * p + 0) % PageSize = 0
  BY <1>1, QuotientIs
<1>3. PageSize * p + 0 = p * PageSize
  BY <1>1
<1> QED BY <1>2, <1>3 DEF Aligned

\* The flags or'ed into a table's address are what the mask takes off, and
\* two tables have different addresses.
LEMMA TablesFound ==
  ASSUME NEW i \in Indices
  PROVE  Masked(Or(TableAddress(i), FLAGS)) = TableAddress(i)
<1>1. PageSize \in Nat \ {0} /\ PageSize > 7 /\ i \in Nat /\ Directory \in Nat
  BY PagingSizes, KernelMainAssumption DEF Indices
<1>2. PICK k \in Nat : Directory = PageSize * k
  <2>1. Directory % PageSize = 0
    BY KernelMainAssumption DEF Aligned
  <2>2. (Directory \div PageSize) \in Nat
        /\ PageSize * (Directory \div PageSize) + (Directory % PageSize) = Directory
    BY <1>1, Parts
  <2> DEFINE k == Directory \div PageSize
  <2>3. k \in Nat /\ PageSize * k + 0 = Directory
    BY <2>1, <2>2
  <2> HIDE DEF k
  <2>4. Directory = PageSize * k
    BY <1>1, <2>3
  <2> QED BY <2>3, <2>4
<1> DEFINE m == k + i + 1
<1>3. m \in Nat /\ TableAddress(i) = PageSize * m
  BY <1>1, <1>2 DEF TableAddress
<1>4. (PageSize * m + 7) % PageSize = 7
  <2>1. 7 \in 0 .. (PageSize - 1)
    BY <1>1
  <2> HIDE DEF m
  <2> QED BY <1>1, <1>3, <2>1, QuotientIs
<1> HIDE DEF m
<1> QED BY <1>1, <1>3, <1>4 DEF Masked, Or, FLAGS

LEMMA TablesApart ==
  ASSUME NEW i \in Indices, NEW j \in Indices, TableAddress(i) = TableAddress(j)
  PROVE  i = j
<1>1. PageSize \in Nat \ {0} /\ i \in Nat /\ j \in Nat /\ Directory \in Nat
  BY PagingSizes, KernelMainAssumption DEF Indices
<1>2. PageSize * (i + 1) = PageSize * (j + 1)
  <2>1. Directory + ((i + 1) * PageSize) = Directory + ((j + 1) * PageSize)
    BY DEF TableAddress
  <2> QED BY <1>1, <2>1
<1>3. i + 1 = j + 1
  BY <1>1, <1>2, Cancelled
<1> QED BY <1>1, <1>3

\* What paging_new_4gb enters for a page is the page's own address.
LEMMA IdentityIsPage ==
  ASSUME NEW i \in Indices, NEW j \in Indices
  PROVE  IdentityTable(i)[j] = Or(Page(i, j) * PageSize, FLAGS)
<1>1. /\ PageSize \in Nat \ {0} /\ Entries \in Nat \ {0} /\ i \in Nat /\ j \in Nat
  BY PagingSizes DEF Indices
<1> DEFINE p == Page(i, j)
           size == Entries * Entries
<1>2. p \in Nat /\ p < size /\ size \in Nat
  BY <1>1, PageTyped
<1>3. (i * TableTotal) + (j * PageSize) = p * PageSize
  BY <1>1, PagingSizes DEF Page
<1>4. p * PageSize \in Nat /\ p * PageSize < Space /\ Space \in Nat
  <2> HIDE DEF p, size
  <2>1. PageSize * p + PageSize <= PageSize * size
    BY <1>1, <1>2, MultiplesApart
  <2>2. PageSize * p \in Nat /\ PageSize * p = p * PageSize /\ PageSize * size = Space
    BY <1>1, <1>2, PagingSizes DEF size
  <2>3. PageSize * size \in Nat
    BY <2>2, PagingSizes
  <2> QED BY <1>1, <2>1, <2>2, <2>3
<1>5. (p * PageSize) % Space = p * PageSize
  <2> DEFINE l == p * PageSize
  <2>1. l \in Nat /\ l < Space /\ Space \in Nat \ {0}
    BY <1>4
  <2>2. l % Space = l
    <3> HIDE DEF l
    <3> QED BY <2>1, RemainderOfSmall
  <2> QED BY <2>2
<1> QED BY <1>3, <1>5 DEF IdentityTable

-----------------------------------------------------------------------------
(* What was asked for. *)

LEMMA MaxIsLast ==
  ASSUME NEW k \in Nat, NEW S, S \subseteq 1 .. k, S # {}
  PROVE  Max(S) \in S /\ \A m \in S : m <= Max(S)
<1>1. PICK x \in S : \A m \in S : x >= m
  <2>1. S \subseteq 0 .. k
    OBVIOUS
  <2> QED BY <2>1, GreatestExists
<1>2. Max(S) \in S /\ \A m \in S : Max(S) >= m
  BY <1>1 DEF Max
<1> QED BY <1>2

Given(p) == {m \in DOMAIN changes : changes[m].address = p * PageSize}

\* A change is what its page was asked last, and no other page's.
LEMMA AskedNext ==
  ASSUME NEW a, NEW e, NEW p \in Nat,
         changes \in Seq([address : Addresses, entry : NewEntries]),
         changes' = Append(changes, [address |-> a, entry |-> e])
  PROVE  Asked(p)' = IF a = p * PageSize THEN e ELSE Asked(p)
<1> DEFINE k == Len(changes)
<1>1. /\ k \in Nat /\ DOMAIN changes = 1 .. k /\ DOMAIN changes' = 1 .. (k + 1)
      /\ changes'[k + 1] = [address |-> a, entry |-> e]
      /\ \A m \in 1 .. k : changes'[m] = changes[m]
  OBVIOUS
<1> HIDE DEF k
<1>2. Given(p) \subseteq 1 .. k /\ Given(p)' \subseteq 1 .. (k + 1)
  BY <1>1 DEF Given
<1>3. CASE a = p * PageSize
  <2>1. k + 1 \in Given(p)'
    BY <1>1, <1>3 DEF Given
  <2>2. Max(Given(p)') \in Given(p)' /\ k + 1 <= Max(Given(p)')
    <3>1. k + 1 \in Nat
      BY <1>1
    <3> DEFINE S == Given(p)'
    <3>2. S \subseteq 1 .. (k + 1) /\ S # {} /\ k + 1 \in S
      BY <1>2, <2>1
    <3> HIDE DEF S
    <3>3. Max(S) \in S /\ k + 1 <= Max(S)
      BY <3>1, <3>2, MaxIsLast
    <3> QED BY <3>3 DEF S
  <2>3. Max(Given(p)') = k + 1
    BY <1>1, <1>2, <2>2
  <2>4. Asked(p)' = changes'[Max(Given(p)')].entry
    BY <2>1 DEF Asked, Given
  <2> QED BY <1>1, <1>3, <2>3, <2>4
<1>4. CASE a # p * PageSize
  <2>1. Given(p)' = Given(p)
    <3>1. k + 1 \notin Given(p)'
      BY <1>1, <1>4 DEF Given
    <3>2. \A m \in 1 .. k : m \in Given(p)' <=> m \in Given(p)
      BY <1>1 DEF Given
    <3>3. \A m \in Given(p)' : m \in 1 .. k
      <4> SUFFICES ASSUME NEW m \in Given(p)' PROVE m \in 1 .. k
        OBVIOUS
      <4>1. m \in 1 .. (k + 1) /\ m # k + 1
        BY <1>2, <3>1
      <4> QED BY <1>1, <4>1
    <3>4. \A m \in Given(p) : m \in 1 .. k
      BY <1>2
    <3>5. \A m : m \in Given(p)' <=> m \in Given(p)
      BY <3>2, <3>3, <3>4
    <3> DEFINE after == Given(p)'
               before == Given(p)
    <3>6. \A m : m \in after <=> m \in before
      BY <3>5
    <3> HIDE DEF after, before
    <3>7. after = before
      BY <3>6
    <3> QED BY <3>7 DEF after, before
  <2>2. CASE Given(p) = {}
    BY <1>4, <2>1, <2>2 DEF Asked, Given
  <2>3. CASE Given(p) # {}
    <3>1. Max(Given(p)) \in 1 .. k
      BY <1>1, <1>2, <2>3, MaxIsLast
    <3>2. Asked(p) = changes[Max(Given(p))].entry
      BY <2>3 DEF Asked, Given
    <3>3. Asked(p)' = changes'[Max(Given(p)')].entry
      BY <2>1, <2>3 DEF Asked, Given
    <3> QED BY <1>1, <1>4, <2>1, <3>1, <3>2, <3>3
  <2> QED BY <2>2, <2>3
<1> QED BY <1>3, <1>4

-----------------------------------------------------------------------------
(* The tables in memory. *)

Entered(i) ==
  /\ directory[i] = Or(TableAddress(i), FLAGS)
  /\ TableAddress(i) \in DOMAIN tables

\* While the tables are built those before n map each page to itself; from
\* the switch on each entry is what was asked for its page.
TablesRight ==
  /\ paging => stage \notin {"idt", "gdt", "paging"}
  /\ stage \in {"idt", "gdt", "paging"} => changes = <<>> /\ ~paging
  /\ stage = "paging" =>
       \A i \in Indices : i < n => Entered(i) /\ tables[TableAddress(i)] = IdentityTable(i)
  /\ stage \in Demos => paging
  /\ paging =>
       \A i \in Indices :
         /\ Entered(i)
         /\ \A j \in Indices : tables[TableAddress(i)][j] = Asked(Page(i, j))

PInv == TypeOK /\ TablesRight

LEMMA BuildStep ==
  ASSUME PInv, paging_new_4gb
  PROVE  TablesRight'
<1>1. /\ stage = "paging" /\ n \in Indices /\ n \in Nat /\ changes = <<>> /\ ~paging
      /\ tables' = [a \in DOMAIN tables \cup {TableAddress(n)} |->
                      IF a = TableAddress(n) THEN IdentityTable(n) ELSE tables[a]]
      /\ directory' = [directory EXCEPT ![n] = Or(TableAddress(n), FLAGS)]
      /\ n' = n + 1
      /\ UNCHANGED <<stage, paging, changes>>
      /\ DOMAIN directory = Indices
  BY DEF PInv, TablesRight, TypeOK, paging_new_4gb
<1>2. ASSUME NEW i \in Indices, i < n'
      PROVE  Entered(i)' /\ tables'[TableAddress(i)] = IdentityTable(i)
  <2>1. CASE i = n
    BY <1>1, <2>1 DEF Entered, TableAddress
  <2>2. CASE i # n
    <3>1. i < n
      BY <1>1, <1>2, <2>2 DEF Indices
    <3>2. Entered(i) /\ tables[TableAddress(i)] = IdentityTable(i)
      BY <1>1, <3>1 DEF PInv, TablesRight
    <3>3. TableAddress(i) # TableAddress(n)
      BY <1>1, <2>2, TablesApart
    <3>4. directory'[i] = directory[i]
      BY <1>1, <2>2
    <3>5. TableAddress(i) \in DOMAIN tables' /\ tables'[TableAddress(i)] = tables[TableAddress(i)]
      BY <1>1, <3>2, <3>3 DEF Entered
    <3> QED BY <3>2, <3>4, <3>5 DEF Entered, TableAddress
  <2> QED BY <2>1, <2>2
<1>3. \A i \in Indices : i < n' => (Entered(i) /\ tables[TableAddress(i)] = IdentityTable(i))'
  BY <1>2 DEF TableAddress, IdentityTable
<1> QED BY <1>1, <1>3 DEF TablesRight, Demos

LEMMA SwitchStep ==
  ASSUME PInv, paging_enable_paging
  PROVE  TablesRight'
<1>1. /\ stage = "paging" /\ n = Entries /\ changes = <<>>
      /\ paging' = TRUE /\ stage' = "demo_pparser"
      /\ UNCHANGED <<directory, tables, changes>>
  BY DEF PInv, TablesRight, paging_enable_paging
<1>2. ASSUME NEW i \in Indices
      PROVE  Entered(i)' /\ \A j \in Indices : tables'[TableAddress(i)][j] = Asked(Page(i, j))'
  <2>1. i < n
    BY <1>1, PagingSizes DEF Indices
  <2>2. Entered(i) /\ tables[TableAddress(i)] = IdentityTable(i)
    BY <1>1, <2>1 DEF PInv, TablesRight
  <2>3. ASSUME NEW j \in Indices PROVE tables'[TableAddress(i)][j] = Asked(Page(i, j))'
    <3>1. DOMAIN changes' = {}
      BY <1>1
    <3>2. Asked(Page(i, j))' = Or(Page(i, j) * PageSize, FLAGS)
      BY <3>1 DEF Asked
    <3>3. tables'[TableAddress(i)] = IdentityTable(i)
      BY <1>1, <2>2
    <3> QED BY <3>2, <3>3, IdentityIsPage
  <2>4. Entered(i)'
    BY <1>1, <2>2 DEF Entered, TableAddress
  <2> QED BY <2>3, <2>4
<1>3. \A i \in Indices :
        /\ Entered(i)'
        /\ \A j \in Indices : (tables[TableAddress(i)][j] = Asked(Page(i, j)))'
  BY <1>2 DEF TableAddress, Page
<1> QED BY <1>1, <1>3 DEF TablesRight, Demos

\* The one place that paging_set_value writes is the page's.
LEMMA SetPage ==
  ASSUME PInv, paging, NEW q \in 0 .. ((Entries * Entries) - 1), NEW e
  PROVE  LET set == paging_set_value(directory, tables, q * PageSize, e)
         IN /\ DOMAIN set = DOMAIN tables
            /\ \A i, j \in Indices :
                 set[TableAddress(i)][j] =
                   IF Page(i, j) = q THEN e ELSE tables[TableAddress(i)][j]
<1> DEFINE x == q \div Entries
           y == q % Entries
           set == paging_set_value(directory, tables, q * PageSize, e)
<1>1. x \in Indices /\ y \in Indices /\ q = Page(x, y)
  BY PageSplit
<1> HIDE DEF x, y
<1>2. (q * PageSize) \div TableTotal = x /\ ((q * PageSize) % TableTotal) \div PageSize = y
  BY <1>1, AddressSplit
<1>3. Entered(x) /\ Masked(directory[x]) = TableAddress(x)
  BY <1>1, TablesFound DEF PInv, TablesRight, Entered
<1>4. set = [tables EXCEPT ![TableAddress(x)][y] = e]
  BY <1>2, <1>3 DEF paging_set_value
<1>5. \A i \in Indices : TableAddress(i) \in DOMAIN tables /\ DOMAIN tables[TableAddress(i)] = Indices
  BY DEF PInv, TypeOK, TablesRight, Entered
<1>6. ASSUME NEW i \in Indices, NEW j \in Indices
      PROVE  set[TableAddress(i)][j] =
               IF Page(i, j) = q THEN e ELSE tables[TableAddress(i)][j]
  <2>1. Page(i, j) = q <=> i = x /\ j = y
    <3>1. Page(i, j) = q => i = x /\ j = y
      BY <1>2, AddressSplit
    <3> QED BY <1>1, <3>1
  <2>2. CASE i = x /\ j = y
    BY <1>1, <1>4, <1>5, <2>1, <2>2
  <2>3. CASE i = x /\ j # y
    BY <1>1, <1>4, <1>5, <2>1, <2>3
  <2>4. CASE i # x
    <3>1. TableAddress(i) # TableAddress(x)
      BY <1>1, <2>4, TablesApart
    <3> QED BY <1>1, <1>4, <1>5, <2>1, <2>4, <3>1
  <2> QED BY <2>2, <2>3, <2>4
<1>7. DOMAIN set = DOMAIN tables
  BY <1>4
<1> HIDE DEF set
<1> QED BY <1>6, <1>7 DEF set

LEMMA ChangeStep ==
  ASSUME PInv, NEW a \in Addresses, NEW e \in NewEntries, ChangePage(a, e)
  PROVE  TablesRight'
<1>1. /\ stage = "demo_pparser" /\ paging
      /\ tables' = IF Aligned(a) THEN paging_set_value(directory, tables, a, e) ELSE tables
      /\ changes' = Append(changes, [address |-> a, entry |-> e])
      /\ UNCHANGED <<stage, n, directory, paging>>
      /\ changes \in Seq([address : Addresses, entry : NewEntries])
  BY DEF ChangePage, PInv, TablesRight, TypeOK, Demos
<1>2. \A p \in Nat : Asked(p)' = IF a = p * PageSize THEN e ELSE Asked(p)
  BY <1>1, AskedNext
<1>3. \A i, j \in Indices : Page(i, j) \in Nat
  BY PageTyped
<1>4. /\ DOMAIN tables' = DOMAIN tables
      /\ \A i, j \in Indices : tables'[TableAddress(i)][j] = Asked(Page(i, j))'
  <2>1. CASE Aligned(a)
    <3>1. a \in 0 .. (Space - 1)
      BY KernelMainAssumption
    <3>2. PICK q \in 0 .. ((Entries * Entries) - 1) : a = q * PageSize
      BY <2>1, <3>1, AlignedIsPage
    <3>3. q \in Nat /\ PageSize \in Nat \ {0}
      BY PagingSizes
    <3>4. \A p \in Nat : a = p * PageSize <=> p = q
      <4> SUFFICES ASSUME NEW p \in Nat PROVE a = p * PageSize => p = q
        BY <3>2
      <4>1. a = p * PageSize => PageSize * p = PageSize * q
        BY <3>2, <3>3
      <4> QED BY <3>3, <4>1, Cancelled
    <3>5. /\ DOMAIN tables' = DOMAIN tables
          /\ \A i, j \in Indices :
               tables'[TableAddress(i)][j] =
                 IF Page(i, j) = q THEN e ELSE tables[TableAddress(i)][j]
      BY <1>1, <2>1, <3>2, SetPage
    <3>6. \A i, j \in Indices : tables[TableAddress(i)][j] = Asked(Page(i, j))
      BY <1>1 DEF PInv, TablesRight
    <3> QED BY <1>2, <1>3, <3>4, <3>5, <3>6
  <2>2. CASE ~Aligned(a)
    <3>1. \A p \in Nat : a # p * PageSize
      BY <2>2, PageIsAligned
    <3>2. \A i, j \in Indices : tables[TableAddress(i)][j] = Asked(Page(i, j))
      BY <1>1 DEF PInv, TablesRight
    <3> QED BY <1>1, <1>2, <1>3, <2>2, <3>1, <3>2
  <2> QED BY <2>1, <2>2
<1>5. \A i \in Indices : Entered(i)'
  <2>1. \A i \in Indices : Entered(i)
    BY <1>1 DEF PInv, TablesRight
  <2> QED BY <1>1, <1>4, <2>1 DEF Entered, TableAddress
<1>6. \A i \in Indices :
        /\ Entered(i)'
        /\ \A j \in Indices : (tables[TableAddress(i)][j] = Asked(Page(i, j)))'
  BY <1>4, <1>5 DEF TableAddress, Page
<1> QED BY <1>1, <1>6 DEF TablesRight, Demos

\* A step that leaves memory and its stage alone.
LEMMA TablesElse ==
  ASSUME PInv, UNCHANGED memory,
         \/ stage' = stage /\ n' = n
         \/ stage \in {"idt", "gdt"} /\ stage' \in {"gdt", "paging"} /\ n' = 0
         \/ stage \in {"idt", "gdt"} /\ stage' = "gdt"
         \/ stage \in Demos /\ stage' \notin {"idt", "gdt", "paging"}
  PROVE  TablesRight'
<1>1. /\ UNCHANGED <<directory, tables, paging, changes>>
      /\ \A p : Asked(p)' = Asked(p)
      /\ \A i : Entered(i)' <=> Entered(i)
  BY DEF memory, Asked, Entered, TableAddress
<1>2. paging' => \A i \in Indices :
        /\ Entered(i)'
        /\ \A j \in Indices : (tables[TableAddress(i)][j] = Asked(Page(i, j)))'
  BY <1>1 DEF PInv, TablesRight, TableAddress, Page
<1>3. stage' = "paging" =>
        \A i \in Indices : i < n' =>
          (Entered(i) /\ tables[TableAddress(i)] = IdentityTable(i))'
  <2>1. CASE stage = "paging" /\ stage' = stage /\ n' = n
    BY <1>1, <2>1 DEF PInv, TablesRight, TableAddress, IdentityTable
  <2>2. CASE n' = 0
    BY <2>2, PagingSizes DEF Indices
  <2>3. CASE stage' # "paging"
    BY <2>3
  <2> QED BY <2>1, <2>2, <2>3
<1>4. /\ paging' => stage' \notin {"idt", "gdt", "paging"}
      /\ stage' \in {"idt", "gdt", "paging"} => changes' = <<>> /\ ~paging'
      /\ stage' \in Demos => paging'
  BY <1>1 DEF PInv, TablesRight, Demos
<1> QED BY <1>2, <1>3, <1>4 DEF TablesRight, Demos

LEMMA TablesNext == PInv /\ Demonstrates /\ [Next]_vars => TablesRight'
<1> SUFFICES ASSUME PInv, Demonstrates, [Next]_vars PROVE TablesRight'
  OBVIOUS
<1>1. CASE idtr_init
  BY <1>1, TablesElse DEF idtr_init
<1>2. CASE gdt_structured_to_gdt
  BY <1>2, TablesElse DEF gdt_structured_to_gdt
<1>3. CASE gdt_load
  BY <1>3, TablesElse DEF gdt_load
<1>4. CASE paging_new_4gb
  BY <1>4, BuildStep
<1>5. CASE paging_enable_paging
  BY <1>5, SwitchStep
<1>6. ASSUME NEW a \in Addresses, NEW e \in NewEntries, ChangePage(a, e) PROVE TablesRight'
  BY <1>6, ChangeStep
<1>7. ASSUME NEW demo \in Demos, NEW of, NEW in, NEW out, Convert(demo, of, in, out)
      PROVE  TablesRight'
  BY <1>7, TablesElse DEF Convert
<1>8. CASE DemoReturns
  <2>1. stage \in Demos /\ stage' \in {"demo_fopen", "demo_fread", "panic"}
    BY <1>8 DEF DemoReturns, Demonstrates, Demos
  <2> QED BY <1>8, <2>1, TablesElse DEF DemoReturns
<1>9. CASE panic \/ UNCHANGED vars
  BY <1>9, TablesElse DEF panic, vars, memory
<1> QED
  BY <1>1, <1>2, <1>3, <1>4, <1>5, <1>6, <1>7, <1>8, <1>9
  DEF Next, demo_pparser, fat16_get_item_in_directory, count_and_print, Demos

\* For every number of entries, every page size, every address of the
\* directory and every sequence of changes: with paging on the processor finds
\* each page at what was asked for it last, or at its own address.
THEOREM PagesFound == Spec => []PagesAsAsked
<1>1. Init => TablesRight
  BY DEF Init, TablesRight, Demos
<1>2. TypeOK /\ TablesRight => PagesAsAsked
  <2> SUFFICES ASSUME PInv, paging, NEW p \in 0 .. ((Entries * Entries) - 1)
               PROVE  Walked(directory, tables, p * PageSize) = Asked(p)
    BY DEF PInv, PagesAsAsked
  <2> DEFINE i == p \div Entries
             j == p % Entries
  <2>1. i \in Indices /\ j \in Indices /\ p = Page(i, j)
    BY PageSplit
  <2> HIDE DEF i, j
  <2>2. (p * PageSize) \div TableTotal = i /\ ((p * PageSize) % TableTotal) \div PageSize = j
    BY <2>1, AddressSplit
  <2>3. Masked(directory[i]) = TableAddress(i) /\ tables[TableAddress(i)][j] = Asked(p)
    BY <2>1, TablesFound DEF PInv, TablesRight, Entered
  <2> QED BY <2>2, <2>3 DEF Walked
<1>3. TypeOK /\ TablesRight /\ Demonstrates /\ [Next]_vars => TablesRight'
  BY TablesNext DEF PInv
<1> QED BY <1>1, <1>2, <1>3, Typed, PTL DEF Spec

-----------------------------------------------------------------------------
(* Names of directory entries *)

\* The first k characters of a field are its text, the rest is spaces.
TextTo(field, k) ==
  /\ k \in 0 .. Len(field)
  /\ \A m \in 1 .. k : field[m] # SPACE
  /\ \A m \in (k + 1) .. Len(field) : field[m] = SPACE

LEMMA ProperString ==
  ASSUME NEW s, Filled(s)
  PROVE  \E k : /\ TextTo(s, k)
                /\ fat16_to_proper_string(s) \in Seq(Nat \ {NUL})
                /\ Len(fat16_to_proper_string(s)) = k
                /\ \A m \in 1 .. k : fat16_to_proper_string(s)[m] = s[m]
<1> DEFINE ends == {m \in DOMAIN s : s[m] \in {NUL, SPACE}}
<1>1. /\ s \in Seq(Nat \ {NUL}) /\ DOMAIN s = 1 .. Len(s) /\ Len(s) \in Nat
      /\ \A m, l \in DOMAIN s : m < l /\ s[m] = SPACE => s[l] = SPACE
      /\ \A m \in DOMAIN s : s[m] \in Nat \ {NUL}
  BY DEF Filled
<1>2. CASE ends = {}
  <2>1. TextTo(s, Len(s))
    BY <1>1, <1>2 DEF TextTo
  <2>2. fat16_to_proper_string(s) = s
    BY <1>2 DEF fat16_to_proper_string
  <2> QED BY <1>1, <2>1, <2>2
<1>3. CASE ends # {}
  <2>1. PICK x \in ends : \A y \in ends : x <= y
    <3>1. ends \subseteq Nat
      BY <1>1
    <3> HIDE DEF ends
    <3> QED BY <1>3, <3>1, LeastExists
  <2>2. Min(ends) \in ends /\ \A y \in ends : Min(ends) <= y
    <3> HIDE DEF ends
    <3> QED BY <2>1 DEF Min
  <2>3. PICK l \in 1 .. Len(s), k \in 0 .. Len(s) : l = Min(ends) /\ k = l - 1 /\ l = k + 1
    <3>1. Min(ends) \in 1 .. Len(s)
      BY <1>1, <2>2
    <3>2. \A l \in 1 .. Len(s) : l - 1 \in 0 .. Len(s) /\ l = (l - 1) + 1
      BY <1>1
    <3> HIDE DEF ends
    <3> QED BY <3>1, <3>2
  <2>4. TextTo(s, k)
    <3>1. s[l] = SPACE /\ \A m \in 1 .. k : m \notin ends /\ m \in DOMAIN s
      <4>1. l \in ends /\ \A y \in ends : l <= y
        BY <2>2, <2>3
      <4>2. \A m \in 1 .. k : ~(l <= m) /\ m \in 1 .. Len(s)
        BY <1>1, <2>3
      <4> QED BY <1>1, <4>1, <4>2
    <3>2. \A m \in (k + 1) .. Len(s) : m = l \/ (l < m /\ m \in DOMAIN s /\ l \in DOMAIN s)
      BY <1>1, <2>3
    <3>3. \A m \in (k + 1) .. Len(s) : s[m] = SPACE
      BY <1>1, <3>1, <3>2
    <3> QED BY <3>1, <3>3 DEF TextTo
  <2>5. fat16_to_proper_string(s) = SubSeq(s, 1, k)
    BY <1>3, <2>3 DEF fat16_to_proper_string
  <2>6. /\ SubSeq(s, 1, k) \in Seq(Nat \ {NUL}) /\ Len(SubSeq(s, 1, k)) = k
        /\ \A m \in 1 .. k : SubSeq(s, 1, k)[m] = s[m]
    BY <1>1
  <2> QED BY <2>4, <2>5, <2>6
<1> QED BY <1>2, <1>3

\* The name as the lookup compares it: the text of the first field, and a dot
\* and the text of the second when there is one.
IsName(x, e, k, j) ==
  /\ x \in Seq(Nat \ {NUL})
  /\ TextTo(e.filename, k) /\ TextTo(e.ext, j)
  /\ Len(x) = k + (IF j = 0 THEN 0 ELSE j + 1)
  /\ \A m \in 1 .. k : x[m] = e.filename[m]
  /\ j # 0 => x[k + 1] = DOT /\ \A m \in 1 .. j : x[k + 1 + m] = e.ext[m]

LEMMA FullName ==
  ASSUME Fields83(Items), NEW e \in Items
  PROVE  \E k, j : IsName(fat16_get_full_relative_filename(e), e, k, j)
<1>1. Filled(e.filename) /\ Filled(e.ext) /\ e.ext # <<>>
  BY DEF Fields83
<1>2. PICK k : /\ TextTo(e.filename, k)
               /\ fat16_to_proper_string(e.filename) \in Seq(Nat \ {NUL})
               /\ Len(fat16_to_proper_string(e.filename)) = k
               /\ \A m \in 1 .. k : fat16_to_proper_string(e.filename)[m] = e.filename[m]
  BY <1>1, ProperString
<1>3. PICK j : /\ TextTo(e.ext, j)
               /\ fat16_to_proper_string(e.ext) \in Seq(Nat \ {NUL})
               /\ Len(fat16_to_proper_string(e.ext)) = j
               /\ \A m \in 1 .. j : fat16_to_proper_string(e.ext)[m] = e.ext[m]
  BY <1>1, ProperString
<1>4. k \in Nat /\ j \in Nat /\ (e.ext[1] \in {NUL, SPACE} <=> j = 0)
  BY <1>1, <1>2, <1>3 DEF TextTo, Filled
<1>5. PICK p : p = fat16_to_proper_string(e.filename)
  OBVIOUS
<1>6. PICK q : q = fat16_to_proper_string(e.ext)
  OBVIOUS
<1>7. CASE j = 0
  <2>1. fat16_get_full_relative_filename(e) = p \o <<>>
    BY <1>4, <1>5, <1>7 DEF fat16_get_full_relative_filename
  <2>2. p \o <<>> = p
    BY <1>2, <1>5
  <2>3. IsName(p, e, k, j)
    BY <1>2, <1>3, <1>4, <1>5, <1>7 DEF IsName
  <2> QED BY <2>1, <2>2, <2>3
<1>8. CASE j # 0
  <2>1. fat16_get_full_relative_filename(e) = p \o (<<DOT>> \o q)
    BY <1>4, <1>5, <1>6, <1>8 DEF fat16_get_full_relative_filename
  <2>2. PICK t : t = <<DOT>> \o q
    OBVIOUS
  <2>3. /\ t \in Seq(Nat \ {NUL}) /\ Len(t) = j + 1 /\ t[1] = DOT
        /\ \A m \in 1 .. j : t[m + 1] = q[m]
    BY <1>3, <1>4, <1>6, <2>2 DEF DOT, NUL
  <2>4. /\ p \o t \in Seq(Nat \ {NUL}) /\ Len(p \o t) = k + Len(t)
        /\ \A m \in 1 .. k : (p \o t)[m] = p[m]
        /\ \A m \in 1 .. Len(t) : (p \o t)[k + m] = t[m]
    <3>1. p \in Seq(Nat \ {NUL}) /\ t \in Seq(Nat \ {NUL}) /\ k \in Nat /\ k = Len(p)
      BY <1>2, <1>4, <1>5, <2>3
    <3> QED BY <3>1
  <2>5. PICK x : x = p \o t
    OBVIOUS
  <2>6. /\ x \in Seq(Nat \ {NUL}) /\ Len(x) = k + (j + 1)
        /\ \A m \in 1 .. k : x[m] = e.filename[m]
    BY <1>2, <1>5, <2>3, <2>4, <2>5
  <2>7. x[k + 1] = DOT /\ \A m \in 1 .. j : x[k + 1 + m] = e.ext[m]
    <3>1. \A m \in 1 .. j : k + 1 + m = k + (m + 1) /\ m + 1 \in 1 .. (j + 1)
      BY <1>4
    <3>2. 1 \in 1 .. (j + 1)
      BY <1>4
    <3>3. \A m \in 1 .. (j + 1) : x[k + m] = t[m]
      BY <2>3, <2>4, <2>5
    <3> QED BY <1>3, <1>6, <2>3, <3>1, <3>2, <3>3
  <2>8. IsName(x, e, k, j)
    BY <1>2, <1>3, <1>8, <2>6, <2>7 DEF IsName
  <2> QED BY <2>1, <2>2, <2>5, <2>8
<1> QED BY <1>7, <1>8

Code == Nat \ {NUL}

\* The same but for case.
Alike(x, y) ==
  Len(x) = Len(y) /\ \A m \in 1 .. Len(x) : tolower(x[m]) = tolower(y[m])

LEMMA LowerKeeps ==
  ASSUME NEW c \in Nat
  PROVE  /\ tolower(c) \in Nat
         /\ tolower(c) = NUL <=> c = NUL
         /\ tolower(c) = SPACE <=> c = SPACE
         /\ tolower(c) = DOT <=> c = DOT
BY DEF tolower, NUL, SPACE, DOT

LEMMA AlikeIsEqual ==
  ASSUME NEW x \in Seq(Code), NEW y \in Seq(Code)
  PROVE  istrncmp(x, y) = 0 <=> Alike(x, y)
<1>1. PICK a \in Nat, b \in Nat : a = Len(x) /\ b = Len(y)
  OBVIOUS
<1>2. PICK c \in {a, b} : c \in Nat /\ (c = a \/ c = b) /\ a <= c /\ b <= c
  <2>1. CASE a <= b
    BY <2>1
  <2>2. CASE b <= a
    BY <2>2
  <2> QED BY <2>1, <2>2
<1>3. Max({Len(x), Len(y)}) = c
  <2>1. \E m \in {a, b} : \A l \in {a, b} : m >= l
    BY <1>2
  <2>2. Max({a, b}) \in {a, b} /\ \A l \in {a, b} : Max({a, b}) >= l
    BY <2>1 DEF Max
  <2> QED BY <1>1, <1>2, <2>2
<1> DEFINE d == {m \in 1 .. (c + 1) : tolower(At(x, m)) # tolower(At(y, m))}
<1>4. istrncmp(x, y) = 0 <=> d = {}
  <2>1. istrncmp(x, y) = IF d = {} THEN 0 ELSE IF At(x, Min(d)) > At(y, Min(d)) THEN 1 ELSE -1
    BY <1>3 DEF istrncmp
  <2> HIDE DEF d
  <2> QED BY <2>1
<1>5. /\ \A m \in 1 .. a : At(x, m) = x[m] /\ x[m] \in Code
      /\ \A m \in 1 .. b : At(y, m) = y[m] /\ y[m] \in Code
      /\ \A m \in Nat : m > a => At(x, m) = NUL
      /\ \A m \in Nat : m > b => At(y, m) = NUL
  BY <1>1 DEF At
<1>6. ASSUME Alike(x, y) PROVE d = {}
  <2>1. a = b /\ c = a /\ \A m \in 1 .. a : tolower(x[m]) = tolower(y[m])
    BY <1>1, <1>2, <1>6 DEF Alike
  <2>2. \A m \in 1 .. (c + 1) : m \in 1 .. a \/ (m > a /\ m \in Nat)
    BY <1>2, <2>1
  <2>3. \A m \in 1 .. (c + 1) : tolower(At(x, m)) = tolower(At(y, m))
    BY <1>5, <2>1, <2>2
  <2> QED BY <2>3
<1>7. ASSUME d = {} PROVE Alike(x, y)
  <2>1. \A m \in 1 .. (c + 1) : tolower(At(x, m)) = tolower(At(y, m))
    BY <1>7
  <2>2. ~(a < b)
    <3> SUFFICES ASSUME a < b PROVE FALSE
      OBVIOUS
    <3>1. PICK m \in 1 .. b : m = a + 1 /\ m \in 1 .. (c + 1) /\ m > a /\ m \in Nat
      BY <1>2
    <3>2. tolower(At(y, m)) = tolower(NUL) /\ At(y, m) \in Code
      BY <1>5, <2>1, <3>1
    <3> QED BY <3>2, LowerKeeps DEF NUL, Code
  <2>3. ~(b < a)
    <3> SUFFICES ASSUME b < a PROVE FALSE
      OBVIOUS
    <3>1. PICK m \in 1 .. a : m = b + 1 /\ m \in 1 .. (c + 1) /\ m > b /\ m \in Nat
      BY <1>2
    <3>2. tolower(At(x, m)) = tolower(NUL) /\ At(x, m) \in Code
      BY <1>5, <2>1, <3>1
    <3> QED BY <3>2, LowerKeeps DEF NUL, Code
  <2>4. a = b /\ \A m \in 1 .. a : m \in 1 .. (c + 1)
    BY <1>2, <2>2, <2>3
  <2>5. \A m \in 1 .. a : tolower(x[m]) = tolower(y[m])
    BY <1>5, <2>1, <2>4
  <2> QED BY <1>1, <2>4, <2>5 DEF Alike
<1> QED BY <1>4, <1>6, <1>7

\* Fields alike have texts of one length.
LEMMA TextsAlike ==
  ASSUME NEW s \in Seq(Code), NEW t \in Seq(Code), NEW k, NEW l,
         TextTo(s, k), TextTo(t, l), Alike(s, t)
  PROVE  k = l
<1>1. PICK a \in Nat : a = Len(s) /\ a = Len(t)
  BY DEF Alike
<1>2. k \in 0 .. a /\ l \in 0 .. a
  BY <1>1 DEF TextTo
<1>3. \A m \in 1 .. a : s[m] \in Nat /\ t[m] \in Nat /\ tolower(s[m]) = tolower(t[m])
  BY <1>1 DEF Alike, Code
<1>4. \A m \in 1 .. a : s[m] = SPACE <=> t[m] = SPACE
  BY <1>3, LowerKeeps
<1>5. ASSUME k < l PROVE FALSE
  <2>1. l \in 1 .. a /\ l \in (k + 1) .. a /\ l \in 1 .. l
    BY <1>2, <1>5
  <2> QED BY <1>1, <1>4, <2>1 DEF TextTo
<1>6. ASSUME l < k PROVE FALSE
  <2>1. k \in 1 .. a /\ k \in (l + 1) .. a /\ k \in 1 .. k
    BY <1>2, <1>6
  <2> QED BY <1>1, <1>4, <2>1 DEF TextTo
<1> QED BY <1>2, <1>5, <1>6

\* Fields whose texts are alike are alike.
LEMMA FieldsAlike ==
  ASSUME NEW s \in Seq(Code), NEW t \in Seq(Code), NEW k, Len(s) = Len(t),
         TextTo(s, k), TextTo(t, k), \A m \in 1 .. k : tolower(s[m]) = tolower(t[m])
  PROVE  Alike(s, t)
<1>1. PICK a \in Nat : a = Len(s) /\ a = Len(t)
  OBVIOUS
<1>2. \A m \in 1 .. a : m \in 1 .. k \/ m \in (k + 1) .. a
  BY <1>1 DEF TextTo
<1> QED BY <1>1, <1>2 DEF TextTo, Alike

\* What two names of entries are made of.
Named(x, e, k, j, y, f, l, i) ==
  /\ Filled(e.filename) /\ Filled(e.ext) /\ Filled(f.filename) /\ Filled(f.ext)
  /\ IsName(x, e, k, j) /\ IsName(y, f, l, i)
  /\ Len(e.filename) = Len(f.filename) /\ Len(e.ext) = Len(f.ext)
  /\ DOT \notin Range(e.ext) /\ DOT \notin Range(f.ext)
  /\ j = 0 => DOT \notin Range(e.filename) \/ Range(e.filename) \subseteq {DOT, SPACE}
  /\ i = 0 => DOT \notin Range(f.filename) \/ Range(f.filename) \subseteq {DOT, SPACE}

LEMMA NamedTurned ==
  ASSUME NEW x, NEW e, NEW k, NEW j, NEW y, NEW f, NEW l, NEW i,
         Named(x, e, k, j, y, f, l, i)
  PROVE  Named(y, f, l, i, x, e, k, j)
BY DEF Named

\* The same characters at the same places, read as those of the fields.
LEMMA SamePlaces ==
  ASSUME NEW x, NEW e, NEW k, NEW j, NEW y, NEW f, NEW l, NEW i,
         Named(x, e, k, j, y, f, l, i), Alike(x, y)
  PROVE  /\ k \in Nat /\ j \in Nat /\ l \in Nat /\ i \in Nat
         /\ k + (IF j = 0 THEN 0 ELSE j + 1) = l + (IF i = 0 THEN 0 ELSE i + 1)
         /\ \A m \in 1 .. (k + (IF j = 0 THEN 0 ELSE j + 1)) :
              /\ tolower(x[m]) = tolower(y[m]) /\ x[m] \in Nat /\ y[m] \in Nat
              /\ x[m] = DOT <=> y[m] = DOT
<1>1. k \in Nat /\ j \in Nat /\ l \in Nat /\ i \in Nat
  BY DEF Named, IsName, TextTo, Filled
<1>2. x \in Seq(Code) /\ y \in Seq(Code)
  BY DEF Named, IsName, Code
<1>3. PICK a : /\ a = k + (IF j = 0 THEN 0 ELSE j + 1) /\ a = Len(x)
               /\ a = l + (IF i = 0 THEN 0 ELSE i + 1) /\ a = Len(y)
  BY DEF Named, IsName, Alike
<1>4. \A m \in 1 .. a : tolower(x[m]) = tolower(y[m]) /\ x[m] \in Nat /\ y[m] \in Nat
  <2>1. \A m \in 1 .. Len(x) : x[m] \in Nat
    BY <1>2 DEF Code
  <2>2. \A m \in 1 .. Len(y) : y[m] \in Nat
    BY <1>2 DEF Code
  <2> QED BY <1>3, <2>1, <2>2 DEF Alike
<1>5. \A m \in 1 .. a : x[m] = DOT <=> y[m] = DOT
  BY <1>4, LowerKeeps
<1> QED BY <1>1, <1>3, <1>4, <1>5

\* A dot that is not in the same place would be one in an extension,
LEMMA DotNotBefore ==
  ASSUME NEW x, NEW e, NEW k, NEW j, NEW y, NEW f, NEW l, NEW i,
         Named(x, e, k, j, y, f, l, i), Alike(x, y), j # 0, i # 0
  PROVE  ~(k < l)
<1> SUFFICES ASSUME k < l PROVE FALSE
  OBVIOUS
<1>1. k \in Nat /\ j \in Nat /\ l \in Nat /\ i \in Nat /\ k + (j + 1) = l + (i + 1)
  BY SamePlaces
<1>2. PICK m \in 1 .. j : l + 1 = k + 1 + m /\ l + 1 \in 1 .. (k + (j + 1))
  <2>1. l - k \in 1 .. j /\ l + 1 = k + 1 + (l - k) /\ l + 1 \in 1 .. (k + (j + 1))
    BY <1>1
  <2> QED BY <2>1
<1>3. y[l + 1] = DOT /\ x[l + 1] = e.ext[m]
  BY <1>2 DEF Named, IsName
<1>4. e.ext[m] = DOT
  BY <1>1, <1>2, <1>3, SamePlaces
<1>5. m \in DOMAIN e.ext
  <2>1. e.ext \in Seq(Nat \ {NUL}) /\ j \in 0 .. Len(e.ext)
    BY DEF Named, IsName, TextTo, Filled
  <2> QED BY <1>1, <1>2, <2>1
<1> QED BY <1>4, <1>5 DEF Named, Range

\* or in a name without an extension, which would be of dots only.
LEMMA DotNotInside ==
  ASSUME NEW x, NEW e, NEW k, NEW j, NEW y, NEW f, NEW l, NEW i,
         Named(x, e, k, j, y, f, l, i), Alike(x, y), j # 0
  PROVE  i # 0
<1> SUFFICES ASSUME i = 0 PROVE FALSE
  OBVIOUS
<1>1. k \in Nat /\ j \in Nat /\ l \in Nat /\ k + (j + 1) = l
  BY SamePlaces
<1>2. /\ k + 1 \in 1 .. (k + (j + 1)) /\ k + 1 + 1 \in 1 .. (k + (j + 1))
      /\ 1 \in 1 .. j /\ k + 1 \in 1 .. l /\ k + 1 + 1 \in 1 .. l
  BY <1>1
<1>3. x[k + 1] = DOT /\ x[k + 1 + 1] = e.ext[1]
      /\ y[k + 1] = f.filename[k + 1] /\ y[k + 1 + 1] = f.filename[k + 1 + 1]
  BY <1>2 DEF Named, IsName
<1>4. f.filename[k + 1] = DOT
  BY <1>2, <1>3, SamePlaces
<1>5. k + 1 \in DOMAIN f.filename /\ k + 1 + 1 \in DOMAIN f.filename
  <2>1. f.filename \in Seq(Nat \ {NUL}) /\ l \in 0 .. Len(f.filename)
    BY DEF Named, IsName, TextTo, Filled
  <2> QED BY <1>1, <1>2, <2>1
<1>6. f.filename[k + 1 + 1] \in {DOT, SPACE}
  BY <1>4, <1>5 DEF Named, Range
<1>7. f.filename[k + 1 + 1] = DOT
  BY <1>2, <1>6 DEF Named, IsName, TextTo
<1>8. e.ext[1] = DOT
  BY <1>2, <1>3, <1>7, SamePlaces
<1>9. 1 \in DOMAIN e.ext
  <2>1. e.ext \in Seq(Nat \ {NUL}) /\ j \in 0 .. Len(e.ext)
    BY DEF Named, IsName, TextTo, Filled
  <2> QED BY <1>2, <2>1
<1> QED BY <1>8, <1>9 DEF Named, Range

LEMMA NamesAlike ==
  ASSUME NEW x, NEW e, NEW k, NEW j, NEW y, NEW f, NEW l, NEW i,
         Named(x, e, k, j, y, f, l, i)
  PROVE  Alike(x, y) <=> Alike(e.filename, f.filename) /\ Alike(e.ext, f.ext)
<1>1. /\ e.filename \in Seq(Code) /\ f.filename \in Seq(Code)
      /\ e.ext \in Seq(Code) /\ f.ext \in Seq(Code)
      /\ TextTo(e.filename, k) /\ TextTo(f.filename, l) /\ TextTo(e.ext, j) /\ TextTo(f.ext, i)
      /\ Len(e.filename) = Len(f.filename) /\ Len(e.ext) = Len(f.ext)
  BY DEF Named, IsName, Filled, Code
<1>2. k \in Nat /\ j \in Nat /\ l \in Nat /\ i \in Nat
  BY <1>1 DEF TextTo
<1>3. /\ \A m \in 1 .. k : x[m] = e.filename[m]
      /\ \A m \in 1 .. l : y[m] = f.filename[m]
      /\ j # 0 => x[k + 1] = DOT /\ \A m \in 1 .. j : x[k + 1 + m] = e.ext[m]
      /\ i # 0 => y[l + 1] = DOT /\ \A m \in 1 .. i : y[l + 1 + m] = f.ext[m]
      /\ Len(x) = k + (IF j = 0 THEN 0 ELSE j + 1) /\ Len(y) = l + (IF i = 0 THEN 0 ELSE i + 1)
  BY DEF Named, IsName
<1>4. ASSUME Alike(x, y)
      PROVE  Alike(e.filename, f.filename) /\ Alike(e.ext, f.ext)
  <2>1. /\ k + (IF j = 0 THEN 0 ELSE j + 1) = l + (IF i = 0 THEN 0 ELSE i + 1)
        /\ \A m \in 1 .. (k + (IF j = 0 THEN 0 ELSE j + 1)) : tolower(x[m]) = tolower(y[m])
    BY <1>4, SamePlaces
  <2>2. j = 0 <=> i = 0
    BY <1>4, NamedTurned, DotNotInside DEF Alike
  <2>3. k = l /\ j = i
    <3>1. CASE j = 0
      BY <1>2, <2>1, <2>2, <3>1
    <3>2. CASE j # 0
      <4>1. ~(k < l)
        BY <1>4, <2>2, <3>2, DotNotBefore
      <4>2. ~(l < k)
        <5>1. Named(y, f, l, i, x, e, k, j)
          BY NamedTurned
        <5>2. Alike(y, x)
          BY <1>3, <1>4, <2>1 DEF Alike
        <5> QED BY <2>2, <3>2, <5>1, <5>2, DotNotBefore
      <4> QED BY <1>2, <2>1, <2>2, <3>2, <4>1, <4>2
    <3> QED BY <3>1, <3>2
  <2>4. \A m \in 1 .. k : tolower(e.filename[m]) = tolower(f.filename[m])
    <3>1. \A m \in 1 .. k : m \in 1 .. (k + (IF j = 0 THEN 0 ELSE j + 1))
      BY <1>2
    <3> QED BY <1>3, <2>1, <2>3, <3>1
  <2>5. \A m \in 1 .. j : tolower(e.ext[m]) = tolower(f.ext[m])
    <3>1. \A m \in 1 .. j : j # 0 /\ k + 1 + m \in 1 .. (k + (IF j = 0 THEN 0 ELSE j + 1))
      BY <1>2
    <3> QED BY <1>3, <2>1, <2>3, <3>1
  <2> QED BY <1>1, <2>3, <2>4, <2>5, FieldsAlike
<1>5. ASSUME Alike(e.filename, f.filename), Alike(e.ext, f.ext)
      PROVE  Alike(x, y)
  <2>1. k = l /\ j = i
    BY <1>1, <1>5, TextsAlike
  <2>2. \A m \in 1 .. k : tolower(x[m]) = tolower(y[m])
    <3>1. \A m \in 1 .. k : m \in 1 .. Len(e.filename)
      BY <1>1 DEF TextTo
    <3> QED BY <1>3, <1>5, <2>1, <3>1 DEF Alike
  <2>3. \A m \in 1 .. j : tolower(x[k + 1 + m]) = tolower(y[k + 1 + m])
    <3>1. \A m \in 1 .. j : j # 0 /\ m \in 1 .. Len(e.ext)
      BY <1>1, <1>2 DEF TextTo
    <3> QED BY <1>3, <1>5, <2>1, <3>1 DEF Alike
  <2>4. \A m \in 1 .. (k + (IF j = 0 THEN 0 ELSE j + 1)) :
          m \in 1 .. k \/ (j # 0 /\ m = k + 1) \/ (j # 0 /\ m - (k + 1) \in 1 .. j /\ m = k + 1 + (m - (k + 1)))
    BY <1>2
  <2>5. \A m \in 1 .. (k + (IF j = 0 THEN 0 ELSE j + 1)) : tolower(x[m]) = tolower(y[m])
    BY <1>3, <2>1, <2>2, <2>3, <2>4
  <2> QED BY <1>3, <2>1, <2>5 DEF Alike
<1> QED BY <1>4, <1>5

LEMMA LowerAlike ==
  ASSUME NEW s \in Seq(Code), NEW t \in Seq(Code), Len(s) = Len(t)
  PROVE  Alike(s, t) <=> [m \in DOMAIN s |-> tolower(s[m])] = [m \in DOMAIN t |-> tolower(t[m])]
<1>1. PICK a \in Nat : a = Len(s) /\ DOMAIN s = 1 .. a /\ DOMAIN t = 1 .. a
  OBVIOUS
<1>2. Alike(s, t) <=> \A m \in 1 .. a : tolower(s[m]) = tolower(t[m])
  BY <1>1 DEF Alike
<1> QED BY <1>1, <1>2

\* For every set of directory entries with filled fields, those of any length:
\* the lookup takes two entries for one another only if name and extension are
\* the same but for case, and then it does.
THEOREM NamesApart == Fields83(Items) /\ Spec => []NamesTellEntries
<1> DEFINE Lower(s) == [m \in DOMAIN s |-> tolower(s[m])]
<1>1. ASSUME Fields83(Items), NEW e \in Items, NEW f \in Items
      PROVE  istrncmp(fat16_get_full_relative_filename(e), fat16_get_full_relative_filename(f)) = 0
               <=> Lower(e.filename) = Lower(f.filename) /\ Lower(e.ext) = Lower(f.ext)
  <2>1. PICK x, y : /\ x = fat16_get_full_relative_filename(e)
                    /\ y = fat16_get_full_relative_filename(f)
    OBVIOUS
  <2>2. PICK k, j : IsName(x, e, k, j)
    BY <1>1, <2>1, FullName
  <2>3. PICK l, i : IsName(y, f, l, i)
    BY <1>1, <2>1, FullName
  <2>4. Filled(e.filename) /\ Filled(e.ext) /\ Filled(f.filename) /\ Filled(f.ext)
        /\ e.ext # <<>> /\ f.ext # <<>>
    BY <1>1 DEF Fields83
  <2>5. (j = 0 => e.ext[1] = SPACE) /\ (i = 0 => f.ext[1] = SPACE)
    BY <2>2, <2>3, <2>4 DEF IsName, TextTo, Filled
  <2>6. Named(x, e, k, j, y, f, l, i)
    BY <1>1, <2>2, <2>3, <2>4, <2>5 DEF Fields83, Named
  <2>7. istrncmp(x, y) = 0 <=> Alike(x, y)
    BY <2>2, <2>3, AlikeIsEqual DEF IsName, Code
  <2>8. /\ Alike(e.filename, f.filename) <=> Lower(e.filename) = Lower(f.filename)
        /\ Alike(e.ext, f.ext) <=> Lower(e.ext) = Lower(f.ext)
    BY <2>4, <2>6, LowerAlike DEF Named, Filled, Code
  <2> QED BY <2>1, <2>6, <2>7, <2>8, NamesAlike
<1>2. Init => NamesTellEntries
  BY DEF Init, NoText, NamesTellEntries
<1>3. Fields83(Items) /\ NamesTellEntries /\ [Next]_vars => NamesTellEntries'
  <2> SUFFICES ASSUME Fields83(Items), NamesTellEntries, [Next]_vars PROVE NamesTellEntries'
    OBVIOUS
  <2>1. ASSUME NEW e \in Items, NEW f \in Items, fat16_get_item_in_directory(e, f)
        PROVE  NamesTellEntries'
    <3>1. text'.in[1] = e /\ text'.in[2] = f
          /\ text'.out = istrncmp(fat16_get_full_relative_filename(e), fat16_get_full_relative_filename(f))
      BY <2>1 DEF fat16_get_item_in_directory, Convert
    <3> QED BY <1>1, <3>1 DEF NamesTellEntries
  <2>2. CASE text'.of # "name"
    BY <2>2 DEF NamesTellEntries
  <2>3. CASE text' = text
    BY <2>3 DEF NamesTellEntries
  <2>4. CASE \/ idtr_init \/ gdt_structured_to_gdt \/ gdt_load \/ paging_new_4gb
             \/ paging_enable_paging \/ (\E a \in Addresses, e \in NewEntries : ChangePage(a, e))
             \/ panic \/ UNCHANGED vars
    <3>1. text' = text
      BY <2>4 DEF idtr_init, gdt_structured_to_gdt, gdt_load, paging_new_4gb,
           paging_enable_paging, ChangePage, panic, vars
    <3> QED BY <2>3, <3>1
  <2>5. CASE (\E s \in PathStrings : demo_pparser(s)) \/ (\E i \in Numbers : count_and_print(i))
             \/ DemoReturns
    <3>1. text'.of \in {"path", "number", "nothing"}
      BY <2>5 DEF demo_pparser, count_and_print, Convert, DemoReturns, NoText
    <3> QED BY <2>2, <3>1
  <2> QED BY <2>1, <2>4, <2>5 DEF Next
<1>4. Fields83(Items) => Fields83(Items)'
  BY DEF Fields83, Filled
<1> QED BY <1>2, <1>3, <1>4, PTL DEF Spec

-----------------------------------------------------------------------------
(* Paths *)

Slashes(s, f) == {m \in f .. Len(s) : s[m] = SLASH}

\* pparser_parse_path_parts from f on, when g has what it returns further on.
PartsFrom(s, g, f) ==
  IF Slashes(s, f) = {}
    THEN <<SubSeq(s, f, Len(s))>>
    ELSE <<SubSeq(s, f, Min(Slashes(s, f)) - 1)>> \o g[Min(Slashes(s, f)) + 1]

LEMMA NextSlash ==
  ASSUME NEW s \in Seq(Code), NEW f \in Nat, Slashes(s, f) # {}
  PROVE  \E c \in f .. Len(s) : /\ c = Min(Slashes(s, f)) /\ s[c] = SLASH
                                /\ \A l \in f .. (c - 1) : s[l] # SLASH
<1>1. PICK x \in Slashes(s, f) : \A y \in Slashes(s, f) : x <= y
  <2>1. Slashes(s, f) \subseteq Nat
    BY DEF Slashes
  <2> QED BY <2>1, LeastExists
<1>2. /\ Min(Slashes(s, f)) \in Slashes(s, f)
      /\ \A y \in Slashes(s, f) : Min(Slashes(s, f)) <= y
  BY <1>1 DEF Min
<1>3. PICK a \in Nat : a = Len(s)
  OBVIOUS
<1>4. PICK c \in f .. a : c = Min(Slashes(s, f)) /\ s[c] = SLASH
  BY <1>2, <1>3 DEF Slashes
<1>5. \A l \in f .. (c - 1) : l \in f .. a /\ ~(c <= l)
  BY <1>4
<1>6. \A l \in f .. (c - 1) : s[l] # SLASH
  BY <1>2, <1>3, <1>4, <1>5 DEF Slashes
<1> QED BY <1>3, <1>4, <1>6

\* The recursion has a solution, built from the end of the path.
LEMMA PartsExist ==
  ASSUME NEW s \in Seq(Code), NEW b \in Nat, b = Len(s) + 2, NEW k \in 4 .. b
  PROVE  \E g : g = [f \in k .. b |-> PartsFrom(s, g, f)]
<1> DEFINE Solves(g, m) == g = [f \in m .. b |-> PartsFrom(s, g, f)]
           Bad == {m \in 4 .. b : ~ \E g : Solves(g, m)}
<1> SUFFICES ASSUME Bad # {} PROVE FALSE
  OBVIOUS
<1>1. PICK m \in Bad : \A j \in Bad : m >= j
  <2>1. Bad \subseteq 0 .. b
    OBVIOUS
  <2> HIDE DEF Bad
  <2> QED BY <2>1, GreatestExists
<1>2. PICK g : m = b \/ Solves(g, m + 1)
  <2>1. CASE m = b
    BY <2>1
  <2>2. CASE m # b
    <3>1. m + 1 \in 4 .. b /\ ~(m >= m + 1)
      BY <2>2
    <3>2. m + 1 \notin Bad
      BY <1>1, <3>1
    <3> QED BY <3>1, <3>2
  <2> QED BY <2>1, <2>2
<1> DEFINE h == [f \in m .. b |-> IF f = m THEN PartsFrom(s, g, m) ELSE g[f]]
<1>3. \A f \in m .. b : Slashes(s, f) # {} => /\ f < Min(Slashes(s, f)) + 1
                                              /\ Min(Slashes(s, f)) + 1 \in m .. b
  <2> SUFFICES ASSUME NEW f \in m .. b, Slashes(s, f) # {}
               PROVE  f < Min(Slashes(s, f)) + 1 /\ Min(Slashes(s, f)) + 1 \in m .. b
    OBVIOUS
  <2>1. PICK c \in f .. Len(s) : c = Min(Slashes(s, f))
    BY NextSlash
  <2>2. f < c + 1 /\ c + 1 \in m .. b
    OBVIOUS
  <2> QED BY <2>1, <2>2
<1>4. \A f \in m .. b : PartsFrom(s, h, f) = PartsFrom(s, g, f)
  <2> TAKE f \in m .. b
  <2>1. CASE Slashes(s, f) = {}
    BY <2>1 DEF PartsFrom
  <2>2. CASE Slashes(s, f) # {}
    <3>1. PICK c \in m .. b : c = Min(Slashes(s, f)) + 1 /\ f < c
      BY <1>3, <2>2
    <3>2. h[c] = g[c]
      BY <3>1
    <3> QED BY <2>2, <3>1, <3>2 DEF PartsFrom
  <2> QED BY <2>1, <2>2
<1>5. \A f \in m .. b : h[f] = PartsFrom(s, g, f)
  <2> TAKE f \in m .. b
  <2>1. CASE f = m
    BY <2>1
  <2>2. CASE f # m
    <3>1. f \in (m + 1) .. b /\ m # b
      BY <2>2
    <3>2. g[f] = PartsFrom(s, g, f)
      BY <1>2, <3>1
    <3> QED BY <2>2, <3>2
  <2> QED BY <2>1, <2>2
<1>6. Solves(h, m)
  <2>1. h = [f \in m .. b |-> h[f]]
    OBVIOUS
  <2> HIDE DEF h
  <2> QED BY <1>4, <1>5, <2>1
<1> QED BY <1>1, <1>6

LEMMA PartsSteps ==
  ASSUME NEW s \in Seq(Code), NEW b \in Nat, b = Len(s) + 2, b >= 4
  PROVE  \E g : /\ pparser_parse_path_parts(s) = g[4]
                /\ \A f \in 4 .. b : g[f] = PartsFrom(s, g, f)
<1> DEFINE Solves(g) == g = [f \in 4 .. (Len(s) + 2) |-> PartsFrom(s, g, f)]
           w == CHOOSE g : Solves(g)
<1>1. \E g : Solves(g)
  BY PartsExist
<1>2. Solves(w)
  <2> HIDE DEF Solves
  <2> QED BY <1>1
<1>3. pparser_parse_path_parts(s) = w[4]
  BY DEF pparser_parse_path_parts, PartsFrom, Slashes
<1> HIDE DEF w
<1>4. \A f \in 4 .. b : w[f] = PartsFrom(s, w, f)
  BY <1>2
<1> QED BY <1>3, <1>4

\* The names from position f of a path on, and the cuts they lie between.
NamesFrom(s, t, f) ==
  /\ t \in Seq(Seq(Code))
  /\ \E cut \in [0 .. Len(t) -> (f - 1) .. (Len(s) + 1)] : CutAt(s, t, cut) /\ cut[0] = f - 1

LEMMA Part ==
  ASSUME NEW s \in Seq(Code), NEW f \in Nat \ {0}, NEW k \in Nat, k <= Len(s)
  PROVE  SubSeq(s, f, k) \in Seq(Code)
<1>1. PICK a \in Nat : a = Len(s)
  OBVIOUS
<1>2. \A j \in f .. k : j \in 1 .. Len(s)
  BY <1>1
<1>3. \A j \in f .. k : s[j] \in Code
  BY <1>2
<1> QED BY <1>3

\* The rest of a path without a slash is a name.
LEMMA LastName ==
  ASSUME NEW s \in Seq(Code), NEW f \in Nat \ {0}, f <= Len(s) + 1, Slashes(s, f) = {}
  PROVE  NamesFrom(s, <<SubSeq(s, f, Len(s))>>, f)
<1>1. PICK a \in Nat : a = Len(s)
  OBVIOUS
<1>2. PICK p \in Nat : p = f - 1 /\ p + 1 = f /\ p < a + 1 /\ (a + 1) - 1 = a
  BY <1>1
<1>0. PICK x \in Seq(Code) : x = SubSeq(s, f, a)
  <2>1. a <= Len(s)
    BY <1>1
  <2>2. SubSeq(s, f, a) \in Seq(Code)
    BY <2>1, Part
  <2> QED BY <2>2
<1>3. PICK t : t = <<x>>
  OBVIOUS
<1>4. t \in Seq(Seq(Code)) /\ Len(t) = 1 /\ t[1] = SubSeq(s, f, a)
  <2>1. <<x>> \in Seq(Seq(Code)) /\ Len(<<x>>) = 1 /\ <<x>>[1] = x
    OBVIOUS
  <2> QED BY <1>0, <1>3, <2>1
<1>5. \A l \in f .. a : s[l] # SLASH
  BY <1>1 DEF Slashes
<1> DEFINE cut == [m \in 0 .. 1 |-> IF m = 0 THEN p ELSE a + 1]
<1>6. cut[0] = p /\ cut[1] = a + 1 /\ cut \in [0 .. 1 -> p .. (a + 1)]
  BY <1>2
<1> HIDE DEF cut
<1>7. CutAt(s, t, cut)
  <2>1. cut[Len(t)] = Len(s) + 1
    BY <1>1, <1>4, <1>6
  <2>2. ASSUME NEW m \in 1 .. Len(t)
        PROVE  /\ cut[m - 1] < cut[m]
               /\ ~(m < Len(t))
               /\ \A l \in (cut[m - 1] + 1) .. (cut[m] - 1) : s[l] # SLASH
               /\ t[m] = SubSeq(s, cut[m - 1] + 1, cut[m] - 1)
    <3>1. m = 1 /\ m - 1 = 0 /\ ~(m < Len(t))
      BY <1>4
    <3>2. cut[m - 1] = p /\ cut[m] = a + 1 /\ t[m] = SubSeq(s, f, a)
      BY <1>4, <1>6, <3>1
    <3> QED BY <1>2, <1>5, <3>1, <3>2
  <2> QED BY <2>1, <2>2 DEF CutAt
<1> QED BY <1>0, <1>1, <1>2, <1>3, <1>4, <1>6, <1>7 DEF NamesFrom

\* A name, a slash and the names behind it.
LEMMA NameBefore ==
  ASSUME NEW s \in Seq(Code), NEW f \in Nat \ {0}, NEW c \in f .. Len(s), s[c] = SLASH,
         \A l \in f .. (c - 1) : s[l] # SLASH, NEW u, NamesFrom(s, u, c + 1)
  PROVE  NamesFrom(s, <<SubSeq(s, f, c - 1)>> \o u, f)
<1>1. PICK a \in Nat, b \in Nat : a = Len(s) /\ b = Len(u)
  BY DEF NamesFrom
<1>2. PICK p \in Nat : p = f - 1 /\ p + 1 = f /\ p < c /\ c \in Nat /\ (c + 1) - 1 = c
                       /\ c <= a
  BY <1>1
<1>3. PICK old \in [0 .. b -> c .. (a + 1)] : CutAt(s, u, old) /\ old[0] = c
  BY <1>1, <1>2 DEF NamesFrom
<1>4. PICK x \in Seq(Code) : x = SubSeq(s, f, c - 1)
  <2>1. c - 1 \in Nat /\ c - 1 <= Len(s)
    BY <1>1, <1>2
  <2> QED BY <2>1, Part
<1>5. PICK t : t = <<x>> \o u
  OBVIOUS
<1>6. t \in Seq(Seq(Code)) /\ Len(t) = b + 1 /\ t[1] = x /\ \A m \in 1 .. b : t[m + 1] = u[m]
  <2>1. u \in Seq(Seq(Code)) /\ <<x>> \in Seq(Seq(Code)) /\ Len(<<x>>) = 1 /\ <<x>>[1] = x
    BY <1>4 DEF NamesFrom
  <2> QED BY <1>1, <1>5, <2>1
<1> DEFINE cut == [m \in 0 .. (b + 1) |-> IF m = 0 THEN p ELSE old[m - 1]]
<1>7. /\ cut[0] = p /\ \A m \in 1 .. (b + 1) : cut[m] = old[m - 1]
      /\ cut \in [0 .. (b + 1) -> p .. (a + 1)]
  <2>1. \A m \in 0 .. (b + 1) : m # 0 => m - 1 \in 0 .. b
    BY <1>1
  <2>2. \A v \in c .. (a + 1) : v \in p .. (a + 1)
    BY <1>1, <1>2
  <2>3. p \in p .. (a + 1)
    BY <1>1, <1>2
  <2> QED BY <1>1, <1>3, <2>1, <2>2, <2>3
<1> HIDE DEF cut
<1>8. CutAt(s, t, cut)
  <2>1. cut[b + 1] = a + 1
    <3>1. b + 1 \in 1 .. (b + 1) /\ (b + 1) - 1 = b
      BY <1>1
    <3> QED BY <1>1, <1>3, <1>7, <3>1 DEF CutAt
  <2>2. ASSUME NEW m \in 1 .. (b + 1)
        PROVE  /\ cut[m - 1] < cut[m]
               /\ m < b + 1 => s[cut[m]] = SLASH
               /\ \A l \in (cut[m - 1] + 1) .. (cut[m] - 1) : s[l] # SLASH
               /\ t[m] = SubSeq(s, cut[m - 1] + 1, cut[m] - 1)
    <3>1. CASE m = 1
      <4>1. cut[m - 1] = p /\ cut[m] = c
        BY <1>1, <1>3, <1>7, <3>1
      <4> QED BY <1>2, <1>4, <1>6, <3>1, <4>1
    <3>2. CASE m # 1
      <4>1. PICK j \in 1 .. b : m = j + 1 /\ m - 1 = j
        <5>1. m - 1 \in 1 .. b /\ m = (m - 1) + 1
          BY <1>1, <3>2
        <5> QED BY <5>1
      <4>2. j \in 1 .. (b + 1) /\ (m < b + 1 => j < b)
        BY <1>1, <4>1
      <4>3. cut[m - 1] = old[j - 1] /\ cut[m] = old[j] /\ t[m] = u[j]
        BY <1>6, <1>7, <4>1, <4>2
      <4>4. /\ old[j - 1] < old[j]
            /\ j < b => s[old[j]] = SLASH
            /\ \A l \in (old[j - 1] + 1) .. (old[j] - 1) : s[l] # SLASH
            /\ u[j] = SubSeq(s, old[j - 1] + 1, old[j] - 1)
        BY <1>1, <1>3 DEF CutAt
      <4> QED BY <4>2, <4>3, <4>4
    <3> QED BY <3>1, <3>2
  <2> QED BY <1>1, <1>6, <2>1, <2>2 DEF CutAt
<1>9. NamesFrom(s, t, f)
  BY <1>1, <1>2, <1>6, <1>7, <1>8 DEF NamesFrom
<1> QED BY <1>4, <1>5, <1>9

LEMMA PartsAreNames ==
  ASSUME NEW s \in Seq(Code), Len(s) >= 3
  PROVE  NamesFrom(s, pparser_parse_path_parts(s), 4)
<1>1. PICK b \in Nat, e \in Nat : b = Len(s) + 2 /\ e = Len(s) + 1 /\ b = e + 1 /\ e >= 4
  OBVIOUS
<1>2. PICK g : /\ pparser_parse_path_parts(s) = g[4]
               /\ \A f \in 4 .. b : g[f] = PartsFrom(s, g, f)
  BY <1>1, PartsSteps
<1> DEFINE Bad == {f \in 4 .. e : ~ NamesFrom(s, g[f], f)}
<1>3. ASSUME Bad # {} PROVE FALSE
  <2>1. PICK f \in Bad : \A j \in Bad : f >= j
    <3>1. Bad \subseteq 0 .. e
      BY <1>1
    <3> HIDE DEF Bad
    <3> QED BY <1>1, <1>3, <3>1, GreatestExists
  <2>2. f \in Nat \ {0} /\ f \in 4 .. b /\ f <= Len(s) + 1 /\ f \in 4 .. e
    BY <1>1
  <2>3. g[f] = PartsFrom(s, g, f)
    BY <1>2, <2>2
  <2>4. CASE Slashes(s, f) = {}
    BY <2>2, <2>3, <2>4, LastName DEF PartsFrom
  <2>5. CASE Slashes(s, f) # {}
    <3>1. PICK c \in f .. Len(s) : /\ c = Min(Slashes(s, f)) /\ s[c] = SLASH
                                   /\ \A l \in f .. (c - 1) : s[l] # SLASH
      BY <2>2, <2>5, NextSlash
    <3>2. c + 1 \in 4 .. e /\ ~(f >= c + 1)
      BY <1>1, <2>2
    <3>3. NamesFrom(s, g[c + 1], c + 1)
      BY <2>1, <3>2
    <3>4. g[f] = <<SubSeq(s, f, c - 1)>> \o g[c + 1]
      BY <2>3, <2>5, <3>1 DEF PartsFrom
    <3> QED BY <2>2, <3>1, <3>3, <3>4, NameBefore
  <2> QED BY <2>4, <2>5
<1>4. 4 \in 4 .. e
  BY <1>1
<1> QED BY <1>2, <1>3, <1>4

\* What stands after a drive and a slash is cut at the slashes.
LEMMA PathCut ==
  ASSUME NEW s \in Seq(Code), NEW r, r = pparser_parse_path_root(s), r.parses, Len(s) >= 3
  PROVE  /\ r.drive = s[1] - 48
         /\ \E cut \in [0 .. Len(r.names) -> 3 .. (Len(s) + 1)] :
              CutAt(s, r.names, cut) /\ cut[0] = 3
<1>1. /\ ~(pparser_parse_drive_no(s) < 0)
      /\ r.drive = pparser_parse_drive_no(s) /\ r.names = pparser_parse_path_parts(s)
  BY DEF pparser_parse_path_root, EINVARG
<1>2. r.drive = s[1] - 48
  BY <1>1 DEF pparser_parse_drive_no, At
<1>3. NamesFrom(s, r.names, 4)
  BY <1>1, PartsAreNames
<1>4. 4 - 1 = 3
  OBVIOUS
<1> QED BY <1>2, <1>3, <1>4 DEF NamesFrom

LEMMA PathParses ==
  ASSUME NEW s \in Seq(Code), Len(s) \in 3 .. PPARSER_MAX_PATH,
         is_digit(s[1]), s[2] = COLON, s[3] = SLASH
  PROVE  pparser_parse_path_root(s).parses
<1>1. At(s, 1) = s[1] /\ At(s, 2) = COLON /\ At(s, 3) = SLASH
  BY DEF At
<1>2. s[1] \in Nat
  BY DEF Code
<1>3. ~(Len(s) > PPARSER_MAX_PATH)
  BY TextAssumption
<1>4. ~(pparser_parse_drive_no(s) < 0)
  BY <1>1, <1>2 DEF pparser_parse_drive_no, is_digit
<1>5. ASSUME NEW l PROVE memcmp(l, l) = 0
  <2>1. {m \in DOMAIN l : l[m] # l[m]} = {}
    OBVIOUS
  <2> QED BY <2>1 DEF memcmp, FirstDifference
<1>6. memcmp(<<COLON, SLASH>>, <<At(s, 2), At(s, 3)>>) = 0
  <2>1. <<At(s, 2), At(s, 3)>> = <<COLON, SLASH>>
    BY <1>1
  <2>2. memcmp(<<COLON, SLASH>>, <<COLON, SLASH>>) = 0
    BY <1>5
  <2> QED BY <2>1, <2>2
<1>7. validate_start_of_path(s)
  <2>1. 0 >= 0
    OBVIOUS
  <2> QED BY <1>6, <2>1 DEF validate_start_of_path
<1> QED BY <1>3, <1>4, <1>7 DEF pparser_parse_path_root

-----------------------------------------------------------------------------
(* The conversions' results *)

\* The result is of one conversion, or of none, or what it was.
LEMMA TextNext ==
  ASSUME [Next]_vars
  PROVE  \/ text' = text
         \/ text'.of = "nothing"
         \/ \E s \in PathStrings : text' = [of |-> "path", in |-> s, out |-> pparser_parse_path_root(s)]
         \/ text'.of = "name"
         \/ \E i \in Numbers : text' = [of |-> "number", in |-> i, out |-> itoa(i)]
<1>1. CASE \/ idtr_init \/ gdt_structured_to_gdt \/ gdt_load \/ paging_new_4gb
           \/ paging_enable_paging \/ (\E a \in Addresses, e \in NewEntries : ChangePage(a, e))
           \/ panic \/ UNCHANGED vars
  BY <1>1 DEF idtr_init, gdt_structured_to_gdt, gdt_load, paging_new_4gb,
       paging_enable_paging, ChangePage, panic, vars
<1>2. CASE \E s \in PathStrings : demo_pparser(s)
  BY <1>2 DEF demo_pparser, Convert
<1>3. CASE \E e \in Items, f \in Items : fat16_get_item_in_directory(e, f)
  BY <1>3 DEF fat16_get_item_in_directory, Convert
<1>4. CASE \E i \in Numbers : count_and_print(i)
  BY <1>4 DEF count_and_print, Convert
<1>5. CASE DemoReturns
  BY <1>5 DEF DemoReturns, NoText
<1> QED BY <1>1, <1>2, <1>3, <1>4, <1>5 DEF Next

\* For every string: a path that parses has the drive of its first digit and
\* as names all that is between its slashes, in order, empty ones as well; and
\* what is written as a path of a drive parses.
THEOREM PathsCut == Spec => []PathAsWritten
<1>1. Init => PathAsWritten
  BY DEF Init, NoText, PathAsWritten
<1>2. PathAsWritten /\ [Next]_vars => PathAsWritten'
  <2> SUFFICES ASSUME PathAsWritten, [Next]_vars PROVE PathAsWritten'
    OBVIOUS
  <2>1. CASE text' = text
    BY <2>1 DEF PathAsWritten
  <2>2. CASE text'.of # "path"
    BY <2>2 DEF PathAsWritten
  <2>3. ASSUME NEW s \in PathStrings,
               text' = [of |-> "path", in |-> s, out |-> pparser_parse_path_root(s)]
        PROVE  PathAsWritten'
    <3>1. s \in Seq(Code)
      BY KernelMainAssumption DEF Code
    <3>2. PICK r : r = pparser_parse_path_root(s)
      OBVIOUS
    <3>3. text'.in = s /\ text'.out = r
      BY <2>3, <3>2
    <3>4. r.parses /\ Len(s) >= 3 =>
            /\ r.drive = s[1] - 48
            /\ \E cut \in [0 .. Len(r.names) -> 3 .. (Len(s) + 1)] :
                 CutAt(s, r.names, cut) /\ cut[0] = 3
      BY <3>1, <3>2, PathCut
    <3>5. Len(s) \in 3 .. PPARSER_MAX_PATH /\ is_digit(s[1]) /\ s[2] = COLON /\ s[3] = SLASH
            => r.parses
      BY <3>1, <3>2, PathParses
    <3> QED BY <3>3, <3>4, <3>5 DEF PathAsWritten
  <2>4. CASE \E i \in Numbers : text' = [of |-> "number", in |-> i, out |-> itoa(i)]
    BY <2>2, <2>4
  <2> QED BY <2>1, <2>2, <2>3, <2>4, TextNext
<1> QED BY <1>1, <1>2, PTL DEF Spec

-----------------------------------------------------------------------------
(* Numbers *)

\* itoa's loop from c on, when g has what it leaves for smaller numbers.
DigitsFrom(g, c) == IF c = 0 THEN <<>> ELSE <<(c % 10) + 48>> \o g[c \div 10]

LEMMA Tenth ==
  ASSUME NEW c \in Nat
  PROVE  /\ c \div 10 \in Nat /\ c % 10 \in 0 .. 9 /\ c = ((c \div 10) * 10) + (c % 10)
         /\ c # 0 => c \div 10 < c
OBVIOUS

\* The loop ends: the recursion has a solution, built from 0 on.
LEMMA DigitsExist ==
  ASSUME NEW i \in Nat
  PROVE  \E g : g = [c \in 0 .. i |-> DigitsFrom(g, c)]
<1> DEFINE Solves(g, k) == g = [c \in 0 .. k |-> DigitsFrom(g, c)]
           Bad == {k \in 0 .. i : ~ \E g : Solves(g, k)}
<1> SUFFICES ASSUME Bad # {} PROVE FALSE
  OBVIOUS
<1>1. PICK k \in Bad : \A j \in Bad : k <= j
  <2>1. Bad \subseteq Nat
    OBVIOUS
  <2> HIDE DEF Bad
  <2> QED BY <2>1, LeastExists
<1>2. PICK g : k = 0 \/ Solves(g, k - 1)
  <2>1. CASE k = 0
    BY <2>1
  <2>2. CASE k # 0
    <3>1. k - 1 \in 0 .. i /\ ~(k <= k - 1)
      BY <2>2
    <3> QED BY <1>1, <3>1
  <2> QED BY <2>1, <2>2
<1> DEFINE h == [c \in 0 .. k |-> IF c = k THEN DigitsFrom(g, k) ELSE g[c]]
<1>3. \A c \in 0 .. k : c # 0 => c \div 10 \in 0 .. k /\ c \div 10 # k
  BY Tenth
<1>4. \A c \in 0 .. k : DigitsFrom(h, c) = DigitsFrom(g, c)
  <2> TAKE c \in 0 .. k
  <2>1. CASE c = 0
    BY <2>1 DEF DigitsFrom
  <2>2. CASE c # 0
    <3>1. PICK x : x = h[c \div 10] /\ x = g[c \div 10]
      BY <1>3, <2>2
    <3> HIDE DEF h, Bad
    <3> QED BY <2>2, <3>1 DEF DigitsFrom
  <2> QED BY <2>1, <2>2
<1>5. \A c \in 0 .. k : h[c] = DigitsFrom(g, c)
  <2> TAKE c \in 0 .. k
  <2>1. CASE c = k
    BY <2>1
  <2>2. CASE c # k
    <3>1. c \in 0 .. (k - 1) /\ k # 0
      BY <2>2
    <3>2. g[c] = DigitsFrom(g, c)
      BY <1>2, <3>1
    <3> QED BY <2>2, <3>2
  <2> QED BY <2>1, <2>2
<1>6. Solves(h, k)
  <2>1. h = [c \in 0 .. k |-> h[c]]
    OBVIOUS
  <2> HIDE DEF h
  <2> QED BY <1>4, <1>5, <2>1
<1> QED BY <1>1, <1>6

LEMMA DigitsSteps ==
  ASSUME NEW i \in Nat
  PROVE  \E g : /\ Digits(i) = g[i]
                /\ \A c \in 0 .. i : g[c] = DigitsFrom(g, c)
<1> DEFINE Solves(g) == g = [c \in 0 .. i |-> DigitsFrom(g, c)]
           w == CHOOSE g : Solves(g)
<1>1. Solves(w)
  <2>1. \E g : Solves(g)
    BY DigitsExist
  <2> HIDE DEF Solves
  <2> QED BY <2>1
<1>2. Digits(i) = w[i]
  BY DEF Digits, DigitsFrom
<1> HIDE DEF w
<1>3. \A c \in 0 .. i : w[c] = DigitsFrom(w, c)
  BY <1>1
<1> QED BY <1>2, <1>3

\* Digits, the last one first, of which v reads the number c.
Reading(d, v, c) ==
  /\ v \in [0 .. Len(d) -> Nat] /\ v[0] = 0 /\ v[Len(d)] = c
  /\ \A m \in 1 .. Len(d) : v[m] = (v[m - 1] * 10) + (d[(Len(d) - m) + 1] - 48)

Reads(d, c) ==
  /\ d \in Seq(Nat) /\ \E v : Reading(d, v, c)
  /\ Len(d) # 0 => d[Len(d)] # 48

LEMMA NoDigits == Reads(<<>>, 0)
<1> DEFINE v == [m \in 0 .. 0 |-> 0]
<1>1. v \in [0 .. 0 -> Nat] /\ v[0] = 0
  OBVIOUS
<1> HIDE DEF v
<1>2. Len(<<>>) = 0 /\ <<>> \in Seq(Nat)
  OBVIOUS
<1>3. Reading(<<>>, v, 0)
  BY <1>1, <1>2 DEF Reading
<1> QED BY <1>2, <1>3 DEF Reads

\* A number's last digit in front of those of its tenth.
LEMMA LastDigit ==
  ASSUME NEW c \in Nat \ {0}, NEW d, Reads(d, c \div 10)
  PROVE  Reads(<<(c % 10) + 48>> \o d, c)
<1>1. PICK q \in Nat, x \in Nat : q = c \div 10 /\ x = (c % 10) + 48 /\ c = (q * 10) + (x - 48)
                                  /\ (q = 0 => x # 48)
  BY Tenth
<1>2. PICK b \in Nat : b = Len(d)
  BY DEF Reads
<1>3. PICK old : Reading(d, old, q)
  BY <1>1 DEF Reads
<1>4. PICK e : e = <<x>> \o d
  OBVIOUS
<1>5. /\ e \in Seq(Nat) /\ Len(e) = b + 1
      /\ e[1] = x /\ \A j \in 1 .. b : e[j + 1] = d[j]
  <2>1. d \in Seq(Nat) /\ <<x>> \in Seq(Nat) /\ Len(<<x>>) = 1 /\ <<x>>[1] = x
    BY DEF Reads
  <2> QED BY <1>2, <1>4, <2>1
<1> DEFINE v == [m \in 0 .. (b + 1) |-> IF m = b + 1 THEN c ELSE old[m]]
<1>6. v \in [0 .. (b + 1) -> Nat] /\ v[b + 1] = c /\ \A m \in 0 .. b : v[m] = old[m]
  <2>1. old \in [0 .. b -> Nat]
    BY <1>2, <1>3 DEF Reading
  <2>2. \A m \in 0 .. (b + 1) : m # b + 1 => m \in 0 .. b
    OBVIOUS
  <2>3. \A m \in 0 .. b : m # b + 1 /\ m \in 0 .. (b + 1)
    OBVIOUS
  <2> QED BY <2>1, <2>2, <2>3
<1> HIDE DEF v
<1>7. ASSUME NEW m \in 1 .. (b + 1)
      PROVE  v[m] = (v[m - 1] * 10) + (e[((b + 1) - m) + 1] - 48)
  <2>1. CASE m = b + 1
    <3>1. v[m] = c /\ v[m - 1] = old[b] /\ e[((b + 1) - m) + 1] = x
      <4>1. m - 1 = b /\ ((b + 1) - m) + 1 = 1
        BY <2>1
      <4> QED BY <1>5, <1>6, <2>1, <4>1
    <3>2. old[b] = q
      BY <1>2, <1>3 DEF Reading
    <3> QED BY <1>1, <3>1, <3>2
  <2>2. CASE m # b + 1
    <3>1. PICK j \in 1 .. b : j = (b - m) + 1 /\ ((b + 1) - m) + 1 = j + 1
      <4>1. (b - m) + 1 \in 1 .. b
        BY <2>2
      <4> QED BY <4>1
    <3>2. m \in 1 .. b /\ m \in 0 .. b /\ m - 1 \in 0 .. b
      BY <2>2
    <3>3. old[m] = (old[m - 1] * 10) + (d[j] - 48)
      BY <1>2, <1>3, <3>1, <3>2 DEF Reading
    <3> QED BY <1>5, <1>6, <3>1, <3>2, <3>3
  <2> QED BY <2>1, <2>2
<1>8. Reading(e, v, c)
  <2>1. v[0] = 0
    BY <1>2, <1>3, <1>6 DEF Reading
  <2> QED BY <1>5, <1>6, <1>7, <2>1 DEF Reading
<1>9. e[b + 1] # 48
  <2>1. CASE b = 0
    <3>1. q = 0
      BY <1>2, <1>3, <2>1 DEF Reading
    <3> QED BY <1>1, <1>5, <2>1, <3>1
  <2>2. CASE b # 0
    <3>1. d[b] # 48
      BY <1>2, <2>2 DEF Reads
    <3> QED BY <1>5, <2>2, <3>1
  <2> QED BY <2>1, <2>2
<1>10. Reads(e, c)
  BY <1>5, <1>8, <1>9 DEF Reads
<1> QED BY <1>1, <1>4, <1>10

LEMMA DigitsRead ==
  ASSUME NEW i \in Nat
  PROVE  Reads(Digits(i), i)
<1>1. PICK g : Digits(i) = g[i] /\ \A c \in 0 .. i : g[c] = DigitsFrom(g, c)
  BY DigitsSteps
<1> DEFINE Bad == {c \in 0 .. i : ~ Reads(g[c], c)}
<1>2. ASSUME Bad # {} PROVE FALSE
  <2>1. PICK c \in Bad : \A j \in Bad : c <= j
    <3>1. Bad \subseteq Nat
      OBVIOUS
    <3> HIDE DEF Bad
    <3> QED BY <1>2, <3>1, LeastExists
  <2>2. g[c] = DigitsFrom(g, c) /\ ~ Reads(g[c], c) /\ c \in Nat
    BY <1>1
  <2>3. CASE c = 0
    BY <2>2, <2>3, NoDigits DEF DigitsFrom
  <2>4. CASE c # 0
    <3>1. PICK q \in 0 .. i : q = c \div 10 /\ ~(c <= q)
      <4>1. c \div 10 \in Nat /\ c \div 10 < c
        BY <2>2, <2>4, Tenth
      <4> QED BY <4>1
    <3>2. Reads(g[q], q)
      BY <2>1, <3>1
    <3>3. g[c] = <<(c % 10) + 48>> \o g[q]
      BY <2>2, <2>4, <3>1 DEF DigitsFrom
    <3> QED BY <2>2, <2>4, <3>1, <3>2, <3>3, LastDigit
  <2> QED BY <2>3, <2>4
<1>3. i \in 0 .. i
  OBVIOUS
<1> QED BY <1>1, <1>2, <1>3

\* What is read from the digits in itoa's order.
LEMMA ReadBack ==
  ASSUME NEW i \in Nat
  PROVE  /\ ValueOf(itoa(i)) = i
         /\ itoa(i) # <<>> => itoa(i)[1] # 48
<1>1. PICK d, v : d = Digits(i) /\ Reading(d, v, i)
  BY DigitsRead DEF Reads
<1>2. d \in Seq(Nat) /\ (Len(d) # 0 => d[Len(d)] # 48)
  BY <1>1, DigitsRead DEF Reads
<1>3. PICK b \in Nat : b = Len(d)
  BY <1>2
<1>4. PICK r : r = itoa(i)
  OBVIOUS
<1>5. r \in Seq(Nat) /\ Len(r) = b /\ \A m \in 1 .. b : r[m] = d[(b - m) + 1]
  <2>1. r = [m \in 1 .. b |-> d[(b - m) + 1]]
    BY <1>1, <1>3, <1>4 DEF itoa, Reverse
  <2>2. \A m \in 1 .. b : (b - m) + 1 \in 1 .. Len(d)
    BY <1>3
  <2>3. \A m \in 1 .. b : d[(b - m) + 1] \in Nat
    <3>1. \A j \in 1 .. Len(d) : d[j] \in Nat
      BY <1>2
    <3> QED BY <2>2, <3>1
  <2> QED BY <2>1, <2>3
<1>6. /\ v \in [0 .. b -> Nat] /\ v[0] = 0 /\ v[b] = i
      /\ \A m \in 1 .. b : v[m] = (v[m - 1] * 10) + (r[m] - 48)
  BY <1>1, <1>3, <1>5 DEF Reading
<1> DEFINE Solves(w) == w = [m \in 0 .. b |-> IF m = 0 THEN 0 ELSE (w[m - 1] * 10) + (r[m] - 48)]
           value == CHOOSE w : Solves(w)
<1>7. ValueOf(r) = value[b]
  BY <1>5 DEF ValueOf
<1>8. Solves(v)
  <2>1. \A m \in 0 .. b : v[m] = IF m = 0 THEN 0 ELSE (v[m - 1] * 10) + (r[m] - 48)
    <3> TAKE m \in 0 .. b
    <3>1. CASE m = 0
      BY <1>6, <3>1
    <3>2. CASE m # 0
      <4>1. m \in 1 .. b
        BY <3>2
      <4> QED BY <1>6, <3>2, <4>1
    <3> QED BY <3>1, <3>2
  <2>2. v = [m \in 0 .. b |-> v[m]]
    BY <1>6
  <2> QED BY <2>1, <2>2
<1>9. Solves(value)
  <2> HIDE DEF Solves
  <2> QED BY <1>8
<1> HIDE DEF value
<1>10. /\ value[0] = 0
       /\ \A m \in 1 .. b : value[m] = (value[m - 1] * 10) + (r[m] - 48)
  <2>1. \A m \in 0 .. b : value[m] = IF m = 0 THEN 0 ELSE (value[m - 1] * 10) + (r[m] - 48)
    BY <1>9
  <2>2. 0 \in 0 .. b /\ \A m \in 1 .. b : m \in 0 .. b /\ m # 0
    OBVIOUS
  <2> HIDE DEF Solves
  <2> QED BY <2>1, <2>2
<1> HIDE DEF Solves
<1> DEFINE Bad == {m \in 0 .. b : value[m] # v[m]}
<1>11. ASSUME Bad # {} PROVE FALSE
  <2>1. PICK m \in Bad : \A l \in Bad : m <= l
    <3>1. Bad \subseteq Nat
      OBVIOUS
    <3> HIDE DEF Bad
    <3> QED BY <1>11, <3>1, LeastExists
  <2>2. m # 0
    BY <1>6, <1>10
  <2>3. PICK k \in 0 .. b : k = m - 1 /\ ~(m <= k)
    <3>1. m - 1 \in 0 .. b /\ ~(m <= m - 1)
      BY <2>2
    <3> QED BY <3>1
  <2>4. value[k] = v[k]
    BY <2>1, <2>3
  <2>5. m \in 1 .. b
    BY <2>2
  <2> QED BY <1>6, <1>10, <2>3, <2>4, <2>5
<1>12. value[b] = i
  <2>1. b \in 0 .. b
    OBVIOUS
  <2> QED BY <1>6, <1>11, <2>1
<1>13. r # <<>> => r[1] # 48
  <2> SUFFICES ASSUME r # <<>> PROVE r[1] # 48
    OBVIOUS
  <2>1. b # 0
    BY <1>5
  <2>2. 1 \in 1 .. b /\ (b - 1) + 1 = b
    BY <2>1
  <2>3. r[1] = d[b]
    BY <1>5, <2>2
  <2> QED BY <1>2, <1>3, <2>1, <2>3
<1> QED BY <1>4, <1>7, <1>12, <1>13

\* For every number: the digits itoa returns, read as a decimal, are that
\* number, and there is no 0 in front.
THEOREM NumbersReadBack == Spec => []NumberReadsBack
<1>1. Init => NumberReadsBack
  BY DEF Init, NoText, NumberReadsBack
<1>2. NumberReadsBack /\ [Next]_vars => NumberReadsBack'
  <2> SUFFICES ASSUME NumberReadsBack, [Next]_vars PROVE NumberReadsBack'
    OBVIOUS
  <2>1. CASE text' = text
    BY <2>1 DEF NumberReadsBack
  <2>2. CASE text'.of # "number"
    BY <2>2 DEF NumberReadsBack
  <2>3. ASSUME NEW i \in Numbers, text' = [of |-> "number", in |-> i, out |-> itoa(i)]
        PROVE  NumberReadsBack'
    <3>1. i \in Nat
      BY KernelMainAssumption
    <3>2. text'.in = i /\ text'.out = itoa(i)
      BY <2>3
    <3> QED BY <3>1, <3>2, ReadBack DEF NumberReadsBack
  <2>4. CASE \E s \in PathStrings : text' = [of |-> "path", in |-> s, out |-> pparser_parse_path_root(s)]
    BY <2>2, <2>4
  <2> QED BY <2>1, <2>2, <2>3, <2>4, TextNext
<1> QED BY <1>1, <1>2, PTL DEF Spec

=============================================================================
