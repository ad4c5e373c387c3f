--------------------------------- MODULE Gdt ---------------------------------
(***************************************************************************)
(* Segment descriptors and interrupt gates, packed as the processor wants  *)
(* them (gdt/gdt.c, idt/idt.c), and what the processor reads in them.  The *)
(* widths of the fields are parameters: shifting and masking by a width is *)
(* division by it and its remainder.                                       *)
(***************************************************************************)
EXTENDS Integers

CONSTANTS
  LimitFirst,  \* 2^16: limit_first, base_first and offset_1 are below
  LimitHigh,   \* 2^4: the low half of flags_and_limit
  PageUnit,    \* 2^12: the unit of the limits of large segments
  BaseByte     \* 2^8: base and base_24_31_bits

ASSUME GdtAssumption == {LimitFirst, LimitHigh, PageUnit, BaseByte} \subseteq Nat \ {0}

\* gdt_structured_t
Segment ==
  [base : 0 .. (LimitFirst * BaseByte * BaseByte - 1),
   limit : 0 .. (LimitFirst * LimitHigh * PageUnit - 1),
   access_type : Nat]

Large(s) == s.limit > LimitFirst - 1

\* gdt_structured_to_gdt returns -EINVARG: a large limit is not of whole pages.
Unencodable(s) == Large(s) /\ s.limit % PageUnit # PageUnit - 1

\* A slip in Encode: the limit's high bits are left out.
EncodeNoHigh(s) ==
  LET limit == IF Large(s) THEN s.limit \div PageUnit ELSE s.limit
  IN [limit_first |-> limit % LimitFirst,
      limit_high |-> 0,
      granular |-> Large(s),
      base_first |-> s.base % LimitFirst,
      base |-> (s.base \div LimitFirst) % BaseByte,
      base_24_31_bits |-> (s.base \div (LimitFirst * BaseByte)) % BaseByte,
      access_type |-> s.access_type]

\* gdt_t; flags_and_limit as its bit G and its low half.
Encode(s) ==
  LET limit == IF Large(s) THEN s.limit \div PageUnit ELSE s.limit
  IN [limit_first |-> limit % LimitFirst,
      limit_high |-> (limit \div LimitFirst) % LimitHigh,
      granular |-> Large(s),
      base_first |-> s.base % LimitFirst,
      base |-> (s.base \div LimitFirst) % BaseByte,
      base_24_31_bits |-> (s.base \div (LimitFirst * BaseByte)) % BaseByte,
      access_type |-> s.access_type]

\* What the memset left.
Null ==
  [limit_first |-> 0, limit_high |-> 0, granular |-> FALSE,
   base_first |-> 0, base |-> 0, base_24_31_bits |-> 0, access_type |-> 0]

\* The segment the processor reads in a descriptor.
Decode(g) ==
  LET limit == g.limit_first + LimitFirst * g.limit_high
  IN [base |-> g.base_first + LimitFirst * (g.base + BaseByte * g.base_24_31_bits),
      limit |-> IF g.granular THEN limit * PageUnit + (PageUnit - 1) ELSE limit,
      access_type |-> g.access_type]

\* The two halves of an interrupt handler's address in its gate.
Gate(handler) == [offset_1 |-> handler % LimitFirst, offset_2 |-> handler \div LimitFirst]

Handler(gate) == gate.offset_1 + LimitFirst * gate.offset_2

=============================================================================
