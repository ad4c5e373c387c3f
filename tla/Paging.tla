------------------------------- MODULE Paging --------------------------------
(***************************************************************************)
(* Page tables as memory/paging/paging.c builds and changes them, and as   *)
(* the processor walks them.  An entry is a number, the address of a page  *)
(* or table plus flags; memory is a function from the tables' addresses.   *)
(***************************************************************************)
EXTENDS Integers

CONSTANTS
  Entries,   \* 1024, PAGING_TOTAL_ENTRIES_PER_TABLE
  PageSize   \* 4096

ASSUME PagingAssumption == Entries \in Nat \ {0} /\ PageSize \in Nat /\ PageSize > 7

Indices == 0 .. (Entries - 1)

\* What a table maps, and all tables do: 2^32.
TableTotal == Entries * PageSize
Space == Entries * TableTotal

\* The flags the kernel uses: present, writable, for everyone.
FLAGS == 7

\* PAGING_ADDRESS_MASK
Masked(entry) == entry - (entry % PageSize)

\* Or with flags of what is aligned and has none.
Or(address, flags) == address + flags

\* A slip in paging_new_4gb: a table gets an entry more.
IdentityOnePast(i) == [j \in 0 .. Entries |-> Or(((i * TableTotal) + (j * PageSize)) % Space, FLAGS)]

\* Table i of paging_new_4gb.
IdentityTable(i) == [j \in Indices |-> Or(((i * TableTotal) + (j * PageSize)) % Space, FLAGS)]

Aligned(address) == address % PageSize = 0

\* The processor's walk.
Walked(directory, tables, address) ==
  tables[Masked(directory[address \div TableTotal])][(address % TableTotal) \div PageSize]

\* A slip in paging_set_value: it writes the first table.
SetInFirst(directory, tables, address, entry) ==
  [tables EXCEPT ![Masked(directory[0])][(address % TableTotal) \div PageSize] = entry]

paging_set_value(directory, tables, address, entry) ==
  [tables EXCEPT ![Masked(directory[address \div TableTotal])]
                  [(address % TableTotal) \div PageSize] = entry]

=============================================================================
