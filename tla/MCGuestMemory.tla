--------------------------- MODULE MCGuestMemory ----------------------------
(* GuestMemory with pages of two cells and two machines.                   *)
EXTENDS GuestMemory

\* An image of one page and a half, one of a page, and one that is missing.
Image(page) == [addr |-> 2 * page, data |-> <<1, 2, 5>>, found |-> TRUE]
Tables(page) == [addr |-> 2 * page, data |-> <<2, 1>>, found |-> TRUE]
Missing == [addr |-> 0, data |-> <<1>>, found |-> FALSE]

\* Images in memory and beyond it, over each other and over the BIOS; memory
\* that reaches over the low BIOS, and over the local APIC.
MCConfigs ==
  { <<[memory |-> m, images |-> i], [memory |-> 2, images |-> j]>> :
      m \in {0, 6, 11}, i \in {<<>>, <<Image(0), Tables(2)>>, <<Tables(7), Image(5)>>},
      j \in {<<>>, <<Missing>>, <<Image(2)>>, <<Tables(1), Image(0)>>} }

Flat0 == [paging |-> FALSE, cr3 |-> 0]
Paged(page) == [paging |-> TRUE, cr3 |-> page]

\* Copies inside a page, over one and two page ends, past the end of memory,
\* and through the guest's own page tables.
MCCopies ==
  {[vm |-> 1, mode |-> Flat0, addr |-> 3, bytes |-> <<5, 4, 2, 5>>],
   [vm |-> 1, mode |-> Flat0, addr |-> 10, bytes |-> <<4, 1, 1>>],
   [vm |-> 1, mode |-> Paged(0), addr |-> 0, bytes |-> <<4, 2>>],
   [vm |-> 1, mode |-> Paged(2), addr |-> 5, bytes |-> <<2, 4>>],
   [vm |-> 2, mode |-> Flat0, addr |-> 1, bytes |-> <<4, 1, 4, 2>>]}
=============================================================================
