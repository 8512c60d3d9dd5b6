------------------------------ MODULE AcpiTables ------------------------------
(***************************************************************************)
(* The ACPI tables, byte by byte (acpi/): how the tables for a guest are   *)
(* built, with the commands that its firmware is to load them by, and how  *)
(* tables in memory are found and read.  Offsets count from zero, as in    *)
(* the code; a result that may be an error is a sequence, empty for one.   *)
(***************************************************************************)
EXTENDS Integers, SequencesExt

CONSTANTS
  EbdaStart, EbdaSize, MainStart, MainSize,   \* the areas that are searched
  TableLimit,     \* the bytes of the buffer for a table
  CommandLimit,   \* the commands that fit the table loader
  IcsLimit        \* the interrupt controller structures that fit the MADT

Sub(bytes, off, len) == SubSeq(bytes, off + 1, off + len)
Put(bytes, off, new) ==
  SubSeq(bytes, 1, off) \o new \o SubSeq(bytes, off + Len(new) + 1, Len(bytes))
Blank(len) == [i \in 1 .. len |-> 0]

\* Little-endian numbers below 2^16 in so many bytes, and back.
Le(n, width) == [i \in 1 .. width |-> CASE i = 1 -> n % 256 [] i = 2 -> n \div 256 [] OTHER -> 0]
FromLe(bytes) == bytes[1] + 256 * bytes[2]

\* The wrapping sum, half by half.
SumOf[bytes \in Seq(0 .. 255)] ==
  LET m == Len(bytes) \div 2
  IN  IF m = 0 THEN (IF bytes = <<>> THEN 0 ELSE bytes[1])
      ELSE (SumOf[SubSeq(bytes, 1, m)] + SumOf[SubSeq(bytes, m + 1, Len(bytes))]) % 256
verify_checksum(bytes) == SumOf[bytes] = 0
calc_checksum(bytes) == (256 - SumOf[bytes]) % 256

-----------------------------------------------------------------------------
(* Interrupt controller structures and the MADT (acpi/madt.rs).            *)

ProcessorLocalApic == 0
IoApicType == 1
IcsType == {0, 1, 2, 3, 4, 5, 8, 9, 10}
expected_len(type) ==
  CASE type \in {0, 3} -> 8 [] type \in {1, 5, 10} -> 12 [] type = 2 -> 10
    [] type = 4 -> 6 [] type \in {8, 9} -> 16

LocalApic(id) == <<ProcessorLocalApic, expected_len(0), 0, id>> \o Le(1, 4)
IoApicIcs == <<IoApicType, expected_len(1), 0, 0, 0, 0, 192, 254>> \o Le(0, 4)

\* Ics::parse, down to what its users ask: an APIC id, another structure, or an
\* error for a length that the type does not have or a type not implemented.
parse(type, bytes) ==
  IF Len(bytes) # expected_len(type) - 2 \/ type \in {5, 8, 10} THEN "error"
  ELSE IF type = ProcessorLocalApic THEN "apic" ELSE "other"

Rest(bytes, item) == SubSeq(bytes, bytes[2] + 1, Len(bytes))

\* IcsIterator::next, when there are two bytes: an unknown type, and a length
\* that cannot be, are errors that leave the iterator where it was.
Stays(bytes) == bytes[1] \notin IcsType \/ bytes[2] > Len(bytes) \/ bytes[2] < 3
next(bytes) ==
  IF Stays(bytes) THEN [item |-> "error", id |-> 0, rest |-> bytes]
  ELSE LET item == parse(bytes[1], SubSeq(bytes, 3, bytes[2]))
       IN  [item |-> item, id |-> IF item = "apic" THEN bytes[4] ELSE 0,
            rest |-> Rest(bytes, item)]

INT_CTRL_STRUCTS == 8
APIC == <<65, 80, 73, 67>>
XSDT == <<88, 83, 68, 84>>

\* encode_table of the MADT: the address of the local APICs, flags, structures.
MadtTable(structures) == <<0, 0, 224, 254>> \o Le(0, 4) \o FlattenSeq(structures)

\* The MADT that build_vm makes for the cores of a machine: add_ics fails when
\* there are more than the builder holds.
BuildMadt(cores) ==
  LET structures == [i \in 1 .. Len(cores) |-> LocalApic(cores[i])] \o <<IoApicIcs>>
  IN  IF Len(structures) > IcsLimit THEN <<>> ELSE <<MadtTable(structures)>>

-----------------------------------------------------------------------------
(* System description tables (acpi/rsdt.rs) and the RSDP (acpi/rsdp.rs).   *)

HEADER == 36
LENGTH == 4
CHECKSUM == 9

\* write_sdt_header, for a table with room for its header.
write_sdt_header(signature, revision, bytes) ==
  LET header == Put(Put(Put(bytes, 0, signature), LENGTH, Le(Len(bytes), 4)), 8, <<revision>>)
  IN  Put(header, CHECKSUM, <<calc_checksum(header)>>)

\* encode_sdt, into a buffer that must be large enough.
encode_sdt(signature, revision, table) ==
  IF HEADER + Len(table) > TableLimit THEN <<>>
  ELSE <<write_sdt_header(signature, revision, Blank(HEADER) \o table)>>

\* SDT::new at an address: its signature and its table, if the sum is right.  A
\* table that is shorter than its header panics, and so does one with a wrong sum
\* that is too short to report it.
SdtLength(mem, addr) == FromLe(Sub(mem, addr + LENGTH, 4))
SdtIntact(mem, addr) == verify_checksum(Sub(mem, addr, SdtLength(mem, addr)))
SdtPanics(mem, addr) ==
  SdtLength(mem, addr) < IF SdtIntact(mem, addr) THEN HEADER ELSE CHECKSUM + 1
SDT(mem, addr) ==
  IF ~SdtIntact(mem, addr) \/ SdtPanics(mem, addr) THEN <<>>
  ELSE <<[signature |-> Sub(mem, addr, 4),
          table |-> Sub(mem, addr + HEADER, SdtLength(mem, addr) - HEADER)]>>

\* find_entry over the entries of an RSDT or XSDT: the first that is intact and
\* has the signature, if none before it panics.
find_entry(mem, table, width, signature) ==
  LET count == Len(table) \div width
      Addr(i) == FromLe(Sub(table, (i - 1) * width, width))
      At(i) == SDT(mem, Addr(i))
      ends == {i \in 1 .. count : \/ SdtPanics(mem, Addr(i))
                                  \/ At(i) # <<>> /\ At(i)[1].signature = signature}
  IN  IF ends = {} THEN <<>> ELSE At(CHOOSE i \in ends : \A j \in ends : i <= j)

RSDP_SIGNATURE == <<82, 83, 68, 32, 80, 84, 82, 32>>
REVISION == 15
RSDT_ADDR == 16
XSDT_ADDR == 24
EXT_CHECKSUM == 32
RSDP_V1_SIZE == 20
RSDP_V2_SIZE == 36

\* RSDPBuilder::build: the pointer itself.
BuildRsdp ==
  LET b == Put(Put(Put(Blank(RSDP_V2_SIZE), 0, RSDP_SIGNATURE), REVISION, <<2>>),
               20, Le(RSDP_V2_SIZE, 4))
      v1 == Put(b, 8, <<calc_checksum(Sub(b, 0, RSDP_V1_SIZE))>>)
  IN  Put(v1, EXT_CHECKSUM, <<calc_checksum(v1)>>)

\* search_range, giving the address of the pointer.
search_range(mem, start, size) ==
  LET area == Sub(mem, start, size)
      hits == {i \in 0 .. size - RSDP_V1_SIZE - 1 :
                 i % 2 = 0 /\ Sub(area, i, 8) = RSDP_SIGNATURE}
      first == CHOOSE i \in hits : \A j \in hits : i <= j
      revision == area[first + REVISION + 1]
  IN  IF hits = {} THEN <<>>
      ELSE IF revision = 0 \/ (revision = 2 /\ first + RSDP_V2_SIZE < size)
      THEN <<start + first>> ELSE <<>>

\* RSDP::find: the main area, then the other one.
find(mem) ==
  LET main == search_range(mem, MainStart, MainSize)
  IN  IF main # <<>> THEN main ELSE search_range(mem, EbdaStart, EbdaSize)

\* RSDP::from_bytes: the sums of the pointer are right.
from_bytes(mem, addr) ==
  /\ verify_checksum(Sub(mem, addr, RSDP_V1_SIZE))
  /\ mem[addr + REVISION + 1] = 2 => verify_checksum(Sub(mem, addr, RSDP_V2_SIZE))

\* rsdt(): the root table, and the width of its entries.
rsdt(mem, addr) ==
  LET v2 == mem[addr + REVISION + 1] = 2
      root == IF v2 THEN SDT(mem, FromLe(Sub(mem, addr + XSDT_ADDR, 8)))
              ELSE SDT(mem, FromLe(Sub(mem, addr + RSDT_ADDR, 4)))
  IN  IF root = <<>> THEN <<>>
      ELSE <<[table |-> root[1].table, width |-> IF v2 THEN 8 ELSE 4]>>

-----------------------------------------------------------------------------
(* The commands of the table loader (acpi/seabios.rs).                     *)

Allocate(file, align) == [cmd |-> "Allocate", file |-> file, align |-> align]
AddPointer(dst, src, offset, size) ==
  [cmd |-> "AddPointer", file |-> dst, src |-> src, offset |-> offset, size |-> size]
AddChecksum(file, offset, start, length) ==
  [cmd |-> "AddChecksum", file |-> file, offset |-> offset, start |-> start, length |-> length]

TableCommands(name, i) ==
  <<Allocate(name, 8), AddPointer("xsdt", name, HEADER + 8 * (i - 1), 8)>>

\* Mutant: the sum begins with the header.
XsdtChecksum_Header(count) == AddChecksum("xsdt", CHECKSUM, 0, 8 * count)
XsdtChecksum(count) == AddChecksum("xsdt", CHECKSUM, HEADER, 8 * count)

\* RSDTBuilder::build and RSDPBuilder::build, for tables in the order of their
\* signatures; every table is a file, and so is the script.
BuildAll(tables) ==
  LET n == Len(tables)
      xsdt == write_sdt_header(XSDT, 0, Blank(HEADER + 8 * n))
      commands ==
        << Allocate("rsdp", 16), Allocate("xsdt", 8), AddPointer("rsdp", "xsdt", XSDT_ADDR, 8) >>
        \o FlattenSeq([i \in 1 .. n |-> TableCommands(tables[i].name, i)])
        \o << XsdtChecksum(n), AddChecksum("rsdp", EXT_CHECKSUM, XSDT_ADDR, 8) >>
      names == {"rsdp", "xsdt"} \cup {tables[i].name : i \in 1 .. n}
      Bytes(name) == CASE name = "rsdp" -> BuildRsdp [] name = "xsdt" -> xsdt
                       [] OTHER -> tables[CHOOSE i \in 1 .. n : tables[i].name = name].bytes
  IN  [ok |-> Len(commands) <= CommandLimit, commands |-> commands,
       files |-> [name \in names |-> Bytes(name)]]

=============================================================================
