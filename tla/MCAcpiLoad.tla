------------------------------ MODULE MCAcpiLoad ------------------------------
(***************************************************************************)
(* Machines of one to eight cores, hosts with tables of either revision,   *)
(* and MADTs with structures of every length.                              *)
(***************************************************************************)
EXTENDS AcpiLoad

MCMachines == { [i \in 1 .. n |-> n - i] : n \in 1 .. 8 }

\* A host: its RSDP at one address, then the root table, a corrupt table and
\* the MADT.
Table(signature, body) == encode_sdt(signature, 0, body)[1]
Corrupt(bytes) == Put(bytes, HEADER, <<(bytes[HEADER + 1] + 1) % 256>>)
HostMadt(apics) == Table(APIC, MadtTable([i \in 1 .. Len(apics) |-> LocalApic(apics[i])]))
Rsdp1(addr) ==
  LET b == Put(Put(Blank(RSDP_V1_SIZE), 0, RSDP_SIGNATURE), RSDT_ADDR, Le(addr, 4))
  IN  Put(b, 8, <<calc_checksum(b)>>)
Rsdp2(addr) ==
  LET b == Put(BuildRsdp, XSDT_ADDR, Le(addr, 8))
      zero == Put(b, EXT_CHECKSUM, <<0>>)
  IN  Put(zero, EXT_CHECKSUM, <<calc_checksum(zero)>>)
Root(width, addrs) == Table(XSDT, FlattenSeq([i \in 1 .. Len(addrs) |-> Le(addrs[i], width)]))

Host(at, pointer, width, apics) ==
  [cores |-> apics, rsdp |-> at,
   mem |-> Put(Put(Put(Put(Blank(MemorySize), at, pointer), 124, Root(width, <<180, 230>>)),
                   180, Corrupt(HostMadt(<<9>>))), 230, HostMadt(apics))]

MCImages == { Host(at, Rsdp1(124), 4, <<3, 1>>) : at \in {4, 64, 70} }
       \cup { Host(at, Rsdp2(124), 8, <<3, 1>>) : at \in {4, 64, 70} }

\* Structures that do not parse or are of another kind, and ones that end the
\* progress of the iterator.
Structure(type, len) == [i \in 1 .. len |-> CASE i = 1 -> type [] i = 2 -> len [] OTHER -> 7]
Passed == { Structure(type, len) : type \in IcsType \ {0}, len \in {3, 6, 8, 10, 12, 16} }
          \cup { Structure(0, 6), <<1>> }
Stuck == { Structure(6, 8), Structure(1, 2), <<3, 9, 0>>, <<5, 0>> }
MCMadts ==
  { [cores |-> <<1, 2>>, bytes |-> LocalApic(1) \o s \o LocalApic(2)] :
      s \in Passed \ {<<1>>} }
  \cup { [cores |-> <<1>>, bytes |-> LocalApic(1) \o s] : s \in Stuck \cup {<<1>>} }
=============================================================================
