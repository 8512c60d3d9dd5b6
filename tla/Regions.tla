------------------------------ MODULE Regions -------------------------------
(***************************************************************************)
(* The map from I/O ports and guest addresses to emulated devices          *)
(* (virtdev/mod.rs), as operators, and the regions that every device of a  *)
(* machine asks for.                                                       *)
(*                                                                         *)
(* Each of the two BTreeMaps is a sequence of entries in the order of its  *)
(* keys.  A key is a range, and two ranges that overlap compare as equal:  *)
(* no total order, so that what a search finds depends on the ranges that  *)
(* are there.  Guest addresses count units of 16 bytes.                    *)
(***************************************************************************)
EXTENDS Integers, Sequences, SequencesExt

PortIo(first, last) == [kind |-> "port", first |-> first, last |-> last]
MemIo(first, last) == [kind |-> "mem", first |-> first, last |-> last]

cmp(a, b) ==
  IF a.last < b.first THEN "Less"
  ELSE IF b.last < a.first THEN "Greater" ELSE "Equal"

\* Where a search among the keys of entries stops: at the first key that the
\* sought one is not greater than, or at the end.
Stop(entries, key) ==
  LET stops == {i \in 1 .. Len(entries) : cmp(key, entries[i]) # "Greater"}
  IN  IF stops = {} THEN Len(entries) + 1
      ELSE CHOOSE i \in stops : \A j \in stops : i <= j

contains_key(entries, key) ==
  LET i == Stop(entries, key)
  IN  i <= Len(entries) /\ cmp(key, entries[i]) = "Equal"

\* Mutant: the device after the one that asked.
insert_After(entries, key, dev) ==
  InsertAt(entries, Stop(entries, key),
           [first |-> key.first, last |-> key.last, dev |-> dev + 1])

insert(entries, key, dev) ==
  InsertAt(entries, Stop(entries, key),
           [first |-> key.first, last |-> key.last, dev |-> dev])

EmptyMap == [port |-> <<>>, mem |-> <<>>]

\* Option<&RwLock<dyn EmulatedDevice>>: the device as a sequence of at most one.
find_device(map, kind, addr) ==
  LET key == [first |-> addr, last |-> addr]
      entries == map[kind]
  IN  IF contains_key(entries, key)
      THEN <<entries[Stop(entries, key)].dev>> ELSE <<>>

\* Mutant: a conflict is skipped and the regions after it are registered.
register_device_Skip(map, dev, services) ==
  LET Add(acc, region) ==
        IF contains_key(acc.map[region.kind], region) THEN acc
        ELSE [acc EXCEPT !.map[region.kind] = insert(@, region, dev)]
  IN  FoldLeft(Add, [map |-> map, ok |-> TRUE], services)

\* The first conflict ends the loop: the regions before it stay registered.
register_device(map, dev, services) ==
  LET Add(acc, region) ==
        IF ~acc.ok \/ contains_key(acc.map[region.kind], region)
        THEN [acc EXCEPT !.ok = FALSE]
        ELSE [acc EXCEPT !.map[region.kind] = insert(@, region, dev)]
  IN  FoldLeft(Add, [map |-> map, ok |-> TRUE], services)

-----------------------------------------------------------------------------
(* EmulatedDevice::services of each device.                                *)

AcpiRuntime(pm_base) ==
  << PortIo(\hB2, \hB2), PortIo(pm_base + 4, pm_base + 4),
     PortIo(pm_base + 8, pm_base + 8), PortIo(\hAFE0, \hAFE3),
     PortIo(\hAE00, \hAE03), PortIo(\hAE04, \hAE07),
     PortIo(\hAE08, \hAE0B), PortIo(\hAE0C, \hAE0F) >>
VgaController == << PortIo(\h3D4, \h3D5) >>
PciRootComplex == << PortIo(\hCF8, \hCF8), PortIo(\hCFC, \hCFF), PortIo(\hCFB, \hCFB) >>
Pic8259 == << PortIo(\h20, \h21), PortIo(\hA0, \hA1), PortIo(\h4D0, \h4D1) >>
Keyboard8042 == << PortIo(\h60, \h60), PortIo(\h64, \h64) >>
Pit8254 == << PortIo(\h40, \h43), PortIo(\h61, \h61) >>
CmosRtc == << PortIo(\h70, \h71) >>
IoApic == << MemIo(\hFEC0000, \hFEC010F), MemIo(\hFED0000, \hFED010F) >>
DebugPort(port) == << PortIo(port, port) >>
Uart8250(base_port) == << PortIo(base_port, base_port + 7) >>
QemuFwCfg == << PortIo(\h510, \h511), PortIo(\h514, \h518) >>

\* The devices of every machine, the static ones first.
Platform ==
  << AcpiRuntime(\h600), VgaController, PciRootComplex, Pic8259, Keyboard8042,
     Pit8254, CmosRtc, IoApic, DebugPort(\h402), Uart8250(\h3F8), QemuFwCfg >>

=============================================================================
