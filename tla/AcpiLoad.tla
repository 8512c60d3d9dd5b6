------------------------------- MODULE AcpiLoad -------------------------------
(***************************************************************************)
(* The ACPI tables from the builder to the reader.  The hypervisor builds  *)
(* the tables of a machine; its firmware carries out the commands of the   *)
(* table loader; then the tables are searched for and read, here by the    *)
(* hypervisor's own reader, the way kmain reads those of the host.  The    *)
(* reader also starts on memory images of hosts, and on their MADTs.       *)
(***************************************************************************)
EXTENDS AcpiTables, FiniteSets

CONSTANTS
  Machines,   \* the cores of the machines to build, as sequences
  Images,     \* memory of hosts
  Madts       \* structures of MADTs of hosts

MemorySize == MainStart + MainSize

VARIABLES
  cores,      \* the cores of the machine; what the reader should find
  files, commands,   \* what the builder gave the firmware
  place,      \* where the firmware put each file
  mem,        \* memory
  pc,         \* who goes on
  rsdp, root, \* what the reader has found so far
  rest,       \* the bytes that the iterator has left
  ids         \* the APIC ids that it has given

vars == <<cores, files, commands, place, mem, pc, rsdp, root, rest, ids>>

Nothing ==
  /\ files = <<>> /\ commands = <<>> /\ place = <<>>
  /\ root = <<>> /\ ids = <<>>

InitBuild(machine) ==
  /\ Nothing /\ cores = machine /\ mem = Blank(MemorySize)
  /\ rsdp = 0 /\ rest = <<>> /\ pc = "build"

\* The boot loader of a host may hand over the RSDP; one with wrong sums is not
\* used.
Handed(image) == IF from_bytes(image.mem, image.rsdp) THEN {image.rsdp} ELSE {}

Init ==
  \/ \E machine \in Machines : InitBuild(machine)
  \/ \E image \in Images :
       /\ Nothing /\ cores = image.cores /\ mem = image.mem
       /\ rsdp \in {0} \cup Handed(image) /\ rest = <<>> /\ pc = "find"
  \/ \E madt \in Madts :
       /\ Nothing /\ cores = madt.cores /\ mem = <<>>
       /\ rsdp = 0 /\ rest = madt.bytes /\ pc = "iterate"

\* build_vm, as far as the tables go: any error of a builder panics.
Build ==
  /\ pc = "build"
  /\ \E table \in {BuildMadt(cores)} :
     \E sdt \in {IF table = <<>> THEN <<>> ELSE encode_sdt(APIC, 5, table[1])} :
       IF sdt = <<>> THEN pc' = "failed" /\ UNCHANGED <<files, commands>>
       ELSE \E all \in {BuildAll(<<[name |-> "APIC", bytes |-> sdt[1]]>>)} :
              /\ files' = all.files
              /\ commands' = all.commands
              /\ pc' = IF all.ok THEN "load" ELSE "failed"
  /\ UNCHANGED <<cores, place, mem, rsdp, root, rest, ids>>

-----------------------------------------------------------------------------
(* The firmware of the guest.                                              *)

Aligned(addr, align) == ((addr + align - 1) \div align) * align
Free == LET ends == {place[f] + Len(files[f]) : f \in DOMAIN place} \cup {MainStart}
        IN  CHOOSE e \in ends : \A o \in ends : o <= e

DoAllocate(c) ==
  LET at == Aligned(Free, c.align)
  IN  /\ place' = [f \in DOMAIN place \cup {c.file} |-> IF f = c.file THEN at ELSE place[f]]
      /\ mem' = Put(mem, at, files[c.file])
DoAddPointer(c) ==
  LET at == place[c.file] + c.offset
  IN  /\ mem' = Put(mem, at, Le(FromLe(Sub(mem, at, c.size)) + place[c.src], c.size))
      /\ UNCHANGED place
DoAddChecksum(c) ==
  LET at == place[c.file] + c.offset
      sum == SumOf[Sub(mem, place[c.file] + c.start, c.length)]
  IN  /\ mem' = Put(mem, at, <<(mem[at + 1] - sum) % 256>>)
      /\ UNCHANGED place

\* A command that names a file which is not there ends the script.
Refers(c) == {c.file} \cup (IF c.cmd = "AddPointer" THEN {c.src} ELSE {})
Load ==
  /\ pc = "load" /\ commands # <<>>
  /\ LET c == Head(commands)
     IN  IF c.cmd = "Allocate" THEN DoAllocate(c)
         ELSE IF ~(Refers(c) \subseteq DOMAIN place) THEN UNCHANGED <<place, mem>>
         ELSE IF c.cmd = "AddPointer" THEN DoAddPointer(c) ELSE DoAddChecksum(c)
  /\ commands' = Tail(commands)
  /\ pc' = IF Len(commands) = 1 THEN "find" ELSE "load"
  /\ UNCHANGED <<cores, files, rsdp, root, rest, ids>>

-----------------------------------------------------------------------------
(* The reader: kmain.                                                      *)

\* The RSDP that the boot loader handed over, or the one that is found.
FindRsdp ==
  /\ pc = "find"
  /\ \E at \in {IF rsdp # 0 THEN <<rsdp>> ELSE find(mem)} :
       IF at = <<>> \/ (rsdp = 0 /\ ~from_bytes(mem, at[1]))
       THEN pc' = "failed" /\ UNCHANGED rsdp
       ELSE pc' = "root" /\ rsdp' = at[1]
  /\ UNCHANGED <<cores, files, commands, place, mem, root, rest, ids>>

ReadRoot ==
  /\ pc = "root"
  /\ root' = rsdt(mem, rsdp)
  /\ pc' = IF root' = <<>> THEN "failed" ELSE "madt"
  /\ UNCHANGED <<cores, files, commands, place, mem, rsdp, rest, ids>>

\* MADT::new panics on a table that ends before its structures begin.
FindMadt ==
  /\ pc = "madt"
  /\ \E madt \in {find_entry(mem, root[1].table, root[1].width, APIC)} :
       IF madt = <<>> \/ Len(madt[1].table) < INT_CTRL_STRUCTS
       THEN pc' = "failed" /\ UNCHANGED rest
       ELSE /\ rest' = SubSeq(madt[1].table, INT_CTRL_STRUCTS + 1, Len(madt[1].table))
            /\ pc' = "iterate"
  /\ UNCHANGED <<cores, files, commands, place, mem, rsdp, root, ids>>

\* One turn of the loop over structures(): what is no local APIC, errors too,
\* is passed over.
Iterate ==
  /\ pc = "iterate"
  /\ IF Len(rest) < 2 THEN pc' = "done" /\ UNCHANGED <<rest, ids>>
     ELSE LET n == next(rest)
          IN  /\ rest' = n.rest
              /\ ids' = IF n.item = "apic" THEN Append(ids, n.id) ELSE ids
              /\ UNCHANGED pc
  /\ UNCHANGED <<cores, files, commands, place, mem, rsdp, root>>

Next == Build \/ Load \/ FindRsdp \/ ReadRoot \/ FindMadt \/ Iterate

Spec == Init /\ [][Next]_vars /\ WF_vars(Next)

-----------------------------------------------------------------------------
TypeOK ==
  /\ pc \in {"build", "load", "find", "root", "madt", "iterate", "done", "failed"}
  /\ \A i \in DOMAIN mem : mem[i] \in 0 .. 255
  /\ \A f \in DOMAIN files \ {"rsdp"} : FromLe(Sub(files[f], LENGTH, 4)) = Len(files[f])
  /\ \A f, g \in DOMAIN place : f # g =>
       \/ place[f] + Len(files[f]) <= place[g]
       \/ place[g] + Len(files[g]) <= place[f]

\* The script allocates every file once, before any other command refers to it,
\* as the table loader demands of its users.
AllocatedFirst ==
  pc = "load" =>
    LET c == Head(commands)
    IN  IF c.cmd = "Allocate" THEN c.file \notin DOMAIN place
        ELSE Refers(c) \subseteq DOMAIN place

\* Tables that were built, and that the firmware has patched with pointers and
\* sums, are found, have the right sums, and give the cores of the machine; and
\* so do intact tables of a host, next to one with a wrong sum.
ReadsWhatWasBuilt ==
  /\ pc = "done" => ids = cores
  /\ pc = "failed" => files = <<>> /\ mem = Blank(MemorySize)

\* The reader comes to the end of every table whose structures have types that
\* the code knows and lengths that can be, also of those it cannot parse.
ReaderEnds == <>(pc \in {"done", "failed"} \/ (pc = "iterate" /\ Len(rest) >= 2 /\ Stays(rest)))

=============================================================================
