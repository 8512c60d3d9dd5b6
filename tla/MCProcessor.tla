----------------------------- MODULE MCProcessor -----------------------------
(***************************************************************************)
(* What the hypervisor does for the processors of its machines, for TLC:   *)
(* the emulation of instructions, VMX operation, the driver of the I/O     *)
(* APICs with the format of its registers, and guest memory.  They share   *)
(* no state, so a behaviour exercises one part and leaves the others as    *)
(* they were made.                                                         *)
(***************************************************************************)
EXTENDS Integers, Sequences

CONSTANTS
  InstrPrograms,     \* instructions
  Capabilities,      \* VMX operation
  Configs, Copies    \* guest memory

VARIABLES
  part,
  cpu, program, cell, sent,
  caps, pc, host, page, vmxon, current, vmcs, ready, sipi, entered,
  regsel, table, addr_lock, ioapics, call, serial, granted, key, irq, early,
  bits, written,
  configs, tables, frames, root, building, stage, at

instrVars == <<cpu, program, cell, sent>>
vmxVars == <<caps, pc, host, page, vmxon, current, vmcs, ready, sipi, entered>>
apicVars == <<regsel, table, addr_lock, ioapics, call, serial, granted, key, irq, early>>
redVars == <<bits, written>>
memVars == <<configs, tables, frames, root, building, stage, at>>

Instr == INSTANCE Instructions WITH Core <- {1, 3}, Programs <- InstrPrograms
Vmx == INSTANCE Vmx WITH NumCores <- 2, Vectors <- {0, 154}
Madt == << [version |-> 32, max_entry |-> 3, gsi_base |-> 0],
           [version |-> 17, max_entry |-> 3, gsi_base |-> 4],
           [version |-> 17, max_entry |-> 23, gsi_base |-> 8] >>
Apic == INSTANCE IoApic WITH NumVms <- 3, UartGsi <- 8, UartVector <- 36,
                             MAX_IOAPIC_COUNT <- 2
Red == INSTANCE IoRedTblRegister WITH Vectors <- {0, 36, 255},
                                      Destinations <- {0, 15, 16, 255}
Mem == INSTANCE GuestMemory WITH
         Entries <- 2, Bios <- <<3, 1>>, LowTop <- 4, HighTop <- 12, LapicPage <- 10,
         NumVms <- 2

ASSUME Instr!CoreAssumption
ASSUME Vmx!NumCoresAssumption
ASSUME Vmx!CapabilitiesAssumption
ASSUME Apic!IoApicAssumption
ASSUME Mem!GuestMemoryAssumption

\* The values of the constants, from modules in which these are not yet given.
InstrData == INSTANCE MCInstructions WITH Core <- {1, 3}, Programs <- {}
VmxData == INSTANCE MCVmx WITH NumCores <- 2, Vectors <- {}, Capabilities <- {}
MemData == INSTANCE MCGuestMemory WITH
             Entries <- 2, Bios <- <<3, 1>>, LowTop <- 4, HighTop <- 12, LapicPage <- 10,
             NumVms <- 2, Configs <- {}, Copies <- {}

MCInstrPrograms == InstrData!MCPrograms
MCCapabilities == VmxData!MCCapabilities
MCConfigs == MemData!MCConfigs
MCCopies == MemData!MCCopies

-----------------------------------------------------------------------------
\* The parts that a behaviour does not exercise.
InstrIdle == Instr!InitWith([c \in {1, 3} |-> <<>>])
VmxIdle == Vmx!InitWith(CHOOSE processors \in Capabilities : TRUE)
RedIdle == Red!InitWith([low |-> 0, between |-> FALSE, top |-> 0])
MemIdle == Mem!InitWith([v \in 1 .. 2 |-> [memory |-> 0, images |-> <<>>]])

Init ==
  \/ part = "instr" /\ Instr!Init /\ VmxIdle /\ Apic!Init /\ RedIdle /\ MemIdle
  \/ part = "vmx" /\ Vmx!Init /\ InstrIdle /\ Apic!Init /\ RedIdle /\ MemIdle
  \/ part = "apic" /\ Apic!Init /\ InstrIdle /\ VmxIdle /\ RedIdle /\ MemIdle
  \/ part = "red" /\ Red!Init /\ InstrIdle /\ VmxIdle /\ Apic!Init /\ MemIdle
  \/ part = "mem" /\ Mem!Init /\ InstrIdle /\ VmxIdle /\ Apic!Init /\ RedIdle

Next ==
  \/ part = "instr" /\ Instr!Next /\ UNCHANGED <<part, vmxVars, apicVars, redVars, memVars>>
  \/ part = "vmx" /\ Vmx!Next /\ UNCHANGED <<part, instrVars, apicVars, redVars, memVars>>
  \/ part = "apic" /\ Apic!Next /\ UNCHANGED <<part, instrVars, vmxVars, redVars, memVars>>
  \/ part = "red" /\ Red!Next /\ UNCHANGED <<part, instrVars, vmxVars, apicVars, memVars>>
  \/ part = "mem" /\ Mem!Next /\ UNCHANGED <<part, instrVars, vmxVars, apicVars, redVars>>

Spec ==
  /\ Init /\ [][Next]_<<part, instrVars, vmxVars, apicVars, redVars, memVars>>
  /\ \A c \in 0 .. 1 : WF_vmxVars(part = "vmx" /\ Vmx!Hypervisor(c))
  /\ \A c \in 0 .. 2 : WF_apicVars(part = "apic" /\ Apic!CoreStep(c))
  /\ WF_memVars(part = "mem" /\ Mem!Build)

-----------------------------------------------------------------------------
\* The variables of the part that runs are of their types.
TypeOK ==
  \/ part = "instr" /\ Instr!TypeOK
  \/ part = "vmx" /\ Vmx!TypeOK
  \/ part = "apic" /\ Apic!TypeOK
  \/ part = "red"
  \/ part = "mem" /\ Mem!TypeOK

\* Instructions: the guest goes on behind the instruction that was emulated, CR0
\* keeps the bit that VM entry requires, and loading CR3 ends the use of older
\* translations.
EmulatedRight ==
  part = "instr" =>
    /\ Instr!RipFollowsGuest
    /\ Instr!Cr0KeepsFixed
    /\ Instr!NoStaleTranslation

\* Instructions: the APIC id that a core reads is the id that starts it.
StartsTheReader == Instr!StartsTheReader

\* Instructions: an exit changes only the bytes of its destination.
RestKept == Instr!RestKept

\* Vmx: every VM entry satisfies what the processor checks; a guest runs with
\* every control that the hypervisor asks for; and cores share no VMXON region,
\* no VMCS, no stack and no VPID.
EntriesRight ==
  part = "vmx" =>
    /\ Vmx!EntriesSucceed
    /\ Vmx!RunsAsRequested
    /\ Vmx!CoresApart

\* Vmx: the boot processor's guest starts, and so does every core that is sent
\* a start-up IPI.
AllStart == part = "vmx" => Vmx!AllStart

\* IoApic: ioapic_for_gsi finds the entry of the UART, no two cores rewrite it at
\* a time, and it leads to the machine that has the console.
RoutedRight ==
  part = "apic" =>
    /\ Apic!FindsTheIoApic
    /\ Apic!OneWriter
    /\ Apic!RoutedToOwner

\* IoApic: a key is read, unless a core was routing the UART when it arrived.
KeysAreRead == Apic!KeysAreRead

\* IoRedTbl: what try_from accepts, into gives back bit for bit, and an entry can
\* be read while its interrupt is being delivered.
EntriesReadBack == part = "red" => Red!RoundTrip /\ Red!ReadsBack

\* GuestMemory: the page tables of all machines are a flat map in which no
\* frame is mapped twice.
FlatSpec == Mem!FlatSpec

\* GuestMemory: building the machines ends, and when they start everything is
\* loaded at its place.
LoadedRight == Mem!LoadedRight /\ (part = "mem" => Mem!BuildEnds)

\* GuestMemory: read_bytes and write_bytes work on the range byte for byte, over
\* any page ends and through the guest's own page tables.
CopiesAreBytewise == part = "mem" => Mem!ReadIsBytewise /\ Mem!WriteIsBytewise
=============================================================================
