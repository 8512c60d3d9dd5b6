----------------------------- MODULE MCPlatform -----------------------------
(***************************************************************************)
(* The emulated platform of a machine for TLC: the device map, the small   *)
(* devices, port I/O with the UART, the firmware configuration device, and *)
(* the ACPI tables.  They share no state, so a behaviour exercises one     *)
(* part and leaves the others as they were made.                           *)
(***************************************************************************)
EXTENDS Integers, Sequences

CONSTANTS
  Setups, Accesses,         \* the device map
  Guests,                   \* the small devices
  IoPrograms,               \* port I/O
  FwBuilds, FwPrograms,     \* the firmware configuration device
  Machines, Images, Madts   \* the ACPI tables

VARIABLES
  part,
  devices, map, next, stage, outcome,
  dev_mem, accesses, until, imr, vga, rtc, pci, time, port_in, dev_halted,
  pc, instr, todo, bytes, responses, rax, memory, uart, lock, console, switches,
  typed, got, wrote, program,
  files, data, dev, fw_lock, fw_halted, fw_program, slots, fw_memory, asked, failed,
  cores, acpi_files, commands, place, acpi_mem, acpi_pc, rsdp, root, rest, ids

mapVars == <<devices, map, next, stage, outcome>>
devVars == <<dev_mem, accesses, until, imr, vga, rtc, pci, time, port_in, dev_halted>>
ioVars == <<pc, instr, todo, bytes, responses, rax, memory, uart, lock, console,
            switches, typed, got, wrote, program>>
fwVars == <<files, data, dev, fw_lock, fw_halted, fw_program, slots, fw_memory, asked,
            failed>>
acpiVars == <<cores, acpi_files, commands, place, acpi_mem, acpi_pc, rsdp, root, rest, ids>>

Map == INSTANCE DeviceMap
Dev == INSTANCE Devices WITH
         PmTicks <- 3, PmUnit <- 7, PmWidth <- 8, mem <- dev_mem, halted <- dev_halted
Io == INSTANCE PortIo WITH
        NumCores <- 2, Memory <- <<10, 11, 12>>, MaxResponses <- 4, Programs <- IoPrograms
Fw == INSTANCE FwCfg WITH
        Core <- {1, 2}, FILE_FIRST <- 32, FILE_LAST <- 34, FW_CFG_MAX_FILE_NAME <- 2,
        MemorySize <- 4, Builds <- FwBuilds, Programs <- FwPrograms,
        lock <- fw_lock, halted <- fw_halted, program <- fw_program, memory <- fw_memory
Acpi == INSTANCE AcpiLoad WITH
          EbdaStart <- 0, EbdaSize <- 60, MainStart <- 64, MainSize <- 300,
          TableLimit <- 1024, CommandLimit <- 16, IcsLimit <- 8,
          files <- acpi_files, mem <- acpi_mem, pc <- acpi_pc

ASSUME Io!PortIoAssumption
ASSUME Fw!FwCfgAssumption

\* The values of the constants, from modules in which these are not yet given.
MapData == INSTANCE MCDeviceMap WITH Setups <- {}, Accesses <- {}
DevData == INSTANCE MCDevices WITH
             PmTicks <- 3, PmUnit <- 7, PmWidth <- 8, Guests <- {},
             mem <- dev_mem, halted <- dev_halted
IoData == INSTANCE MCPortIo WITH
            NumCores <- 2, Memory <- <<>>, MaxResponses <- 4, Programs <- {}
FwData == INSTANCE MCFwCfg WITH
            Core <- {1, 2}, FILE_FIRST <- 32, FILE_LAST <- 34, FW_CFG_MAX_FILE_NAME <- 2,
            MemorySize <- 4, Builds <- {}, Programs <- {}, halted <- fw_halted
AcpiData == INSTANCE MCAcpiLoad WITH
              EbdaStart <- 0, EbdaSize <- 60, MainStart <- 64, MainSize <- 300,
              TableLimit <- 1024, CommandLimit <- 16, IcsLimit <- 8,
              Machines <- {}, Images <- {}, Madts <- {}, mem <- acpi_mem

MCSetups == MapData!MCSetups
MCAccesses == MapData!MCAccesses
MCGuests == DevData!MCGuests
MCIoPrograms == IoData!MCPrograms
MCFwBuilds == FwData!MCBuilds
MCFwPrograms == FwData!MCPrograms
MCMachines == AcpiData!MCMachines
MCImages == AcpiData!MCImages
MCMadts == AcpiData!MCMadts

-----------------------------------------------------------------------------
\* The parts that a behaviour does not exercise.
MapIdle == Map!InitWith(<<>>)
DevIdle == Dev!InitWith([mem |-> 64, accesses |-> {}, until |-> 0])
IoIdle == Io!InitWith(CHOOSE p \in IoPrograms : TRUE)
FwIdle == Fw!InitWith(<<>>, [c \in {1, 2} |-> <<>>])
AcpiIdle == Acpi!InitBuild(<<0>>)

Init ==
  \/ part = "map" /\ Map!Init /\ DevIdle /\ IoIdle /\ FwIdle /\ AcpiIdle
  \/ part = "dev" /\ Dev!Init /\ MapIdle /\ IoIdle /\ FwIdle /\ AcpiIdle
  \/ part = "io" /\ Io!Init /\ MapIdle /\ DevIdle /\ FwIdle /\ AcpiIdle
  \/ part = "fw" /\ Fw!Init /\ MapIdle /\ DevIdle /\ IoIdle /\ AcpiIdle
  \/ part = "acpi" /\ Acpi!Init /\ MapIdle /\ DevIdle /\ IoIdle /\ FwIdle

Next ==
  \/ part = "map" /\ Map!Next /\ UNCHANGED <<part, devVars, ioVars, fwVars, acpiVars>>
  \/ part = "dev" /\ Dev!Next /\ UNCHANGED <<part, mapVars, ioVars, fwVars, acpiVars>>
  \/ part = "io" /\ Io!Next /\ UNCHANGED <<part, mapVars, devVars, fwVars, acpiVars>>
  \/ part = "fw" /\ Fw!Next /\ UNCHANGED <<part, mapVars, devVars, ioVars, acpiVars>>
  \/ part = "acpi" /\ Acpi!Next /\ UNCHANGED <<part, mapVars, devVars, ioVars, fwVars>>

Spec ==
  /\ Init /\ [][Next]_<<part, mapVars, devVars, ioVars, fwVars, acpiVars>>
  /\ \A c \in {1, 2} : WF_ioVars(part = "io" /\ Io!Handle(c))
  /\ \A c \in {1, 2} :
       WF_fwVars(part = "fw" /\ (Fw!Prepare(c) \/ Fw!Access(c) \/ Fw!Poll(c)))
  /\ WF_acpiVars(part = "acpi" /\ Acpi!Next)

-----------------------------------------------------------------------------
\* The variables of the part that runs are of their types.
TypeOK ==
  \/ part = "map" /\ Map!TypeOK
  \/ part = "dev" /\ Dev!TypeOK
  \/ part = "io" /\ Io!TypeOK
  \/ part = "fw" /\ Fw!TypeOK
  \/ part = "acpi" /\ Acpi!TypeOK

\* DeviceMap: register_device keeps the keys of a map disjoint and sorted; insert
\* gives up exactly when two regions overlap, which those of the devices of
\* build_vm do not; an event reaches the one device that asked for its address;
\* and no access to a port ends a core in dispatch_event.
DevicesFound ==
  part = "map" =>
    /\ Map!KeysSorted
    /\ Map!GivesUpOnOverlap
    /\ Map!PlatformFits
    /\ Map!FindsTheAsker
    /\ Map!PortsAreHarmless

\* Devices: the CMOS clock keeps its status whatever a guest has written, and
\* reports the memory of a machine with 16 MiB to less than 4 GiB until the guest
\* writes those registers itself; a word written to the VGA index port is an
\* index and a data byte, and a PCI register read in parts is the one read whole;
\* the ACPI timer advances with time, also over a wrap.
RegistersRight ==
  /\ [](part = "dev" => /\ Dev!ReadOnlyKept
                        /\ Dev!ReportsMemory
                        /\ Dev!VgaWordIsTwoBytes
                        /\ Dev!PciPartsAgree)
  /\ Dev!PmTimerAdvances

\* PortIo: the output of a core's guest comes out complete and in order; a key
\* reaches a guest at most once, in order, and every third Ctrl-a passes the
\* console on; IN loads the device's value into the low bytes of rax.
DataArrives ==
  part = "io" =>
    /\ Io!OutputInOrder
    /\ Io!KeysOnce
    /\ Io!EveryThirdCtrlA
    /\ Io!InLoadsValue

\* PortIo: every exit ends, unless it waits for the lock of its device, whose holder
\* has halted; and a core halts with a lock only for too many responses.
ExitsEnd == []Io!NoStuckLock /\ Io!ExitEnds

\* FwCfg: the directory agrees with the files that the builder was given; a
\* transfer that selects and reads is one step to the other cores, and reports
\* an error exactly when it could not be done; and only accesses past the end
\* lose the device to the other cores.
TransfersRight ==
  /\ [](part = "fw" => Fw!DirectoryMatches)
  /\ Fw!DmaIsAtomic
  /\ Fw!AnswersRequest
  /\ Fw!LostOnlyPastEnd

\* FwCfg: every core gets through its accesses and finds its transfers ended,
\* unless an access ends it or the device is lost.
CoresFinish == part = "fw" => Fw!CoresFinish

\* AcpiTables: the table loader's script allocates a file before using it, the
\* reader finds in the loaded tables what the builder put there, and it comes to
\* the end of every table whose structures have types that the code knows and
\* lengths that can be.
TablesRight ==
  /\ [](part = "acpi" => Acpi!AllocatedFirst /\ Acpi!ReadsWhatWasBuilt)
  /\ (part = "acpi" => Acpi!ReaderEnds)
=============================================================================
