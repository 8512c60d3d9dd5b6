# A verification of mythril in TLA+

mythril is a type-1 hypervisor: it boots on bare metal, statically assigns
every physical core to one virtual machine, and runs one VCPU per core. This
directory holds TLA+ models of the parts of it that are concurrent or keep
state over time, TLC configurations that check them on small instances, and
TLAPS proofs for every instance. `PROJECT.json` maps each definition to the
lines it models, relative to the root of the repository.

## The system

| Component | State | Operations | Hard behaviour | What makes it correct |
|---|---|---|---|---|
| VCPU (`vcpu.rs`, `vmexit.rs`) | pending interrupts, interrupt window, VMCS | exit handlers, injection, `wait_for_init` | interrupts arrive at any time, one exit is many steps | no interrupt forgotten, the window exactly when needed |
| VM set (`vm.rs`) | a message queue per core, ready counter, serial slot per VM | `send_msg_core`, `recv_msg`, `recv_all_msgs`, `notify_ready` | push and IPI are separate, IPIs coalesce, queues fill | no lost wake-up, the barrier holds |
| Emulated local APIC (`virtdev/lapic.rs`) | ICR destination, logical destinations | IPIs to one or all other cores, SIPI | destinations evaluated while they change | IPIs reach their queues |
| Console (`vcpu.rs`, `virtdev/com.rs`) | who owns the UART, where its interrupt goes, ctrl-a count | key press, `NextConsole`, `GrantConsole` | hand-over over three steps and two cores | one owner, nothing lost, interrupt follows |
| Core start-up (`kmain.rs`, `ap_startup.S`, `percore.rs`) | one mailbox for all cores | the loop of `kmain`, `ap_startup_64`, `ap_entry` | store buffer, reuse of the mailbox | own stack, own id, boot ends |
| Timers (`time.rs`, `apic.rs`) | a wheel per core, local APIC timer | register, cancel, expire, schedule | cancellation from another core, rounding | timers neither lost nor left behind, no drift |
| PIT (`virtdev/pit.rs`) | two channels | mode control, counters | sequences of port writes, shared by the VM's cores | its timer is the one that runs |
| Address spaces (`memory.rs`, `vm.rs`) | EPT, frames | map, look up, load, copy | failure half-way, page boundaries | behaves like a flat map, copies are bytewise |
| Device map (`virtdev/mod.rs`) | regions to devices | register, find, dispatch | overlapping regions compare as equal | exactly the device that asked is found |
| Port I/O (`emulate/portio.rs`) and the UART | registers, responses of an exit | IN, OUT and their string forms, keys | two cores at one device, full arrays, locks left behind | output in order, keys at most once |
| fw_cfg (`virtdev/qemu_fw_cfg.rs`) | selector, index, DMA address | ports, DMA | cores share the selector | transfers are atomic |
| PCI, RTC, VGA, PIC, ACPI timer, keyboard, debug port | registers | port reads and writes | register sequences, widths, wraps | reads agree with what was written |
| Instructions (`vmexit.rs`, `emulate/`) | guest registers, VMCS | CPUID, MSRs, control registers, memory accesses | partial registers, stale shadows | as on a processor |
| VMX (`vmx.rs`, `vmcs.rs`, `vcpu.rs`) | VMXON and VMCS pages, fields | enable, activate, launch, resume | processors lack controls | every entry succeeds |
| I/O APIC (`ioapic.rs`) | select register, redirection entries | initialise, look up, read, write | two halves under two locks | the UART interrupts the console's owner |
| ACPI (`acpi/`) | tables | build, load, find, iterate | checksums over patched bytes | what is built can be read |
| Linux loading, multiboot, logger, IDT, allocator | none after boot | parse, copy | none of interest here | |

Cores share the queues, the serial slots, the devices of a VM, the logical
destinations and the I/O APIC. A VCPU and a timer wheel belong to one core.
Hypervisor code runs with interrupts disabled. An error in an exit handler
panics that core only; the others go on.

## Modules

| Module | Models |
|---|---|
| `Machines` | the VMs, their cores and their messages |
| `Vcpu` | the running hypervisor: exits, interrupts, messages, console |
| `Console`, `VcpuConsole` | the abstract console, and how `Vcpu` implements it |
| `Boot` | the start of the other cores |
| `PitTimers` | the PIT, timer wheels, the local APIC timers |
| `FlatMemory`, `GuestMemory` | the abstract address spaces; page tables, loading, copies |
| `Regions`, `DeviceMap` | regions and the ordered map of them; registration and dispatch |
| `PortRequests` | sizes and conversions of port requests, used by every device |
| `Uart`, `PortIo` | the UART's registers; the exits of I/O instructions and their responses |
| `Devices` | RTC, VGA, PCI, PIC, ACPI timer, keyboard, debug port |
| `FwCfg` | the firmware configuration device and its builder |
| `Instructions` | exits that emulate one instruction |
| `Vmx` | from enabling VMX to the entries into the guest |
| `IoRedTbl`, `IoRedTblRegister`, `IoApic` | redirection entries; a register under reads, writes and deliveries; the driver |
| `AcpiTables`, `AcpiLoad` | the tables as bytes; their way from the builder to the reader |
| `MC...` | instances for TLC |
| `VcpuProofs`, `BootProofs`, `PitTimersProofs`, `IoApicProofs`, `VmxProofs` | theorems about the module they are named after |
| `ConsoleProofs`, `ConsoleRouteProofs`, `ConsoleRefinementProofs` | theorems about the console in `Vcpu`: where the UART is, where its interrupt goes, and that `Vcpu` implements `Console` |

**Vcpu.** `pc[c]` is where core `c` is: in `mp_entry_point` (`entry`,
`barrier`, `waiting`), in its guest, in an exit handler, or stopped by a
panic. A handler is not atomic: `todo[c]` holds the steps it has left, each of
which touches shared state once, so that steps of other cores come in between
exactly where the code allows it. `send_msg_core` is two steps (the push under
the queue's lock, the IPI). Interrupts that arrive meanwhile stay in `irr[c]`.
A handler ends with `FinishVmExit`: the expired timers, then the injection.
The outside world is `KeyPress`, `ApicTimer` and the guest's own steps. A SIPI
may name any core of any VM; one that names no core makes `send_msg_core` fail,
which panics the sender.

**Boot.** The boot processor's stores go through `buffer`, as on x86; `Drain`
moves the oldest one to `memory` at any time, and only `Fence` waits for it.

**PitTimers.** `Tick` lets time pass at any moment, also inside an exit. An
exit is two steps: its effect, and `Finish`, which is the check for expired
timers that ends every exit. `Vcpu` sees the timers only as vectors that
`FinishVmExit` may add and as `CancelTimer` messages; `PitTimers` has the rest.

**GuestMemory.** A page has two cells, a page table two entries, and a cell
stands for a byte and for a guest page table entry. One step maps one page, so
that a page that is mapped already stops the building half-way. `FlatSpec`
maps the four levels of tables to one function from pages to frames.

**DeviceMap.** `Regions` keeps a `BTreeMap` as a sorted sequence and inserts
and searches with the code's `cmp`, under which overlapping ranges are equal.

**PortIo.** One step dispatches one chunk of an instruction under the device's
lock, so that the chunks of two cores interleave. A panic inside of `on_event`
keeps the lock; an error returned from it does not.

**FwCfg.** An access is one step under the device's lock. The guest prepares a
request, starts it with two port writes and polls it, and other cores use the
ports in between. `asked`, for the properties only, is the place in the data as
a guest counts it; a skip advances it, whereas the code's skip sets the index.

**Instructions.** Registers are sequences of bytes, because the code assembles
them from byte slices in both orders. `ran` is where a processor would be, and
`stale` whether a translation older than the guest's last change may be used;
both are there for the properties only.

**Vmx.** A VMCS maps fields to values that may be missing. `EntryOk` has those
of the processor's checks that depend on what the hypervisor writes.

**IoApic.** An access to a register is two steps (select, then data), each
under the code's lock. Hand-overs go on meanwhile, as in `Vcpu`. A core to which
the console has been sent handles that message before the UART's interrupt,
because the IPC vector has the higher priority. `early` records, when a key
arrives, whether a core was routing the UART just then: `KeysAreRead` promises
nothing for such a key (see below), and that every other key is read.

**AcpiLoad.** The builder's tables and script go to a firmware (external) that
places the files, patches pointers and adds checksums; the hypervisor's own
reader then searches the memory. It also reads images of hosts, in which a
table with a wrong sum lies next to the intact ones, and where the boot loader
may have handed over the RSDP. Tables too short for what is read of them panic.

## Runs

| Run | Instance | Shows |
|---|---|---|
| `vcpu_ipi` | one VM, two cores, queues of 2, 4 stimuli | `TypeOK`, `NoLostWakeup`, `WindowIffPending`, `BarrierHolds` |
| `vcpu_console` | two VMs, three cores, queues of 1, 6 key presses | `ConsoleConserved`, `RouteFollowsConsole`, refinement of `Console` |
| `vcpu_live` | one VM, two cores | `PendingInjected`, `NotifiedDrained`, `SipiStarts` |
| `vcpu_arrives` | two VMs | `ConsoleArrives` |
| `boot` | six cores, one of them unused | `StacksAreDistinct`, `IdsAreOwn`, `BootCompletes` |
| `pit_any` | two cores, high byte, word and latch access, any order of writes, queue of 1 | `CurrentTimerKept`, `NoDrift` |
| `pit_book` | two cores, both channels, low byte access, one counter write per mode word, with fairness | `NoStrayTimer`, `CancelTakesEffect` |
| `platform` | see below | `DevicesFound`, `RegistersRight`, `DataArrives`, `ExitsEnd`, `TransfersRight`, `CoresFinish`, `TablesRight` |
| `processor` | see below | `EmulatedRight`, `StartsTheReader`, `RestKept`, `EntriesRight`, `AllStart`, `RoutedRight`, `KeysAreRead`, `EntriesReadBack`, `FlatSpec`, `LoadedRight`, `CopiesAreBytewise` |
| `pit_stray`, `pit_armed`, `pit_latch` | | the disagreements below |

`MCPlatform` and `MCProcessor` put together components that share no state:
the variable `part` says which of them a behaviour exercises, and the others
keep the state they were made in. The properties of these runs are conjunctions
of the properties that the components' modules state and comment.

| Part | Instance |
|---|---|
| `DeviceMap` | all triples of ranges of four ports, for three devices and for one; pairs of ports and addresses; the devices of `build_vm` with their real ports |
| `Devices` | guests that access one device in every order and size, up to the end of the reachable states; every memory size from 0 to 4200 MiB; an ACPI timer of three bits that wraps several times |
| `PortIo` | two cores with pairs of instruction sequences, one to four keys, arrays of four responses |
| `FwCfg` | every combination of DMA flags by one core, and two cores that mix ports and DMA; three file selectors |
| `AcpiLoad` | machines of one to eight cores (the builder has room for seven), six host images, each with and without an RSDP from the boot loader, MADTs with structures of all known types and wrong lengths |
| `Instructions` | all sequences of one setting and two of 42 exits on one core, and two cores that start each other |
| `Vmx` | two cores, processors with everything, without VMX and without one of three controls |
| `IoApic` | three machines, three I/O APICs of which one is of another version |
| `IoRedTblRegister` | all values of the nine bits above the vector, three vectors, four destinations |
| `GuestMemory` | two machines, 36 configurations, five kinds of copies |

Bounds. `MaxStimuli` bounds what comes from outside. A console switch takes
three ctrl-a, so six key presses allow a hand-over and one back while the first
is still under way;
queues of one or two messages make overflow, and with it a panic, reachable
in a few steps. Two cores per VM suffice for every pair of sender and
receiver; the proofs cover the other numbers. Time and the number of timers
are bounded in `PitTimers` so that a timer can expire late, be cancelled from
the other core and be replaced. `Radix` (256 in the code) is 2 there, to make
both bytes of a counter matter within the bound on time. In the parts above,
capacities (responses, selectors, commands, structures) are reduced so far that
they overflow, and pages so far that a copy crosses two page ends. Deadlock
checking is off where cores may stop for good (a panic, the end of the boot,
the end of a program or of time).

Fairness. Each core is a processor of its own, so its hypervisor steps are
weakly fair, in every module. A pending event forces an exit before the guest's
next instruction; `PitTimers` does not have that priority and uses strong
fairness for the same effect. `Vcpu` also assumes that a guest that is resumed
again and again enables interrupts some day, without which no hypervisor can
inject one. In `Boot` stores do not stay in the buffer for ever. Spinning on a
device's lock is fair only as far as the lock is released: `ExitsEnd` and
`CoresFinish` name the case that it is not, because a core has halted with the
lock of the device that is asked for. Guests are under no fairness,
except that a program in `FwCfg` goes on.

### Where the code disagrees with what it says

* `pit_stray`: a second counter write forgets the running timer, which no mode
  control word stops any more, although that code says "Stop any running
  timers".
* `pit_armed`: the APIC count is rounded down, the interrupt comes early, the
  timer has not elapsed, the rest rounds to zero, and zero stops the local
  APIC timer; the core is not woken at the requested time.
* `pit_latch`: the `unreachable!()` of a counter write is reachable after a
  latch command.

The models also follow the code in these points, where no run shows them:

* A core that is started by `StartVcpu` begins at address 0: `wait_for_init`
  writes the segment to `GuestCsSelector` and 0 to `GuestCsBase` and `GuestRip`
  (`vcpu.rs:196`), although its log line says "Setting start address to".
* `ioapic_for_gsi` does not find the last pin of an I/O APIC: the range ends
  before `max_redirection_entry`, which is an index (`ioapic.rs:294`).
* A CMOS address without a meaning shares one cell, which a guest can write,
  although "OVMF expects to ... just get zeros" (`virtdev/rtc.rs:138`).
* `current_address & 0xff >> 2` is `& 0x3f` (`virtdev/pci.rs:214`): register
  `n` of a PCI device is found at address `n` and not at `n << 2`.
* The MADT of a guest has room for eight structures, one of which is the I/O
  APIC (`kmain.rs:63`): seven cores fit, and `MAX_PER_VM_CORE_COUNT` is 32.
* `RSDP::find` prefers the main BIOS area to the EBDA (`acpi/rsdp.rs:139`), and
  its comments say the opposite.
* IN clears the low bytes of rax with `(!rax) << (size * 8)`, which also mixes
  the bytes above (`emulate/portio.rs:117`), and a string IN counts bytes where
  it should count elements (`emulate/portio.rs:65`).
* The low byte of the UART's divisor is combined with `&=` (`virtdev/com.rs:123`).
* The low byte of a word counter of the PIT is not forgotten, so that a second
  value is taken as two high bytes (`virtdev/pit.rs:194`).
* A guest IPI to several cores stops at the first full queue
  (`virtdev/lapic.rs:172`).
* A key that arrives while the redirection entry is being written interrupts
  the core that has just given the console away. `handle_uart_keypress` finds
  no serial device there and reads nothing (`vcpu.rs:597`), the entry is
  edge-triggered and the UART keeps its byte, so no key interrupts any more.
  `KeysAreRead` leaves exactly these keys out.
* SKIP sets the index of the selected data instead of advancing it
  (`virtdev/qemu_fw_cfg.rs:264`), so a skip after a read goes back.
* The memory size in the CMOS wraps below 16 MiB and from 4 GiB on
  (`virtdev/rtc.rs:92`). `RegistersRight` covers the sizes in between.
* The iterator over the MADT stays at a structure of unknown type or impossible
  length (`acpi/madt.rs:393`), and `kmain`, which passes over errors, never
  ends. `TablesRight` names the case.
* An image whose address is not page-aligned is placed at the start of its page
  (`vm.rs:656`). `LoadedRight` takes the page for its place.
* A 32-bit load does not clear the upper half of its register, as a processor
  in 64-bit mode would (`emulate/memio.rs:385`). `RestKept` says that the bytes
  which are not loaded stay.
* A string OUT takes its elements from memory in little-endian order, where a
  single OUT is converted to big endian (`emulate/portio.rs:38`). Runs use
  string OUTs of single bytes.

## Proofs

All hold for every value of the constants, from named assumptions on them.

| Assumption | Says |
|---|---|
| `MachinesAssumption`, `StimuliAssumption`, `InitialRouteAssumption` | cores are assigned to at most one VM and listed once, and the first core of VM 0 is the one the UART interrupt goes to at boot; the code relies on these without checking them |
| `BootAssumption`, `PitAssumption` | the constants are numbers and sets of the right kind |
| `IoApicAssumption` | the UART's pin belongs to exactly one I/O APIC, none has more than 24 entries, and the vector fits a byte |
| `NumCoresAssumption`, `CapabilitiesAssumption` | there is a core; on every processor a control that must be set may be set, and exiting at an interrupt window is optional |

The last three are hypotheses of the theorems, and `MCProcessor` lets TLC
evaluate them on its instance.

**The running hypervisor** (`VcpuProofs`).

* `TypeCorrect`: `TypeOK` is inductive.
* `WakeupNeverLost`: `NoLostWakeup` is inductive together with `TypeOK`. The
  case that matters is the push: it puts `send_ipi` at the head of the
  sender's work, which covers the message until the interrupt is pending; the
  exit that clears the interrupt puts `recv_all_msgs` in its place, and that
  step empties the queue.
* `WindowFollowsPending`: during an exit interrupts are collected before the
  window is set, so the invariant is split: a requested window always has a
  pending interrupt, and outside of exits the converse holds too.
* `BarrierIsSafe`: the counter is the number of cores past `notify_ready`, and
  once any core of a VM is past the barrier all of them are in that set. Both
  parts are needed: the first says that a full counter means a full set.

**The console.** A hand-over is a sequence of steps of one handler, then of
another core's. What a handler may have left to do is one of six shapes
(`ShapeInv`), which is what makes the rest inductive: only a handler in the
shape `Switching` can take the UART out of its slot, and only one in the shape
`Moving` sends it and rewrites the redirection entry.

* `ConsoleNeverDuplicated`: slots, queues and handlers hold the UART at most
  once between them (`UniqueInv`), and hold it unless a core has panicked
  (`SomewhereInv`). A `GrantConsole` only ever is in the queue of a boot
  processor, and no boot processor waits in `wait_for_init` (`PlaceInv`): a
  waiting core would drop it. The lemma `GrantSteps` sorts the steps of `Vcpu`
  by what they do to the UART, and the invariants are shown class by class.
* `InterruptFollowsConsole`: there is at most one UART interrupt that has not
  been handled, and none without a byte to read (`KeyInv`). So while one core
  hands the console over, every UART interrupt still comes to that core and no
  second hand-over can begin (`HandOverInv`), and the entry that is about to be
  written is the one of the VM that is being given the console (`TargetInv`).
* `HandOverImplementsConsole`: `Vcpu` implements `Console` under the mapping
  of `VcpuConsole`. `NextConsole` is `Release`, handling the message is
  `Accept`, a push to a full queue is `Lose`; every other step stutters. That
  the mapping is a function of the state rests on `UniqueInv`.

**The start of the cores** (`BootProofs`).

* `StacksNeverShared`, `IdsNeverMixed`, `BootTypeCorrect`: one inductive
  invariant says what the mailbox and the store buffer hold at each point of
  the loop (`MailboxOK`), that cores before the loop's index are past the
  mailbox (`Earlier`), and how far the current core is (`Progressed`). It is
  needed because a core reads what the boot processor wrote many steps before.

**The PIT and the timers** (`PitTimersProofs`).

* `PitTypeCorrect`: `TypeOK` is inductive.
* `CurrentTimerNeverCancelled`, `PeriodsNeverDrift`: a cancellation names a
  timer by its id and may arrive after the timer has been replaced. The
  invariant says that all ids in wheels and messages are below the core's
  counter and unique in a wheel (`IdsFresh`), that no message names the timer
  the channel refers to, and that this timer is in its wheel with the
  duration, the mode and, up to whole periods, the start that the channel was
  programmed with (`CurrentOK`). A one-shot timer may be gone, but only after
  its time.

**The I/O APIC** (`IoApicProofs`).

* `OneCoreWrites`, `EntryIsOwners`, `IoApicTypeCorrect`: a redirection entry is
  written in two halves, each under a lock that is released in between. No
  lock keeps a second writer out; the UART does. While a core uses the I/O
  APICs the entry still leads to that core (`WriterInv`), since the half with
  the destination is the last to be written, and so any further interrupt
  waits for that core. The rest says how far the call is (`ProgressInv`), who
  holds a lock (`LockInv`) and what the entry is when nobody writes (`EntryInv`).
* `EntryRoundTrip`, `EntryReadsBack`: the conversions between entries and the
  64 bits of a register are inverse to each other, for every register and every
  valid entry, from the decomposition of a number into its fields.

**VMX** (`VmxProofs`).

* `NoEntryFails`, `GuestRunsAsRequested`: after `VCpu::new` the VMCS has every
  field that an entry depends on, and the control fields have all that was
  asked for and what the processor demands (`FieldInv`); lemmas follow the
  writes of `initialize_host_vmcs`, `initialize_guest_vmcs` and
  `initialize_ctrl_vmcs`, one of which may fail and end the core. An event is in
  the VMCS at a resume only when the guest can take it (`EventInv`), and
  setting or clearing the interrupt window leaves the controls valid.
* `CoresStayApart`: every region is a page that was new when it was taken
  (`PageInv`); stack and VPID follow from `FieldInv`.
* `VmxTypeCorrect`: the ready counter is the number of cores at or behind the
  barrier, for which it is needed that no entry fails.

**Only model-checked**, and why:

* All liveness properties: fairness and ENABLED are out of the prover's reach.
* `NoStrayTimer` does not hold in general: it is broken by a second counter
  write, as `pit_stray` shows, and by a cancellation that does not fit into its
  queue. `pit_book` checks it for guests that write one counter per mode word.
* `FindsTheIoApic` does not hold in general either: not for the last pin of an
  I/O APIC, and not when the array of I/O APICs is full or when the destination
  has more than four bits.
* `EmulatedRight`, `StartsTheReader` and the properties of the run `platform`:
  bytes, registers, tables and maps are computed there by folds over sequences,
  recursive functions or bitwise operators, and what these compute for every
  input needs induction over data.
* `FlatSpec`, `LoadedRight` and `CopiesAreBytewise`: tables are walked and
  ranges copied by folds over levels and pages.

## Not modelled

* Guest kernel loading (`linux.rs`), multiboot and the configuration: parsing
  and copying by one core before any guest runs. Kernels become files of
  `FwCfg`. The images that `GuestMemory` loads exercise an interface only:
  nothing in the repository calls `VirtualMachineConfig::map_image`
  (`vm.rs:397`).
* The updates of rsi, rdi and rcx by string instructions
  (`emulate/portio.rs:48`, `:82`). `RestKept` is about loads from memory-mapped
  devices and not about IN, which garbles the bytes above (see above).
* The UART of a machine without the console, whose output is dropped
  (`vcpu.rs:734`): `PortIo` takes its machine to have it.
* Small pages of guests: the walk takes the third level for large pages
  (`memory.rs:324`, with a FIXME), and so does the reference that it is
  compared with.
* What a failing control write leaves in the other fields: `Vmx` discards the
  writes of a step that fails (`vmcs.rs:298`), because the core panics.
* The time that passes within the end of one exit: `Finish` of `PitTimers` reads
  the time once and programs the local APIC timer once.
* The instruction decoder, an external crate: decoded operands are inputs of
  `Instructions`.
* The FADT and the HPET table: records of fields that are read once.
* The encodings of VMCS fields, logging, the host IDT, the allocator and the
  calibration of the time source: tables, wrappers of single instructions, or
  code without state that another part depends on.
* `Pit8254::on_port_read`, which changes no state.
* An interrupt that reaches a core between its acknowledgement and
  `LocalApic::init` (`kmain.rs:142`): `Vcpu` starts once the local APICs are on.
* The order of output on the shared serial line when the console moves in the
  middle of it (`vcpu.rs:734`).
