---------------------------- MODULE GuestMemory -----------------------------
(***************************************************************************)
(* The guest address spaces: the extended page tables that memory.rs       *)
(* builds and walks, the loading of a virtual machine's memory by vm.rs,   *)
(* and the copies between the hypervisor and guest memory.                 *)
(*                                                                         *)
(* A page has Entries cells, and so has a page table: one cell stands both *)
(* for a byte and for a table entry.  An address counts cells, so that     *)
(* its digits in base Entries are the four table indices and the offset.   *)
(* A guest page table entry is a cell that holds the number of a page.     *)
(***************************************************************************)
EXTENDS Integers, Sequences, SequencesExt

CONSTANTS
  Entries,     \* PAGE_SIZE_ENTRIES, and the size of a page
  Bios,        \* BIOS_BLOB, a sequence of cells
  LowTop,      \* the page at 1 MiB
  HighTop,     \* the page at 4 GiB
  LapicPage,   \* GUEST_LOCAL_APIC_ADDR, as a page
  NumVms,      \* the machines that mythril.cfg describes
  Configs,     \* what it may say: sequences of NumVms configurations
  Copies       \* the copies into guest memory that emulated accesses make

GuestMemoryAssumption ==
  /\ Entries \in Nat \ {0, 1}
  /\ Len(Bios) % Entries = 0
  /\ HighTop < Entries ^ 4
  /\ LapicPage \in 0 .. HighTop - 1
  /\ \A c \in Configs : Len(c) = NumVms

Vms == 1 .. NumVms
Pages == 0 .. Entries ^ 4 - 1
Index(addr, level) == (addr \div Entries ^ level) % Entries
PageOf(addr) == addr \div Entries
Offset(addr) == addr % Entries

VARIABLES
  configs,  \* the configurations of the machines, in the order they are built
  tables,   \* every page table of every machine, in the order of allocation
  frames,   \* every data page likewise; a page is named by its number
  root,     \* GuestAddressSpace.root of each machine, 0 before it exists
  building, \* the machine being built
  stage,    \* "new", "load", "memory", "insert", then "running" or "panic"
  at        \* the place in the loop of that stage

vars == <<configs, tables, frames, root, building, stage, at>>

-----------------------------------------------------------------------------
(* The page tables.                                                        *)

\* An entry of 0 is unused; the other bits are the address and the flags.
Unused == [addr |-> 0, write |-> FALSE]
EmptyTable == [i \in 0 .. Entries - 1 |-> Unused]
EmptyPage == [i \in 0 .. Entries - 1 |-> 0]

\* One level down from table d.t, with a new table where there is none.
Descend(d, level, addr) ==
  LET i == Index(addr, level)
      e == d.tables[d.t][i]
      new == Len(d.tables) + 1
  IN  IF e # Unused THEN [d EXCEPT !.t = e.addr]
      ELSE [t |-> new,
            tables |-> Append([d.tables EXCEPT ![d.t][i] = [addr |-> new, write |-> TRUE]],
                              EmptyTable)]

\* Mutant: a table is allocated on every way down.
map_guest_memory_NewTables(addr, vm, frame, readonly) ==
  LET n == Len(tables)
      Link(t, l, to) == [t EXCEPT ![Index(addr, l)] = [addr |-> to, write |-> TRUE]]
      pt == Link(EmptyTable, 1, frame)
  IN  [dup |-> FALSE,
       tables |-> [tables EXCEPT ![root[vm]] = Link(@, 4, n + 1)]
                  \o <<Link(EmptyTable, 3, n + 2), Link(EmptyTable, 2, n + 3), pt>>]

\* The tables after mapping a frame, and whether the page was mapped already.
map_guest_memory(addr, vm, frame, readonly) ==
  LET Down(d, level) == Descend(d, level, addr)
      d == FoldLeft(Down, [t |-> root[vm], tables |-> tables], <<4, 3, 2>>)
      dup == d.tables[d.t][Index(addr, 1)] # Unused
      pte == [addr |-> frame, write |-> ~readonly]
  IN  [dup |-> dup,
       tables |-> IF dup THEN d.tables
                  ELSE [d.tables EXCEPT ![d.t][Index(addr, 1)] = pte]]

\* The frame of a guest physical address, 0 if some level has no entry.
find_host_frame(vm, addr) ==
  LET Down(t, level) == IF t = 0 THEN 0 ELSE tables[t][Index(addr, level)].addr
  IN  FoldLeft(Down, root[vm], <<4, 3, 2, 1>>)

(***************************************************************************)
(* The guest's own tables, read through the host.  The third level is      *)
(* taken for a large page, and the present bits are not looked at.  The    *)
(* result is <<>> where a table lies outside of the guest's memory.        *)
(***************************************************************************)
translate_pl4_address(vm, mem, cr3, addr) ==
  LET Down(page, level) ==
        IF page = <<>> THEN <<>>
        ELSE LET f == find_host_frame(vm, page[1] * Entries)
             IN  IF f = 0 THEN <<>> ELSE <<mem[f][Index(addr, level)]>>
      pdte == FoldLeft(Down, <<cr3>>, <<4, 3, 2>>)
  IN  IF pdte = <<>> THEN <<>>
      ELSE <<pdte[1] * Entries + (addr % Entries ^ 2)>>

\* GuestVirtAddr::new chooses by CR0.PG.
translate_linear_address(vm, mem, mode, addr) ==
  IF mode.paging THEN translate_pl4_address(vm, mem, mode.cr3, addr) ELSE <<addr>>

\* FrameIter::next: the frame at an address, 0 for an error.
FrameAt(vm, mem, mode, addr) ==
  LET phys == translate_linear_address(vm, mem, mode, addr)
  IN  IF phys = <<>> THEN 0 ELSE find_host_frame(vm, phys[1])

(***************************************************************************)
(* read_bytes and write_bytes go from frame to frame.  A step of the loop  *)
(* has the frame's number in the range, the start offset in the frame and  *)
(* the cells that are left; the loop ends when a frame takes all of them.  *)
(***************************************************************************)
FrameCount(addr, length) ==
  IF Offset(addr) + length <= Entries THEN 1
  ELSE 1 + (Offset(addr) + length - 1) \div Entries

StartOffset(addr, n) == IF n = 0 THEN Offset(addr) ELSE 0

CellsIn(addr, length, n) ==
  IF n = 0 THEN IF Offset(addr) + length <= Entries THEN length ELSE Entries - Offset(addr)
  ELSE LET left == length - (Entries - Offset(addr)) - (n - 1) * Entries
       IN  IF left <= Entries THEN left ELSE Entries

\* Mutant: the start offset is used in every frame.
read_bytes_KeepOffset(vm, mem, mode, addr, length) ==
  LET Frame(r, n) ==
        LET f == FrameAt(vm, mem, mode, addr + n * Entries)
            k == IF CellsIn(addr, length, n) <= Entries - Offset(addr)
                 THEN CellsIn(addr, length, n) ELSE Entries - Offset(addr)
        IN  IF ~r.ok \/ f = 0 THEN [ok |-> FALSE, out |-> <<>>]
            ELSE [ok |-> TRUE, out |-> r.out \o [i \in 1 .. k |-> mem[f][Offset(addr) + i - 1]]]
  IN  FoldLeft(Frame, [ok |-> TRUE, out |-> <<>>],
               [n \in 1 .. FrameCount(addr, length) |-> n - 1])

read_bytes(vm, mem, mode, addr, length) ==
  LET Frame(r, n) ==
        LET f == FrameAt(vm, mem, mode, addr + n * Entries)
            s == StartOffset(addr, n)
        IN  IF ~r.ok \/ f = 0 THEN [ok |-> FALSE, out |-> <<>>]
            ELSE [ok |-> TRUE,
                  out |-> r.out \o [i \in 1 .. CellsIn(addr, length, n) |-> mem[f][s + i - 1]]]
  IN  FoldLeft(Frame, [ok |-> TRUE, out |-> <<>>],
               [n \in 1 .. FrameCount(addr, length) |-> n - 1])

\* Each frame is translated after the one before it has been written.
write_bytes(vm, mode, addr, bytes) ==
  LET Frame(r, n) ==
        LET f == FrameAt(vm, r.mem, mode, addr + n * Entries)
            s == StartOffset(addr, n)
            k == CellsIn(addr, Len(bytes), n)
        IN  IF ~r.ok \/ f = 0 THEN [r EXCEPT !.ok = FALSE]
            ELSE [done |-> r.done + k, ok |-> TRUE,
                  mem |-> [r.mem EXCEPT ![f] = [i \in 0 .. Entries - 1 |->
                             IF i \in s .. s + k - 1 THEN bytes[r.done + i - s + 1] ELSE @[i]]]]
  IN  FoldLeft(Frame, [ok |-> TRUE, mem |-> frames, done |-> 0],
               [n \in 1 .. FrameCount(addr, Len(bytes)) |-> n - 1])

-----------------------------------------------------------------------------
(* Building the machines: build_vm and VirtualMachineSet::insert, one      *)
(* machine after the other on the boot processor.                          *)

InitWith(c) ==
  /\ configs = c
  /\ tables = <<>>
  /\ frames = <<>>
  /\ root = [v \in Vms |-> 0]
  /\ building = 1
  /\ stage = "new"
  /\ at = [job |-> 1, i |-> 0]

Init == \E c \in Configs : InitWith(c)

Config == configs[building]

\* map_bios, twice, and then map_image for every image.  VirtualMachineConfig takes
\* images, but nothing in the repository adds one: kernels go through fw_cfg.
Jobs(config) ==
  <<[data |-> Bios, addr |-> LowTop * Entries - Len(Bios), found |-> TRUE],
    [data |-> Bios, addr |-> HighTop * Entries - Len(Bios), found |-> TRUE]>>
  \o config.images

Job == Jobs(Config)[at.job]

\* GuestAddressSpace::new
NewSpace ==
  /\ stage = "new"
  /\ tables' = Append(tables, EmptyTable)
  /\ root' = [root EXCEPT ![building] = Len(tables) + 1]
  /\ stage' = "load"
  /\ at' = [job |-> 1, i |-> 0]
  /\ UNCHANGED <<configs, frames, building>>

\* image.chunks(4096): the i-th chunk, in a fresh page of zeros.
Chunk(data, i) ==
  [c \in 0 .. Entries - 1 |->
     IF i * Entries + c < Len(data) THEN data[i * Entries + c + 1] ELSE 0]

\* Mutant: every chunk is taken from the start of the image.
map_data_FirstChunk ==
  /\ stage = "load"
  /\ at.job <= Len(Jobs(Config))
  /\ Job.found /\ at.i * Entries < Len(Job.data)
  /\ frames' = Append(frames, Chunk(Job.data, 0))
  /\ LET r == map_guest_memory(Job.addr + at.i * Entries, building, Len(frames) + 1, FALSE)
     IN  /\ tables' = r.tables
         /\ stage' = IF r.dup THEN "panic" ELSE stage
  /\ at' = [at EXCEPT !.i = @ + 1]
  /\ UNCHANGED <<configs, root, building>>

\* One turn of the loop of map_data.  A page that is mapped already is an error.
map_data ==
  /\ stage = "load"
  /\ at.job <= Len(Jobs(Config))
  /\ Job.found /\ at.i * Entries < Len(Job.data)
  /\ frames' = Append(frames, Chunk(Job.data, at.i))
  /\ LET r == map_guest_memory(Job.addr + at.i * Entries, building, Len(frames) + 1, FALSE)
     IN  /\ tables' = r.tables
         /\ stage' = IF r.dup THEN "panic" ELSE stage
  /\ at' = [at EXCEPT !.i = @ + 1]
  /\ UNCHANGED <<configs, root, building>>

\* map_image: the module may not be among those the boot loader passed.
map_image ==
  /\ stage = "load"
  /\ at.job <= Len(Jobs(Config))
  /\ \/ /\ ~Job.found
        /\ stage' = "panic"
        /\ UNCHANGED at
     \/ /\ Job.found /\ at.i * Entries >= Len(Job.data)
        /\ at' = [job |-> at.job + 1, i |-> 0]
        /\ UNCHANGED stage
  /\ UNCHANGED <<configs, tables, frames, root, building>>

\* map_new_frame for the pages of memory; those mapped already are kept, and
\* the new frame is lost.
setup_ept ==
  /\ \/ /\ stage = "load" /\ at.job > Len(Jobs(Config))
        /\ stage' = "memory"
        /\ UNCHANGED <<tables, frames, at>>
     \/ /\ stage = "memory" /\ at.i < Config.memory
        /\ frames' = Append(frames, EmptyPage)
        /\ tables' = map_guest_memory(at.i * Entries, building, Len(frames) + 1, FALSE).tables
        /\ at' = [at EXCEPT !.i = @ + 1]
        /\ UNCHANGED stage
     \/ /\ stage = "memory" /\ at.i = Config.memory
        /\ stage' = "insert"
        /\ UNCHANGED <<tables, frames, at>>
  /\ UNCHANGED <<configs, root, building>>

\* insert maps the machine's own APIC access page.
setup_guest_local_apic_page ==
  /\ stage = "insert"
  /\ frames' = Append(frames, EmptyPage)
  /\ LET r == map_guest_memory(LapicPage * Entries, building, Len(frames) + 1, FALSE)
     IN  /\ tables' = r.tables
         /\ \/ /\ r.dup
               /\ stage' = "panic"
               /\ UNCHANGED building
            \/ /\ ~r.dup /\ building < NumVms
               /\ stage' = "new"
               /\ building' = building + 1
            \/ /\ ~r.dup /\ building = NumVms
               /\ stage' = "running"
               /\ UNCHANGED building
  /\ UNCHANGED <<configs, root, at>>

Build ==
  NewSpace \/ map_data \/ map_image \/ setup_ept \/ setup_guest_local_apic_page

\* An emulated access copies into guest memory; what an error leaves stays.
Copy(c) ==
  /\ stage = "running"
  /\ frames' = write_bytes(c.vm, c.mode, c.addr, c.bytes).mem
  /\ UNCHANGED <<configs, tables, root, building, stage, at>>

Next == Build \/ \E c \in Copies : Copy(c)

Spec == Init /\ [][Next]_vars /\ WF_vars(Build)

-----------------------------------------------------------------------------
(* What is correct.                                                        *)

TypeOK ==
  /\ \A t \in 1 .. Len(tables), i \in 0 .. Entries - 1 :
        tables[t][i] \in [addr : Nat, write : BOOLEAN]
  /\ \A f \in 1 .. Len(frames) : frames[f] \in [0 .. Entries - 1 -> Pages]
  /\ \A v \in Vms : root[v] \in 0 .. Len(tables)
  /\ stage \in {"new", "load", "memory", "insert", "running", "panic"}
  /\ building \in Vms

(***************************************************************************)
(* The tables of all machines together are a flat map from pages to        *)
(* frames: building one mapping creates tables on the way and changes no   *)
(* other mapping, and no frame is mapped twice.                            *)
(***************************************************************************)
Space ==
  [v \in Vms |-> [p \in Pages |-> IF root[v] = 0 THEN 0 ELSE find_host_frame(v, p * Entries)]]

MaxFrames == NumVms * 2 * Entries ^ 4
Flat == INSTANCE FlatMemory WITH space <- Space, Frames <- 1 .. MaxFrames
FlatSpec == Flat!Spec

(***************************************************************************)
(* When the machines start, a guest finds at each address what its         *)
(* configuration says: the BIOS at both places and its images, zeros in    *)
(* the rest of their pages and of its memory, and nothing anywhere else.   *)
(***************************************************************************)
Covers(job, page) ==
  PageOf(job.addr) <= page /\ page * Entries < job.addr + Len(job.data)

\* map_frame drops the offset of an address within its page, so an image that is
\* not page-aligned begins at the start of its first page.
LoadedPage(v, page) ==
  LET jobs == Jobs(configs[v])
      f == Space[v][page]
  IN  IF \E j \in 1 .. Len(jobs) : Covers(jobs[j], page)
      THEN LET job == jobs[CHOOSE j \in 1 .. Len(jobs) : Covers(jobs[j], page)]
           IN  f # 0 /\ frames[f] = Chunk(job.data, page - PageOf(job.addr))
      ELSE IF page < configs[v].memory \/ page = LapicPage
           THEN f # 0 /\ frames[f] = EmptyPage
           ELSE f = 0

LoadedRight ==
  [][stage # "running" /\ stage' = "running" =>
       (\A v \in Vms, p \in Pages : LoadedPage(v, p))']_vars

(***************************************************************************)
(* A copy that goes frame by frame is the same as one that translates      *)
(* every single address: read_bytes returns exactly the bytes of the       *)
(* range, and fails exactly when one of them has no frame.                 *)
(***************************************************************************)
Modes == [paging : {FALSE}, cr3 : {0}] \cup [paging : {TRUE}, cr3 : {c.mode.cr3 : c \in Copies}]
Lengths == 0 .. 2 * Entries + 1
LastAddr == (HighTop - 3) * Entries

HostCell(vm, mem, mode, addr) ==
  LET phys == translate_linear_address(vm, mem, mode, addr)
      f == IF phys = <<>> THEN 0 ELSE find_host_frame(vm, phys[1])
  IN  IF f = 0 THEN <<>> ELSE <<f, Offset(phys[1])>>

ReadIsBytewise ==
  stage = "running" =>
    \A v \in Vms, mode \in Modes :
      \A cell \in {[a \in 0 .. LastAddr + 2 * Entries + 1 |-> HostCell(v, frames, mode, a)]},
         addr \in 0 .. LastAddr, length \in Lengths :
        LET r == read_bytes(v, frames, mode, addr, length)
            range == addr .. addr + length - 1
        IN  /\ r.ok = \A a \in {addr} \cup range : cell[a] # <<>>
            /\ r.ok => /\ Len(r.out) = length
                       /\ \A a \in range : r.out[a - addr + 1] = frames[cell[a][1]][cell[a][2]]

(***************************************************************************)
(* write_bytes changes the cells of the range and nothing else, in any     *)
(* machine.  When it fails, it has written the bytes up to the first page  *)
(* without a frame.  A guest that has its page tables overwritten by the   *)
(* copy itself is excepted: its later frames are translated anew.          *)
(***************************************************************************)
\* The frames after bytes 1 .. k have gone to their cells, the later ones last.
After(bytes, cell, k) ==
  [f \in DOMAIN frames |-> [o \in 0 .. Entries - 1 |->
     LET here == {i \in 1 .. k : cell[i] = <<f, o>>}
     IN  IF here = {} THEN frames[f][o]
         ELSE bytes[CHOOSE i \in here : \A j \in here : j <= i]]]

WriteIsBytewise ==
  stage = "running" =>
    \A c \in Copies :
      LET r == write_bytes(c.vm, c.mode, c.addr, c.bytes)
          Cells(mem) == [i \in 1 .. Len(c.bytes) |->
                           HostCell(c.vm, mem, c.mode, c.addr + i - 1)]
          cell == Cells(frames)
      IN  cell = Cells(r.mem) =>
            IF r.ok THEN r.mem = After(c.bytes, cell, Len(c.bytes))
            ELSE \E k \in 0 .. Len(c.bytes) - 1 :
                   cell[k + 1] = <<>> /\ r.mem = After(c.bytes, cell, k)

\* Building ends: the machines run, or the hypervisor has refused to start.
BuildEnds == <>(stage \in {"running", "panic"})
=============================================================================
