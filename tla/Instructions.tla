---------------------------- MODULE Instructions ----------------------------
(***************************************************************************)
(* The exits that the cores of a machine take for single instructions: the *)
(* decoding of the exit (vmexit.rs), the emulation of accesses to the      *)
(* local APIC page and to memory without a mapping (emulate/memio.rs), to  *)
(* control registers (controlreg.rs), of CPUID and RDMSR, and the end of   *)
(* handle_vmexit_impl that skips the instruction.  Port I/O is in PortIo,  *)
(* and what interrupts and IPIs do in Vcpu.                                *)
(*                                                                         *)
(* A handler touches only the state of its own core, apart from the        *)
(* start-up messages it sends, and is one step.  A register, a control     *)
(* register and an immediate are the sequence of their bytes, the most     *)
(* significant first.                                                      *)
(***************************************************************************)
EXTENDS PortRequests, Bitwise, SequencesExt

CONSTANTS
  Core,      \* the core ids
  Programs   \* what the cores execute: functions from Core to sequences

CoreAssumption == Core \subseteq 1 .. 255

VARIABLES
  cpu,      \* GuestCpuState, and the guest's part of the VMCS
  program,  \* what is left of the program
  cell,     \* a word of guest memory through which the cores hand over ids
  sent      \* the StartVcpu messages

vars == <<cpu, program, cell, sent>>

GPR == {"rax", "rbx", "rcx", "rdx", "rsi", "rdi", "rbp", "rsp",
        "r8", "r9", "r10", "r11", "r12", "r13", "r14", "r15"}
Wide(bytes) == Zeros(8 - Len(bytes)) \o bytes
Low(val, size) == SubSeq(val, 9 - size, 8)
High(val, size) == SubSeq(val, 1, 8 - size)
Nobody == 0
NE == 32
TS == 8

\* initialize_guest_vmcs: of the fixed bits of CR0 the guest may change PE and
\* PG, which leaves NE; the read shadows are zero.
Cr0GuestHostMask == NE

InitWith(p) ==
  /\ cpu = [c \in Core |->
              [regs |-> [r \in GPR |-> IF r = "rdx" THEN Wide(<<4, 6, 227>>)
                                                     ELSE Zeros(8)],
               cr0 |-> Wide(<<NE>>), cr3 |-> Zeros(8),
               icr_destination |-> <<>>,
               rip |-> 0,         \* relative to where the guest started
               stale |-> FALSE,   \* the TLB has translations older than the tables
               halted |-> FALSE,
               ran |-> 0,         \* the bytes of the instructions the guest executed
               flushed |-> FALSE, \* MOV to CR3 came after the last change of a table
               seen |-> Nobody]]  \* whose id the core last took from memory
  /\ program = p
  /\ cell = [val |-> Zeros(8), owner |-> Nobody]
  /\ sent = {}

Init == \E p \in Programs : InitWith(p)

-----------------------------------------------------------------------------
(* Decoding.  The processor gives a number for the reason and one for the  *)
(* qualification.                                                          *)

\* ExitInformation by number; 35, 38 and 42 have no meaning.
ExitInformation ==
  << "NonMaskableInterrupt", "ExternalInterrupt", "TripleFault", "InitSignal",
     "StartUpIpi", "IoSystemManagementInterrupt", "OtherSystemManagementInterrupt",
     "InterruptWindow", "NonMaskableInterruptWindow", "TaskSwitch", "CpuId", "GetSec",
     "Hlt", "Invd", "InvlPg", "Rdpmc", "Rdtsc", "Rsm", "VmCall", "VmClear", "VmLaunch",
     "VmPtrLd", "VmPtrRst", "VmRead", "VmResume", "VmWrite", "VmxOff", "VmxOn",
     "CrAccess", "MovDr", "IoInstruction", "RdMsr", "WrMsr",
     "VmEntryInvalidGuestState", "VmEntryMsrLoad", "invalid", "Mwait",
     "MonitorTrapFlag", "invalid", "Monitor", "Pause", "VmEntryMachineCheck",
     "invalid", "TprBelowThreshold", "ApicAccess", "VirtualEio", "AccessGdtridtr",
     "AccessLdtrTr", "EptViolation", "EptMisconfigure", "InvEpt", "Rdtscp",
     "VmxPreemptionTimerExpired", "Invvpid", "Wbinvd", "Xsetbv", "ApicWrite",
     "RdRand", "Invpcid", "VmFunc", "Encls", "RdSeed", "PageModificationLogFull",
     "Xsaves", "Xrstors" >>
ExitReason(n) == IF n < Len(ExitInformation) THEN ExitInformation[n + 1] ELSE "invalid"

\* ApicAccessInformation: only the linear accesses have an offset.
ApicAccessKinds == {0, 1, 2, 3, 10, 15}
ApicAccess(qual) ==
  LET kind == (qual \div 4096) % 16
  IN  [ok |-> kind \in ApicAccessKinds /\ kind <= 3, offset |-> qual % 4096]

\* VectoredEventInformation: 2, 4, 5 and 7 are no InterruptType.
VectoredEvent(info) ==
  [ok |-> (info \div 256) % 8 \in {0, 1, 3, 6}, vector |-> info % 256]

\* MovCrRegister by number.
MovCrRegister ==
  << "rax", "rcx", "rdx", "rbx", "rsp", "rbp", "rsi", "rdi",
     "r8", "r9", "r10", "r11", "r12", "r13", "r14", "r15" >>

\* CrInformation: CLTS and LMSW are about CR0.
CrAccess(qual) ==
  LET kind == (qual \div 16) % 4
  IN  [access_type |-> << "MovToCr", "MovFromCr", "Clts", "Lmsw" >>[kind + 1],
       cr_num |-> IF kind > 1 THEN 0 ELSE qual % 16,
       register |-> MovCrRegister[((qual \div 256) % 16) + 1]]

-----------------------------------------------------------------------------
(* What a handler makes of a core: Fail when it panics or returns an error *)
(* that makes vmexit_handler panic.                                        *)

Fail(s) == [s EXCEPT !.halted = TRUE]
SetReg(s, r, val) == [s EXCEPT !.regs[r] = val]

\* The local APIC's registers (virtdev/lapic.rs).
ApicId == \h20
LogicalDestination == \hD0
InterruptCommand0 == \h300
InterruptCommand1 == \h310
SimpleOffsets ==
  {\h20, \h30, \h80, \h90, \hA0, \hB0, \hC0, \hD0, \hE0, \hF0, \h280, \h2F0,
   \h320, \h330, \h340, \h350, \h360, \h370, \h380, \h390, \h3E0}
ApicRegisterOffset(offset) ==
  /\ offset % 16 = 0
  /\ \/ offset \in SimpleOffsets
     \/ offset \in (\h100 .. \h170) \cup (\h180 .. \h1F0) \cup (\h200 .. \h270)
                   \cup (\h300 .. \h310)
register_read(c, offset) == IF offset = ApicId THEN <<0, 0, 0, c>> ELSE Zeros(4)

\* handle_apic_access makes an address of four times the offset and divides it
\* again; the quadruple has to stay within the page.
ApicOffset(qual) == [ok |-> ApicAccess(qual).ok /\ ApicAccess(qual).offset * 4 < 4096,
                     offset |-> ApicAccess(qual).offset]

\* Mutant: the bytes are turned round once less.
on_apic_read_Little(c, offset) == Reverse(register_read(c, offset))

\* The value goes into the buffer with its most significant byte first, and
\* do_mmio_read takes the first byte for the least significant.
on_apic_read(c, offset) == register_read(c, offset)

read_register_value(s, op) ==
  IF op.reg \in GPR THEN Low(s.regs[op.reg], op.size) ELSE <<>>

\* The bytes an instruction stores, in the order of the request; none when the
\* operand is of another kind.
Stored(s, op) ==
  CASE op.kind = "reg" -> read_register_value(s, op)
    [] op.kind = "imm" -> op.val
    [] OTHER -> <<>>

\* Mutant: a load sets the whole register.
Merge_All(old, arr) == Wide(Reverse(arr))

\* `*reg &= !mask; *reg |= value', and the value is little endian in arr.
Merge(old, arr) == High(old, Len(arr)) \o Reverse(arr)

CanLoad(op) == op.kind = "reg" /\ op.reg \in GPR \ {"rbp", "rsp"}
do_mmio_read(s, op, arr) == SetReg(s, op.reg, Merge(s.regs[op.reg], arr))

StartUp == 6
StartTo(s) == s.icr_destination[1][1]

\* process_interrupt_command for INIT, STARTUP and the reserved mode 7; the
\* interrupts that go to running cores are in Vcpu.
InterruptCommand(s, val) ==
  LET mode == val[3] % 8
      starts == mode = StartUp /\ s.icr_destination # <<>>
  IN  IF starts /\ StartTo(s) \notin Core THEN Fail(s)
      ELSE [s EXCEPT !.icr_destination = <<>>]
Starts(s, val) ==
  IF val[3] % 8 = StartUp /\ s.icr_destination # <<>> /\ StartTo(s) \in Core
  THEN {[to |-> StartTo(s), owner |-> s.seen]} ELSE {}

register_write(s, offset, val) ==
  CASE offset = InterruptCommand0 -> InterruptCommand(s, val)
    [] offset = InterruptCommand1 -> [s EXCEPT !.icr_destination = << val >>]
    [] OTHER -> s

\* process_memio_op on the local APIC page: a request of another size than
\* four bytes panics in copy_from_slice.
handle_apic_access(c, s, i) ==
  LET at == ApicOffset(i.qual)
  IN  IF ~at.ok \/ ~ApicRegisterOffset(at.offset) THEN Fail(s)
      ELSE IF i.op0.kind = "mem"
      THEN IF Len(Stored(s, i.op1)) # 4 THEN Fail(s)
           ELSE register_write(s, at.offset, Stored(s, i.op1))
      ELSE IF i.op1.kind # "mem" \/ ~CanLoad(i.op0) \/ i.op0.size # 4 THEN Fail(s)
      ELSE do_mmio_read(s, i.op0, on_apic_read(c, at.offset))

\* process_memio_op on an address without a mapping.  The one device in memory
\* ignores what it is sent, so that a load gives zeros.
handle_ept_violation(s, i) ==
  IF ~i.device THEN Fail(s)
  ELSE IF i.op0.kind = "mem" THEN IF Stored(s, i.op1) = <<>> THEN Fail(s) ELSE s
  ELSE IF i.op1.kind # "mem" \/ ~CanLoad(i.op0) THEN Fail(s)
  ELSE do_mmio_read(s, i.op0, Zeros(i.op0.size))

\* Mutant: bit 63 goes into the register.
Cr3Value_Raw(val) == val

\* Bit 63 of the operand is not part of CR3.
Cr3Value(val) == [val EXCEPT ![1] = @ % 128]

\* Mutant: the caches are flushed when bit 63 is set.
Flushes_Inverted(val) == val[1] >= 128

\* invvpid, of the translations that are not global, unless bit 63 is set.
Flushes(val) == val[1] < 128

\* emulate_access: anything else about CR0 and CR3 panics, and another
\* register is an error.
emulate_access(s, i) ==
  LET info == CrAccess(i.qual)
      val == s.regs[info.register]
  IN  CASE info.cr_num = 0 /\ info.access_type = "Clts" ->
             [s EXCEPT !.cr0[8] = @ & (255 - TS)]
        [] info.cr_num = 0 /\ info.access_type = "MovToCr" -> [s EXCEPT !.cr0 = val]
        [] info.cr_num = 3 /\ info.access_type = "MovToCr" ->
             [s EXCEPT !.cr3 = Cr3Value(val), !.stale = @ /\ ~Flushes(val)]
        [] info.cr_num = 3 /\ info.access_type = "MovFromCr" ->
             SetReg(s, info.register, s.cr3)
        [] OTHER -> Fail(s)

\* The answer of the processor to CPUID: eax, ebx, ecx and edx, some bits set.
NativeCpuid(leaf) ==
  [eax |-> <<0, 3, 6, 9>>, ebx |-> <<0, 4, 8, 0>>, ecx |-> <<255, 250, 34, 3>>,
   edx |-> <<15, 139, 251, 255>>]

\* In leaf 1 MTRR, XSAVE, the hypervisor and the TSC deadline are hidden; leaf
\* 0x0b gives the id of the core.
Cpuid(c, leaf) ==
  LET res == NativeCpuid(leaf)
  IN  CASE leaf = U32(1) -> [res EXCEPT !.edx[3] = @ & (255 - 16), !.ecx[1] = @ & 122]
        [] leaf = U32(11) -> [res EXCEPT !.edx = U32(c)]
        [] OTHER -> res

emulate_cpuid(c, s) ==
  LET res == Cpuid(c, Low(s.regs["rax"], 4))
      Set(r, val) == High(s.regs[r], 4) \o val
  IN  [s EXCEPT !.regs = [@ EXCEPT !["rax"] = Set("rax", res.eax),
                                   !["rbx"] = Set("rbx", res.ebx),
                                   !["rcx"] = Set("rcx", res.ecx),
                                   !["rdx"] = Set("rdx", res.edx)]]

\* RDMSR of IA32_APIC_BASE, without the bit of x2APIC; of another register the
\* guest gets what it had.
IA32_APIC_BASE == U32(27)
ApicBase == <<0, 0, 0, 0, 254, 224, 13, 0>>
RdMsr(s) ==
  IF Low(s.regs["rcx"], 4) # IA32_APIC_BASE THEN s
  ELSE LET base == [ApicBase EXCEPT ![7] = @ & (255 - 4)]
       IN  SetReg(SetReg(s, "rdx", Wide(High(base, 4))), "rax", Wide(Low(base, 4)))

\* The arms that call skip_emulated_instruction.
Skips(info) == info \notin {"InterruptWindow", "ExternalInterrupt"}

handle_vmexit_impl(c, s, i) ==
  LET info == ExitReason(i.reason)
      after == CASE info = "RdMsr" -> RdMsr(s)
                 [] info = "ApicAccess" -> handle_apic_access(c, s, i)
                 [] info = "CrAccess" -> emulate_access(s, i)
                 [] info = "CpuId" -> emulate_cpuid(c, s)
                 [] info = "EptViolation" -> handle_ept_violation(s, i)
                 [] info = "InterruptWindow" -> s
                 [] info = "ExternalInterrupt" ->
                      IF VectoredEvent(i.qual).ok THEN s ELSE Fail(s)
                 [] OTHER -> Fail(s)
  IN  IF after.halted THEN after
      ELSE [after EXCEPT !.rip = @ + (IF Skips(info) THEN i.len ELSE 0)]

-----------------------------------------------------------------------------
(* What the guests do: instructions that exit, and those that do not.      *)

Ready(c) == program[c] # <<>> /\ ~cpu[c].halted
Instr(c) == Head(program[c])
Advance(c) == program' = [program EXCEPT ![c] = Tail(@)]

\* MOV to CR0 exits only when it would change what the mask keeps, as the
\* shadow shows it.
Cr0Exits(c) == cpu[c].regs[Instr(c).reg][8] & Cr0GuestHostMask # 0
SetCr0(s, val) ==
  [s EXCEPT !.cr0 = [val EXCEPT ![8] = (@ & (255 - Cr0GuestHostMask))
                                       | (s.cr0[8] & Cr0GuestHostMask)]]

Exit(c) ==
  LET i == Instr(c)
      flush == ExitReason(i.reason) = "CrAccess" /\ i.qual % 64 = 3
                 /\ cpu[c].regs[MovCrRegister[i.qual \div 256 + 1]][1] < 128
      s == [cpu[c] EXCEPT !.ran = @ + i.executed, !.flushed = @ \/ flush]
      store == ExitReason(i.reason) = "ApicAccess" /\ i.qual % 4096 = InterruptCommand0
                 /\ Len(Stored(s, i.op1)) = 4
  IN  /\ Ready(c)
      /\ i.op = "exit"
      /\ Advance(c)
      /\ cpu' = [cpu EXCEPT ![c] = handle_vmexit_impl(c, s, i)]
      /\ sent' = sent \cup (IF store THEN Starts(s, Stored(s, i.op1)) ELSE {})
      /\ UNCHANGED cell

MovToCr0(c) ==
  LET i == Instr(c)
      s == [cpu[c] EXCEPT !.ran = @ + 3]
      as_exit == [i EXCEPT !.reason = 28, !.len = 3]
  IN  /\ Ready(c)
      /\ i.op = "mov_cr0"
      /\ Advance(c)
      /\ cpu' = [cpu EXCEPT ![c] = IF Cr0Exits(c) THEN handle_vmexit_impl(c, s, as_exit)
                                   ELSE [SetCr0(s, s.regs[i.reg]) EXCEPT !.rip = @ + 3]]
      /\ UNCHANGED <<cell, sent>>

\* A register gets a value, a page table changes, and an id passes from one
\* core to another through memory; EDX of CPUID is shifted for the ICR.
Local(c) ==
  LET i == Instr(c)
      s == cpu[c]
  IN  /\ Ready(c)
      /\ Advance(c)
      /\ \/ /\ i.op = "set"
            /\ cpu' = [cpu EXCEPT ![c] = SetReg(s, i.reg, i.val)]
            /\ UNCHANGED cell
         \/ /\ i.op = "shl24"
            /\ cpu' = [cpu EXCEPT ![c] = SetReg(s, i.reg, Wide(<<s.regs[i.reg][8], 0, 0, 0>>))]
            /\ UNCHANGED cell
         \/ /\ i.op = "edit"
            /\ cpu' = [cpu EXCEPT ![c].stale = TRUE, ![c].flushed = FALSE]
            /\ UNCHANGED cell
         \/ /\ i.op = "publish"
            /\ cell' = [val |-> s.regs[i.reg], owner |-> c]
            /\ UNCHANGED cpu
         \/ /\ i.op = "fetch"
            /\ cpu' = [cpu EXCEPT ![c] = [SetReg(s, i.reg, cell.val) EXCEPT !.seen = cell.owner]]
            /\ UNCHANGED cell
      /\ UNCHANGED sent

Next == \E c \in Core : Exit(c) \/ MovToCr0(c) \/ Local(c)

Spec == Init /\ [][Next]_vars

-----------------------------------------------------------------------------
\* CR3's bit 63, "reserved and always 0" in controlreg.rs, is among the types.
TypeOK ==
  \A c \in Core :
    LET s == cpu[c]
    IN  /\ DOMAIN s.regs = GPR
        /\ \A r \in GPR : Len(s.regs[r]) = 8 /\ \A j \in 1 .. 8 : s.regs[r][j] \in Byte
        /\ Len(s.cr0) = 8 /\ Len(s.cr3) = 8 /\ s.cr3[1] < 128
        /\ Len(s.icr_destination) <= 1

\* The guest goes on behind the instruction that was emulated, and at the same
\* instruction after an interrupt or an interrupt window.
RipFollowsGuest == \A c \in Core : cpu[c].halted \/ cpu[c].rip = cpu[c].ran

\* CR0 keeps the bit that VM entry requires, through the writes that exit and
\* are taken over as they are, and those that do not exit and are masked.
Cr0KeepsFixed == \A c \in Core : cpu[c].cr0[8] & NE = NE

\* Once a guest has loaded CR3 without asking to keep them, it does not see
\* translations that are older than its last change of the tables.
NoStaleTranslation == \A c \in Core : cpu[c].flushed => ~cpu[c].stale

\* The id that a core reads from its local APIC, or from CPUID, starts that
\* core when another one puts it into its interrupt command register, which
\* never ends the sender for an id that no core has.
StartsTheReader ==
  /\ \A m \in sent : m.to = m.owner
  /\ \A c \in Core : cpu[c].seen # Nobody => ~cpu[c].halted

\* The bytes of registers that an instruction may change.
Written(i) ==
  LET info == ExitReason(i.reason)
  IN  CASE i.op # "exit" -> GPR \X (1 .. 8)
        [] info = "CpuId" -> {"rax", "rbx", "rcx", "rdx"} \X (5 .. 8)
        [] info = "RdMsr" -> {"rax", "rdx"} \X (1 .. 8)
        [] info = "CrAccess" /\ (i.qual \div 16) % 4 = 1 ->
             {MovCrRegister[i.qual \div 256 + 1]} \X (1 .. 8)
        [] info \in {"ApicAccess", "EptViolation"} /\ i.op0.kind = "reg" ->
             {i.op0.reg} \X ((9 - i.op0.size) .. 8)
        [] OTHER -> {}

\* An exit leaves all of the guest's registers as they were but the part that
\* the instruction names as its destination.
RestKept ==
  [][\A c \in Core : program'[c] # program[c] =>
       \A r \in GPR, j \in 1 .. 8 :
         cpu'[c].regs[r][j] # cpu[c].regs[r][j] => <<r, j>> \in Written(Instr(c))]_vars

=============================================================================
