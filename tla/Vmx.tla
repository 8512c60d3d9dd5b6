--------------------------------- MODULE Vmx ---------------------------------
(***************************************************************************)
(* How a core comes to run its guest: VMX operation (vmx.rs), the VMCS     *)
(* (vmcs.rs), its contents (VCpu::new and the functions it calls), the     *)
(* start of a waiting core and the entries into the guest.  The barrier    *)
(* and the messages are as in Vcpu.                                        *)
(*                                                                         *)
(* The processor checks the VMCS when a guest is entered (external).  A    *)
(* control field is the set of its flags, and a VMCS maps each field to a  *)
(* sequence that is empty until the field is written.                      *)
(***************************************************************************)
EXTENDS Integers, Sequences, FiniteSets

CONSTANTS
  NumCores,     \* the cores of the one machine; core 0 is its boot processor
  Capabilities, \* what processors may have: has_vmx, the revision and, for each
                \* control field, the flags that must and that may be set
  Vectors       \* the vectors of start-up IPIs

NumCoresAssumption == NumCores \in Nat \ {0}

Core == 0 .. NumCores - 1

VARIABLES
  caps,     \* the processors' capabilities
  pc,       \* where each core is
  host,     \* CR0 and CR4 of each core, their bits
  page,     \* the revision written into each page, by the page's number
  vmxon,    \* the VMXON region of each core; 0: not in VMX operation
  current,  \* the current VMCS of each core; 0: none
  vmcs,     \* the VMCS of each core
  ready,    \* cpus_ready
  sipi,     \* the address in the StartVcpu message of each core
  entered   \* the linear address of the first instruction of each guest core

vars == <<caps, pc, host, page, vmxon, current, vmcs, ready, sipi, entered>>

Ctrl == {"CpuBasedVmExecControl", "SecondaryVmExecControl", "PinBasedVmExecControl",
         "VmExitControls", "VmEntryControls"}
Segments == {"Es", "Cs", "Ss", "Ds", "Fs", "Gs", "Tr", "Ldtr"}
Field == Ctrl \cup Segments \cup
  {"EptPointer", "ApicAccessAddr", "VirtualProcessorId", "MsrBitmap",
   "HostCr0", "HostCr4", "HostRsp", "HostRip", "GuestCr0", "GuestCr4", "GuestCr3",
   "GuestRip", "GuestRflags", "GuestActivityState", "GuestInterruptibilityInfo",
   "VmcsLinkPointer", "VmcsLinkPointerHigh", "VmEntryIntrInfoField"}
Empty == [f \in Field |-> <<>>]
Has(m, f, v) == m[f] = <<v>>

\* Of every processor: a flag that must be set may be, and exiting at an
\* interrupt window is left to the hypervisor.
CapabilitiesAssumption ==
  \A p \in Capabilities :
    /\ \A f \in Ctrl : p.ctrl[f].low \subseteq p.ctrl[f].high
    /\ "INTERRUPT_WINDOW_EXITING" \in
         p.ctrl["CpuBasedVmExecControl"].high \ p.ctrl["CpuBasedVmExecControl"].low

InitWith(processors) ==
  /\ caps = processors
  /\ pc = [c \in Core |-> "enable"]
  /\ host = [c \in Core |-> [cr0 |-> {"PE", "PG"}, cr4 |-> {"PAE"}]]
  /\ page = <<>>
  /\ vmxon = [c \in Core |-> 0]
  /\ current = [c \in Core |-> 0]
  /\ vmcs = [c \in Core |-> Empty]
  /\ ready = 0
  /\ sipi = [c \in Core |-> <<>>]
  /\ entered = [c \in Core |-> <<>>]

Init == \E processors \in Capabilities : InitWith(processors)

Goto(c, where) == pc' = [pc EXCEPT ![c] = where]

-----------------------------------------------------------------------------
(* vmx.rs and vmcs.rs.                                                     *)

\* check_vm_insruction: the carry flag is VmFailInvalid, the zero flag
\* VmFailValid; both are errors, and both end the core.
check_vm_insruction(flags) == flags \cap {"CF", "ZF"} = {}
Flags(ok) == IF ok THEN {} ELSE {"CF"}

\* VMXON and VMPTRLD want the fixed bits and the processor's revision.
CanVmxon(h, region) ==
  {"NE", "PE", "PG"} \subseteq h.cr0 /\ "VMXE" \in h.cr4 /\ region = caps.revision

\* Mutant: CR0.NE is left as the boot code has it.
EnableBits_NoNE(h) == [h EXCEPT !.cr4 = @ \cup {"VMXE"}]

EnableBits(h) == [h EXCEPT !.cr0 = @ \cup {"NE"}, !.cr4 = @ \cup {"VMXE"}]

\* Vmx::enable.  The region is a new page.
Enable(c) ==
  LET h == EnableBits(host[c])
      ok == check_vm_insruction(Flags(CanVmxon(h, caps.revision)))
  IN  /\ pc[c] = "enable"
      /\ IF ~caps.has_vmx
         THEN Goto(c, "panic") /\ UNCHANGED <<host, page, vmxon>>
         ELSE /\ host' = [host EXCEPT ![c] = h]
              /\ page' = Append(page, caps.revision)
              /\ vmxon' = IF ok THEN [vmxon EXCEPT ![c] = Len(page')] ELSE vmxon
              /\ Goto(c, IF ok THEN "activate" ELSE "panic")
      /\ UNCHANGED <<caps, current, vmcs, ready, sipi, entered>>

\* Vmcs::new and vmcs_activate: a new page with the revision becomes current.
Activate(c) ==
  LET ok == check_vm_insruction(Flags(page'[Len(page')] = caps.revision
                                        /\ Len(page') # vmxon[c]))
  IN  /\ pc[c] = "activate"
      /\ page' = Append(page, caps.revision)
      /\ current' = IF ok THEN [current EXCEPT ![c] = Len(page')] ELSE current
      /\ Goto(c, IF ok THEN "fill" ELSE "panic")
      /\ UNCHANGED <<caps, host, vmxon, vmcs, ready, sipi, entered>>

write_field(m, f, v) == [m EXCEPT ![f] = <<v>>]

Allowed(value, required) == value \subseteq required

\* vmcs_write_with_fixed, on a result that is empty once a write has failed.
write_with_fixed(res, f, value) ==
  LET fixed == caps.ctrl[f]
      required == (value \cap fixed.high) \cup fixed.low
  IN  IF res = <<>> \/ ~Allowed(value, required) THEN <<>>
      ELSE << write_field(res[1], f, required) >>

-----------------------------------------------------------------------------
(* The contents of the VMCS.                                               *)

\* VCpu::new: all cores share the address space and the APIC access page.
Shared(m) == write_field(write_field(m, "EptPointer", "eptp"),
                         "ApicAccessAddr", "apic_access_page")

\* The exit handler finds the VCpu in the top word of the core's own stack.
initialize_host_vmcs(c, m) ==
  [m EXCEPT !["HostCr0"] = <<host[c].cr0>>, !["HostCr4"] = <<host[c].cr4>>,
            !["HostRsp"] = <<c>>, !["HostRip"] = <<"vmexit_handler_wrapper">>]

Segment(sel, base, ar) == [sel |-> sel, base |-> base, limit |-> \hFFFF, ar |-> ar]
ResetSegment(s) ==
  CASE s = "Cs" -> Segment(\hF000, \hFFFF, \h9B)  \* the base in units of 64 KiB
    [] s = "Ldtr" -> Segment(0, 0, \h82)
    [] s = "Tr" -> Segment(0, 0, \h8B)
    [] OTHER -> Segment(0, 0, \h93)

\* Real mode at the reset vector.  Fixed bits of CR0 but PE and PG.
initialize_guest_vmcs(m) ==
  [f \in Field |->
     CASE f \in Segments -> << ResetSegment(f) >>
       [] f = "GuestInterruptibilityInfo" -> << {} >>
       [] f = "GuestRflags" -> << {1} >>
       [] f \in {"VmcsLinkPointer", "VmcsLinkPointerHigh"} -> << -1 >>
       [] f = "GuestCr0" -> << {"NE"} >>
       [] f = "GuestCr4" -> << {"VMXE"} >>
       [] f = "GuestCr3" -> << 0 >>
       [] f = "GuestRip" -> << \hFFF0 >>
       [] f = "GuestActivityState" -> << "Active" >>
       [] OTHER -> m[f]]

Requested(f) ==
  CASE f = "CpuBasedVmExecControl" ->
         {"UNCOND_IO_EXITING", "TPR_SHADOW", "ACTIVATE_MSR_BITMAP",
          "ACTIVATE_SECONDARY_CONTROLS"}
    [] f = "SecondaryVmExecControl" ->
         {"VIRTUALIZE_APIC_ACCESSES", "ENABLE_EPT", "ENABLE_RDTSCP", "ENABLE_VPID",
          "ENABLE_INVPCID", "UNRESTRICTED_GUEST"}
    [] f = "PinBasedVmExecControl" -> {"EXT_INTR_EXIT"}
    [] f = "VmExitControls" -> {"IA32E_MODE", "ACK_INTR_ON_EXIT", "SAVE_GUEST_EFER"}
    [] OTHER -> {}

\* "The value 0 is forbidden for the VPID."
Vpid(c) == c + 1

\* The one MSR whose reading exits, as byte and bit of the bitmap.
MsrBitmap == {3 * 8 + 3}
IA32_APIC_BASE == 27

\* The order of the writes decides what is written when one fails.
initialize_ctrl_vmcs(c, m) ==
  LET Write(res, f) == write_with_fixed(res, f, Requested(f))
      with == Write(Write(<<m>>, "CpuBasedVmExecControl"), "SecondaryVmExecControl")
      vpid == IF with = <<>> THEN <<>>
              ELSE << write_field(with[1], "VirtualProcessorId", Vpid(c)) >>
      all == Write(Write(Write(vpid, "PinBasedVmExecControl"), "VmExitControls"),
                   "VmEntryControls")
  IN  IF all = <<>> THEN <<>> ELSE << write_field(all[1], "MsrBitmap", MsrBitmap) >>

Fill(c) ==
  LET m == initialize_guest_vmcs(initialize_host_vmcs(c, Shared(vmcs[c])))
      res == initialize_ctrl_vmcs(c, m)
  IN  /\ pc[c] = "fill"
      /\ vmcs' = [vmcs EXCEPT ![c] = IF res = <<>> THEN m ELSE res[1]]
      /\ Goto(c, IF res = <<>> THEN "panic" ELSE "notify")
      /\ UNCHANGED <<caps, host, page, vmxon, current, ready, sipi, entered>>

NotifyReady(c) ==
  /\ pc[c] = "notify"
  /\ ready' = ready + 1
  /\ Goto(c, "barrier")
  /\ UNCHANGED <<caps, host, page, vmxon, current, vmcs, sipi, entered>>

AllCoresReady(c) ==
  /\ pc[c] = "barrier"
  /\ ready = NumCores
  /\ Goto(c, IF c = 0 THEN "launch" ELSE "wait")
  /\ UNCHANGED <<caps, host, page, vmxon, current, vmcs, ready, sipi, entered>>

\* A start-up IPI of the guest's boot processor, its vector times 4 KiB.
SendSipi(c, vec) ==
  /\ pc[0] = "guest" /\ c # 0 /\ sipi[c] = <<>>
  /\ sipi' = [sipi EXCEPT ![c] = << vec * 4096 >>]
  /\ UNCHANGED <<caps, pc, host, page, vmxon, current, vmcs, ready, entered>>

\* wait_for_init
WaitForInit(c) ==
  LET cs == [vmcs[c]["Cs"][1] EXCEPT !.sel = sipi[c][1] \div 16, !.base = 0]
  IN  /\ pc[c] = "wait"
      /\ sipi[c] # <<>>
      /\ vmcs' = [vmcs EXCEPT ![c] = [@ EXCEPT !["Cs"] = << cs >>, !["GuestRip"] = << 0 >>]]
      /\ Goto(c, "launch")
      /\ UNCHANGED <<caps, host, page, vmxon, current, ready, sipi, entered>>

-----------------------------------------------------------------------------
(* Entries.                                                                *)

\* What the processor checks (external): controls, host state, guest state.
EntryOk(c) ==
  LET m == vmcs[c]
  IN  /\ current[c] # 0
      /\ \A f \in Ctrl : /\ m[f] # <<>>
                         /\ caps.ctrl[f].low \subseteq m[f][1]
                         /\ m[f][1] \subseteq caps.ctrl[f].high
      /\ m["VirtualProcessorId"] # <<>> /\ ~Has(m, "VirtualProcessorId", 0)
      /\ m["EptPointer"] # <<>> /\ m["MsrBitmap"] # <<>> /\ m["ApicAccessAddr"] # <<>>
      /\ m["HostCr0"] # <<>> /\ {"NE", "PE", "PG"} \subseteq m["HostCr0"][1]
      /\ m["HostCr4"] # <<>> /\ "VMXE" \in m["HostCr4"][1]
      /\ "NE" \in m["GuestCr0"][1] /\ "VMXE" \in m["GuestCr4"][1]
      /\ Has(m, "VmcsLinkPointer", -1) /\ Has(m, "VmcsLinkPointerHigh", -1)
      /\ 1 \in m["GuestRflags"][1]
      /\ m["Tr"][1].ar \in {\h8B, \h83} /\ m["Ldtr"][1].ar = \h82
      /\ m["VmEntryIntrInfoField"] # <<>> =>
           9 \in m["GuestRflags"][1] /\ m["GuestInterruptibilityInfo"][1] = {}

\* launch: a failure comes back with the flags and ends the core.
Launch(c) ==
  /\ pc[c] = "launch"
  /\ IF check_vm_insruction(Flags(EntryOk(c)))
     THEN /\ Goto(c, "guest")
          /\ entered' = [entered EXCEPT ![c] = << vmcs[c]["Cs"][1].base,
                                                  vmcs[c]["GuestRip"][1] >>]
     ELSE Goto(c, "panic") /\ UNCHANGED entered
  /\ UNCHANGED <<caps, host, page, vmxon, current, vmcs, ready, sipi>>

\* The guest runs on: its flags and its interruptibility change, and an event
\* that was injected is delivered.
GuestRuns(c, flags, blocking) ==
  /\ pc[c] = "guest"
  /\ vmcs' = [vmcs EXCEPT ![c] = [@ EXCEPT !["GuestRflags"] = << {1} \cup flags >>,
                                           !["GuestInterruptibilityInfo"] = << blocking >>,
                                           !["VmEntryIntrInfoField"] = <<>>]]
  /\ Goto(c, "exit")
  /\ UNCHANGED <<caps, host, page, vmxon, current, ready, sipi, entered>>

\* Mutant: blocking by STI or MOV SS is not looked at.
Interruptible_Flags(m) == 9 \in m["GuestRflags"][1]

Interruptible(m) ==
  m["GuestInterruptibilityInfo"][1] = {} /\ 9 \in m["GuestRflags"][1]

SetWindow(m, on) ==
  [m EXCEPT !["CpuBasedVmExecControl"] =
     << IF on THEN @[1] \cup {"INTERRUPT_WINDOW_EXITING"}
              ELSE @[1] \ {"INTERRUPT_WINDOW_EXITING"} >>]

\* The end of handle_vmexit with n interrupts pending, and vmresume.  Of what
\* it injects only that it injects matters here.
Resume(c, n) ==
  LET m == vmcs[c]
      next == IF n = 0 THEN m
              ELSE IF ~Interruptible(m) THEN SetWindow(m, TRUE)
              ELSE [SetWindow(m, n > 1) EXCEPT !["VmEntryIntrInfoField"] = << "valid" >>]
  IN  /\ pc[c] = "exit"
      /\ vmcs' = [vmcs EXCEPT ![c] = next]
      /\ Goto(c, "resume")
      /\ UNCHANGED <<caps, host, page, vmxon, current, ready, sipi, entered>>

Vmresume(c) ==
  /\ pc[c] = "resume"
  /\ Goto(c, IF EntryOk(c) THEN "guest" ELSE "failed")
  /\ UNCHANGED <<caps, host, page, vmxon, current, vmcs, ready, sipi, entered>>

Hypervisor(c) ==
  \/ Enable(c) \/ Activate(c) \/ Fill(c) \/ NotifyReady(c) \/ AllCoresReady(c)
  \/ WaitForInit(c) \/ Launch(c) \/ Vmresume(c) \/ \E n \in 0 .. 2 : Resume(c, n)

Next ==
  \E c \in Core :
    \/ Hypervisor(c)
    \/ \E vec \in Vectors : SendSipi(c, vec)
    \/ \E flags \in SUBSET {9}, blocking \in SUBSET {"STI"} : GuestRuns(c, flags, blocking)

Spec == Init /\ [][Next]_vars /\ \A c \in Core : WF_vars(Hypervisor(c))

-----------------------------------------------------------------------------
Pcs == {"enable", "activate", "fill", "notify", "barrier", "wait", "launch", "guest",
        "exit", "resume", "failed", "panic"}
Inside == {"guest", "exit", "resume"}

TypeOK ==
  /\ pc \in [Core -> Pcs]
  /\ \A c \in Core : DOMAIN vmcs[c] = Field /\ current[c] \in 0 .. Len(page)
  /\ ready \in 0 .. NumCores

\* Whatever a processor can do, it is refused a control that the hypervisor
\* asks for only with the core still outside of the guest: a guest runs with
\* all of them, and with reading the APIC base as the one MSR that exits.
RunsAsRequested ==
  \A c \in Core : pc[c] \in Inside =>
    /\ \A f \in Ctrl : Requested(f) \subseteq vmcs[c][f][1]
    /\ Has(vmcs[c], "MsrBitmap", {IA32_APIC_BASE})

\* No entry fails: every core that gets to launching satisfies what the
\* processor checks, and goes on doing so whatever interrupts are pending and
\* however the guest blocks them.
EntriesSucceed == \A c \in Core : pc[c] \in {"launch", "resume"} => EntryOk(c)

\* Cores use different pages for VMXON and VMCS, different stacks and
\* different VPIDs, none of them zero, which keeps their translations apart.
CoresApart ==
  \A c, d \in Core :
    /\ pc[c] \in Inside => vmxon[c] # current[c] /\ ~Has(vmcs[c], "VirtualProcessorId", 0)
    /\ c # d /\ pc[c] \in Inside /\ pc[d] \in Inside =>
         /\ {vmxon[c], current[c]} \cap {vmxon[d], current[d]} = {}
         /\ vmcs[c]["VirtualProcessorId"] # vmcs[d]["VirtualProcessorId"]
         /\ vmcs[c]["HostRsp"] # vmcs[d]["HostRsp"]

\* When the processors can do what is asked, the boot processor of the machine
\* gets to its guest, and every core that is sent a start-up IPI does.
CanAll == caps.has_vmx /\ \A f \in Ctrl : Requested(f) \subseteq caps.ctrl[f].high
AllStart ==
  CanAll => /\ <>(entered[0] # <<>>)
            /\ \A c \in Core : sipi[c] # <<>> ~> entered[c] # <<>>

=============================================================================
