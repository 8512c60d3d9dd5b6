----------------------------- MODULE VmxProofs ------------------------------
(***************************************************************************)
(* Proofs about Vmx, for any number of cores and any processors: every VM  *)
(* entry satisfies what the processor checks, guests run with all controls *)
(* that the hypervisor asks for, and cores share no region, stack or VPID. *)
(***************************************************************************)
EXTENDS Vmx, FiniteSetTheorems, TLAPS

-----------------------------------------------------------------------------
(* Writing fields.                                                         *)

Vmcs(m) == m = [f \in Field |-> m[f]]

\* vmcs_write_with_fixed fails or writes what the processor allows: k has the
\* flags that must and that may be set.
Written(m, f, k) ==
  /\ m[f] # <<>>
  /\ Requested(f) \subseteq m[f][1]
  /\ k[f].low \subseteq m[f][1]
  /\ m[f][1] \subseteq k[f].high

LEMMA CtrlFields == Ctrl \subseteq Field
  BY DEF Field

LEMMA WriteField ==
  ASSUME NEW m, Vmcs(m), NEW f \in Field, NEW v
  PROVE  /\ Vmcs(write_field(m, f, v))
         /\ write_field(m, f, v)[f] = <<v>>
         /\ \A g \in Field : g # f => write_field(m, f, v)[g] = m[g]
  BY DEF Vmcs, write_field

LEMMA WriteWithFixed ==
  ASSUME NEW m, Vmcs(m), NEW f \in Ctrl, caps.ctrl[f].low \subseteq caps.ctrl[f].high,
         NEW res, res = write_with_fixed(<<m>>, f, Requested(f)), res # <<>>
  PROVE  /\ res = <<res[1]>> /\ Vmcs(res[1])
         /\ Written(res[1], f, caps.ctrl)
         /\ \A g \in Field : g # f => res[1][g] = m[g]
<1> DEFINE req == (Requested(f) \cap caps.ctrl[f].high) \cup caps.ctrl[f].low
<1>1. res = << write_field(m, f, req) >> /\ Allowed(Requested(f), req)
  BY DEF write_with_fixed
<1>2. res[1] = write_field(m, f, req) /\ res = <<res[1]>>
  BY <1>1
<1>3. f \in Field
  BY CtrlFields
<1>4. /\ Vmcs(res[1]) /\ res[1][f] = <<req>>
      /\ \A g \in Field : g # f => res[1][g] = m[g]
  BY <1>2, <1>3, WriteField
<1>5. Requested(f) \subseteq req /\ caps.ctrl[f].low \subseteq req /\ req \subseteq caps.ctrl[f].high
  BY <1>1 DEF Allowed
<1> HIDE DEF req
<1>6. Written(res[1], f, caps.ctrl)
  BY <1>4, <1>5 DEF Written
<1> QED
  BY <1>2, <1>4, <1>6

\* A result that has failed stays so.
LEMMA WriteAfterFailure ==
  ASSUME NEW f, NEW v
  PROVE  write_with_fixed(<<>>, f, v) = <<>>
  BY DEF write_with_fixed

\* initialize_guest_vmcs.
LEMMA GuestFields ==
  ASSUME NEW m
  PROVE  LET g == initialize_guest_vmcs(m) IN
         /\ Vmcs(g)
         /\ g["GuestCr0"] = <<{"NE"}>> /\ g["GuestCr4"] = <<{"VMXE"}>>
         /\ g["VmcsLinkPointer"] = <<-1>> /\ g["VmcsLinkPointerHigh"] = <<-1>>
         /\ g["GuestRflags"] = <<{1}>>
         /\ g["Tr"] = <<Segment(0, 0, \h8B)>> /\ g["Ldtr"] = <<Segment(0, 0, \h82)>>
         /\ \A f \in {"EptPointer", "ApicAccessAddr", "HostCr0", "HostCr4", "HostRsp",
                      "VmEntryIntrInfoField"} : g[f] = m[f]
<1> DEFINE g == initialize_guest_vmcs(m)
<1>1. Vmcs(g)
  BY DEF initialize_guest_vmcs, Vmcs
<1>2. g["GuestCr0"] = <<{"NE"}>>
  BY DEF initialize_guest_vmcs, Field, Segments
<1>3. g["GuestCr4"] = <<{"VMXE"}>>
  BY DEF initialize_guest_vmcs, Field, Segments
<1>4. g["VmcsLinkPointer"] = <<-1>> /\ g["VmcsLinkPointerHigh"] = <<-1>>
  BY DEF initialize_guest_vmcs, Field, Segments
<1>5. g["GuestRflags"] = <<{1}>>
  BY DEF initialize_guest_vmcs, Field, Segments
<1>6. g["Tr"] = <<Segment(0, 0, \h8B)>> /\ g["Ldtr"] = <<Segment(0, 0, \h82)>>
  BY DEF initialize_guest_vmcs, Field, Segments, ResetSegment
<1>7. \A f \in {"EptPointer", "ApicAccessAddr", "HostCr0", "HostCr4", "HostRsp",
                "VmEntryIntrInfoField"} : g[f] = m[f]
  BY DEF initialize_guest_vmcs, Field, Segments
<1> QED
  BY <1>1, <1>2, <1>3, <1>4, <1>5, <1>6, <1>7

\* initialize_ctrl_vmcs, when no write fails.
LEMMA CtrlFieldsWritten ==
  ASSUME NEW c \in Core, NEW m, Vmcs(m), \A f \in Ctrl : caps.ctrl[f].low \subseteq caps.ctrl[f].high,
         NEW res, res = initialize_ctrl_vmcs(c, m), res # <<>>
  PROVE  /\ Vmcs(res[1])
         /\ \A f \in Ctrl : Written(res[1], f, caps.ctrl)
         /\ res[1]["VirtualProcessorId"] = <<c + 1>>
         /\ res[1]["MsrBitmap"] = <<{IA32_APIC_BASE}>>
         /\ \A f \in Field \ (Ctrl \cup {"VirtualProcessorId", "MsrBitmap"}) : res[1][f] = m[f]
<1> DEFINE W(r, f) == write_with_fixed(r, f, Requested(f))
           r1 == W(<<m>>, "CpuBasedVmExecControl")
           r2 == W(r1, "SecondaryVmExecControl")
           r3 == IF r2 = <<>> THEN <<>>
                 ELSE << write_field(r2[1], "VirtualProcessorId", Vpid(c)) >>
           r4 == W(r3, "PinBasedVmExecControl")
           r5 == W(r4, "VmExitControls")
           r6 == W(r5, "VmEntryControls")
<1>1. res = (IF r6 = <<>> THEN <<>> ELSE << write_field(r6[1], "MsrBitmap", MsrBitmap) >>)
  BY DEF initialize_ctrl_vmcs
<1>2. r6 # <<>> /\ res = << write_field(r6[1], "MsrBitmap", MsrBitmap) >>
  BY <1>1
<1>3. r5 # <<>> /\ r4 # <<>> /\ r3 # <<>> /\ r2 # <<>> /\ r1 # <<>>
  BY <1>2, WriteAfterFailure
<1> DEFINE Same(a, b, f) == \A g \in Field : g # f => b[g] = a[g]
<1>4. r1 = <<r1[1]>> /\ Vmcs(r1[1]) /\ Written(r1[1], "CpuBasedVmExecControl", caps.ctrl)
      /\ Same(m, r1[1], "CpuBasedVmExecControl")
  BY <1>3, WriteWithFixed DEF Ctrl
<1>5. r2 = <<r2[1]>> /\ Vmcs(r2[1]) /\ Written(r2[1], "SecondaryVmExecControl", caps.ctrl)
      /\ Same(r1[1], r2[1], "SecondaryVmExecControl")
  BY <1>3, <1>4, WriteWithFixed DEF Ctrl
<1>6. r3 = <<r3[1]>> /\ Vmcs(r3[1]) /\ r3[1]["VirtualProcessorId"] = <<Vpid(c)>>
      /\ Same(r2[1], r3[1], "VirtualProcessorId")
  <2>1. r3[1] = write_field(r2[1], "VirtualProcessorId", Vpid(c)) /\ r3 = <<r3[1]>>
    BY <1>3
  <2>2. "VirtualProcessorId" \in Field
    BY DEF Field
  <2> QED
    BY <1>5, <2>1, <2>2, WriteField
<1>7. r4 = <<r4[1]>> /\ Vmcs(r4[1]) /\ Written(r4[1], "PinBasedVmExecControl", caps.ctrl)
      /\ Same(r3[1], r4[1], "PinBasedVmExecControl")
  BY <1>3, <1>6, WriteWithFixed DEF Ctrl
<1>8. r5 = <<r5[1]>> /\ Vmcs(r5[1]) /\ Written(r5[1], "VmExitControls", caps.ctrl)
      /\ Same(r4[1], r5[1], "VmExitControls")
  BY <1>3, <1>7, WriteWithFixed DEF Ctrl
<1>9. r6 = <<r6[1]>> /\ Vmcs(r6[1]) /\ Written(r6[1], "VmEntryControls", caps.ctrl)
      /\ Same(r5[1], r6[1], "VmEntryControls")
  <2>1. r6 = write_with_fixed(<<r5[1]>>, "VmEntryControls", Requested("VmEntryControls"))
    BY <1>8
  <2>2. r6 # <<>> /\ "VmEntryControls" \in Ctrl
    BY <1>2 DEF Ctrl
  <2> HIDE DEF r5, r6
  <2> QED
    BY <1>8, <2>1, <2>2, WriteWithFixed
<1>10. Vmcs(res[1]) /\ res[1]["MsrBitmap"] = <<MsrBitmap>> /\ Same(r6[1], res[1], "MsrBitmap")
  <2>1. res[1] = write_field(r6[1], "MsrBitmap", MsrBitmap)
    BY <1>2
  <2>2. "MsrBitmap" \in Field
    BY DEF Field
  <2> QED
    BY <1>9, <2>1, <2>2, WriteField
<1> HIDE DEF r1, r2, r3, r4, r5, r6
<1>11. \A f \in Field \ (Ctrl \cup {"VirtualProcessorId", "MsrBitmap"}) : res[1][f] = m[f]
  BY <1>4, <1>5, <1>6, <1>7, <1>8, <1>9, <1>10 DEF Ctrl
<1>12. res[1]["VirtualProcessorId"] = <<c + 1>>
  BY <1>6, <1>7, <1>8, <1>9, <1>10 DEF Field, Vpid
<1>13. MsrBitmap = {IA32_APIC_BASE}
  BY DEF MsrBitmap, IA32_APIC_BASE
<1>14. /\ res[1]["CpuBasedVmExecControl"] = r1[1]["CpuBasedVmExecControl"]
       /\ res[1]["SecondaryVmExecControl"] = r2[1]["SecondaryVmExecControl"]
       /\ res[1]["PinBasedVmExecControl"] = r4[1]["PinBasedVmExecControl"]
       /\ res[1]["VmExitControls"] = r5[1]["VmExitControls"]
       /\ res[1]["VmEntryControls"] = r6[1]["VmEntryControls"]
  BY <1>5, <1>6, <1>7, <1>8, <1>9, <1>10, CtrlFields DEF Ctrl
<1>15. \A f \in Ctrl : Written(res[1], f, caps.ctrl)
  BY <1>4, <1>5, <1>7, <1>8, <1>9, <1>14 DEF Ctrl, Written
<1> QED
  BY <1>10, <1>11, <1>12, <1>13, <1>15

-----------------------------------------------------------------------------
(* The invariant.                                                          *)

\* The capabilities never change.
CapsInv ==
  /\ \A f \in Ctrl : caps.ctrl[f].low \subseteq caps.ctrl[f].high
  /\ "INTERRUPT_WINDOW_EXITING" \in
       caps.ctrl["CpuBasedVmExecControl"].high \ caps.ctrl["CpuBasedVmExecControl"].low

Types ==
  /\ pc \in [Core -> Pcs]
  /\ host \in [Core -> [cr0 : SUBSET {"NE", "PE", "PG"}, cr4 : SUBSET {"PAE", "VMXE"}]]
  /\ DOMAIN vmcs = Core /\ \A c \in Core : Vmcs(vmcs[c])
  /\ vmxon \in [Core -> Nat] /\ current \in [Core -> Nat]
  /\ page \in Seq({caps.revision})

\* The bits that VMXON and an entry want, from enabling VMX on.
HostInv ==
  \A c \in Core :
    /\ {"PE", "PG"} \subseteq host[c].cr0
    /\ pc[c] \notin {"enable", "panic"} => "NE" \in host[c].cr0 /\ "VMXE" \in host[c].cr4

\* Every region is a page that was new when it was taken.
PageInv ==
  /\ \A c \in Core : vmxon[c] <= Len(page) /\ current[c] <= Len(page)
  /\ \A c \in Core : pc[c] \notin {"enable", "panic"} => vmxon[c] # 0
  /\ \A c \in Core : pc[c] \notin {"enable", "activate", "panic"} => current[c] # 0
  /\ \A c, d \in Core : vmxon[c] # 0 => vmxon[c] # current[d]
  /\ \A c, d \in Core : c # d /\ vmxon[c] # 0 => vmxon[c] # vmxon[d]
  /\ \A c, d \in Core : c # d /\ current[c] # 0 => current[c] # current[d]

\* The fields that never change again once they are written.
Fixed(m, c, h) ==
  /\ m["VirtualProcessorId"] = <<c + 1>> /\ m["MsrBitmap"] = <<{IA32_APIC_BASE}>>
  /\ m["EptPointer"] = <<"eptp">> /\ m["ApicAccessAddr"] = <<"apic_access_page">>
  /\ m["HostCr0"] = <<h.cr0>> /\ m["HostCr4"] = <<h.cr4>> /\ m["HostRsp"] = <<c>>
  /\ m["GuestCr0"] = <<{"NE"}>> /\ m["GuestCr4"] = <<{"VMXE"}>>
  /\ m["VmcsLinkPointer"] = <<-1>> /\ m["VmcsLinkPointerHigh"] = <<-1>>
  /\ m["Tr"] = <<Segment(0, 0, \h8B)>> /\ m["Ldtr"] = <<Segment(0, 0, \h82)>>

Controls(m, k) == \A f \in Ctrl : Written(m, f, k)

\* From the end of VCpu::new on.
Made == {"barrier", "wait", "launch"} \cup Inside

FieldInv ==
  \A c \in Core : pc[c] \in Made \cup {"notify"} =>
    /\ Fixed(vmcs[c], c, host[c])
    /\ Controls(vmcs[c], caps.ctrl)
    /\ 1 \in vmcs[c]["GuestRflags"][1]

\* An event is injected only between looking whether the guest can take it and
\* the guest's taking it.
EventInv ==
  \A c \in Core :
    vmcs[c]["VmEntryIntrInfoField"] # <<>> =>
      \/ pc[c] = "resume" /\ Interruptible(vmcs[c])
      \/ pc[c] \in {"guest", "panic", "failed"}

\* cpus_ready counts the cores at or behind the barrier.
ReadyInv == ready = Cardinality({c \in Core : pc[c] \in Made})

Inv == CapsInv /\ Types /\ HostInv /\ PageInv /\ FieldInv /\ EventInv

\* What the invariant says is what the processor checks.
LEMMA InvEntryOk ==
  ASSUME Inv, NEW c \in Core, pc[c] \in {"launch", "resume"}
  PROVE  EntryOk(c)
<1> DEFINE m == vmcs[c]
<1>1. Fixed(m, c, host[c]) /\ Controls(m, caps.ctrl) /\ 1 \in m["GuestRflags"][1]
  BY DEF Inv, FieldInv, Made, Inside
<1>2. current[c] # 0
  BY DEF Inv, PageInv
<1>3. \A f \in Ctrl : /\ m[f] # <<>>
                     /\ caps.ctrl[f].low \subseteq m[f][1]
                     /\ m[f][1] \subseteq caps.ctrl[f].high
  BY <1>1 DEF Controls, Written
<1>4. /\ m["VirtualProcessorId"] # <<>> /\ ~Has(m, "VirtualProcessorId", 0)
      /\ m["EptPointer"] # <<>> /\ m["MsrBitmap"] # <<>> /\ m["ApicAccessAddr"] # <<>>
  <2>1. m["VirtualProcessorId"] = <<c + 1>> /\ c + 1 # 0
    BY <1>1 DEF Fixed, Core
  <2> QED
    BY <1>1, <2>1 DEF Fixed, Has
<1>5. /\ m["HostCr0"] # <<>> /\ {"NE", "PE", "PG"} \subseteq m["HostCr0"][1]
      /\ m["HostCr4"] # <<>> /\ "VMXE" \in m["HostCr4"][1]
  <2>1. {"PE", "PG"} \subseteq host[c].cr0 /\ "NE" \in host[c].cr0 /\ "VMXE" \in host[c].cr4
    BY DEF Inv, HostInv
  <2>2. m["HostCr0"] = <<host[c].cr0>> /\ m["HostCr4"] = <<host[c].cr4>>
    BY <1>1 DEF Fixed
  <2> QED
    BY <2>1, <2>2
<1>6. /\ "NE" \in m["GuestCr0"][1] /\ "VMXE" \in m["GuestCr4"][1]
      /\ Has(m, "VmcsLinkPointer", -1) /\ Has(m, "VmcsLinkPointerHigh", -1)
      /\ m["Tr"][1].ar \in {\h8B, \h83} /\ m["Ldtr"][1].ar = \h82
  BY <1>1 DEF Fixed, Has, Segment
<1>7. m["VmEntryIntrInfoField"] # <<>> =>
        9 \in m["GuestRflags"][1] /\ m["GuestInterruptibilityInfo"][1] = {}
  BY DEF Inv, EventInv, Interruptible
<1> QED
  BY <1>1, <1>2, <1>3, <1>4, <1>5, <1>6, <1>7 DEF EntryOk

LEMMA InitInv == ASSUME CapabilitiesAssumption, Init PROVE Inv
<1> PICK p \in Capabilities : InitWith(p)
  BY DEF Init
<1> USE DEF InitWith
<1>1. CapsInv
  BY DEF CapsInv, CapabilitiesAssumption
<1>2. Types
  <2>1. page \in Seq({caps.revision})
    OBVIOUS
  <2>2. DOMAIN vmcs = Core /\ \A c \in Core : Vmcs(vmcs[c])
    BY DEF Vmcs, Empty
  <2> QED
    BY <2>1, <2>2 DEF Types, Pcs
<1>3. HostInv /\ FieldInv
  BY DEF HostInv, FieldInv, Made, Inside
<1>4. PageInv
  BY DEF PageInv
<1>5. EventInv
  BY DEF EventInv, Empty, Field
<1> QED
  BY <1>1, <1>2, <1>3, <1>4, <1>5 DEF Inv

-----------------------------------------------------------------------------
(* Steps.                                                                  *)

\* Vmx::enable takes a new page.
LEMMA EnableStep == ASSUME Inv, NEW c \in Core, Enable(c) PROVE Inv'
<1> USE DEF Inv
<1>0. UNCHANGED <<caps, current, vmcs>> /\ pc[c] = "enable"
  BY DEF Enable
<1>1. CASE ~caps.has_vmx
  <2>1. pc' = [pc EXCEPT ![c] = "panic"] /\ UNCHANGED <<host, page, vmxon>>
    BY <1>1 DEF Enable, Goto
  <2>2. CapsInv' /\ Types'
    BY <1>0, <2>1 DEF CapsInv, Types, Pcs, Vmcs
  <2>3. HostInv' /\ PageInv'
    BY <1>0, <2>1 DEF HostInv, PageInv, Types
  <2>4. FieldInv' /\ EventInv'
    BY <1>0, <2>1 DEF FieldInv, EventInv, Types, Made, Inside, Interruptible
  <2> QED
    BY <2>2, <2>3, <2>4
<1>2. CASE caps.has_vmx
  <2> DEFINE h == EnableBits(host[c])
             ok == check_vm_insruction(Flags(CanVmxon(h, caps.revision)))
  <2>1. /\ host' = [host EXCEPT ![c] = h]
        /\ page' = Append(page, caps.revision)
        /\ vmxon' = IF ok THEN [vmxon EXCEPT ![c] = Len(page')] ELSE vmxon
        /\ pc' = [pc EXCEPT ![c] = IF ok THEN "activate" ELSE "panic"]
    BY <1>2 DEF Enable, Goto
  <2>2. /\ h \in [cr0 : SUBSET {"NE", "PE", "PG"}, cr4 : SUBSET {"PAE", "VMXE"}]
        /\ {"NE", "PE", "PG"} \subseteq h.cr0 /\ "VMXE" \in h.cr4
    BY DEF EnableBits, Types, HostInv
  <2> HIDE DEF h, ok
  <2>3. page' \in Seq({caps.revision}) /\ Len(page') = Len(page) + 1 /\ Len(page) \in Nat
    BY <2>1 DEF Types
  <2>4. CapsInv' /\ Types'
    BY <1>0, <2>1, <2>2, <2>3 DEF CapsInv, Types, Pcs, Vmcs
  <2>5. HostInv'
    BY <1>0, <2>1, <2>2 DEF HostInv, Types
  <2>6. PageInv'
    <3>1. CASE ok
      BY <1>0, <2>1, <2>3, <3>1 DEF PageInv, Types
    <3>2. CASE ~ok
      BY <1>0, <2>1, <2>3, <3>2 DEF PageInv, Types
    <3> QED
      BY <3>1, <3>2
  <2>7. FieldInv'
    BY <1>0, <2>1 DEF FieldInv, Types, Made, Inside
  <2>8. EventInv'
    BY <1>0, <2>1 DEF EventInv, Types, Interruptible
  <2> QED
    BY <2>4, <2>5, <2>6, <2>7, <2>8
<1> QED
  BY <1>1, <1>2

\* So does Vmcs::new, for the region that becomes current.
LEMMA ActivateStep == ASSUME Inv, NEW c \in Core, Activate(c) PROVE Inv'
<1> USE DEF Inv
<1> DEFINE ok == check_vm_insruction(Flags(page'[Len(page')] = caps.revision
                                             /\ Len(page') # vmxon[c]))
<1>1. /\ UNCHANGED <<caps, host, vmxon, vmcs>> /\ pc[c] = "activate"
      /\ page' = Append(page, caps.revision)
      /\ current' = IF ok THEN [current EXCEPT ![c] = Len(page')] ELSE current
      /\ pc' = [pc EXCEPT ![c] = IF ok THEN "fill" ELSE "panic"]
  BY DEF Activate, Goto
<1> HIDE DEF ok
<1>2. page' \in Seq({caps.revision}) /\ Len(page') = Len(page) + 1 /\ Len(page) \in Nat
  BY <1>1 DEF Types
<1>3. CapsInv' /\ Types'
  BY <1>1, <1>2 DEF CapsInv, Types, Pcs, Vmcs
<1>4. HostInv'
  BY <1>1 DEF HostInv, Types
<1>5. PageInv'
  <2>1. CASE ok
    BY <1>1, <1>2, <2>1 DEF PageInv, Types
  <2>2. CASE ~ok
    BY <1>1, <1>2, <2>2 DEF PageInv, Types
  <2> QED
    BY <2>1, <2>2
<1>6. FieldInv'
  BY <1>1 DEF FieldInv, Types, Made, Inside
<1>7. EventInv'
  BY <1>1 DEF EventInv, Types, Interruptible
<1> QED
  BY <1>3, <1>4, <1>5, <1>6, <1>7

\* A step that only takes a core on, with its VMCS as it is.
LEMMA MoveStep ==
  ASSUME Inv, NEW c \in Core, NEW q \in Made \cup {"panic", "failed"}, pc' = [pc EXCEPT ![c] = q],
         pc[c] \in Made \cup {"notify"}, pc[c] \notin {"guest", "resume"} => q # "exit",
         pc[c] \in {"resume", "guest"} => q \in {"guest", "panic", "failed"},
         UNCHANGED <<caps, host, page, vmxon, current, vmcs>>
  PROVE  Inv'
<1> USE DEF Inv
<1>1. CapsInv' /\ Types'
  BY DEF CapsInv, Types, Pcs, Vmcs, Made, Inside
<1>2. HostInv' /\ PageInv'
  BY DEF HostInv, PageInv, Types, Made, Inside
<1>3. FieldInv'
  BY DEF FieldInv, Types, Made, Inside
<1>4. EventInv'
  BY DEF EventInv, Types, Interruptible, Made, Inside
<1> QED
  BY <1>1, <1>2, <1>3, <1>4

\* A step that writes fields of a complete VMCS.
LEMMA WriteStep ==
  ASSUME Inv, NEW c \in Core, NEW q \in Made \cup {"notify"}, pc' = [pc EXCEPT ![c] = q],
         pc[c] \in Made \cup {"fill"},
         NEW n, vmcs' = [vmcs EXCEPT ![c] = n], Vmcs(n),
         Fixed(n, c, host[c]), Controls(n, caps.ctrl), 1 \in n["GuestRflags"][1],
         n["VmEntryIntrInfoField"] # <<>> => q = "resume" /\ Interruptible(n),
         UNCHANGED <<caps, host, page, vmxon, current>>
  PROVE  Inv'
<1> USE DEF Inv
<1>0. vmcs'[c] = n /\ \A d \in Core : d # c => vmcs'[d] = vmcs[d]
  BY DEF Types
<1>1. CapsInv' /\ Types'
  BY <1>0 DEF CapsInv, Types, Pcs, Vmcs, Made, Inside
<1>2. HostInv' /\ PageInv'
  BY DEF HostInv, PageInv, Types, Made, Inside
<1>3. FieldInv'
  BY <1>0 DEF FieldInv, Types, Made, Inside
<1>4. EventInv'
  BY <1>0 DEF EventInv, Types, Interruptible, Made, Inside
<1> QED
  BY <1>1, <1>2, <1>3, <1>4

\* VCpu::new completes the VMCS or ends the core.
LEMMA FillStep == ASSUME Inv, NEW c \in Core, Fill(c) PROVE Inv'
<1> USE DEF Inv
<1> DEFINE s == Shared(vmcs[c])
           h == initialize_host_vmcs(c, s)
           g == initialize_guest_vmcs(h)
           res == initialize_ctrl_vmcs(c, g)
           K == {"EptPointer", "ApicAccessAddr", "HostCr0", "HostCr4", "HostRsp",
                 "VmEntryIntrInfoField"}
<1>1. /\ pc[c] = "fill"
      /\ vmcs' = [vmcs EXCEPT ![c] = IF res = <<>> THEN g ELSE res[1]]
      /\ pc' = [pc EXCEPT ![c] = IF res = <<>> THEN "panic" ELSE "notify"]
      /\ UNCHANGED <<caps, host, page, vmxon, current>>
  BY DEF Fill, Goto
<1>2. vmcs[c]["VmEntryIntrInfoField"] = <<>>
  BY <1>1 DEF EventInv
<1>3. /\ Vmcs(s) /\ s["EptPointer"] = <<"eptp">> /\ s["ApicAccessAddr"] = <<"apic_access_page">>
      /\ s["VmEntryIntrInfoField"] = <<>>
  <2> DEFINE e == write_field(vmcs[c], "EptPointer", "eptp")
  <2>1. Vmcs(vmcs[c]) /\ {"EptPointer", "ApicAccessAddr", "VmEntryIntrInfoField"} \subseteq Field
    BY DEF Types, Field
  <2>2. Vmcs(e) /\ e["EptPointer"] = <<"eptp">> /\ e["VmEntryIntrInfoField"] = <<>>
    BY <1>2, <2>1, WriteField
  <2>3. s = write_field(e, "ApicAccessAddr", "apic_access_page")
    BY DEF Shared
  <2> HIDE DEF e, s
  <2> QED
    BY <2>1, <2>2, <2>3, WriteField
<1> HIDE DEF s
<1>4. /\ Vmcs(h) /\ h["HostCr0"] = <<host[c].cr0>> /\ h["HostCr4"] = <<host[c].cr4>>
      /\ h["HostRsp"] = <<c>>
      /\ \A f \in {"EptPointer", "ApicAccessAddr", "VmEntryIntrInfoField"} : h[f] = s[f]
  BY <1>3 DEF initialize_host_vmcs, Vmcs, Field
<1> HIDE DEF h
<1>5. /\ Vmcs(g)
      /\ g["GuestCr0"] = <<{"NE"}>> /\ g["GuestCr4"] = <<{"VMXE"}>>
      /\ g["VmcsLinkPointer"] = <<-1>> /\ g["VmcsLinkPointerHigh"] = <<-1>>
      /\ g["GuestRflags"] = <<{1}>>
      /\ g["Tr"] = <<Segment(0, 0, \h8B)>> /\ g["Ldtr"] = <<Segment(0, 0, \h82)>>
      /\ \A f \in K : g[f] = h[f]
  BY GuestFields
<1> HIDE DEF g
<1>6. g["VmEntryIntrInfoField"] = <<>>
  BY <1>3, <1>4, <1>5
<1>7. CASE res = <<>>
  <2>1. vmcs' = [vmcs EXCEPT ![c] = g] /\ pc' = [pc EXCEPT ![c] = "panic"]
    BY <1>1, <1>7
  <2>2. vmcs'[c] = g /\ \A d \in Core : d # c => vmcs'[d] = vmcs[d]
    BY <2>1 DEF Types
  <2>3. CapsInv' /\ Types'
    BY <1>1, <1>5, <2>1, <2>2 DEF CapsInv, Types, Pcs
  <2>4. HostInv' /\ PageInv'
    BY <1>1, <2>1 DEF HostInv, PageInv, Types
  <2>5. FieldInv' /\ EventInv'
    BY <1>1, <2>1, <2>2 DEF FieldInv, EventInv, Types, Made, Inside, Interruptible
  <2> QED
    BY <2>3, <2>4, <2>5
<1>8. CASE res # <<>>
  <2> DEFINE n == res[1]
  <2>1. vmcs' = [vmcs EXCEPT ![c] = n] /\ pc' = [pc EXCEPT ![c] = "notify"]
    BY <1>1, <1>8
  <2>2. /\ Vmcs(n) /\ \A f \in Ctrl : Written(n, f, caps.ctrl)
        /\ n["VirtualProcessorId"] = <<c + 1>> /\ n["MsrBitmap"] = <<{IA32_APIC_BASE}>>
        /\ \A f \in Field \ (Ctrl \cup {"VirtualProcessorId", "MsrBitmap"}) : n[f] = g[f]
    BY <1>5, <1>8, CtrlFieldsWritten DEF CapsInv
  <2> HIDE DEF n, res
  <2>3. \A f \in K \cup {"GuestCr0", "GuestCr4", "VmcsLinkPointer", "VmcsLinkPointerHigh",
                       "GuestRflags", "Tr", "Ldtr"} : n[f] = g[f]
    BY <2>2 DEF Field, Ctrl, Segments
  <2>4. Fixed(n, c, host[c])
    BY <1>3, <1>4, <1>5, <2>2, <2>3 DEF Fixed
  <2>5. Controls(n, caps.ctrl)
    BY <2>2 DEF Controls
  <2>6. 1 \in n["GuestRflags"][1] /\ n["VmEntryIntrInfoField"] = <<>>
    BY <1>5, <1>6, <2>3
  <2> HIDE DEF Inv
  <2> QED
    BY <1>1, <2>1, <2>2, <2>4, <2>5, <2>6, WriteStep
<1> QED
  BY <1>7, <1>8

\* wait_for_init writes neither a control nor a field that an entry depends on.
LEMMA WaitForInitStep == ASSUME Inv, NEW c \in Core, WaitForInit(c) PROVE Inv'
<1> DEFINE m == vmcs[c]
           cs == [m["Cs"][1] EXCEPT !.sel = sipi[c][1] \div 16, !.base = 0]
           n == [m EXCEPT !["Cs"] = <<cs>>, !["GuestRip"] = <<0>>]
<1>1. /\ pc[c] = "wait" /\ vmcs' = [vmcs EXCEPT ![c] = n] /\ pc' = [pc EXCEPT ![c] = "launch"]
      /\ UNCHANGED <<caps, host, page, vmxon, current>>
  BY DEF WaitForInit, Goto, Inv, Types
<1>2. Vmcs(m) /\ Fixed(m, c, host[c]) /\ Controls(m, caps.ctrl) /\ 1 \in m["GuestRflags"][1]
  BY <1>1 DEF Inv, Types, FieldInv, Made
<1>3. m["VmEntryIntrInfoField"] = <<>>
  BY <1>1 DEF Inv, EventInv
<1> HIDE DEF m, cs
<1>4. Vmcs(n) /\ \A f \in Field \ {"Cs", "GuestRip"} : n[f] = m[f]
  BY <1>2 DEF Vmcs
<1> HIDE DEF n
<1>5. Fixed(n, c, host[c])
  BY <1>2, <1>4 DEF Fixed, Field, Segments
<1>6. Controls(n, caps.ctrl)
  BY <1>2, <1>4 DEF Controls, Written, Ctrl, Field
<1>7. 1 \in n["GuestRflags"][1] /\ n["VmEntryIntrInfoField"] = <<>>
  BY <1>2, <1>3, <1>4 DEF Field
<1> QED
  BY <1>1, <1>4, <1>5, <1>6, <1>7, WriteStep DEF Made

\* The guest changes its flags and takes what was injected.
LEMMA GuestRunsStep ==
  ASSUME Inv, NEW c \in Core, NEW flags, NEW blocking, GuestRuns(c, flags, blocking)
  PROVE  Inv'
<1> DEFINE m == vmcs[c]
           n == [m EXCEPT !["GuestRflags"] = << {1} \cup flags >>,
                          !["GuestInterruptibilityInfo"] = << blocking >>,
                          !["VmEntryIntrInfoField"] = <<>>]
<1>1. /\ pc[c] = "guest" /\ vmcs' = [vmcs EXCEPT ![c] = n] /\ pc' = [pc EXCEPT ![c] = "exit"]
      /\ UNCHANGED <<caps, host, page, vmxon, current>>
  BY DEF GuestRuns, Goto, Inv, Types
<1>2. Vmcs(m) /\ Fixed(m, c, host[c]) /\ Controls(m, caps.ctrl)
  BY <1>1 DEF Inv, Types, FieldInv, Made, Inside
<1> HIDE DEF m
<1>3. /\ Vmcs(n) /\ n["GuestRflags"] = << {1} \cup flags >> /\ n["VmEntryIntrInfoField"] = <<>>
      /\ \A f \in Field \ {"GuestRflags", "GuestInterruptibilityInfo", "VmEntryIntrInfoField"} :
           n[f] = m[f]
  BY <1>2 DEF Vmcs, Field
<1> HIDE DEF n
<1>4. Fixed(n, c, host[c])
  BY <1>2, <1>3 DEF Fixed, Field, Segments
<1>5. Controls(n, caps.ctrl)
  BY <1>2, <1>3 DEF Controls, Written, Ctrl, Field
<1>6. 1 \in n["GuestRflags"][1]
  BY <1>3
<1> QED
  BY <1>1, <1>3, <1>4, <1>5, <1>6, WriteStep DEF Made, Inside

\* Asking for an exit at an interrupt window, or no longer, is always allowed
\* and changes no control that was asked for.
LEMMA WindowField ==
  ASSUME CapsInv, NEW m, Vmcs(m), Controls(m, caps.ctrl), NEW on \in BOOLEAN
  PROVE  /\ Vmcs(SetWindow(m, on)) /\ Controls(SetWindow(m, on), caps.ctrl)
         /\ \A f \in Field \ {"CpuBasedVmExecControl"} : SetWindow(m, on)[f] = m[f]
<1> DEFINE F == "CpuBasedVmExecControl"
           W == "INTERRUPT_WINDOW_EXITING"
           v == IF on THEN m[F][1] \cup {W} ELSE m[F][1] \ {W}
           n == SetWindow(m, on)
<1>1. F \in Ctrl /\ F \in Field
  BY DEF Ctrl, Field
<1>2. Vmcs(n) /\ n[F] = <<v>> /\ \A f \in Field \ {F} : n[f] = m[f]
  BY <1>1 DEF SetWindow, Vmcs
<1>3. W \notin Requested(F)
  BY DEF Requested
<1>4. W \in caps.ctrl[F].high /\ W \notin caps.ctrl[F].low
  BY DEF CapsInv
<1>5. Written(m, F, caps.ctrl)
  BY <1>1 DEF Controls
<1>6. /\ Requested(F) \subseteq v /\ caps.ctrl[F].low \subseteq v
      /\ v \subseteq caps.ctrl[F].high
  BY <1>3, <1>4, <1>5 DEF Written
<1> HIDE DEF v, n
<1>7. Written(n, F, caps.ctrl)
  BY <1>2, <1>6 DEF Written
<1>8. ASSUME NEW f \in Ctrl PROVE Written(n, f, caps.ctrl)
  <2>1. CASE f = F
    BY <1>7, <2>1
  <2>2. CASE f # F
    <3>1. n[f] = m[f] /\ Written(m, f, caps.ctrl)
      BY <1>2, <2>2, CtrlFields DEF Controls
    <3> QED
      BY <3>1 DEF Written
  <2> QED
    BY <2>1, <2>2
<1>9. Controls(n, caps.ctrl)
  BY <1>8 DEF Controls
<1> QED
  BY <1>2, <1>9 DEF n

\* The end of handle_vmexit: an event is injected only into a guest that can
\* take it.
LEMMA ResumeStep == ASSUME Inv, NEW c \in Core, NEW k \in 0 .. 2, Resume(c, k) PROVE Inv'
<1> DEFINE m == vmcs[c]
           n == IF k = 0 THEN m
                ELSE IF ~Interruptible(m) THEN SetWindow(m, TRUE)
                ELSE [SetWindow(m, k > 1) EXCEPT !["VmEntryIntrInfoField"] = << "valid" >>]
           E == "VmEntryIntrInfoField"
           Good(x) == /\ Vmcs(x) /\ Controls(x, caps.ctrl)
                      /\ \A f \in Field \ {"CpuBasedVmExecControl", E} : x[f] = m[f]
<1>1. /\ pc[c] = "exit" /\ vmcs' = [vmcs EXCEPT ![c] = n] /\ pc' = [pc EXCEPT ![c] = "resume"]
      /\ UNCHANGED <<caps, host, page, vmxon, current>>
  BY DEF Resume, Goto
<1>2. /\ Vmcs(m) /\ Fixed(m, c, host[c]) /\ Controls(m, caps.ctrl)
      /\ 1 \in m["GuestRflags"][1]
  BY <1>1 DEF Inv, Types, FieldInv, Made, Inside
<1>3. m[E] = <<>>
  BY <1>1 DEF Inv, EventInv
<1>4. CapsInv
  BY DEF Inv
<1> HIDE DEF m
<1>5. Good(n) /\ (n[E] # <<>> => Interruptible(m))
  <2>1. CASE k = 0
    BY <1>2, <1>3, <2>1
  <2>2. CASE k # 0 /\ ~Interruptible(m)
    <3>1. Good(SetWindow(m, TRUE)) /\ SetWindow(m, TRUE)[E] = m[E]
      BY <1>2, <1>4, WindowField DEF Field
    <3> QED
      BY <1>3, <2>2, <3>1
  <2>3. CASE k # 0 /\ Interruptible(m)
    <3> DEFINE w == SetWindow(m, k > 1)
               x == [w EXCEPT ![E] = << "valid" >>]
    <3>0. (k > 1) \in BOOLEAN
      OBVIOUS
    <3>1. Good(w)
      BY <1>2, <1>4, <3>0, WindowField DEF Field
    <3> HIDE DEF w
    <3>2. Vmcs(x) /\ \A f \in Field \ {E} : x[f] = w[f]
      BY <3>1 DEF Vmcs
    <3> HIDE DEF x
    <3>3. Controls(x, caps.ctrl)
      BY <3>1, <3>2 DEF Controls, Written, Ctrl, Field
    <3>4. n = x
      BY <2>3 DEF w, x
    <3> HIDE DEF n
    <3> QED
      BY <2>3, <3>1, <3>2, <3>3, <3>4
  <2> QED
    BY <2>1, <2>2, <2>3
<1> HIDE DEF n
<1>6. Fixed(n, c, host[c])
  BY <1>2, <1>5 DEF Fixed, Field, Segments, Ctrl
<1>7. /\ n["GuestRflags"] = m["GuestRflags"]
      /\ n["GuestInterruptibilityInfo"] = m["GuestInterruptibilityInfo"]
  BY <1>5 DEF Field
<1>8. n[E] # <<>> => Interruptible(n)
  BY <1>5, <1>7 DEF Interruptible
<1>9. "resume" \in Made
  BY DEF Made, Inside
<1>10. pc[c] \in Made
  BY <1>1 DEF Made, Inside
<1> QED
  BY <1>1, <1>2, <1>5, <1>6, <1>7, <1>8, <1>9, <1>10, WriteStep

\* No entry fails, so that only the barrier and the entries move a core on.
LEMMA EntryStep ==
  ASSUME Inv, NEW c \in Core, Launch(c) \/ Vmresume(c)
  PROVE  /\ pc[c] \in {"launch", "resume"} /\ pc' = [pc EXCEPT ![c] = "guest"]
         /\ UNCHANGED <<caps, host, page, vmxon, current, vmcs, ready>>
<1>1. CASE Launch(c)
  <2>1. EntryOk(c)
    BY <1>1, InvEntryOk DEF Launch
  <2>2. check_vm_insruction(Flags(EntryOk(c)))
    BY <2>1 DEF check_vm_insruction, Flags
  <2> QED
    BY <1>1, <2>2 DEF Launch, Goto
<1>2. CASE Vmresume(c)
  <2>1. EntryOk(c)
    BY <1>2, InvEntryOk DEF Vmresume
  <2> QED
    BY <1>2, <2>1 DEF Vmresume, Goto
<1> QED
  BY <1>1, <1>2

LEMMA NextInv == ASSUME Inv, [Next]_vars PROVE Inv'
<1>1. ASSUME NEW c \in Core, NotifyReady(c) PROVE Inv'
  BY <1>1, MoveStep DEF NotifyReady, Goto, Made
<1>2. ASSUME NEW c \in Core, AllCoresReady(c) PROVE Inv'
  <2>1. PICK q \in {"launch", "wait"} : pc' = [pc EXCEPT ![c] = q]
    BY <1>2 DEF AllCoresReady, Goto
  <2> QED
    BY <1>2, <2>1, MoveStep DEF AllCoresReady, Made
<1>3. ASSUME NEW c \in Core, Launch(c) \/ Vmresume(c) PROVE Inv'
  BY <1>3, EntryStep, MoveStep DEF Made, Inside
<1>4. CASE UNCHANGED <<caps, pc, host, page, vmxon, current, vmcs>>
  <2>1. CapsInv' /\ Types'
    BY <1>4 DEF Inv, CapsInv, Types
  <2>2. HostInv' /\ PageInv'
    BY <1>4 DEF Inv, HostInv, PageInv
  <2>3. FieldInv'
    BY <1>4 DEF Inv, FieldInv
  <2>4. EventInv'
    BY <1>4 DEF Inv, EventInv, Interruptible
  <2> QED
    BY <2>1, <2>2, <2>3, <2>4 DEF Inv
<1>5. CASE UNCHANGED vars
  BY <1>4, <1>5 DEF vars
<1>6. ASSUME NEW c \in Core, NEW vec, SendSipi(c, vec) PROVE Inv'
  BY <1>4, <1>6 DEF SendSipi
<1> QED
  BY <1>1, <1>2, <1>3, <1>5, <1>6, EnableStep, ActivateStep, FillStep, WaitForInitStep,
     GuestRunsStep, ResumeStep DEF Next, Hypervisor

-----------------------------------------------------------------------------
(* The count of ready cores.                                               *)

LEMMA CoresFinite ==
  ASSUME NumCoresAssumption
  PROVE  IsFiniteSet(Core) /\ Cardinality(Core) = NumCores
<1>1. NumCores \in Nat \ {0} /\ 0 \in Int /\ NumCores - 1 \in Int
  BY DEF NumCoresAssumption
<1>2. /\ IsFiniteSet(0 .. NumCores - 1)
      /\ Cardinality(0 .. NumCores - 1) = IF 0 > NumCores - 1 THEN 0 ELSE (NumCores - 1) - 0 + 1
  BY <1>1, FS_Interval
<1> QED
  BY <1>1, <1>2 DEF Core

LEMMA ReadyStep ==
  ASSUME NumCoresAssumption, Inv, ReadyInv, [Next]_vars
  PROVE  ReadyInv'
<1> DEFINE S == {c \in Core : pc[c] \in Made}
<1>0. IsFiniteSet(S)
  BY CoresFinite, FS_Subset
<1>1. ASSUME NEW c \in Core, NotifyReady(c) PROVE ReadyInv'
  <2>1. pc[c] = "notify" /\ pc' = [pc EXCEPT ![c] = "barrier"] /\ ready' = ready + 1
    BY <1>1 DEF NotifyReady, Goto
  <2>2. c \notin S /\ S' = S \cup {c}
    BY <2>1 DEF Made, Inside, Inv, Types
  <2>3. Cardinality(S \cup {c}) = Cardinality(S) + 1
    BY <1>0, <2>2, FS_AddElement
  <2> QED
    BY <2>1, <2>2, <2>3 DEF ReadyInv
<1>2. ASSUME NEW c \in Core, NEW q, pc' = [pc EXCEPT ![c] = q], pc[c] \in Made <=> q \in Made,
             UNCHANGED ready
      PROVE  ReadyInv'
  <2>1. S' = S
    BY <1>2 DEF Inv, Types
  <2> QED
    BY <1>2, <2>1 DEF ReadyInv
<1>3. ASSUME NEW c \in Core, Enable(c) \/ Activate(c) \/ Fill(c) PROVE ReadyInv'
  <2>1. PICK q \in {"panic", "activate", "fill", "notify"} : pc' = [pc EXCEPT ![c] = q]
    BY <1>3 DEF Enable, Activate, Fill, Goto
  <2>2. pc[c] \notin Made /\ UNCHANGED ready
    BY <1>3 DEF Enable, Activate, Fill, Made, Inside
  <2>3. q \notin Made
    BY DEF Made, Inside
  <2> QED
    BY <1>2, <2>1, <2>2, <2>3
<1>4. ASSUME NEW c \in Core, AllCoresReady(c) PROVE ReadyInv'
  <2>1. PICK q \in {"launch", "wait"} : pc' = [pc EXCEPT ![c] = q]
    BY <1>4 DEF AllCoresReady, Goto
  <2> QED
    BY <1>2, <1>4, <2>1 DEF AllCoresReady, Made
<1>5. ASSUME NEW c \in Core, WaitForInit(c) PROVE ReadyInv'
  BY <1>2, <1>5 DEF WaitForInit, Goto, Made
<1>6. ASSUME NEW c \in Core, Launch(c) \/ Vmresume(c) PROVE ReadyInv'
  BY <1>2, <1>6, EntryStep DEF Made, Inside
<1>7. ASSUME NEW c \in Core, NEW k \in 0 .. 2, Resume(c, k) PROVE ReadyInv'
  BY <1>2, <1>7 DEF Resume, Goto, Made, Inside
<1>8. ASSUME NEW c \in Core, NEW flags, NEW blocking, GuestRuns(c, flags, blocking)
      PROVE  ReadyInv'
  BY <1>2, <1>8 DEF GuestRuns, Goto, Made, Inside
<1>9. CASE UNCHANGED <<pc, ready>>
  BY <1>9 DEF ReadyInv
<1>10. ASSUME NEW c \in Core, NEW vec, SendSipi(c, vec) PROVE ReadyInv'
  BY <1>9, <1>10 DEF SendSipi
<1> QED
  BY <1>1, <1>3, <1>4, <1>5, <1>6, <1>7, <1>8, <1>9, <1>10 DEF Next, Hypervisor, vars

-----------------------------------------------------------------------------
(* Theorems.                                                               *)

\* The invariant holds.
LEMMA Invariance == ASSUME CapabilitiesAssumption PROVE Spec => []Inv
<1>1. Init => Inv
  BY InitInv
<1>2. Inv /\ [Next]_vars => Inv'
  BY NextInv
<1> QED
  BY <1>1, <1>2, PTL DEF Spec

\* Whatever the processors can do and however many cores there are: a core that
\* VCpu::new has made a VMCS for satisfies what the processor checks at every
\* launch and every resume, so neither vmlaunch nor vmresume ever fails.
THEOREM NoEntryFails == ASSUME CapabilitiesAssumption PROVE Spec => []EntriesSucceed
<1>1. Inv => EntriesSucceed
  BY InvEntryOk DEF EntriesSucceed
<1> QED
  BY <1>1, Invariance, PTL

\* A guest runs with every control that initialize_ctrl_vmcs asks for, however
\* the interrupt window is asked for and withdrawn meanwhile, and reading the
\* APIC base is the one read of an MSR that exits.
THEOREM GuestRunsAsRequested == ASSUME CapabilitiesAssumption PROVE Spec => []RunsAsRequested
<1>1. ASSUME Inv, NEW c \in Core, pc[c] \in Inside
      PROVE  /\ \A f \in Ctrl : Requested(f) \subseteq vmcs[c][f][1]
             /\ Has(vmcs[c], "MsrBitmap", {IA32_APIC_BASE})
  BY <1>1 DEF Inv, FieldInv, Made, Fixed, Controls, Written, Has
<1>2. Inv => RunsAsRequested
  BY <1>1 DEF RunsAsRequested
<1> QED
  BY <1>2, Invariance, PTL

\* Cores in their guests share no VMXON region, no VMCS, no stack and no VPID,
\* and no VPID is zero.
THEOREM CoresStayApart == ASSUME CapabilitiesAssumption PROVE Spec => []CoresApart
<1>1. ASSUME Inv, NEW c \in Core, pc[c] \in Inside
      PROVE  /\ vmxon[c] # 0 /\ current[c] # 0
             /\ vmcs[c]["VirtualProcessorId"] = <<c + 1>> /\ vmcs[c]["HostRsp"] = <<c>>
  BY <1>1 DEF Inv, FieldInv, PageInv, Made, Inside, Fixed
<1>2. ASSUME Inv, NEW c \in Core, pc[c] \in Inside
      PROVE  vmxon[c] # current[c] /\ ~Has(vmcs[c], "VirtualProcessorId", 0)
  <2>1. vmxon[c] # current[c]
    BY <1>1, <1>2 DEF Inv, PageInv
  <2>2. c + 1 # 0
    BY DEF Core
  <2> QED
    BY <1>1, <1>2, <2>1, <2>2 DEF Has
<1>3. ASSUME Inv, NEW c \in Core, NEW d \in Core, c # d, pc[c] \in Inside, pc[d] \in Inside
      PROVE  /\ {vmxon[c], current[c]} \cap {vmxon[d], current[d]} = {}
             /\ vmcs[c]["VirtualProcessorId"] # vmcs[d]["VirtualProcessorId"]
             /\ vmcs[c]["HostRsp"] # vmcs[d]["HostRsp"]
  <2>1. {vmxon[c], current[c]} \cap {vmxon[d], current[d]} = {}
    BY <1>1, <1>3 DEF Inv, PageInv
  <2>2. <<c + 1>> # <<d + 1>> /\ <<c>> # <<d>>
    BY <1>3 DEF Core
  <2> QED
    BY <1>1, <1>3, <2>1, <2>2
<1>4. Inv => CoresApart
  BY <1>2, <1>3 DEF CoresApart
<1> QED
  BY <1>4, Invariance, PTL

\* cpus_ready counts the cores that have come to the barrier, and so never
\* exceeds their number; fields, regions and states are of their types.
THEOREM VmxTypeCorrect ==
  ASSUME CapabilitiesAssumption, NumCoresAssumption
  PROVE  Spec => []TypeOK
<1>1. Init => ReadyInv
  <2>1. ASSUME Init PROVE ReadyInv
    <3>1. {c \in Core : pc[c] \in Made} = {} /\ ready = 0
      BY <2>1 DEF Init, InitWith, Made, Inside
    <3> QED
      BY <3>1, FS_EmptySet DEF ReadyInv
  <2> QED
    BY <2>1
<1>2. Inv /\ ReadyInv /\ [Next]_vars => ReadyInv'
  BY ReadyStep
<1>3. ASSUME Inv, ReadyInv PROVE TypeOK
  <2>1. pc \in [Core -> Pcs] /\ \A c \in Core : DOMAIN vmcs[c] = Field
    BY <1>3 DEF Inv, Types, Vmcs
  <2>2. \A c \in Core : current[c] \in 0 .. Len(page)
    <3>1. current \in [Core -> Nat] /\ Len(page) \in Nat
      BY <1>3 DEF Inv, Types
    <3> QED
      BY <1>3, <3>1 DEF Inv, PageInv
  <2>3. ready \in 0 .. NumCores
    <3> DEFINE S == {c \in Core : pc[c] \in Made}
    <3>1. IsFiniteSet(S) /\ Cardinality(S) <= NumCores
      BY CoresFinite, FS_Subset
    <3>2. Cardinality(S) \in Nat
      BY <3>1, FS_CardinalityType
    <3> QED
      BY <1>3, <3>1, <3>2 DEF ReadyInv, NumCoresAssumption
  <2> QED
    BY <2>1, <2>2, <2>3 DEF TypeOK
<1> QED
  BY <1>1, <1>2, <1>3, Invariance, PTL DEF Spec
=============================================================================
