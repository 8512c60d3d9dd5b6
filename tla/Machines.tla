------------------------------ MODULE Machines ------------------------------
(***************************************************************************)
(* The static part of VirtualMachineSet (vm.rs): which virtual machines    *)
(* exist, which physical cores each one owns, and the look-ups the rest of *)
(* the hypervisor makes in it.  The set is built once by the BSP before    *)
(* any core enters mp_entry_point and is read-only afterwards.             *)
(*                                                                         *)
(* It also fixes the vocabulary of the messages the cores exchange         *)
(* (VirtualMachineMsg) and the interrupt vectors involved.                 *)
(***************************************************************************)
EXTENDS Integers, Sequences

CONSTANTS
  NumVms,         \* VirtualMachineSet::count()
  Cpus,           \* Cpus[v] is VirtualMachine.cpus of the VM with id v
  MaxPendingMsg   \* MAX_PENDING_MSG, the capacity of a core's msgqueue

VmId == 0 .. NumVms - 1

\* The cores of one VM, and every core that belongs to some VM.
CoresOf(v) == {Cpus[v][i] : i \in 1 .. Len(Cpus[v])}

Core == UNION {CoresOf(v) : v \in VmId}

(***************************************************************************)
(* mythril.cfg lists at least one core for every VM and no core twice.     *)
(* The code does not check this: it relies on it, since a core runs        *)
(* exactly one VCPU and notify_ready is called once per core.              *)
(***************************************************************************)
ASSUME MachinesAssumption ==
  /\ NumVms \in Nat \ {0}
  /\ Cpus \in [VmId -> Seq(Nat)]
  /\ \A v \in VmId : Len(Cpus[v]) > 0
  /\ \A v \in VmId : \A i, j \in 1 .. Len(Cpus[v]) :
        Cpus[v][i] = Cpus[v][j] => i = j
  /\ \A v, w \in VmId : CoresOf(v) \cap CoresOf(w) # {} => v = w
  /\ MaxPendingMsg \in Nat \ {0}

\* get_by_core_id: the VM whose context carries the core's id.
VmOf(c) == CHOOSE v \in VmId : c \in CoresOf(v)

\* bsp_id: the first core of the VM's list.
Bsp(v) == Cpus[v][1]

\* Mutant: the console is passed on to the VM that has it.
NextVm_Same(v) == v % NumVms

\* handle_vmexit_impl: (vmid + 1) % count.
NextVm(v) == (v + 1) % NumVms

(***************************************************************************)
(* Interrupt vectors.  UART, TIMER and IPC are host vectors; gsi_vector is *)
(* the guest vector of a GSI (gsi_destination).                            *)
(***************************************************************************)
UART  == 36
TIMER == 48
IPC   == 49
HostVector == {UART, TIMER, IPC}

gsi_vector(gsi) == gsi + 48
PIT_GSI  == 0
UART_GSI == 4

(***************************************************************************)
(* VirtualMachineMsg.  The payloads that matter to the control flow are    *)
(* the kind of the message and the vector of a GuestInterrupt; the UART    *)
(* handle inside GrantConsole is what makes that message special: it is a  *)
(* value that is moved, not copied.                                        *)
(***************************************************************************)
MsgType == {"None", "GrantConsole", "CancelTimer", "GuestInterrupt", "StartVcpu"}

Msg == [type : MsgType, vector : Nat]

NoMsg             == [type |-> "None", vector |-> 0]
GrantConsole      == [type |-> "GrantConsole", vector |-> 0]
CancelTimer       == [type |-> "CancelTimer", vector |-> 0]
StartVcpu         == [type |-> "StartVcpu", vector |-> 0]
GuestInterrupt(v) == [type |-> "GuestInterrupt", vector |-> v]
=============================================================================
