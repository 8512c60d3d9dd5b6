-------------------------------- MODULE Boot --------------------------------
(***************************************************************************)
(* How the boot processor brings up the other cores (kmain.rs, ap.rs,      *)
(* ap_startup.S, percore.rs).                                              *)
(*                                                                         *)
(* One mailbox in memory, AP_STACK_ADDR and AP_IDX, is used for one core   *)
(* after the other; AP_READY tells the boot processor that the mailbox has *)
(* been read.  Stores of the boot processor go through its store buffer,   *)
(* as on any x86 processor: they reach memory in order, some time later,   *)
(* and only the fence waits for them.                                      *)
(*                                                                         *)
(* Cores are numbered by their place in the MADT.  The boot processor is   *)
(* the first of them, as kmain and percore::init_sections take for         *)
(* granted (core id 0 is its own).                                         *)
(***************************************************************************)
EXTENDS Integers, Sequences

CONSTANTS
  NumCores,   \* apic_ids.len(), the local APICs in the MADT
  Assigned    \* the core ids that mythril.cfg gives to some VM

ASSUME BootAssumption ==
  /\ NumCores \in Nat \ {0}
  /\ Assigned \subseteq 0 .. NumCores - 1

AP == 1 .. NumCores - 1

VARIABLES
  bsp,       \* where the boot processor is in the loop of kmain
  idx,       \* the loop's index
  stacks,    \* number of stacks allocated so far; stack n is the n-th one
  memory,    \* the mailbox and AP_READY, as the other processors see them
  buffer,    \* the boot processor's store buffer, oldest first
  ap,        \* where each other core is
  rsp,       \* the stack each core runs on, 0 if none yet
  core_id    \* the core id each core was given, 0 if none yet

vars == <<bsp, idx, stacks, memory, buffer, ap, rsp, core_id>>

Cell == {"AP_STACK_ADDR", "AP_IDX", "AP_READY"}

Store(cell, value) == [cell |-> cell, value |-> value]

(***************************************************************************)
(* What a load of the boot processor returns: its own youngest buffered    *)
(* store to the cell, or else memory.                                      *)
(***************************************************************************)
Buffered(cell) == {i \in 1 .. Len(buffer) : buffer[i].cell = cell}

Load(cell) ==
  IF Buffered(cell) = {} THEN memory[cell]
  ELSE buffer[CHOOSE i \in Buffered(cell) : \A j \in Buffered(cell) : j <= i].value

Init ==
  /\ bsp = "loop"
  /\ idx = 0
  /\ stacks = 0
  /\ memory = [cell \in Cell |-> 0]
  /\ buffer = <<>>
  /\ ap = [c \in AP |-> "off"]
  /\ rsp = [c \in AP |-> 0]
  /\ core_id = [c \in AP |-> 0]

-----------------------------------------------------------------------------
(* The boot processor: the loop over apic_ids in kmain.                    *)

\* Its own entry and cores no VM uses are passed over.
SkipCore ==
  /\ bsp = "loop"
  /\ idx < NumCores
  /\ idx = 0 \/ idx \notin Assigned
  /\ idx' = idx + 1
  /\ UNCHANGED <<bsp, stacks, memory, buffer, ap, rsp, core_id>>

\* Mutant: core ids are counted from one.
WriteMailbox_OneBased ==
  /\ bsp = "loop"
  /\ idx \in AP \cap Assigned
  /\ stacks' = stacks + 1
  /\ buffer' = buffer \o <<Store("AP_STACK_ADDR", stacks + 1), Store("AP_IDX", idx + 1)>>
  /\ bsp' = "fence"
  /\ UNCHANGED <<idx, memory, ap, rsp, core_id>>

\* A stack is allocated, and it and the core id go into the mailbox.
WriteMailbox ==
  /\ bsp = "loop"
  /\ idx \in AP \cap Assigned
  /\ stacks' = stacks + 1
  /\ buffer' = buffer \o <<Store("AP_STACK_ADDR", stacks + 1), Store("AP_IDX", idx)>>
  /\ bsp' = "fence"
  /\ UNCHANGED <<idx, memory, ap, rsp, core_id>>

\* Mutant: no fence between the mailbox and the IPIs.
Fence_Missing ==
  /\ bsp = "fence"
  /\ bsp' = "init"
  /\ UNCHANGED <<idx, stacks, memory, buffer, ap, rsp, core_id>>

\* fence(SeqCst): every earlier store has reached memory.
Fence ==
  /\ bsp = "fence"
  /\ buffer = <<>>
  /\ bsp' = "init"
  /\ UNCHANGED <<idx, stacks, memory, buffer, ap, rsp, core_id>>

SendInit ==
  /\ bsp = "init"
  /\ ap' = [ap EXCEPT ![idx] = "init"]
  /\ bsp' = "sipi"
  /\ UNCHANGED <<idx, stacks, memory, buffer, rsp, core_id>>

SendSipi ==
  /\ bsp = "sipi"
  /\ ap' = [ap EXCEPT ![idx] = "startup"]
  /\ bsp' = "wait"
  /\ UNCHANGED <<idx, stacks, memory, buffer, rsp, core_id>>

\* Mutant: the ready flag is left set.
AwaitReady_NoClear ==
  /\ bsp = "wait"
  /\ Load("AP_READY") = 1
  /\ idx' = idx + 1
  /\ bsp' = "loop"
  /\ UNCHANGED <<stacks, memory, buffer, ap, rsp, core_id>>

\* The spin on AP_READY ends; the flag is cleared for the next core.
AwaitReady ==
  /\ bsp = "wait"
  /\ Load("AP_READY") = 1
  /\ buffer' = Append(buffer, Store("AP_READY", 0))
  /\ idx' = idx + 1
  /\ bsp' = "loop"
  /\ UNCHANGED <<stacks, memory, ap, rsp, core_id>>

\* After the loop the boot processor goes on to mp_entry_point as core 0, or
\* idles if no VM uses it.
LoopDone ==
  /\ bsp = "loop"
  /\ idx = NumCores
  /\ bsp' = IF 0 \in Assigned THEN "entry" ELSE "idle"
  /\ UNCHANGED <<idx, stacks, memory, buffer, ap, rsp, core_id>>

\* The oldest buffered store reaches memory.
Drain ==
  /\ buffer # <<>>
  /\ memory' = [memory EXCEPT ![Head(buffer).cell] = Head(buffer).value]
  /\ buffer' = Tail(buffer)
  /\ UNCHANGED <<bsp, idx, stacks, ap, rsp, core_id>>

-----------------------------------------------------------------------------
(* The other cores: ap_startup_64 and ap_entry.                            *)

\* mov rsp, [AP_STACK_ADDR]
LoadStack(c) ==
  /\ ap[c] = "startup"
  /\ rsp' = [rsp EXCEPT ![c] = memory["AP_STACK_ADDR"]]
  /\ ap' = [ap EXCEPT ![c] = "stack"]
  /\ UNCHANGED <<bsp, idx, stacks, memory, buffer, core_id>>

\* Mutant: the core acknowledges before it has read its index.
PushIdx_Late(c) ==
  /\ \/ /\ ap[c] = "stack"
        /\ memory' = [memory EXCEPT !["AP_READY"] = 1]
        /\ ap' = [ap EXCEPT ![c] = "acknowledged"]
        /\ UNCHANGED core_id
     \/ /\ ap[c] = "acknowledged"
        /\ core_id' = [core_id EXCEPT ![c] = memory["AP_IDX"]]
        /\ ap' = [ap EXCEPT ![c] = "rust"]
        /\ UNCHANGED memory
  /\ UNCHANGED <<bsp, idx, stacks, buffer, rsp>>

\* push qword [AP_IDX]: the ApData that ap_entry gets.
PushIdx(c) ==
  /\ ap[c] = "stack"
  /\ core_id' = [core_id EXCEPT ![c] = memory["AP_IDX"]]
  /\ ap' = [ap EXCEPT ![c] = "pushed"]
  /\ UNCHANGED <<bsp, idx, stacks, memory, buffer, rsp>>

\* mov byte [AP_READY], 1
SetReady(c) ==
  /\ ap[c] = "pushed"
  /\ memory' = [memory EXCEPT !["AP_READY"] = 1]
  /\ ap' = [ap EXCEPT ![c] = "rust"]
  /\ UNCHANGED <<bsp, idx, stacks, buffer, rsp, core_id>>

(***************************************************************************)
(* ap_entry: init_segment_for_core makes section core_id - 1 of            *)
(* AP_PER_CORE_SECTIONS the core's own (an index out of range panics),     *)
(* LocalApic::init switches the local APIC on, and the core goes on to     *)
(* mp_entry_point.                                                         *)
(***************************************************************************)
ApEntry(c) ==
  /\ ap[c] = "rust"
  /\ ap' = [ap EXCEPT ![c] = IF core_id[c] \in 0 .. NumCores - 1 THEN "entry" ELSE "panic"]
  /\ UNCHANGED <<bsp, idx, stacks, memory, buffer, rsp, core_id>>

BspStep ==
  \/ SkipCore
  \/ WriteMailbox
  \/ Fence
  \/ SendInit
  \/ SendSipi
  \/ AwaitReady
  \/ LoopDone

ApStep(c) == LoadStack(c) \/ PushIdx(c) \/ SetReady(c) \/ ApEntry(c)

Next ==
  \/ BspStep
  \/ Drain
  \/ \E c \in AP : ApStep(c)

Spec == Init /\ [][Next]_vars

-----------------------------------------------------------------------------
(* Properties                                                              *)

\* The shape of the state.
TypeOK ==
  /\ bsp \in {"loop", "fence", "init", "sipi", "wait", "idle", "entry"}
  /\ idx \in 0 .. NumCores
  /\ stacks \in Nat
  /\ memory \in [Cell -> Nat]
  /\ buffer \in Seq([cell : Cell, value : Nat])
  /\ ap \in [AP -> {"off", "init", "startup", "stack", "pushed", "rust", "entry"}]
  /\ rsp \in [AP -> Nat]
  /\ core_id \in [AP -> Nat]

\* Where a core has its stack, and where it also has its core id.
OnStack == {"stack", "pushed", "rust", "entry"}
HasId   == {"pushed", "rust", "entry"}

\* The mailbox protocol gives every core what was meant for it: no two cores
\* ever run on the same stack or on none, although all stack addresses go
\* through the one AP_STACK_ADDR.
StacksAreDistinct ==
  \A c \in AP : ap[c] \in OnStack =>
    /\ rsp[c] \in 1 .. stacks
    /\ \A d \in AP \ {c} : ap[d] \in OnStack => rsp[c] # rsp[d]

\* Every core gets the core id of its own place in the MADT through AP_IDX,
\* so that no two cores share a per-core section or a VCPU.
IdsAreOwn == \A c \in AP : ap[c] \in HasId => core_id[c] = c

(***************************************************************************)
(* Each processor runs on by itself, and stores do not stay in a buffer    *)
(* for ever.                                                               *)
(***************************************************************************)
Fairness ==
  /\ WF_vars(BspStep)
  /\ WF_vars(Drain)
  /\ \A c \in AP : WF_vars(ApStep(c))

FairSpec == Spec /\ Fairness

\* The boot ends: the loop of kmain never waits for an AP_READY that was
\* overwritten or has not been sent, and every core of a VM gets to
\* mp_entry_point.
BootCompletes ==
  <>(/\ bsp \in {"idle", "entry"}
     /\ \A c \in AP \cap Assigned : ap[c] = "entry")
=============================================================================
