-------------------------------- MODULE Vcpu --------------------------------
(***************************************************************************)
(* The running hypervisor: one VCPU per physical core (vcpu.rs), the       *)
(* inter-core message queues (vm.rs), the guest's local APIC               *)
(* (virtdev/lapic.rs) and the console hand-over (virtdev/com.rs).          *)
(*                                                                         *)
(* Cores run concurrently and share only what the code shares: the queues  *)
(* (one lock each), the serial slot of each VM, the UART device of each    *)
(* VM, the logical destination registers and the I/O APIC's redirection    *)
(* entry for the UART.  A handler is therefore not one atomic step: its    *)
(* remaining work is the sequence todo[c], and each element of it touches  *)
(* shared state once.  In particular send_msg_core pushes the message      *)
(* under the queue's lock and sends the interrupt in a later step.         *)
(*                                                                         *)
(* Hypervisor code runs with interrupts disabled: an interrupt that        *)
(* arrives while a core is in it stays pending in the core's local APIC    *)
(* (irr) and causes an exit once the guest runs.                           *)
(***************************************************************************)
EXTENDS Machines, FiniteSets

CONSTANTS
  Keys,           \* bytes that arrive on the host UART: {"ctrl_a", "other"}
  IpiVectors,     \* vectors guests put in the ICR
  IcrDests,       \* destinations (the top byte) guests put in the ICR
  LdrValues,      \* logical ids (the top byte) guests put in their LDR
  TimerVectors,   \* guest vectors of the timers that may expire
  MaxStimuli      \* bound on the number of external stimuli in a behaviour

ASSUME StimuliAssumption ==
  /\ "none" \notin Keys
  /\ IpiVectors \subseteq Nat
  /\ IcrDests \subseteq Nat
  /\ LdrValues \subseteq Nat
  /\ TimerVectors \subseteq Nat
  /\ MaxStimuli \in Nat

(***************************************************************************)
(* kmain routes the UART interrupt to APIC id 0 and gives the console to   *)
(* VM 0; the two agree only if VM 0 boots on core 0.                       *)
(***************************************************************************)
ASSUME InitialRouteAssumption == Bsp(0) = 0

VARIABLES
  pc,                   \* where each core is
  todo,                 \* what is left of the core's handle_vmexit_impl
  msgqueue,             \* VirtualMachineContext.msgqueue of each core
  irr,                  \* host vectors pending in each core's local APIC
  pending,              \* VCpu.pending_interrupts (the keys of the map)
  window,               \* INTERRUPT_WINDOW_EXITING of each core's VMCS
  interruptible,        \* RFLAGS.IF set and no blocking, per guest core
  icr_destination,      \* virtdev::lapic::LocalApic.icr_destination
  logical_destination,  \* LogicalApicState.logical_destination
  cpus_ready,           \* VirtualMachine.cpus_ready
  serial,               \* host_devices.serial.is_some(), per VM
  ctrl_a_count,         \* virtdev::com::Uart8250.ctrl_a_count, per VM
  uart_dest,            \* core the I/O APIC sends the UART interrupt to
  rbr,                  \* byte waiting in the host UART, or "none"
  stimuli               \* number of external stimuli so far

bootVars  == <<cpus_ready>>
guestVars == <<pending, window, interruptible>>
lapicVars == <<icr_destination, logical_destination>>
uartVars  == <<serial, ctrl_a_count, uart_dest, rbr>>

vars == <<pc, todo, msgqueue, irr, guestVars, lapicVars, bootVars, uartVars,
          stimuli>>

-----------------------------------------------------------------------------
(* The work items of a handler.                                            *)

NoDest == -1

OpName == {"recv_all_msgs", "handle_msg", "keypress", "route_interrupt",
           "next_console", "send_msg", "guest_ipi", "send_ipi", "map_gsi"}

Op == [op : OpName, dst : Core, msg : Msg, mask : Int]

Work(name, d, m) == [op |-> name, dst |-> d, msg |-> m, mask |-> NoDest]

\* Mutant: the console is granted without notifying the receiver.
Notify_NotGrant(m) == m.type \notin {"StartVcpu", "GrantConsole"}

(***************************************************************************)
(* send_msg_core is always called with notify = true, except for StartVcpu *)
(* (process_sipi_request).                                                 *)
(***************************************************************************)
Notify(m) == m.type # "StartVcpu"

Bits(n) == {i \in 0 .. 7 : (n \div 2^i) % 2 = 1}

\* logical_apic_destination, flat model: destination & mask != 0.
LogicalMatch(d, mask) == Bits(logical_destination[d]) \cap Bits(mask) # {}

Lowest(S)  == CHOOSE v \in S : \A w \in S : v <= w
Highest(S) == CHOOSE v \in S : \A w \in S : v >= w

-----------------------------------------------------------------------------
Init ==
  /\ pc = [c \in Core |-> "entry"]
  /\ todo = [c \in Core |-> <<>>]
  /\ msgqueue = [c \in Core |-> <<>>]
  /\ irr = [c \in Core |-> {}]
  /\ pending = [c \in Core |-> {}]
  /\ window = [c \in Core |-> FALSE]
  /\ interruptible = [c \in Core |-> FALSE]
  /\ icr_destination = [c \in Core |-> NoDest]
  /\ logical_destination = [c \in Core |-> 0]
  /\ cpus_ready = [v \in VmId |-> 0]
  /\ serial = [v \in VmId |-> v = 0]
  /\ ctrl_a_count = [v \in VmId |-> 0]
  /\ uart_dest = 0
  /\ rbr = "none"
  /\ stimuli = 0

Stimulus == stimuli < MaxStimuli /\ stimuli' = stimuli + 1

-----------------------------------------------------------------------------
(* mp_entry_point                                                          *)

\* VCpu::new has succeeded; the core counts itself ready.
NotifyReady(c) ==
  /\ pc[c] = "entry"
  /\ cpus_ready' = [cpus_ready EXCEPT ![VmOf(c)] = @ + 1]
  /\ pc' = [pc EXCEPT ![c] = "barrier"]
  /\ UNCHANGED <<todo, msgqueue, irr, guestVars, lapicVars, uartVars, stimuli>>

\* Mutant: the barrier opens one core too early.
AllCoresReady_OffByOne(c) ==
  /\ pc[c] = "barrier"
  /\ cpus_ready[VmOf(c)] >= Len(Cpus[VmOf(c)]) - 1
  /\ pc' = [pc EXCEPT ![c] = IF c = Bsp(VmOf(c)) THEN "guest" ELSE "waiting"]
  /\ UNCHANGED <<todo, msgqueue, irr, guestVars, lapicVars, bootVars, uartVars,
                 stimuli>>

\* The spin on all_cores_ready ends: the VM's BSP launches its guest, every
\* other core goes on to wait_for_init.
AllCoresReady(c) ==
  /\ pc[c] = "barrier"
  /\ cpus_ready[VmOf(c)] = Len(Cpus[VmOf(c)])
  /\ pc' = [pc EXCEPT ![c] = IF c = Bsp(VmOf(c)) THEN "guest" ELSE "waiting"]
  /\ UNCHANGED <<todo, msgqueue, irr, guestVars, lapicVars, bootVars, uartVars,
                 stimuli>>

\* Mutant: a message that is not StartVcpu is left at the head of the queue.
WaitForInit_Peeks(c) ==
  /\ pc[c] = "waiting"
  /\ msgqueue[c] # <<>>
  /\ Head(msgqueue[c]).type = "StartVcpu"
  /\ msgqueue' = [msgqueue EXCEPT ![c] = Tail(@)]
  /\ pc' = [pc EXCEPT ![c] = "guest"]
  /\ UNCHANGED <<todo, irr, guestVars, lapicVars, bootVars, uartVars, stimuli>>

\* One iteration of wait_for_init that finds a message: StartVcpu launches
\* the guest core, any other message is dropped with a warning.
WaitForInit(c) ==
  /\ pc[c] = "waiting"
  /\ msgqueue[c] # <<>>
  /\ msgqueue' = [msgqueue EXCEPT ![c] = Tail(@)]
  /\ pc' = [pc EXCEPT ![c] = IF Head(msgqueue[c]).type = "StartVcpu"
                             THEN "guest" ELSE "waiting"]
  /\ UNCHANGED <<todo, irr, guestVars, lapicVars, bootVars, uartVars, stimuli>>

-----------------------------------------------------------------------------
(* The world outside: the terminal, the local APIC timer, the guests.      *)

(***************************************************************************)
(* A byte arrives on the host UART.  The redirection entry is edge         *)
(* triggered (map_gsi_vector), so only a byte that finds the receive       *)
(* register empty raises an interrupt; otherwise it overruns the one       *)
(* before it.                                                              *)
(***************************************************************************)
KeyPress(k) ==
  /\ Stimulus
  /\ rbr' = k
  /\ irr' = IF rbr = "none" THEN [irr EXCEPT ![uart_dest] = @ \cup {UART}]
                            ELSE irr
  /\ UNCHANGED <<pc, todo, msgqueue, guestVars, lapicVars, bootVars, serial,
                 ctrl_a_count, uart_dest>>

\* The one-shot count programmed by schedule_interrupt reaches zero.
ApicTimer(c) ==
  /\ TimerVectors # {}
  /\ Stimulus
  /\ pc[c] \in {"guest", "exit"}
  /\ irr' = [irr EXCEPT ![c] = @ \cup {TIMER}]
  /\ UNCHANGED <<pc, todo, msgqueue, guestVars, lapicVars, bootVars, uartVars>>

\* The processor leaves the guest before its next instruction when the
\* interrupt window opens or an external interrupt is pending.
WindowOpen(c) == window[c] /\ interruptible[c]
ExitDue(c) == WindowOpen(c) \/ irr[c] # {}

GuestRuns(c) == pc[c] = "guest" /\ ~ExitDue(c)

\* The guest sets or clears RFLAGS.IF (sti, cli, iret, popf).
GuestFlipsIF(c) ==
  /\ GuestRuns(c)
  /\ interruptible' = [interruptible EXCEPT ![c] = ~@]
  /\ UNCHANGED <<pc, todo, msgqueue, irr, pending, window, lapicVars, bootVars,
                 uartVars, stimuli>>

-----------------------------------------------------------------------------
(* VM exits: what handle_vmexit_impl starts with, by exit reason.          *)

VmExit(c, work) ==
  /\ pc' = [pc EXCEPT ![c] = "exit"]
  /\ todo' = [todo EXCEPT ![c] = work]

(***************************************************************************)
(* ExternalInterrupt.  The local APIC hands over the pending vector of     *)
(* highest priority, and acknowledging it on exit clears it.  eoi() only   *)
(* re-opens the local APIC, which the guest cannot notice before the core  *)
(* enters it again.                                                        *)
(***************************************************************************)
ExternalInterrupt(c) ==
  /\ pc[c] = "guest"
  /\ ~WindowOpen(c)
  /\ irr[c] # {}
  /\ LET v == Highest(irr[c]) IN
       /\ irr' = [irr EXCEPT ![c] = @ \ {v}]
       /\ \/ v = UART /\ VmExit(c, <<Work("keypress", c, NoMsg)>>)
          \/ v = IPC /\ VmExit(c, <<Work("recv_all_msgs", c, NoMsg)>>)
          \/ v = TIMER /\ VmExit(c, <<>>)
  /\ UNCHANGED <<msgqueue, guestVars, lapicVars, bootVars, uartVars, stimuli>>

InterruptWindow(c) ==
  /\ pc[c] = "guest"
  /\ WindowOpen(c)
  /\ VmExit(c, <<>>)
  /\ UNCHANGED <<msgqueue, irr, guestVars, lapicVars, bootVars, uartVars, stimuli>>

\* Any exit whose handling stays on this core: CPUID, CR and MSR accesses,
\* devices that give no response, the other local APIC registers.
OtherExit(c) ==
  /\ GuestRuns(c)
  /\ VmExit(c, <<>>)
  /\ UNCHANGED <<msgqueue, irr, guestVars, lapicVars, bootVars, uartVars, stimuli>>

\* register_write of the ICR's destination half.
WriteIcrDestination(c, d) ==
  /\ GuestRuns(c)
  /\ icr_destination' = [icr_destination EXCEPT ![c] = d]
  /\ VmExit(c, <<>>)
  /\ UNCHANGED <<msgqueue, irr, guestVars, logical_destination, bootVars,
                 uartVars, stimuli>>

\* register_write of the logical destination register.
WriteLogicalDestination(c, d) ==
  /\ GuestRuns(c)
  /\ logical_destination' = [logical_destination EXCEPT ![c] = d]
  /\ VmExit(c, <<>>)
  /\ UNCHANGED <<msgqueue, irr, guestVars, icr_destination, bootVars, uartVars,
                 stimuli>>

\* process_interrupt_command visits the VM's cores in order.
IpiWork(c, vector, mask) ==
  [i \in 1 .. Len(Cpus[VmOf(c)]) |->
     [op |-> "guest_ipi", dst |-> Cpus[VmOf(c)][i],
      msg |-> GuestInterrupt(vector), mask |-> mask]]

(***************************************************************************)
(* register_write of the ICR's command half, which always leaves           *)
(* icr_destination empty.  The destination is that of the moment of the    *)
(* exit.                                                                   *)
(***************************************************************************)
WriteIcrCommand(c, work) ==
  /\ GuestRuns(c)
  /\ icr_destination' = [icr_destination EXCEPT ![c] = NoDest]
  /\ VmExit(c, work)
  /\ UNCHANGED <<msgqueue, irr, guestVars, logical_destination, bootVars, uartVars>>

\* process_sipi_request takes the destination for a core, of whatever VM.  The
\* mask of the work is a destination that is none.
StartUpWork(c, dest) ==
  IF dest \in Core THEN Work("send_msg", dest, StartVcpu)
  ELSE [op |-> "send_msg", dst |-> c, msg |-> StartVcpu, mask |-> dest]

StartUpIpi(c) ==
  /\ Stimulus
  /\ icr_destination[c] # NoDest
  /\ WriteIcrCommand(c, <<StartUpWork(c, icr_destination[c])>>)

AllExcludingSelfIpi(c, vector) ==
  /\ Stimulus
  /\ WriteIcrCommand(c, IpiWork(c, vector, NoDest))

LogicalIpi(c, vector) ==
  /\ Stimulus
  /\ icr_destination[c] # NoDest
  /\ WriteIcrCommand(c, IpiWork(c, vector, icr_destination[c]))

\* INIT, the shorthands that include the sender, physical mode and a
\* missing destination are ignored.
IgnoredIpi(c) == UNCHANGED stimuli /\ WriteIcrCommand(c, <<>>)

\* The guest transmits a byte with the THR-empty interrupt enabled: the
\* UART answers with its GSI.
UartTransmit(c) ==
  /\ GuestRuns(c)
  /\ Stimulus
  /\ VmExit(c, <<Work("route_interrupt", c, NoMsg)>>)
  /\ UNCHANGED <<msgqueue, irr, guestVars, lapicVars, bootVars, uartVars>>

\* The guest reprograms a PIT whose timer was set while another core of the
\* VM was running the guest: cancel_timer sends the request there.
CancelRemoteTimer(c, d) ==
  /\ TimerVectors # {}
  /\ GuestRuns(c)
  /\ Stimulus
  /\ d \in CoresOf(VmOf(c)) \ {c}
  /\ pc[d] \in {"guest", "exit", "panic"}
  /\ VmExit(c, <<Work("send_msg", d, CancelTimer)>>)
  /\ UNCHANGED <<msgqueue, irr, guestVars, lapicVars, bootVars, uartVars>>
-----------------------------------------------------------------------------
(* The work items, one step each.                                          *)

At(c, name) == pc[c] = "exit" /\ todo[c] # <<>> /\ Head(todo[c]).op = name

Item(c) == Head(todo[c])
Rest(c) == Tail(todo[c])

\* The rest of the handler is w.
Continue(c, w) == todo' = [todo EXCEPT ![c] = w] /\ UNCHANGED pc

\* An error propagates out of handle_vmexit: vmexit_handler panics, and the
\* core never runs again.
Panic(c) ==
  /\ pc' = [pc EXCEPT ![c] = "panic"]
  /\ todo' = [todo EXCEPT ![c] = <<>>]

\* Mutant: nobody checks whether the queue is full.
PushMsg_Unbounded(c, d, m) ==
  /\ msgqueue' = [msgqueue EXCEPT ![d] = Append(@, m)]
  /\ Continue(c, IF Notify(m) THEN <<Work("send_ipi", d, NoMsg)>> \o Rest(c)
                              ELSE Rest(c))

(***************************************************************************)
(* The queue half of send_msg_core; after it the handler goes on with the  *)
(* interrupt (if notify) and then with its rest.  A full queue is an       *)
(* error, and drops the message; the PIT, alone of all senders, ignores    *)
(* the error of its cancel_timer.                                          *)
(***************************************************************************)
PushMsg(c, d, m) ==
  \/ /\ Len(msgqueue[d]) < MaxPendingMsg
     /\ msgqueue' = [msgqueue EXCEPT ![d] = Append(@, m)]
     /\ Continue(c, IF Notify(m) THEN <<Work("send_ipi", d, NoMsg)>> \o Rest(c)
                                 ELSE Rest(c))
  \/ /\ Len(msgqueue[d]) = MaxPendingMsg
     /\ m # CancelTimer
     /\ Panic(c)
     /\ UNCHANGED msgqueue
  \/ /\ Len(msgqueue[d]) = MaxPendingMsg
     /\ m = CancelTimer
     /\ Continue(c, Rest(c))
     /\ UNCHANGED msgqueue

\* Mutant: one message per interrupt, although interrupts coalesce.
RecvAllMsgs_First(c) ==
  /\ At(c, "recv_all_msgs")
  /\ msgqueue[c] # <<>>
  /\ Continue(c, <<Work("handle_msg", c, Head(msgqueue[c]))>>)
  /\ msgqueue' = [msgqueue EXCEPT ![c] = Tail(@)]
  /\ UNCHANGED <<irr, guestVars, lapicVars, bootVars, uartVars, stimuli>>

\* handle_ipc takes every queued message under one lock.
RecvAllMsgs(c) ==
  /\ At(c, "recv_all_msgs")
  /\ Continue(c, [i \in 1 .. Len(msgqueue[c]) |->
                    Work("handle_msg", c, msgqueue[c][i])])
  /\ msgqueue' = [msgqueue EXCEPT ![c] = <<>>]
  /\ UNCHANGED <<irr, guestVars, lapicVars, bootVars, uartVars, stimuli>>

\* The body of handle_ipc's loop.  StartVcpu on a running VCPU is ignored;
\* cancelling a local timer does not touch the state modelled here.
HandleMsg(c) ==
  /\ At(c, "handle_msg")
  /\ LET m == Item(c).msg IN
       /\ serial' = IF m.type = "GrantConsole"
                    THEN [serial EXCEPT ![VmOf(c)] = TRUE] ELSE serial
       /\ pending' = IF m.type = "GuestInterrupt"
                     THEN [pending EXCEPT ![c] = @ \cup {m.vector}] ELSE pending
  /\ Continue(c, Rest(c))
  /\ UNCHANGED <<msgqueue, irr, window, interruptible, lapicVars, bootVars,
                 ctrl_a_count, uart_dest, rbr, stimuli>>

\* HostUartReceived: the presses of ctrl-a with the byte that is being read.
CtrlAPresses(v) == ctrl_a_count[v] + (IF rbr = "ctrl_a" THEN 1 ELSE 0)

(***************************************************************************)
(* handle_uart_keypress and Uart8250::on_event.  Without the console the   *)
(* byte is not even read.  Otherwise the guest gets the UART's GSI, and    *)
(* the third ctrl-a since the last switch asks for the next console.       *)
(***************************************************************************)
HandleUartKeypress(c) ==
  LET v == VmOf(c)
      n == CtrlAPresses(v)
      route == Work("route_interrupt", c, NoMsg)
      next  == Work("next_console", c, NoMsg)
  IN
  /\ At(c, "keypress")
  /\ \/ /\ ~serial[v]
        /\ Continue(c, Rest(c))
        /\ UNCHANGED <<ctrl_a_count, rbr>>
     \/ /\ serial[v]
        /\ rbr' = "none"
        /\ ctrl_a_count' = [ctrl_a_count EXCEPT ![v] = IF n = 3 THEN 0 ELSE n]
        /\ Continue(c, IF n = 3 THEN <<route, next>> ELSE <<route>>)
  /\ UNCHANGED <<msgqueue, irr, guestVars, lapicVars, bootVars, serial,
                 uart_dest, stimuli>>

\* route_interrupt of the UART's GSI: to the BSP of this VM, by message
\* unless that is this core.
RouteInterrupt(c) ==
  LET bsp == Bsp(VmOf(c)) IN
  /\ At(c, "route_interrupt")
  /\ \/ /\ bsp = c
        /\ pending' = [pending EXCEPT ![c] = @ \cup {gsi_vector(UART_GSI)}]
        /\ Continue(c, Rest(c))
        /\ UNCHANGED msgqueue
     \/ /\ bsp # c
        /\ PushMsg(c, bsp, GuestInterrupt(gsi_vector(UART_GSI)))
        /\ UNCHANGED pending
  /\ UNCHANGED <<irr, window, interruptible, lapicVars, bootVars, uartVars, stimuli>>

\* Mutant: the console is sent without taking it out of the slot.
NextConsole_Copies(c) ==
  LET bsp == Bsp(NextVm(VmOf(c))) IN
  /\ At(c, "next_console")
  /\ Continue(c, <<Work("send_msg", bsp, GrantConsole),
                   Work("map_gsi", bsp, NoMsg)>> \o Rest(c))
  /\ UNCHANGED <<msgqueue, irr, guestVars, lapicVars, bootVars, uartVars, stimuli>>

\* Mutant: the interrupt stays with the old core.
NextConsole_NoRemap(c) ==
  LET bsp == Bsp(NextVm(VmOf(c))) IN
  /\ At(c, "next_console")
  /\ serial' = [serial EXCEPT ![VmOf(c)] = FALSE]
  /\ Continue(c, <<Work("send_msg", bsp, GrantConsole)>> \o Rest(c))
  /\ UNCHANGED <<msgqueue, irr, guestVars, lapicVars, bootVars, ctrl_a_count,
                 uart_dest, rbr, stimuli>>

(***************************************************************************)
(* NextConsole takes the UART out of the serial slot, then sends it to the *)
(* BSP of the next VM, then moves the interrupt there.                     *)
(***************************************************************************)
NextConsole(c) ==
  LET bsp == Bsp(NextVm(VmOf(c))) IN
  /\ At(c, "next_console")
  /\ \/ /\ serial[VmOf(c)]
        /\ serial' = [serial EXCEPT ![VmOf(c)] = FALSE]
        /\ Continue(c, <<Work("send_msg", bsp, GrantConsole),
                         Work("map_gsi", bsp, NoMsg)>> \o Rest(c))
     \/ /\ ~serial[VmOf(c)]
        /\ Panic(c)
        /\ UNCHANGED serial
  /\ UNCHANGED <<msgqueue, irr, guestVars, lapicVars, bootVars, ctrl_a_count,
                 uart_dest, rbr, stimuli>>

\* send_msg_core fails, too, when there is no such core.
SendMsg(c) ==
  /\ At(c, "send_msg")
  /\ \/ Item(c).mask = NoDest /\ PushMsg(c, Item(c).dst, Item(c).msg)
     \/ Item(c).mask # NoDest /\ Panic(c) /\ UNCHANGED msgqueue
  /\ UNCHANGED <<irr, guestVars, lapicVars, bootVars, uartVars, stimuli>>

\* One iteration over the VM's cores in process_interrupt_command: the core
\* itself and cores outside the logical destination are passed over.
GuestIpi(c) ==
  LET d == Item(c).dst
      addressed == d # c /\ (Item(c).mask # NoDest => LogicalMatch(d, Item(c).mask))
  IN
  /\ At(c, "guest_ipi")
  /\ \/ addressed /\ PushMsg(c, d, Item(c).msg)
     \/ ~addressed /\ Continue(c, Rest(c)) /\ UNCHANGED msgqueue
  /\ UNCHANGED <<irr, guestVars, lapicVars, bootVars, uartVars, stimuli>>

\* Mutant: the interrupt goes to the sender.
SendIpi_Self(c) ==
  /\ At(c, "send_ipi")
  /\ irr' = [irr EXCEPT ![c] = @ \cup {IPC}]
  /\ Continue(c, Rest(c))
  /\ UNCHANGED <<msgqueue, guestVars, lapicVars, bootVars, uartVars, stimuli>>

\* The interrupt half of send_msg_core.
SendIpi(c) ==
  /\ At(c, "send_ipi")
  /\ irr' = [irr EXCEPT ![Item(c).dst] = @ \cup {IPC}]
  /\ Continue(c, Rest(c))
  /\ UNCHANGED <<msgqueue, guestVars, lapicVars, bootVars, uartVars, stimuli>>

\* map_gsi_vector on behalf of NextConsole.
MapGsiVector(c) ==
  /\ At(c, "map_gsi")
  /\ uart_dest' = Item(c).dst
  /\ Continue(c, Rest(c))
  /\ UNCHANGED <<msgqueue, irr, guestVars, lapicVars, bootVars, serial,
                 ctrl_a_count, rbr, stimuli>>

-----------------------------------------------------------------------------
\* Mutant: the window is closed after an injection even if more are waiting.
EnterGuest_NoRewindow(c, p) ==
  /\ pc[c] = "exit"
  /\ todo[c] = <<>>
  /\ pc' = [pc EXCEPT ![c] = "guest"]
  /\ \/ /\ p = {}
        /\ UNCHANGED guestVars
     \/ /\ p # {}
        /\ ~interruptible[c]
        /\ pending' = [pending EXCEPT ![c] = p]
        /\ window' = [window EXCEPT ![c] = TRUE]
        /\ UNCHANGED interruptible
     \/ /\ p # {}
        /\ interruptible[c]
        /\ pending' = [pending EXCEPT ![c] = p \ {Lowest(p)}]
        /\ window' = [window EXCEPT ![c] = FALSE]
        /\ interruptible' = [interruptible EXCEPT ![c] = FALSE]
  /\ UNCHANGED <<todo, msgqueue, irr, lapicVars, bootVars, uartVars>>

\* Mutant: a guest that cannot take an interrupt is resumed without asking
\* for the window.
EnterGuest_NoWindow(c, p) ==
  /\ pc[c] = "exit"
  /\ todo[c] = <<>>
  /\ pc' = [pc EXCEPT ![c] = "guest"]
  /\ \/ /\ p = {} \/ ~interruptible[c]
        /\ pending' = [pending EXCEPT ![c] = p]
        /\ UNCHANGED <<window, interruptible>>
     \/ /\ p # {}
        /\ interruptible[c]
        /\ pending' = [pending EXCEPT ![c] = p \ {Lowest(p)}]
        /\ window' = [window EXCEPT ![c] = p # {Lowest(p)}]
        /\ interruptible' = [interruptible EXCEPT ![c] = FALSE]
  /\ UNCHANGED <<todo, msgqueue, irr, lapicVars, bootVars, uartVars>>

(***************************************************************************)
(* The end of handle_vmexit and the VM entry: expired timers add their     *)
(* vectors; then either nothing is pending, or the guest cannot take an    *)
(* interrupt and the window is requested, or the lowest pending vector is  *)
(* injected (its delivery clears IF) and the window is requested exactly   *)
(* if another one is left.                                                 *)
(***************************************************************************)
EnterGuest(c, p) ==
  /\ pc[c] = "exit"
  /\ todo[c] = <<>>
  /\ pc' = [pc EXCEPT ![c] = "guest"]
  /\ \/ /\ p = {}
        /\ UNCHANGED guestVars
     \/ /\ p # {}
        /\ ~interruptible[c]
        /\ pending' = [pending EXCEPT ![c] = p]
        /\ window' = [window EXCEPT ![c] = TRUE]
        /\ UNCHANGED interruptible
     \/ /\ p # {}
        /\ interruptible[c]
        /\ pending' = [pending EXCEPT ![c] = p \ {Lowest(p)}]
        /\ window' = [window EXCEPT ![c] = p # {Lowest(p)}]
        /\ interruptible' = [interruptible EXCEPT ![c] = FALSE]
  /\ UNCHANGED <<todo, msgqueue, irr, lapicVars, bootVars, uartVars>>

FinishVmExit(c) ==
  \/ EnterGuest(c, pending[c]) /\ UNCHANGED stimuli
  \/ /\ Stimulus
     /\ \E fired \in (SUBSET TimerVectors) \ {{}} :
          EnterGuest(c, pending[c] \cup fired)

-----------------------------------------------------------------------------
Startup(c) == NotifyReady(c) \/ AllCoresReady(c) \/ WaitForInit(c)

ForcedExit(c) == ExternalInterrupt(c) \/ InterruptWindow(c)

GuestExit(c) ==
  \/ OtherExit(c)
  \/ \E d \in IcrDests : WriteIcrDestination(c, d)
  \/ \E d \in LdrValues : WriteLogicalDestination(c, d)
  \/ StartUpIpi(c)
  \/ \E v \in IpiVectors : AllExcludingSelfIpi(c, v) \/ LogicalIpi(c, v)
  \/ IgnoredIpi(c)
  \/ UartTransmit(c)
  \/ \E d \in Core : CancelRemoteTimer(c, d)

Handle(c) ==
  \/ RecvAllMsgs(c)
  \/ HandleMsg(c)
  \/ HandleUartKeypress(c)
  \/ RouteInterrupt(c)
  \/ NextConsole(c)
  \/ SendMsg(c)
  \/ GuestIpi(c)
  \/ SendIpi(c)
  \/ MapGsiVector(c)

Next ==
  \/ \E k \in Keys : KeyPress(k)
  \/ \E c \in Core :
       \/ Startup(c)
       \/ ApicTimer(c)
       \/ GuestFlipsIF(c)
       \/ ForcedExit(c)
       \/ GuestExit(c)
       \/ Handle(c)
       \/ FinishVmExit(c)

Spec == Init /\ [][Next]_vars
-----------------------------------------------------------------------------
(* Properties                                                              *)

\* The shape of the state: queues hold at most MAX_PENDING_MSG messages, and
\* a core has handler work left only while it is in handle_vmexit.
TypeOK ==
  /\ pc \in [Core -> {"entry", "barrier", "waiting", "guest", "exit", "panic"}]
  /\ todo \in [Core -> Seq(Op)]
  /\ \A c \in Core : pc[c] # "exit" => todo[c] = <<>>
  /\ msgqueue \in [Core -> Seq(Msg)]
  /\ \A c \in Core : Len(msgqueue[c]) <= MaxPendingMsg
  /\ irr \in [Core -> SUBSET HostVector]
  /\ pending \in [Core -> SUBSET Nat]
  /\ window \in [Core -> BOOLEAN]
  /\ interruptible \in [Core -> BOOLEAN]
  /\ icr_destination \in [Core -> IcrDests \cup {NoDest}]
  /\ logical_destination \in [Core -> Nat]
  /\ cpus_ready \in [VmId -> Nat]
  /\ serial \in [VmId -> BOOLEAN]
  /\ ctrl_a_count \in [VmId -> 0 .. 2]
  /\ uart_dest \in Core
  /\ rbr \in Keys \cup {"none"}
  /\ stimuli \in Nat

\* A core holds a message it should be interrupted for.
Notified(c) == \E i \in 1 .. Len(msgqueue[c]) : Notify(msgqueue[c][i])

\* Some core has pushed a message for c and is about to send the interrupt.
IpiComing(c) == \E d \in Core : At(d, "send_ipi") /\ Item(d).dst = c

\* No wake-up is lost between send_msg_core's push and its IPI on one side
\* and the exit and the drain of handle_ipc on the other: a message that was
\* sent with notify is never left in a queue without its core having the IPC
\* interrupt pending, being about to get it, or being about to drain.
NoLostWakeup ==
  \A c \in Core :
    Notified(c) => IPC \in irr[c] \/ IpiComing(c) \/ At(c, "recv_all_msgs")

\* The positions of the GrantConsole messages in a queue or a handler's work.
GrantsInQueue(c) ==
  {i \in 1 .. Len(msgqueue[c]) : msgqueue[c][i].type = "GrantConsole"}
GrantsInHand(c) ==
  {i \in 1 .. Len(todo[c]) : todo[c][i].msg.type = "GrantConsole"}

\* Every place the one host UART can be: a VM's serial slot, a GrantConsole
\* message in a queue, or one in the hands of a handler.
ConsoleAt ==
  {<<"serial", v, 0>> : v \in {w \in VmId : serial[w]}}
    \cup (UNION {{<<"queue", c, i>> : i \in GrantsInQueue(c)} : c \in Core})
    \cup (UNION {{<<"hand", c, i>> : i \in GrantsInHand(c)} : c \in Core})

\* NextConsole, send_msg_core, recv_msg and handle_ipc move the host UART
\* between VMs without ever duplicating it, and lose it only by a panic (a
\* full queue): in particular no waiting AP drops a GrantConsole.
ConsoleConserved ==
  /\ \A x, y \in ConsoleAt : x = y
  /\ ConsoleAt = {} => \E c \in Core : pc[c] = "panic"

\* VM v has the console, or it is on its way to v's BSP.
Destined(v) ==
  \/ serial[v]
  \/ GrantsInQueue(Bsp(v)) # {}
  \/ \E i \in GrantsInHand(Bsp(v)) : todo[Bsp(v)][i].op = "handle_msg"

Remapping(c) == \E i \in 1 .. Len(todo[c]) : todo[c][i].op = "map_gsi"

\* The redirection entry written by NextConsole follows the console: once no
\* hand-over is under way, the UART interrupt goes to the BSP of the VM that
\* has, or is about to get, the console.  Two hand-overs in quick succession
\* run on two cores, and the second never overtakes the first.
RouteFollowsConsole ==
  \A v \in VmId :
    Destined(v) /\ (\A c \in Core : ~Remapping(c)) => uart_dest = Bsp(v)

\* Whenever the guest runs, interrupt-window exiting is on exactly if an
\* interrupt is waiting to be injected: no interrupt is forgotten, and no
\* guest exits on a window nobody needs (handle_vmexit returns early without
\* touching the control when nothing is pending).
WindowIffPending ==
  \A c \in Core : pc[c] = "guest" => (window[c] <=> pending[c] # {})

\* The counter barrier of mp_entry_point: no core of a VM runs or waits for
\* its SIPI while another core of the VM has not yet built its VCPU.
BarrierHolds ==
  \A c \in Core : pc[c] \in {"waiting", "guest", "exit"} =>
    \A d \in CoresOf(VmOf(c)) : pc[d] # "entry"

-----------------------------------------------------------------------------
(***************************************************************************)
(* Fairness.  Each core is a processor of its own: hypervisor code on it   *)
(* keeps running and pending events force an exit (weak fairness).  A      *)
(* guest that keeps being resumed with interrupts disabled enables them    *)
(* again some day (strong fairness, as its exits interrupt that step).     *)
(* Nothing is assumed of the other guest steps, the terminal or the        *)
(* timers.                                                                 *)
(***************************************************************************)
GuestEnablesIF(c) == ~interruptible[c] /\ GuestFlipsIF(c)

Fairness ==
  \A c \in Core :
    /\ WF_vars(Startup(c))
    /\ WF_vars(ForcedExit(c))
    /\ WF_vars(Handle(c))
    /\ WF_vars(FinishVmExit(c))
    /\ SF_vars(GuestEnablesIF(c))

FairSpec == Spec /\ Fairness

\* A console that has been sent arrives: the VM it is destined for ends up
\* with it in its serial slot, unless its BSP has panicked.
ConsoleArrives ==
  \A v \in VmId : Destined(v) ~> (serial[v] \/ pc[Bsp(v)] = "panic")

\* Every interrupt put in pending_interrupts is injected in the end, once
\* the (bounded number of) lower vectors that arrive later are exhausted.
PendingInjected ==
  \A c \in Core : \A v \in IpiVectors \cup TimerVectors \cup {gsi_vector(UART_GSI)} :
    v \in pending[c] ~> (v \notin pending[c] \/ pc[c] = "panic")

\* Every message sent with notify is taken out of its queue.
NotifiedDrained ==
  \A c \in Core : Notified(c) ~> (~Notified(c) \/ pc[c] = "panic")

\* A StartVcpu, sent without notify, starts its core even if it was sent
\* before the core began to wait, or queued behind messages that are dropped.
SipiStarts ==
  \A c \in Core :
    (\E i \in 1 .. Len(msgqueue[c]) : msgqueue[c][i].type = "StartVcpu")
      ~> pc[c] \in {"guest", "exit", "panic"}
=============================================================================
