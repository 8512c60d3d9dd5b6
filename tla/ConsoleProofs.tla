--------------------------- MODULE ConsoleProofs ---------------------------
(***************************************************************************)
(* Proofs about the console hand-over of Vcpu, for any number of VMs,      *)
(* cores, keys and stimuli: the UART is never duplicated, and lost only by *)
(* a panic.                                                                *)
(***************************************************************************)
EXTENDS VcpuProofs, VcpuConsole

-----------------------------------------------------------------------------
(* What a handler may have left to do.                                     *)

NextItem(c)  == Work("next_console", c, NoMsg)
NextBsp(c)   == Bsp(NextVm(VmOf(c)))
GrantItem(c) == Work("send_msg", NextBsp(c), GrantConsole)
IpiItem(c)   == Work("send_ipi", NextBsp(c), NoMsg)
MapItem(c)   == Work("map_gsi", NextBsp(c), NoMsg)

\* Messages and interrupts that have nothing to do with the console.
Plain(s) ==
  \A i \in 1 .. Len(s) :
    /\ s[i].op \in {"route_interrupt", "send_msg", "guest_ipi", "send_ipi"}
    /\ s[i].msg.type # "GrantConsole"

\* What handle_ipc found in the queue.
Handling(s, c) ==
  \A i \in 1 .. Len(s) : s[i].op = "handle_msg" /\ s[i].dst = c

\* The third ctrl-a: the guest's interrupt, then NextConsole.
Switching(s, c) ==
  /\ Len(s) \in {1, 2}
  /\ s[Len(s)] = NextItem(c)
  /\ Len(s) = 2 => s[1].op \in {"route_interrupt", "send_ipi"} /\ s[1].msg.type # "GrantConsole"

\* After NextConsole: the UART is sent, its receiver interrupted, and the
\* redirection entry changed.
Moving(s, c) ==
  /\ Len(s) \in {1, 2}
  /\ s[Len(s)] = MapItem(c)
  /\ Len(s) = 2 => s[1] = GrantItem(c) \/ s[1] = IpiItem(c)

Shape(s, c) ==
  \/ Plain(s)
  \/ Handling(s, c)
  \/ s = <<Work("keypress", c, NoMsg)>>
  \/ s = <<Work("recv_all_msgs", c, NoMsg)>>
  \/ Switching(s, c)
  \/ Moving(s, c)

ShapeInv == \A c \in Core : Shape(todo[c], c)

\* No BSP waits for a start-up message, and the UART is sent to BSPs only.
PlaceInv ==
  /\ \A c \in Core : pc[c] = "waiting" => c # Bsp(VmOf(c))
  /\ \A c \in Core : GrantsInQueue(c) # {} => c = Bsp(VmOf(c))
  /\ \A c \in Core : GrantsInHand(c) # {} /\ Handling(todo[c], c) => c = Bsp(VmOf(c))

-----------------------------------------------------------------------------
(* Where the UART is.                                                      *)

UniqueInv ==
  /\ \A v, w \in VmId : serial[v] /\ serial[w] => v = w
  /\ \A c, d \in Core : \A i \in GrantsInQueue(c), j \in GrantsInQueue(d) : c = d /\ i = j
  /\ \A c, d \in Core : \A i \in GrantsInHand(c), j \in GrantsInHand(d) : c = d /\ i = j
  /\ \A v \in VmId, c \in Core : serial[v] => GrantsInQueue(c) = {} /\ GrantsInHand(c) = {}
  /\ \A c, d \in Core : GrantsInQueue(c) = {} \/ GrantsInHand(d) = {}

\* Unless a core has panicked, it is somewhere.
SomewhereInv ==
  \/ \E v \in VmId : serial[v]
  \/ \E c \in Core : GrantsInQueue(c) # {} \/ GrantsInHand(c) # {}
  \/ \E c \in Core : pc[c] = "panic"

\* The core is about to read the UART.
InKeypress(c) == todo[c] = <<Work("keypress", c, NoMsg)>>

-----------------------------------------------------------------------------
(***************************************************************************)
(* The steps by what they mean for the console.  Most leave the UART, its  *)
(* interrupt and its byte alone.                                           *)
(***************************************************************************)
UartAlone ==
  /\ UNCHANGED <<serial, uart_dest, rbr>>
  /\ \A x \in Core : UART \in irr'[x] <=> UART \in irr[x]

IdleStep == UNCHANGED <<todo, msgqueue>> /\ UartAlone

\* A core leaves its guest for something other than the UART.
StartWork(c, w) ==
  /\ pc[c] = "guest"
  /\ todo[c] = <<>>
  /\ todo' = [todo EXCEPT ![c] = w]
  /\ Plain(w) \/ w = <<Work("recv_all_msgs", c, NoMsg)>>
  /\ UNCHANGED msgqueue
  /\ UartAlone

\* The UART interrupt reaches its core.
TakeUart(c) ==
  /\ todo[c] = <<>>
  /\ todo' = [todo EXCEPT ![c] = <<Work("keypress", c, NoMsg)>>]
  /\ UART \in irr[c]
  /\ irr' = [irr EXCEPT ![c] = @ \ {UART}]
  /\ UNCHANGED <<msgqueue, serial, uart_dest, rbr>>

\* A work item that is not about the console.
Proceed(c) ==
  /\ pc[c] = "exit"
  /\ todo[c] # <<>>
  /\ Item(c).op \in {"handle_msg", "route_interrupt", "send_msg", "guest_ipi", "send_ipi"}
  /\ Item(c).msg.type # "GrantConsole"
  /\ \/ todo' = [todo EXCEPT ![c] = Rest(c)]
     \/ /\ Item(c).op \in {"route_interrupt", "send_msg", "guest_ipi"}
        /\ \E d \in Core : todo' = [todo EXCEPT ![c] = <<Work("send_ipi", d, NoMsg)>> \o Rest(c)]
     \/ /\ Item(c).op \in {"route_interrupt", "send_msg", "guest_ipi"}
        /\ todo' = [todo EXCEPT ![c] = <<>>]
  /\ \/ UNCHANGED msgqueue
     \/ \E d \in Core, m \in Msg :
          m.type # "GrantConsole" /\ msgqueue' = [msgqueue EXCEPT ![d] = Append(@, m)]
  /\ UartAlone

\* The UART is put in its new slot, and sent to the next one.
InstallGrant(c) == HandleMsg(c) /\ Item(c).msg.type = "GrantConsole"
SendGrant(c) == SendMsg(c) /\ Item(c).msg.type = "GrantConsole"

ConsoleStep(c) ==
  \/ WaitForInit(c) \/ TakeUart(c) \/ RecvAllMsgs(c) \/ Proceed(c) \/ InstallGrant(c)
  \/ HandleUartKeypress(c) \/ NextConsole(c) \/ SendGrant(c) \/ MapGsiVector(c)
  \/ \E w \in Seq(Op) : StartWork(c, w)

\* The push of a message that is not the console's.
LEMMA PushProceeds ==
  ASSUME TypeOK, NEW c \in Core, NEW n \in {"route_interrupt", "send_msg", "guest_ipi"}, At(c, n),
         Item(c).msg.type # "GrantConsole",
         NEW d \in Core, NEW m \in Msg, m.type # "GrantConsole", PushMsg(c, d, m),
         UNCHANGED <<serial, uart_dest, rbr, irr>>
  PROVE  Proceed(c)
<1>1. pc[c] = "exit" /\ todo[c] # <<>> /\ Item(c).op = n
  BY DEF At, Item
<1>2. UartAlone
  BY DEF UartAlone
<1>3. \/ todo' = [todo EXCEPT ![c] = Rest(c)]
      \/ todo' = [todo EXCEPT ![c] = <<Work("send_ipi", d, NoMsg)>> \o Rest(c)]
      \/ todo' = [todo EXCEPT ![c] = <<>>]
  BY DEF PushMsg, Continue, Panic
<1>4. UNCHANGED msgqueue \/ msgqueue' = [msgqueue EXCEPT ![d] = Append(@, m)]
  BY DEF PushMsg
<1> QED
  BY <1>1, <1>2, <1>3, <1>4 DEF Proceed

\* Items that are not the console's, by their ops.
LEMMA PlainItem ==
  ASSUME TypeOK, ShapeInv, NEW c \in Core,
         NEW n \in {"route_interrupt", "guest_ipi", "send_ipi"}, At(c, n)
  PROVE  Item(c).msg.type # "GrantConsole"
<1>1. todo[c] \in Seq(Op) /\ todo[c] # <<>> /\ todo[c][1] = Item(c) /\ Item(c).op = n
  BY DEF TypeOK, At, Item
<1>2. Len(todo[c]) \in Nat /\ Len(todo[c]) > 0
  BY <1>1
<1>3. Shape(todo[c], c)
  BY DEF ShapeInv
<1>4. CASE Plain(todo[c])
  BY <1>1, <1>2, <1>4 DEF Plain
<1>5. CASE Switching(todo[c], c)
  BY <1>1, <1>2, <1>5 DEF Switching, NextItem, Work, NoMsg
<1>6. CASE Moving(todo[c], c)
  BY <1>1, <1>2, <1>6 DEF Moving, GrantItem, IpiItem, MapItem, Work, NoMsg
<1>7. CASE Handling(todo[c], c)
  BY <1>1, <1>2, <1>7 DEF Handling
<1>8. CASE todo[c] = <<Work("keypress", c, NoMsg)>> \/ todo[c] = <<Work("recv_all_msgs", c, NoMsg)>>
  BY <1>1, <1>8 DEF Work
<1> QED
  BY <1>3, <1>4, <1>5, <1>6, <1>7, <1>8 DEF Shape

\* The pending vector of highest priority is pending.
LEMMA HighestPending ==
  ASSUME NEW S \in SUBSET HostVector, S # {}
  PROVE  Highest(S) \in S
<1>0. \A w \in S : w = UART \/ w = TIMER \/ w = IPC
  BY DEF HostVector
<1>a. CASE IPC \in S
  <2>1. \A w \in S : IPC >= w
    BY <1>0 DEF UART, TIMER, IPC
  <2> QED
    BY <1>a, <2>1 DEF Highest
<1>b. CASE IPC \notin S /\ TIMER \in S
  <2>1. \A w \in S : TIMER >= w
    BY <1>0, <1>b DEF UART, TIMER
  <2> QED
    BY <1>b, <2>1 DEF Highest
<1>c. CASE IPC \notin S /\ TIMER \notin S
  <2>1. UART \in S /\ \A w \in S : UART >= w
    BY <1>0, <1>c DEF UART
  <2> QED
    BY <2>1 DEF Highest
<1> QED
  BY <1>a, <1>b, <1>c

\* An exit of the guest's own making.
LEMMA GuestExitStarts ==
  ASSUME TypeOK, NEW c \in Core, GuestExit(c)
  PROVE  \E w \in Seq(Op) : StartWork(c, w)
<1> USE DEF uartVars
<1>1. CoresOK /\ todo[c] \in Seq(Op)
  BY TypeParts DEF TypeOK
<1>2. pc[c] = "guest" /\ UNCHANGED <<msgqueue, irr, serial, uart_dest, rbr>>
  BY DEF GuestExit, GuestRuns, OtherExit, WriteIcrDestination,
         WriteLogicalDestination, StartUpIpi, AllExcludingSelfIpi, LogicalIpi,
         IgnoredIpi, WriteIcrCommand, UartTransmit, CancelRemoteTimer
<1>3. todo[c] = <<>> /\ UartAlone
  BY <1>1, <1>2 DEF CoresOK, UartAlone
<1>4. ASSUME NEW w \in Seq(Op), Plain(w), VmExit(c, w)
      PROVE  \E z \in Seq(Op) : StartWork(c, z)
  BY <1>2, <1>3, <1>4 DEF StartWork, VmExit
<1>5. ASSUME VmExit(c, <<>>) PROVE \E z \in Seq(Op) : StartWork(c, z)
  <2>1. <<>> \in Seq(Op) /\ Plain(<<>>)
    BY DEF Plain
  <2> QED
    BY <1>4, <1>5, <2>1
<1>6. ASSUME NEW n \in {"send_msg", "route_interrupt"}, NEW d \in Core, NEW m \in Msg,
             m.type # "GrantConsole", VmExit(c, <<Work(n, d, m)>>)
      PROVE  \E z \in Seq(Op) : StartWork(c, z)
  <2>1. <<Work(n, d, m)>> \in Seq(Op)
    BY WorkType DEF OpName
  <2>2. Plain(<<Work(n, d, m)>>)
    BY <1>6 DEF Plain, Work
  <2> QED
    BY <1>4, <1>6, <2>1, <2>2
<1>7. ASSUME NEW v \in IpiVectors, NEW mask \in Int, VmExit(c, IpiWork(c, v, mask))
      PROVE  \E z \in Seq(Op) : StartWork(c, z)
  <2>1. v \in Nat
    BY StimuliAssumption
  <2>2. IpiWork(c, v, mask) \in Seq(Op)
    BY <2>1, IpiWorkType
  <2>3. Cpus[VmOf(c)] \in Seq(Nat)
    BY VmOfCore, MachinesAssumption
  <2>4. Plain(IpiWork(c, v, mask))
    BY <2>3 DEF Plain, IpiWork, GuestInterrupt
  <2> QED
    BY <1>4, <1>7, <2>2, <2>4
<1>8. CASE \/ OtherExit(c) \/ IgnoredIpi(c)
           \/ \E d \in IcrDests : WriteIcrDestination(c, d)
           \/ \E d \in LdrValues : WriteLogicalDestination(c, d)
  BY <1>5, <1>8 DEF OtherExit, IgnoredIpi, WriteIcrCommand, WriteIcrDestination,
                    WriteLogicalDestination
<1>9. CASE StartUpIpi(c)
  <2> DEFINE w == StartUpWork(c, icr_destination[c])
  <2>1. icr_destination[c] \in IcrDests \cup {NoDest}
    BY DEF TypeOK
  <2>2. icr_destination[c] \in Nat
    BY <1>9, <2>1, StimuliAssumption DEF StartUpIpi
  <2>3. icr_destination[c] \in Int
    BY <2>2
  <2>4. w \in Op /\ w.op = "send_msg" /\ w.msg = StartVcpu
    BY <2>3, StartUpWorkType
  <2>5. VmExit(c, <<w>>)
    BY <1>9 DEF StartUpIpi, WriteIcrCommand
  <2> HIDE DEF w
  <2>6. <<w>> \in Seq(Op) /\ Plain(<<w>>)
    BY <2>4 DEF Plain, StartVcpu
  <2> QED
    BY <1>4, <2>5, <2>6
<1>10. ASSUME NEW v \in IpiVectors, AllExcludingSelfIpi(c, v) \/ LogicalIpi(c, v)
       PROVE  \E z \in Seq(Op) : StartWork(c, z)
  <2>1. NoDest \in Int
    BY DEF NoDest
  <2>2. icr_destination[c] \in IcrDests \cup {NoDest}
    BY DEF TypeOK
  <2>3. \A d \in IcrDests : d \in Int
    <3>1. \A d \in IcrDests : d \in Nat
      BY StimuliAssumption
    <3> QED
      BY <3>1
  <2>4. icr_destination[c] \in Int
    BY <2>1, <2>2, <2>3
  <2> QED
    BY <1>7, <1>10, <2>1, <2>4 DEF AllExcludingSelfIpi, LogicalIpi, WriteIcrCommand
<1>11. CASE UartTransmit(c)
  <2>1. NoMsg \in Msg /\ NoMsg.type # "GrantConsole"
    BY MsgTypes DEF NoMsg
  <2> QED
    BY <1>6, <1>11, <2>1 DEF UartTransmit
<1>12. ASSUME NEW d \in Core, CancelRemoteTimer(c, d)
       PROVE  \E z \in Seq(Op) : StartWork(c, z)
  <2>1. CancelTimer \in Msg /\ CancelTimer.type # "GrantConsole"
    BY MsgTypes DEF CancelTimer
  <2> QED
    BY <1>6, <1>12, <2>1 DEF CancelRemoteTimer
<1> QED
  BY <1>8, <1>9, <1>10, <1>11, <1>12 DEF GuestExit

\* A forced exit.
LEMMA ForcedExitStarts ==
  ASSUME TypeOK, NEW c \in Core, ForcedExit(c)
  PROVE  ConsoleStep(c)
<1> USE DEF uartVars
<1>1. /\ pc[c] = "guest" /\ todo[c] = <<>>
      /\ irr \in [Core -> SUBSET HostVector]
      /\ UNCHANGED <<msgqueue, serial, uart_dest, rbr>>
  BY DEF ForcedExit, ExternalInterrupt, InterruptWindow, TypeOK
<1>2. <<>> \in Seq(Op) /\ Plain(<<>>)
  BY DEF Plain
<1>3. CASE InterruptWindow(c)
  <2>1. StartWork(c, <<>>)
    BY <1>1, <1>2, <1>3 DEF InterruptWindow, StartWork, VmExit, UartAlone
  <2> QED
    BY <1>2, <2>1 DEF ConsoleStep
<1>4. CASE ExternalInterrupt(c)
  <2> DEFINE v == Highest(irr[c])
  <2>1. v \in irr[c] /\ irr' = [irr EXCEPT ![c] = @ \ {v}]
    BY <1>1, <1>4, HighestPending DEF ExternalInterrupt
  <2>2. CASE v = UART /\ VmExit(c, <<Work("keypress", c, NoMsg)>>)
    <3>1. TakeUart(c)
      BY <1>1, <2>1, <2>2 DEF TakeUart, VmExit
    <3> QED
      BY <3>1 DEF ConsoleStep
  <2>3. ASSUME v # UART PROVE UartAlone
    BY <1>1, <2>1, <2>3 DEF UartAlone
  <2>4. CASE v = IPC /\ VmExit(c, <<Work("recv_all_msgs", c, NoMsg)>>)
    <3>1. <<Work("recv_all_msgs", c, NoMsg)>> \in Seq(Op)
      BY MsgTypes, WorkType DEF OpName
    <3>2. UartAlone
      BY <2>3, <2>4 DEF UART, IPC
    <3>3. StartWork(c, <<Work("recv_all_msgs", c, NoMsg)>>)
      BY <1>1, <2>4, <3>2 DEF StartWork, VmExit
    <3> QED
      BY <3>1, <3>3 DEF ConsoleStep
  <2>5. CASE v = TIMER /\ VmExit(c, <<>>)
    <3>1. UartAlone
      BY <2>3, <2>5 DEF UART, TIMER
    <3>2. StartWork(c, <<>>)
      BY <1>1, <1>2, <2>5, <3>1 DEF StartWork, VmExit
    <3> QED
      BY <1>2, <3>2 DEF ConsoleStep
  <2> QED
    BY <1>4, <2>2, <2>4, <2>5 DEF ExternalInterrupt
<1> QED
  BY <1>3, <1>4 DEF ForcedExit

\* A step of a handler.
LEMMA HandleConsole ==
  ASSUME TypeOK, ShapeInv, NEW c \in Core, Handle(c)
  PROVE  ConsoleStep(c)
<1> USE DEF uartVars
<1>v. VmOf(c) \in VmId /\ Bsp(VmOf(c)) \in Core
  BY VmOfCore, BspCore
<1>t. CoresOK
  BY TypeParts
<1>1. CASE RecvAllMsgs(c) \/ HandleUartKeypress(c) \/ NextConsole(c) \/ MapGsiVector(c)
  BY <1>1 DEF ConsoleStep
<1>2. CASE HandleMsg(c)
  <2>1. CASE Item(c).msg.type = "GrantConsole"
    BY <1>2, <2>1 DEF InstallGrant, ConsoleStep
  <2>2. CASE Item(c).msg.type # "GrantConsole"
    <3>1. Proceed(c)
      BY <1>2, <2>2 DEF HandleMsg, At, Item, Continue, Proceed, UartAlone
    <3> QED
      BY <3>1 DEF ConsoleStep
  <2> QED
    BY <2>1, <2>2
<1>3. CASE SendMsg(c)
  <2>1. CASE Item(c).msg.type = "GrantConsole"
    BY <1>3, <2>1 DEF SendGrant, ConsoleStep
  <2>2. CASE Item(c).msg.type # "GrantConsole"
    <3>1. Item(c).dst \in Core /\ Item(c).msg \in Msg
      BY <1>3, <1>t, ItemType DEF SendMsg
    <3>2. CASE PushMsg(c, Item(c).dst, Item(c).msg)
      <4>1. Proceed(c)
        BY <1>3, <2>2, <3>1, <3>2, PushProceeds DEF SendMsg
      <4> QED
        BY <4>1 DEF ConsoleStep
    <3>3. CASE Panic(c) /\ UNCHANGED msgqueue
      <4>1. Proceed(c)
        BY <1>3, <2>2, <3>3 DEF SendMsg, At, Item, Panic, Proceed, UartAlone
      <4> QED
        BY <4>1 DEF ConsoleStep
    <3> QED
      BY <1>3, <3>2, <3>3 DEF SendMsg
  <2> QED
    BY <2>1, <2>2
<1>4. CASE RouteInterrupt(c)
  <2>1. Item(c).msg.type # "GrantConsole"
    BY <1>4, PlainItem DEF RouteInterrupt
  <2>2. GuestInterrupt(gsi_vector(UART_GSI)) \in Msg
    BY MsgTypes DEF gsi_vector, UART_GSI
  <2>3. GuestInterrupt(gsi_vector(UART_GSI)).type # "GrantConsole"
    BY DEF GuestInterrupt
  <2>4. CASE Continue(c, Rest(c)) /\ UNCHANGED msgqueue
    BY <1>4, <2>1, <2>4 DEF RouteInterrupt, At, Item, Continue, Proceed, UartAlone, ConsoleStep
  <2>5. CASE PushMsg(c, Bsp(VmOf(c)), GuestInterrupt(gsi_vector(UART_GSI)))
    <3>1. Proceed(c)
      BY <1>4, <1>v, <2>1, <2>2, <2>3, <2>5, PushProceeds DEF RouteInterrupt
    <3> QED
      BY <3>1 DEF ConsoleStep
  <2> QED
    BY <1>4, <2>4, <2>5 DEF RouteInterrupt
<1>5. CASE GuestIpi(c)
  <2>1. Item(c).msg.type # "GrantConsole" /\ Item(c).dst \in Core /\ Item(c).msg \in Msg
    BY <1>5, <1>t, PlainItem, ItemType DEF GuestIpi
  <2>2. CASE Continue(c, Rest(c)) /\ UNCHANGED msgqueue
    BY <1>5, <2>1, <2>2 DEF GuestIpi, At, Item, Continue, Proceed, UartAlone, ConsoleStep
  <2>3. CASE PushMsg(c, Item(c).dst, Item(c).msg)
    <3>1. Proceed(c)
      BY <1>5, <2>1, <2>3, PushProceeds DEF GuestIpi
    <3> QED
      BY <3>1 DEF ConsoleStep
  <2> QED
    BY <1>5, <2>2, <2>3 DEF GuestIpi
<1>6. CASE SendIpi(c)
  <2>1. Item(c).msg.type # "GrantConsole" /\ Item(c).dst \in Core
    BY <1>6, <1>t, PlainItem, ItemType DEF SendIpi
  <2>2. UartAlone
    BY <1>6, <2>1 DEF SendIpi, UartAlone, TypeOK, UART, IPC
  <2> QED
    BY <1>6, <2>1, <2>2 DEF SendIpi, At, Item, Continue, Proceed, ConsoleStep
<1> QED
  BY <1>1, <1>2, <1>3, <1>4, <1>5, <1>6 DEF Handle

\* Every step is one of these.
LEMMA Classify ==
  ASSUME TypeOK, ShapeInv, [Next]_vars
  PROVE  IdleStep \/ (\E k \in Keys : KeyPress(k)) \/ \E c \in Core : ConsoleStep(c)
<1> USE DEF uartVars
<1>1. CASE UNCHANGED vars
  BY <1>1 DEF vars, IdleStep, UartAlone
<1>2. ASSUME NEW c \in Core, NotifyReady(c) \/ AllCoresReady(c) \/ GuestFlipsIF(c) PROVE IdleStep
  BY <1>2 DEF NotifyReady, AllCoresReady, GuestFlipsIF, IdleStep, UartAlone
<1>3. ASSUME NEW c \in Core, FinishVmExit(c) PROVE IdleStep
  BY <1>3 DEF FinishVmExit, EnterGuest, IdleStep, UartAlone
<1>4. ASSUME NEW c \in Core, ApicTimer(c) PROVE IdleStep
  BY <1>4 DEF ApicTimer, IdleStep, UartAlone, TypeOK, UART, TIMER
<1>5. ASSUME NEW c \in Core, GuestExit(c) PROVE ConsoleStep(c)
  BY <1>5, GuestExitStarts DEF ConsoleStep
<1>6. ASSUME NEW c \in Core, ForcedExit(c) \/ Handle(c) PROVE ConsoleStep(c)
  BY <1>6, ForcedExitStarts, HandleConsole
<1>7. ASSUME NEW c \in Core, WaitForInit(c) PROVE ConsoleStep(c)
  BY <1>7 DEF ConsoleStep
<1> QED
  BY <1>1, <1>2, <1>3, <1>4, <1>5, <1>6, <1>7 DEF Next, Startup

-----------------------------------------------------------------------------
(***************************************************************************)
(* The shape of a handler's work.                                          *)
(***************************************************************************)

\* What a handler at a work item of some kind has left.
LEMMA ByOp ==
  ASSUME TypeOK, ShapeInv, NEW c \in Core, todo[c] # <<>>
  PROVE  /\ Item(c).op = "keypress" => InKeypress(c)
         /\ Item(c).op = "handle_msg" => Handling(todo[c], c)
         /\ Item(c).op = "next_console" => todo[c] = <<NextItem(c)>>
         /\ Item(c).op = "map_gsi" => todo[c] = <<MapItem(c)>>
         /\ Item(c).op = "send_msg" /\ Item(c).msg.type = "GrantConsole"
              => todo[c] = <<GrantItem(c), MapItem(c)>>
         /\ /\ Item(c).op \in {"route_interrupt", "send_msg", "guest_ipi", "send_ipi"}
            /\ Item(c).msg.type # "GrantConsole"
            => \/ Plain(todo[c])
               \/ /\ todo[c] = <<Item(c), NextItem(c)>>
                  /\ Item(c).op \in {"route_interrupt", "send_ipi"}
               \/ todo[c] = <<IpiItem(c), MapItem(c)>> /\ Item(c) = IpiItem(c)
<1> DEFINE s == todo[c]
           Goal == /\ Item(c).op = "keypress" => InKeypress(c)
                   /\ Item(c).op = "handle_msg" => Handling(s, c)
                   /\ Item(c).op = "next_console" => s = <<NextItem(c)>>
                   /\ Item(c).op = "map_gsi" => s = <<MapItem(c)>>
                   /\ Item(c).op = "send_msg" /\ Item(c).msg.type = "GrantConsole"
                        => s = <<GrantItem(c), MapItem(c)>>
                   /\ /\ Item(c).op \in {"route_interrupt", "send_msg", "guest_ipi", "send_ipi"}
                      /\ Item(c).msg.type # "GrantConsole"
                      => \/ Plain(s)
                         \/ /\ s = <<Item(c), NextItem(c)>>
                            /\ Item(c).op \in {"route_interrupt", "send_ipi"}
                         \/ s = <<IpiItem(c), MapItem(c)>> /\ Item(c) = IpiItem(c)
<1>1. s \in Seq(Op) /\ s # <<>> /\ s[1] = Item(c)
  BY DEF TypeOK, Item
<1>2. Len(s) \in Nat /\ Len(s) > 0 /\ DOMAIN s = 1 .. Len(s)
  BY <1>1
<1>3. Len(s) = 1 => s = <<s[1]>>
  BY <1>1, <1>2
<1>4. Len(s) = 2 => s = <<s[1], s[2]>>
  BY <1>1, <1>2
<1>n. /\ NextItem(c).op = "next_console" /\ MapItem(c).op = "map_gsi"
      /\ GrantItem(c).op = "send_msg" /\ GrantItem(c).msg.type = "GrantConsole"
      /\ IpiItem(c).op = "send_ipi" /\ IpiItem(c).msg.type # "GrantConsole"
  BY DEF NextItem, MapItem, GrantItem, IpiItem, Work, GrantConsole, NoMsg
<1>5. CASE Plain(s)
  <2>1. 1 \in 1 .. Len(s)
    BY <1>2
  <2>2. /\ Item(c).op \in {"route_interrupt", "send_msg", "guest_ipi", "send_ipi"}
        /\ Item(c).msg.type # "GrantConsole"
    BY <1>1, <1>5, <2>1 DEF Plain
  <2>3. Item(c).op \notin {"keypress", "handle_msg", "next_console", "map_gsi"}
    BY <2>2
  <2> QED
    BY <1>5, <2>2, <2>3
<1>6. CASE Handling(s, c)
  <2>1. 1 \in 1 .. Len(s)
    BY <1>2
  <2>2. Item(c).op = "handle_msg"
    BY <1>1, <1>6, <2>1 DEF Handling
  <2> QED
    BY <1>6, <2>2
<1>7. CASE InKeypress(c)
  <2>1. Item(c).op = "keypress"
    BY <1>1, <1>7 DEF InKeypress, Work
  <2> QED
    BY <1>7, <2>1
<1>8. CASE s = <<Work("recv_all_msgs", c, NoMsg)>>
  <2>1. Item(c).op = "recv_all_msgs"
    BY <1>1, <1>8 DEF Work
  <2> QED
    BY <2>1
<1>9. CASE Switching(s, c)
  <2>1. CASE Len(s) = 1
    <3>1. s[1] = NextItem(c)
      BY <1>9, <2>1 DEF Switching
    <3> QED
      BY <1>1, <1>3, <1>n, <2>1, <3>1
  <2>2. CASE Len(s) = 2
    <3>1. s[2] = NextItem(c) /\ s[1].op \in {"route_interrupt", "send_ipi"}
          /\ s[1].msg.type # "GrantConsole"
      BY <1>9, <2>2 DEF Switching
    <3> QED
      BY <1>1, <1>4, <2>2, <3>1
  <2> QED
    BY <1>9, <2>1, <2>2 DEF Switching
<1>10. CASE Moving(s, c)
  <2>1. CASE Len(s) = 1
    <3>1. s[1] = MapItem(c)
      BY <1>10, <2>1 DEF Moving
    <3> QED
      BY <1>1, <1>3, <1>n, <2>1, <3>1
  <2>2. CASE Len(s) = 2
    <3>1. s[2] = MapItem(c) /\ (s[1] = GrantItem(c) \/ s[1] = IpiItem(c))
      BY <1>10, <2>2 DEF Moving
    <3> QED
      BY <1>1, <1>4, <1>n, <2>2, <3>1
  <2> QED
    BY <1>10, <2>1, <2>2 DEF Moving
<1>11. Shape(s, c)
  BY DEF ShapeInv
<1> QED
  BY <1>5, <1>6, <1>7, <1>8, <1>9, <1>10, <1>11 DEF Shape, InKeypress

\* A step of one core leaves the work of the others alone.
LEMMA OthersWork ==
  ASSUME TypeOK, NEW c \in Core, ConsoleStep(c), NEW x \in Core, x # c
  PROVE  todo'[x] = todo[x]
<1>1. todo' = todo \/ \E w : todo' = [todo EXCEPT ![c] = w]
  BY DEF ConsoleStep, WaitForInit, TakeUart, RecvAllMsgs, Proceed, InstallGrant, HandleMsg,
         HandleUartKeypress, NextConsole, SendGrant, SendMsg, PushMsg, MapGsiVector, StartWork,
         Continue, Panic
<1> QED
  BY <1>1 DEF TypeOK

\* The shapes of the shorter work.
LEMMA ShorterShapes ==
  ASSUME NEW c \in Core, NEW s \in Seq(Op), s # <<>>
  PROVE  /\ Plain(s) => Plain(Tail(s))
         /\ Handling(s, c) => Handling(Tail(s), c)
         /\ Plain(s) => \A d \in Core : Plain(<<Work("send_ipi", d, NoMsg)>> \o Tail(s))
<1>1. /\ Tail(s) \in Seq(Op) /\ Len(Tail(s)) = Len(s) - 1
      /\ \A i \in 1 .. Len(Tail(s)) : i + 1 \in 1 .. Len(s) /\ Tail(s)[i] = s[i + 1]
  OBVIOUS
<1>2. ASSUME Plain(s) PROVE Plain(Tail(s))
  BY <1>1, <1>2 DEF Plain
<1>3. ASSUME Handling(s, c) PROVE Handling(Tail(s), c)
  BY <1>1, <1>3 DEF Handling
<1>4. ASSUME Plain(s), NEW d \in Core PROVE Plain(<<Work("send_ipi", d, NoMsg)>> \o Tail(s))
  <2> DEFINE t == Tail(s)
             a == Work("send_ipi", d, NoMsg)
             z == <<a>> \o t
  <2>1. a \in Op /\ a.op = "send_ipi" /\ a.msg.type # "GrantConsole"
    BY MsgTypes, WorkType DEF OpName, Work, NoMsg
  <2>2. Plain(t) /\ t \in Seq(Op)
    BY <1>1, <1>2, <1>4
  <2> HIDE DEF t, a
  <2>3. /\ Len(z) = Len(t) + 1 /\ z[1] = a
        /\ \A i \in 1 .. Len(z) : i # 1 => i - 1 \in 1 .. Len(t) /\ z[i] = t[i - 1]
    BY <2>1, <2>2
  <2>4. Plain(z)
    BY <2>1, <2>2, <2>3 DEF Plain
  <2> QED
    BY <2>4 DEF t, a
<1> QED
  BY <1>2, <1>3, <1>4

\* The work before and after an item that is not about the console.
LEMMA ProceedWork ==
  ASSUME TypeOK, ShapeInv, NEW c \in Core, Proceed(c)
  PROVE  \/ Plain(todo[c]) /\ Plain(todo'[c])
         \/ /\ Handling(todo[c], c) /\ todo'[c] = Rest(c)
            /\ Item(c).msg.type # "GrantConsole"
         \/ Switching(todo[c], c) /\ (Switching(todo'[c], c) \/ todo'[c] = <<>>)
         \/ todo[c] = <<IpiItem(c), MapItem(c)>> /\ todo'[c] = <<MapItem(c)>>
<1>1. todo[c] \in Seq(Op) /\ todo[c] # <<>> /\ todo \in [Core -> Seq(Op)]
  BY DEF TypeOK, Proceed
<1>2. Plain(<<>>)
  BY DEF Plain
<1>3. CASE Item(c).op = "handle_msg"
  <2>1. Handling(todo[c], c)
    BY <1>1, <1>3, ByOp
  <2> QED
    BY <1>1, <1>3, <2>1 DEF Proceed
<1>4. CASE Plain(todo[c])
  BY <1>1, <1>2, <1>4, ShorterShapes DEF Proceed, Rest
<1>5. CASE /\ todo[c] = <<Item(c), NextItem(c)>>
           /\ Item(c).op \in {"route_interrupt", "send_ipi"}
  <2>0. Rest(c) = <<NextItem(c)>>
    BY <1>5 DEF Rest
  <2>1. Switching(todo[c], c)
    BY <1>5 DEF Switching, Proceed
  <2>2. ASSUME NEW d \in Core PROVE Switching(<<Work("send_ipi", d, NoMsg)>> \o Rest(c), c)
    BY <2>0 DEF Switching, Work, NoMsg
  <2>3. Switching(Rest(c), c)
    BY <2>0 DEF Switching
  <2> QED
    BY <1>1, <2>1, <2>2, <2>3 DEF Proceed
<1>6. CASE todo[c] = <<IpiItem(c), MapItem(c)>> /\ Item(c) = IpiItem(c)
  <2>1. Rest(c) = <<MapItem(c)>> /\ Item(c).op = "send_ipi"
    BY <1>6 DEF Rest, IpiItem, Work
  <2> QED
    BY <1>1, <1>6, <2>1 DEF Proceed
<1> QED
  BY <1>1, <1>3, <1>4, <1>5, <1>6, ByOp DEF Proceed

\* The work before and after the items that are.
LEMMA ConsoleWork ==
  ASSUME TypeOK, ShapeInv, NEW c \in Core
  PROVE  /\ RecvAllMsgs(c) => /\ todo[c] = <<Work("recv_all_msgs", c, NoMsg)>>
                              /\ todo'[c] = [i \in 1 .. Len(msgqueue[c]) |->
                                               Work("handle_msg", c, msgqueue[c][i])]
         /\ InstallGrant(c) => /\ Handling(todo[c], c) /\ todo[c] # <<>>
                               /\ todo[c][1].msg.type = "GrantConsole"
                               /\ todo'[c] = Tail(todo[c])
         /\ HandleUartKeypress(c) =>
              /\ InKeypress(c)
              /\ \/ ~serial[VmOf(c)] /\ todo'[c] = <<>> /\ UNCHANGED rbr
                 \/ /\ serial[VmOf(c)] /\ rbr' = "none"
                    /\ todo'[c] = <<Work("route_interrupt", c, NoMsg)>>
                 \/ /\ serial[VmOf(c)] /\ rbr' = "none"
                    /\ todo'[c] = <<Work("route_interrupt", c, NoMsg), NextItem(c)>>
         /\ NextConsole(c) =>
              /\ todo[c] = <<NextItem(c)>>
              /\ \/ /\ serial[VmOf(c)]
                    /\ serial' = [serial EXCEPT ![VmOf(c)] = FALSE]
                    /\ todo'[c] = <<GrantItem(c), MapItem(c)>>
                    /\ UNCHANGED pc
                 \/ ~serial[VmOf(c)] /\ UNCHANGED serial /\ todo'[c] = <<>> /\ pc'[c] = "panic"
         /\ SendGrant(c) =>
              /\ todo[c] = <<GrantItem(c), MapItem(c)>>
              /\ \/ /\ todo'[c] = <<IpiItem(c), MapItem(c)>>
                    /\ msgqueue' = [msgqueue EXCEPT ![NextBsp(c)] = Append(@, GrantConsole)]
                 \/ todo'[c] = <<>> /\ UNCHANGED msgqueue /\ pc'[c] = "panic"
         /\ MapGsiVector(c) =>
              todo[c] = <<MapItem(c)>> /\ todo'[c] = <<>> /\ uart_dest' = NextBsp(c)
<1>1. todo[c] \in Seq(Op) /\ todo \in [Core -> Seq(Op)] /\ pc \in [Core -> Place]
  BY DEF TypeOK, Place
<1>2. ASSUME RecvAllMsgs(c)
      PROVE  /\ todo[c] = <<Work("recv_all_msgs", c, NoMsg)>>
             /\ todo'[c] = [i \in 1 .. Len(msgqueue[c]) |->
                              Work("handle_msg", c, msgqueue[c][i])]
  <2>1. todo[c] # <<>> /\ Item(c).op = "recv_all_msgs" /\ todo[c][1] = Item(c)
    BY <1>1, <1>2 DEF RecvAllMsgs, At, Item
  <2>2. Len(todo[c]) \in Nat /\ Len(todo[c]) > 0
    BY <1>1, <2>1
  <2>3. ~Plain(todo[c]) /\ ~Handling(todo[c], c) /\ ~InKeypress(c)
    BY <2>1, <2>2 DEF Plain, Handling, InKeypress, Work
  <2>4. ~Switching(todo[c], c) /\ ~Moving(todo[c], c)
    BY <2>1, <2>2 DEF Switching, Moving, NextItem, GrantItem, IpiItem, MapItem, Work
  <2>5. todo[c] = <<Work("recv_all_msgs", c, NoMsg)>>
    BY <2>3, <2>4 DEF ShapeInv, Shape, InKeypress
  <2> QED
    BY <1>1, <1>2, <2>5 DEF RecvAllMsgs, Continue
<1>3. ASSUME InstallGrant(c)
      PROVE  /\ Handling(todo[c], c) /\ todo[c] # <<>>
             /\ todo[c][1].msg.type = "GrantConsole"
             /\ todo'[c] = Tail(todo[c])
  <2>1. todo[c] # <<>> /\ Item(c).op = "handle_msg" /\ todo[c][1] = Item(c)
    BY <1>1, <1>3 DEF InstallGrant, HandleMsg, At, Item
  <2> QED
    BY <1>1, <1>3, <2>1, ByOp DEF InstallGrant, HandleMsg, Continue, Rest
<1>4. ASSUME HandleUartKeypress(c)
      PROVE  /\ InKeypress(c)
             /\ \/ ~serial[VmOf(c)] /\ todo'[c] = <<>> /\ UNCHANGED rbr
                \/ /\ serial[VmOf(c)] /\ rbr' = "none"
                   /\ todo'[c] = <<Work("route_interrupt", c, NoMsg)>>
                \/ /\ serial[VmOf(c)] /\ rbr' = "none"
                   /\ todo'[c] = <<Work("route_interrupt", c, NoMsg), NextItem(c)>>
  <2>1. todo[c] # <<>> /\ Item(c).op = "keypress"
    BY <1>4 DEF HandleUartKeypress, At, Item
  <2>2. InKeypress(c)
    BY <2>1, ByOp
  <2>3. Rest(c) = <<>>
    BY <2>2 DEF InKeypress, Rest
  <2> QED
    BY <1>1, <1>4, <2>2, <2>3 DEF HandleUartKeypress, Continue, NextItem
<1>5. ASSUME NextConsole(c)
      PROVE  /\ todo[c] = <<NextItem(c)>>
             /\ \/ /\ serial[VmOf(c)]
                   /\ serial' = [serial EXCEPT ![VmOf(c)] = FALSE]
                   /\ todo'[c] = <<GrantItem(c), MapItem(c)>>
                   /\ UNCHANGED pc
                \/ ~serial[VmOf(c)] /\ UNCHANGED serial /\ todo'[c] = <<>> /\ pc'[c] = "panic"
  <2>1. todo[c] # <<>> /\ Item(c).op = "next_console"
    BY <1>5 DEF NextConsole, At, Item
  <2>2. todo[c] = <<NextItem(c)>>
    BY <2>1, ByOp
  <2>3. Rest(c) = <<>>
    BY <2>2 DEF Rest
  <2>4. <<GrantItem(c), MapItem(c)>> \o Rest(c) = <<GrantItem(c), MapItem(c)>>
    BY <2>3
  <2> QED
    BY <1>1, <1>5, <2>2, <2>4 DEF NextConsole, Continue, Panic, GrantItem, MapItem, NextBsp
<1>6. ASSUME SendGrant(c)
      PROVE  /\ todo[c] = <<GrantItem(c), MapItem(c)>>
             /\ \/ /\ todo'[c] = <<IpiItem(c), MapItem(c)>>
                   /\ msgqueue' = [msgqueue EXCEPT ![NextBsp(c)] = Append(@, GrantConsole)]
                \/ todo'[c] = <<>> /\ UNCHANGED msgqueue /\ pc'[c] = "panic"
  <2>1. todo[c] # <<>> /\ Item(c).op = "send_msg"
    BY <1>6 DEF SendGrant, SendMsg, At, Item
  <2>2. todo[c] = <<GrantItem(c), MapItem(c)>>
    BY <1>6, <2>1, ByOp DEF SendGrant
  <2>3. Rest(c) = <<MapItem(c)>> /\ Item(c) = GrantItem(c)
    BY <2>2 DEF Rest, Item
  <2>4. <<IpiItem(c)>> \o Rest(c) = <<IpiItem(c), MapItem(c)>>
    <3>1. ASSUME NEW a \in Op, NEW b \in Op PROVE <<a>> \o <<b>> = <<a, b>>
      <4> DEFINE z == <<a>> \o <<b>>
      <4>1. z \in Seq(Op) /\ Len(z) = 2 /\ z[1] = a /\ z[2] = b
        OBVIOUS
      <4> HIDE DEF z
      <4>2. z = <<z[1], z[2]>>
        BY <4>1
      <4>3. z = <<a, b>>
        BY <4>1, <4>2
      <4> QED
        BY <4>3 DEF z
    <3>2. NextBsp(c) \in Core
      BY VmOfCore, NextVmInVmId, BspCore DEF NextBsp
    <3>3. IpiItem(c) \in Op /\ MapItem(c) \in Op
      BY <3>2, MsgTypes, WorkType DEF IpiItem, MapItem, OpName
    <3> QED
      BY <2>3, <3>1, <3>3
  <2>5. Item(c).dst = NextBsp(c) /\ Item(c).msg = GrantConsole /\ Item(c).mask = NoDest
    BY <2>3 DEF GrantItem, Work
  <2>6. PushMsg(c, NextBsp(c), GrantConsole)
    BY <1>6, <2>5 DEF SendGrant, SendMsg
  <2>7. Notify(GrantConsole) /\ GrantConsole # CancelTimer
    BY DEF Notify, GrantConsole, CancelTimer
  <2> QED
    BY <1>1, <2>2, <2>4, <2>6, <2>7 DEF PushMsg, Continue, Panic, IpiItem
<1>7. ASSUME MapGsiVector(c)
      PROVE  todo[c] = <<MapItem(c)>> /\ todo'[c] = <<>> /\ uart_dest' = NextBsp(c)
  <2>1. todo[c] # <<>> /\ Item(c).op = "map_gsi"
    BY <1>7 DEF MapGsiVector, At, Item
  <2>2. todo[c] = <<MapItem(c)>>
    BY <2>1, ByOp
  <2>3. Rest(c) = <<>> /\ Item(c).dst = NextBsp(c)
    BY <2>2 DEF Rest, Item, MapItem, Work
  <2> QED
    BY <1>1, <1>7, <2>2, <2>3 DEF MapGsiVector, Continue
<1> QED
  BY <1>2, <1>3, <1>4, <1>5, <1>6, <1>7

\* What handle_ipc finds is one message to handle for each message of the queue.
LEMMA FoundIsHandling ==
  ASSUME NEW c, NEW q \in Seq(Msg), NEW t,
         t = [i \in 1 .. Len(q) |-> Work("handle_msg", c, q[i])]
  PROVE  Handling(t, c)
<1>1. Len(q) \in Nat
  OBVIOUS
<1>2. Len(t) = Len(q)
  BY <1>1
<1>3. ASSUME NEW i \in 1 .. Len(t) PROVE t[i].op = "handle_msg" /\ t[i].dst = c
  <2>1. t[i] = Work("handle_msg", c, q[i])
    BY <1>2
  <2> QED
    BY <2>1 DEF Work
<1> QED
  BY <1>3 DEF Handling

\* Every step keeps the shape of every handler's work.
LEMMA NextShape == TypeOK /\ ShapeInv /\ [Next]_vars => ShapeInv'
<1> SUFFICES ASSUME TypeOK, ShapeInv, [Next]_vars PROVE ShapeInv'
  OBVIOUS
<1>1. ASSUME UNCHANGED todo PROVE ShapeInv'
  BY <1>1 DEF ShapeInv
<1>2. ASSUME NEW c \in Core, ConsoleStep(c) PROVE Shape(todo'[c], c)
  <2>0. Plain(<<>>) /\ todo \in [Core -> Seq(Op)] /\ Shape(todo[c], c)
    BY DEF Plain, TypeOK, ShapeInv
  <2>1. CASE WaitForInit(c)
    BY <2>0, <2>1 DEF WaitForInit
  <2>2. CASE TakeUart(c) \/ \E w \in Seq(Op) : StartWork(c, w)
    <3>1. CASE TakeUart(c)
      <4>1. todo'[c] = <<Work("keypress", c, NoMsg)>>
        BY <2>0, <3>1 DEF TakeUart
      <4> QED
        BY <4>1 DEF Shape
    <3>2. ASSUME NEW w \in Seq(Op), StartWork(c, w) PROVE Shape(todo'[c], c)
      <4>1. todo'[c] = w /\ (Plain(w) \/ w = <<Work("recv_all_msgs", c, NoMsg)>>)
        BY <2>0, <3>2 DEF StartWork
      <4> QED
        BY <4>1 DEF Shape
    <3> QED
      BY <2>2, <3>1, <3>2
  <2>3. CASE RecvAllMsgs(c)
    <3>1. todo'[c] = [i \in 1 .. Len(msgqueue[c]) |-> Work("handle_msg", c, msgqueue[c][i])]
      BY <2>3, ConsoleWork
    <3>2. msgqueue[c] \in Seq(Msg)
      BY DEF TypeOK
    <3>3. Handling(todo'[c], c)
      BY Zenon, <3>1, <3>2, FoundIsHandling
    <3> QED
      BY <3>3 DEF Shape
  <2>4. CASE Proceed(c)
    <3>1. ASSUME Handling(todo[c], c), todo'[c] = Rest(c) PROVE Handling(todo'[c], c)
      BY <2>0, <2>4, <3>1, ShorterShapes DEF Rest, Proceed
    <3>2. Moving(<<MapItem(c)>>, c)
      BY DEF Moving
    <3> QED
      BY <2>0, <2>4, <3>1, <3>2, ProceedWork DEF Shape
  <2>5. CASE InstallGrant(c)
    <3>1. Handling(todo[c], c) /\ todo[c] # <<>> /\ todo'[c] = Tail(todo[c])
      BY <2>5, ConsoleWork
    <3>2. todo[c] \in Seq(Op)
      BY <2>0
    <3>3. Handling(todo'[c], c)
      BY <3>1, <3>2, ShorterShapes
    <3> QED
      BY <3>3 DEF Shape
  <2>6. CASE HandleUartKeypress(c)
    <3>1. Plain(<<Work("route_interrupt", c, NoMsg)>>)
      BY DEF Plain, Work, NoMsg
    <3>2. Switching(<<Work("route_interrupt", c, NoMsg), NextItem(c)>>, c)
      BY DEF Switching, Work, NoMsg
    <3> QED
      BY <2>0, <2>6, <3>1, <3>2, ConsoleWork DEF Shape
  <2>7. CASE NextConsole(c) \/ SendGrant(c) \/ MapGsiVector(c)
    <3>1. Moving(<<GrantItem(c), MapItem(c)>>, c) /\ Moving(<<IpiItem(c), MapItem(c)>>, c)
      BY DEF Moving
    <3> QED
      BY <2>0, <2>7, <3>1, ConsoleWork DEF Shape
  <2> QED
    BY <1>2, <2>1, <2>2, <2>3, <2>4, <2>5, <2>6, <2>7 DEF ConsoleStep
<1>3. ASSUME NEW c \in Core, ConsoleStep(c) PROVE ShapeInv'
  BY <1>2, <1>3, OthersWork DEF ShapeInv
<1> QED
  BY <1>1, <1>3, Classify DEF IdleStep, KeyPress

-----------------------------------------------------------------------------
(***************************************************************************)
(* Where the grants are, and how a step moves them.                        *)
(***************************************************************************)
Grants(s) == {i \in 1 .. Len(s) : s[i].msg.type = "GrantConsole"}

\* The grants in each shape of work.
LEMMA GrantsOf ==
  ASSUME NEW c \in Core
  PROVE  /\ \A s : Plain(s) => Grants(s) = {}
         /\ \A s : Switching(s, c) => Grants(s) = {}
         /\ Grants(<<>>) = {}
         /\ Grants(<<Work("keypress", c, NoMsg)>>) = {}
         /\ Grants(<<Work("recv_all_msgs", c, NoMsg)>>) = {}
         /\ Grants(<<GrantItem(c), MapItem(c)>>) = {1}
         /\ Grants(<<IpiItem(c), MapItem(c)>>) = {}
         /\ Grants(<<MapItem(c)>>) = {}
<1>1. ASSUME NEW s, Plain(s) PROVE Grants(s) = {}
  BY <1>1 DEF Plain, Grants
<1>2. ASSUME NEW s, Switching(s, c) PROVE Grants(s) = {}
  BY <1>2 DEF Switching, NextItem, Work, NoMsg, Grants
<1>3. /\ Grants(<<>>) = {}
      /\ Grants(<<Work("keypress", c, NoMsg)>>) = {}
      /\ Grants(<<Work("recv_all_msgs", c, NoMsg)>>) = {}
  BY DEF Grants, Work, NoMsg
<1>4. /\ GrantItem(c).msg.type = "GrantConsole"
      /\ IpiItem(c).msg.type # "GrantConsole"
      /\ MapItem(c).msg.type # "GrantConsole"
  BY DEF GrantItem, IpiItem, MapItem, Work, NoMsg, GrantConsole
<1>5. /\ Grants(<<GrantItem(c), MapItem(c)>>) = {1}
      /\ Grants(<<IpiItem(c), MapItem(c)>>) = {}
      /\ Grants(<<MapItem(c)>>) = {}
  BY <1>4 DEF Grants
<1> QED
  BY <1>1, <1>2, <1>3, <1>5

\* Going on to the next item moves the grants one place to the front.
LEMMA GrantsOfTail ==
  ASSUME NEW s \in Seq(Op), s # <<>>
  PROVE  Grants(Tail(s)) = {i - 1 : i \in Grants(s) \ {1}}
<1>1. /\ Len(s) \in Nat /\ Len(Tail(s)) = Len(s) - 1
      /\ \A i \in 1 .. Len(s) - 1 : Tail(s)[i] = s[i + 1]
  OBVIOUS
<1>2. ASSUME NEW i \in Grants(Tail(s)) PROVE i + 1 \in Grants(s) \ {1} /\ i = (i + 1) - 1
  BY <1>1 DEF Grants
<1>3. ASSUME NEW i \in Grants(s) \ {1} PROVE i - 1 \in Grants(Tail(s))
  <2>1. i \in 2 .. Len(s) /\ s[i].msg.type = "GrantConsole"
    BY <1>1 DEF Grants
  <2>2. i - 1 \in 1 .. Len(s) - 1 /\ Tail(s)[i - 1] = s[i]
    BY <1>1, <2>1
  <2> QED
    BY <1>1, <2>1, <2>2 DEF Grants
<1> QED
  BY <1>2, <1>3

\* All grants outside core c's hands stay where they are.
OthersStay(c) == \A x \in Core : x # c => todo'[x] = todo[x] /\ GrantsInHand(x)' = GrantsInHand(x)
QueuesStay == \A x \in Core : GrantsInQueue(x)' = GrantsInQueue(x)

Still == UNCHANGED <<serial, todo>> /\ QueuesStay

\* Core c has no grant, or goes through its messages and has not come to it.
Stay(c) ==
  /\ UNCHANGED serial /\ QueuesStay /\ OthersStay(c)
  /\ \/ GrantsInHand(c) = {} /\ GrantsInHand(c)' = {}
     \/ /\ Handling(todo[c], c) /\ Handling(todo'[c], c)
        /\ 1 \notin GrantsInHand(c)
        /\ GrantsInHand(c)' = {i - 1 : i \in GrantsInHand(c)}

Drain(c) ==
  /\ UNCHANGED serial /\ OthersStay(c)
  /\ GrantsInQueue(c)' = {}
  /\ \A x \in Core : x # c => GrantsInQueue(x)' = GrantsInQueue(x)
  /\ GrantsInHand(c) = {}
  /\ GrantsInHand(c)' = GrantsInQueue(c)
  /\ Handling(todo'[c], c)

Install(c) ==
  /\ serial' = [serial EXCEPT ![VmOf(c)] = TRUE]
  /\ QueuesStay /\ OthersStay(c)
  /\ Handling(todo[c], c) /\ Handling(todo'[c], c)
  /\ 1 \in GrantsInHand(c)
  /\ GrantsInHand(c)' = {i - 1 : i \in GrantsInHand(c) \ {1}}

Take(c) ==
  /\ serial[VmOf(c)]
  /\ serial' = [serial EXCEPT ![VmOf(c)] = FALSE]
  /\ QueuesStay /\ OthersStay(c)
  /\ GrantsInHand(c) = {} /\ GrantsInHand(c)' = {1}
  /\ todo'[c] = <<GrantItem(c), MapItem(c)>>

Send(c) ==
  /\ UNCHANGED serial /\ OthersStay(c)
  /\ GrantsInHand(c) = {1} /\ GrantsInHand(c)' = {}
  /\ todo[c] = <<GrantItem(c), MapItem(c)>> /\ todo'[c] = <<IpiItem(c), MapItem(c)>>
  /\ \E i : GrantsInQueue(NextBsp(c))' = GrantsInQueue(NextBsp(c)) \cup {i}
  /\ \A x \in Core : x # NextBsp(c) => GrantsInQueue(x)' = GrantsInQueue(x)

LoseGrant(c) ==
  /\ UNCHANGED serial /\ QueuesStay /\ OthersStay(c)
  /\ GrantsInHand(c) = {1} /\ GrantsInHand(c)' = {}
  /\ todo[c] = <<GrantItem(c), MapItem(c)>>
  /\ pc'[c] = "panic"

\* Messages that carry no grant come and go without moving any.
LEMMA QueueFrame ==
  ASSUME TypeOK
  PROVE  /\ UNCHANGED msgqueue => QueuesStay
         /\ \A d \in Core, m \in Msg :
              m.type # "GrantConsole" /\ msgqueue' = [msgqueue EXCEPT ![d] = Append(@, m)]
                => QueuesStay
<1>1. ASSUME UNCHANGED msgqueue PROVE QueuesStay
  BY <1>1 DEF QueuesStay, GrantsInQueue
<1>2. ASSUME NEW d \in Core, NEW m \in Msg, m.type # "GrantConsole",
             msgqueue' = [msgqueue EXCEPT ![d] = Append(@, m)]
      PROVE  QueuesStay
  <2>1. msgqueue \in [Core -> Seq(Msg)] /\ msgqueue[d] \in Seq(Msg)
    BY DEF TypeOK
  <2>2. msgqueue'[d] = Append(msgqueue[d], m) /\ \A x \in Core : x # d => msgqueue'[x] = msgqueue[x]
    BY <1>2, <2>1
  <2>3. /\ Len(msgqueue[d]) \in Nat /\ Len(msgqueue'[d]) = Len(msgqueue[d]) + 1
        /\ \A i \in 1 .. Len(msgqueue[d]) : msgqueue'[d][i] = msgqueue[d][i]
        /\ msgqueue'[d][Len(msgqueue[d]) + 1] = m
    BY <2>1, <2>2
  <2>4. GrantsInQueue(d)' = GrantsInQueue(d)
    BY <1>2, <2>3 DEF GrantsInQueue
  <2> QED
    BY <2>2, <2>4 DEF QueuesStay, GrantsInQueue
<1> QED
  BY <1>1, <1>2

\* A core that waits for its start-up message drops no grant: it is no BSP.
LEMMA WaitStay ==
  ASSUME TypeOK, PlaceInv, NEW c \in Core, WaitForInit(c)
  PROVE  Still
<1>1. /\ msgqueue \in [Core -> Seq(Msg)] /\ msgqueue[c] \in Seq(Msg) /\ msgqueue[c] # <<>>
      /\ GrantsInQueue(c) = {}
  BY DEF TypeOK, PlaceInv, WaitForInit
<1>2. msgqueue'[c] = Tail(msgqueue[c]) /\ \A x \in Core : x # c => msgqueue'[x] = msgqueue[x]
  BY <1>1 DEF WaitForInit
<1>3. ASSUME NEW i \in 1 .. Len(msgqueue'[c]) PROVE msgqueue'[c][i].type # "GrantConsole"
  <2>1. i + 1 \in 1 .. Len(msgqueue[c]) /\ msgqueue'[c][i] = msgqueue[c][i + 1]
    BY <1>1, <1>2
  <2> QED
    BY <1>1, <2>1 DEF GrantsInQueue
<1>4. GrantsInQueue(c)' = {}
  BY <1>3 DEF GrantsInQueue
<1> QED
  BY <1>1, <1>2, <1>4 DEF Still, QueuesStay, GrantsInQueue, WaitForInit, uartVars

\* A step that does not touch the queues, the slots or the grants in hand.
LEMMA NoGrantStep ==
  ASSUME TypeOK, NEW c \in Core, ConsoleStep(c), UNCHANGED <<serial, msgqueue>>,
         Grants(todo[c]) = {}, Grants(todo'[c]) = {}
  PROVE  Stay(c)
<1>1. QueuesStay
  BY QueueFrame
<1>2. OthersStay(c)
  BY OthersWork DEF OthersStay, GrantsInHand
<1>3. GrantsInHand(c) = {} /\ GrantsInHand(c)' = {}
  BY DEF Grants, GrantsInHand
<1> QED
  BY <1>1, <1>2, <1>3 DEF Stay

\* Every step moves the grants in one of these ways.
LEMMA GrantSteps ==
  ASSUME TypeOK, ShapeInv, PlaceInv, [Next]_vars
  PROVE  \/ Still
         \/ \E c \in Core : \/ Stay(c) \/ Drain(c) \/ Install(c)
                            \/ Take(c) \/ Send(c) \/ LoseGrant(c)
<1> USE DEF uartVars
<1>1. CASE IdleStep \/ \E k \in Keys : KeyPress(k)
  BY <1>1, QueueFrame DEF IdleStep, UartAlone, KeyPress, Still
<1>2. ASSUME NEW c \in Core, ConsoleStep(c)
      PROVE  Still \/ Stay(c) \/ Drain(c) \/ Install(c) \/ Take(c) \/ Send(c) \/ LoseGrant(c)
  <2>0. /\ todo \in [Core -> Seq(Op)] /\ todo[c] \in Seq(Op)
        /\ GrantsInHand(c) = Grants(todo[c]) /\ GrantsInHand(c)' = Grants(todo'[c])
    BY DEF TypeOK, Grants, GrantsInHand
  <2>o. OthersStay(c)
    BY <1>2, OthersWork DEF OthersStay, GrantsInHand
  <2>1. CASE WaitForInit(c)
    BY <2>1, WaitStay
  <2>2. CASE TakeUart(c)
    <3>1. todo[c] = <<>> /\ todo'[c] = <<Work("keypress", c, NoMsg)>> /\ UNCHANGED <<serial, msgqueue>>
      BY <2>0, <2>2 DEF TakeUart
    <3> QED
      BY <1>2, <3>1, GrantsOf, NoGrantStep
  <2>3. ASSUME NEW w \in Seq(Op), StartWork(c, w) PROVE Stay(c)
    <3>1. /\ todo[c] = <<>> /\ todo'[c] = w /\ UNCHANGED <<serial, msgqueue>>
          /\ Plain(w) \/ w = <<Work("recv_all_msgs", c, NoMsg)>>
      BY <2>0, <2>3 DEF StartWork, UartAlone
    <3>2. Grants(todo[c]) = {} /\ Grants(todo'[c]) = {}
      BY <3>1, GrantsOf
    <3> QED
      BY <1>2, <3>1, <3>2, NoGrantStep
  <2>4. CASE RecvAllMsgs(c)
    <3> DEFINE q == msgqueue[c]
    <3>1. /\ todo[c] = <<Work("recv_all_msgs", c, NoMsg)>>
          /\ todo'[c] = [i \in 1 .. Len(q) |-> Work("handle_msg", c, q[i])]
      BY <2>4, ConsoleWork
    <3>2. q \in Seq(Msg) /\ Len(q) \in Nat /\ msgqueue \in [Core -> Seq(Msg)]
      BY DEF TypeOK
    <3>3. /\ Len(todo'[c]) = Len(q)
          /\ \A i \in 1 .. Len(q) : todo'[c][i] = Work("handle_msg", c, q[i])
      BY <3>1, <3>2
    <3>4. Handling(todo'[c], c) /\ Grants(todo'[c]) = GrantsInQueue(c)
      <4>0. \A m : LET w == Work("handle_msg", c, m)
                   IN  w.op = "handle_msg" /\ w.dst = c /\ w.msg = m
        BY DEF Work
      <4>1. \A i \in 1 .. Len(q) : /\ todo'[c][i].op = "handle_msg" /\ todo'[c][i].dst = c
                                   /\ todo'[c][i].msg = q[i]
        BY <3>3, <4>0
      <4>2. Handling(todo'[c], c)
        BY <3>3, <4>1 DEF Handling
      <4>3. GrantsInQueue(c) = {i \in 1 .. Len(q) : q[i].type = "GrantConsole"}
        BY DEF GrantsInQueue
      <4> HIDE DEF q
      <4>4. Grants(todo'[c]) = GrantsInQueue(c)
        BY <3>3, <4>1, <4>3 DEF Grants
      <4> QED
        BY <4>2, <4>4
    <3>5. Grants(todo[c]) = {}
      BY <3>1, GrantsOf
    <3>6. /\ GrantsInQueue(c)' = {} /\ UNCHANGED serial
          /\ \A x \in Core : x # c => GrantsInQueue(x)' = GrantsInQueue(x)
      BY <2>4, <3>2 DEF RecvAllMsgs, GrantsInQueue
    <3> QED
      BY <2>0, <2>o, <3>4, <3>5, <3>6 DEF Drain
  <2>5. CASE Proceed(c)
    <3>1. QueuesStay /\ UNCHANGED serial /\ todo[c] # <<>>
      BY <2>5, QueueFrame DEF Proceed, UartAlone
    <3>2. ASSUME Grants(todo[c]) = {}, Grants(todo'[c]) = {} PROVE Stay(c)
      BY <2>0, <2>o, <3>1, <3>2 DEF Stay
    <3>3. ASSUME Handling(todo[c], c), todo'[c] = Rest(c), Item(c).msg.type # "GrantConsole"
          PROVE  Stay(c)
      <4>1. Handling(todo'[c], c)
        BY <2>0, <3>1, <3>3, ShorterShapes DEF Rest
      <4>2. Grants(todo'[c]) = {i - 1 : i \in Grants(todo[c]) \ {1}}
        BY <2>0, <3>1, <3>3, GrantsOfTail DEF Rest
      <4>3. 1 \notin Grants(todo[c])
        <5>1. todo[c][1] = Item(c)
          BY <2>0, <3>1 DEF Item
        <5> QED
          BY <3>3, <5>1 DEF Grants
      <4>4. Grants(todo[c]) \ {1} = Grants(todo[c])
        BY <4>3
      <4> QED
        BY <2>0, <2>o, <3>1, <3>3, <4>1, <4>2, <4>3, <4>4 DEF Stay
    <3> QED
      BY <2>5, <3>2, <3>3, ProceedWork, GrantsOf
  <2>6. CASE InstallGrant(c)
    <3>1. /\ Handling(todo[c], c) /\ todo[c] # <<>> /\ todo[c][1].msg.type = "GrantConsole"
          /\ todo'[c] = Tail(todo[c])
      BY <2>6, ConsoleWork
    <3>2. Handling(todo'[c], c) /\ Grants(todo'[c]) = {i - 1 : i \in Grants(todo[c]) \ {1}}
      BY <2>0, <3>1, ShorterShapes, GrantsOfTail
    <3>3. 1 \in Grants(todo[c])
      BY <2>0, <3>1 DEF Grants
    <3>4. QueuesStay /\ serial' = [serial EXCEPT ![VmOf(c)] = TRUE]
      BY <2>6, QueueFrame DEF InstallGrant, HandleMsg
    <3> QED
      BY <2>0, <2>o, <3>1, <3>2, <3>3, <3>4 DEF Install
  <2>7. CASE HandleUartKeypress(c)
    <3>1. Plain(<<Work("route_interrupt", c, NoMsg)>>)
      BY DEF Plain, Work, NoMsg
    <3>2. Switching(<<Work("route_interrupt", c, NoMsg), NextItem(c)>>, c)
      BY DEF Switching, Work, NoMsg
    <3>3. Grants(todo[c]) = {}
      BY <2>7, ConsoleWork, GrantsOf DEF InKeypress
    <3>4. Grants(todo'[c]) = {}
      BY <2>7, <3>1, <3>2, ConsoleWork, GrantsOf
    <3> QED
      BY <1>2, <2>7, <3>3, <3>4, NoGrantStep DEF HandleUartKeypress
  <2>8. CASE NextConsole(c)
    <3>1. Switching(<<NextItem(c)>>, c)
      BY DEF Switching
    <3>2. Grants(todo[c]) = {} /\ UNCHANGED msgqueue
      BY <2>8, <3>1, ConsoleWork, GrantsOf DEF NextConsole
    <3>3. CASE UNCHANGED serial /\ todo'[c] = <<>>
      BY <1>2, <3>2, <3>3, GrantsOf, NoGrantStep
    <3>4. CASE /\ serial[VmOf(c)]
               /\ serial' = [serial EXCEPT ![VmOf(c)] = FALSE]
               /\ todo'[c] = <<GrantItem(c), MapItem(c)>>
      BY <2>0, <2>o, <3>2, <3>4, GrantsOf, QueueFrame DEF Take
    <3> QED
      BY <2>8, <3>3, <3>4, ConsoleWork
  <2>9. CASE SendGrant(c)
    <3>1. todo[c] = <<GrantItem(c), MapItem(c)>> /\ UNCHANGED serial
      BY <2>9, ConsoleWork DEF SendGrant, SendMsg
    <3>2. GrantsInHand(c) = {1}
      BY <2>0, <3>1, GrantsOf
    <3>3. CASE todo'[c] = <<>> /\ UNCHANGED msgqueue /\ pc'[c] = "panic"
      BY <2>0, <2>o, <3>1, <3>2, <3>3, GrantsOf, QueueFrame DEF LoseGrant
    <3>4. CASE /\ todo'[c] = <<IpiItem(c), MapItem(c)>>
               /\ msgqueue' = [msgqueue EXCEPT ![NextBsp(c)] = Append(@, GrantConsole)]
      <4> DEFINE d == NextBsp(c)
                 q == msgqueue[d]
      <4>1. d \in Core
        BY VmOfCore, NextVmInVmId, BspCore DEF NextBsp
      <4>2. q \in Seq(Msg) /\ Len(q) \in Nat /\ msgqueue \in [Core -> Seq(Msg)]
        BY <4>1 DEF TypeOK
      <4>3. msgqueue'[d] = Append(q, GrantConsole) /\ \A x \in Core : x # d => msgqueue'[x] = msgqueue[x]
        BY <3>4, <4>1, <4>2
      <4>4. /\ Len(msgqueue'[d]) = Len(q) + 1 /\ msgqueue'[d][Len(q) + 1] = GrantConsole
            /\ \A i \in 1 .. Len(q) : msgqueue'[d][i] = q[i]
        BY <4>2, <4>3, MsgTypes
      <4>5. GrantsInQueue(d)' = GrantsInQueue(d) \cup {Len(q) + 1}
        <5>1. GrantConsole.type = "GrantConsole"
          BY DEF GrantConsole
        <5>2. 1 .. Len(msgqueue'[d]) = (1 .. Len(q)) \cup {Len(q) + 1}
          BY <4>2, <4>4
        <5> QED
          BY <4>4, <5>1, <5>2 DEF GrantsInQueue
      <4>6. \A x \in Core : x # d => GrantsInQueue(x)' = GrantsInQueue(x)
        BY <4>3 DEF GrantsInQueue
      <4>7. GrantsInHand(c)' = {}
        BY <2>0, <3>4, GrantsOf
      <4> QED
        BY <2>o, <3>1, <3>2, <3>4, <4>5, <4>6, <4>7 DEF Send
    <3> QED
      BY <2>9, <3>3, <3>4, ConsoleWork
  <2>10. CASE MapGsiVector(c)
    <3>1. Grants(todo[c]) = {} /\ Grants(todo'[c]) = {}
      BY <2>10, ConsoleWork, GrantsOf
    <3> QED
      BY <1>2, <2>10, <3>1, NoGrantStep DEF MapGsiVector
  <2> QED
    BY <1>2, <2>1, <2>2, <2>3, <2>4, <2>5, <2>6, <2>7, <2>8, <2>9, <2>10 DEF ConsoleStep
<1> QED
  BY <1>1, <1>2, Classify

-----------------------------------------------------------------------------
(***************************************************************************)
(* The UART is in exactly one place.                                       *)
(***************************************************************************)

\* Only a core that is no BSP begins to wait, and a panic is for ever.
LEMMA PcStep ==
  ASSUME TypeOK, [Next]_vars, NEW x \in Core
  PROVE  /\ pc'[x] = "waiting" => pc[x] = "waiting" \/ x # Bsp(VmOf(x))
         /\ pc[x] = "panic" => pc'[x] = "panic"
<1>0. pc \in [Core -> Place]
  BY DEF TypeOK, Place
<1>1. CASE UNCHANGED pc
  BY <1>1
<1>2. ASSUME NEW c \in Core, Startup(c)
      PROVE  /\ pc'[x] = "waiting" => pc[x] = "waiting" \/ x # Bsp(VmOf(x))
             /\ pc[x] = "panic" => pc'[x] = "panic"
  BY <1>0, <1>2 DEF Startup, NotifyReady, AllCoresReady, WaitForInit
<1>3. ASSUME NEW c \in Core, ForcedExit(c) \/ GuestExit(c)
      PROVE  pc[c] = "guest" /\ pc' = [pc EXCEPT ![c] = "exit"]
  BY <1>3 DEF ForcedExit, ExternalInterrupt, InterruptWindow, VmExit, GuestRuns,
              GuestExit, OtherExit, WriteIcrDestination, WriteLogicalDestination,
              StartUpIpi, AllExcludingSelfIpi, LogicalIpi, IgnoredIpi,
              WriteIcrCommand, UartTransmit, CancelRemoteTimer
<1>4. ASSUME NEW c \in Core, Handle(c) \/ FinishVmExit(c)
      PROVE  /\ pc[c] = "exit"
             /\ pc' = pc \/ pc' = [pc EXCEPT ![c] = "panic"] \/ pc' = [pc EXCEPT ![c] = "guest"]
  <2>1. pc[c] = "exit"
    BY <1>4 DEF Handle, At, RecvAllMsgs, HandleMsg, HandleUartKeypress, RouteInterrupt, NextConsole,
                SendMsg, GuestIpi, SendIpi, MapGsiVector, FinishVmExit, EnterGuest
  <2>2. pc' = pc \/ pc' = [pc EXCEPT ![c] = "panic"] \/ pc' = [pc EXCEPT ![c] = "guest"]
    BY <1>4 DEF Handle, Continue, Panic, PushMsg, RecvAllMsgs, HandleMsg, HandleUartKeypress,
                RouteInterrupt, NextConsole, SendMsg, GuestIpi, SendIpi, MapGsiVector,
                FinishVmExit, EnterGuest
  <2> QED
    BY <2>1, <2>2
<1>5. ASSUME NEW c \in Core, ApicTimer(c) \/ GuestFlipsIF(c) PROVE UNCHANGED pc
  BY <1>5 DEF ApicTimer, GuestFlipsIF
<1>6. ASSUME NEW k \in Keys, KeyPress(k) PROVE UNCHANGED pc
  BY <1>6 DEF KeyPress
<1>7. CASE UNCHANGED vars
  BY <1>1, <1>7 DEF vars
<1> QED
  BY <1>0, <1>1, <1>2, <1>3, <1>4, <1>5, <1>6, <1>7 DEF Next

\* The console goes to the BSP of a VM.
LEMMA NextBspIsBsp ==
  ASSUME NEW c \in Core
  PROVE  /\ NextBsp(c) \in Core
         /\ VmOf(NextBsp(c)) = NextVm(VmOf(c))
         /\ NextBsp(c) = Bsp(VmOf(NextBsp(c)))
  BY VmOfCore, NextVmInVmId, BspCore DEF NextBsp

\* Every step leaves grants with BSPs only.
LEMMA NextPlace == TypeOK /\ ShapeInv /\ PlaceInv /\ [Next]_vars => PlaceInv'
<1> SUFFICES ASSUME TypeOK, ShapeInv, PlaceInv, [Next]_vars PROVE PlaceInv'
  OBVIOUS
<1>1. \A c \in Core : pc'[c] = "waiting" => c # Bsp(VmOf(c))
  BY PcStep DEF PlaceInv
<1> DEFINE Queued == \A x \in Core : GrantsInQueue(x)' # {} => x = Bsp(VmOf(x))
           InHand == \A x \in Core : GrantsInHand(x)' # {} /\ Handling(todo'[x], x) => x = Bsp(VmOf(x))
<1>2. CASE Still
  BY <1>1, <1>2 DEF Still, QueuesStay, PlaceInv, GrantsInHand
<1>3. ASSUME NEW c \in Core,
             Stay(c) \/ Drain(c) \/ Install(c) \/ Take(c) \/ Send(c) \/ LoseGrant(c)
      PROVE  Queued /\ InHand
  <2>o. ASSUME NEW x \in Core, x # c
        PROVE  GrantsInHand(x)' # {} /\ Handling(todo'[x], x) => x = Bsp(VmOf(x))
    BY <1>3, <2>o DEF Stay, Drain, Install, Take, Send, LoseGrant, OthersStay, PlaceInv
  <2>1. CASE Stay(c)
    <3>1. Queued
      BY <2>1 DEF Stay, QueuesStay, PlaceInv
    <3>2. GrantsInHand(c)' # {} /\ Handling(todo'[c], c) => c = Bsp(VmOf(c))
      BY <2>1 DEF Stay, PlaceInv
    <3> QED
      BY <2>o, <3>1, <3>2
  <2>2. CASE Drain(c)
    <3>1. Queued
      BY <2>2 DEF Drain, PlaceInv
    <3>2. GrantsInHand(c)' # {} => c = Bsp(VmOf(c))
      BY <2>2 DEF Drain, PlaceInv
    <3> QED
      BY <2>o, <3>1, <3>2
  <2>3. CASE Install(c)
    <3>1. Queued
      BY <2>3 DEF Install, QueuesStay, PlaceInv
    <3>2. c = Bsp(VmOf(c))
      BY <2>3 DEF Install, PlaceInv
    <3> QED
      BY <2>o, <3>1, <3>2
  <2>4. CASE Take(c)
    <3>1. Queued
      BY <2>4 DEF Take, QueuesStay, PlaceInv
    <3>2. ~Handling(todo'[c], c)
      <4>1. todo'[c] = <<GrantItem(c), MapItem(c)>>
        BY <2>4 DEF Take
      <4>2. 1 \in 1 .. Len(todo'[c]) /\ todo'[c][1] = GrantItem(c)
        BY <4>1
      <4>3. GrantItem(c).op # "handle_msg"
        BY DEF GrantItem, Work
      <4> QED
        BY <4>2, <4>3 DEF Handling
    <3> QED
      BY <2>o, <3>1, <3>2
  <2>5. CASE Send(c)
    <3>1. Queued
      BY <2>5, NextBspIsBsp DEF Send, PlaceInv
    <3>2. GrantsInHand(c)' = {}
      BY <2>5 DEF Send
    <3> QED
      BY <2>o, <3>1, <3>2
  <2>6. CASE LoseGrant(c)
    <3>1. Queued
      BY <2>6 DEF LoseGrant, QueuesStay, PlaceInv
    <3>2. GrantsInHand(c)' = {}
      BY <2>6 DEF LoseGrant
    <3> QED
      BY <2>o, <3>1, <3>2
  <2> QED
    BY <1>3, <2>1, <2>2, <2>3, <2>4, <2>5, <2>6
<1>4. CASE Queued /\ InHand
  BY <1>1, <1>4 DEF PlaceInv
<1> QED
  BY <1>2, <1>3, <1>4, <1>1, GrantSteps DEF PlaceInv

\* A step that creates no grant and fills no slot.
LEMMA UniqueFrame ==
  ASSUME UniqueInv,
         \A v \in VmId : serial'[v] => serial[v],
         \A x \in Core : GrantsInQueue(x)' \subseteq GrantsInQueue(x),
         \A x \in Core : \E k \in {0, 1} : \A i \in GrantsInHand(x)' : i + k \in GrantsInHand(x)
  PROVE  UniqueInv'
<1>1. \A v, w \in VmId : serial'[v] /\ serial'[w] => v = w
  BY DEF UniqueInv
<1>2. \A c, d \in Core : \A i \in GrantsInQueue(c)', j \in GrantsInQueue(d)' : c = d /\ i = j
  BY DEF UniqueInv
<1>3. ASSUME NEW c \in Core, NEW d \in Core, NEW i \in GrantsInHand(c)', NEW j \in GrantsInHand(d)'
      PROVE  c = d /\ i = j
  <2>1. PICK k \in {0, 1} : \A z \in GrantsInHand(c)' : z + k \in GrantsInHand(c)
    OBVIOUS
  <2>2. PICK l \in {0, 1} : \A z \in GrantsInHand(d)' : z + l \in GrantsInHand(d)
    OBVIOUS
  <2>3. c = d
    BY <2>1, <2>2 DEF UniqueInv
  <2>4. i + k = j + k
    BY <2>1, <2>3 DEF UniqueInv
  <2>5. i \in Int /\ j \in Int
    BY DEF GrantsInHand
  <2> QED
    BY <2>3, <2>4, <2>5
<1>4. \A x \in Core : GrantsInQueue(x) = {} => GrantsInQueue(x)' = {}
  OBVIOUS
<1>5. \A x \in Core : GrantsInHand(x) = {} => GrantsInHand(x)' = {}
  OBVIOUS
<1>6. \A v \in VmId, c \in Core : serial'[v] => GrantsInQueue(c)' = {} /\ GrantsInHand(c)' = {}
  BY <1>4, <1>5 DEF UniqueInv
<1>7. \A c, d \in Core : GrantsInQueue(c)' = {} \/ GrantsInHand(d)' = {}
  BY <1>4, <1>5 DEF UniqueInv
<1> QED
  BY <1>1, <1>2, <1>3, <1>6, <1>7 DEF UniqueInv

\* Every step keeps the UART in one place at most.
LEMMA NextUnique ==
  TypeOK /\ ShapeInv /\ PlaceInv /\ UniqueInv /\ [Next]_vars => UniqueInv'
<1> SUFFICES ASSUME TypeOK, ShapeInv, PlaceInv, UniqueInv, [Next]_vars PROVE UniqueInv'
  OBVIOUS
<1>i. \A x \in Core : \A i \in GrantsInHand(x) \cup GrantsInHand(x)' : i \in Int /\ i + 0 = i
  BY DEF GrantsInHand
<1>s. serial \in [VmId -> BOOLEAN]
  BY DEF TypeOK
<1>1. CASE Still
  <2>1. \A x \in Core : GrantsInHand(x)' = GrantsInHand(x)
    BY <1>1 DEF Still, GrantsInHand
  <2> QED
    BY <1>1, <1>i, <2>1, UniqueFrame DEF Still, QueuesStay
<1>2. ASSUME NEW c \in Core, Stay(c) \/ LoseGrant(c) PROVE UniqueInv'
  <2>1. \A v \in VmId : serial'[v] => serial[v]
    BY <1>2 DEF Stay, LoseGrant
  <2>2. \A x \in Core : GrantsInQueue(x)' \subseteq GrantsInQueue(x)
    BY <1>2 DEF Stay, LoseGrant, QueuesStay
  <2>3. ASSUME NEW x \in Core, x # c
        PROVE  \E k \in {0, 1} : \A i \in GrantsInHand(x)' : i + k \in GrantsInHand(x)
    <3>1. GrantsInHand(x)' = GrantsInHand(x)
      BY <1>2, <2>3 DEF Stay, LoseGrant, OthersStay
    <3> QED
      BY <1>i, <3>1
  <2>4. \E k \in {0, 1} : \A i \in GrantsInHand(c)' : i + k \in GrantsInHand(c)
    <3>1. CASE GrantsInHand(c)' = {}
      BY <3>1
    <3>2. CASE GrantsInHand(c)' = {i - 1 : i \in GrantsInHand(c)}
      <4>1. ASSUME NEW j \in GrantsInHand(c)' PROVE j + 1 \in GrantsInHand(c)
        <5>1. PICK i \in GrantsInHand(c) : j = i - 1
          BY <3>2
        <5>2. i \in Int
          BY <1>i
        <5>3. j + 1 = i
          BY <5>1, <5>2
        <5> QED
          BY <5>3
      <4> QED
        BY <4>1
    <3> QED
      BY <1>2, <3>1, <3>2 DEF Stay, LoseGrant
  <2>5. \A x \in Core : \E k \in {0, 1} : \A i \in GrantsInHand(x)' : i + k \in GrantsInHand(x)
    BY <2>3, <2>4
  <2> QED
    BY <2>1, <2>2, <2>5, UniqueFrame
<1>3. ASSUME NEW c \in Core, Drain(c) PROVE UniqueInv'
  <2>1. CASE GrantsInQueue(c) = {}
    <3>1. \A x \in Core : GrantsInHand(x)' = GrantsInHand(x) /\ GrantsInQueue(x)' = GrantsInQueue(x)
      BY <1>3, <2>1 DEF Drain, OthersStay
    <3> QED
      BY <1>3, <1>i, <3>1, UniqueFrame DEF Drain
  <2>2. CASE GrantsInQueue(c) # {}
    <3>1. \A x \in Core : x # c => GrantsInQueue(x) = {}
      BY <2>2 DEF UniqueInv
    <3>2. \A x \in Core : GrantsInHand(x) = {}
      BY <2>2 DEF UniqueInv
    <3>3. \A v \in VmId : ~serial[v]
      BY <2>2 DEF UniqueInv
    <3>4. \A i, j \in GrantsInQueue(c) : i = j
      BY DEF UniqueInv
    <3>5. /\ \A x \in Core : GrantsInQueue(x)' = {}
          /\ \A x \in Core : x # c => GrantsInHand(x)' = {}
          /\ \A i, j \in GrantsInHand(c)' : i = j
          /\ \A v \in VmId : ~serial'[v]
      BY <1>3, <3>1, <3>2, <3>3, <3>4 DEF Drain, OthersStay
    <3> QED
      BY <3>5 DEF UniqueInv
  <2> QED
    BY <2>1, <2>2
<1>4. ASSUME NEW c \in Core, Install(c) PROVE UniqueInv'
  <2>0. 1 \in GrantsInHand(c)
    BY <1>4 DEF Install
  <2>1. /\ \A x \in Core : GrantsInQueue(x) = {}
        /\ \A x \in Core : x # c => GrantsInHand(x) = {}
        /\ \A i \in GrantsInHand(c) : i = 1
        /\ \A v \in VmId : ~serial[v]
    BY <2>0 DEF UniqueInv
  <2>2. /\ \A x \in Core : GrantsInQueue(x)' = {}
        /\ \A x \in Core : GrantsInHand(x)' = {}
        /\ \A v \in VmId : serial'[v] => v = VmOf(c)
    BY <1>4, <1>s, <2>1 DEF Install, QueuesStay, OthersStay
  <2> QED
    BY <2>2 DEF UniqueInv
<1>5. ASSUME NEW c \in Core, Take(c) PROVE UniqueInv'
  <2>0. serial[VmOf(c)] /\ VmOf(c) \in VmId
    BY <1>5, VmOfCore DEF Take
  <2>1. /\ \A x \in Core : GrantsInQueue(x) = {}
        /\ \A x \in Core : GrantsInHand(x) = {}
        /\ \A v \in VmId : serial[v] => v = VmOf(c)
    BY <2>0 DEF UniqueInv
  <2>2. /\ \A x \in Core : GrantsInQueue(x)' = {}
        /\ \A x \in Core : x # c => GrantsInHand(x)' = {}
        /\ GrantsInHand(c)' = {1}
        /\ \A v \in VmId : ~serial'[v]
    BY <1>5, <1>s, <2>0, <2>1 DEF Take, QueuesStay, OthersStay
  <2>3. \A v, w \in VmId : serial'[v] /\ serial'[w] => v = w
    BY <2>2
  <2>4. \A x, y \in Core : \A i \in GrantsInQueue(x)', j \in GrantsInQueue(y)' : x = y /\ i = j
    BY <2>2
  <2>5. \A x, y \in Core : \A i \in GrantsInHand(x)', j \in GrantsInHand(y)' : x = y /\ i = j
    BY <2>2
  <2>6. \A v \in VmId, x \in Core : serial'[v] => GrantsInQueue(x)' = {} /\ GrantsInHand(x)' = {}
    BY <2>2
  <2>7. \A x, y \in Core : GrantsInQueue(x)' = {} \/ GrantsInHand(y)' = {}
    BY <2>2
  <2> QED
    BY <2>3, <2>4, <2>5, <2>6, <2>7 DEF UniqueInv
<1>6. ASSUME NEW c \in Core, Send(c) PROVE UniqueInv'
  <2>0. 1 \in GrantsInHand(c)
    BY <1>6 DEF Send
  <2>1. /\ \A x \in Core : GrantsInQueue(x) = {}
        /\ \A x \in Core : x # c => GrantsInHand(x) = {}
        /\ \A v \in VmId : ~serial[v]
    BY <2>0 DEF UniqueInv
  <2>2. PICK i : GrantsInQueue(NextBsp(c))' = GrantsInQueue(NextBsp(c)) \cup {i}
    BY <1>6 DEF Send
  <2>3. /\ \A x \in Core : x # NextBsp(c) => GrantsInQueue(x)' = {}
        /\ GrantsInQueue(NextBsp(c))' = {i}
        /\ \A x \in Core : GrantsInHand(x)' = {}
        /\ \A v \in VmId : ~serial'[v]
    BY <1>6, <2>1, <2>2, NextBspIsBsp DEF Send, OthersStay
  <2>4. \A v, w \in VmId : serial'[v] /\ serial'[w] => v = w
    BY <2>3
  <2>5. \A x, y \in Core : \A k \in GrantsInQueue(x)', j \in GrantsInQueue(y)' : x = y /\ k = j
    BY <2>3
  <2>6. \A x, y \in Core : \A k \in GrantsInHand(x)', j \in GrantsInHand(y)' : x = y /\ k = j
    BY <2>3
  <2>7. \A v \in VmId, x \in Core : serial'[v] => GrantsInQueue(x)' = {} /\ GrantsInHand(x)' = {}
    BY <2>3
  <2>8. \A x, y \in Core : GrantsInQueue(x)' = {} \/ GrantsInHand(y)' = {}
    BY <2>3
  <2> QED
    BY <2>4, <2>5, <2>6, <2>7, <2>8 DEF UniqueInv
<1> QED
  BY <1>1, <1>2, <1>3, <1>4, <1>5, <1>6, GrantSteps

\* Every step keeps the UART somewhere, or panics.
LEMMA NextSomewhere ==
  TypeOK /\ ShapeInv /\ PlaceInv /\ SomewhereInv /\ [Next]_vars => SomewhereInv'
<1> SUFFICES ASSUME TypeOK, ShapeInv, PlaceInv, SomewhereInv, [Next]_vars PROVE SomewhereInv'
  OBVIOUS
<1>s. serial \in [VmId -> BOOLEAN]
  BY DEF TypeOK
<1>0. CASE \E x \in Core : pc[x] = "panic"
  BY <1>0, PcStep DEF SomewhereInv
<1>1. CASE Still
  <2>1. \A x \in Core : GrantsInHand(x)' = GrantsInHand(x) /\ GrantsInQueue(x)' = GrantsInQueue(x)
    BY <1>1 DEF Still, GrantsInHand, QueuesStay
  <2> QED
    BY <1>0, <1>1, <2>1 DEF Still, SomewhereInv
<1>2. ASSUME NEW c \in Core, Stay(c) PROVE SomewhereInv'
  <2>1. \A x \in Core : GrantsInHand(x) # {} => GrantsInHand(x)' # {}
    BY <1>2 DEF Stay, OthersStay
  <2>2. \A x \in Core : GrantsInQueue(x)' = GrantsInQueue(x)
    BY <1>2 DEF Stay, QueuesStay
  <2> QED
    BY <1>0, <1>2, <2>1, <2>2 DEF Stay, SomewhereInv
<1>3. ASSUME NEW c \in Core, Drain(c) PROVE SomewhereInv'
  <2>1. \A x \in Core : GrantsInHand(x) # {} => GrantsInHand(x)' # {}
    BY <1>3 DEF Drain, OthersStay
  <2>2. \A x \in Core : GrantsInQueue(x) # {} => GrantsInQueue(x)' # {} \/ GrantsInHand(c)' # {}
    BY <1>3 DEF Drain
  <2> QED
    BY <1>0, <1>3, <2>1, <2>2 DEF Drain, SomewhereInv
<1>4. ASSUME NEW c \in Core, Install(c) PROVE SomewhereInv'
  BY <1>4, <1>s, VmOfCore DEF Install, SomewhereInv
<1>5. ASSUME NEW c \in Core, Take(c) PROVE SomewhereInv'
  BY <1>5 DEF Take, SomewhereInv
<1>6. ASSUME NEW c \in Core, Send(c) PROVE SomewhereInv'
  BY <1>6, NextBspIsBsp DEF Send, SomewhereInv
<1>7. ASSUME NEW c \in Core, LoseGrant(c) PROVE SomewhereInv'
  BY <1>7 DEF LoseGrant, SomewhereInv
<1> QED
  BY <1>1, <1>2, <1>3, <1>4, <1>5, <1>6, <1>7, GrantSteps

\* Initially VM 0 has the UART.
LEMMA InitConsole == Init => ShapeInv /\ PlaceInv /\ UniqueInv /\ SomewhereInv
<1> SUFFICES ASSUME Init PROVE ShapeInv /\ PlaceInv /\ UniqueInv /\ SomewhereInv
  OBVIOUS
<1>1. \A c \in Core : todo[c] = <<>> /\ GrantsInHand(c) = {} /\ GrantsInQueue(c) = {}
  <2>1. \A c \in Core : todo[c] = <<>> /\ msgqueue[c] = <<>>
    BY DEF Init
  <2>2. 1 .. Len(<<>>) = {}
    OBVIOUS
  <2>3. \A c \in Core : GrantsInHand(c) = {}
    BY <2>1, <2>2 DEF GrantsInHand
  <2>4. \A c \in Core : GrantsInQueue(c) = {}
    BY <2>1, <2>2 DEF GrantsInQueue
  <2> QED
    BY <2>1, <2>3, <2>4
<1>2. ShapeInv
  <2>1. Plain(<<>>)
    BY DEF Plain
  <2> QED
    BY <1>1, <2>1 DEF ShapeInv, Shape
<1>3. PlaceInv
  BY <1>1 DEF Init, PlaceInv
<1>4. 0 \in VmId /\ \A v \in VmId : serial[v] <=> v = 0
  <2>1. 0 \in VmId
    BY MachinesAssumption DEF VmId
  <2>2. \A v \in VmId : serial[v] = (v = 0)
    BY Zenon DEF Init
  <2> QED
    BY <2>1, <2>2
<1>5. UniqueInv
  BY <1>1, <1>4 DEF UniqueInv
<1>6. SomewhereInv
  BY <1>4 DEF SomewhereInv
<1> QED
  BY <1>2, <1>3, <1>5, <1>6

ConsoleInv == ShapeInv /\ PlaceInv /\ UniqueInv /\ SomewhereInv

\* The inductive invariant of the hand-over.
LEMMA ConsoleInvariant == Spec => [](TypeOK /\ ConsoleInv)
<1>1. Init => TypeOK /\ ConsoleInv
  BY InitType, InitConsole DEF ConsoleInv
<1>2. TypeOK /\ ConsoleInv /\ [Next]_vars => (TypeOK /\ ConsoleInv)'
  BY NextType, NextShape, NextPlace, NextUnique, NextSomewhere DEF ConsoleInv
<1> QED
  BY <1>1, <1>2, PTL DEF Spec

\* The host UART is never duplicated by NextConsole, send_msg_core, recv_msg
\* and handle_ipc, for any number of VMs, cores and messages, and it is lost
\* only if some core has panicked.
THEOREM ConsoleNeverDuplicated == Spec => []ConsoleConserved
<1>1. ConsoleInv => ConsoleConserved
  <2> SUFFICES ASSUME ConsoleInv PROVE ConsoleConserved
    OBVIOUS
  <2> DEFINE InSlot == {<<"serial", v, 0>> : v \in {w \in VmId : serial[w]}}
             Queued == UNION {{<<"queue", c, i>> : i \in GrantsInQueue(c)} : c \in Core}
             InHand == UNION {{<<"hand", c, i>> : i \in GrantsInHand(c)} : c \in Core}
  <2>0. \A x : x \in ConsoleAt <=> x \in InSlot \/ x \in Queued \/ x \in InHand
    <3>1. ConsoleAt = (InSlot \cup Queued) \cup InHand
      BY DEF ConsoleAt
    <3> HIDE DEF InSlot, Queued, InHand
    <3> QED
      BY <3>1
  <2>1. ASSUME NEW x \in ConsoleAt
        PROVE  \/ \E v \in VmId : serial[v] /\ x = <<"serial", v, 0>>
               \/ \E c \in Core : \E i \in GrantsInQueue(c) : x = <<"queue", c, i>>
               \/ \E c \in Core : \E i \in GrantsInHand(c) : x = <<"hand", c, i>>
    <3>1. CASE x \in InSlot
      BY <3>1, Zenon
    <3>2. CASE x \in Queued
      <4>1. PICK c \in Core : x \in {<<"queue", c, i>> : i \in GrantsInQueue(c)}
        BY <3>2
      <4> QED
        BY <4>1
    <3>3. CASE x \in InHand
      <4>1. PICK c \in Core : x \in {<<"hand", c, i>> : i \in GrantsInHand(c)}
        BY <3>3
      <4> QED
        BY <4>1
    <3> HIDE DEF InSlot, Queued, InHand
    <3> QED
      BY <2>0, <3>1, <3>2, <3>3
  <2>2. ASSUME NEW x \in ConsoleAt, NEW y \in ConsoleAt PROVE x = y
    <3>1. CASE \E v \in VmId : serial[v] /\ x = <<"serial", v, 0>>
      BY <2>1, <3>1 DEF ConsoleInv, UniqueInv
    <3>2. CASE \E c \in Core : \E i \in GrantsInQueue(c) : x = <<"queue", c, i>>
      BY <2>1, <3>2 DEF ConsoleInv, UniqueInv
    <3>3. CASE \E c \in Core : \E i \in GrantsInHand(c) : x = <<"hand", c, i>>
      BY <2>1, <3>3 DEF ConsoleInv, UniqueInv
    <3> QED
      BY <2>1, <3>1, <3>2, <3>3
  <2>3. ConsoleAt = {} => \E c \in Core : pc[c] = "panic"
    <3>1. ASSUME NEW v \in VmId, serial[v] PROVE <<"serial", v, 0>> \in ConsoleAt
      BY <3>1, Zenon DEF ConsoleAt
    <3>2. ASSUME NEW c \in Core, NEW i \in GrantsInQueue(c) PROVE <<"queue", c, i>> \in ConsoleAt
      <4>1. <<"queue", c, i>> \in {<<"queue", c, j>> : j \in GrantsInQueue(c)}
        OBVIOUS
      <4>2. <<"queue", c, i>> \in Queued
        BY <4>1
      <4> HIDE DEF InSlot, Queued, InHand
      <4> QED
        BY <2>0, <4>2
    <3>3. ASSUME NEW c \in Core, NEW i \in GrantsInHand(c) PROVE <<"hand", c, i>> \in ConsoleAt
      <4>1. <<"hand", c, i>> \in {<<"hand", c, j>> : j \in GrantsInHand(c)}
        OBVIOUS
      <4>2. <<"hand", c, i>> \in InHand
        BY <4>1
      <4> HIDE DEF InSlot, Queued, InHand
      <4> QED
        BY <2>0, <4>2
    <3> QED
      BY <3>1, <3>2, <3>3 DEF ConsoleInv, SomewhereInv
  <2> QED
    BY <2>2, <2>3 DEF ConsoleConserved
<1> QED
  BY <1>1, ConsoleInvariant, PTL
=============================================================================
