----------------------------- MODULE VcpuProofs -----------------------------
(***************************************************************************)
(* Proofs about Vcpu, for any number of VMs, cores, messages and stimuli.  *)
(***************************************************************************)
EXTENDS Vcpu, FiniteSetTheorems, TLAPS

-----------------------------------------------------------------------------
(* The static look-ups.                                                    *)

\* Every core of the set belongs to the VM get_by_core_id finds for it.
LEMMA VmOfCore ==
  ASSUME NEW c \in Core
  PROVE  VmOf(c) \in VmId /\ c \in CoresOf(VmOf(c))
  BY DEF Core, VmOf

\* The VM of a core is the only one that lists it.
LEMMA VmOfUnique ==
  ASSUME NEW v \in VmId, NEW c \in CoresOf(v)
  PROVE  c \in Core /\ VmOf(c) = v
<1>1. c \in Core
  BY DEF Core
<1>2. VmOf(c) \in VmId /\ c \in CoresOf(VmOf(c))
  BY <1>1, VmOfCore
<1> QED
  BY <1>1, <1>2, MachinesAssumption

\* bsp_id is a core of its VM.
LEMMA BspCore ==
  ASSUME NEW v \in VmId
  PROVE  Bsp(v) \in CoresOf(v) /\ Bsp(v) \in Core /\ VmOf(Bsp(v)) = v
<1>1. Len(Cpus[v]) \in Nat /\ Len(Cpus[v]) > 0
  BY MachinesAssumption
<1>2. Bsp(v) \in CoresOf(v)
  BY <1>1 DEF Bsp, CoresOf
<1> QED
  BY <1>2, VmOfUnique

\* The round robin of NextConsole stays among the VMs.
LEMMA NextVmInVmId ==
  ASSUME NEW v \in VmId
  PROVE  NextVm(v) \in VmId
  BY MachinesAssumption DEF NextVm, VmId
-----------------------------------------------------------------------------
(* Type correctness.                                                       *)

\* The messages of the constructors are messages.
LEMMA MsgTypes ==
  /\ NoMsg \in Msg /\ GrantConsole \in Msg /\ CancelTimer \in Msg /\ StartVcpu \in Msg
  /\ \A v \in Nat : GuestInterrupt(v) \in Msg
  BY DEF NoMsg, GrantConsole, CancelTimer, StartVcpu, GuestInterrupt, Msg, MsgType

\* A work item for a core and a message is one.
LEMMA WorkType ==
  ASSUME NEW n \in OpName, NEW d \in Core, NEW m \in Msg
  PROVE  Work(n, d, m) \in Op
  BY DEF Work, Op, NoDest

\* The work of a start-up IPI is for a core, too.
LEMMA StartUpWorkType ==
  ASSUME NEW c \in Core, NEW dest \in Int
  PROVE  /\ StartUpWork(c, dest) \in Op
         /\ StartUpWork(c, dest).op = "send_msg" /\ StartUpWork(c, dest).msg = StartVcpu
<1>1. CASE dest \in Core
  BY <1>1, MsgTypes, WorkType DEF StartUpWork, OpName, Work
<1>2. CASE dest \notin Core
  BY <1>2, MsgTypes DEF StartUpWork, Op, OpName
<1> QED
  BY <1>1, <1>2

\* The work of a guest's IPI.
LEMMA IpiWorkType ==
  ASSUME NEW c \in Core, NEW v \in Nat, NEW mask \in Int
  PROVE  IpiWork(c, v, mask) \in Seq(Op)
<1>1. VmOf(c) \in VmId
  BY VmOfCore
<1>2. Cpus[VmOf(c)] \in Seq(Nat)
  BY <1>1, MachinesAssumption
<1>3. \A i \in 1 .. Len(Cpus[VmOf(c)]) : Cpus[VmOf(c)][i] \in Core
  BY <1>1, VmOfUnique DEF CoresOf
<1>4. GuestInterrupt(v) \in Msg
  BY MsgTypes
<1>5. \A i \in 1 .. Len(Cpus[VmOf(c)]) :
        [op |-> "guest_ipi", dst |-> Cpus[VmOf(c)][i],
         msg |-> GuestInterrupt(v), mask |-> mask] \in Op
  BY <1>3, <1>4 DEF Op, OpName
<1> QED
  BY <1>2, <1>5 DEF IpiWork

\* Initially every core is at the start of mp_entry_point.
LEMMA InitType == Init => TypeOK
<1> SUFFICES ASSUME Init PROVE TypeOK
  OBVIOUS
<1>1. 0 \in VmId
  BY MachinesAssumption DEF VmId
<1>2. 0 \in Core
  BY <1>1, BspCore, InitialRouteAssumption
<1> QED
  BY <1>1, <1>2, MachinesAssumption DEF Init, TypeOK, NoDest

(***************************************************************************)
(* The part of TypeOK about the control state of the cores, and what each  *)
(* way to go on with a handler does to it.                                 *)
(***************************************************************************)
Place == {"entry", "barrier", "waiting", "guest", "exit", "panic"}

CoresOK ==
  /\ pc \in [Core -> Place]
  /\ todo \in [Core -> Seq(Op)]
  /\ \A c \in Core : pc[c] # "exit" => todo[c] = <<>>

QueuesOK ==
  /\ msgqueue \in [Core -> Seq(Msg)]
  /\ \A c \in Core : Len(msgqueue[c]) <= MaxPendingMsg

DataOK ==
  /\ irr \in [Core -> SUBSET HostVector]
  /\ pending \in [Core -> SUBSET Nat]
  /\ window \in [Core -> BOOLEAN]
  /\ interruptible \in [Core -> BOOLEAN]
  /\ icr_destination \in [Core -> IcrDests \cup {NoDest}]
  /\ logical_destination \in [Core -> Nat]
  /\ cpus_ready \in [VmId -> Nat]
  /\ serial \in [VmId -> BOOLEAN]
  /\ ctrl_a_count \in [VmId -> 0 .. 2]
  /\ uart_dest \in Core
  /\ rbr \in Keys \cup {"none"}
  /\ stimuli \in Nat

\* TypeOK falls into these three parts.
LEMMA TypeParts ==
  /\ TypeOK <=> CoresOK /\ QueuesOK /\ DataOK
  /\ TypeOK' <=> CoresOK' /\ QueuesOK' /\ DataOK'
  BY DEF TypeOK, CoresOK, QueuesOK, DataOK, Place

\* An exit gives a core well-formed work.
LEMMA VmExitType ==
  ASSUME CoresOK, NEW c \in Core, NEW w, VmExit(c, w), w = <<>> \/ w \in Seq(Op)
  PROVE  CoresOK'
<1>1. <<>> \in Seq(Op)
  OBVIOUS
<1>2. w \in Seq(Op)
  BY <1>1
<1> QED
  BY <1>2 DEF CoresOK, VmExit, Place

\* Going on with well-formed work inside a handler.
LEMMA ContinueType ==
  ASSUME CoresOK, NEW c \in Core, pc[c] = "exit", NEW w \in Seq(Op), Continue(c, w)
  PROVE  CoresOK'
  BY DEF CoresOK, Continue

\* A panic leaves no work behind.
LEMMA PanicType ==
  ASSUME CoresOK, NEW c \in Core, Panic(c)
  PROVE  CoresOK'
  BY DEF CoresOK, Panic, Place

\* What a handler at some work item knows of its head and its rest.
LEMMA ItemType ==
  ASSUME CoresOK, NEW c \in Core, NEW n, At(c, n)
  PROVE  /\ pc[c] = "exit"
         /\ Item(c) \in Op /\ Item(c).dst \in Core /\ Item(c).msg \in Msg
         /\ Rest(c) \in Seq(Op)
<1>1. todo[c] \in Seq(Op) /\ todo[c] # <<>>
  BY DEF CoresOK, At
<1>2. Head(todo[c]) \in Op /\ Tail(todo[c]) \in Seq(Op)
  BY <1>1
<1> QED
  BY <1>2 DEF At, Item, Rest, Op

\* send_msg_core's push keeps queues within their capacity.
LEMMA PushMsgType ==
  ASSUME CoresOK, QueuesOK, NEW c \in Core, NEW n, At(c, n),
         NEW d \in Core, NEW m \in Msg, PushMsg(c, d, m)
  PROVE  CoresOK' /\ QueuesOK'
<1>1. pc[c] = "exit" /\ Rest(c) \in Seq(Op)
  BY ItemType
<1>2. CASE /\ Len(msgqueue[d]) < MaxPendingMsg
           /\ msgqueue' = [msgqueue EXCEPT ![d] = Append(@, m)]
           /\ Continue(c, IF Notify(m) THEN <<Work("send_ipi", d, NoMsg)>> \o Rest(c)
                                       ELSE Rest(c))
  <2>1. Work("send_ipi", d, NoMsg) \in Op
    BY MsgTypes, WorkType DEF OpName
  <2>2. <<Work("send_ipi", d, NoMsg)>> \o Rest(c) \in Seq(Op)
    BY <1>1, <2>1
  <2>3. CoresOK'
    BY <1>1, <1>2, <2>2, ContinueType
  <2>4. msgqueue[d] \in Seq(Msg)
    BY DEF QueuesOK
  <2>5. Append(msgqueue[d], m) \in Seq(Msg) /\ Len(Append(msgqueue[d], m)) = Len(msgqueue[d]) + 1
    BY <2>4
  <2>6. QueuesOK'
    BY <1>2, <2>4, <2>5, MachinesAssumption DEF QueuesOK
  <2> QED
    BY <2>3, <2>6
<1>3. CASE Panic(c) /\ UNCHANGED msgqueue
  BY <1>3, PanicType DEF QueuesOK
<1>4. CASE Continue(c, Rest(c)) /\ UNCHANGED msgqueue
  BY <1>1, <1>4, ContinueType DEF QueuesOK
<1> QED
  BY <1>2, <1>3, <1>4 DEF PushMsg

\* Every step keeps the types.
LEMMA NextType == TypeOK /\ [Next]_vars => TypeOK'
<1> SUFFICES ASSUME CoresOK, QueuesOK, DataOK, [Next]_vars
             PROVE  CoresOK' /\ QueuesOK' /\ DataOK'
  BY TypeParts
<1> USE StimuliAssumption
<1>1. ASSUME NEW k \in Keys, KeyPress(k)
      PROVE  CoresOK' /\ QueuesOK' /\ DataOK'
  BY <1>1 DEF KeyPress, Stimulus, CoresOK, QueuesOK, DataOK, HostVector,
              guestVars, lapicVars, bootVars
<1>2. ASSUME NEW c \in Core
      PROVE  /\ Startup(c) => CoresOK' /\ QueuesOK' /\ DataOK'
             /\ ApicTimer(c) => CoresOK' /\ QueuesOK' /\ DataOK'
             /\ GuestFlipsIF(c) => CoresOK' /\ QueuesOK' /\ DataOK'
  <2>1. VmOf(c) \in VmId
    BY VmOfCore
  <2>2. ASSUME NotifyReady(c) PROVE CoresOK' /\ QueuesOK' /\ DataOK'
    BY <2>1, <2>2 DEF NotifyReady, CoresOK, QueuesOK, DataOK, Place,
                      guestVars, lapicVars, uartVars
  <2>3. ASSUME AllCoresReady(c) PROVE CoresOK' /\ QueuesOK' /\ DataOK'
    BY <2>3 DEF AllCoresReady, CoresOK, QueuesOK, DataOK, Place,
                guestVars, lapicVars, bootVars, uartVars
  <2>4. ASSUME WaitForInit(c) PROVE CoresOK' /\ QueuesOK' /\ DataOK'
    <3>1. msgqueue[c] \in Seq(Msg) /\ msgqueue[c] # <<>>
      BY <2>4 DEF WaitForInit, QueuesOK
    <3>2. Tail(msgqueue[c]) \in Seq(Msg) /\ Len(Tail(msgqueue[c])) = Len(msgqueue[c]) - 1
      BY <3>1
    <3>3. QueuesOK'
      BY <2>4, <3>2, <3>1, MachinesAssumption DEF WaitForInit, QueuesOK
    <3> QED
      BY <2>4, <3>3 DEF WaitForInit, CoresOK, DataOK, Place, guestVars, lapicVars,
                        bootVars, uartVars
  <2>5. ASSUME ApicTimer(c) PROVE CoresOK' /\ QueuesOK' /\ DataOK'
    BY <2>5 DEF ApicTimer, Stimulus, CoresOK, QueuesOK, DataOK, HostVector,
                guestVars, lapicVars, bootVars, uartVars
  <2>6. ASSUME GuestFlipsIF(c) PROVE CoresOK' /\ QueuesOK' /\ DataOK'
    BY <2>6 DEF GuestFlipsIF, CoresOK, QueuesOK, DataOK, lapicVars, bootVars, uartVars
  <2> QED
    BY <2>2, <2>3, <2>4, <2>5, <2>6 DEF Startup
<1>3. ASSUME NEW c \in Core, ForcedExit(c)
      PROVE  CoresOK' /\ QueuesOK' /\ DataOK'
  <2>1. CASE ExternalInterrupt(c)
    <3>1. <<Work("keypress", c, NoMsg)>> \in Seq(Op)
      BY MsgTypes, WorkType DEF OpName
    <3>2. <<Work("recv_all_msgs", c, NoMsg)>> \in Seq(Op)
      BY MsgTypes, WorkType DEF OpName
    <3>3. CoresOK'
      BY <2>1, <3>1, <3>2, VmExitType DEF ExternalInterrupt
    <3> QED
      BY <2>1, <3>3 DEF ExternalInterrupt, QueuesOK, DataOK, guestVars,
                        lapicVars, bootVars, uartVars
  <2>2. CASE InterruptWindow(c)
    BY <2>2, VmExitType DEF InterruptWindow, QueuesOK, DataOK, guestVars,
                            lapicVars, bootVars, uartVars
  <2> QED
    BY <1>3, <2>1, <2>2 DEF ForcedExit
<1>4. ASSUME NEW c \in Core, GuestExit(c)
      PROVE  CoresOK' /\ QueuesOK' /\ DataOK'
  <2>1. CASE OtherExit(c)
    BY <2>1, VmExitType DEF OtherExit, QueuesOK, DataOK, guestVars, lapicVars,
                            bootVars, uartVars
  <2>2. ASSUME NEW d \in IcrDests, WriteIcrDestination(c, d)
        PROVE  CoresOK' /\ QueuesOK' /\ DataOK'
    BY <2>2, VmExitType DEF WriteIcrDestination, QueuesOK, DataOK, guestVars,
                            bootVars, uartVars
  <2>3. ASSUME NEW d \in LdrValues, WriteLogicalDestination(c, d)
        PROVE  CoresOK' /\ QueuesOK' /\ DataOK'
    BY <2>3, VmExitType DEF WriteLogicalDestination, QueuesOK, DataOK, guestVars,
                            bootVars, uartVars
  <2>4. ASSUME NEW w \in Seq(Op), WriteIcrCommand(c, w), Stimulus \/ UNCHANGED stimuli
        PROVE  CoresOK' /\ QueuesOK' /\ DataOK'
    BY <2>4, VmExitType DEF WriteIcrCommand, Stimulus, QueuesOK, DataOK, guestVars,
                            bootVars, uartVars
  <2>5. CASE StartUpIpi(c)
    <3>1. icr_destination[c] \in Int
      <4>1. icr_destination[c] \in IcrDests \cup {NoDest}
        BY DEF DataOK
      <4>2. icr_destination[c] \in Nat
        BY <2>5, <4>1, StimuliAssumption DEF StartUpIpi
      <4> QED
        BY <4>2
    <3>2. <<StartUpWork(c, icr_destination[c])>> \in Seq(Op)
      BY <3>1, StartUpWorkType
    <3> QED
      BY <2>4, <2>5, <3>2 DEF StartUpIpi
  <2>6. ASSUME NEW v \in IpiVectors, AllExcludingSelfIpi(c, v) \/ LogicalIpi(c, v)
        PROVE  CoresOK' /\ QueuesOK' /\ DataOK'
    <3>1. v \in Nat
      OBVIOUS
    <3>3. NoDest \in Int
      BY DEF NoDest
    <3>4. icr_destination[c] \in IcrDests \cup {NoDest}
      BY DEF DataOK
    <3>5. icr_destination[c] \in Int
      <4>1. CASE icr_destination[c] \in IcrDests
        <5>1. icr_destination[c] \in Nat
          BY <4>1
        <5> QED
          BY <5>1
      <4> QED
        BY <3>3, <3>4, <4>1
    <3>2. IpiWork(c, v, NoDest) \in Seq(Op) /\ IpiWork(c, v, icr_destination[c]) \in Seq(Op)
      BY <3>1, <3>3, <3>5, IpiWorkType
    <3> QED
      BY <2>4, <2>6, <3>2 DEF AllExcludingSelfIpi, LogicalIpi
  <2>7. CASE IgnoredIpi(c)
    <3>1. <<>> \in Seq(Op)
      OBVIOUS
    <3> QED
      BY <2>4, <2>7, <3>1 DEF IgnoredIpi
  <2>8. CASE UartTransmit(c)
    <3>1. <<Work("route_interrupt", c, NoMsg)>> \in Seq(Op)
      BY MsgTypes, WorkType DEF OpName
    <3>2. CoresOK'
      BY <2>8, <3>1, VmExitType DEF UartTransmit
    <3> QED
      BY <2>8, <3>2 DEF UartTransmit, Stimulus, QueuesOK, DataOK,
                        guestVars, lapicVars, bootVars, uartVars
  <2>9. ASSUME NEW d \in Core, CancelRemoteTimer(c, d)
        PROVE  CoresOK' /\ QueuesOK' /\ DataOK'
    <3>1. <<Work("send_msg", d, CancelTimer)>> \in Seq(Op)
      BY MsgTypes, WorkType DEF OpName
    <3>2. CoresOK'
      BY <2>9, <3>1, VmExitType DEF CancelRemoteTimer
    <3> QED
      BY <2>9, <3>2 DEF CancelRemoteTimer, Stimulus, QueuesOK, DataOK,
                        guestVars, lapicVars, bootVars, uartVars
  <2> QED
    BY <1>4, <2>1, <2>2, <2>3, <2>5, <2>6, <2>7, <2>8, <2>9 DEF GuestExit
<1>5. ASSUME NEW c \in Core, Handle(c)
      PROVE  CoresOK' /\ QueuesOK' /\ DataOK'
  <2> USE DEF guestVars, lapicVars, bootVars, uartVars
  <2>v. VmOf(c) \in VmId /\ Bsp(VmOf(c)) \in Core
    BY VmOfCore, BspCore
  <2>1. CASE RecvAllMsgs(c)
    <3> DEFINE w == [i \in 1 .. Len(msgqueue[c]) |-> Work("handle_msg", c, msgqueue[c][i])]
    <3>1. msgqueue[c] \in Seq(Msg)
      BY DEF QueuesOK
    <3>2. \A i \in 1 .. Len(msgqueue[c]) : Work("handle_msg", c, msgqueue[c][i]) \in Op
      BY <3>1, WorkType DEF OpName
    <3>3. w \in Seq(Op)
      BY <3>1, <3>2
    <3>4. Continue(c, w) /\ pc[c] = "exit"
      BY <2>1 DEF RecvAllMsgs, At
    <3> HIDE DEF w
    <3>5. CoresOK'
      BY <3>3, <3>4, ContinueType
    <3>6. <<>> \in Seq(Msg) /\ Len(<<>>) = 0
      OBVIOUS
    <3>7. QueuesOK'
      BY <2>1, <3>6, MachinesAssumption DEF RecvAllMsgs, QueuesOK
    <3> QED
      BY <2>1, <3>5, <3>7 DEF RecvAllMsgs, DataOK
  <2>2. CASE HandleMsg(c)
    <3>1. pc[c] = "exit" /\ Rest(c) \in Seq(Op) /\ Item(c).msg \in Msg
      BY <2>2, ItemType DEF HandleMsg
    <3>2. CoresOK'
      BY <2>2, <3>1, ContinueType DEF HandleMsg
    <3>3. Item(c).msg.vector \in Nat
      BY <3>1 DEF Msg
    <3> QED
      BY <2>2, <2>v, <3>2, <3>3 DEF HandleMsg, QueuesOK, DataOK
  <2>3. CASE HandleUartKeypress(c)
    <3>1. pc[c] = "exit" /\ Rest(c) \in Seq(Op)
      BY <2>3, ItemType DEF HandleUartKeypress
    <3>2. /\ Work("route_interrupt", c, NoMsg) \in Op
          /\ Work("next_console", c, NoMsg) \in Op
      BY MsgTypes, WorkType DEF OpName
    <3>3. /\ <<Work("route_interrupt", c, NoMsg)>> \in Seq(Op)
          /\ <<Work("route_interrupt", c, NoMsg), Work("next_console", c, NoMsg)>> \in Seq(Op)
      BY <3>2
    <3>4. CoresOK'
      BY <2>3, <3>1, <3>3, ContinueType DEF HandleUartKeypress
    <3>5. ctrl_a_count[VmOf(c)] \in 0 .. 2
      BY <2>v DEF DataOK
    <3>6. ctrl_a_count' \in [VmId -> 0 .. 2]
      BY <2>3, <2>v, <3>5 DEF HandleUartKeypress, CtrlAPresses, DataOK
    <3>7. rbr' \in Keys \cup {"none"}
      BY <2>3 DEF HandleUartKeypress, DataOK
    <3> QED
      BY <2>3, <3>4, <3>6, <3>7 DEF HandleUartKeypress, CtrlAPresses, QueuesOK, DataOK
  <2>4. CASE RouteInterrupt(c)
    <3>1. pc[c] = "exit" /\ Rest(c) \in Seq(Op)
      BY <2>4, ItemType DEF RouteInterrupt
    <3>2. gsi_vector(UART_GSI) \in Nat
      BY DEF gsi_vector, UART_GSI
    <3>3. GuestInterrupt(gsi_vector(UART_GSI)) \in Msg
      BY <3>2, MsgTypes
    <3>4. CoresOK' /\ QueuesOK'
      BY <2>4, <2>v, <3>1, <3>3, ContinueType, PushMsgType DEF RouteInterrupt, QueuesOK
    <3> QED
      BY <2>4, <3>2, <3>4 DEF RouteInterrupt, DataOK
  <2>5. CASE NextConsole(c)
    <3> DEFINE bsp == Bsp(NextVm(VmOf(c)))
    <3>1. pc[c] = "exit" /\ Rest(c) \in Seq(Op)
      BY <2>5, ItemType DEF NextConsole
    <3>2. bsp \in Core
      BY <2>v, NextVmInVmId, BspCore
    <3>3. Work("send_msg", bsp, GrantConsole) \in Op /\ Work("map_gsi", bsp, NoMsg) \in Op
      BY <3>2, MsgTypes, WorkType DEF OpName
    <3>4. <<Work("send_msg", bsp, GrantConsole), Work("map_gsi", bsp, NoMsg)>> \o Rest(c)
             \in Seq(Op)
      BY <3>1, <3>3
    <3>5. CoresOK'
      BY <2>5, <3>1, <3>4, ContinueType, PanicType DEF NextConsole
    <3> QED
      BY <2>5, <2>v, <3>5 DEF NextConsole, QueuesOK, DataOK
  <2>6. CASE SendMsg(c)
    <3>1. Item(c).dst \in Core /\ Item(c).msg \in Msg
      BY <2>6, ItemType DEF SendMsg
    <3>2. CoresOK' /\ QueuesOK'
      BY <2>6, <3>1, PushMsgType, PanicType DEF SendMsg, QueuesOK
    <3> QED
      BY <2>6, <3>2 DEF SendMsg, DataOK
  <2>7. CASE GuestIpi(c)
    <3>1. /\ pc[c] = "exit" /\ Rest(c) \in Seq(Op)
          /\ Item(c).dst \in Core /\ Item(c).msg \in Msg
      BY <2>7, ItemType DEF GuestIpi
    <3>2. CoresOK' /\ QueuesOK'
      BY <2>7, <3>1, PushMsgType, ContinueType DEF GuestIpi, QueuesOK
    <3> QED
      BY <2>7, <3>2 DEF GuestIpi, DataOK
  <2>8. CASE SendIpi(c)
    <3>1. pc[c] = "exit" /\ Rest(c) \in Seq(Op) /\ Item(c).dst \in Core
      BY <2>8, ItemType DEF SendIpi
    <3>2. CoresOK'
      BY <2>8, <3>1, ContinueType DEF SendIpi
    <3> QED
      BY <2>8, <3>1, <3>2 DEF SendIpi, QueuesOK, DataOK, HostVector
  <2>9. CASE MapGsiVector(c)
    <3>1. pc[c] = "exit" /\ Rest(c) \in Seq(Op) /\ Item(c).dst \in Core
      BY <2>9, ItemType DEF MapGsiVector
    <3>2. CoresOK'
      BY <2>9, <3>1, ContinueType DEF MapGsiVector
    <3> QED
      BY <2>9, <3>1, <3>2 DEF MapGsiVector, QueuesOK, DataOK
  <2> QED
    BY <1>5, <2>1, <2>2, <2>3, <2>4, <2>5, <2>6, <2>7, <2>8, <2>9 DEF Handle
<1>6. ASSUME NEW c \in Core, FinishVmExit(c)
      PROVE  CoresOK' /\ QueuesOK' /\ DataOK'
  <2>1. ASSUME NEW p \in SUBSET Nat, EnterGuest(c, p), UNCHANGED stimuli \/ Stimulus
        PROVE  CoresOK' /\ QueuesOK' /\ DataOK'
    <3> USE DEF EnterGuest, guestVars, lapicVars, bootVars, uartVars
    <3>1. CoresOK' /\ QueuesOK'
      BY <2>1 DEF CoresOK, QueuesOK, Place
    <3>2. stimuli' \in Nat
      BY <2>1 DEF DataOK, Stimulus
    <3>3. p \ {Lowest(p)} \in SUBSET Nat
      BY <2>1
    <3>4. pending' \in [Core -> SUBSET Nat]
      BY <2>1, <3>3 DEF DataOK
    <3>5. window' \in [Core -> BOOLEAN] /\ interruptible' \in [Core -> BOOLEAN]
      BY <2>1 DEF DataOK
    <3> QED
      BY <2>1, <3>1, <3>2, <3>4, <3>5 DEF DataOK
  <2>2. pending[c] \in SUBSET Nat
    BY DEF DataOK
  <2>3. \A fired \in (SUBSET TimerVectors) \ {{}} : pending[c] \cup fired \in SUBSET Nat
    BY <2>2
  <2> QED
    BY <1>6, <2>1, <2>2, <2>3 DEF FinishVmExit
<1>7. ASSUME UNCHANGED vars
      PROVE  CoresOK' /\ QueuesOK' /\ DataOK'
  BY <1>7 DEF vars, CoresOK, QueuesOK, DataOK, guestVars, lapicVars, bootVars, uartVars
<1> QED
  BY <1>1, <1>2, <1>3, <1>4, <1>5, <1>6, <1>7 DEF Next

\* In every reachable state of the hypervisor the state is well formed: no
\* queue exceeds MAX_PENDING_MSG, and no work is left over outside a handler.
THEOREM TypeCorrect == Spec => []TypeOK
  BY InitType, NextType, PTL DEF Spec

-----------------------------------------------------------------------------
(***************************************************************************)
(* No lost wake-up.  With TypeOK the invariant is inductive.  It can only  *)
(* be disturbed where a message is pushed, where the IPC vector leaves irr *)
(* and where a core at "send_ipi" or "recv_all_msgs" moves on; everything  *)
(* else is covered by one of two frame lemmas.                             *)
(***************************************************************************)

\* The step of one core c, not at either of the two critical work items,
\* that adds no message to be notified of and clears no IPC interrupt.
LEMMA WakeupFrame ==
  ASSUME NoLostWakeup, NEW c \in Core,
         ~At(c, "send_ipi"), ~At(c, "recv_all_msgs"),
         \A x \in Core \ {c} : pc'[x] = pc[x] /\ todo'[x] = todo[x],
         \A x \in Core : Notified(x)' => Notified(x),
         \A x \in Core : IPC \in irr[x] => IPC \in irr'[x]
  PROVE  NoLostWakeup'
<1> SUFFICES ASSUME NEW x \in Core, Notified(x)'
             PROVE  IPC \in irr'[x] \/ IpiComing(x)' \/ At(x, "recv_all_msgs")'
  BY DEF NoLostWakeup
<1>1. IPC \in irr[x] \/ IpiComing(x) \/ At(x, "recv_all_msgs")
  BY DEF NoLostWakeup
<1>2. CASE IpiComing(x)
  <2>1. PICK d \in Core : At(d, "send_ipi") /\ Item(d).dst = x
    BY <1>2 DEF IpiComing
  <2>2. d # c
    BY <2>1
  <2> QED
    BY <2>1, <2>2 DEF IpiComing, At, Item
<1>3. CASE At(x, "recv_all_msgs")
  BY <1>3 DEF At
<1> QED
  BY <1>1, <1>2, <1>3

\* A step that leaves all handlers and queues alone and clears no interrupt.
LEMMA WakeupIdle ==
  ASSUME NoLostWakeup, UNCHANGED <<pc, todo, msgqueue>>,
         \A x \in Core : IPC \in irr[x] => IPC \in irr'[x]
  PROVE  NoLostWakeup'
  BY DEF NoLostWakeup, Notified, IpiComing, At, Item

\* A core in the guest, or before its launch, is at no work item.
LEMMA NoItem ==
  ASSUME CoresOK, NEW c \in Core, pc[c] # "exit", NEW n
  PROVE  ~At(c, n)
  BY DEF At

\* send_msg_core's push: whoever gets a message to be notified of gets the
\* interrupt in the sender's next step.
LEMMA WakeupPush ==
  ASSUME CoresOK, QueuesOK, NoLostWakeup, NEW c \in Core, NEW n, At(c, n),
         n \notin {"send_ipi", "recv_all_msgs"},
         NEW d \in Core, NEW m \in Msg, PushMsg(c, d, m), UNCHANGED irr
  PROVE  NoLostWakeup'
<1>1. ~At(c, "send_ipi") /\ ~At(c, "recv_all_msgs")
  BY DEF At
<1>2. \A x \in Core \ {c} : pc'[x] = pc[x] /\ todo'[x] = todo[x]
  BY DEF PushMsg, Continue, Panic, CoresOK
<1>3. CASE (Panic(c) \/ Continue(c, Rest(c))) /\ UNCHANGED msgqueue
  <2>1. \A x \in Core : Notified(x)' => Notified(x)
    BY <1>3 DEF Notified
  <2> QED
    BY <1>1, <1>2, <2>1, WakeupFrame
<1>4. CASE /\ Len(msgqueue[d]) < MaxPendingMsg
           /\ msgqueue' = [msgqueue EXCEPT ![d] = Append(@, m)]
           /\ Continue(c, IF Notify(m) THEN <<Work("send_ipi", d, NoMsg)>> \o Rest(c)
                                       ELSE Rest(c))
  <2>1. \A x \in Core \ {d} : Notified(x)' => Notified(x)
    BY <1>4 DEF Notified, QueuesOK
  <2>2. msgqueue[d] \in Seq(Msg)
    BY DEF QueuesOK
  <2>3. msgqueue'[d] = Append(msgqueue[d], m)
    BY <1>4 DEF QueuesOK
  <2>4. CASE ~Notify(m)
    <3>1. Notified(d)' => Notified(d)
      <4> SUFFICES ASSUME NEW i \in 1 .. Len(msgqueue'[d]), Notify(msgqueue'[d][i])
                   PROVE  Notified(d)
        BY DEF Notified
      <4>1. i # Len(msgqueue[d]) + 1
        BY <2>2, <2>3, <2>4
      <4>2. i \in 1 .. Len(msgqueue[d]) /\ msgqueue'[d][i] = msgqueue[d][i]
        BY <2>2, <2>3, <4>1
      <4> QED
        BY <4>2 DEF Notified
    <3> QED
      BY <1>1, <1>2, <2>1, <3>1, WakeupFrame
  <2>5. CASE Notify(m)
    <3>1. todo'[c] = <<Work("send_ipi", d, NoMsg)>> \o Rest(c) /\ pc'[c] = pc[c]
      BY <1>4, <2>5 DEF Continue, CoresOK
    <3>2. Rest(c) \in Seq(Op) /\ pc[c] = "exit"
      BY ItemType
    <3>3. todo'[c] # <<>> /\ Head(todo'[c]) = Work("send_ipi", d, NoMsg)
      BY <3>1, <3>2
    <3>4. IpiComing(d)'
      BY <3>1, <3>2, <3>3 DEF IpiComing, At, Item, Work
    <3> SUFFICES ASSUME NEW x \in Core \ {d}, Notified(x)'
                 PROVE  IPC \in irr'[x] \/ IpiComing(x)' \/ At(x, "recv_all_msgs")'
      BY <3>4 DEF NoLostWakeup
    <3>5. IPC \in irr[x] \/ IpiComing(x) \/ At(x, "recv_all_msgs")
      BY <2>1 DEF NoLostWakeup
    <3>6. CASE IpiComing(x)
      <4>1. PICK e \in Core : At(e, "send_ipi") /\ Item(e).dst = x
        BY <3>6 DEF IpiComing
      <4>2. e # c
        BY <1>1, <4>1
      <4> QED
        BY <1>2, <4>1, <4>2 DEF IpiComing, At, Item
    <3>7. CASE At(x, "recv_all_msgs")
      BY <1>1, <1>2, <3>7 DEF At
    <3> QED
      BY <3>5, <3>6, <3>7
  <2> QED
    BY <2>4, <2>5
<1> QED
  BY <1>3, <1>4 DEF PushMsg

\* Every step keeps every pushed message covered by its interrupt.
LEMMA NextWakeup == TypeOK /\ NoLostWakeup /\ [Next]_vars => NoLostWakeup'
<1> SUFFICES ASSUME CoresOK, QueuesOK, DataOK, NoLostWakeup, [Next]_vars
             PROVE  NoLostWakeup'
  BY TypeParts
<1>s. ASSUME UNCHANGED msgqueue
      PROVE  \A x \in Core : Notified(x)' => Notified(x)
  BY <1>s DEF Notified
<1>1. ASSUME NEW k \in Keys, KeyPress(k)
      PROVE  NoLostWakeup'
  BY <1>1, WakeupIdle DEF KeyPress, DataOK
<1>2. ASSUME NEW c \in Core, ApicTimer(c) \/ GuestFlipsIF(c)
      PROVE  NoLostWakeup'
  BY <1>2, WakeupIdle DEF ApicTimer, GuestFlipsIF, DataOK
<1>3. ASSUME NEW c \in Core, Startup(c)
      PROVE  NoLostWakeup'
  <2>1. pc[c] # "exit"
    BY <1>3 DEF Startup, NotifyReady, AllCoresReady, WaitForInit
  <2>2. ~At(c, "send_ipi") /\ ~At(c, "recv_all_msgs")
    BY <2>1, NoItem
  <2>3. /\ \A x \in Core \ {c} : pc'[x] = pc[x] /\ todo'[x] = todo[x]
        /\ irr' = irr
    BY <1>3 DEF Startup, NotifyReady, AllCoresReady, WaitForInit, CoresOK
  <2>4. \A x \in Core : Notified(x)' => Notified(x)
    <3>1. CASE NotifyReady(c) \/ AllCoresReady(c)
      BY <1>s, <3>1 DEF NotifyReady, AllCoresReady
    <3>2. CASE WaitForInit(c)
      <4>1. msgqueue[c] \in Seq(Msg) /\ msgqueue[c] # <<>>
        BY <3>2 DEF WaitForInit, QueuesOK
      <4>2. msgqueue'[c] = Tail(msgqueue[c])
        BY <3>2 DEF WaitForInit, QueuesOK
      <4>3. ASSUME NEW i \in 1 .. Len(msgqueue'[c]), Notify(msgqueue'[c][i])
            PROVE  Notified(c)
        <5>1. i + 1 \in 1 .. Len(msgqueue[c]) /\ msgqueue'[c][i] = msgqueue[c][i + 1]
          BY <4>1, <4>2
        <5> QED
          BY <4>3, <5>1 DEF Notified
      <4>4. \A x \in Core \ {c} : msgqueue'[x] = msgqueue[x]
        BY <3>2 DEF WaitForInit, QueuesOK
      <4> QED
        BY <4>3, <4>4 DEF Notified
    <3> QED
      BY <1>3, <3>1, <3>2 DEF Startup
  <2> QED
    BY <2>2, <2>3, <2>4, WakeupFrame
<1>4. ASSUME NEW c \in Core, NEW w, pc[c] = "guest", VmExit(c, w), UNCHANGED <<msgqueue, irr>>
      PROVE  NoLostWakeup'
  <2>1. ~At(c, "send_ipi") /\ ~At(c, "recv_all_msgs")
    BY <1>4, NoItem
  <2>2. \A x \in Core \ {c} : pc'[x] = pc[x] /\ todo'[x] = todo[x]
    BY <1>4 DEF VmExit, CoresOK
  <2> QED
    BY <1>4, <1>s, <2>1, <2>2, WakeupFrame
<1>5. ASSUME NEW c \in Core, GuestExit(c)
      PROVE  NoLostWakeup'
  <2>1. /\ pc[c] = "guest"
        /\ UNCHANGED <<msgqueue, irr>>
        /\ \E w : VmExit(c, w)
    BY <1>5 DEF GuestExit, GuestRuns, OtherExit, WriteIcrDestination,
                WriteLogicalDestination, StartUpIpi, AllExcludingSelfIpi, LogicalIpi,
                IgnoredIpi, WriteIcrCommand, UartTransmit, CancelRemoteTimer
  <2> QED
    BY <1>4, <2>1
<1>6. ASSUME NEW c \in Core, ForcedExit(c)
      PROVE  NoLostWakeup'
  <2>1. CASE InterruptWindow(c)
    BY <1>4, <2>1 DEF InterruptWindow
  <2>2. CASE ExternalInterrupt(c)
    <3>1. ~At(c, "send_ipi") /\ ~At(c, "recv_all_msgs")
      BY <2>2, NoItem DEF ExternalInterrupt
    <3>2. \A x \in Core \ {c} : pc'[x] = pc[x] /\ todo'[x] = todo[x]
      BY <2>2 DEF ExternalInterrupt, VmExit, CoresOK
    <3>3. \A x \in Core \ {c} : irr'[x] = irr[x]
      BY <2>2 DEF ExternalInterrupt, DataOK
    <3>4. UNCHANGED msgqueue
      BY <2>2 DEF ExternalInterrupt
    <3>5. CASE Highest(irr[c]) = IPC
      <4>1. VmExit(c, <<Work("recv_all_msgs", c, NoMsg)>>)
        BY <2>2, <3>5 DEF ExternalInterrupt, UART, IPC, TIMER
      <4>2. pc'[c] = "exit" /\ todo'[c] = <<Work("recv_all_msgs", c, NoMsg)>>
        BY <4>1 DEF VmExit, CoresOK
      <4>3. At(c, "recv_all_msgs")'
        BY <4>2 DEF At, Work
      <4> SUFFICES ASSUME NEW x \in Core \ {c}, Notified(x)'
                   PROVE  IPC \in irr'[x] \/ IpiComing(x)' \/ At(x, "recv_all_msgs")'
        BY <4>3 DEF NoLostWakeup
      <4>4. IPC \in irr[x] \/ IpiComing(x) \/ At(x, "recv_all_msgs")
        BY <1>s, <3>4 DEF NoLostWakeup
      <4>5. CASE IpiComing(x)
        <5>1. PICK d \in Core : At(d, "send_ipi") /\ Item(d).dst = x
          BY <4>5 DEF IpiComing
        <5> QED
          BY <3>1, <3>2, <5>1 DEF IpiComing, At, Item
      <4>6. CASE At(x, "recv_all_msgs")
        BY <3>2, <4>6 DEF At
      <4> QED
        BY <3>3, <4>4, <4>5, <4>6
    <3>6. CASE Highest(irr[c]) # IPC
      <4>1. IPC \in irr[c] => IPC \in irr'[c]
        BY <2>2, <3>6 DEF ExternalInterrupt, DataOK
      <4> QED
        BY <1>s, <3>1, <3>2, <3>3, <3>4, <4>1, WakeupFrame
    <3> QED
      BY <3>5, <3>6
  <2> QED
    BY <1>6, <2>1, <2>2 DEF ForcedExit
<1>7. ASSUME NEW c \in Core, FinishVmExit(c)
      PROVE  NoLostWakeup'
  <2>1. /\ pc[c] = "exit" /\ todo[c] = <<>>
        /\ UNCHANGED <<todo, msgqueue, irr>>
        /\ pc' = [pc EXCEPT ![c] = "guest"]
    BY <1>7 DEF FinishVmExit, EnterGuest
  <2>2. ~At(c, "send_ipi") /\ ~At(c, "recv_all_msgs")
    BY <2>1 DEF At
  <2>3. \A x \in Core \ {c} : pc'[x] = pc[x] /\ todo'[x] = todo[x]
    BY <2>1 DEF CoresOK
  <2> QED
    BY <1>s, <2>1, <2>2, <2>3, WakeupFrame
<1>8. ASSUME NEW c \in Core, Handle(c)
      PROVE  NoLostWakeup'
  <2>1. ASSUME NEW n, At(c, n), n \notin {"send_ipi", "recv_all_msgs"},
               UNCHANGED <<msgqueue, irr>>, Panic(c) \/ \E w : Continue(c, w)
        PROVE  NoLostWakeup'
    <3>1. ~At(c, "send_ipi") /\ ~At(c, "recv_all_msgs")
      BY <2>1 DEF At
    <3>2. \A x \in Core \ {c} : pc'[x] = pc[x] /\ todo'[x] = todo[x]
      BY <2>1 DEF Panic, Continue, CoresOK
    <3> QED
      BY <1>s, <2>1, <3>1, <3>2, WakeupFrame
  <2>2. CASE RecvAllMsgs(c)
    <3>1. ~At(c, "send_ipi")
      BY <2>2 DEF RecvAllMsgs, At
    <3>2. \A x \in Core \ {c} : pc'[x] = pc[x] /\ todo'[x] = todo[x] /\ msgqueue'[x] = msgqueue[x]
      BY <2>2 DEF RecvAllMsgs, Continue, CoresOK, QueuesOK
    <3>3. msgqueue'[c] = <<>> /\ irr' = irr
      BY <2>2 DEF RecvAllMsgs, QueuesOK
    <3>4. ~Notified(c)'
      BY <3>3 DEF Notified
    <3> SUFFICES ASSUME NEW x \in Core \ {c}, Notified(x)'
                 PROVE  IPC \in irr'[x] \/ IpiComing(x)' \/ At(x, "recv_all_msgs")'
      BY <3>4 DEF NoLostWakeup
    <3>5. Notified(x)
      BY <3>2 DEF Notified
    <3>6. IPC \in irr[x] \/ IpiComing(x) \/ At(x, "recv_all_msgs")
      BY <3>5 DEF NoLostWakeup
    <3>7. CASE IpiComing(x)
      <4>1. PICK d \in Core : At(d, "send_ipi") /\ Item(d).dst = x
        BY <3>7 DEF IpiComing
      <4> QED
        BY <3>1, <3>2, <4>1 DEF IpiComing, At, Item
    <3>8. CASE At(x, "recv_all_msgs")
      BY <3>2, <3>8 DEF At
    <3> QED
      BY <3>3, <3>6, <3>7, <3>8
  <2>3. CASE SendIpi(c)
    <3>1. ~At(c, "recv_all_msgs")
      BY <2>3 DEF SendIpi, At
    <3>2. \A x \in Core \ {c} : pc'[x] = pc[x] /\ todo'[x] = todo[x]
      BY <2>3 DEF SendIpi, Continue, CoresOK
    <3>3. Item(c).dst \in Core
      BY <2>3, ItemType DEF SendIpi
    <3>4. /\ IPC \in irr'[Item(c).dst]
          /\ \A x \in Core : irr[x] \subseteq irr'[x]
      BY <2>3, <3>3 DEF SendIpi, DataOK
    <3> SUFFICES ASSUME NEW x \in Core, Notified(x)'
                 PROVE  IPC \in irr'[x] \/ IpiComing(x)' \/ At(x, "recv_all_msgs")'
      BY DEF NoLostWakeup
    <3>5. Notified(x)
      BY <1>s, <2>3 DEF SendIpi
    <3>6. IPC \in irr[x] \/ IpiComing(x) \/ At(x, "recv_all_msgs")
      BY <3>5 DEF NoLostWakeup
    <3>7. CASE IpiComing(x)
      <4>1. PICK d \in Core : At(d, "send_ipi") /\ Item(d).dst = x
        BY <3>7 DEF IpiComing
      <4>2. CASE d = c
        BY <3>4, <4>1, <4>2
      <4>3. CASE d # c
        BY <3>2, <4>1, <4>3 DEF IpiComing, At, Item
      <4> QED
        BY <4>2, <4>3
    <3>8. CASE At(x, "recv_all_msgs")
      BY <3>1, <3>2, <3>8 DEF At
    <3> QED
      BY <3>4, <3>6, <3>7, <3>8
  <2>4. CASE HandleMsg(c)
    BY <2>1, <2>4 DEF HandleMsg
  <2>5. CASE HandleUartKeypress(c)
    BY <2>1, <2>5 DEF HandleUartKeypress
  <2>6. CASE NextConsole(c)
    BY <2>1, <2>6 DEF NextConsole
  <2>7. CASE MapGsiVector(c)
    BY <2>1, <2>7 DEF MapGsiVector
  <2>8. CASE RouteInterrupt(c)
    <3>1. Bsp(VmOf(c)) \in Core
      BY VmOfCore, BspCore
    <3>2. GuestInterrupt(gsi_vector(UART_GSI)) \in Msg
      BY MsgTypes DEF gsi_vector, UART_GSI
    <3> QED
      BY <2>1, <2>8, <3>1, <3>2, WakeupPush DEF RouteInterrupt
  <2>9. CASE SendMsg(c)
    <3>1. Item(c).dst \in Core /\ Item(c).msg \in Msg
      BY <2>9, ItemType DEF SendMsg
    <3> QED
      BY <2>1, <2>9, <3>1, WakeupPush DEF SendMsg
  <2>10. CASE GuestIpi(c)
    <3>1. Item(c).dst \in Core /\ Item(c).msg \in Msg
      BY <2>10, ItemType DEF GuestIpi
    <3> QED
      BY <2>1, <2>10, <3>1, WakeupPush DEF GuestIpi
  <2> QED
    BY <1>8, <2>2, <2>3, <2>4, <2>5, <2>6, <2>7, <2>8, <2>9, <2>10 DEF Handle
<1>9. CASE UNCHANGED vars
  BY <1>9, WakeupIdle DEF vars
<1> QED
  BY <1>1, <1>2, <1>3, <1>5, <1>6, <1>7, <1>8, <1>9 DEF Next

\* No message sent with notify is ever left behind without its interrupt, for
\* any number of cores and VMs and any traffic: the push-then-interrupt order
\* of send_msg_core and the drain of handle_ipc close every window.
THEOREM WakeupNeverLost == Spec => []NoLostWakeup
<1>1. Init => NoLostWakeup
  <2>1. ASSUME Init, NEW c \in Core PROVE ~Notified(c)
    BY <2>1 DEF Init, Notified
  <2> QED
    BY <2>1 DEF NoLostWakeup
<1> QED
  BY <1>1, InitType, NextType, NextWakeup, PTL DEF Spec

-----------------------------------------------------------------------------
(***************************************************************************)
(* The interrupt window.  WindowIffPending speaks of running guests only.  *)
(* Inductively, a requested window always has an interrupt waiting for it, *)
(* during an exit too, and outside exits the converse holds.               *)
(***************************************************************************)
WindowInv ==
  \A c \in Core :
    /\ window[c] => pending[c] # {}
    /\ pc[c] \notin {"exit", "panic"} => (pending[c] # {} => window[c])

\* Every step keeps window and pending interrupts together.
LEMMA NextWindow == TypeOK /\ WindowInv /\ [Next]_vars => WindowInv'
<1> SUFFICES ASSUME CoresOK, DataOK, WindowInv, [Next]_vars PROVE WindowInv'
  BY TypeParts
<1>p. pc \in [Core -> Place]
  BY DEF CoresOK
<1>d. pending \in [Core -> SUBSET Nat] /\ window \in [Core -> BOOLEAN]
  BY DEF DataOK
<1>1. ASSUME UNCHANGED <<pending, window>>,
             \A x \in Core : \/ pc'[x] = pc[x] \/ pc'[x] \in {"exit", "panic"}
                             \/ pc[x] \notin {"exit", "panic"}
      PROVE  WindowInv'
  BY <1>1 DEF WindowInv
<1>2. ASSUME NEW k \in Keys, KeyPress(k) PROVE WindowInv'
  BY <1>1, <1>2 DEF KeyPress, guestVars
<1>3. ASSUME NEW c \in Core, Startup(c) \/ ApicTimer(c) PROVE WindowInv'
  BY <1>1, <1>3, <1>p DEF Startup, NotifyReady, AllCoresReady, WaitForInit, ApicTimer, guestVars
<1>4. ASSUME NEW c \in Core, GuestFlipsIF(c) PROVE WindowInv'
  BY <1>1, <1>4 DEF GuestFlipsIF
<1>5. ASSUME NEW c \in Core, ForcedExit(c) \/ GuestExit(c) PROVE WindowInv'
  <2>1. UNCHANGED <<pending, window>> /\ pc' = [pc EXCEPT ![c] = "exit"]
    BY <1>5 DEF ForcedExit, ExternalInterrupt, InterruptWindow, VmExit, guestVars,
                GuestExit, OtherExit, WriteIcrDestination, WriteLogicalDestination,
                StartUpIpi, AllExcludingSelfIpi, LogicalIpi, IgnoredIpi,
                WriteIcrCommand, UartTransmit, CancelRemoteTimer
  <2> QED
    BY <1>1, <1>p, <2>1
<1>6. ASSUME NEW c \in Core, Handle(c) PROVE WindowInv'
  <2>1. pc[c] = "exit"
    BY <1>6 DEF Handle, At, RecvAllMsgs, HandleMsg, HandleUartKeypress, RouteInterrupt,
                NextConsole, SendMsg, GuestIpi, SendIpi, MapGsiVector
  <2>2. pc' = pc \/ pc' = [pc EXCEPT ![c] = "panic"]
    BY <1>6 DEF Handle, Continue, Panic, PushMsg, RecvAllMsgs, HandleMsg, HandleUartKeypress,
                RouteInterrupt, NextConsole, SendMsg, GuestIpi, SendIpi, MapGsiVector
  <2>3. window' = window
    BY <1>6 DEF Handle, RecvAllMsgs, HandleMsg, HandleUartKeypress, RouteInterrupt,
                NextConsole, SendMsg, GuestIpi, SendIpi, MapGsiVector, guestVars
  <2>4. \A x \in Core : pending[x] \subseteq pending'[x] /\ (x # c => pending'[x] = pending[x])
    BY <1>6, <1>d DEF Handle, RecvAllMsgs, HandleMsg, HandleUartKeypress, RouteInterrupt,
                NextConsole, SendMsg, GuestIpi, SendIpi, MapGsiVector, guestVars
  <2> QED
    BY <1>p, <2>1, <2>2, <2>3, <2>4 DEF WindowInv
<1>7. ASSUME NEW c \in Core, FinishVmExit(c) PROVE WindowInv'
  <2>1. PICK p : EnterGuest(c, p) /\ pending[c] \subseteq p
    BY <1>7 DEF FinishVmExit
  <2>2. pc' = [pc EXCEPT ![c] = "guest"]
    BY <2>1 DEF EnterGuest
  <2>3. /\ window'[c] <=> pending'[c] # {}
        /\ \A x \in Core \ {c} : pending'[x] = pending[x] /\ window'[x] = window[x]
    <3>1. CASE p = {} /\ UNCHANGED guestVars
      BY <2>1, <3>1 DEF WindowInv, guestVars
    <3>2. CASE /\ p # {}
               /\ pending' = [pending EXCEPT ![c] = p]
               /\ window' = [window EXCEPT ![c] = TRUE]
      BY <1>d, <3>2
    <3>3. CASE /\ p # {}
               /\ pending' = [pending EXCEPT ![c] = p \ {Lowest(p)}]
               /\ window' = [window EXCEPT ![c] = p # {Lowest(p)}]
      BY <1>d, <3>3
    <3> QED
      BY <2>1, <3>1, <3>2, <3>3 DEF EnterGuest
  <2> QED
    BY <1>p, <2>2, <2>3 DEF WindowInv
<1>8. CASE UNCHANGED vars
  BY <1>1, <1>8 DEF vars, guestVars
<1> QED
  BY <1>2, <1>3, <1>4, <1>5, <1>6, <1>7, <1>8 DEF Next

\* A running guest has interrupt-window exiting on exactly if an interrupt is
\* waiting for it, although handle_vmexit leaves the control untouched when it
\* returns early.
THEOREM WindowFollowsPending == Spec => []WindowIffPending
<1>1. Init => WindowInv
  BY DEF Init, WindowInv
<1>2. WindowInv => WindowIffPending
  BY DEF WindowInv, WindowIffPending
<1> QED
  BY <1>1, <1>2, InitType, NextType, NextWindow, PTL DEF Spec

-----------------------------------------------------------------------------
(***************************************************************************)
(* The start barrier.  cpus_ready counts exactly the cores of the VM that  *)
(* have passed notify_ready; as no core is listed twice, the count reaches *)
(* the length of the list only when every core has.                        *)
(***************************************************************************)
Ready(v) == {c \in CoresOf(v) : pc[c] # "entry"}

BarrierInv ==
  /\ \A v \in VmId : cpus_ready[v] = Cardinality(Ready(v))
  /\ \A c \in Core : pc[c] \in {"waiting", "guest", "exit", "panic"} =>
       Ready(VmOf(c)) = CoresOf(VmOf(c))

\* A VM has as many cores as its list is long.
LEMMA CoresOfCount ==
  ASSUME NEW v \in VmId
  PROVE  IsFiniteSet(CoresOf(v)) /\ Cardinality(CoresOf(v)) = Len(Cpus[v])
<1> DEFINE n == Len(Cpus[v])
           f == [i \in 1 .. n |-> Cpus[v][i]]
<1>1. n \in Nat
  BY MachinesAssumption
<1>2. \A i, j \in 1 .. n : Cpus[v][i] = Cpus[v][j] => i = j
  BY MachinesAssumption
<1>3. f \in Bijection(1 .. n, CoresOf(v))
  BY <1>2 DEF Bijection, Injection, Surjection, CoresOf, IsInjective
<1>4. IsFiniteSet(1 .. n) /\ Cardinality(1 .. n) = n
  BY <1>1, FS_Interval
<1> HIDE DEF f
<1>5. ExistsBijection(1 .. n, CoresOf(v))
  BY <1>3 DEF ExistsBijection
<1> QED
  BY <1>4, <1>5, FS_Bijection

\* A step that brings no core past notify_ready and none past the barrier.
LEMMA BarrierFrame ==
  ASSUME BarrierInv, UNCHANGED cpus_ready,
         \A x \in Core : /\ pc'[x] # "entry" <=> pc[x] # "entry"
                         /\ pc'[x] \in {"waiting", "guest", "exit", "panic"}
                              => pc[x] \in {"waiting", "guest", "exit", "panic"}
  PROVE  BarrierInv'
<1>1. ASSUME NEW v \in VmId PROVE Ready(v)' = Ready(v)
  BY VmOfUnique DEF Ready
<1>2. \A c \in Core : Ready(VmOf(c))' = Ready(VmOf(c))
  BY <1>1, VmOfCore
<1> QED
  BY <1>1, <1>2 DEF BarrierInv

\* Every step keeps the count exact and the barrier closed.
LEMMA NextBarrier == TypeOK /\ BarrierInv /\ [Next]_vars => BarrierInv'
<1> SUFFICES ASSUME CoresOK, DataOK, BarrierInv, [Next]_vars PROVE BarrierInv'
  BY TypeParts
<1>p. pc \in [Core -> Place]
  BY DEF CoresOK
<1>1. ASSUME NEW k \in Keys, KeyPress(k) PROVE BarrierInv'
  BY <1>1, BarrierFrame DEF KeyPress, bootVars
<1>2. ASSUME NEW c \in Core, NotifyReady(c) PROVE BarrierInv'
  <2> DEFINE v == VmOf(c)
  <2>1. v \in VmId /\ c \in CoresOf(v) /\ c \notin Ready(v)
    BY <1>2, VmOfCore DEF NotifyReady, Ready
  <2>2. Ready(v)' = Ready(v) \cup {c}
    <3>1. ASSUME NEW x \in CoresOf(v) PROVE pc'[x] # "entry" <=> pc[x] # "entry" \/ x = c
      BY <1>2, <1>p, <2>1, VmOfUnique DEF NotifyReady
    <3> QED
      BY <2>1, <3>1 DEF Ready
  <2>3. IsFiniteSet(Ready(v)) /\ Cardinality(Ready(v)) \in Nat
    BY <2>1, CoresOfCount, FS_Subset, FS_CardinalityType DEF Ready
  <2>4. Cardinality(Ready(v)') = Cardinality(Ready(v)) + 1
    BY <2>1, <2>2, <2>3, FS_AddElement
  <2>5. ASSUME NEW w \in VmId, w # v PROVE Ready(w)' = Ready(w) /\ cpus_ready'[w] = cpus_ready[w]
    <3>1. ASSUME NEW x \in CoresOf(w) PROVE x # c /\ x \in Core
      BY <2>1, <2>5, VmOfUnique
    <3> QED
      BY <1>2, <1>p, <2>1, <2>5, <3>1 DEF NotifyReady, Ready, DataOK
  <2>6. cpus_ready'[v] = cpus_ready[v] + 1
    BY <1>2, <2>1 DEF NotifyReady, DataOK
  <2>7. \A w \in VmId : cpus_ready'[w] = Cardinality(Ready(w)')
    BY <2>1, <2>4, <2>5, <2>6 DEF BarrierInv
  <2>8. ASSUME NEW x \in Core, pc'[x] \in {"waiting", "guest", "exit", "panic"}
        PROVE  Ready(VmOf(x))' = CoresOf(VmOf(x))
    <3>1. x # c /\ pc[x] = pc'[x]
      BY <1>2, <1>p, <2>8 DEF NotifyReady
    <3>2. Ready(VmOf(x)) = CoresOf(VmOf(x)) /\ VmOf(x) \in VmId
      BY <2>8, <3>1, VmOfCore DEF BarrierInv
    <3>3. VmOf(x) # v
      BY <2>1, <3>2
    <3> QED
      BY <2>5, <3>2, <3>3
  <2> QED
    BY <2>7, <2>8 DEF BarrierInv
<1>3. ASSUME NEW c \in Core, AllCoresReady(c) PROVE BarrierInv'
  <2> DEFINE v == VmOf(c)
  <2>1. v \in VmId /\ cpus_ready[v] = Len(Cpus[v]) /\ UNCHANGED cpus_ready
    BY <1>3, VmOfCore DEF AllCoresReady, bootVars
  <2>2. Cardinality(Ready(v)) = Cardinality(CoresOf(v)) /\ IsFiniteSet(CoresOf(v))
    BY <2>1, CoresOfCount DEF BarrierInv
  <2>3. Ready(v) = CoresOf(v)
    BY <2>2, FS_Subset DEF Ready
  <2>4. \A x \in Core : pc'[x] # "entry" <=> pc[x] # "entry"
    BY <1>3, <1>p DEF AllCoresReady
  <2>5. \A w \in VmId : Ready(w)' = Ready(w)
    BY <2>4, VmOfUnique DEF Ready
  <2>6. ASSUME NEW x \in Core, pc'[x] \in {"waiting", "guest", "exit", "panic"}
        PROVE  Ready(VmOf(x)) = CoresOf(VmOf(x))
    BY <1>3, <1>p, <2>3, <2>6 DEF AllCoresReady, BarrierInv
  <2> QED
    BY <2>1, <2>5, <2>6, VmOfCore DEF BarrierInv
<1>4. ASSUME NEW c \in Core, WaitForInit(c) \/ ApicTimer(c) \/ GuestFlipsIF(c) PROVE BarrierInv'
  BY <1>4, <1>p, BarrierFrame DEF WaitForInit, ApicTimer, GuestFlipsIF, bootVars
<1>5. ASSUME NEW c \in Core, ForcedExit(c) \/ GuestExit(c) PROVE BarrierInv'
  <2>1. /\ UNCHANGED cpus_ready
        /\ pc[c] = "guest" /\ pc' = [pc EXCEPT ![c] = "exit"]
    BY <1>5 DEF ForcedExit, ExternalInterrupt, InterruptWindow, VmExit, bootVars, GuestRuns,
                GuestExit, OtherExit, WriteIcrDestination, WriteLogicalDestination,
                StartUpIpi, AllExcludingSelfIpi, LogicalIpi, IgnoredIpi,
                WriteIcrCommand, UartTransmit, CancelRemoteTimer
  <2> QED
    BY <1>p, <2>1, BarrierFrame
<1>6. ASSUME NEW c \in Core, Handle(c) \/ FinishVmExit(c) PROVE BarrierInv'
  <2>1. pc[c] = "exit" /\ UNCHANGED cpus_ready
    BY <1>6 DEF Handle, At, RecvAllMsgs, HandleMsg, HandleUartKeypress, RouteInterrupt, NextConsole,
                SendMsg, GuestIpi, SendIpi, MapGsiVector, FinishVmExit, EnterGuest, bootVars
  <2>2. \/ pc' = pc
        \/ pc' = [pc EXCEPT ![c] = "panic"]
        \/ pc' = [pc EXCEPT ![c] = "guest"]
    BY <1>6 DEF Handle, Continue, Panic, PushMsg, RecvAllMsgs, HandleMsg, HandleUartKeypress,
                RouteInterrupt, NextConsole, SendMsg, GuestIpi, SendIpi, MapGsiVector,
                FinishVmExit, EnterGuest
  <2> QED
    BY <1>p, <2>1, <2>2, BarrierFrame
<1>7. CASE UNCHANGED vars
  BY <1>7, BarrierFrame DEF vars, bootVars
<1> QED
  BY <1>1, <1>2, <1>3, <1>4, <1>5, <1>6, <1>7 DEF Next, Startup

\* The counter of notify_ready and all_cores_ready is a barrier: no core of a
\* VM gets past it while another one has not built its VCPU.
THEOREM BarrierIsSafe == Spec => []BarrierHolds
<1>1. Init => BarrierInv
  <2> SUFFICES ASSUME Init PROVE BarrierInv
    OBVIOUS
  <2>1. ASSUME NEW v \in VmId PROVE Ready(v) = {}
    BY VmOfUnique DEF Init, Ready
  <2> QED
    BY <2>1, FS_EmptySet DEF Init, BarrierInv
<1>2. BarrierInv => BarrierHolds
  BY DEF BarrierInv, BarrierHolds, Ready
<1> QED
  BY <1>1, <1>2, InitType, NextType, NextBarrier, PTL DEF Spec

=============================================================================
