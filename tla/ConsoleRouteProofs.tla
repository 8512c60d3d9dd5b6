------------------------- MODULE ConsoleRouteProofs -------------------------
(***************************************************************************)
(* Proof that the UART interrupt follows the console of Vcpu: for any      *)
(* number of VMs, cores, keys and stimuli, whenever no NextConsole is under *)
(* way, map_gsi_vector has sent the interrupt to the BSP of the VM that    *)
(* has, or is about to get, the UART.                                      *)
(***************************************************************************)
EXTENDS ConsoleProofs

-----------------------------------------------------------------------------
(* Where the interrupt is.                                                 *)

Outstanding(c) == UART \in irr[c] \/ InKeypress(c)
HandingOver(c) == Switching(todo[c], c) \/ Moving(todo[c], c)

\* There is never more than one UART interrupt that has not been handled, and
\* none when there is no byte: it is at a BSP.
KeyInv ==
  /\ uart_dest = Bsp(VmOf(uart_dest))
  /\ \A c \in Core : Outstanding(c) => c = Bsp(VmOf(c)) /\ rbr # "none"
  /\ \A c, d \in Core : Outstanding(c) /\ Outstanding(d) => c = d
  /\ \A c \in Core : ~(UART \in irr[c] /\ InKeypress(c))

\* While a core hands the console over, all UART interrupts come to it.
HandOverInv ==
  \A d \in Core : HandingOver(d) =>
    /\ uart_dest = d
    /\ \A c \in Core : Outstanding(c) => c = d

\* The redirection entry that will be written is the right one.
TargetInv ==
  \A v \in VmId, d \in Core : Destined(v) /\ Moving(todo[d], d) => Bsp(v) = NextBsp(d)

RouteInv == KeyInv /\ HandOverInv /\ TargetInv /\ RouteFollowsConsole

-----------------------------------------------------------------------------
(***************************************************************************)
(* What a handler's work says of the hand-over.                            *)
(***************************************************************************)

\* The phases of a hand-over exclude each other and any other work.
LEMMA PhasesExclude ==
  ASSUME NEW c \in Core, NEW s \in Seq(Op)
  PROVE  /\ Plain(s) \/ Handling(s, c) => /\ ~Switching(s, c) /\ ~Moving(s, c)
                                          /\ s # <<Work("keypress", c, NoMsg)>>
         /\ s = <<Work("keypress", c, NoMsg)>> \/ s = <<Work("recv_all_msgs", c, NoMsg)>> =>
              ~Switching(s, c) /\ ~Moving(s, c)
         /\ s = <<Work("recv_all_msgs", c, NoMsg)>> => s # <<Work("keypress", c, NoMsg)>>
         /\ Switching(s, c) => ~Moving(s, c) /\ s # <<Work("keypress", c, NoMsg)>>
         /\ Moving(s, c) => s # <<Work("keypress", c, NoMsg)>>
<1>0. Len(s) \in Nat
  OBVIOUS
<1>1. \A n, d, m : Work(n, d, m).op = n
  BY DEF Work
<1>2. /\ NextItem(c).op = "next_console" /\ MapItem(c).op = "map_gsi"
      /\ GrantItem(c).op = "send_msg" /\ IpiItem(c).op = "send_ipi"
  BY <1>1 DEF NextItem, MapItem, GrantItem, IpiItem
<1>3. Switching(s, c) => Len(s) \in 1 .. Len(s) /\ s[Len(s)].op = "next_console"
  BY <1>0, <1>2 DEF Switching
<1>4. Moving(s, c) => Len(s) \in 1 .. Len(s) /\ s[Len(s)].op = "map_gsi"
  <2>1. Moving(s, c) => Len(s) \in {1, 2} /\ s[Len(s)] = MapItem(c)
    BY DEF Moving
  <2> QED
    BY <1>0, <1>2, <2>1
<1>5. s = <<Work("keypress", c, NoMsg)>> => Len(s) = 1 /\ s[Len(s)].op = "keypress"
  BY <1>1
<1>6. s = <<Work("recv_all_msgs", c, NoMsg)>> => Len(s) = 1 /\ s[Len(s)].op = "recv_all_msgs"
  BY <1>1
<1>7. Plain(s) => ~Switching(s, c) /\ ~Moving(s, c) /\ s # <<Work("keypress", c, NoMsg)>>
  BY <1>0, <1>3, <1>4, <1>5 DEF Plain
<1>8. Handling(s, c) => ~Switching(s, c) /\ ~Moving(s, c) /\ s # <<Work("keypress", c, NoMsg)>>
  BY <1>0, <1>3, <1>4, <1>5 DEF Handling
<1> QED
  BY <1>3, <1>4, <1>5, <1>6, <1>7, <1>8

\* A core is to change the redirection entry exactly while it hands over.
RemappingIsMoving == \A x \in Core : Remapping(x) <=> Moving(todo[x], x)

LEMMA RemapShape == TypeOK /\ ShapeInv => RemappingIsMoving
<1> SUFFICES ASSUME TypeOK, ShapeInv, NEW x \in Core
             PROVE  Remapping(x) <=> Moving(todo[x], x)
  BY DEF RemappingIsMoving
<1>0. todo[x] \in Seq(Op) /\ Len(todo[x]) \in Nat /\ Shape(todo[x], x)
  BY DEF TypeOK, ShapeInv
<1>1. \A n, d, m : Work(n, d, m).op = n
  BY DEF Work
<1>2. NextItem(x).op = "next_console" /\ MapItem(x).op = "map_gsi"
  BY <1>1 DEF NextItem, MapItem
<1>3. ASSUME Moving(todo[x], x) PROVE Remapping(x)
  <2>1. Len(todo[x]) \in 1 .. Len(todo[x]) /\ todo[x][Len(todo[x])].op = "map_gsi"
    BY <1>0, <1>2, <1>3 DEF Moving
  <2> QED
    BY <2>1 DEF Remapping
<1>4. ASSUME Remapping(x), ~Moving(todo[x], x) PROVE FALSE
  <2>1. PICK i \in 1 .. Len(todo[x]) : todo[x][i].op = "map_gsi"
    BY <1>4 DEF Remapping
  <2>2. ~Plain(todo[x])
    BY <2>1 DEF Plain
  <2>3. ~Handling(todo[x], x)
    BY <2>1 DEF Handling
  <2>4. todo[x] # <<Work("keypress", x, NoMsg)>> /\ todo[x] # <<Work("recv_all_msgs", x, NoMsg)>>
    BY <1>1, <2>1
  <2>5. ~Switching(todo[x], x)
    BY <1>0, <1>2, <2>1 DEF Switching
  <2> QED
    BY <1>0, <1>4, <2>2, <2>3, <2>4, <2>5 DEF Shape
<1> QED
  BY <1>3, <1>4

\* A step of core c moves it between the phases in one of these ways.
Phase(c) ==
  \/ /\ ~InKeypress(c)' /\ (HandingOver(c)' => HandingOver(c))
     /\ Moving(todo'[c], c) <=> Moving(todo[c], c)
     /\ UNCHANGED <<uart_dest, rbr>>
     /\ \A x \in Core : UART \in irr'[x] <=> UART \in irr[x]
  \/ TakeUart(c)
  \/ HandleUartKeypress(c)
  \/ NextConsole(c) /\ todo'[c] # <<>>
  \/ SendGrant(c) /\ todo'[c] = <<>>
  \/ MapGsiVector(c)

LEMMA Phases ==
  ASSUME TypeOK, ShapeInv, TypeOK', NEW c \in Core, ConsoleStep(c)
  PROVE  Phase(c)
<1> USE DEF uartVars
<1>0. /\ todo[c] \in Seq(Op) /\ todo'[c] \in Seq(Op)
      /\ Plain(<<>>) /\ <<>> \in Seq(Op)
  BY DEF TypeOK, Plain
<1>1. CASE WaitForInit(c)
  <2>1. todo[c] = <<>> /\ UNCHANGED <<todo, irr, uart_dest, rbr>>
    BY <1>1, TypeParts DEF CoresOK, WaitForInit
  <2>2. ~InKeypress(c)' /\ ~HandingOver(c)'
    BY <1>0, <2>1, PhasesExclude DEF InKeypress, HandingOver
  <2> QED
    BY <2>1, <2>2 DEF Phase
<1>2. CASE \E w \in Seq(Op) : StartWork(c, w)
  <2>1. /\ todo[c] = <<>> /\ UartAlone
        /\ Plain(todo'[c]) \/ todo'[c] = <<Work("recv_all_msgs", c, NoMsg)>>
    BY <1>2 DEF StartWork, TypeOK
  <2>2. ~InKeypress(c)' /\ ~HandingOver(c)' /\ ~Moving(todo[c], c)
    BY <1>0, <2>1, PhasesExclude DEF InKeypress, HandingOver
  <2> QED
    BY <2>1, <2>2 DEF Phase, UartAlone, HandingOver
<1>3. CASE RecvAllMsgs(c)
  <2>1. /\ todo[c] = <<Work("recv_all_msgs", c, NoMsg)>>
        /\ todo'[c] = [i \in 1 .. Len(msgqueue[c]) |-> Work("handle_msg", c, msgqueue[c][i])]
        /\ UNCHANGED <<irr, uart_dest, rbr>>
    BY <1>3, ConsoleWork DEF RecvAllMsgs
  <2>2. \A m : LET w == Work("handle_msg", c, m) IN w.op = "handle_msg" /\ w.dst = c
    BY DEF Work
  <2>3. Handling(todo'[c], c)
    <3>1. Len(msgqueue[c]) \in Nat
      BY DEF TypeOK
    <3> QED
      BY <2>1, <2>2, <3>1 DEF Handling
  <2>4. ~InKeypress(c)' /\ ~HandingOver(c)' /\ ~Moving(todo[c], c)
    BY <1>0, <2>1, <2>3, PhasesExclude DEF InKeypress, HandingOver
  <2> QED
    BY <2>1, <2>4 DEF Phase, HandingOver
<1>4. CASE InstallGrant(c)
  <2>1. /\ Handling(todo[c], c) /\ todo[c] # <<>> /\ todo'[c] = Tail(todo[c])
        /\ UNCHANGED <<irr, uart_dest, rbr>>
    BY <1>4, ConsoleWork DEF InstallGrant, HandleMsg
  <2>2. Handling(todo'[c], c)
    BY <1>0, <2>1, ShorterShapes
  <2>3. ~InKeypress(c)' /\ ~HandingOver(c)' /\ ~Moving(todo[c], c)
    BY <1>0, <2>1, <2>2, PhasesExclude DEF InKeypress, HandingOver
  <2> QED
    BY <2>1, <2>3 DEF Phase, HandingOver
<1>5. CASE Proceed(c)
  <2>0. UartAlone
    BY <1>5 DEF Proceed
  <2>1. ASSUME Plain(todo[c]), Plain(todo'[c]) PROVE Phase(c)
    <3>1. ~InKeypress(c)' /\ ~HandingOver(c)' /\ ~Moving(todo[c], c)
      BY <1>0, <2>1, PhasesExclude DEF InKeypress, HandingOver
    <3> QED
      BY <2>0, <3>1 DEF Phase, UartAlone, HandingOver
  <2>2. ASSUME Handling(todo[c], c), todo'[c] = Rest(c) PROVE Phase(c)
    <3>1. Handling(todo'[c], c)
      BY <1>0, <1>5, <2>2, ShorterShapes DEF Proceed, Rest
    <3>2. ~InKeypress(c)' /\ ~HandingOver(c)' /\ ~Moving(todo[c], c)
      BY <1>0, <2>2, <3>1, PhasesExclude DEF InKeypress, HandingOver
    <3> QED
      BY <2>0, <3>2 DEF Phase, UartAlone, HandingOver
  <2>3. ASSUME Switching(todo[c], c), Switching(todo'[c], c) \/ todo'[c] = <<>> PROVE Phase(c)
    <3>1. ~InKeypress(c)' /\ ~Moving(todo'[c], c) /\ ~Moving(todo[c], c) /\ HandingOver(c)
      BY <1>0, <2>3, PhasesExclude DEF InKeypress, HandingOver
    <3> QED
      BY <2>0, <3>1 DEF Phase, UartAlone
  <2>4. ASSUME todo[c] = <<IpiItem(c), MapItem(c)>>, todo'[c] = <<MapItem(c)>> PROVE Phase(c)
    <3>1. Moving(todo[c], c) /\ Moving(todo'[c], c)
      BY <2>4 DEF Moving
    <3>2. ~InKeypress(c)' /\ HandingOver(c)
      BY <1>0, <3>1, PhasesExclude DEF InKeypress, HandingOver
    <3> QED
      BY <2>0, <3>1, <3>2 DEF Phase, UartAlone
  <2> QED
    BY <1>5, <2>1, <2>2, <2>3, <2>4, ProceedWork
<1>6. CASE NextConsole(c) /\ todo'[c] = <<>>
  <2>1. todo[c] = <<NextItem(c)>> /\ UNCHANGED <<irr, uart_dest, rbr>>
    BY <1>6, ConsoleWork DEF NextConsole
  <2>2. Switching(todo[c], c)
    BY <2>1 DEF Switching
  <2>3. ~InKeypress(c)' /\ ~Moving(todo'[c], c) /\ ~Moving(todo[c], c) /\ HandingOver(c)
    BY <1>0, <1>6, <2>2, PhasesExclude DEF InKeypress, HandingOver
  <2> QED
    BY <2>1, <2>3 DEF Phase
<1>7. CASE SendGrant(c) /\ todo'[c] # <<>>
  <2>1. /\ todo[c] = <<GrantItem(c), MapItem(c)>> /\ todo'[c] = <<IpiItem(c), MapItem(c)>>
        /\ UNCHANGED <<irr, uart_dest, rbr>>
    BY <1>7, ConsoleWork DEF SendGrant, SendMsg
  <2>2. Moving(todo[c], c) /\ Moving(todo'[c], c)
    BY <2>1 DEF Moving
  <2>3. ~InKeypress(c)' /\ HandingOver(c)
    BY <1>0, <2>2, PhasesExclude DEF InKeypress, HandingOver
  <2> QED
    BY <2>1, <2>2, <2>3 DEF Phase
<1> QED
  BY <1>1, <1>2, <1>3, <1>4, <1>5, <1>6, <1>7 DEF Phase, ConsoleStep

\* The console comes to be destined for another VM only by the send.
LEMMA DestinedStep ==
  ASSUME TypeOK, ShapeInv, PlaceInv, [Next]_vars, NEW v \in VmId, Destined(v)'
  PROVE  \/ Destined(v)
         \/ \E c \in Core : Send(c) /\ Bsp(v) = NextBsp(c)
<1>0. Bsp(v) \in Core /\ VmOf(Bsp(v)) = v
  BY BspCore
<1> DEFINE b == Bsp(v)
<1>1. /\ b \in Core
      /\ \/ serial'[v]
         \/ GrantsInQueue(b)' # {}
         \/ \E i \in GrantsInHand(b)' : todo'[b][i].op = "handle_msg"
  BY <1>0 DEF Destined
<1>2. \/ serial[v]
      \/ GrantsInQueue(b) # {}
      \/ \E i \in GrantsInHand(b) : todo[b][i].op = "handle_msg"
      => Destined(v)
  BY DEF Destined
<1>3. ASSUME Handling(todo[b], b), GrantsInHand(b) # {} PROVE Destined(v)
  BY <1>2, <1>3 DEF Handling, GrantsInHand
<1> HIDE DEF b
<1>4. CASE Still
  <2>1. GrantsInHand(b)' = GrantsInHand(b)
    BY <1>4 DEF Still, GrantsInHand
  <2> QED
    BY <1>1, <1>2, <1>4, <2>1 DEF Still, QueuesStay
<1>5. ASSUME NEW c \in Core, Stay(c) PROVE Destined(v)
  BY <1>1, <1>2, <1>3, <1>5 DEF Stay, QueuesStay, OthersStay
<1>6. ASSUME NEW c \in Core, Drain(c) PROVE Destined(v)
  BY <1>1, <1>2, <1>6 DEF Drain, OthersStay
<1>7. ASSUME NEW c \in Core, Install(c) PROVE Destined(v)
  <2>1. c = Bsp(VmOf(c))
    BY <1>7 DEF Install, PlaceInv
  <2>2. serial'[v] => serial[v] \/ c = b
    BY <1>0, <1>7, <2>1, VmOfCore DEF Install, TypeOK, b
  <2> QED
    BY <1>1, <1>2, <1>3, <1>7, <2>2 DEF Install, QueuesStay, OthersStay
<1>8. ASSUME NEW c \in Core, Take(c) PROVE Destined(v)
  <2>1. serial'[v] => serial[v]
    BY <1>8 DEF Take, TypeOK
  <2>2. todo'[c][1].op # "handle_msg"
    BY <1>8 DEF Take, GrantItem, Work
  <2> QED
    BY <1>1, <1>2, <1>8, <2>1, <2>2 DEF Take, QueuesStay, OthersStay
<1>9. ASSUME NEW c \in Core, Send(c) PROVE Destined(v) \/ b = NextBsp(c)
  BY <1>1, <1>2, <1>9 DEF Send, OthersStay
<1>10. ASSUME NEW c \in Core, LoseGrant(c) PROVE Destined(v)
  BY <1>1, <1>2, <1>10 DEF LoseGrant, QueuesStay, OthersStay
<1> QED
  BY <1>4, <1>5, <1>6, <1>7, <1>8, <1>9, <1>10, GrantSteps DEF b

-----------------------------------------------------------------------------
(***************************************************************************)
(* The four parts of the invariant, step by step.                          *)
(***************************************************************************)

\* A step that leaves the UART's interrupt and every hand-over alone, or ends
\* some of them.
Quiet ==
  /\ UNCHANGED <<uart_dest, rbr>>
  /\ \A x \in Core : /\ UART \in irr'[x] <=> UART \in irr[x]
                     /\ InKeypress(x)' => InKeypress(x)
                     /\ HandingOver(x)' => HandingOver(x)

LEMMA QuietStep == KeyInv /\ HandOverInv /\ Quiet => KeyInv' /\ HandOverInv'
<1> SUFFICES ASSUME KeyInv, HandOverInv, Quiet PROVE KeyInv' /\ HandOverInv'
  OBVIOUS
<1>1. \A x \in Core : Outstanding(x)' => Outstanding(x)
  BY DEF Quiet, Outstanding
<1>2. KeyInv'
  <2>1. uart_dest' = Bsp(VmOf(uart_dest'))
    BY DEF Quiet, KeyInv
  <2>2. \A c \in Core : Outstanding(c)' => c = Bsp(VmOf(c)) /\ rbr' # "none"
    BY <1>1 DEF Quiet, KeyInv
  <2>3. \A c, d \in Core : Outstanding(c)' /\ Outstanding(d)' => c = d
    BY <1>1 DEF KeyInv
  <2>4. \A c \in Core : ~(UART \in irr'[c] /\ InKeypress(c)')
    BY DEF Quiet, KeyInv
  <2> QED
    BY <2>1, <2>2, <2>3, <2>4 DEF KeyInv
<1>3. HandOverInv'
  BY <1>1 DEF Quiet, HandOverInv
<1> QED
  BY <1>2, <1>3

\* A byte arrives: its interrupt goes where the hand-over, if any, is.
LEMMA KeyPressStep ==
  ASSUME TypeOK, KeyInv, HandOverInv, NEW k \in Keys, KeyPress(k)
  PROVE  KeyInv' /\ HandOverInv'
<1>0. /\ irr \in [Core -> SUBSET HostVector] /\ uart_dest \in Core
      /\ k # "none" /\ rbr' = k /\ UNCHANGED <<todo, uart_dest>>
  BY StimuliAssumption DEF TypeOK, KeyPress
<1>1. \A x \in Core : (InKeypress(x)' <=> InKeypress(x)) /\ (HandingOver(x)' <=> HandingOver(x))
  BY <1>0 DEF InKeypress, HandingOver
<1>2. CASE rbr = "none"
  <2>1. \A x \in Core : ~Outstanding(x)
    BY <1>2 DEF KeyInv
  <2>2. \A x \in Core : UART \in irr'[x] => x = uart_dest
    BY <1>0, <1>2, <2>1 DEF KeyPress, Outstanding
  <2>3. \A x \in Core : ~InKeypress(x)' /\ (Outstanding(x)' => x = uart_dest)
    BY <1>1, <2>1, <2>2 DEF Outstanding
  <2> QED
    BY <1>0, <1>1, <2>3 DEF KeyInv, HandOverInv
<1>3. CASE rbr # "none"
  <2>1. irr' = irr
    BY <1>3 DEF KeyPress
  <2>2. \A x \in Core : Outstanding(x)' <=> Outstanding(x)
    BY <1>1, <2>1 DEF Outstanding
  <2>3. \A x \in Core : ~(UART \in irr'[x] /\ InKeypress(x)')
    BY <1>1, <2>1 DEF KeyInv
  <2>4. KeyInv'
    BY <1>0, <2>2, <2>3 DEF KeyInv
  <2> QED
    BY <1>0, <1>1, <2>2, <2>4 DEF HandOverInv
<1> QED
  BY <1>2, <1>3

\* The interrupt is taken: it moves from the local APIC to the handler.
LEMMA TakeUartStep ==
  ASSUME TypeOK, TypeOK', KeyInv, HandOverInv, NEW c \in Core, TakeUart(c), ConsoleStep(c)
  PROVE  KeyInv' /\ HandOverInv'
<1>0. /\ irr \in [Core -> SUBSET HostVector] /\ UNCHANGED <<uart_dest, rbr>>
      /\ todo'[c] = <<Work("keypress", c, NoMsg)>> /\ todo'[c] \in Seq(Op)
  BY DEF TypeOK, TakeUart
<1>1. \A x \in Core : x # c => todo'[x] = todo[x] /\ irr'[x] = irr[x]
  BY <1>0, OthersWork DEF TakeUart
<1>2. UART \notin irr'[c] /\ UART \in irr[c] /\ ~HandingOver(c)'
  BY <1>0, PhasesExclude DEF TakeUart, HandingOver
<1>3. \A x \in Core : /\ Outstanding(x)' => Outstanding(x)
                      /\ HandingOver(x)' => HandingOver(x)
                      /\ ~(UART \in irr'[x] /\ InKeypress(x)')
  BY <1>1, <1>2 DEF Outstanding, InKeypress, HandingOver, KeyInv
<1>4. KeyInv'
  BY <1>0, <1>3 DEF KeyInv
<1> QED
  BY <1>0, <1>3, <1>4 DEF HandOverInv

\* The byte is read.  A third ctrl-a starts a hand-over only on the core the
\* interrupt is routed to, and no other is under way.
LEMMA KeypressStep ==
  ASSUME TypeOK, TypeOK', ShapeInv, RouteInv, NEW c \in Core, HandleUartKeypress(c), ConsoleStep(c)
  PROVE  KeyInv' /\ HandOverInv'
<1>0. /\ UNCHANGED <<uart_dest, irr>> /\ todo[c] \in Seq(Op) /\ todo'[c] \in Seq(Op)
      /\ InKeypress(c)
  <2>1. UNCHANGED <<uart_dest, irr>>
    BY DEF HandleUartKeypress
  <2>2. InKeypress(c)
    BY ConsoleWork
  <2>3. todo[c] \in Seq(Op) /\ todo'[c] \in Seq(Op)
    BY DEF TypeOK
  <2> QED
    BY <2>1, <2>2, <2>3
<1>1. \A x \in Core : x # c => todo'[x] = todo[x]
  BY OthersWork
<1>2. /\ c = Bsp(VmOf(c)) /\ UART \notin irr[c]
      /\ \A x \in Core : Outstanding(x) => x = c
  BY <1>0 DEF RouteInv, KeyInv, Outstanding
<1>3. \A x \in Core : ~HandingOver(x)
  <2>1. ~HandingOver(c)
    BY <1>0, PhasesExclude DEF InKeypress, HandingOver
  <2> QED
    BY <1>0, <2>1 DEF RouteInv, HandOverInv, Outstanding
<1>4. ~InKeypress(c)'
  <2>1. /\ Plain(<<>>) /\ Plain(<<Work("route_interrupt", c, NoMsg)>>)
        /\ Switching(<<Work("route_interrupt", c, NoMsg), NextItem(c)>>, c)
    BY DEF Plain, Switching, Work, NoMsg
  <2> QED
    BY <1>0, <2>1, ConsoleWork, PhasesExclude DEF InKeypress
<1>5. \A x \in Core : ~Outstanding(x)'
  BY <1>0, <1>1, <1>2, <1>4 DEF Outstanding, InKeypress
<1>6. KeyInv'
  BY <1>0, <1>5 DEF RouteInv, KeyInv, Outstanding
<1>7. ASSUME HandingOver(c)' PROVE uart_dest = c
  <2>1. serial[VmOf(c)]
    <3>1. todo'[c] # <<>>
      <4>1. Plain(<<>>) /\ <<>> \in Seq(Op)
        BY SMTT(30) DEF Plain
      <4> QED
        BY <1>7, <4>1, PhasesExclude DEF HandingOver
    <3> QED
      BY <3>1, ConsoleWork
  <2>2. \A x \in Core : ~Remapping(x)
    BY <1>3, RemapShape DEF RemappingIsMoving, HandingOver
  <2> QED
    BY <1>2, <2>1, <2>2, VmOfCore DEF RouteInv, RouteFollowsConsole, Destined
<1>8. HandOverInv'
  <2>1. \A x \in Core : HandingOver(x)' => x = c
    BY <1>1, <1>3 DEF HandingOver
  <2> QED
    BY <1>0, <1>5, <1>7, <2>1 DEF HandOverInv
<1> QED
  BY <1>6, <1>8

\* NextConsole, map_gsi_vector and the panic of a send: at most one core is
\* handing over, so the entry is the last to be written.
LEMMA HandOverStep ==
  ASSUME TypeOK, TypeOK', ShapeInv, KeyInv, HandOverInv, NEW c \in Core, ConsoleStep(c),
         \/ NextConsole(c) /\ todo'[c] # <<>>
         \/ SendGrant(c) /\ todo'[c] = <<>>
         \/ MapGsiVector(c)
  PROVE  KeyInv' /\ HandOverInv'
<1>0. /\ todo[c] \in Seq(Op) /\ todo'[c] \in Seq(Op) /\ <<>> \in Seq(Op) /\ Plain(<<>>)
  BY SMTT(30) DEF TypeOK, Plain
<1>1. \A x \in Core : x # c => todo'[x] = todo[x]
  BY OthersWork
<1>2. /\ Switching(<<NextItem(c)>>, c) /\ Moving(<<MapItem(c)>>, c)
      /\ Moving(<<GrantItem(c), MapItem(c)>>, c)
  BY SMTT(30) DEF Switching, Moving
<1>3. HandingOver(c) /\ ~InKeypress(c)'
  BY <1>0, <1>2, ConsoleWork, PhasesExclude DEF HandingOver, InKeypress
<1>4. CASE ~MapGsiVector(c)
  <2>1. UNCHANGED <<irr, uart_dest, rbr>>
    BY <1>4 DEF NextConsole, SendGrant, SendMsg, uartVars
  <2>2. Quiet
    BY <1>1, <1>3, <2>1 DEF Quiet, InKeypress, HandingOver
  <2> QED
    BY <2>2, QuietStep
<1>5. CASE MapGsiVector(c)
  <2>1. UNCHANGED <<irr, rbr>> /\ uart_dest' = NextBsp(c) /\ todo'[c] = <<>>
    BY <1>5, ConsoleWork DEF MapGsiVector
  <2>2. \A x \in Core : ~HandingOver(x)'
    <3>1. ~HandingOver(c)'
      BY <1>0, <2>1, PhasesExclude DEF HandingOver
    <3>2. \A x \in Core : HandingOver(x) => x = c
      BY <1>3 DEF HandOverInv
    <3> QED
      BY <1>1, <3>1, <3>2 DEF HandingOver
  <2>3. \A x \in Core : (InKeypress(x)' => InKeypress(x)) /\ (Outstanding(x)' => Outstanding(x))
    BY <1>1, <1>3, <2>1 DEF InKeypress, Outstanding
  <2>4. KeyInv'
    <3>1. uart_dest' = Bsp(VmOf(uart_dest'))
      BY <2>1, NextBspIsBsp
    <3>2. \A x \in Core : Outstanding(x)' => x = Bsp(VmOf(x)) /\ rbr' # "none"
      BY <2>1, <2>3 DEF KeyInv
    <3>3. \A x, y \in Core : Outstanding(x)' /\ Outstanding(y)' => x = y
      BY <2>3 DEF KeyInv
    <3>4. \A x \in Core : ~(UART \in irr'[x] /\ InKeypress(x)')
      BY <2>1, <2>3 DEF KeyInv
    <3> QED
      BY <3>1, <3>2, <3>3, <3>4 DEF KeyInv
  <2> QED
    BY <2>2, <2>4 DEF HandOverInv
<1> QED
  BY <1>4, <1>5

\* The first two parts.
LEMMA NextKeys ==
  TypeOK /\ TypeOK' /\ ShapeInv /\ RouteInv /\ [Next]_vars => KeyInv' /\ HandOverInv'
<1> SUFFICES ASSUME TypeOK, TypeOK', ShapeInv, RouteInv, [Next]_vars
             PROVE  KeyInv' /\ HandOverInv'
  OBVIOUS
<1>0. KeyInv /\ HandOverInv
  BY DEF RouteInv
<1>1. CASE IdleStep
  <2>1. Quiet
    BY <1>1 DEF IdleStep, UartAlone, Quiet, InKeypress, HandingOver
  <2> QED
    BY <1>0, <2>1, QuietStep
<1>2. ASSUME NEW k \in Keys, KeyPress(k) PROVE KeyInv' /\ HandOverInv'
  BY <1>0, <1>2, KeyPressStep
<1>3. ASSUME NEW c \in Core, ConsoleStep(c) PROVE KeyInv' /\ HandOverInv'
  <2>1. CASE TakeUart(c)
    BY <1>0, <1>3, <2>1, TakeUartStep
  <2>2. CASE HandleUartKeypress(c)
    BY <1>3, <2>2, KeypressStep
  <2>3. CASE \/ NextConsole(c) /\ todo'[c] # <<>>
             \/ SendGrant(c) /\ todo'[c] = <<>>
             \/ MapGsiVector(c)
    BY <1>0, <1>3, <2>3, HandOverStep
  <2>4. CASE /\ ~InKeypress(c)' /\ (HandingOver(c)' => HandingOver(c))
             /\ UNCHANGED <<uart_dest, rbr>>
             /\ \A x \in Core : UART \in irr'[x] <=> UART \in irr[x]
    <3>1. \A x \in Core : x # c => todo'[x] = todo[x]
      BY <1>3, OthersWork
    <3>2. Quiet
      BY <2>4, <3>1 DEF Quiet, InKeypress, HandingOver
    <3> QED
      BY <1>0, <3>2, QuietStep
  <2>5. Phase(c)
    BY <1>3, Phases
  <2> QED
    BY <2>1, <2>2, <2>3, <2>4, <2>5 DEF Phase
<1> QED
  BY <1>1, <1>2, <1>3, Classify

\* Between NextConsole taking the UART and its message being queued, the
\* console is destined for nobody.
TakenForNobody ==
  \A c \in Core : todo[c] = <<GrantItem(c), MapItem(c)>> => \A v \in VmId : ~Destined(v)

LEMMA TakenMeansNobody == UniqueInv => TakenForNobody
<1> SUFFICES ASSUME UniqueInv, NEW c \in Core, todo[c] = <<GrantItem(c), MapItem(c)>>,
                    NEW v \in VmId
             PROVE  ~Destined(v)
  BY DEF TakenForNobody
<1>1. 1 \in GrantsInHand(c) /\ todo[c][1].op = "send_msg"
  BY DEF GrantsInHand, GrantItem, Work, GrantConsole
<1>2. ~serial[v] /\ GrantsInQueue(Bsp(v)) = {}
  BY <1>1, BspCore DEF UniqueInv
<1>3. \A i \in GrantsInHand(Bsp(v)) : Bsp(v) = c /\ i = 1
  BY <1>1, BspCore DEF UniqueInv
<1> QED
  BY <1>1, <1>2, <1>3 DEF Destined

\* The steps that begin and end the writing of the redirection entry.
Remaps(c) ==
  \/ NextConsole(c) /\ todo'[c] # <<>>
  \/ SendGrant(c) /\ todo'[c] = <<>>
  \/ MapGsiVector(c)

LEMMA MovingStep ==
  ASSUME TypeOK, TypeOK', ShapeInv, [Next]_vars
  PROVE  \/ /\ \A d \in Core : Moving(todo'[d], d) <=> Moving(todo[d], d)
            /\ UNCHANGED uart_dest
         \/ \E c \in Core : ConsoleStep(c) /\ Remaps(c)
<1>1. CASE IdleStep \/ \E k \in Keys : KeyPress(k)
  BY <1>1 DEF IdleStep, KeyPress, UartAlone
<1>2. ASSUME NEW c \in Core, ConsoleStep(c), ~Remaps(c)
      PROVE  /\ \A d \in Core : Moving(todo'[d], d) <=> Moving(todo[d], d)
             /\ UNCHANGED uart_dest
  <2>0. /\ todo[c] \in Seq(Op) /\ todo'[c] \in Seq(Op)
        /\ Plain(<<>>) /\ <<>> \in Seq(Op)
    BY SMTT(30) DEF TypeOK, Plain
  <2>1. (Moving(todo'[c], c) <=> Moving(todo[c], c)) /\ UNCHANGED uart_dest
    <3>1. CASE TakeUart(c)
      <4>1. todo[c] = <<>> /\ todo'[c] = <<Work("keypress", c, NoMsg)>> /\ UNCHANGED uart_dest
        BY <3>1 DEF TakeUart, TypeOK
      <4> QED
        BY <2>0, <4>1, PhasesExclude
    <3>2. CASE HandleUartKeypress(c)
      <4>1. UNCHANGED uart_dest
        BY <3>2 DEF HandleUartKeypress
      <4>2. /\ Plain(<<Work("route_interrupt", c, NoMsg)>>)
            /\ Switching(<<Work("route_interrupt", c, NoMsg), NextItem(c)>>, c)
        BY DEF Plain, Switching, Work, NoMsg
      <4>3. InKeypress(c) /\ (Plain(todo'[c]) \/ Switching(todo'[c], c))
        BY <2>0, <3>2, <4>2, ConsoleWork
      <4> QED
        BY <2>0, <4>1, <4>3, PhasesExclude DEF InKeypress
    <3> QED
      BY <1>2, <3>1, <3>2, Phases DEF Phase, Remaps
  <2> QED
    BY <1>2, <2>1, OthersWork
<1> QED
  BY <1>1, <1>2, Classify

\* The other two parts.
LEMMA NextRoute ==
  TypeOK /\ ConsoleInv /\ RouteInv /\ [Next]_vars /\ TypeOK' /\ ConsoleInv'
    => TargetInv' /\ RouteFollowsConsole'
<1> SUFFICES ASSUME TypeOK, ConsoleInv, RouteInv, [Next]_vars, TypeOK', ConsoleInv'
             PROVE  TargetInv' /\ RouteFollowsConsole'
  OBVIOUS
<1>0. ShapeInv /\ PlaceInv /\ UniqueInv /\ ShapeInv' /\ UniqueInv'
  BY DEF ConsoleInv
<1>1. RemappingIsMoving /\ RemappingIsMoving'
  BY <1>0, RemapShape, PTL
<1>2. TakenForNobody /\ TakenForNobody'
  BY <1>0, TakenMeansNobody, PTL
<1>3. \A c, d \in Core : Moving(todo[c], c) /\ Moving(todo[d], d) => c = d
  BY DEF RouteInv, HandOverInv, HandingOver
<1>4. ASSUME NEW c \in Core, Send(c)
      PROVE  Moving(todo[c], c) /\ Moving(todo'[c], c)
  BY <1>4 DEF Send, Moving
<1>5. ASSUME NEW c \in Core, ConsoleStep(c), Remaps(c), NextConsole(c)
      PROVE  Moving(todo'[c], c) /\ \A v \in VmId : ~Destined(v)'
  <2>1. ~SendGrant(c) /\ ~MapGsiVector(c)
    BY <1>5 DEF NextConsole, SendGrant, SendMsg, MapGsiVector, At
  <2>2. todo'[c] = <<GrantItem(c), MapItem(c)>>
    BY <1>0, <1>5, <2>1, ConsoleWork DEF Remaps
  <2>3. Moving(todo'[c], c)
    BY <2>2 DEF Moving
  <2> QED
    BY <1>2, <2>2, <2>3 DEF TakenForNobody
<1>6. ASSUME NEW c \in Core, ConsoleStep(c), Remaps(c), ~NextConsole(c)
      PROVE  Moving(todo[c], c) /\ \A d \in Core : ~Moving(todo'[d], d)
  <2>1. /\ todo[c] = <<GrantItem(c), MapItem(c)>> \/ todo[c] = <<MapItem(c)>>
        /\ todo'[c] = <<>>
    BY <1>0, <1>6, ConsoleWork DEF Remaps
  <2>2. Moving(todo[c], c) /\ ~Moving(<<>>, c)
    <3>1. Moving(<<GrantItem(c), MapItem(c)>>, c) /\ Moving(<<MapItem(c)>>, c)
      BY DEF Moving
    <3>2. ~Moving(<<>>, c)
      BY DEF Moving
    <3> QED
      BY <2>1, <3>1, <3>2
  <2> QED
    BY <1>3, <1>6, <2>1, <2>2, OthersWork
<1>7. TargetInv'
  <2> SUFFICES ASSUME NEW v \in VmId, NEW d \in Core, Destined(v)', Moving(todo'[d], d)
               PROVE  Bsp(v) = NextBsp(d)
    BY DEF TargetInv
  <2>1. Moving(todo[d], d)
    BY <1>0, <1>5, <1>6, MovingStep
  <2>2. CASE Destined(v)
    BY <2>1, <2>2 DEF RouteInv, TargetInv
  <2>3. ASSUME NEW c \in Core, Send(c), Bsp(v) = NextBsp(c) PROVE Bsp(v) = NextBsp(d)
    BY <1>3, <1>4, <2>1, <2>3
  <2> QED
    BY <1>0, <2>2, <2>3, DestinedStep
<1>8. RouteFollowsConsole'
  <2> SUFFICES ASSUME NEW v \in VmId, Destined(v)', \A c \in Core : ~Remapping(c)'
               PROVE  uart_dest' = Bsp(v)
    BY DEF RouteFollowsConsole
  <2>1. \A c \in Core : ~Moving(todo'[c], c)
    BY <1>1 DEF RemappingIsMoving
  <2>2. Destined(v)
    BY <1>0, <1>4, <2>1, DestinedStep
  <2>3. CASE /\ \A d \in Core : Moving(todo'[d], d) <=> Moving(todo[d], d)
             /\ UNCHANGED uart_dest
    BY <1>1, <2>1, <2>2, <2>3 DEF RemappingIsMoving, RouteInv, RouteFollowsConsole
  <2>4. ASSUME NEW c \in Core, ConsoleStep(c), Remaps(c) PROVE uart_dest' = Bsp(v)
    <3>1. ~NextConsole(c) /\ Moving(todo[c], c)
      BY <1>5, <1>6, <2>1, <2>4
    <3>2. CASE SendGrant(c)
      BY <1>0, <1>2, <2>2, <3>2, ConsoleWork DEF TakenForNobody
    <3>3. CASE MapGsiVector(c)
      <4>1. uart_dest' = NextBsp(c)
        BY <1>0, <3>3, ConsoleWork
      <4> QED
        BY <2>2, <3>1, <4>1 DEF RouteInv, TargetInv
    <3> QED
      BY <2>4, <3>1, <3>2, <3>3 DEF Remaps
  <2> QED
    BY <1>0, <2>3, <2>4, MovingStep
<1> QED
  BY <1>7, <1>8

\* After kmain, VM 0 has the UART, and core 0 its interrupt.
LEMMA InitRoute == Init => RouteInv
<1> SUFFICES ASSUME Init PROVE RouteInv
  OBVIOUS
<1>1. 0 \in VmId /\ \A v \in VmId : serial[v] <=> v = 0
  <2>1. 0 \in VmId
    BY MachinesAssumption DEF VmId
  <2>2. \A v \in VmId : serial[v] = (v = 0)
    BY Zenon DEF Init
  <2> QED
    BY <2>1, <2>2
<1>2. /\ uart_dest = 0 /\ Bsp(0) = 0 /\ 0 \in Core /\ VmOf(0) = 0
  BY <1>1, BspCore, InitialRouteAssumption DEF Init
<1>3. \A c \in Core : /\ todo[c] = <<>> /\ irr[c] = {}
                      /\ GrantsInQueue(c) = {} /\ GrantsInHand(c) = {}
  BY DEF Init, GrantsInQueue, GrantsInHand
<1>4. \A c \in Core : ~Outstanding(c) /\ ~HandingOver(c)
  BY <1>3 DEF Outstanding, InKeypress, HandingOver, Switching, Moving
<1>5. \A v \in VmId : Destined(v) => v = 0
  BY <1>1, <1>3, BspCore DEF Destined
<1>6. KeyInv /\ HandOverInv /\ TargetInv
  BY <1>2, <1>4 DEF KeyInv, HandOverInv, TargetInv, Outstanding, HandingOver
<1> QED
  BY <1>2, <1>5, <1>6 DEF RouteInv, RouteFollowsConsole

\* map_gsi_vector and the two sends of NextConsole never leave the UART's
\* interrupt behind: for any number of VMs, cores, keys and messages, whenever
\* no core has a map_gsi_vector left to do, the redirection entry names the
\* BSP of the VM that has the console or has its GrantConsole in its queue.
THEOREM InterruptFollowsConsole == Spec => []RouteFollowsConsole
<1>1. Init => RouteInv
  BY InitRoute
<1>2. TypeOK /\ ConsoleInv /\ RouteInv /\ [Next]_vars /\ TypeOK' /\ ConsoleInv' => RouteInv'
  BY NextKeys, NextRoute DEF RouteInv, ConsoleInv
<1>3. RouteInv => RouteFollowsConsole
  BY DEF RouteInv
<1> QED
  BY <1>1, <1>2, <1>3, ConsoleInvariant, PTL DEF Spec
=============================================================================
