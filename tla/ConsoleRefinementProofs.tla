---------------------- MODULE ConsoleRefinementProofs ----------------------
(***************************************************************************)
(* The proof that the console hand-over of Vcpu implements Console, for    *)
(* any number of VMs, cores, keys and stimuli.  NextConsole is Release,    *)
(* the handling of a GrantConsole is Accept, the failed push of one is     *)
(* Lose; every other step leaves the abstract console alone.               *)
(***************************************************************************)
EXTENDS ConsoleProofs

-----------------------------------------------------------------------------
(* The refinement mapping, by where the UART is.                           *)

ShapeFacts ==
  \A c \in Core : \A i \in GrantsInHand(c) :
    /\ Handling(todo[c], c) => todo[c][i].dst = c
    /\ todo[c] = <<GrantItem(c), MapItem(c)>> => VmOf(todo[c][i].dst) = NextVm(VmOf(c))

\* A grant in hand is for this core's VM if it was received, and for the next
\* VM if it is being sent.
LEMMA MovingByShape == ShapeFacts
<1>1. ASSUME NEW c \in Core, NEW i \in GrantsInHand(c), Handling(todo[c], c)
      PROVE  todo[c][i].dst = c
  BY <1>1 DEF GrantsInHand, Handling
<1>2. ASSUME NEW c \in Core, NEW i \in GrantsInHand(c), todo[c] = <<GrantItem(c), MapItem(c)>>
      PROVE  VmOf(todo[c][i].dst) = NextVm(VmOf(c))
  <2>1. i \in 1 .. 2 /\ (todo[c][i] = GrantItem(c) \/ todo[c][i] = MapItem(c))
    BY <1>2 DEF GrantsInHand
  <2>2. todo[c][i].dst = NextBsp(c)
    BY <2>1 DEF GrantItem, MapItem, Work
  <2> QED
    BY <2>2, NextBspIsBsp
<1> QED
  BY <1>1, <1>2 DEF ShapeFacts

MappingFacts ==
  /\ \A v \in VmId : UniqueInv /\ serial[v] => consoleState = "held" /\ consoleVm = v
  /\ \A v \in VmId : UniqueInv /\ MovingTo(v) => consoleState = "moving" /\ consoleVm = v
  /\ (\A v \in VmId : ~serial[v] /\ ~MovingTo(v)) => consoleState = "lost" /\ consoleVm = 0

\* The UART in a slot, on its way, and nowhere.
LEMMA Mapping == MappingFacts
<1>1. ASSUME NEW v \in VmId, UniqueInv, serial[v]
      PROVE  consoleState = "held" /\ consoleVm = v
  <2>1. \A w \in VmId : serial[w] => w = v
    BY <1>1 DEF UniqueInv
  <2>2. (CHOOSE w \in VmId : serial[w]) = v
    BY <1>1, <2>1
  <2> QED
    BY <1>1, <2>2 DEF consoleState, consoleVm
<1>2. ASSUME NEW v \in VmId, UniqueInv, MovingTo(v)
      PROVE  consoleState = "moving" /\ consoleVm = v
  <2>1. \A w \in VmId : ~serial[w]
    BY <1>2 DEF UniqueInv, MovingTo
  <2>2. ASSUME NEW w \in VmId, MovingTo(w) PROVE w = v
    <3>1. CASE \E c \in Core : VmOf(c) = v /\ GrantsInQueue(c) # {}
      <4>1. PICK c \in Core : VmOf(c) = v /\ GrantsInQueue(c) # {}
        BY <3>1
      <4>2. \A d \in Core : GrantsInHand(d) = {}
        BY <1>2, <4>1 DEF UniqueInv
      <4>3. \A d \in Core : GrantsInQueue(d) # {} => d = c
        BY <1>2, <4>1 DEF UniqueInv
      <4> QED
        BY <2>2, <4>1, <4>2, <4>3 DEF MovingTo
    <3>2. CASE \E c \in Core : \E i \in GrantsInHand(c) : VmOf(todo[c][i].dst) = v
      <4>0. PICK c \in Core : \E i \in GrantsInHand(c) : VmOf(todo[c][i].dst) = v
        BY <3>2
      <4>1. PICK i \in GrantsInHand(c) : VmOf(todo[c][i].dst) = v
        BY <4>0
      <4>2. \A d \in Core : GrantsInQueue(d) = {}
        BY <1>2, <4>1 DEF UniqueInv
      <4>3. \A d \in Core : \A j \in GrantsInHand(d) : d = c /\ j = i
        BY <1>2, <4>1 DEF UniqueInv
      <4> QED
        BY <2>2, <4>1, <4>2, <4>3 DEF MovingTo
    <3> QED
      BY <1>2, <3>1, <3>2 DEF MovingTo
  <2>3. (CHOOSE w \in VmId : MovingTo(w)) = v
    BY <1>2, <2>2
  <2> QED
    BY <1>2, <2>1, <2>3 DEF consoleState, consoleVm
<1>3. ASSUME \A v \in VmId : ~serial[v] /\ ~MovingTo(v)
      PROVE  consoleState = "lost" /\ consoleVm = 0
  BY <1>3 DEF consoleState, consoleVm
<1> QED
  BY <1>1, <1>2, <1>3 DEF MappingFacts

\* The same after a step.
LEMMA MappingAfter == MappingFacts' /\ ShapeFacts'
  BY Mapping, MovingByShape, PTL

\* A step that leaves the UART with, or on its way to, the same VM.
LEMMA MappingFrame ==
  ASSUME UniqueInv, UniqueInv', UNCHANGED serial,
         \A v \in VmId : MovingTo(v)' <=> MovingTo(v)
  PROVE  UNCHANGED <<consoleState, consoleVm>>
<1>1. CASE \E v \in VmId : serial[v]
  BY <1>1, Mapping, MappingAfter DEF MappingFacts
<1>2. CASE \E v \in VmId : MovingTo(v)
  BY <1>2, Mapping, MappingAfter DEF MappingFacts
<1>3. CASE \A v \in VmId : ~serial[v] /\ ~MovingTo(v)
  BY <1>3, Mapping, MappingAfter DEF MappingFacts
<1> QED
  BY <1>1, <1>2, <1>3

-----------------------------------------------------------------------------
(* The steps.                                                              *)

\* Every step of every core is a step of the abstract console or leaves it
\* alone.
LEMMA StepRefines ==
  ASSUME TypeOK, ConsoleInv, ConsoleInv', [Next]_vars
  PROVE  [C!Next]_<<consoleState, consoleVm>>
<1>u. UniqueInv /\ UniqueInv' /\ ShapeInv /\ PlaceInv
  BY DEF ConsoleInv
<1>f. MappingFacts /\ MappingFacts' /\ ShapeFacts /\ ShapeFacts'
  BY Mapping, MovingByShape, MappingAfter
<1>s. serial \in [VmId -> BOOLEAN]
  BY DEF TypeOK
<1>1. CASE Still
  <2>1. \A v \in VmId : MovingTo(v)' <=> MovingTo(v)
    BY <1>1 DEF Still, QueuesStay, MovingTo, GrantsInHand
  <2> QED
    BY <1>1, <1>u, <2>1, MappingFrame DEF Still
<1>2. ASSUME NEW c \in Core, Stay(c) PROVE UNCHANGED <<consoleState, consoleVm>>
  <2>0. /\ UNCHANGED serial
        /\ \A x \in Core : GrantsInQueue(x)' = GrantsInQueue(x)
        /\ \A x \in Core : x # c => todo'[x] = todo[x] /\ GrantsInHand(x)' = GrantsInHand(x)
    BY <1>2 DEF Stay, QueuesStay, OthersStay
  <2>1. CASE GrantsInHand(c) = {} /\ GrantsInHand(c)' = {}
    <3>1. \A v \in VmId : MovingTo(v)' <=> MovingTo(v)
      BY <2>0, <2>1 DEF MovingTo
    <3> QED
      BY <1>u, <2>0, <3>1, MappingFrame
  <2>2. CASE /\ Handling(todo[c], c) /\ Handling(todo'[c], c)
             /\ GrantsInHand(c)' = {i - 1 : i \in GrantsInHand(c)}
    <3>1. \A v : (\E i \in GrantsInHand(c) : VmOf(todo[c][i].dst) = v)
                   <=> GrantsInHand(c) # {} /\ VmOf(c) = v
      BY <1>f, <2>2 DEF ShapeFacts
    <3>2. \A v : (\E i \in GrantsInHand(c)' : VmOf(todo'[c][i].dst) = v)
                   <=> GrantsInHand(c)' # {} /\ VmOf(c) = v
      BY <1>f, <2>2 DEF ShapeFacts
    <3>3. GrantsInHand(c)' # {} <=> GrantsInHand(c) # {}
      BY <2>2
    <3>4. \A v \in VmId : MovingTo(v)' <=> MovingTo(v)
      BY <2>0, <3>1, <3>2, <3>3 DEF MovingTo
    <3> QED
      BY <1>u, <2>0, <3>4, MappingFrame
  <2> QED
    BY <1>2, <2>1, <2>2 DEF Stay
<1>3. ASSUME NEW c \in Core, Drain(c) PROVE UNCHANGED <<consoleState, consoleVm>>
  <2>0. /\ UNCHANGED serial
        /\ \A x \in Core : x # c => GrantsInQueue(x)' = GrantsInQueue(x)
        /\ \A x \in Core : x # c => todo'[x] = todo[x] /\ GrantsInHand(x)' = GrantsInHand(x)
        /\ GrantsInQueue(c)' = {} /\ GrantsInHand(c) = {}
        /\ GrantsInHand(c)' = GrantsInQueue(c)
        /\ Handling(todo'[c], c)
    BY <1>3 DEF Drain, OthersStay
  <2>1. \A v : (\E i \in GrantsInHand(c)' : VmOf(todo'[c][i].dst) = v)
                 <=> GrantsInQueue(c) # {} /\ VmOf(c) = v
    BY <1>f, <2>0 DEF ShapeFacts
  <2>2. \A v \in VmId : MovingTo(v)' <=> MovingTo(v)
    BY <2>0, <2>1 DEF MovingTo
  <2> QED
    BY <1>u, <2>0, <2>2, MappingFrame
<1>4. ASSUME NEW c \in Core, Install(c) PROVE C!Accept
  <2>0. VmOf(c) \in VmId
    BY VmOfCore
  <2>1. MovingTo(VmOf(c))
    BY <1>4, <1>f DEF Install, ShapeFacts, MovingTo
  <2>2. serial'[VmOf(c)]
    BY <1>4, <1>s, <2>0 DEF Install
  <2> QED
    BY <1>f, <1>u, <2>0, <2>1, <2>2 DEF MappingFacts, C!Accept
<1>5. ASSUME NEW c \in Core, Take(c) PROVE C!Release
  <2>0. VmOf(c) \in VmId /\ NextVm(VmOf(c)) \in VmId
    BY VmOfCore, NextVmInVmId
  <2>1. serial[VmOf(c)]
    BY <1>5 DEF Take
  <2>2. 1 \in GrantsInHand(c)' /\ todo'[c] = <<GrantItem(c), MapItem(c)>>
    BY <1>5 DEF Take
  <2>3. VmOf(todo'[c][1].dst) = NextVm(VmOf(c))
    BY <1>f, <2>2 DEF ShapeFacts
  <2>4. MovingTo(NextVm(VmOf(c)))'
    BY <2>2, <2>3 DEF MovingTo
  <2>5. consoleState = "held" /\ consoleVm = VmOf(c)
    BY <1>f, <1>u, <2>0, <2>1 DEF MappingFacts
  <2>6. consoleState' = "moving" /\ consoleVm' = NextVm(VmOf(c))
    BY <1>f, <1>u, <2>0, <2>4 DEF MappingFacts
  <2> QED
    BY <2>5, <2>6 DEF C!Release, NextVm
<1>6. ASSUME NEW c \in Core, Send(c) PROVE UNCHANGED <<consoleState, consoleVm>>
  <2>0. NextVm(VmOf(c)) \in VmId
    BY VmOfCore, NextVmInVmId
  <2>1. 1 \in GrantsInHand(c) /\ todo[c] = <<GrantItem(c), MapItem(c)>>
    BY <1>6 DEF Send
  <2>2. VmOf(todo[c][1].dst) = NextVm(VmOf(c))
    BY <1>f, <2>1 DEF ShapeFacts
  <2>3. MovingTo(NextVm(VmOf(c)))
    BY <2>1, <2>2 DEF MovingTo
  <2>4. NextBsp(c) \in Core /\ VmOf(NextBsp(c)) = NextVm(VmOf(c)) /\ GrantsInQueue(NextBsp(c))' # {}
    BY <1>6, NextBspIsBsp DEF Send
  <2>5. MovingTo(NextVm(VmOf(c)))'
    BY <2>4 DEF MovingTo
  <2> QED
    BY <1>f, <1>u, <2>0, <2>3, <2>5 DEF MappingFacts
<1>7. ASSUME NEW c \in Core, LoseGrant(c) PROVE C!Lose
  <2>0. NextVm(VmOf(c)) \in VmId
    BY VmOfCore, NextVmInVmId
  <2>1. 1 \in GrantsInHand(c) /\ todo[c] = <<GrantItem(c), MapItem(c)>>
    BY <1>7 DEF LoseGrant
  <2>2. VmOf(todo[c][1].dst) = NextVm(VmOf(c))
    BY <1>f, <2>1 DEF ShapeFacts
  <2>3. MovingTo(NextVm(VmOf(c)))
    BY <2>1, <2>2 DEF MovingTo
  <2>4. /\ \A v \in VmId : ~serial[v]
        /\ \A x \in Core : GrantsInQueue(x) = {} /\ (x # c => GrantsInHand(x) = {})
    BY <1>u, <2>1 DEF UniqueInv
  <2>5. /\ \A v \in VmId : ~serial'[v]
        /\ \A x \in Core : GrantsInQueue(x)' = {} /\ GrantsInHand(x)' = {}
    BY <1>7, <2>4 DEF LoseGrant, QueuesStay, OthersStay
  <2>6. \A v \in VmId : ~serial'[v] /\ ~MovingTo(v)'
    BY <2>5 DEF MovingTo
  <2>7. consoleState = "moving"
    BY <1>f, <1>u, <2>0, <2>3 DEF MappingFacts
  <2>8. consoleState' = "lost" /\ consoleVm' = 0
    BY <1>f, <2>6 DEF MappingFacts
  <2> QED
    BY <2>7, <2>8 DEF C!Lose
<1> QED
  BY <1>1, <1>2, <1>3, <1>4, <1>5, <1>6, <1>7, <1>u, GrantSteps DEF C!Next

\* The console hand-over of the running hypervisor (NextConsole, send_msg_core,
\* handle_ipc on all cores) implements Console: the UART passes from VM to VM
\* in order of their ids, and is lost only in a hand-over.
THEOREM HandOverImplementsConsole == Spec => ConsoleSpec
<1>1. Init => C!Init
  <2> SUFFICES ASSUME Init PROVE C!Init
    OBVIOUS
  <2>1. 0 \in VmId
    BY MachinesAssumption DEF VmId
  <2>2. serial[0] = (0 = 0)
    BY <2>1, Zenon DEF Init
  <2>3. UniqueInv
    BY InitConsole
  <2>4. consoleState = "held" /\ consoleVm = 0
    BY <2>1, <2>2, <2>3, Mapping DEF MappingFacts
  <2> QED
    BY <2>4 DEF C!Init
<1>2. (TypeOK /\ ConsoleInv) /\ (TypeOK /\ ConsoleInv)' /\ [Next]_vars
        => [C!Next]_<<consoleState, consoleVm>>
  BY StepRefines
<1> QED
  BY <1>1, <1>2, ConsoleInvariant, PTL DEF Spec, ConsoleSpec, C!Spec
=============================================================================
