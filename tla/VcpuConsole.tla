----------------------------- MODULE VcpuConsole -----------------------------
(***************************************************************************)
(* The console hand-over of Vcpu implements Console.                       *)
(***************************************************************************)
EXTENDS Vcpu

\* A GrantConsole message is on its way to VM v: in a queue of one of its
\* cores, or in the hands of a handler, addressed to one of its cores.
MovingTo(v) ==
  \E c \in Core :
    \/ VmOf(c) = v /\ GrantsInQueue(c) # {}
    \/ \E i \in GrantsInHand(c) : VmOf(todo[c][i].dst) = v

consoleState ==
  IF \E v \in VmId : serial[v] THEN "held"
  ELSE IF \E v \in VmId : MovingTo(v) THEN "moving"
  ELSE "lost"

consoleVm ==
  IF \E v \in VmId : serial[v] THEN CHOOSE v \in VmId : serial[v]
  ELSE IF \E v \in VmId : MovingTo(v) THEN CHOOSE v \in VmId : MovingTo(v)
  ELSE 0

C == INSTANCE Console WITH state <- consoleState, vm <- consoleVm

\* Every step of every core is a step of the abstract console or leaves it
\* alone: the UART passes from VM to VM in order of their ids (NextConsole),
\* is installed by the VM it was sent to (handle_ipc), and is lost only by a
\* failed send_msg_core.
ConsoleSpec == C!Spec
=============================================================================
