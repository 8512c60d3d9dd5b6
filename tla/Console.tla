------------------------------- MODULE Console -------------------------------
(***************************************************************************)
(* What the console hand-over promises, without cores, queues or           *)
(* interrupts: there is one host UART, VM 0 has it first, and it passes    *)
(* from a VM to the next one in order of their ids.  A hand-over is not    *)
(* instantaneous, and only a hand-over can lose the UART.                  *)
(***************************************************************************)
EXTENDS Integers

CONSTANT NumVms

VARIABLES
  state,   \* "held", "moving" or "lost"
  vm       \* who has it or will get it; 0 once it is lost

Init == state = "held" /\ vm = 0

Release ==
  /\ state = "held"
  /\ state' = "moving"
  /\ vm' = (vm + 1) % NumVms

Accept ==
  /\ state = "moving"
  /\ state' = "held"
  /\ UNCHANGED vm

Lose ==
  /\ state = "moving"
  /\ state' = "lost"
  /\ vm' = 0

Next == Release \/ Accept \/ Lose

Spec == Init /\ [][Next]_<<state, vm>>
=============================================================================
