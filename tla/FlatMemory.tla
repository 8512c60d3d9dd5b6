----------------------------- MODULE FlatMemory -----------------------------
(***************************************************************************)
(* What the address spaces of the virtual machines promise: each guest     *)
(* page is mapped at most once and for good, and no host frame is ever     *)
(* given to two guest pages, of one machine or of two.                     *)
(***************************************************************************)
EXTENDS Naturals

CONSTANTS
  Vms,      \* the virtual machines
  Pages,    \* guest physical pages
  Frames    \* host frames

VARIABLE space   \* space[vm][page] is the frame of a page, 0 if it has none

InUse == {space[v][p] : v \in Vms, p \in Pages} \ {0}

Init == space = [v \in Vms |-> [p \in Pages |-> 0]]

Map(vm, page) ==
  LET frame == space'[vm][page]
  IN  /\ space[vm][page] = 0
      /\ frame \in Frames \ InUse
      /\ space' = [space EXCEPT ![vm][page] = frame]

Next == \E vm \in Vms, page \in Pages : Map(vm, page)

Spec == Init /\ [][Next]_space
=============================================================================
