------------------------------- MODULE MCVcpu -------------------------------
(***************************************************************************)
(* Instances of Vcpu for TLC.                                              *)
(***************************************************************************)
EXTENDS VcpuConsole

\* One VM with two cores.
OneVm == [v \in 0 .. 0 |-> <<0, 1>>]

\* Two VMs with one core each.
TwoVms == [v \in 0 .. 1 |-> <<v>>]

\* Two VMs, the second with two cores.
PairedVms == [v \in 0 .. 1 |-> IF v = 0 THEN <<0>> ELSE <<1, 2>>]
=============================================================================
