------------------------------- MODULE MCBoot -------------------------------
(***************************************************************************)
(* Instances of Boot for TLC.                                              *)
(***************************************************************************)
EXTENDS Boot

\* Six processors; core 2 belongs to no VM.
SomeAssigned == {0, 1, 3, 4, 5}
=============================================================================
