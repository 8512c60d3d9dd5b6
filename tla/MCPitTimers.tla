---------------------------- MODULE MCPitTimers ----------------------------
(***************************************************************************)
(* Instances of PitTimers for TLC.                                         *)
(***************************************************************************)
EXTENDS PitTimers

TwoCores == {0, 1}
=============================================================================
