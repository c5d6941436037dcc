---------------------------- MODULE MCHandover ----------------------------
(***************************************************************************)
(* Instances of Handover for TLC.                                          *)
(***************************************************************************)
EXTENDS Handover, TLC

Symmetric == Permutations(Browsers) \cup Permutations(Requests)
=============================================================================
