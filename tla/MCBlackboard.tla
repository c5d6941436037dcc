---------------------------- MODULE MCBlackboard ----------------------------
(***************************************************************************)
(* The instance of Blackboard for TLC.                                     *)
(***************************************************************************)
EXTENDS Blackboard, TLC

CONSTANTS a, b, c, x, y
=============================================================================
