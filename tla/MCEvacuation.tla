---------------------------- MODULE MCEvacuation ----------------------------
(***************************************************************************)
(* Instances of Evacuation for TLC.                                        *)
(***************************************************************************)
EXTENDS Evacuation, TLC

\* One unit of work is like another; only safety is checked.
Symmetry == Permutations(Items)
=============================================================================
