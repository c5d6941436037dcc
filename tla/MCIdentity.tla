---------------------------- MODULE MCIdentity ----------------------------
(***************************************************************************)
(* Instances of Identity for TLC.  Replicas and changes are alike.         *)
(***************************************************************************)
EXTENDS Identity, TLC

Symmetric == Permutations(Replicas) \cup Permutations(Changes)
=============================================================================
