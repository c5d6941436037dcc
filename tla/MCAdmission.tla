----------------------------- MODULE MCAdmission -----------------------------
(***************************************************************************)
(* Instances of Admission for TLC.                                         *)
(***************************************************************************)
EXTENDS Admission, TLC

CONSTANTS w1, w2, w3, s1, s2

\* Every browser is on the first Workspace, and every volume is of one size.
AllOnFirst == [s \in Sockets |-> w1]
OneEach == [w \in Workspaces |-> 1]
=============================================================================
