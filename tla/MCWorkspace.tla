---------------------------- MODULE MCWorkspace ----------------------------
(***************************************************************************)
(* Instances of Workspace for TLC.                                         *)
(***************************************************************************)
EXTENDS Workspace, TLC

CONSTANTS main, topic, label

\* Two branches that normalise to the same DNS label.
OneLabel == [b \in Branches |-> label]

\* Every Workspace asks for the same branch, or each for its own.
SameBranch == [w \in Workspaces |-> main]
OwnBranch == [w \in Workspaces |-> IF w = 1 THEN main ELSE topic]
=============================================================================
