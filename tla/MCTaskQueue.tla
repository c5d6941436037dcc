---------------------------- MODULE MCTaskQueue ----------------------------
(***************************************************************************)
(* Instances of TaskQueue for TLC.                                         *)
(***************************************************************************)
EXTENDS TaskQueue, TLC

CONSTANTS alpha, beta

\* The first task runs in a workspace of its own.
FirstApart == [t \in Tasks |-> IF t = 1 THEN alpha ELSE beta]
AllTogether == [t \in Tasks |-> alpha]
=============================================================================
