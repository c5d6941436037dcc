---------------------------- MODULE DurableWork ----------------------------
(***************************************************************************)
(* What evacuation promises (supervisor/internal/evacuation): work that a  *)
(* completed evacuation covered is still there after the node that held    *)
(* it is lost.  Work it did not cover may be lost with the node; work of   *)
(* an earlier snapshot may come back.                                      *)
(***************************************************************************)
CONSTANT Items   \* units of work: a change to a file

VARIABLES
  work,       \* the work the workspace has, or will have once it is rebuilt
  promised    \* the work that must survive

vars == <<work, promised>>

Init == work = {} /\ promised = {}

Write ==
  /\ \E i \in Items : work' = work \cup {i}
  /\ UNCHANGED promised

Confirm ==
  /\ promised' \in SUBSET work
  /\ promised \subseteq promised'
  /\ UNCHANGED work

Lose ==
  /\ work' \in SUBSET Items
  /\ promised \subseteq work'
  /\ UNCHANGED promised

\* An evacuation that was disturbed, or that never had the work, replaces the
\* snapshot.
Forfeit ==
  /\ work' \in SUBSET Items
  /\ promised' = {}

Next == Write \/ Confirm \/ Lose \/ Forfeit

Spec == Init /\ [][Next]_vars
=============================================================================
