------------------------------ MODULE Admission ------------------------------
(***************************************************************************)
(* Admission before provisioning (controller/internal/controller/          *)
(* admission.go and the passes of workspace_controller.go around it),      *)
(* composed with the connections that keep a Workspace running: a          *)
(* Workspace waits until its image is staged, the namespace quota has room *)
(* for one more Pod and the volumes declared for its node fit the node's   *)
(* budget; what frees the quota is the idle stop of another Workspace.     *)
(*                                                                         *)
(* The quota is one for Pods; cpu and memory are compared in the same way. *)
(* All templates are for one node and one image, and the Workspaces and    *)
(* templates listed and the quota's usage are read from caches that trail  *)
(* the API server; of its own object a pass has a fresh copy.  Duplicates  *)
(* are left to Workspace, but for one whose canonical has gone while both  *)
(* were Provisioning: it keeps the name it mirrored and the condition, and *)
(* provisions without admission.                                           *)
(***************************************************************************)
EXTENDS Connections

CONSTANTS
  Size,     \* storage size each Workspace's template declares
  Budget,   \* the templates' nodeDiskBudget
  Hard,     \* the quota's hard limit of Pods
  Doomed,   \* bound: the Workspaces somebody deletes
  Losable,  \* bound: the Workspaces whose template somebody deletes, for good
  Doubles   \* the Workspaces created for a branch that has one already

ASSUME AdmissionAssumption ==
  /\ Size \in [Workspaces -> Nat]
  /\ Budget \in Nat
  /\ Hard \in Nat
  /\ Doomed \subseteq Workspaces /\ Losable \subseteq Workspaces
  /\ Doubles \subseteq Workspaces
  /\ IsFiniteSet(Workspaces)

VARIABLES
  volumes,    \* the Workspaces whose volume is there
  templates,  \* the Workspaces whose template is there
  former,     \* the Workspaces with DuplicateOfExisting that are no duplicate
  staged,     \* the image is in the node's status.images
  listed,     \* the Workspaces the cached list has budget counted for
  known,      \* the Workspaces whose template is in the cache
  used        \* Pods in use, as the cached quota shows it

store == <<volumes, templates, former>>
caches == <<staged, listed, known, used>>

vars == <<ws, replicas, pod, ssh, socket, note, last, muddled, pass, marks, store, caches>>

TypeOK ==
  /\ ConnTypeOK
  /\ volumes \subseteq Workspaces
  /\ templates \subseteq Workspaces
  /\ former \subseteq Workspaces
  /\ staged \in BOOLEAN
  /\ listed \subseteq Workspaces
  /\ known \subseteq Workspaces
  /\ used \in 0 .. Hard

Init ==
  /\ ConnInit
  /\ volumes = {} /\ templates = Workspaces /\ former = {}
  /\ staged = FALSE
  /\ listed = {}
  /\ known = Workspaces
  /\ used = 0

\* The Workspaces of the list that are not passed over: not being deleted,
\* not Failed, and without DuplicateOfExisting.
Listed ==
  {w \in Workspaces : ws[w].life = "live" /\ ws[w].phase # "Failed" /\ w \notin former}

\* The Workspaces whose declared volume counts: there is a template to say.
Counted == Listed \cap templates

\* The units of storage declared for the Workspaces in S, and how many they
\* are: their sizes, added up.
Units(S) == UNION {{w} \X (1 .. Size[w]) : w \in S}
Declared(S) == Cardinality(Units(S))

Pods == {w \in Workspaces : pod[w]}

-----------------------------------------------------------------------------
(* Users, the cluster and its caches *)

CreateWorkspace(w) ==
  /\ ws[w].life = "unborn"
  /\ ws' = [ws EXCEPT ![w].life = "live"]
  /\ UNCHANGED <<replicas, pod, ssh, socket, note, last, muddled, pass, marks, store, caches>>

\* A second Workspace of a branch, from when its canonical goes: it has
\* mirrored the name that was given to it.
Inherit(w) ==
  /\ w \in Doubles /\ ws[w].life = "unborn"
  /\ ws' = [ws EXCEPT ![w] = [Unborn EXCEPT !.life = "live", !.id = TRUE]]
  /\ former' = former \cup {w}
  /\ UNCHANGED <<replicas, pod, ssh, socket, note, last, muddled, pass, marks, volumes, templates, caches>>

DeleteTemplate(w) ==
  /\ w \in Losable \cap templates
  /\ templates' = templates \ {w}
  /\ UNCHANGED <<conns, volumes, former, caches>>

\* The deletion timestamp; the finalizer keeps the object.
DeleteWorkspace(w) ==
  /\ w \in Doomed /\ ws[w].life = "live"
  /\ ws' = [ws EXCEPT ![w].life = "deleting"]
  /\ pass' = Touched(w)
  /\ UNCHANGED <<replicas, pod, ssh, socket, note, last, muddled, marks, store, caches>>

\* reconcileTerminating asks for the evacuation and removes the StatefulSet.
TearDown(w) ==
  /\ WorkerFree /\ ws[w].life = "deleting"
  /\ replicas[w] = 1 /\ w \notin former
  /\ replicas' = [replicas EXCEPT ![w] = 0]
  /\ UNCHANGED <<ws, pod, ssh, socket, note, last, muddled, pass, marks, store, caches>>

\* The evacuation is confirmed, which may take for ever: the volume goes, and
\* the finalizer.  Of a former duplicate nothing is torn down, and what it
\* has goes with its owner.
FinishDelete(w) ==
  /\ WorkerFree /\ ws[w].life = "deleting"
  /\ replicas[w] = 0 \/ w \in former
  /\ ws' = [ws EXCEPT ![w] = [Unborn EXCEPT !.life = "gone"]]
  /\ replicas' = [replicas EXCEPT ![w] = 0]
  /\ note' = [note EXCEPT ![w] = 0]
  /\ volumes' = volumes \ {w}
  /\ UNCHANGED <<pod, ssh, socket, last, muddled, pass, marks, templates, former, caches>>

\* The pre-stage DaemonSet's Pod is running on the node.
StageImage ==
  /\ ~staged
  /\ staged' = TRUE
  /\ UNCHANGED <<conns, store, listed, known, used>>

\* The caches catch up.
Sync ==
  /\ listed' = Listed
  /\ known' = templates
  /\ used' = Cardinality(Pods)
  /\ UNCHANGED <<conns, store, staged>>

\* The API server refuses the Pod the quota has no room for.
PodStart(w) ==
  /\ replicas[w] = 1 /\ ~pod[w]
  /\ Cardinality(Pods) < Hard
  /\ pod' = [pod EXCEPT ![w] = TRUE]
  /\ UNCHANGED <<ws, replicas, ssh, socket, note, last, muddled, pass, marks, store, caches>>

\* The provisioning timeout passes; it runs from the creation.
Age(w) ==
  /\ ws[w].life = "live" /\ ws[w].phase = "Provisioning" /\ ~ws[w].late
  /\ ws' = [ws EXCEPT ![w].late = TRUE]
  /\ UNCHANGED <<replicas, pod, ssh, socket, note, last, muddled, pass, marks, store, caches>>

-----------------------------------------------------------------------------
(* Passes of reconcileProvisioning *)

\* A pass with the template in hand.  It sees w only once the cache does, and
\* over a trailing copy its first update conflicts.
ProvisioningPass(w) == Pass(w, "Provisioning") /\ w \in listed \cup former /\ w \in known

\* getTemplate finds none.  Past the timeout the Workspace fails, under no
\* name: what it has stays.
TemplateMissing(w) ==
  /\ Pass(w, "Provisioning") /\ w \in listed \cup former /\ w \notin known
  /\ ws[w].late
  /\ ws' = [ws EXCEPT ![w].phase = "Failed", ![w].late = FALSE]
  /\ UNCHANGED <<replicas, pod, ssh, socket, note, last, muddled, pass, marks, store, caches>>

resourceQuotaHasRoom == used + 1 <= Hard

\* Mutant of nodeDiskBudgetHasRoom: only what is running counts.
RunningBudget(w) ==
  Size[w] + Declared({v \in (listed \cap known) \ {w} : ws[v].phase = "Ready"}) <= Budget

\* Mutant of nodeDiskBudgetHasRoom: the Workspace itself is in the list.
CountsItself(w) == Size[w] + Declared(listed \cap known) <= Budget

\* Its own size and that of every other Workspace in the list with a template,
\* the ones that are still waiting included.
nodeDiskBudgetHasRoom(w) == Size[w] + Declared((listed \cap known) \ {w}) <= Budget

\* The three gates, in order.
admissionBlocked(w) ==
  ~staged \/ ~resourceQuotaHasRoom \/ ~nodeDiskBudgetHasRoom(w)

\* Held: the condition is set and the pass requeued, with no timeout.
Hold(w) ==
  /\ ProvisioningPass(w) /\ ~ws[w].id
  /\ admissionBlocked(w)
  /\ ws' = [ws EXCEPT ![w].waiting = TRUE]
  /\ UNCHANGED <<replicas, pod, ssh, socket, note, last, muddled, pass, marks, store, caches>>

\* Admitted: the name is recorded, and admission is not asked again.
Admit(w) ==
  /\ ProvisioningPass(w) /\ ~ws[w].id
  /\ ~admissionBlocked(w)
  /\ ws' = [ws EXCEPT ![w].waiting = FALSE, ![w].id = TRUE]
  /\ UNCHANGED <<replicas, pod, ssh, socket, note, last, muddled, pass, marks, store, caches>>

\* Volume and StatefulSet are created, in this pass or in a later one.
Provision(w) ==
  /\ ProvisioningPass(w) /\ ws[w].id
  /\ replicas' = [replicas EXCEPT ![w] = 1]
  /\ volumes' = volumes \cup {w}
  /\ UNCHANGED <<ws, pod, ssh, socket, note, last, muddled, pass, marks, templates, former, caches>>

markReady(w) ==
  /\ ProvisioningPass(w) /\ ws[w].id
  /\ replicas[w] = 1 /\ pod[w]
  /\ ws' = [ws EXCEPT ![w].phase = "Ready", ![w].late = FALSE]
  /\ UNCHANGED <<replicas, pod, ssh, socket, note, last, muddled, pass, marks, store, caches>>

\* requeueOrFail past the timeout: rolled back and Failed.
failAndRollback(w) ==
  /\ ProvisioningPass(w) /\ ws[w].id
  /\ ~pod[w] /\ ws[w].late
  /\ replicas' = [replicas EXCEPT ![w] = 0]
  /\ ws' = [ws EXCEPT ![w].phase = "Failed", ![w].late = FALSE]
  /\ volumes' = volumes \ {w}
  /\ UNCHANGED <<pod, ssh, socket, note, last, muddled, pass, marks, templates, former, caches>>

-----------------------------------------------------------------------------
(* Specification *)

Next ==
  \/ ConnStep /\ UNCHANGED <<store, caches>>
  \/ \E w \in Workspaces :
       \/ CreateWorkspace(w) \/ Inherit(w) \/ DeleteTemplate(w)
       \/ DeleteWorkspace(w) \/ TearDown(w) \/ FinishDelete(w)
       \/ PodStart(w) \/ Age(w) \/ TemplateMissing(w)
       \/ Hold(w) \/ Admit(w) \/ Provision(w) \/ markReady(w) \/ failAndRollback(w)
  \/ StageImage
  \/ Sync

Spec == Init /\ [][Next]_vars

\* The cluster's own loops run, and a Workspace that is waiting, being
\* provisioned or being deleted is looked at again every pollInterval.  The
\* evacuation asked for before the StatefulSet goes succeeds once, and of a
\* former duplicate none is asked for.
Fairness ==
  /\ ConnFairness
  /\ WF_vars(StageImage) /\ WF_vars(Sync)
  /\ \A w \in Workspaces :
       WF_vars(PodStart(w)) /\ WF_vars(Age(w)) /\ WF_vars(Admit(w))
         /\ WF_vars(Provision(w) \/ markReady(w) \/ failAndRollback(w) \/ TemplateMissing(w))
         /\ SF_vars(TearDown(w)) /\ SF_vars(w \in former /\ FinishDelete(w))

FairSpec == Spec /\ Fairness

-----------------------------------------------------------------------------
(* Properties *)

\* The Workspaces admission counts and has admitted fit the node's budget,
\* although the list it adds up trails behind: what a pass cannot see yet
\* cannot have been admitted before it.
CountedFit == Declared({w \in Counted : ws[w].id}) <= Budget

\* The budget bounds what all the volumes on the node declare, as
\* workspacetemplate_types.go has it.  It does not: a Workspace being deleted
\* has its volume until the evacuation is confirmed, a former duplicate gets
\* one without admission, and losing a template leaves one uncounted.
VolumesFit == Declared(volumes) <= Budget

Fits == Declared(Counted) <= Budget

\* Nobody is on any Workspace, and the annotations say so.
Quiet ==
  \A w \in Workspaces :
    Attached(w) = {} /\ ~ssh[w] /\ ~muddled[w] /\ ~ws[w].resume

\* A Workspace that failed for want of a template keeps its Pod.
Stranded == \E w \in Workspaces : ws[w].phase = "Failed" /\ replicas[w] = 1

\* A Workspace held for capacity is admitted once every developer has left
\* and what is declared fits the node, whoever held the quota: the idle stop
\* gives the Pods back.
WaiterAdmitted ==
  Hard > 0 =>
    \A w \in Workspaces :
      (ws[w].life = "live" /\ ~ws[w].id /\ Fits /\ Quiet)
        ~> \/ ws[w].id \/ ws[w].life # "live" \/ w \notin templates
           \/ ~Fits \/ ~Quiet \/ Stranded
=============================================================================
