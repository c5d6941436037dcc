------------------------------ MODULE Workspace ------------------------------
(***************************************************************************)
(* The Workspace Controller's reconcile loop (controller/internal/         *)
(* controller/workspace_controller.go, lifecycle.go, evacuation.go): how a *)
(* Workspace object is provisioned, mirrored, suspended, resumed and       *)
(* destroyed, which Kubernetes objects it creates and deletes on the way,  *)
(* and what becomes of the work on its volume.                             *)
(*                                                                         *)
(* One controller worker runs one pass at a time (the manager's default),  *)
(* and every pass is an action here.  A pass is a sequence of API calls of *)
(* which any may fail and between any two of which the process may die, so *)
(* a pass that creates or deletes several objects carries a parameter: how *)
(* many of its calls took effect.  Users, Pods, the garbage collector and  *)
(* the people and agents writing files run between passes, and during the  *)
(* one call of a pass that takes minutes, the evacuation (variable pass).  *)
(*                                                                         *)
(* A pass lists the Workspaces from the manager's informer cache, which    *)
(* trails the store by any number of writes (variable seen).  Its own      *)
(* object it reads up to date: a pass that starts from a trailing copy,    *)
(* and fails at its first update of the object, is left out.               *)
(*                                                                         *)
(* Time is not counted: whether a Workspace is past its provisioning       *)
(* timeout, idle, or asked to suspend is a choice at each pass.  The       *)
(* conditions and fields no pass of this module reads back (lastActivityAt,*)
(* DestroyCandidate, ResourceWaiting, Evacuated, NodeAvailable, the        *)
(* blackboard entry) are left out.                                         *)
(***************************************************************************)
EXTENDS Naturals, FiniteSets

CONSTANTS
  Workspaces,      \* names of Workspace objects, ordered as names are
  Branches,        \* repository + branch pairs
  Labels,          \* normalised DNS labels
  Branch,          \* spec.repository + spec.branch of each Workspace
  Label,           \* sanitizeDNSLabel of each branch
  None,            \* the empty string and the nil pointer
  MaxWork,         \* bound: changes made to one working directory
  MaxSecond,       \* bound: seconds a creation timestamp can show
  QuietStop,       \* environment: nobody writes while a stop is under way
  TemplateLoss,    \* environment: a WorkspaceTemplate may be removed
  DistinctSeconds  \* environment: no two creations within one second

ASSUME ConstantsAssumption ==
  /\ Workspaces \subseteq Nat
  /\ Branch \in [Workspaces -> Branches]
  /\ Label \in [Branches -> Labels]
  /\ Labels \cap Branches = {}
  /\ None \notin Workspaces \cup Labels \cup Branches
  /\ None \notin Nat
  /\ MaxWork \in Nat
  /\ MaxSecond \in Nat
  /\ QuietStop \in BOOLEAN /\ TemplateLoss \in BOOLEAN
  /\ DistinctSeconds \in BOOLEAN

\* What DeriveResourceName can return: the label of a branch, or that label
\* with the branch's hash, which stands for the branch itself.
Names == Labels \cup Branches

\* The objects a Workspace generates, all under its resource name.
Kinds == {"db", "pvc", "doc", "sts", "route", "cred"}

Phases == {"", "Provisioning", "Ready", "Suspended", "Failed", "Terminating"}

\* deleting: a DeletionTimestamp is set and a finalizer holds the object.
Lives == {"unborn", "live", "deleting", "gone"}

VARIABLES
  ws,        \* the Workspace objects
  res,       \* owner of each generated object, None where there is none
  replicas,  \* spec.replicas of each StatefulSet
  pod,       \* whether each StatefulSet's Pod is running
  work,      \* version of the working directory on each volume
  pass,      \* the evacuation call the worker is blocked in
  second,    \* the API server's clock, in seconds
  seen,      \* the Workspaces as the informer cache lists them
  raced      \* history: names given again before the cache showed their holder

vars == <<ws, res, replicas, pod, work, pass, second, seen, raced>>

Snapshots == 0 .. MaxWork

WorkspaceRecord ==
  [life      : Lives,
   finalizer : BOOLEAN,                      \* evacuationFinalizer
   created   : 0 .. MaxSecond,               \* CreationTimestamp
   phase     : Phases,                       \* status.phase
   id        : Names \cup {None},            \* status.workspaceId
   dup       : BOOLEAN,                      \* DuplicateOfExisting is True
   resume    : BOOLEAN,                      \* ResumeRequested is True
   evac      : Snapshots \cup {None}]        \* status.lastEvacuation

\* What a pass reads of the other Workspaces in its list.
ListRecord == [life : Lives, phase : Phases, id : Names \cup {None}]
Entry(r) == [life |-> r.life, phase |-> r.phase, id |-> r.id]

NoPass == [who |-> None, snap |-> 0, stale |-> FALSE]

Unborn ==
  [life |-> "unborn", finalizer |-> FALSE, created |-> 0, phase |-> "",
   id |-> None, dup |-> FALSE, resume |-> FALSE, evac |-> None]

TypeOK ==
  /\ ws \in [Workspaces -> WorkspaceRecord]
  /\ res \in [Names -> [Kinds -> Workspaces \cup {None}]]
  /\ replicas \in [Names -> {0, 1}]
  /\ pod \in [Names -> BOOLEAN]
  /\ work \in [Names -> Snapshots]
  /\ pass \in [who : Workspaces \cup {None}, snap : Snapshots, stale : BOOLEAN]
  /\ second \in 0 .. MaxSecond
  /\ seen \in [Workspaces -> ListRecord]
  /\ raced \subseteq Names

Init ==
  /\ ws = [w \in Workspaces |-> Unborn]
  /\ res = [n \in Names |-> [k \in Kinds |-> None]]
  /\ replicas = [n \in Names |-> 0]
  /\ pod = [n \in Names |-> FALSE]
  /\ work = [n \in Names |-> 0]
  /\ pass = NoPass
  /\ second = 0
  /\ seen = [w \in Workspaces |-> Entry(Unborn)]
  /\ raced = {}

-----------------------------------------------------------------------------
(* Reads *)

WorkerFree == pass.who = None

\* A pass reads its own object up to date.
Current(w) == seen[w] = Entry(ws[w])
Live(w) == WorkerFree /\ Current(w) /\ ws[w].life = "live"
Deleting(w) == WorkerFree /\ Current(w) /\ ws[w].life = "deleting"

isOlder(v, w) ==
  \/ ws[v].created < ws[w].created
  \/ ws[v].created = ws[w].created /\ v < w

\* The other objects, as listed, that ask for the same repository and branch.
Rivals(w) ==
  {v \in Workspaces \ {w} : seen[v].life = "live" /\ Branch[v] = Branch[w]}

\* Mutant of isCanonical: only a rival that is Ready counts.
NoReadyRival(w) == \A v \in Rivals(w) : seen[v].phase # "Ready"

\* findCanonical returns the oldest rival, unless w itself is older.
isCanonical(w) == \A v \in Rivals(w) : isOlder(w, v)

findCanonical(w, c) ==
  /\ c \in Rivals(w)
  /\ \A v \in Rivals(w) \ {c} : isOlder(c, v)
  /\ ~isOlder(w, c)

\* Mutant of Taken: a name is free again as soon as its owner is being
\* deleted.
TakenByLiveOnly(w) ==
  {seen[v].id : v \in {u \in Workspaces \ {w} : seen[u].life = "live"}}

\* Names some other Workspace object carries in its status, as listed.
Taken(w) ==
  {seen[v].id : v \in {u \in Workspaces \ {w} : seen[u].life \in {"live", "deleting"}}}

\* Mutant of DeriveResourceName: collisions are not looked for.
LabelOnly(b, taken) == Label[b]

\* DeriveResourceName: the label, then the hashed label, then an error.
DeriveResourceName(b, taken) ==
  IF Label[b] \notin taken THEN Label[b] ELSE IF b \notin taken THEN b ELSE None

\* Mutant of resolveResourceName: the name is derived anew on every pass.
DerivedAnew(w) == DeriveResourceName(Branch[w], Taken(w))

resolveResourceName(w) ==
  IF ws[w].id # None THEN ws[w].id ELSE DeriveResourceName(Branch[w], Taken(w))

Exists(w) == ws[w].life \in {"live", "deleting"}

\* Names some other Workspace object carries and the list does not show yet.
Unlisted(w) ==
  {ws[v].id : v \in {u \in Workspaces \ {w} : Exists(u) /\ seen[u].id # ws[u].id}}

\* ReadyReplicas >= 1 on the StatefulSet named n.
computeRunning(n) == n # None /\ res[n]["sts"] # None /\ pod[n]

\* runningPodIP: a Pod that carries w's own label and is not being deleted.
runningPodIP(w, n) == res[n]["sts"] = w /\ replicas[n] = 1 /\ pod[n]

-----------------------------------------------------------------------------
(* Writes *)

\* The objects a pass creates and deletes, in the order it does.
CreateOrder == <<"db", "pvc", "doc", "sts", "route", "cred">>
RollbackOrder == <<"sts", "pvc", "db", "route", "doc", "cred">>
DestroyOrder == <<"sts", "db", "pvc">>

First(order, k) == {order[i] : i \in 1 .. k}

\* A live pass leaves w as r, with the finalizer on it.
Write(w, r) == ws' = [ws EXCEPT ![w] = [r EXCEPT !.finalizer = TRUE]]

\* Mutant of Created: the owner reference carries the resource name.
CreatedForName(n, w, kinds) ==
  [res EXCEPT ![n] =
    [k \in Kinds |-> IF k \in kinds /\ res[n][k] = None THEN n ELSE res[n][k]]]

\* ensureCreated: an object that already exists is taken as it is, whoever
\* owns it.
Created(n, w, kinds) ==
  [res EXCEPT ![n] =
    [k \in Kinds |-> IF k \in kinds /\ res[n][k] = None THEN w ELSE res[n][k]]]

ensureCreated(n, w, kinds) ==
  /\ res' = Created(n, w, kinds)
  /\ replicas' = [replicas EXCEPT ![n] =
                    IF "sts" \in kinds /\ res[n]["sts"] = None THEN 1 ELSE @]

\* Deletion is by name, whoever owns the object.  Without its volume a Pod
\* cannot run and its work is gone; without its StatefulSet it is stopped
\* later, by PodStop.
deleted(n, kinds) ==
  /\ res' = [res EXCEPT ![n] = [k \in Kinds |-> IF k \in kinds THEN None ELSE res[n][k]]]
  /\ replicas' = [replicas EXCEPT ![n] = IF "sts" \in kinds THEN 0 ELSE @]
  /\ pod' = [pod EXCEPT ![n] = IF "pvc" \in kinds THEN FALSE ELSE @]
  /\ work' = [work EXCEPT ![n] = IF "pvc" \in kinds THEN 0 ELSE @]

\* scaleStatefulSet tolerates a StatefulSet that is not there.
scaleStatefulSet(n, k) ==
  replicas' = [replicas EXCEPT ![n] = IF res[n]["sts"] = None THEN @ ELSE k]

-----------------------------------------------------------------------------
(* Users and the API server *)

\* Writing the object while a pass is blocked on it makes the pass's next
\* status update a conflict.
Interrupt(w) ==
  pass' = IF pass.who = w THEN [pass EXCEPT !.stale = TRUE] ELSE pass

CreateWorkspace(w) ==
  /\ ws[w].life = "unborn"
  /\ DistinctSeconds =>
       \A v \in Workspaces : ws[v].life # "unborn" => ws[v].created # second
  /\ ws' = [ws EXCEPT ![w].life = "live", ![w].created = second]
  /\ UNCHANGED <<res, replicas, pod, work, pass, second, seen, raced>>

\* Without a finalizer the object goes at once.
DeleteWorkspace(w) ==
  /\ ws[w].life = "live"
  /\ ws' = [ws EXCEPT ![w].life = IF ws[w].finalizer THEN "deleting" ELSE "gone"]
  /\ Interrupt(w)
  /\ UNCHANGED <<res, replicas, pod, work, second, seen, raced>>

MarkActivity(w) ==
  /\ ws[w].life = "live"
  /\ ws' = [ws EXCEPT ![w].resume = @ \/ ws[w].phase = "Suspended"]
  /\ Interrupt(w)
  /\ UNCHANGED <<res, replicas, pod, work, second, seen, raced>>

Tick ==
  /\ second < MaxSecond
  /\ second' = second + 1
  /\ UNCHANGED <<ws, res, replicas, pod, work, pass, seen, raced>>

\* The watch catches up.
Sync ==
  /\ seen' = [w \in Workspaces |-> Entry(ws[w])]
  /\ UNCHANGED <<ws, res, replicas, pod, work, pass, second, raced>>

\* OwnerReference garbage collection of what a vanished Workspace owned.
GarbageCollect(n, k) ==
  /\ res[n][k] # None
  /\ ws[res[n][k]].life = "gone"
  /\ deleted(n, {k})
  /\ UNCHANGED <<ws, pass, second, seen, raced>>

-----------------------------------------------------------------------------
(* Pods, and whoever writes in the working directory *)

PodStart(n) ==
  /\ replicas[n] = 1 /\ ~pod[n]
  /\ res[n]["sts"] # None /\ res[n]["pvc"] # None
  /\ pod' = [pod EXCEPT ![n] = TRUE]
  /\ UNCHANGED <<ws, res, replicas, work, pass, second, seen, raced>>

\* Scaled down, crashed, or lost with its node.
PodStop(n) ==
  /\ pod[n]
  /\ pod' = [pod EXCEPT ![n] = FALSE]
  /\ UNCHANGED <<ws, res, replicas, work, pass, second, seen, raced>>

Stopping(n) == replicas[n] = 0 \/ \E w \in Workspaces : pass.who = w /\ ws[w].id = n

DoWork(n) ==
  /\ pod[n]
  /\ work[n] < MaxWork
  /\ QuietStop => ~Stopping(n)
  /\ work' = [work EXCEPT ![n] = @ + 1]
  /\ UNCHANGED <<ws, res, replicas, pod, pass, second, seen, raced>>

-----------------------------------------------------------------------------
(* Passes of reconcileProvisioning *)

\* A pass that gets no further than the finalizer: reconcileFailed, a first
\* call that fails, a wait for admission, a requeue.
ReconcileIdle(w) ==
  /\ Live(w)
  /\ Write(w, ws[w])
  /\ UNCHANGED <<res, replicas, pod, work, pass, second, seen, raced>>

Unprovisioned(w) == Live(w) /\ ws[w].phase \in {"", "Provisioning"}

mirrorCanonical(w) ==
  /\ Unprovisioned(w)
  /\ \E c \in Workspaces :
       /\ findCanonical(w, c)
       /\ Write(w, [ws[w] EXCEPT
             !.phase = IF seen[c].phase = "" THEN "Provisioning" ELSE seen[c].phase,
             !.id = seen[c].id,
             !.dup = TRUE])
  /\ UNCHANGED <<res, replicas, pod, work, pass, second, seen, raced>>

\* w carries the name n from here on.
Named(w, n) ==
  raced' = IF ws[w].id = None THEN raced \cup ({n} \cap Unlisted(w)) ELSE raced

Provisioning(w) == Unprovisioned(w) /\ isCanonical(w)

\* The pass fixes the resource name and creates the first k objects; routing
\* and credential wait for the Pod.
Provision(w, k) ==
  LET n == resolveResourceName(w) IN
  /\ Provisioning(w)
  /\ n # None
  /\ k >= 5 => computeRunning(n)
  /\ ensureCreated(n, w, First(CreateOrder, k))
  /\ Write(w, [ws[w] EXCEPT !.id = n])
  /\ Named(w, n)
  /\ UNCHANGED <<pod, work, pass, second, seen>>

markReady(w) ==
  LET n == resolveResourceName(w) IN
  /\ Provisioning(w)
  /\ computeRunning(n)
  /\ ensureCreated(n, w, Kinds)
  /\ Write(w, [ws[w] EXCEPT !.id = n, !.phase = "Ready"])
  /\ Named(w, n)
  /\ UNCHANGED <<pod, work, pass, second, seen>>

\* Past the provisioning timeout, or on a template that cannot be built: the
\* first k of the deletions.  A pass that creates something first and then
\* rolls back is Provision followed by this.
RollbackPartly(w, k) ==
  /\ Provisioning(w)
  /\ ws[w].id # None
  /\ deleted(ws[w].id, First(RollbackOrder, k))
  /\ Write(w, ws[w])
  /\ UNCHANGED <<pass, second, seen, raced>>

\* Mutant of failAndRollback: only compute and volume are rolled back.
RollbackSubstrateOnly(w) ==
  /\ Provisioning(w)
  /\ ws[w].id # None
  /\ deleted(ws[w].id, {"sts", "pvc"})
  /\ Write(w, [ws[w] EXCEPT !.phase = "Failed"])
  /\ UNCHANGED <<pass, second, seen, raced>>

failAndRollback(w) ==
  /\ Provisioning(w)
  /\ ws[w].id # None
  /\ deleted(ws[w].id, Kinds)
  /\ Write(w, [ws[w] EXCEPT !.phase = "Failed"])
  /\ UNCHANGED <<pass, second, seen, raced>>

\* failAndRollback with an empty resource name: the template is not there, or
\* a name was looked for and none is free or the list could not be read.
FailWithoutRollback(w) ==
  /\ Provisioning(w)
  /\ TemplateLoss \/ ws[w].id = None
  /\ Write(w, [ws[w] EXCEPT !.phase = "Failed"])
  /\ UNCHANGED <<res, replicas, pod, work, pass, second, seen, raced>>

-----------------------------------------------------------------------------
(* Passes of reconcileReady and reconcileSuspended *)

ReadyPass(w) == Live(w) /\ ws[w].phase = "Ready"

\* The shared document is rendered on every Ready pass.
reconcileClaudeMD(w) ==
  res' = IF ws[w].id = None THEN res ELSE Created(ws[w].id, w, {"doc"})

\* Nothing to stop: not idle and not asked to.
ReconcileReady(w) ==
  /\ ReadyPass(w)
  /\ reconcileClaudeMD(w)
  /\ Write(w, ws[w])
  /\ UNCHANGED <<replicas, pod, work, pass, second, seen, raced>>

\* Idle, or asked to by spec.desiredPhase, with a Pod to ask first: the call
\* to its supervisor begins, and captures the directory as it is.
RequestEvacuation(w) ==
  /\ WorkerFree
  /\ computeRunning(ws[w].id)
  /\ runningPodIP(w, ws[w].id)
  /\ \/ /\ ReadyPass(w)
        /\ reconcileClaudeMD(w)
        /\ Write(w, ws[w])
     \/ /\ Deleting(w) /\ ~ws[w].dup
        /\ ws' = [ws EXCEPT ![w].phase = "Terminating"]
        /\ UNCHANGED res
  /\ pass' = [who |-> w, snap |-> work[ws[w].id], stale |-> FALSE]
  /\ UNCHANGED <<replicas, pod, work, second, seen, raced>>

\* A Pod is running but none answers for w: it stays as it is, until a later
\* pass.
EvacuationRefused(w) ==
  /\ WorkerFree
  /\ computeRunning(ws[w].id)
  /\ ~runningPodIP(w, ws[w].id)
  /\ \/ /\ ReadyPass(w)
        /\ reconcileClaudeMD(w)
        /\ Write(w, ws[w])
     \/ /\ Deleting(w) /\ ~ws[w].dup
        /\ ws' = [ws EXCEPT ![w].phase = "Terminating"]
        /\ UNCHANGED res
  /\ UNCHANGED <<replicas, pod, work, pass, second, seen, raced>>

\* The call fails or times out, the status update conflicts, or the
\* controller dies: nothing is recorded.
EvacuationFails ==
  /\ pass.who # None
  /\ pass' = NoPass
  /\ UNCHANGED <<ws, res, replicas, pod, work, second, seen, raced>>

\* The rest of a stopping pass over the object r: scale down, then record it.
Stop(w, r, k) ==
  /\ IF k >= 1 /\ r.id # None THEN scaleStatefulSet(r.id, 0) ELSE UNCHANGED replicas
  /\ Write(w, IF k = 2 THEN [r EXCEPT !.phase = "Suspended"] ELSE r)
  /\ UNCHANGED <<pod, work, second, seen, raced>>

SuspendEvacuated(w, k) ==
  /\ pass.who = w /\ ~pass.stale
  /\ ws[w].life = "live"
  /\ Stop(w, [ws[w] EXCEPT !.evac = pass.snap], k)
  /\ pass' = NoPass
  /\ UNCHANGED res

\* Mutant of SuspendUnevacuated: compute is not looked at.
SuspendUnasked(w, k) ==
  /\ ReadyPass(w)
  /\ reconcileClaudeMD(w)
  /\ Stop(w, ws[w], k)
  /\ UNCHANGED pass

\* No running compute: evacuateBeforeStop reports it safe to stop.
SuspendUnevacuated(w, k) ==
  /\ ReadyPass(w)
  /\ ~computeRunning(ws[w].id)
  /\ reconcileClaudeMD(w)
  /\ Stop(w, ws[w], k)
  /\ UNCHANGED pass

SuspendedPass(w) == Live(w) /\ ws[w].phase = "Suspended"

\* Mutant of ScaleUp: resuming waits for a replica nobody asks for.
WaitOnly(w) ==
  /\ SuspendedPass(w) /\ ws[w].resume /\ ws[w].id # None
  /\ Write(w, ws[w])
  /\ UNCHANGED <<res, replicas, pod, work, pass, second, seen, raced>>

\* reconcileResume scales up on every pass until a replica is ready.
ScaleUp(w) ==
  /\ SuspendedPass(w) /\ ws[w].resume /\ ws[w].id # None
  /\ scaleStatefulSet(ws[w].id, 1)
  /\ Write(w, ws[w])
  /\ UNCHANGED <<res, pod, work, pass, second, seen, raced>>

reconcileResume(w) ==
  /\ SuspendedPass(w) /\ ws[w].resume
  /\ computeRunning(ws[w].id)
  /\ scaleStatefulSet(ws[w].id, 1)
  /\ Write(w, [ws[w] EXCEPT !.phase = "Ready", !.resume = FALSE])
  /\ UNCHANGED <<res, pod, work, pass, second, seen, raced>>

-----------------------------------------------------------------------------
(* Passes of reconcileTerminating *)

\* A Workspace with no substrate of its own, as far as its status says.
DestroyUnowned(w) ==
  /\ Deleting(w)
  /\ ws[w].id = None \/ ws[w].dup
  /\ ws' = [ws EXCEPT ![w].finalizer = FALSE, ![w].life = "gone"]
  /\ UNCHANGED <<res, replicas, pod, work, pass, second, seen, raced>>

\* Mutant of Teardown: the volume is not gated on a snapshot.
TeardownUngated(w, r, k) ==
  /\ deleted(r.id, First(DestroyOrder, IF k = 4 THEN 3 ELSE k))
  /\ ws' = [ws EXCEPT ![w] =
       IF k = 4 THEN [r EXCEPT !.finalizer = FALSE, !.life = "gone"] ELSE r]
  /\ UNCHANGED <<second, seen, raced>>

\* Mutant of Teardown: the finalizer stays on.
TeardownKeepsFinalizer(w, r, k) ==
  /\ k >= 3 => r.evac # None
  /\ deleted(r.id, First(DestroyOrder, IF k = 4 THEN 3 ELSE k))
  /\ ws' = [ws EXCEPT ![w] = r]
  /\ UNCHANGED <<second, seen, raced>>

\* The rest of a destroying pass over the object r: StatefulSet, database,
\* then, once a snapshot is on record, volume and finalizer.
Teardown(w, r, k) ==
  /\ k >= 3 => r.evac # None
  /\ deleted(r.id, First(DestroyOrder, IF k = 4 THEN 3 ELSE k))
  /\ ws' = [ws EXCEPT ![w] =
       IF k = 4 THEN [r EXCEPT !.finalizer = FALSE, !.life = "gone"] ELSE r]
  /\ UNCHANGED <<second, seen, raced>>

DestroyEvacuated(w, k) ==
  /\ pass.who = w /\ ~pass.stale
  /\ ws[w].life = "deleting"
  /\ Teardown(w, [ws[w] EXCEPT !.evac = pass.snap], k)
  /\ pass' = NoPass

DestroyUnevacuated(w, k) ==
  /\ Deleting(w)
  /\ ws[w].id # None /\ ~ws[w].dup
  /\ ~computeRunning(ws[w].id)
  /\ Teardown(w, [ws[w] EXCEPT !.phase = "Terminating"], k)
  /\ UNCHANGED pass

-----------------------------------------------------------------------------
Environment ==
  \/ \E w \in Workspaces : CreateWorkspace(w) \/ DeleteWorkspace(w) \/ MarkActivity(w)
  \/ \E n \in Names : PodStart(n) \/ PodStop(n) \/ DoWork(n)
  \/ \E n \in Names, k \in Kinds : GarbageCollect(n, k)
  \/ Tick
  \/ Sync

Reconcile(w) ==
  \/ ReconcileIdle(w)
  \/ mirrorCanonical(w)
  \/ \E k \in 0 .. 6 : Provision(w, k)
  \/ markReady(w)
  \/ \E k \in 1 .. 6 : RollbackPartly(w, k)
  \/ failAndRollback(w)
  \/ FailWithoutRollback(w)
  \/ ReconcileReady(w)
  \/ RequestEvacuation(w)
  \/ EvacuationRefused(w)
  \/ \E k \in 0 .. 2 : SuspendEvacuated(w, k)
  \/ \E k \in 1 .. 2 : SuspendUnevacuated(w, k)
  \/ ScaleUp(w)
  \/ reconcileResume(w)
  \/ DestroyUnowned(w)
  \/ \E k \in 0 .. 4 : DestroyEvacuated(w, k)
  \/ \E k \in 0 .. 4 : DestroyUnevacuated(w, k)

Next ==
  \/ Environment
  \/ EvacuationFails
  \/ \E w \in Workspaces : Reconcile(w)

Spec == Init /\ [][Next]_vars

-----------------------------------------------------------------------------
(* Properties *)

DistinctBranches == \A v, w \in Workspaces : v # w => Branch[v] # Branch[w]

SharedName(n) == \E v, w \in Workspaces : v # w /\ Exists(v) /\ Exists(w) /\ ws[v].id = n /\ ws[w].id = n

\* naming.go: "different branches that normalize to the same label still get
\* distinct, stable names".  Not so while the list a name is looked up in
\* trails the pass that gave it to another Workspace.
UniqueIds == \A n \in Names : ~SharedName(n)

\* A trailing list is the only way two Workspace objects come to carry one
\* resource name (resolveResourceName): not labels that collide, nor names
\* freed and taken again while their old holder is being deleted.
SharedOnlyIfRaced == \A n \in Names \ raced : ~SharedName(n)

\* Every generated object is found under the name its owner remembers, so
\* that teardown by name reaches all of an owner's objects.
OwnerKnowsName ==
  \A n \in Names, k \in Kinds : res[n][k] # None => ws[res[n][k]].id = n

\* A Workspace that is Ready or Suspended has its own volume and its own
\* StatefulSet: no other Workspace's rollback, destruction or collection
\* takes them away, unless its name was given to both from a trailing list.
RunningHasSubstrate ==
  \A w \in Workspaces :
    ws[w].life = "live" /\ ws[w].phase \in {"Ready", "Suspended"} =>
      /\ ws[w].id # None
      /\ ws[w].id \notin raced =>
           res[ws[w].id]["pvc"] = w /\ res[ws[w].id]["sts"] = w

\* failAndRollback: a Workspace that failed has left nothing behind.
RollbackComplete ==
  \A w \in Workspaces :
    ws[w].life = "live" /\ ws[w].phase = "Failed" =>
      \A n \in Names, k \in Kinds : res[n][k] # w

\* Two live Workspaces never both own a volume for one repository and branch
\* (findCanonical).
BranchExclusive ==
  \A v, w \in Workspaces :
    /\ v # w /\ Branch[v] = Branch[w]
    /\ ws[v].life = "live" /\ ws[w].life = "live"
    => ~ \E m, n \in Names : res[m]["pvc"] = v /\ res[n]["pvc"] = w

\* The volume n of the Workspace w disappears in this step.
PvcRemoved(n, w) == res[n]["pvc"] = w /\ res'[n]["pvc"] = None

RollingBack(w) == ws[w].life = "live" /\ ws[w].phase \in {"", "Provisioning"}

PvcGatedStep ==
  \A n \in Names, w \in Workspaces :
    PvcRemoved(n, w) /\ n \notin raced' =>
      \/ RollingBack(w)
      \/ ws[w].life \in {"deleting", "gone"} /\ ws'[w].evac # None

\* The finalizer's promise (evacuation.go): a volume disappears only while
\* its owner is still provisioning or, once its owner is being destroyed,
\* after a snapshot of its working directory was recorded.  A name given to
\* two Workspaces from a trailing list is the exception.
PvcGated == [][PvcGatedStep]_vars

FinalizerHeldStep ==
  \A w \in Workspaces :
    /\ ws[w].life # "gone" /\ ws'[w].life = "gone"
    /\ \E n \in Names : res[n]["pvc"] = w /\ work[n] > 0
    => ws'[w].evac # None

\* evacuationFinalizer: a Workspace object whose volume holds work does not
\* vanish before a snapshot of its working directory was recorded.
FinalizerHeld == [][FinalizerHeldStep]_vars

CapturedStep ==
  \A n \in Names, w \in Workspaces :
    PvcRemoved(n, w) /\ ws[w].life \in {"deleting", "gone"} =>
      ws'[w].evac = work[n]

\* What the destroy gate stands for (EvacuationConfirmer): the snapshot on
\* record when a destroyed Workspace's volume disappears holds the most
\* recent state of the working directory.
ConfirmedMeansCaptured == [][CapturedStep]_vars

StopEvacuatedStep ==
  \A n \in Names :
    pod[n] /\ replicas[n] = 1 /\ replicas'[n] = 0 =>
      \E w \in Workspaces :
        ws[w].id = n /\ (RollingBack(w) \/ ws'[w].evac = work[n])

\* No running Pod is stopped, by scaling down or by deleting its StatefulSet,
\* before what its working directory holds was captured (evacuateBeforeStop);
\* a rollback is the exception.
StopEvacuated == [][StopEvacuatedStep]_vars

-----------------------------------------------------------------------------
(* The worker polls: every waiting pass is requeued at a fixed interval, so  *)
(* a pass that can succeed again and again is not missed for ever, and       *)
(* evacuations and Pod starts that keep being tried succeed in the end.  A   *)
(* Pod whose StatefulSet is scaled down or gone is stopped in the end, and   *)
(* the cache catches up with the store.                                      *)
Fairness ==
  /\ \A w \in Workspaces :
       /\ WF_vars(DestroyUnowned(w))
       /\ SF_vars(RequestEvacuation(w) /\ ws[w].life = "deleting")
       /\ SF_vars(DestroyEvacuated(w, 4))
       /\ SF_vars(DestroyUnevacuated(w, 4))
       /\ SF_vars(ScaleUp(w))
       /\ SF_vars(reconcileResume(w))
  /\ WF_vars(EvacuationFails)
  /\ WF_vars(Sync)
  /\ \A n \in Names :
       /\ WF_vars(PodStart(n))
       /\ WF_vars(PodStop(n) /\ replicas[n] = 0)

FairSpec == Spec /\ Fairness

\* The destruction of a Workspace that has nothing of its own, or of which a
\* snapshot was recorded, completes whatever crashes and failures delay it
\* (reconcileTerminating).
DestroyCompletes ==
  \A w \in Workspaces :
    (/\ ws[w].life = "deleting"
     /\ ws[w].evac # None \/ ws[w].id = None \/ ws[w].dup) ~> ws[w].life = "gone"

\* A resume that was asked for is carried out, unless the Workspace is
\* deleted (reconcileResume).
ResumeCompletes ==
  \A w \in Workspaces :
    (ws[w].phase = "Suspended" /\ ws[w].resume) ~>
      (ws[w].phase = "Ready" \/ ws[w].life # "live")
=============================================================================
