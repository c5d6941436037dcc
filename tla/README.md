# Verification of devplatform

devplatform gives every branch of a repository an isolated workspace on a
Kubernetes cluster, in which Claude Code sessions run. These TLA+ modules model
its control logic from the Go source, TLC checks them on small instances, and
TLAPS proves the main results for every instance.

## The system

| component | state | operations | talks to |
|---|---|---|---|
| **Workspace reconciler** (`controller/internal/controller/workspace_controller.go`, `lifecycle.go`, `evacuation*.go`, `naming.go`) | `Workspace` objects: phase, `workspaceId`, conditions, `lastEvacuation`, finalizer | provision, mirror, roll back, suspend, resume, destroy | API server, each Pod's supervisor (evacuate), the adapters |
| **Builders and adapters** (`resources.go`, `*_reconciler.go`, `internal/adapter`) | StatefulSet, PVC, database, ConfigMap, routes, Secret of a Workspace, all under its resource name | create unless it exists, delete by name | API server |
| **Task Queue and Quota Governor** (`taskqueue.go`, `quota.go`) | `TaskRequest` objects, the stop in force | dispatch, hold, stop, switch model | API server through the informer cache, supervisors (usage) |
| **Admission, idle detection, blackboard** (`admission.go`, `connections.go`, `blackboard.go`, `conflict.go`, `claudemd.go`) | conditions and the blackboard entry of a Workspace | hold a provisioning, keep a Workspace awake, publish and compare changed files | nodes, quotas, supervisors |
| **Terminal Gateway** (`gateway/internal/gateway`) | open connections per session, users, session keys, SSH CA | attach, hand over writing, report connections, log in, change password, bootstrap | supervisors, Secrets, `Workspace` annotations |
| **Session Supervisor** (`supervisor/internal/session`) | the writable hold, the tmux clients, the transcript's turn state | hold, release, send input, supervise the process | tmux, the gateway, the controller |
| **Evacuation Agent** (`supervisor/internal/evacuation`) | bundle and archive in object storage | evacuate, restore | git, object storage |
| **Test runner, self-heal, database bootstrap** (`supervisor/internal/testrun`, `dbboot`) | attempt count, marker files | run, narrow, retry; wait, seed | the session, the database |

What is hard in it: passes are sequences of API calls of which each may fail or
be the last before a crash; passes of several Workspaces interleave over objects
found by name; one call, the evacuation, takes minutes; decisions rest on
conditions, snapshots and cached lists that may be out of date; and every wait
relies on a requeue. `PROJECT.json` lists the hazards one by one, at the lines
where they bite.

What makes each part correct:

- *Workspace reconciler*: a resource name belongs to one Workspace, as far as a
  cached list can tell; rollback and destruction reach what is theirs and nothing
  else; a volume goes only while its owner is provisioning or after its working
  directory was captured; a running Pod is not stopped before that either; resume
  and destruction complete; a branch has one working directory.
- *Task queue*: no more tasks than slots, but for what the cache has not shown;
  oldest first; each task handed out once; none forgotten; a model switched to is
  the model that runs.
- *Handover*: nobody types over a browser that was handed the session; who was
  told it is the writer has the supervisor's hold; there is one holder; a hold
  should not outlive its browser, and may.
- *Connections, admission*: the count the controller reads settles at the
  gateway's; an idle stop spares who is there and is finished once begun; what
  admission counts fits the node; who waits for capacity gets it.
- *Blackboard*: a conflict is not announced twice in a row; entries, documents and warnings
  become right.
- *Evacuation Agent*: work that an undisturbed evacuation covered survives the
  node, until a disturbed one replaces the snapshot.
- *Session, self-heal*: a workspace reported usable is; a verified run ran what
  failed; the loop does not run for turns of its own that its baseline shows, and
  waits for no answer for ever.
- *Identity*: replicas agree on keys; the initial credential works; a password
  change is kept and ends older sessions.

## Modules

### Workspace

One action per pass of the reconcile loop. The controller has one worker, so
passes do not overlap; but any call of a pass may fail, and the process may die
between two. A pass that creates or deletes several objects therefore takes a
parameter: how many of its calls took effect (`Provision(w, k)`,
`RollbackPartly(w, k)`, `Stop(w, r, k)`, `Teardown(w, r, k)`). `CreateOrder`,
`RollbackOrder` and `DestroyOrder` are the orders of the calls in
`reconcileProvisioning`, `failAndRollback` and `reconcileTerminating`. The one
call during which the rest of the world goes on is the evacuation; `pass` holds
the Workspace, the version of the directory captured and whether somebody wrote
the object meanwhile, which makes the status update that follows a conflict.

The other Workspaces a pass reads from the manager's cache: `seen` is the list as
the cache has it, and `Sync` brings it up to date at any later time. So
`deriveID` avoids the names the list shows (`Taken`), and two branches with one
label get one name when the list does not show yet what the pass before has
written. `raced`, a history, collects the names given while their holder was not
listed. Its own object a pass reads up to date (`Current`): from a trailing copy
its first status update would conflict, and the pass would have to be tried
again; what it would have done before that update is left out.

| state | in the code |
|---|---|
| `ws[w]` | the `Workspace` object: `life` and `finalizer` are its metadata, `created` its `CreationTimestamp`, `phase`, `id` and `evac` are `status.phase`, `.workspaceId` and `.lastEvacuation`, `dup` and `resume` the conditions DuplicateOfExisting and ResumeRequested |
| `res[n][k]` | the owner of the object of kind `k` under the resource name `n` |
| `replicas`, `pod` | `spec.replicas` of the StatefulSet and its ready replica |
| `work` | the version of the working directory on a volume |
| `second` | the API server's clock at the resolution of a `CreationTimestamp` |
| `seen` | life, phase and name of each Workspace as the informer cache lists them |

Deletion is by name, whoever owns the object, and creation leaves an existing
object as it is, whoever owns it, as in the code. `Names` is what
`DeriveResourceName` can return: a branch's normalised label, or label and hash,
for which the branch itself stands. Users create, delete and wake Workspaces; the
garbage collector, Pods starting and stopping and the people and agents who write
files are the external part.

Time is not counted. Being past the provisioning timeout, being idle and being
asked to suspend are choices at each pass, so all timings are covered.

### TaskQueue

One action for the beginning of a pass (the list, the count, the sort), one for
each visit to a pending task, one for the end. Between them tasks finish, are
submitted and deleted, and workspaces change phase. `seen` is the informer cache
and `events` the writes it has yet to see, at most `MaxLag` of them. A
write succeeds only when the copy listed is still the object stored (`Current`),
which is the API server's conflict check; otherwise the pass ends in an error.
The pass keeps the copies it listed and the tasks it passed over for their
workspace (`skipped`). A reading of the quota is one of five: none, fine, an
authentication error, a model's window spent, an account-wide window spent; a run
names the `Readings` it covers. `env` is the model in a
StatefulSet, which `buildStatefulSet` writes once.

### Handover

One gateway, one supervisor, one session. A browser's promotion is kept twice:
`writable` is the gateway's `browserSessions`, `held` the supervisor's
`Supervisor.held`. A `POST /handover` is four actions, one for each moment
another actor can get in: `Ask` (tmux's clients), `AskHeld` (the holds),
`Promote` (under the gateway's mutex), `Declare` or `DeclareFails`. A socket
that closes reads its flag (`EndSocket`), releases (`Release`, `ReleaseFails`)
and detaches. An `/input` request is `Type`, `TypeHeld`, `Paste`: the list of
tmux's clients, the holds, the text. `GatewayCrash` and `SupervisorRestart` lose
one side of the bookkeeping each. Histories: `granted` and `since` record to
whom the session was handed since an input began; `leaked` the holds that no
later step of the gateway releases, which `OneHolder` does not count: the gateway
has forgotten them, and `HoldsEnd` shows that they exist.

### DurableWork, Evacuation

`DurableWork` is the promise: work a completed evacuation covered is there after
the node is lost. `Evacuation` implements it (`KeepsPromise`, with `Recoverable`
and `assured` as the refinement mapping): the working tree (`dirty`, `commits`,
`remote`, `tracked`), the two objects (`bundle`, `archive`), the two evacuations
that may be under way (`WatchTurns` after a turn, `EvacuateWhenSettled` for
`POST /evacuate`), each as capture of the bundle, capture of the archive, upload,
upload, any of which may be the last; and the way back: `Clone` of the init
script, `RestoreBundle`, `RestoreArchive`, `RestoreFails`.

No lock keeps the two evacuations apart and nothing keeps commits out, so they
overlap freely. An evacuation is `disturbed` by a commit between its captures, by
the other one at the same time, or by a tree that a failed restore left without
the snapshot (`unrestored`). The history `promised` is what all answered
evacuations had started from, which `SafelyOffNode` and `Reconstructed` are
about, and false; `assured` is the part that undisturbed evacuations covered
since a disturbed one last uploaded. A failed restore takes nothing from
`assured`: the objects still have it, the store must keep it, and it is lost when
the next evacuation, disturbed because of the failure, replaces them. That upload
alone is `DurableWork`'s `Forfeit`.

### Session, SelfHeal

`Session` is one pod: the init container's database bootstrap (`Migrate`,
`Seed`, `Bootstrapped`), the usability marks of `health.go`, one file for each
check, the Claude Code process with what was pasted into it (`typed`), the turn
state of the transcript (`record`), the crash flag (`failure`), and `Request`,
which takes a snapshot of the turn state, pastes a prompt, and waits for another
end. `SelfHeal` extends it with the loop of `heal.go` and the runs of
`runner.go`; a run's outcome is any set of failing tests or that it reached no
test. Histories: `verdict` and `unwritten` (what each check last found, and
whether the volume took its mark), `owed` (tests that failed and passed in no
later run), `foreign` (a turn the loop did not ask for completed since its
baseline) and `basis` (the baseline was read with every turn of the process on
record, too early, or not at all). A mark that is there and cannot be read, which
`Status` passes over (`health.go:68-71`), is left out.

### Identity

Replicas of the gateway, their start-up one call at a time in the order of
`main`: authority's key, its public half, administrator, credential, session
key. `Crash` at any point; `CAFails` for the part whose errors are tolerated.
`mutate` is a read (`Look`) and a conditional write (`Written`), tried
`MaxRetries` times, for the administrator and for password changes alike.
Values drawn at random carry the number of the start that drew them. The
credential of an earlier deployment may be in its Secret from the start (`Old`),
so that creating it meets AlreadyExists. `Login` stands for `Verify` and `Issue`
at the moment of the second: a token carries nothing of the password, and a
stored user stays, so a change between the two is one before the action.
Histories: `latest`, `revoked`, `orphaned`.

### Connections, Admission

`Connections` is the idle stop: the gateway's sockets count under a mutex and
report after it (`Launch`, `SetBrowserConnections`, `ReportLost`), so counts may
overtake one another; the worker's pass over a Ready Workspace is `BeginStop`,
`Evacuated`, `scaleStatefulSet`, `RecordSuspended`, and a write of the object in
between (`Touched`) makes its next update a conflict. `Admission` extends it with
the passes over a Workspace that is provisioning, the three gates of
`admission.go` and the caches they read, and with what makes a volume one that
nobody counts: a Workspace being deleted keeps its volume from `DeleteWorkspace`
through `TearDown` to `FinishDelete`, when its evacuation is confirmed; a former
duplicate (`Inherit`) provisions with its condition still set and without
admission; a template may be deleted (`DeleteTemplate`), and past the timeout
`TemplateMissing` then fails the Workspace and leaves what it has. `listed` and
`known` are the Workspaces and templates as cached. The composition is what makes
`WaiterAdmitted` a statement: capacity comes back only through the idle stop.
Histories: `last` and `muddled` say whether the latest report was the last to
land.

### Blackboard

A Ready pass is `syncBlackboard`, `reconcileClaudeMD`, `reconcileFileConflicts`,
over the objects (`board`) and a cached list of them (`seen`) that trails. A pass
may die between recording a warning and sending it (`DiesBeforeNotify`).
Histories: `told` and `died`.

### MC modules

The instances: functions that assign branches, labels, sockets and sizes, and
symmetry sets.

### The `*Proofs` modules

`WorkspaceProofs`, `TaskQueueProofs`, `EvacuationProofs`, `HandoverProofs`,
`IdentityProofs`, `SelfHealProofs` (with `Session`), `AdmissionProofs` (with
`Connections`) and `BlackboardProofs` extend the module they are named after and
hold its theorems, its inductive invariant and their lemmas.

## Runs

| run | instance | checks |
|---|---|---|
| `workspace_distinct` | 2 Workspaces, 2 branches, 1 label, a list that trails | `TypeOK`, `SharedOnlyIfRaced`, `OwnerKnowsName`, `RunningHasSubstrate`, `RollbackComplete`, `PvcGated` |
| `workspace_shared` | 2 Workspaces, 1 branch, different seconds, a list that trails | `BranchExclusive` |
| `workspace_liveness` | 1 Workspace whose directory changes twice, fair | `StopEvacuated`, `DestroyCompletes`, `ResumeCompletes` |
| `taskqueue` | 2 tasks, 2 workspaces, 1 slot, lag 1, fair | `InOrder`, `QueueDrains` |
| `taskqueue_stale` | 3 tasks, 1 workspace, 2 models, lag 1 | `TypeOK`, `OverrunBounded`, `HandedOutOnce` |
| `handover` | 2 browsers, 2 requests, 1 agent, 1 SSH developer, 2 inputs | `TypeOK`, `NoTypingOver`, `PromotedHeld`, `OneHolder` |
| `evacuation` | 2 units of work, 2 triggers | `TypeOK`, `StoreCovers`, `KeepsPromise` |
| `selfheal` | 1 unit and 2 E2E tests, 2 attempts, 3 turns, 1 exit, 1 restart, fair | `TypeOK`, `UsableIsTrue`, `VerifiedRan`, `SettledTurnsIgnored`, `HealEnds` |
| `identity` | 2 replicas, 2 starts, 2 changes, 2 users | `TypeOK`, `AnyReplicaAccepts`, `SessionsRevoked`, `CertificatesTrusted`, `InitialCredentialWorks`, `ChangesKept` |
| `connections` | 1 Workspace, 2 sockets, SSH, fair | `CountSettles`, `StopSparesHolders`, `HalfStopHeals` |
| `admission` | 2 Workspaces, 1 Pod, 1 volume; one of them may be deleted, lose its template or be a former duplicate; fair | `CountedFit`, `WaiterAdmitted` |
| `blackboard` | 2 Workspaces, 1 file, 3 changes, 1 death, fair | `RepeatsNothing`, `EventuallyConsistent` |

All of these hold. What each property says, and of which code, is in the comment
above it.

### Known violations

What comments of the code say of it and what it does not do. Each has a
configuration of its own beside the modules, with the instance it takes and one
property, that makes TLC print the behaviour:

| behaviour | configuration, property |
|---|---|
| A branch gets the name another's has just been given, because it is looked up in a cached list (`workspace_controller.go:402`, against `naming.go:20-22`). | `WorkspaceNames.cfg`, `UniqueIds` |
| DuplicateOfExisting is never cleared (`lifecycle.go:347`). A duplicate whose original is gone provisions for itself and is still destroyed as a duplicate, without an evacuation, against `evacuation.go:25`. | `WorkspaceDuplicate.cfg`, `FinalizerHeld` |
| It does so under the original's name, and its rollback deletes the original's volume while that one waits for its evacuation (`workspace_controller.go:396`, against `evacuation.go:3-4`). | `WorkspaceInheritedName.cfg`, `PvcGated` |
| A Workspace whose template disappears fails without rollback (`workspace_controller.go:228`, against 436). | `WorkspaceTemplateLoss.cfg`, `RollbackComplete` |
| Any snapshot ever recorded opens the destroy gate (`evacuation_request.go:98`, against `evacuation.go:48`). | `WorkspaceStaleSnapshot.cfg`, `ConfirmedMeansCaptured` |
| A pass that lists a trailing cache gives out a slot too many (`taskqueue.go:133`, against 129). | `TaskQueueLag.cfg`, `LimitHeld` |
| A model switch never reaches a session that exists (`resources.go:273`, against `taskqueue.go:260`). | `TaskQueueModel.cfg`, `SwitchTakesEffect` |
| A hold stays in the supervisor when its socket is gone: the release is lost, comes before the declaration, or the gateway dies (`handover.go:164`, against the supervisor's `http.go:68`). | `HandoverHolds.cfg`, `HoldsEnd` |
| A commit between an evacuation's two captures is in neither object, and overlapping evacuations leave a mixed pair, and `POST /evacuate` answers all the same (`snapshot.go:79`, against the supervisor's `main.go:305`). | `EvacuationOffNode.cfg`, `SafelyOffNode` |
| A restore that fails is never tried again, and the next evacuation overwrites the objects it did not restore (`resources.go:193`, against `restore.go:18`). | `EvacuationLost.cfg`, `Reconstructed` |
| A fix request meets its deadline, the loop re-baselines, and its own prompt is answered afterwards: that turn starts a session (`heal.go:95`, against 93). | `SelfHealOwnTurns.cfg`, `OwnTurnsIgnored` |
| A former duplicate provisions a volume that the budget counts nowhere, and volumes exceed it (`admission.go:241`, against 213 and `workspacetemplate_types.go:33`). | `AdmissionVolumes.cfg`, `VolumesFit` |

Where one fails, a run above checks what does hold: `SharedOnlyIfRaced`,
`OverrunBounded`, `PromotedHeld`, `StoreCovers`, `SettledTurnsIgnored`,
`CountedFit`. One more depends on the repository under test: a step name given to
the E2E filter matches no test, and where a runner exits 0 for that, it is
reported as verified (`heal.go:183`); with `EmptyPasses = TRUE` in `SelfHeal.cfg`
TLC finds `VerifiedRan` violated.

Seen while modelling, with no property: an SSH session opened during an
evacuation is cut off, because unlike a browser it writes nothing that could
conflict (`lifecycle.go:120`); two Workspaces that wait for the disk budget count
each other (`admission.go:235`); waiting for admission counts towards the
provisioning timeout although `admission.go:12-15` says otherwise
(`workspace_controller.go:430`); nothing but tests calls `MarkActivity`
(`lifecycle.go:68`), so the shipped program resumes no Workspace; inputs share one
tmux buffer (`tmux.go:121`); a browser whose declaration's answer was lost is
refused by its own hold (`handover.go:133`); the loop keeps its old baseline when
it cannot read the turn it re-baselines on (`heal.go:95`); the credential of an
earlier deployment's administrator is left in place, and the new one's drawn
password is published nowhere, although the comment there takes AlreadyExists for
a lost race (`identity_bootstrap.go:117-122`); conflicts are told apart by branch
name only (`conflict.go:43`); a Pod that restarts empties its entry and the
conflict is announced again (`blackboard.go:60`); two replicas that replace a
stale public key at once leave one without certificates
(`sshca_bootstrap.go:99`); a crash between seed and marker seeds again
(`dbboot.go:82`); a task may be dispatched to a Workspace that left Ready during
the usage call (`taskqueue.go:170`).

**Bounds.** Two Workspaces suffice for a collision, a mirror, an inherited name
and a teardown that hits another's objects. The runs over two Workspaces have
`MaxWork = 0`, since nothing they ask depends on what a directory holds;
`workspace_liveness` has `MaxWork = 2`, so that a directory changes after its last
snapshot and again after the next. `MaxSecond = 1` gives an older and a younger Workspace. Two tasks
on two workspaces with one slot give a task held for its slot, one held for its
workspace and one that may overtake; a third task lets the limit be passed by
one, as a lag of one write allows, and a second would show as a violation of
`OverrunBounded`. That lag is enough for every stale copy of one object;
`TaskQueueLag.cfg` has a lag of two. Workspaces and tasks are numbered, and their
order is used, so no symmetry is declared.

Two browsers and two requests are the least with which two promotions race; two
inputs under way, that one is checked before and one after a handover. Two units
of work can be on different sides of any capture, upload or push; they are alike,
and `evacuation` declares them so. Two attempts narrow what was narrowed before;
one exit and one restart give every path; three turns are a turn that starts a
session and the answers to two fixes, or one and the probe's, and the loop's last
attempt is reached. Two starts make two replicas race or one
replace the other; two rounds of `mutate` a retry. In `admission` the node has
room for one volume and the namespace for one Pod: of two Workspaces that are
counted one waits for the budget, and one waits for the quota alone when the
other, which holds it, is being deleted, has lost its template after it ran, or
is a former duplicate. Two sockets are needed for counts to overtake. Two
branches and one file are the smallest conflict, and three changes begin it, end
it and begin it again. Replicas, changes and users other than the administrator
are interchangeable, so `identity`, which checks invariants only, declares
symmetry.

`QuietStop` (nobody writes between capture and stop) is on where `StopEvacuated`
and `ConfirmedMeansCaptured` are checked, so that they speak of the controller;
what is written in that window is in no snapshot (`evacuation.go:117`), whatever
the controller does. `DestroyCompletes` and `ResumeCompletes` share a run with it
and hold without it as well. `TemplateLoss` separates the run that holds from the
configuration that shows why it is assumed.
`DistinctSeconds` is needed for `BranchExclusive`: a `CreationTimestamp` has
whole seconds, and of two Workspaces for one branch created within one second the
later may come first by name, be canonical after the earlier has provisioned, and
provision as well (`isOlder`). Without the assumption TLC finds that behaviour.
Workspace runs do not check deadlock: once every Workspace is gone nothing
remains to do; `connections` and `admission` do not for the same reason.

**Fairness.** Every waiting branch of a pass returns a requeue interval or an
error, and either puts the object back in the work queue, so a pass that can
succeed is tried again and again: weak fairness of the steps that stay possible,
strong fairness of those a crash, a conflict or another pass interrupts. Pods
whose StatefulSet asks for one start, and stop when it does not. The
caches catch up. For the queue:
the work queue hands out what is in it, a task that holds a
slot ends, and some later reading finds a spent quota refilled. Nothing is
assumed of users, of crashes or of the order of other steps.

In `SelfHeal` the loop's own goroutine runs and a request meets its deadline; no
turn need ever end, and no command of a suite either: the runner waits for it
without a timeout (`runner.go:176-184`), so fairness leaves out the steps that
await one, and `HealEnds` says that a session ends or hangs there. In
`Connections` and `Admission` the gateway's reports return (they carry a timeout
of five seconds), a bridge to a Pod that is gone fails, time passes, and passes
are repeated every `idleCheckInterval` or `pollInterval`; strong fairness of the
three calls of a stop and of a teardown, because a report, a failed call or
another Workspace's pass may interrupt each of them, though not for ever. An
evacuation that is asked for at a deletion may never be confirmed, so
`FinishDelete` is fair only for a former duplicate, which waits for none. In
`Blackboard` the watch delivers, passes are repeated, and a supervisor asked
again and again answers at some time with what it has then.

## Proofs

Every safety property a run checks, invariant or action property, is a theorem,
and so is the refinement. They rest on the `ASSUME`s beside the `CONSTANTS`,
which say that numbers are numbers and that `None` is none of the values it
stands beside, so they hold for any number of Workspaces, branches, tasks,
replicas, browsers, sockets, tests, files and so on, and any bound:

| theorem | condition | says |
|---|---|---|
| `WorkspaceProofs!TypeCorrect` | | `Spec => []TypeOK` |
| `WorkspaceProofs!NamesSharedOnlyIfRaced` | distinct branches | `Spec => []SharedOnlyIfRaced` |
| `WorkspaceProofs!ObjectsFound` | distinct branches | `Spec => []OwnerKnowsName` |
| `WorkspaceProofs!SubstrateKept` | distinct branches | `Spec => []RunningHasSubstrate` |
| `WorkspaceProofs!VolumeGated` | distinct branches | `Spec => PvcGated` |
| `WorkspaceProofs!RollbackLeavesNothing` | distinct branches, `~TemplateLoss` | `Spec => []RollbackComplete` |
| `WorkspaceProofs!StopCaptures` | distinct branches, `QuietStop` | `Spec => StopEvacuated` |
| `WorkspaceProofs!BranchOwnedOnce` | `DistinctSeconds` | `Spec => []BranchExclusive` |
| `TaskQueueProofs!TypeCorrect` | | `Spec => []TypeOK` |
| `TaskQueueProofs!OnceOnly` | | `Spec => HandedOutOnce` |
| `TaskQueueProofs!OverrunIsBounded` | | `Spec => []OverrunBounded` |
| `TaskQueueProofs!OrderKept` | | `Spec => InOrder` |
| `EvacuationProofs!TypeCorrect` | | `Spec => []TypeOK` |
| `EvacuationProofs!StoreAlwaysCovers` | | `Spec => []StoreCovers` |
| `EvacuationProofs!ImplementsDurableWork` | | `Spec => KeepsPromise`, that is `DurableWork` |
| `HandoverProofs!TypeCorrect` | | `Spec => []TypeOK` |
| `HandoverProofs!NobodyTypesOver` | | `Spec => []NoTypingOver` |
| `HandoverProofs!PromotionsAreHeld` | | `Spec => []PromotedHeld` |
| `HandoverProofs!SingleHolder` | | `Spec => []OneHolder` |
| `IdentityProofs!TypeCorrect` | | `Spec => []TypeOK` |
| `IdentityProofs!SessionsShared` | | `Spec => []AnyReplicaAccepts` |
| `IdentityProofs!OldSessionsRefused` | | `Spec => []SessionsRevoked` |
| `IdentityProofs!CertificatesAlwaysTrusted` | | `Spec => []CertificatesTrusted` |
| `IdentityProofs!CredentialAlwaysWorks` | | `Spec => []InitialCredentialWorks` |
| `IdentityProofs!ChangesAlwaysKept` | | `Spec => []ChangesKept` |
| `SelfHealProofs!TypeCorrect` | | `Spec => []TypeOK` |
| `SelfHealProofs!UsableAlwaysTrue` | | `Spec => []UsableIsTrue` |
| `SelfHealProofs!VerifiedAlwaysRan` | `FilterFails` | `Spec => []VerifiedRan` |
| `SelfHealProofs!SettledAlwaysIgnored` | | `Spec => SettledTurnsIgnored` |
| `AdmissionProofs!CountedAlwaysFit` | | `Spec => []CountedFit` |
| `AdmissionProofs!CountAlwaysSettles` | | `Spec => []CountSettles` |
| `AdmissionProofs!StopAlwaysSpares` | | `Spec => StopSparesHolders` |
| `BlackboardProofs!ToldOnce` | | `Spec => RepeatsNothing` |

The conditions are needed: the configurations under Known violations, and the
paragraph on `QuietStop` and `DistinctSeconds` under Bounds, drop them.
`FilterFails` says that where a filter is configured, one that matches no test
does not exit 0.

*Workspace.* The theorems about distinct branches share one inductive invariant,
`Inv`. A name that `deriveID` returns is not among those the list shows, so if
another Workspace carries it, the list does not show it there, and the name is in
`raced`: that gives `SharedOnlyIfRaced`, with `NamelessAtFirst` (creation must
not bring back a name) and `Listed` (the list shows no name before its holder has
one, and takes nobody for gone who is not). `RunningHasSubstrate` needs
`SharedOnlyIfRaced`, `OwnerKnowsName` and `SubstrateOwned`: the object found
under a Workspace's name has an owner that still exists and carries that name, so
it is the Workspace itself, unless the name is in `raced`; and hence a deletion
by another's name misses it. `PassReady` and `PassNamed` say what remains true of
a Workspace while the worker is blocked in its evacuation.
`Touch(w)` bounds what any pass over `w` may do; `TouchSafe` proves that this
much keeps `Inv` and the gate, and `ProvisioningTouches`, `RunningTouches` and
`DestroyingTouches` that every pass stays within it. With distinct branches
`mirrorCanonical` is never enabled; a shared branch is where the violations are.
`RollbackComplete` rests on `FailingPass`: a pass that leaves its Workspace Failed
found it so, had given it no name yet, or rolled everything back under its name,
where `OwnerKnowsName` says all of its objects are. `StopEvacuated` needs that the
snapshot under way still is what the volume holds (`SnapTrue`, which `QuietStop`
gives) and that a StatefulSet that is gone asks for no replica (`NoneScaled`).

`BranchExclusive` is about shared branches and does without the rest:
`OwnerOldest` says that who owns a volume is older than every live rival. A
creation cannot break it because the clock has moved on (`CreatedPast`), nor a
provisioning because only the canonical Workspace provisions. That the list
trails does no harm: it shows creations in their order, so who is missing from it
is younger than who is in it (`Cached`).

*TaskQueue.* `TypeOK` needs that the tasks a pass has still to visit were pending
when it listed them. `Trails` says that the cache differs from the store only
where a write is on its way; so the count of a pass is below the truth by at most
`MaxLag` (`Counted`), which gives `OverrunBounded`, and a copy that was handed out
once is never written over. The order needs that each older task the pass listed
is still to be visited, handed out, deleted, or skipped for its workspace
(`Settled`).

*Evacuation.* `StoreCovers` is not inductive: an evacuation overwrites the two
objects one after the other. `Under(p)` says of each stage of an undisturbed
evacuation, which is `Alone`, what its captured parts, the stored ones and the
remote hold together; `TreeCovers` what the tree has of what is assured at each
stage of a restore; `EmptyIsEmpty` that an evacuation without commits, which
uploads no bundle, loses none. The refinement follows action by action: an
undisturbed evacuation's last upload is `DurableWork`'s `Confirm`, a lost node
its `Lose`, an upload of a disturbed one `Forfeit`, and all else a stutter or
more work. A failed restore is a stutter: what the tree lacks is in the objects.

*Handover.* Who was granted the session (`GrantsHeld`), and who was since a text
came in (`SinceHeld`), holds it and is connected; so the second look at the holds
refuses the text. `PromotedHeld` is inductive with the rest: a promotion begins
with its declaration under way, and where that fails the flag is taken back.
`OnePromoted` is what `promote`'s mutex gives, and with `HoldsAccounted` it makes
the holder unique.

*Identity.* A key that is held is the one in its Secret (`KeysAgree`): a Secret is
created once, and who loses the race adopts. `PublicAgrees` follows a start
through the publication and covers the moment in which another start publishes
first. `TimesOrdered` relates the time a round of `mutate` read to the records it
read: a write is younger than what it replaces because the version check of the
update rules out anything in between. `AdminOnce` says that one start at most has
the credential still to publish.

*Session, SelfHeal.* `MarksTrue` and `SeedTrue` connect the marks on the volume
with what the checks found. For `VerifiedRan`, `OwedByE2E` and `OwedByRun` say
what each stage of a run still owes: either the run has failed already, or it
owes no more than what the next one is narrowed to. For `SettledTurnsIgnored`,
`NothingOwn` says that the loop watches with none of its own prompts unanswered
and no completed turn but its baseline, until somebody else's completes.

*Admission, Connections.* The sizes of a set of Workspaces are added up as the
number of their units (`Units`, `Declared`), so that no induction over the set is
needed. The budget holds for what is counted although the list trails, because
who was admitted and counts is in the list with its template
(`AdmittedListed`, `TemplatesKnown`). The count settles because the latest report
carries the number of sockets (`LatestCounts`, `NoteCounts`). The stop spares who
is there because a report that lands between makes its next update a conflict
(`PassFresh`, with `NoneMissed`).

*Blackboard.* The condition on the object is what was told last, unless a pass
died between the two (`ToldRecorded`); a pass that goes on has an entry
(`PassListed`). The proof corrected the property: with two files, a branch can
be told of one conflict, the next one be recorded by a pass that dies, and the
first be told again, which is not repeated news but which an earlier form of
`RepeatsNothing` ruled out. The run's one file is too few to show it.

Liveness is out of the prover's reach and stays with TLC: `DestroyCompletes`,
`ResumeCompletes`, `QueueDrains`, `HealEnds`, `HalfStopHeals`, `WaiterAdmitted`,
`EventuallyConsistent`.

## What is not modelled

Contents of the generated objects, request signing, rendering of documents, HTTP
routing and the terminal page, the external identity provider and its cache of
keys (`auth.go`), expiry of sessions and certificates, the evidence and the
reports of test runs, `watchModel` and the usage reading, the SSH daemon's and
git's configuration files, the chart, images and generated code: they compute or
write what no modelled decision reads back. More than one gateway replica in
Handover: the chart runs one. And two failures that the modules assume away: a
pass over a trailing copy of its own Workspace, whose first status update would
conflict, and a usability mark that is there but cannot be read, which `Status`
passes over (`health.go:68-71`).

## Plan

1. Lemmas about the operators that are only checked as part of a run so far:
   what `DeriveResourceName` and `nextModel` return, that two branches see one
   conflict from both sides (`fileConflictDetail`).
2. Abstract specifications of the queue (a set of slots) and of the Workspace
   life cycle, with the refinements proved as for `DurableWork`.
3. A pass of the Workspace reconciler that starts from a trailing copy of its own
   object: what it creates before its status update conflicts.
