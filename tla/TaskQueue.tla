------------------------------ MODULE TaskQueue ------------------------------
(***************************************************************************)
(* The Task Queue and Quota Governor's dispatch loop (controller/internal/ *)
(* controller/taskqueue.go, quota.go).  The queue is the set of            *)
(* TaskRequest objects.  One worker runs one pass at a time over all of    *)
(* them: it lists them from the informer cache, counts the ones that       *)
(* occupy a session and visits the pending ones, oldest first.  Each       *)
(* visit is an action, because each makes calls of its own during which    *)
(* tasks finish, users submit and delete, and workspaces come and go.      *)
(*                                                                         *)
(* A task's Dispatched condition is modelled by its reason together with   *)
(* what its message tells apart, since hold compares both.  Left out: the  *)
(* bounded history of quota hits that Stats reports, which no decision     *)
(* reads, and the delivery of notifications.                               *)
(***************************************************************************)
EXTENDS Naturals, FiniteSets, Sequences

CONSTANTS
  Tasks,     \* TaskRequests, numbered in the order of isOlder
  Hosts,     \* Workspaces tasks run in
  Host,      \* spec.workspaceRef of each task
  Limit,     \* MaxConcurrent
  Chain,     \* number of models in ModelFallbacks
  Readings,  \* bound: what a look at a workspace's supervisor may say
  MaxLag     \* bound: writes the informer cache may trail the API server by

\* Unknown when the supervisor does not answer.  exhaustedScope lets an
\* account-wide window win over a model's.
AllReadings == {"unknown", "fine", "auth", "model", "account"}

ASSUME QueueAssumption ==
  /\ Tasks \subseteq Nat
  /\ IsFiniteSet(Tasks)
  /\ Host \in [Tasks -> Hosts]
  /\ Limit \in Nat \ {0}
  /\ Chain \in Nat \ {0}
  /\ Readings \subseteq AllReadings
  /\ "fine" \in Readings
  /\ MaxLag \in Nat \ {0}

VARIABLES
  task,     \* the TaskRequests as the API server has them
  seen,     \* the TaskRequests as the cache has them
  events,   \* the writes the watch has yet to deliver to it, in order
  ready,    \* whether each Workspace's phase is Ready
  model,    \* place in the chain its active-model annotation names
  env,      \* place in the chain its StatefulSet names, 0 before there is one
  stopped,  \* detail of the stop announced last, "" when dispatching
  wake,     \* a request for a pass is in the work queue
  timer,    \* a pass asked to be run again after quotaRecheckInterval
  loop      \* the pass under way

vars == <<task, seen, events, ready, model, env, stopped, wake, timer, loop>>

Busy == {"Running", "Verifying", "HumanIntervention"}
Ended == {"Completed", "Failed", "gone"}
Phases == {"unborn", "Pending"} \cup Busy \cup Ended

Stops == {"AuthError", "AccountSpent", "ModelSpent"}

\* The Dispatched condition.  OverLimit is a ConcurrencyLimit whose message
\* counts more tasks than there are slots.
Reasons == {"", "SlotAvailable", "ConcurrencyLimit", "OverLimit",
            "WorkspaceNotReady"} \cup Stops

TaskRecord == [phase : Phases, reason : Reasons]

Event == [key : Tasks, obj : TaskRecord]

\* The pass: the copies of the pending tasks it works from, the ones it has
\* yet to visit, its count of running tasks and the reason it stopped for.
\* skipped, read by InOrder alone, has the tasks it held for their workspace.
PassRecord == [on : BOOLEAN, pending : [Tasks -> TaskRecord], todo : SUBSET Tasks,
               running : Nat, stop : Stops \cup {""}, skipped : SUBSET Tasks]

NewTask == [phase |-> "unborn", reason |-> ""]

NoLoop == [on |-> FALSE, pending |-> [t \in Tasks |-> NewTask], todo |-> {},
           running |-> 0, stop |-> "", skipped |-> {}]

TypeOK ==
  /\ task \in [Tasks -> TaskRecord]
  /\ seen \in [Tasks -> TaskRecord]
  /\ events \in Seq(Event)
  /\ ready \in [Hosts -> BOOLEAN]
  /\ model \in [Hosts -> 1 .. Chain]
  /\ env \in [Hosts -> 0 .. Chain]
  /\ stopped \in Stops \cup {""}
  /\ wake \in BOOLEAN
  /\ timer \in BOOLEAN
  /\ loop \in PassRecord

\* No annotation means the head of the chain.
Init ==
  /\ task = [t \in Tasks |-> NewTask]
  /\ seen = [t \in Tasks |-> NewTask]
  /\ events = <<>>
  /\ ready = [h \in Hosts |-> FALSE]
  /\ model = [h \in Hosts |-> 1]
  /\ env = [h \in Hosts |-> 0]
  /\ stopped = ""
  /\ wake = TRUE
  /\ timer = FALSE
  /\ loop = NoLoop

-----------------------------------------------------------------------------
(* The API server and its cache *)

Occupying(tasks) == {t \in Tasks : tasks[t].phase \in Busy}
Pending(tasks) == {t \in Tasks : tasks[t].phase = "Pending"}

\* The watch delivers a write to the cache, and with it to the work queue,
\* some time after it was made.
Put(t, r) ==
  /\ Len(events) < MaxLag
  /\ task' = [task EXCEPT ![t] = r]
  /\ events' = Append(events, [key |-> t, obj |-> r])
  /\ UNCHANGED <<seen, wake>>

Sync ==
  /\ events # <<>>
  /\ seen' = [seen EXCEPT ![Head(events).key] = Head(events).obj]
  /\ events' = Tail(events)
  /\ wake' = TRUE
  /\ UNCHANGED <<task, ready, model, env, stopped, timer, loop>>

\* isOlder orders tasks created within one second by name, so a task may be
\* submitted after one it comes before.
Submit(t) ==
  /\ task[t].phase = "unborn"
  /\ Put(t, [phase |-> "Pending", reason |-> ""])
  /\ UNCHANGED <<ready, model, env, stopped, timer, loop>>

\* TaskRequests carry no finalizer.
Delete(t) ==
  /\ task[t].phase \in {"Pending"} \cup Busy
  /\ Put(t, [task[t] EXCEPT !.phase = "gone"])
  /\ UNCHANGED <<ready, model, env, stopped, timer, loop>>

\* Whoever runs and verifies the task writes every later transition.
Progress(t) ==
  /\ task[t].phase \in Busy
  /\ \E p \in {"Verifying", "HumanIntervention", "Completed", "Failed"} \ {task[t].phase} :
       Put(t, [task[t] EXCEPT !.phase = p])
  /\ UNCHANGED <<ready, model, env, stopped, timer, loop>>

\* Provisioning creates the StatefulSet with the model of the moment.  Later
\* passes find that it exists and leave it as it is.
buildStatefulSet(h) ==
  /\ env[h] = 0
  /\ env' = [env EXCEPT ![h] = model[h]]
  /\ UNCHANGED <<task, seen, events, ready, model, stopped, wake, timer, loop>>

\* A workspace that has been provisioned becomes Ready or stops being so.
\* Workspaces are watched too.
WorkspaceChange(h) ==
  /\ env[h] # 0
  /\ ready' = [ready EXCEPT ![h] = ~@]
  /\ wake' = TRUE
  /\ UNCHANGED <<task, seen, events, model, env, stopped, timer, loop>>

-----------------------------------------------------------------------------
(* One pass of Reconcile *)

BeginPass ==
  /\ ~loop.on /\ (wake \/ timer)
  /\ loop' = [on |-> TRUE,
              pending |-> [t \in Tasks |-> IF t \in Pending(seen) THEN seen[t] ELSE NewTask],
              todo |-> Pending(seen),
              running |-> Cardinality(Occupying(seen)),
              stop |-> "", skipped |-> {}]
  /\ wake' = FALSE
  /\ timer' = FALSE
  /\ UNCHANGED <<task, seen, events, ready, model, env, stopped>>

\* Mutant of At: the pending tasks are not sorted.
AtUnsorted(t) == loop.on /\ t \in loop.todo

\* The next task to visit.
At(t) == loop.on /\ t \in loop.todo /\ \A u \in loop.todo : t <= u

Visited(t) == [loop EXCEPT !.todo = @ \ {t}]

\* Mutant of Current: the update carries no resource version.
Unconditional(t) == TRUE

\* The object listed is still the one stored, so writing it is no conflict.
\* An object may come back to an equal value under a newer version: the
\* conflict of that write is PassFails.
Current(t) == loop.pending[t] = task[t]

\* An update that is a conflict, or a call that fails, ends the pass in an
\* error, and the request is put back.
Abort ==
  /\ loop' = NoLoop
  /\ wake' = TRUE
  /\ UNCHANGED <<task, seen, events, timer>>

Held(t, reason) ==
  [Visited(t) EXCEPT !.skipped = IF reason = "WorkspaceNotReady" THEN @ \cup {t} ELSE @]

\* hold writes only a condition that changed.
hold(t, reason) ==
  /\ \/ /\ loop.pending[t].reason = reason
        /\ loop' = Held(t, reason)
        /\ UNCHANGED <<task, seen, events, wake, timer>>
     \/ /\ loop.pending[t].reason # reason
        /\ Current(t)
        /\ Put(t, [phase |-> "Pending", reason |-> reason])
        /\ loop' = Held(t, reason)
        /\ UNCHANGED timer
     \/ /\ loop.pending[t].reason # reason
        /\ ~Current(t)
        /\ Abort
  /\ UNCHANGED <<ready, model, env, stopped>>

\* Mutant of SlotFree: one task too many.
SlotFreeOffByOne == loop.running <= Limit

SlotFree == loop.running < Limit

HoldForSlot(t) ==
  /\ At(t) /\ loop.stop = "" /\ ~SlotFree
  /\ hold(t, IF loop.running = Limit THEN "ConcurrencyLimit" ELSE "OverLimit")

HoldForWorkspace(t) ==
  /\ At(t) /\ loop.stop = "" /\ SlotFree
  /\ ~ready[Host[t]]
  /\ hold(t, "WorkspaceNotReady")

HoldForStop(t) ==
  /\ At(t) /\ loop.stop # ""
  /\ hold(t, loop.stop)

\* A task that has a slot and a Ready workspace is judged by a reading.
Judged(t) == At(t) /\ loop.stop = "" /\ SlotFree /\ ready[Host[t]]

\* Mutant of CanSwitch: the end of the chain is missed by one.
CanSwitchOffByOne(t) == model[Host[t]] <= Chain

\* nextModel: there is a model after the one the workspace is on.
CanSwitch(t) == model[Host[t]] < Chain

StopReason(reading) ==
  CASE reading = "auth"    -> "AuthError"
    [] reading = "account" -> "AccountSpent"
    [] reading = "model"   -> "ModelSpent"

\* throttle: the rest of the queue, t included, is held under one reason.
StopQueue(t, reading) ==
  /\ Judged(t)
  /\ \/ reading \in {"auth", "account"}
     \/ reading = "model" /\ ~CanSwitch(t)
  /\ stopped' = StopReason(reading)
  /\ loop' = [loop EXCEPT !.stop = StopReason(reading)]
  /\ UNCHANGED <<task, seen, events, ready, model, env, wake, timer>>

\* What throttle does to let t go ahead: nothing without a reading, otherwise
\* resume, after a switch of model where that was the window spent.
Release(t, reading) ==
  /\ reading \in {"unknown", "fine"} \/ (reading = "model" /\ CanSwitch(t))
  /\ stopped' = IF reading = "unknown" THEN stopped ELSE ""
  /\ model' = IF reading = "model" THEN [model EXCEPT ![Host[t]] = @ + 1] ELSE model

\* After a conflict the model stays switched.
dispatch(t, reading) ==
  /\ Judged(t)
  /\ Release(t, reading)
  /\ \/ /\ Current(t)
        /\ Put(t, [phase |-> "Running", reason |-> "SlotAvailable"])
        /\ loop' = [Visited(t) EXCEPT !.running = @ + 1]
        /\ UNCHANGED timer
     \/ ~Current(t) /\ Abort
  /\ UNCHANGED <<ready, env>>

\* Mutant of EndPass: a pass that stopped the queue is not asked for again.
EndPassForGood ==
  /\ loop.on /\ loop.todo = {}
  /\ loop' = NoLoop
  /\ UNCHANGED <<task, seen, events, ready, model, env, stopped, wake, timer>>

EndPass ==
  /\ loop.on /\ loop.todo = {}
  /\ loop' = NoLoop
  /\ timer' = (timer \/ loop.stop # "")
  /\ UNCHANGED <<task, seen, events, ready, model, env, stopped, wake>>

\* Any call may fail.
PassFails ==
  /\ loop.on
  /\ Abort
  /\ UNCHANGED <<ready, model, env, stopped>>

\* A restart forgets the stop and the timer, and lists everything afresh.
Restart ==
  /\ loop' = NoLoop
  /\ stopped' = ""
  /\ timer' = FALSE
  /\ seen' = task
  /\ events' = <<>>
  /\ wake' = TRUE
  /\ UNCHANGED <<task, ready, model, env>>

-----------------------------------------------------------------------------
Hold(t) == HoldForSlot(t) \/ HoldForWorkspace(t) \/ HoldForStop(t)

Visit(t) ==
  \/ Hold(t)
  \/ \E r \in Readings : StopQueue(t, r)
  \/ \E r \in Readings : dispatch(t, r)

Next ==
  \/ \E t \in Tasks : Submit(t) \/ Delete(t) \/ Progress(t) \/ Visit(t)
  \/ \E h \in Hosts : buildStatefulSet(h) \/ WorkspaceChange(h)
  \/ Sync
  \/ BeginPass
  \/ EndPass
  \/ PassFails
  \/ Restart

Spec == Init /\ [][Next]_vars

(***************************************************************************)
(* The work queue hands out what is in it, the cache catches up, a pass    *)
(* that goes on being retried gets through each of its visits, and a quota *)
(* that was spent is found refilled by some later reading, whether or not  *)
(* the copies it was read with are stale.  What is assumed of the runner   *)
(* is that a task it holds ends.  Nothing is assumed of users, of          *)
(* workspaces or of the readings in between.                               *)
(***************************************************************************)
Finish(t) == Progress(t) /\ task'[t].phase \in Ended

Fairness ==
  /\ WF_vars(BeginPass)
  /\ WF_vars(EndPass)
  /\ WF_vars(Sync)
  /\ \A h \in Hosts : WF_vars(buildStatefulSet(h))
  /\ \A t \in Tasks :
       /\ SF_vars(Finish(t))
       /\ SF_vars(Visit(t))
       /\ SF_vars(Current(t) /\ dispatch(t, "fine"))

FairSpec == Spec /\ Fairness

-----------------------------------------------------------------------------
(* Properties *)

(***************************************************************************)
(* Never more tasks hold a session than MaxConcurrent, counted over what   *)
(* the API server stores: taskqueue.go:126-130 claims that one worker      *)
(* keeps the count free of races.  It does not: a pass lists from a cache  *)
(* that may not show yet what the pass before it dispatched (133).         *)
(***************************************************************************)
LimitHeld == Cardinality(Occupying(task)) <= Limit

(***************************************************************************)
(* What the single worker does keep: the limit is passed by no more tasks  *)
(* than the cache trails by writes, however many passes begin, fail and    *)
(* are repeated over a cache that trails, and whatever is submitted,       *)
(* deleted and finished during the pass that counted (taskqueue.go:        *)
(* 133-200).                                                               *)
(***************************************************************************)
OverrunBounded == Cardinality(Occupying(task)) <= Limit + MaxLag

(***************************************************************************)
(* The order of taskqueue.go:153-155 survives the failures, restarts,      *)
(* stops and stale lists between passes: a task is given a slot ahead of   *)
(* an older one that the pass listed and that still waits only when the    *)
(* same pass found the older one's workspace not Ready (168-179), never    *)
(* for want of a slot or of quota.                                         *)
(***************************************************************************)
Overtaken(t) == {u \in Pending(task) : u < t /\ loop.pending[u].phase = "Pending"}

InOrderStep ==
  \A t \in Tasks :
    task[t].phase = "Pending" /\ task'[t].phase = "Running" =>
      Overtaken(t) \subseteq loop.skipped

InOrder == [][InOrderStep]_vars

(***************************************************************************)
(* A task is handed out once.  A pass that works from a stale copy neither *)
(* dispatches again nor puts back in the queue (hold sets the phase to     *)
(* Pending, taskqueue.go:367) a task that was dispatched meanwhile, run,   *)
(* finished or deleted, whatever the cache, the runner, failed passes and  *)
(* restarts do in between.                                                 *)
(***************************************************************************)
HandedOut(t) == task[t].phase \in Busy \cup Ended

HandedOutOnceStep ==
  \A t \in Tasks :
    HandedOut(t) /\ task'[t] # task[t] => task'[t].phase \notin {"Pending", "Running"}

HandedOutOnce == [][HandedOutOnceStep]_vars

(***************************************************************************)
(* No task is forgotten: one whose workspace comes to stay Ready is        *)
(* dispatched, or deleted by its user, however long slots, quota stops and *)
(* failed passes held it.  The events of taskqueue.go:421-435 and the      *)
(* recheck of 192 are all that starts another pass.                        *)
(***************************************************************************)
QueueDrains ==
  \A t \in Tasks :
    <>[]ready[Host[t]] => (task[t].phase = "Pending" ~> task[t].phase # "Pending")

(***************************************************************************)
(* A model switched to is the model the session runs on, once the          *)
(* Workspace reconciler has had its turn: taskqueue.go:259-262.            *)
(***************************************************************************)
SwitchTakesEffect == \A h \in Hosts : env[h] # 0 ~> env[h] = model[h]
=============================================================================
