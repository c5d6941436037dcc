-------------------------- MODULE TaskQueueProofs --------------------------
(***************************************************************************)
(* Proofs about TaskQueue, all of them however far the cache trails the    *)
(* API server: its types, that a task is handed out once, by how much the  *)
(* concurrency limit can be passed, and the order of the queue.            *)
(***************************************************************************)
EXTENDS TaskQueue, FiniteSetTheorems, FunctionTheorems, SequenceTheorems, TLAPS

\* The typing of a pass that has just been dropped.
LEMMA NoLoopType ==
  NoLoop \in PassRecord
BY DEF NoLoop, PassRecord, NewTask, TaskRecord, Phases, Reasons, Stops, Busy, Ended

\* A dropped pass visits nothing.
LEMMA NoLoopIdle == NoLoop.on = FALSE /\ NoLoop.todo = {}
BY DEF NoLoop

\* What is written when only the phase changes.
LEMMA PhaseWritten ==
  ASSUME NEW r \in TaskRecord, NEW p
  PROVE  [r EXCEPT !.phase = p].phase = p
BY DEF TaskRecord

\* Some tasks of a finite queue: finite, so counted by a natural number.
LEMMA OccupyingFinite ==
  ASSUME NEW f
  PROVE  /\ IsFiniteSet(Occupying(f))
         /\ Cardinality(Occupying(f)) \in Nat
<1>1. Occupying(f) \subseteq Tasks
  BY DEF Occupying
<1>2. IsFiniteSet(Occupying(f))
  BY <1>1, QueueAssumption, FS_Subset
<1> QED
  BY <1>2, FS_CardinalityType

\* A write that adds no occupant does not raise the count.
LEMMA OccupyingShrinks ==
  ASSUME NEW f, NEW g, Occupying(g) \subseteq Occupying(f)
  PROVE  Cardinality(Occupying(g)) <= Cardinality(Occupying(f))
BY OccupyingFinite, FS_Subset

\* A write that adds one occupant raises the count by at most one.
LEMMA OccupyingGrows ==
  ASSUME NEW f, NEW g, NEW t, Occupying(g) \subseteq Occupying(f) \cup {t}
  PROVE  Cardinality(Occupying(g)) <= Cardinality(Occupying(f)) + 1
<1>1. IsFiniteSet(Occupying(f))
  BY OccupyingFinite
<1>2. /\ IsFiniteSet(Occupying(f) \cup {t})
      /\ \/ Cardinality(Occupying(f) \cup {t}) = Cardinality(Occupying(f))
         \/ Cardinality(Occupying(f) \cup {t}) = Cardinality(Occupying(f)) + 1
  <2>1. CASE t \in Occupying(f)
    <3>1. Occupying(f) \cup {t} = Occupying(f)
      BY <2>1
    <3> QED
      BY <3>1, <1>1
  <2>2. CASE t \notin Occupying(f)
    BY <1>1, <2>2, FS_AddElement
  <2> QED
    BY <2>1, <2>2
<1>3. Cardinality(Occupying(g)) <= Cardinality(Occupying(f) \cup {t})
  BY <1>2, FS_Subset
<1> QED
  BY <1>2, <1>3, OccupyingFinite

-----------------------------------------------------------------------------
(* Types *)

\* A write keeps the store, the cache and the watch typed.
LEMMA PutType ==
  ASSUME TypeOK, NEW t \in Tasks, NEW r \in TaskRecord, Put(t, r)
  PROVE  /\ task' \in [Tasks -> TaskRecord]
         /\ seen' \in [Tasks -> TaskRecord]
         /\ events' \in Seq(Event)
         /\ wake' \in BOOLEAN
<1>1. task' \in [Tasks -> TaskRecord]
  BY DEF TypeOK, Put
<1>2. [key |-> t, obj |-> r] \in Event
  BY DEF Event
<1>3. events' = Append(events, [key |-> t, obj |-> r])
  BY DEF Put
<1>4. events' \in Seq(Event)
  BY <1>2, <1>3, AppendProperties DEF TypeOK
<1> QED
  BY <1>1, <1>4 DEF TypeOK, Put

\* A visit keeps the pass typed.
LEMMA VisitedType ==
  ASSUME TypeOK, NEW t \in Tasks, NEW reason
  PROVE  /\ Held(t, reason) \in PassRecord
         /\ [Visited(t) EXCEPT !.running = @ + 1] \in PassRecord
<1>1. Visited(t) \in PassRecord
  BY DEF TypeOK, Visited, PassRecord
<1>2. ASSUME NEW p \in PassRecord PROVE [p EXCEPT !.running = @ + 1] \in PassRecord
  <2>1. p.running \in Nat
    BY DEF PassRecord
  <2>2. p.running + 1 \in Nat
    BY <2>1
  <2> QED
    BY <2>2 DEF PassRecord
<1>3. Held(t, reason) \in PassRecord
  BY <1>1 DEF Held, PassRecord
<1> QED
  BY <1>1, <1>2, <1>3

\* What a hold and a dispatch do to the pass.
LEMMA VisitedFields ==
  ASSUME TypeOK, NEW t \in Tasks, NEW reason
  PROVE  LET h == Held(t, reason)
             d == [Visited(t) EXCEPT !.running = @ + 1]
         IN  /\ h.on = loop.on /\ d.on = loop.on
             /\ h.pending = loop.pending /\ d.pending = loop.pending
             /\ h.todo = loop.todo \ {t} /\ d.todo = loop.todo \ {t}
             /\ h.stop = loop.stop /\ d.stop = loop.stop
             /\ h.running = loop.running /\ d.running = loop.running + 1
             /\ d.skipped = loop.skipped
             /\ loop.skipped \subseteq h.skipped
             /\ reason = "WorkspaceNotReady" => t \in h.skipped
BY DEF Held, Visited, TypeOK, PassRecord

\* The initial state is typed.
LEMMA TypeInitial == Init => TypeOK
<1>1. NewTask \in TaskRecord
  BY DEF NewTask, TaskRecord, Phases, Reasons
<1>2. <<>> \in Seq(Event)
  OBVIOUS
<1>3. 1 \in 1 .. Chain /\ 0 \in 0 .. Chain
  BY QueueAssumption
<1> QED
  BY <1>1, <1>2, <1>3, NoLoopType DEF Init, TypeOK

\* Every action keeps the types.
LEMMA TypeStep == TypeOK /\ [Next]_vars => TypeOK'
<1> SUFFICES ASSUME TypeOK, [Next]_vars PROVE TypeOK'
  OBVIOUS
<1> USE QueueAssumption
<1>1. ASSUME NEW t \in Tasks, Submit(t) PROVE TypeOK'
  <2>1. [phase |-> "Pending", reason |-> ""] \in TaskRecord
    BY DEF TaskRecord, Phases, Reasons
  <2> QED
    BY <1>1, <2>1, PutType DEF Submit, TypeOK
<1>2. ASSUME NEW t \in Tasks, Delete(t) PROVE TypeOK'
  <2>1. [task[t] EXCEPT !.phase = "gone"] \in TaskRecord
    BY DEF TypeOK, TaskRecord, Phases, Ended
  <2> QED
    BY <1>2, <2>1, PutType DEF Delete, TypeOK
<1>3. ASSUME NEW t \in Tasks, Progress(t) PROVE TypeOK'
  <2>1. PICK p \in {"Verifying", "HumanIntervention", "Completed", "Failed"} :
          Put(t, [task[t] EXCEPT !.phase = p])
    BY <1>3 DEF Progress
  <2>2. [task[t] EXCEPT !.phase = p] \in TaskRecord
    BY DEF TypeOK, TaskRecord, Phases, Busy, Ended
  <2> QED
    BY <1>3, <2>1, <2>2, PutType DEF Progress, TypeOK
<1>4. ASSUME NEW t \in Tasks, Hold(t) PROVE TypeOK'
  <2>1. PICK reason \in Reasons : hold(t, reason)
    BY <1>4 DEF Hold, HoldForSlot, HoldForWorkspace, HoldForStop, TypeOK, PassRecord, Reasons
  <2>2. [phase |-> "Pending", reason |-> reason] \in TaskRecord
    BY DEF TaskRecord, Phases
  <2> QED
    BY <2>1, <2>2, PutType, VisitedType, NoLoopType DEF hold, Abort, TypeOK
<1>5. ASSUME NEW t \in Tasks, NEW r \in Readings, StopQueue(t, r) PROVE TypeOK'
  <2>1. StopReason(r) \in Stops
    BY <1>5 DEF StopQueue, StopReason, Stops
  <2> QED
    BY <1>5, <2>1 DEF StopQueue, TypeOK, PassRecord
<1>6. ASSUME NEW t \in Tasks, NEW r \in Readings, dispatch(t, r) PROVE TypeOK'
  <2>1. [phase |-> "Running", reason |-> "SlotAvailable"] \in TaskRecord
    BY DEF TaskRecord, Phases, Busy, Reasons
  <2>2. stopped' \in Stops \cup {""}
    BY <1>6 DEF dispatch, Release, TypeOK
  <2>4. model' \in [Hosts -> 1 .. Chain]
    <3>1. Host[t] \in Hosts /\ Chain \in Nat
      OBVIOUS
    <3>2. CASE r = "model"
      <4>1. model[Host[t]] + 1 \in 1 .. Chain
        <5>1. model[Host[t]] \in 1 .. Chain
          BY <3>1 DEF TypeOK
        <5>2. model[Host[t]] < Chain
          BY <1>6, <3>2 DEF dispatch, Release, CanSwitch
        <5> QED
          BY <3>1, <5>1, <5>2
      <4>2. model' = [model EXCEPT ![Host[t]] = model[Host[t]] + 1]
        BY <1>6, <3>2 DEF dispatch, Release
      <4> QED
        BY <4>1, <4>2 DEF TypeOK
    <3>3. CASE r # "model"
      BY <1>6, <3>3 DEF dispatch, Release, TypeOK
    <3> QED
      BY <3>2, <3>3
  <2>3. /\ task' \in [Tasks -> TaskRecord]
        /\ seen' \in [Tasks -> TaskRecord]
        /\ events' \in Seq(Event)
        /\ wake' \in BOOLEAN
        /\ timer' \in BOOLEAN
        /\ loop' \in PassRecord
    BY <1>6, <2>1, PutType, VisitedType, NoLoopType DEF dispatch, Abort, TypeOK
  <2> QED
    BY <1>6, <2>2, <2>3, <2>4 DEF dispatch, TypeOK
<1>7. ASSUME NEW h \in Hosts, buildStatefulSet(h) PROVE TypeOK'
  <2>1. model[h] \in 0 .. Chain
    <3>1. model[h] \in 1 .. Chain
      BY DEF TypeOK
    <3> QED
      BY <3>1
  <2> QED
    BY <1>7, <2>1 DEF buildStatefulSet, TypeOK
<1>8. ASSUME NEW h \in Hosts, WorkspaceChange(h) PROVE TypeOK'
  <2>1. ready' \in [Hosts -> BOOLEAN]
    BY <1>8 DEF WorkspaceChange, TypeOK
  <2>2. wake' = TRUE /\ wake' \in BOOLEAN
    BY <1>8 DEF WorkspaceChange
  <2> QED
    BY <1>8, <2>1, <2>2 DEF WorkspaceChange, TypeOK
<1>9. CASE Sync
  <2>1. Head(events) \in Event
    BY <1>9, HeadTailProperties DEF Sync, TypeOK
  <2>2. Tail(events) \in Seq(Event)
    BY <1>9, HeadTailProperties DEF Sync, TypeOK
  <2> QED
    BY <1>9, <2>1, <2>2 DEF Sync, TypeOK, Event
<1>10. CASE BeginPass
  <2>1. NewTask \in TaskRecord
    BY DEF NewTask, TaskRecord, Phases, Reasons
  <2>2. Pending(seen) \subseteq Tasks
    BY DEF Pending
  <2>3. Cardinality(Occupying(seen)) \in Nat
    BY OccupyingFinite
  <2> QED
    BY <1>10, <2>1, <2>2, <2>3 DEF BeginPass, TypeOK, PassRecord
<1>11. CASE EndPass
  <2>1. timer' \in BOOLEAN
    BY <1>11, Zenon DEF EndPass, TypeOK
  <2> QED
    BY <1>11, <2>1, NoLoopType DEF EndPass, TypeOK
<1>12. CASE PassFails
  BY <1>12, NoLoopType DEF PassFails, Abort, TypeOK
<1>13. CASE Restart
  <2>1. <<>> \in Seq(Event)
    OBVIOUS
  <2> QED
    BY <1>13, <2>1, NoLoopType DEF Restart, TypeOK
<1>14. CASE UNCHANGED vars
  BY <1>14 DEF vars, TypeOK
<1> QED
  BY <1>1, <1>2, <1>3, <1>4, <1>5, <1>6, <1>7, <1>8, <1>9, <1>10, <1>11, <1>12,
     <1>13, <1>14 DEF Next, Visit

\* Every state of the queue is typed: phases and conditions the API allows,
\* models inside the fallback chain of nextModel (taskqueue.go:287-305).
THEOREM TypeCorrect == Spec => []TypeOK
BY TypeInitial, TypeStep, PTL DEF Spec

-----------------------------------------------------------------------------
(* A task is handed out once *)

\* The pass visits only tasks it copied while they were pending.
TodoPending == \A t \in loop.todo : loop.pending[t].phase = "Pending"

\* It starts so and every step keeps it so.
LEMMA TodoPendingInductive ==
  /\ Init => TodoPending
  /\ TypeOK /\ TodoPending /\ [Next]_vars => TodoPending'
<1>1. Init => TodoPending
  BY NoLoopIdle DEF Init, TodoPending
<1>2. ASSUME TypeOK, TodoPending, [Next]_vars PROVE TodoPending'
  <2>1. NoLoop.todo = {}
    BY NoLoopIdle
  <2>2. CASE UNCHANGED loop
    BY <1>2, <2>2 DEF TodoPending
  <2>3. CASE loop' = NoLoop
    BY <2>1, <2>3 DEF TodoPending
  <2>4. CASE BeginPass
    BY <2>4 DEF BeginPass, TodoPending, Pending
  <2>5. CASE \E t \in Tasks, reason \in Reasons :
                loop' \in {Held(t, reason), [Visited(t) EXCEPT !.running = @ + 1]}
    <3>1. loop'.pending = loop.pending /\ loop'.todo \subseteq loop.todo
      <4>1. PICK t \in Tasks, reason \in Reasons :
              loop' \in {Held(t, reason), [Visited(t) EXCEPT !.running = @ + 1]}
        BY <2>5
      <4>2. CASE loop' = Held(t, reason)
        BY <1>2, <4>2, VisitedFields
      <4>3. CASE loop' = [Visited(t) EXCEPT !.running = @ + 1]
        BY <1>2, <4>3, VisitedFields
      <4> QED
        BY <4>1, <4>2, <4>3
    <3> QED
      BY <1>2, <3>1 DEF TodoPending
  <2>6. CASE \E t \in Tasks, r \in Readings : StopQueue(t, r)
    <3>1. loop'.pending = loop.pending /\ loop'.todo = loop.todo
      BY <1>2, <2>6 DEF StopQueue, TypeOK, PassRecord
    <3> QED
      BY <1>2, <3>1 DEF TodoPending
  <2>7. ASSUME NEW t \in Tasks, Hold(t) PROVE TodoPending'
    <3>1. PICK reason \in Reasons : hold(t, reason)
      BY <1>2, <2>7 DEF Hold, HoldForSlot, HoldForWorkspace, HoldForStop, TypeOK, PassRecord,
                       Reasons
    <3> QED
      BY <2>3, <2>5, <3>1 DEF hold, Abort
  <2>8. ASSUME NEW t \in Tasks, NEW r \in Readings, dispatch(t, r) PROVE TodoPending'
    <3>1. "" \in Reasons
      BY DEF Reasons
    <3> QED
      BY <2>3, <2>5, <2>8, <3>1 DEF dispatch, Abort
  <2> QED
    BY <1>2, <2>2, <2>3, <2>4, <2>6, <2>7, <2>8
    DEF Next, Visit, Abort, Submit, Delete, Progress, buildStatefulSet, WorkspaceChange, Sync,
        EndPass, PassFails, Restart, vars
<1> QED
  BY <1>1, <1>2

\* What becomes of a task that was handed out: only the runner and its user
\* write it.
LEMMA HandedOutStep ==
  ASSUME TypeOK, TodoPending, Next, NEW t \in Tasks, HandedOut(t), task'[t] # task[t]
  PROVE  task'[t].phase \in {"Verifying", "HumanIntervention", "Completed", "Failed", "gone"}
<1>1. task[t].phase \notin {"unborn", "Pending"}
  BY DEF HandedOut, Busy, Ended
<1>2. ASSUME NEW u \in Tasks, NEW r, Put(u, r)
      PROVE  u = t /\ task'[t] = r
  BY <1>2 DEF Put, TypeOK
<1>3. ASSUME NEW u \in Tasks, At(u), Current(u) PROVE u # t
  BY <1>1, <1>3 DEF At, Current, TodoPending
<1>4. ASSUME NEW u \in Tasks, Submit(u) PROVE FALSE
  BY <1>1, <1>2, <1>4 DEF Submit
<1>5. ASSUME NEW u \in Tasks, Delete(u) PROVE task'[t].phase = "gone"
  <2>1. task'[t] = [task[u] EXCEPT !.phase = "gone"]
    BY <1>2, <1>5 DEF Delete
  <2> QED
    BY <2>1, PhaseWritten DEF TypeOK
<1>6. ASSUME NEW u \in Tasks, Progress(u)
      PROVE  task'[t].phase \in {"Verifying", "HumanIntervention", "Completed", "Failed"}
  <2>1. PICK p \in {"Verifying", "HumanIntervention", "Completed", "Failed"} :
          Put(u, [task[u] EXCEPT !.phase = p])
    BY <1>6 DEF Progress
  <2> QED
    <3>1. task[u] \in TaskRecord
      BY DEF TypeOK
    <3>2. task'[t] = [task[u] EXCEPT !.phase = p]
      BY <1>2, <2>1
    <3> QED
      BY <3>1, <3>2, PhaseWritten
<1>7. ASSUME NEW u \in Tasks, Hold(u) PROVE FALSE
  <2>1. At(u) /\ \E reason : hold(u, reason)
    BY <1>7 DEF Hold, HoldForSlot, HoldForWorkspace, HoldForStop
  <2> QED
    BY <1>2, <1>3, <2>1 DEF hold, Abort
<1>8. ASSUME NEW u \in Tasks, NEW r \in Readings, dispatch(u, r) PROVE FALSE
  BY <1>2, <1>3, <1>8 DEF dispatch, Judged, Abort
<1>9. ASSUME UNCHANGED task PROVE FALSE
  BY <1>9
<1> QED
  BY <1>4, <1>5, <1>6, <1>7, <1>8, <1>9
  DEF Next, Visit, StopQueue, buildStatefulSet, WorkspaceChange, Sync, BeginPass,
      EndPass, PassFails, Abort, Restart

\* HandedOutOnce, for any number of tasks and workspaces and however far the
\* cache trails: the version check of Status().Update and the copies a pass
\* works from are enough (taskqueue.go:352-378).
THEOREM OnceOnly == Spec => HandedOutOnce
<1>1. TypeOK /\ TodoPending /\ [Next]_vars => [HandedOutOnceStep]_vars
  BY HandedOutStep DEF HandedOutOnceStep
<1> QED
  BY <1>1, TodoPendingInductive, TypeCorrect, PTL DEF Spec, HandedOutOnce

-----------------------------------------------------------------------------
(* How far the cache trails *)

Waiting(t) == \E i \in 1 .. Len(events) : events[i].key = t

\* The cache differs from the store only where a write is on its way, and the
\* last write on its way for a task is the task as stored.
Trails ==
  /\ Len(events) <= MaxLag
  /\ \A t \in Tasks : Waiting(t) \/ seen[t] = task[t]
  /\ \A i \in 1 .. Len(events) :
       \/ events[i].obj = task[events[i].key]
       \/ \E j \in 1 .. Len(events) : j > i /\ events[j].key = events[i].key

\* A write keeps it so.
LEMMA TrailsPut ==
  ASSUME TypeOK, Trails, NEW t \in Tasks, NEW r \in TaskRecord, Put(t, r)
  PROVE  Trails'
<1> DEFINE e == [key |-> t, obj |-> r]
<1>1. /\ Len(events) \in Nat /\ MaxLag \in Nat
      /\ e \in Event
      /\ events \in Seq(Event)
  BY QueueAssumption, LenProperties DEF TypeOK, Event
<1>2. /\ events' = Append(events, e)
      /\ Len(events) < MaxLag
      /\ seen' = seen
      /\ \A u \in Tasks : task'[u] = IF u = t THEN r ELSE task[u]
  BY DEF Put, TypeOK
<1>3. /\ Len(events') = Len(events) + 1
      /\ \A i \in 1 .. Len(events) : events'[i] = events[i]
      /\ events'[Len(events) + 1] = e
  BY <1>1, <1>2, AppendProperties
<1>4. Len(events') <= MaxLag
  BY <1>1, <1>2, <1>3
<1>5. ASSUME NEW u \in Tasks PROVE Waiting(u)' \/ seen'[u] = task'[u]
  <2>1. CASE u = t
    <3>1. Len(events) + 1 \in 1 .. Len(events')
      BY <1>1, <1>3
    <3>2. events'[Len(events) + 1].key = u
      BY <1>3, <2>1
    <3> QED
      BY <3>1, <3>2 DEF Waiting
  <2>2. CASE u # t /\ Waiting(u)
    <3>1. PICK i \in 1 .. Len(events) : events[i].key = u
      BY <2>2 DEF Waiting
    <3>2. i \in 1 .. Len(events') /\ events'[i].key = u
      BY <1>1, <1>3, <3>1
    <3> QED
      BY <3>2 DEF Waiting
  <2>3. CASE u # t /\ ~Waiting(u)
    BY <1>2, <2>3 DEF Trails
  <2> QED
    BY <2>1, <2>2, <2>3
<1>6. ASSUME NEW i \in 1 .. Len(events')
      PROVE  \/ events'[i].obj = task'[events'[i].key]
             \/ \E j \in 1 .. Len(events') : j > i /\ events'[j].key = events'[i].key
  <2>1. CASE i = Len(events) + 1
    BY <1>2, <1>3, <2>1
  <2>2. CASE i \in 1 .. Len(events)
    <3>1. events'[i] = events[i] /\ events[i] \in Event
      BY <1>1, <1>3, <2>2, ElementOfSeq
    <3>2. events[i].key \in Tasks
      BY <3>1 DEF Event
    <3>3. CASE events[i].key = t
      <4>1. Len(events) + 1 \in 1 .. Len(events') /\ Len(events) + 1 > i
        BY <1>1, <1>3, <2>2
      <4> QED
        BY <1>3, <3>1, <3>3, <4>1
    <3>4. CASE events[i].key # t /\ events[i].obj = task[events[i].key]
      BY <1>2, <3>1, <3>2, <3>4
    <3>5. CASE \E j \in 1 .. Len(events) : j > i /\ events[j].key = events[i].key
      <4>1. PICK j \in 1 .. Len(events) : j > i /\ events[j].key = events[i].key
        BY <3>5
      <4>2. j \in 1 .. Len(events') /\ events'[j] = events[j]
        BY <1>1, <1>3, <4>1
      <4> QED
        BY <3>1, <4>1, <4>2
    <3> QED
      BY <2>2, <3>3, <3>4, <3>5 DEF Trails
  <2> QED
    BY <1>1, <1>3, <2>1, <2>2
<1> QED
  BY <1>4, <1>5, <1>6 DEF Trails

\* So does the delivery of one.
LEMMA TrailsSync ==
  ASSUME TypeOK, Trails, Sync
  PROVE  Trails'
<1>1. /\ events \in Seq(Event) /\ events # <<>>
      /\ Len(events) \in Nat /\ MaxLag \in Nat
  BY QueueAssumption, LenProperties DEF TypeOK, Sync
<1>2. /\ events' = Tail(events)
      /\ task' = task
      /\ seen' = [seen EXCEPT ![Head(events).key] = Head(events).obj]
  BY DEF Sync
<1>3. /\ Head(events) = events[1] /\ Len(events) >= 1
      /\ Len(events') = Len(events) - 1
      /\ \A i \in 1 .. Len(events') : events'[i] = events[i + 1]
  BY <1>1, <1>2, HeadTailProperties, EmptySeq
<1>4. ASSUME NEW j \in 1 .. Len(events), j > 1
      PROVE  j - 1 \in 1 .. Len(events') /\ events'[j - 1] = events[j]
  <2>1. j - 1 \in 1 .. Len(events') /\ (j - 1) + 1 = j
    BY <1>1, <1>3, <1>4
  <2> QED
    BY <1>3, <2>1
<1>5. Len(events') <= MaxLag
  BY <1>1, <1>3 DEF Trails
<1>6. ASSUME NEW u \in Tasks PROVE Waiting(u)' \/ seen'[u] = task'[u]
  <2>1. CASE \E j \in 1 .. Len(events) : j > 1 /\ events[j].key = u
    BY <1>4, <2>1 DEF Waiting
  <2>2. CASE /\ events[1].key = u
             /\ ~\E j \in 1 .. Len(events) : j > 1 /\ events[j].key = u
    <3>1. 1 \in 1 .. Len(events)
      BY <1>1, <1>3
    <3>2. events[1].obj = task[u]
      BY <2>2, <3>1 DEF Trails
    <3>3. seen'[u] = events[1].obj
      BY <1>2, <1>3, <2>2 DEF TypeOK
    <3> QED
      BY <1>2, <3>2, <3>3
  <2>3. CASE ~Waiting(u)
    <3>1. 1 \in 1 .. Len(events)
      BY <1>1, <1>3
    <3>2. Head(events).key # u
      BY <1>3, <2>3, <3>1 DEF Waiting
    <3> QED
      BY <1>2, <2>3, <3>2 DEF Trails, TypeOK
  <2>4. CASE Waiting(u)
    <3>1. PICK i \in 1 .. Len(events) : events[i].key = u
      BY <2>4 DEF Waiting
    <3>2. i = 1 \/ i > 1
      BY <1>1
    <3> QED
      BY <2>1, <2>2, <3>1, <3>2
  <2> QED
    BY <2>3, <2>4
<1>7. ASSUME NEW i \in 1 .. Len(events')
      PROVE  \/ events'[i].obj = task'[events'[i].key]
             \/ \E j \in 1 .. Len(events') : j > i /\ events'[j].key = events'[i].key
  <2>1. i + 1 \in 1 .. Len(events) /\ events'[i] = events[i + 1]
    BY <1>1, <1>3
  <2>2. CASE events[i + 1].obj = task[events[i + 1].key]
    BY <1>2, <2>1, <2>2
  <2>3. CASE \E j \in 1 .. Len(events) : j > i + 1 /\ events[j].key = events[i + 1].key
    <3>1. PICK j \in 1 .. Len(events) : j > i + 1 /\ events[j].key = events[i + 1].key
      BY <2>3
    <3>2. j > 1 /\ j - 1 > i
      BY <1>1, <1>3, <3>1
    <3>3. j - 1 \in 1 .. Len(events') /\ events'[j - 1] = events[j]
      BY <1>4, <3>1, <3>2
    <3> QED
      BY <2>1, <3>1, <3>2, <3>3
  <2> QED
    BY <2>1, <2>2, <2>3 DEF Trails
<1> QED
  BY <1>5, <1>6, <1>7 DEF Trails

\* It holds at the start and every step keeps it.
LEMMA TrailsInductive ==
  /\ Init => Trails
  /\ TypeOK /\ Trails /\ [Next]_vars => Trails'
<1>1. ASSUME events = <<>>, seen = task PROVE Trails
  <2>1. Len(events) = 0 /\ 0 <= MaxLag /\ 1 .. Len(events) = {}
    BY <1>1, QueueAssumption
  <2> QED
    BY <1>1, <2>1 DEF Trails
<1>2. Init => Trails
  BY <1>1 DEF Init
<1>3. ASSUME TypeOK, Trails, [Next]_vars PROVE Trails'
  <2>1. CASE UNCHANGED <<task, seen, events>>
    BY <1>3, <2>1 DEF Trails, Waiting
  <2>2. ASSUME NEW t \in Tasks, NEW r \in TaskRecord, Put(t, r) PROVE Trails'
    BY <1>3, <2>2, TrailsPut
  <2>3. ASSUME NEW t \in Tasks, Submit(t) PROVE Trails'
    <3>1. [phase |-> "Pending", reason |-> ""] \in TaskRecord
      BY DEF TaskRecord, Phases, Reasons
    <3> QED
      BY <2>2, <2>3, <3>1 DEF Submit
  <2>4. ASSUME NEW t \in Tasks, Delete(t) PROVE Trails'
    <3>1. [task[t] EXCEPT !.phase = "gone"] \in TaskRecord
      BY <1>3 DEF TypeOK, TaskRecord, Phases, Ended
    <3> QED
      BY <2>2, <2>4, <3>1 DEF Delete
  <2>5. ASSUME NEW t \in Tasks, Progress(t) PROVE Trails'
    <3>1. PICK p \in {"Verifying", "HumanIntervention", "Completed", "Failed"} :
            Put(t, [task[t] EXCEPT !.phase = p])
      BY <2>5 DEF Progress
    <3>2. [task[t] EXCEPT !.phase = p] \in TaskRecord
      BY <1>3 DEF TypeOK, TaskRecord, Phases, Busy, Ended
    <3> QED
      BY <2>2, <3>1, <3>2
  <2>6. ASSUME NEW t \in Tasks, Hold(t) PROVE Trails'
    <3>1. PICK reason \in Reasons : hold(t, reason)
      BY <1>3, <2>6 DEF Hold, HoldForSlot, HoldForWorkspace, HoldForStop, TypeOK, PassRecord,
                       Reasons
    <3>2. [phase |-> "Pending", reason |-> reason] \in TaskRecord
      BY DEF TaskRecord, Phases
    <3> QED
      BY <2>1, <2>2, <3>1, <3>2 DEF hold, Abort
  <2>7. ASSUME NEW t \in Tasks, NEW r \in Readings, dispatch(t, r) PROVE Trails'
    <3>1. [phase |-> "Running", reason |-> "SlotAvailable"] \in TaskRecord
      BY DEF TaskRecord, Phases, Busy, Reasons
    <3> QED
      BY <2>1, <2>2, <2>7, <3>1 DEF dispatch, Abort
  <2>8. CASE Sync
    BY <1>3, <2>8, TrailsSync
  <2>9. CASE Restart
    <3>1. events' = <<>> /\ seen' = task'
      BY <2>9, Zenon DEF Restart
    <3>2. Len(events') = 0 /\ 0 <= MaxLag /\ 1 .. Len(events') = {}
      BY <3>1, QueueAssumption
    <3> QED
      BY <3>1, <3>2 DEF Trails
  <2> QED
    BY <1>3, <2>1, <2>3, <2>4, <2>5, <2>6, <2>7, <2>8, <2>9
    DEF Next, Visit, StopQueue, Abort, buildStatefulSet, WorkspaceChange, BeginPass, EndPass,
        PassFails, vars
<1> QED
  BY <1>2, <1>3

\* So the cache shows all but MaxLag of the tasks that hold a session.
LEMMA SeenCount ==
  ASSUME TypeOK, Trails
  PROVE  Cardinality(Occupying(task)) <= Cardinality(Occupying(seen)) + MaxLag
<1> DEFINE K == {u \in Tasks : Waiting(u)}
           f == [i \in 1 .. Len(events) |-> events[i].key]
<1>1. /\ Len(events) \in Nat /\ MaxLag \in Nat /\ Len(events) <= MaxLag
      /\ events \in Seq(Event)
  BY QueueAssumption, LenProperties DEF TypeOK, Trails
<1>2. \A i \in 1 .. Len(events) : events[i].key \in K
  <2> SUFFICES ASSUME NEW i \in 1 .. Len(events) PROVE events[i].key \in K
    OBVIOUS
  <2>1. events[i] \in Event
    BY <1>1, ElementOfSeq
  <2> QED
    BY <2>1 DEF Event, Waiting
<1>3. f \in [1 .. Len(events) -> K]
  BY <1>2
<1>4. f \in Surjection(1 .. Len(events), K)
  <2>1. \A u \in K : \E i \in 1 .. Len(events) : f[i] = u
    BY DEF Waiting
  <2> QED
    BY <1>3, <2>1, Fun_IsSurj
<1>5. /\ IsFiniteSet(1 .. Len(events))
      /\ Cardinality(1 .. Len(events)) = Len(events)
  <2>1. /\ IsFiniteSet(1 .. Len(events))
        /\ Cardinality(1 .. Len(events)) =
             IF 1 > Len(events) THEN 0 ELSE Len(events) - 1 + 1
    <3>1. 1 \in Int /\ Len(events) \in Int
      BY <1>1
    <3> QED
      BY <3>1, FS_Interval
  <2> QED
    BY <1>1, <2>1
<1>6. IsFiniteSet(K) /\ Cardinality(K) <= Len(events) /\ Cardinality(K) \in Nat
  BY <1>4, <1>5, FS_Surjection, FS_CardinalityType
<1>7. Occupying(task) \subseteq Occupying(seen) \cup K
  BY DEF Occupying, Trails
<1>8. /\ IsFiniteSet(Occupying(seen) \cup K)
      /\ Cardinality(Occupying(seen) \cup K) <= Cardinality(Occupying(seen)) + Cardinality(K)
  <2>1. IsFiniteSet(Occupying(seen)) /\ Cardinality(Occupying(seen)) \in Nat
    BY OccupyingFinite
  <2>2. Cardinality(Occupying(seen) \cap K) \in Nat
    <3>1. Occupying(seen) \cap K \subseteq K
      OBVIOUS
    <3> QED
      BY <1>6, <3>1, FS_Subset, FS_CardinalityType
  <2>3. /\ IsFiniteSet(Occupying(seen) \cup K)
        /\ Cardinality(Occupying(seen) \cup K) =
             Cardinality(Occupying(seen)) + Cardinality(K) - Cardinality(Occupying(seen) \cap K)
    BY <1>6, <2>1, FS_Union
  <2> QED
    BY <1>6, <2>1, <2>2, <2>3
<1>9. Cardinality(Occupying(task)) <= Cardinality(Occupying(seen) \cup K)
  BY <1>7, <1>8, FS_Subset
<1>10. /\ Cardinality(Occupying(task)) \in Nat /\ Cardinality(Occupying(seen)) \in Nat
       /\ Cardinality(Occupying(seen) \cup K) \in Nat
  BY <1>8, OccupyingFinite, FS_CardinalityType
<1> HIDE DEF K
<1> QED
  BY <1>1, <1>6, <1>8, <1>9, <1>10

-----------------------------------------------------------------------------
(* The concurrency limit *)

\* The count a pass works with is below the truth by no more than the cache
\* trailed when it was taken: tasks leave their sessions during a pass, and
\* only the pass itself gives sessions out.
Counted == loop.on => Cardinality(Occupying(task)) <= loop.running + MaxLag

LimitInv == TypeOK /\ Trails /\ Counted /\ OverrunBounded

\* OverrunBounded, for any number of tasks and slots and however far the
\* cache trails: what the single worker of taskqueue.go:126-130 keeps of the
\* limit.
THEOREM OverrunIsBounded == Spec => []OverrunBounded
<1>1. Init => LimitInv
  <2> SUFFICES ASSUME Init PROVE LimitInv
    OBVIOUS
  <2>1. Occupying(task) = {}
    BY DEF Init, Occupying, NewTask, Busy
  <2>2. Cardinality(Occupying(task)) = 0
    BY <2>1, FS_EmptySet
  <2>3. TypeOK /\ Trails
    BY TypeInitial, TrailsInductive
  <2>4. loop = NoLoop
    BY DEF Init
  <2>5. 0 <= Limit + MaxLag
    BY QueueAssumption
  <2> QED
    BY <2>2, <2>3, <2>4, <2>5, NoLoopIdle DEF LimitInv, Counted, OverrunBounded
<1>2. ASSUME LimitInv, [Next]_vars PROVE LimitInv'
  <2> USE <1>2 DEF LimitInv
  <2> DEFINE N == Cardinality(Occupying(task))
  <2>1. /\ N \in Nat /\ N' \in Nat /\ Limit \in Nat /\ MaxLag \in Nat
        /\ loop.running \in Nat
    BY OccupyingFinite, QueueAssumption DEF TypeOK, PassRecord
  <2>2. TypeOK' /\ Trails'
    BY TypeStep, TrailsInductive
  <2>3. ASSUME Occupying(task') \subseteq Occupying(task)
        PROVE  N' <= N
    BY <2>3, OccupyingShrinks
  <2>4. ASSUME NEW t \in Tasks, NEW r, r.phase \notin Busy, Put(t, r)
        PROVE  N' <= N
    BY <2>3, <2>4 DEF Put, Occupying, TypeOK
  \* Steps that give out no session and leave the count of the pass alone.
  <2>5. ASSUME N' <= N, loop'.on => loop.on /\ loop'.running = loop.running
        PROVE  LimitInv'
    BY <2>1, <2>2, <2>5 DEF Counted, OverrunBounded
  <2>6. ASSUME NEW t \in Tasks, Submit(t) PROVE LimitInv'
    BY <2>4, <2>5, <2>6 DEF Submit, Busy
  <2>7. ASSUME NEW t \in Tasks, Delete(t) PROVE LimitInv'
    BY <2>4, <2>5, <2>7 DEF Delete, Busy, TypeOK, TaskRecord
  <2>8. ASSUME NEW t \in Tasks, Progress(t) PROVE LimitInv'
    <3>1. PICK p \in {"Verifying", "HumanIntervention", "Completed", "Failed"} :
            Put(t, [task[t] EXCEPT !.phase = p])
      BY <2>8 DEF Progress
    <3>2. Occupying(task') \subseteq Occupying(task)
      BY <2>8, <3>1 DEF Progress, Put, Occupying, TypeOK, TaskRecord
    <3> QED
      BY <2>3, <2>5, <2>8, <3>1, <3>2 DEF Progress
  <2>9. ASSUME NEW t \in Tasks, Hold(t) PROVE LimitInv'
    <3>1. PICK reason : hold(t, reason)
      BY <2>9 DEF Hold, HoldForSlot, HoldForWorkspace, HoldForStop
    <3>2. loop'.on => loop.on /\ loop'.running = loop.running
      <4>1. CASE loop' = Held(t, reason)
        BY <4>1, VisitedFields
      <4>2. CASE loop' = NoLoop
        BY <4>2, NoLoopIdle
      <4> QED
        BY <3>1, <4>1, <4>2 DEF hold, Abort
    <3>3. CASE UNCHANGED task
      BY <2>1, <2>5, <3>2, <3>3 DEF Occupying
    <3>4. CASE Put(t, [phase |-> "Pending", reason |-> reason])
      BY <2>4, <2>5, <3>2, <3>4 DEF Busy
    <3> QED
      BY <3>1, <3>3, <3>4 DEF hold, Abort
  <2>10. ASSUME NEW t \in Tasks, NEW r \in Readings, StopQueue(t, r) PROVE LimitInv'
    <3>1. loop'.on => loop.on /\ loop'.running = loop.running
      BY <2>10 DEF StopQueue, TypeOK, PassRecord
    <3> QED
      BY <2>1, <2>5, <2>10, <3>1 DEF StopQueue, Occupying
  <2>11. ASSUME NEW t \in Tasks, NEW r \in Readings, dispatch(t, r) PROVE LimitInv'
    <3>1. CASE Abort
      BY <2>1, <2>5, <3>1, NoLoopIdle DEF Abort
    <3>2. CASE /\ Put(t, [phase |-> "Running", reason |-> "SlotAvailable"])
               /\ loop' = [Visited(t) EXCEPT !.running = @ + 1]
      <4>1. Occupying(task') \subseteq Occupying(task) \cup {t}
        BY <3>2 DEF Put, Occupying, TypeOK
      <4>2. N' <= N + 1
        BY <4>1, OccupyingGrows
      <4>3. loop'.running = loop.running + 1
        BY <3>2, VisitedFields
      <4>4. loop.on /\ loop.running < Limit
        BY <2>11 DEF dispatch, Judged, At, SlotFree
      <4>5. N' <= loop'.running + MaxLag /\ N' <= Limit + MaxLag
        BY <2>1, <4>2, <4>3, <4>4 DEF Counted
      <4> QED
        BY <2>2, <4>5 DEF Counted, OverrunBounded
    <3> QED
      BY <2>11, <3>1, <3>2 DEF dispatch
  <2>12. CASE BeginPass
    <3>1. UNCHANGED task /\ loop'.running = Cardinality(Occupying(seen))
      BY <2>12 DEF BeginPass
    <3>2. N' = N
      BY <3>1
    <3>3. N <= loop'.running + MaxLag
      BY <3>1, SeenCount
    <3> QED
      BY <2>1, <2>2, <3>2, <3>3 DEF Counted, OverrunBounded
  <2>13. CASE EndPass \/ PassFails \/ Restart
    <3>1. UNCHANGED task /\ loop' = NoLoop
      BY <2>13, Zenon DEF EndPass, PassFails, Abort, Restart
    <3>2. N' <= N
      BY <2>1, <3>1
    <3> QED
      BY <2>5, <3>1, <3>2, NoLoopIdle
  <2>14. CASE UNCHANGED <<task, loop>>
    BY <2>1, <2>5, <2>14 DEF Occupying
  <2> QED
    BY <2>6, <2>7, <2>8, <2>9, <2>10, <2>11, <2>12, <2>13, <2>14
    DEF Next, Visit, Sync, buildStatefulSet, WorkspaceChange, vars
<1>3. LimitInv => OverrunBounded
  BY DEF LimitInv
<1> QED
  BY <1>1, <1>2, <1>3, PTL DEF Spec

-----------------------------------------------------------------------------
(* The order of the queue *)

Listed(u) == loop.on /\ loop.pending[u].phase = "Pending"

\* A task the pass listed and has visited, as long as the pass may still
\* dispatch: it was handed out, deleted, or skipped for its workspace.
Settled(u) ==
  Listed(u) /\ u \notin loop.todo /\ loop.stop = "" /\ SlotFree =>
    HandedOut(u) \/ u \in loop.skipped

OrderInv == \A u \in Tasks : Settled(u)

\* A task handed out stays so.
LEMMA StaysHandedOut ==
  ASSUME TypeOK, TodoPending, [Next]_vars, NEW u \in Tasks, HandedOut(u)
  PROVE  HandedOut(u)'
<1>1. CASE task'[u] = task[u]
  BY <1>1 DEF HandedOut
<1>2. CASE task'[u] # task[u]
  <2>1. Next
    BY <1>2 DEF vars
  <2> QED
    BY <1>2, <2>1, HandedOutStep DEF HandedOut, Busy, Ended
<1> QED
  BY <1>1, <1>2

\* A count that leaves room after it was raised left room before.
LEMMA StrictlyLess ==
  ASSUME NEW n \in Nat, NEW m \in Nat, n + 1 < m
  PROVE  n < m
OBVIOUS

\* Every step keeps what a pass knows.
LEMMA OrderStep ==
  ASSUME TypeOK, TodoPending, OrderInv, [Next]_vars
  PROVE  OrderInv'
<1> SUFFICES ASSUME NEW u \in Tasks, Listed(u)', u \notin loop'.todo, loop'.stop = "", SlotFree'
             PROVE  HandedOut(u)' \/ u \in loop'.skipped
  BY DEF OrderInv, Settled
<1>1. loop' # NoLoop
  BY NoLoopIdle DEF Listed
<1>2. loop.running \in Nat /\ Limit \in Nat
  BY QueueAssumption DEF TypeOK, PassRecord
<1>3. ASSUME Listed(u), u \notin loop.todo, loop.stop = "", SlotFree,
             loop.skipped \subseteq loop'.skipped
      PROVE  HandedOut(u)' \/ u \in loop'.skipped
  BY <1>3, StaysHandedOut DEF OrderInv, Settled
<1>4. CASE UNCHANGED loop
  BY <1>3, <1>4 DEF Listed, SlotFree
<1>5. ASSUME NEW t \in Tasks, Hold(t) PROVE HandedOut(u)' \/ u \in loop'.skipped
  <2>1. PICK reason : /\ At(t) /\ hold(t, reason)
                      /\ loop.stop = "" /\ SlotFree => reason = "WorkspaceNotReady"
    BY <1>5 DEF Hold, HoldForSlot, HoldForWorkspace, HoldForStop
  <2>2. loop' = Held(t, reason)
    BY <1>1, <2>1 DEF hold, Abort
  <2>3. /\ loop'.on = loop.on /\ loop'.pending = loop.pending
        /\ loop'.todo = loop.todo \ {t} /\ loop'.stop = loop.stop
        /\ loop'.running = loop.running /\ loop.skipped \subseteq loop'.skipped
        /\ reason = "WorkspaceNotReady" => t \in loop'.skipped
    BY <2>2, VisitedFields
  <2>4. Listed(u) /\ loop.stop = "" /\ SlotFree
    BY <2>3 DEF Listed, SlotFree
  <2>5. CASE u = t
    BY <2>1, <2>3, <2>4, <2>5
  <2>6. CASE u # t
    BY <1>3, <2>3, <2>4, <2>6
  <2> QED
    BY <2>5, <2>6
<1>6. ASSUME NEW t \in Tasks, NEW r \in Readings, StopQueue(t, r) PROVE FALSE
  <2>1. StopReason(r) # ""
    BY <1>6 DEF StopQueue, StopReason
  <2>2. loop'.stop = StopReason(r)
    BY <1>6 DEF StopQueue, TypeOK, PassRecord
  <2> QED
    BY <2>1, <2>2
<1>7. ASSUME NEW t \in Tasks, NEW r \in Readings, dispatch(t, r)
      PROVE  HandedOut(u)' \/ u \in loop'.skipped
  <2>1. /\ Put(t, [phase |-> "Running", reason |-> "SlotAvailable"])
        /\ loop' = [Visited(t) EXCEPT !.running = @ + 1]
    BY <1>1, <1>7 DEF dispatch, Abort
  <2>2. /\ loop'.on = loop.on /\ loop'.pending = loop.pending
        /\ loop'.todo = loop.todo \ {t} /\ loop'.stop = loop.stop
        /\ loop'.running = loop.running + 1 /\ loop'.skipped = loop.skipped
    BY <2>1, VisitedFields
  <2>3. Listed(u) /\ loop.stop = ""
    BY <2>2 DEF Listed
  <2>4. SlotFree
    <3>1. loop'.running < Limit
      BY DEF SlotFree
    <3>2. loop'.running = loop.running + 1
      BY <2>2
    <3>3. loop.running < Limit
      BY <1>2, <3>1, <3>2, StrictlyLess
    <3> QED
      BY <3>3 DEF SlotFree
  <2>5. CASE u = t
    BY <2>1, <2>5 DEF Put, TypeOK, HandedOut, Busy
  <2>6. CASE u # t
    BY <1>3, <2>2, <2>3, <2>4, <2>6
  <2> QED
    BY <2>5, <2>6
<1>8. CASE BeginPass
  <2>1. /\ loop'.pending[u] = IF u \in Pending(seen) THEN seen[u] ELSE NewTask
        /\ loop'.todo = Pending(seen)
    BY <1>8 DEF BeginPass
  <2>2. NewTask.phase # "Pending"
    BY DEF NewTask
  <2> QED
    BY <2>1, <2>2 DEF Listed
<1> QED
  BY <1>1, <1>4, <1>5, <1>6, <1>7, <1>8
  DEF Next, Visit, Submit, Delete, Progress, Sync, buildStatefulSet, WorkspaceChange, EndPass,
      PassFails, Abort, Restart, vars

\* InOrder, for any number of tasks and slots and however far the cache
\* trails (taskqueue.go:153-200).
THEOREM OrderKept == Spec => InOrder
<1>1. Init => OrderInv
  BY NoLoopIdle DEF Init, OrderInv, Settled, Listed
<1>2. TypeOK /\ TodoPending /\ OrderInv /\ [Next]_vars => [InOrderStep]_vars
  <2> SUFFICES ASSUME TypeOK, TodoPending, OrderInv, Next, NEW t \in Tasks,
                      task[t].phase = "Pending", task'[t].phase = "Running",
                      NEW u \in Overtaken(t)
               PROVE  u \in loop.skipped
    BY DEF InOrderStep
  <2>1. PICK v \in Tasks, r \in Readings : dispatch(v, r) /\ v = t
    <3>1. ASSUME NEW v \in Tasks, NEW r, Put(v, r)
          PROVE  task'[t] = IF v = t THEN r ELSE task[t]
      BY <3>1 DEF Put, TypeOK
    <3>2. ASSUME NEW v \in Tasks, Submit(v) \/ Hold(v) PROVE FALSE
      <4>1. CASE UNCHANGED task
        BY <4>1
      <4>2. ASSUME NEW reason, Put(v, [phase |-> "Pending", reason |-> reason]) PROVE FALSE
        BY <3>1, <4>2
      <4>3. CASE Submit(v)
        BY <4>2, <4>3 DEF Submit
      <4>4. CASE Hold(v)
        BY <4>1, <4>2, <4>4
        DEF Hold, HoldForSlot, HoldForWorkspace, HoldForStop, hold, Abort
      <4> QED
        BY <3>2, <4>3, <4>4
    <3>3. ASSUME NEW v \in Tasks, Delete(v) PROVE FALSE
      <4>1. [task[v] EXCEPT !.phase = "gone"].phase = "gone"
        BY PhaseWritten DEF TypeOK
      <4> QED
        BY <3>1, <3>3, <4>1 DEF Delete
    <3>4. ASSUME NEW v \in Tasks, Progress(v) PROVE FALSE
      <4>1. PICK p \in {"Verifying", "HumanIntervention", "Completed", "Failed"} :
              Put(v, [task[v] EXCEPT !.phase = p])
        BY <3>4 DEF Progress
      <4>2. [task[v] EXCEPT !.phase = p].phase = p
        BY PhaseWritten DEF TypeOK
      <4> QED
        BY <3>1, <4>1, <4>2
    <3>5. ASSUME NEW v \in Tasks, NEW r \in Readings, dispatch(v, r) PROVE v = t
      BY <3>1, <3>5 DEF dispatch, Abort
    <3>6. ASSUME UNCHANGED task PROVE FALSE
      BY <3>6
    <3> QED
      BY <3>2, <3>3, <3>4, <3>5, <3>6
      DEF Next, Visit, StopQueue, buildStatefulSet, WorkspaceChange, Sync, BeginPass,
          EndPass, PassFails, Abort, Restart
  <2>2. u \in Tasks /\ u < t /\ task[u].phase = "Pending" /\ loop.pending[u].phase = "Pending"
    BY DEF Overtaken, Pending
  <2>3. loop.on /\ loop.stop = "" /\ SlotFree /\ \A w \in loop.todo : t <= w
    BY <2>1 DEF dispatch, Judged, At
  <2>4. u \notin loop.todo
    <3>1. u \in Nat /\ t \in Nat
      BY <2>2, QueueAssumption
    <3>2. ~(t <= u)
      BY <2>2, <3>1
    <3> QED
      BY <2>3, <3>2
  <2>5. ~HandedOut(u)
    BY <2>2 DEF HandedOut, Busy, Ended
  <2> QED
    BY <2>2, <2>3, <2>4, <2>5 DEF OrderInv, Settled, Listed
<1> QED
  BY <1>1, <1>2, OrderStep, TodoPendingInductive, TypeCorrect, PTL DEF Spec, InOrder
=============================================================================
