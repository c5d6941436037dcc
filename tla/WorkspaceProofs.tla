-------------------------- MODULE WorkspaceProofs --------------------------
(***************************************************************************)
(* Proofs about Workspace: its types and, where every Workspace asks for a *)
(* branch of its own, that only a trailing list makes two share a name and *)
(* that otherwise no volume goes before its gate opens.                    *)
(***************************************************************************)
EXTENDS Workspace, TLAPS

\* Each way the passes change fields of an object keeps it typed.
LEMMA Updates ==
  ASSUME NEW r \in WorkspaceRecord
  PROVE  /\ \A l \in Lives : [r EXCEPT !.life = l] \in WorkspaceRecord
         /\ \A l \in Lives, c \in 0 .. MaxSecond :
              [r EXCEPT !.life = l, !.created = c] \in WorkspaceRecord
         /\ \A l \in Lives, b \in BOOLEAN :
              [r EXCEPT !.finalizer = b, !.life = l] \in WorkspaceRecord
         /\ \A p \in Phases : [r EXCEPT !.phase = p] \in WorkspaceRecord
         /\ \A e \in Snapshots : [r EXCEPT !.evac = e] \in WorkspaceRecord
         /\ \A i \in Names \cup {None} : [r EXCEPT !.id = i] \in WorkspaceRecord
         /\ \A i \in Names \cup {None}, p \in Phases :
              [r EXCEPT !.id = i, !.phase = p] \in WorkspaceRecord
         /\ \A i \in Names \cup {None}, p \in Phases, b \in BOOLEAN :
              [r EXCEPT !.phase = p, !.id = i, !.dup = b] \in WorkspaceRecord
         /\ \A p \in Phases, b \in BOOLEAN :
              [r EXCEPT !.phase = p, !.resume = b] \in WorkspaceRecord
<1> DEFINE S == 0 .. MaxSecond
           N == Names \cup {None}
           E == Snapshots \cup {None}
           R == [life : Lives, finalizer : BOOLEAN, created : S, phase : Phases,
                 id : N, dup : BOOLEAN, resume : BOOLEAN, evac : E]
<1>1. WorkspaceRecord = R /\ Snapshots \subseteq E
  BY DEF WorkspaceRecord
<1> HIDE DEF S, N, E
<1>2. \A l \in Lives : [r EXCEPT !.life = l] \in R
  BY <1>1
<1>3. \A l \in Lives, c \in S : [r EXCEPT !.life = l, !.created = c] \in R
  BY <1>1
<1>4. \A l \in Lives, b \in BOOLEAN : [r EXCEPT !.finalizer = b, !.life = l] \in R
  BY <1>1
<1>5. \A p \in Phases : [r EXCEPT !.phase = p] \in R
  BY <1>1
<1>6. \A e \in E : [r EXCEPT !.evac = e] \in R
  BY <1>1
<1>7. \A i \in N : [r EXCEPT !.id = i] \in R
  BY <1>1
<1>8. \A i \in N, p \in Phases : [r EXCEPT !.id = i, !.phase = p] \in R
  BY <1>1
<1>9. \A i \in N, p \in Phases, b \in BOOLEAN :
        [r EXCEPT !.phase = p, !.id = i, !.dup = b] \in R
  BY <1>1
<1>10. \A p \in Phases, b \in BOOLEAN : [r EXCEPT !.phase = p, !.resume = b] \in R
  BY <1>1
<1> HIDE DEF R
<1> QED
  BY <1>1, <1>2, <1>3, <1>4, <1>5, <1>6, <1>7, <1>8, <1>9, <1>10 DEF S, N

\* What a pass writes over an object is typed when the object is.
LEMMA WriteType ==
  ASSUME TypeOK, NEW w \in Workspaces, NEW r \in WorkspaceRecord, Write(w, r)
  PROVE  ws' \in [Workspaces -> WorkspaceRecord]
<1>1. [r EXCEPT !.finalizer = TRUE] \in WorkspaceRecord
  BY DEF WorkspaceRecord
<1> QED
  BY <1>1 DEF Write, TypeOK

\* The names DeriveResourceName returns are names, or none.
LEMMA ResolveType ==
  ASSUME TypeOK, NEW w \in Workspaces
  PROVE  resolveResourceName(w) \in Names \cup {None}
<1>1. ws[w].id \in Names \cup {None}
  BY DEF TypeOK, WorkspaceRecord
<1>2. Branch[w] \in Names /\ Label[Branch[w]] \in Names
  BY ConstantsAssumption DEF Names
<1> QED
  BY <1>1, <1>2 DEF resolveResourceName, DeriveResourceName

\* Creation leaves every object with an owner or without one.
LEMMA CreatedType ==
  ASSUME TypeOK, NEW n \in Names, NEW w \in Workspaces, NEW kinds
  PROVE  Created(n, w, kinds) \in [Names -> [Kinds -> Workspaces \cup {None}]]
BY DEF TypeOK, Created

\* The same for the StatefulSet's replicas.
LEMMA EnsureType ==
  ASSUME TypeOK, NEW n \in Names, NEW w \in Workspaces, NEW kinds,
         ensureCreated(n, w, kinds)
  PROVE  /\ res' \in [Names -> [Kinds -> Workspaces \cup {None}]]
         /\ replicas' \in [Names -> {0, 1}]
<1>1. res' \in [Names -> [Kinds -> Workspaces \cup {None}]]
  BY CreatedType DEF ensureCreated
<1>2. replicas' \in [Names -> {0, 1}]
  BY DEF TypeOK, ensureCreated
<1> QED
  BY <1>1, <1>2

\* Deletion by name keeps the types.
LEMMA DeletedType ==
  ASSUME TypeOK, NEW n \in Names, NEW kinds, deleted(n, kinds)
  PROVE  /\ res' \in [Names -> [Kinds -> Workspaces \cup {None}]]
         /\ replicas' \in [Names -> {0, 1}]
         /\ pod' \in [Names -> BOOLEAN]
         /\ work' \in [Names -> Snapshots]
<1>1. res' \in [Names -> [Kinds -> Workspaces \cup {None}]]
  BY DEF TypeOK, deleted
<1>2. replicas' \in [Names -> {0, 1}]
  BY DEF TypeOK, deleted
<1>3. pod' \in [Names -> BOOLEAN]
  BY DEF TypeOK, deleted
<1>4. work' \in [Names -> Snapshots]
  <2>1. 0 \in Snapshots
    BY ConstantsAssumption DEF Snapshots
  <2> QED
    BY <2>1 DEF TypeOK, deleted
<1> QED
  BY <1>1, <1>2, <1>3, <1>4

\* Scaling keeps the types.
LEMMA ScaleType ==
  ASSUME TypeOK, NEW n \in Names, NEW k \in {0, 1}, scaleStatefulSet(n, k)
  PROVE  replicas' \in [Names -> {0, 1}]
BY DEF TypeOK, scaleStatefulSet

\* No pass is under way, and none is stale.
LEMMA NoPassType ==
  NoPass \in [who : Workspaces \cup {None}, snap : Snapshots, stale : BOOLEAN]
<1>1. 0 \in Snapshots
  BY ConstantsAssumption DEF Snapshots
<1> QED
  BY <1>1 DEF NoPass

\* An object a pass works on is typed.
LEMMA FieldTypes ==
  ASSUME TypeOK, NEW w \in Workspaces
  PROVE  /\ ws[w] \in WorkspaceRecord
         /\ ws[w].id \in Names \cup {None}
         /\ ws[w].phase \in Phases
         /\ seen[w].id \in Names \cup {None}
         /\ seen[w].phase \in Phases
         /\ pass.snap \in Snapshots
BY DEF TypeOK, WorkspaceRecord, ListRecord

\* What the cache lists of an object is typed.
LEMMA EntryType ==
  ASSUME NEW r \in WorkspaceRecord
  PROVE  Entry(r) \in ListRecord
BY DEF WorkspaceRecord, ListRecord, Entry

\* The names given twice are names.
LEMMA NamedType ==
  ASSUME TypeOK, NEW w \in Workspaces, NEW n \in Names, Named(w, n)
  PROVE  raced' \subseteq Names
BY DEF Named, TypeOK

\* The document of a Ready pass keeps the types.
LEMMA ClaudeMDType ==
  ASSUME TypeOK, NEW w \in Workspaces, reconcileClaudeMD(w)
  PROVE  res' \in [Names -> [Kinds -> Workspaces \cup {None}]]
BY CreatedType, FieldTypes DEF reconcileClaudeMD, TypeOK

-----------------------------------------------------------------------------
\* The initial state is typed.
LEMMA TypeInitial == Init => TypeOK
<1> SUFFICES ASSUME Init PROVE TypeOK
  OBVIOUS
<1>1. Unborn \in WorkspaceRecord
  <2>1. 0 \in 0 .. MaxSecond
    BY ConstantsAssumption
  <2> QED
    BY <2>1 DEF Unborn, WorkspaceRecord, Lives, Phases
<1>2. 0 \in Snapshots /\ 0 \in 0 .. MaxSecond
  BY ConstantsAssumption DEF Snapshots
<1> QED
  BY <1>1, <1>2, NoPassType, EntryType DEF Init, TypeOK

\* Users, Pods and the garbage collector keep the types.
LEMMA TypeEnvironment ==
  ASSUME TypeOK, Environment
  PROVE  TypeOK'
<1> USE ConstantsAssumption
<1>1. ASSUME NEW w \in Workspaces, Interrupt(w)
      PROVE  pass' \in [who : Workspaces \cup {None}, snap : Snapshots, stale : BOOLEAN]
  BY <1>1 DEF Interrupt, TypeOK
<1>2. ASSUME NEW w \in Workspaces, CreateWorkspace(w) PROVE TypeOK'
  <2>1. [ws[w] EXCEPT !.life = "live", !.created = second] \in WorkspaceRecord
    BY Updates, FieldTypes DEF TypeOK, Lives
  <2>2. ws' = [ws EXCEPT ![w] = [ws[w] EXCEPT !.life = "live", !.created = second]]
    BY <1>2 DEF CreateWorkspace, TypeOK
  <2> QED
    BY <1>2, <2>1, <2>2 DEF CreateWorkspace, TypeOK
<1>3. ASSUME NEW w \in Workspaces, DeleteWorkspace(w) PROVE TypeOK'
  <2>1. PICK l \in Lives : ws' = [ws EXCEPT ![w] = [ws[w] EXCEPT !.life = l]]
    BY <1>3 DEF DeleteWorkspace, Lives
  <2>2. [ws[w] EXCEPT !.life = l] \in WorkspaceRecord
    BY Updates, FieldTypes
  <2>3. ws' \in [Workspaces -> WorkspaceRecord]
    BY <2>1, <2>2 DEF TypeOK
  <2>4. pass' \in [who : Workspaces \cup {None}, snap : Snapshots, stale : BOOLEAN]
    BY <1>1, <1>3 DEF DeleteWorkspace
  <2>5. UNCHANGED <<res, replicas, pod, work, second, seen, raced>>
    BY <1>3 DEF DeleteWorkspace
  <2> QED
    BY <2>3, <2>4, <2>5 DEF TypeOK
<1>4. ASSUME NEW w \in Workspaces, MarkActivity(w) PROVE TypeOK'
  <2>1. PICK b \in BOOLEAN : ws' = [ws EXCEPT ![w] = [ws[w] EXCEPT !.resume = b]]
    BY <1>4 DEF MarkActivity
  <2>2. [ws[w] EXCEPT !.resume = b] \in WorkspaceRecord
    <3>1. ws[w] \in WorkspaceRecord
      BY FieldTypes
    <3> QED
      BY <3>1 DEF WorkspaceRecord
  <2>3. ws' \in [Workspaces -> WorkspaceRecord]
    BY <2>1, <2>2 DEF TypeOK
  <2>4. pass' \in [who : Workspaces \cup {None}, snap : Snapshots, stale : BOOLEAN]
    BY <1>1, <1>4 DEF MarkActivity
  <2>5. UNCHANGED <<res, replicas, pod, work, second, seen, raced>>
    BY <1>4 DEF MarkActivity
  <2> QED
    BY <2>3, <2>4, <2>5 DEF TypeOK
<1>5. ASSUME NEW n \in Names, PodStart(n) \/ PodStop(n) PROVE TypeOK'
  <2>1. pod' \in [Names -> BOOLEAN]
    BY <1>5 DEF PodStart, PodStop, TypeOK
  <2> QED
    BY <1>5, <2>1 DEF PodStart, PodStop, TypeOK
<1>6. ASSUME NEW n \in Names, DoWork(n) PROVE TypeOK'
  <2>1. work[n] + 1 \in Snapshots
    BY <1>6 DEF DoWork, TypeOK, Snapshots
  <2> QED
    BY <1>6, <2>1 DEF DoWork, TypeOK
<1>7. ASSUME NEW n \in Names, NEW k \in Kinds, GarbageCollect(n, k) PROVE TypeOK'
  BY <1>7, DeletedType DEF GarbageCollect, TypeOK
<1>8. CASE Tick
  <2>1. second' \in 0 .. MaxSecond
    BY <1>8 DEF Tick, TypeOK
  <2> QED
    BY <1>8, <2>1 DEF Tick, TypeOK
<1>9. CASE Sync
  <2>1. seen' \in [Workspaces -> ListRecord]
    BY <1>9, EntryType DEF Sync, TypeOK
  <2> QED
    BY <1>9, <2>1 DEF Sync, TypeOK
<1> QED
  BY <1>2, <1>3, <1>4, <1>5, <1>6, <1>7, <1>8, <1>9 DEF Environment

\* Passes that provision or roll back keep the types.
LEMMA TypeProvisioning ==
  ASSUME TypeOK, NEW w \in Workspaces,
         \/ ReconcileIdle(w)
         \/ mirrorCanonical(w)
         \/ \E k \in 0 .. 6 : Provision(w, k)
         \/ markReady(w)
         \/ \E k \in 1 .. 6 : RollbackPartly(w, k)
         \/ failAndRollback(w)
         \/ FailWithoutRollback(w)
  PROVE  TypeOK'
<1>1. /\ ws[w] \in WorkspaceRecord
      /\ ws[w].id \in Names \cup {None}
      /\ resolveResourceName(w) \in Names \cup {None}
  BY FieldTypes, ResolveType
<1>2. [ws[w] EXCEPT !.phase = "Failed"] \in WorkspaceRecord
  BY <1>1, Updates DEF Phases
<1>3. CASE ReconcileIdle(w)
  BY <1>1, <1>3, WriteType DEF ReconcileIdle, TypeOK
<1>4. CASE mirrorCanonical(w)
  <2>1. PICK c \in Workspaces :
          Write(w, [ws[w] EXCEPT
             !.phase = IF seen[c].phase = "" THEN "Provisioning" ELSE seen[c].phase,
             !.id = seen[c].id,
             !.dup = TRUE])
    BY <1>4 DEF mirrorCanonical
  <2>2. /\ (IF seen[c].phase = "" THEN "Provisioning" ELSE seen[c].phase) \in Phases
        /\ seen[c].id \in Names \cup {None}
    BY FieldTypes DEF Phases
  <2>3. ws' \in [Workspaces -> WorkspaceRecord]
    BY <1>1, <2>1, <2>2, Updates, WriteType
  <2> QED
    BY <1>4, <2>3 DEF mirrorCanonical, TypeOK
<1>5. ASSUME NEW k \in 0 .. 6, Provision(w, k) PROVE TypeOK'
  <2> DEFINE n == resolveResourceName(w)
  <2>1. n \in Names /\ ensureCreated(n, w, First(CreateOrder, k))
    BY <1>1, <1>5 DEF Provision
  <2>2. ws' \in [Workspaces -> WorkspaceRecord]
    BY <1>1, <1>5, Updates, WriteType DEF Provision
  <2>3. raced' \subseteq Names
    BY <1>5, <2>1, NamedType DEF Provision
  <2> QED
    BY <1>5, <2>1, <2>2, <2>3, EnsureType DEF Provision, TypeOK
<1>6. CASE markReady(w)
  <2> DEFINE n == resolveResourceName(w)
  <2>1. n \in Names /\ ensureCreated(n, w, Kinds)
    BY <1>1, <1>6 DEF markReady, computeRunning
  <2>2. ws' \in [Workspaces -> WorkspaceRecord]
    BY <1>1, <1>6, Updates, WriteType DEF markReady, Phases
  <2>3. raced' \subseteq Names
    BY <1>6, <2>1, NamedType DEF markReady
  <2> QED
    BY <1>6, <2>1, <2>2, <2>3, EnsureType DEF markReady, TypeOK
<1>7. ASSUME NEW k \in 1 .. 6, RollbackPartly(w, k) PROVE TypeOK'
  <2>1. ws[w].id \in Names /\ deleted(ws[w].id, First(RollbackOrder, k))
    BY <1>1, <1>7 DEF RollbackPartly
  <2> QED
    BY <1>1, <1>7, <2>1, DeletedType, WriteType DEF RollbackPartly, TypeOK
<1>8. CASE failAndRollback(w)
  <2>1. ws[w].id \in Names /\ deleted(ws[w].id, Kinds)
    BY <1>1, <1>8 DEF failAndRollback
  <2> QED
    BY <1>2, <1>8, <2>1, DeletedType, WriteType DEF failAndRollback, TypeOK
<1>9. CASE FailWithoutRollback(w)
  BY <1>2, <1>9, WriteType DEF FailWithoutRollback, TypeOK
<1> QED
  BY <1>3, <1>4, <1>5, <1>6, <1>7, <1>8, <1>9

\* Passes over a Ready or a Suspended Workspace keep the types.
LEMMA TypeRunning ==
  ASSUME TypeOK, NEW w \in Workspaces,
         \/ ReconcileReady(w)
         \/ RequestEvacuation(w)
         \/ EvacuationRefused(w)
         \/ \E k \in 0 .. 2 : SuspendEvacuated(w, k)
         \/ \E k \in 1 .. 2 : SuspendUnevacuated(w, k)
         \/ ScaleUp(w)
         \/ reconcileResume(w)
  PROVE  TypeOK'
<1>1. /\ ws[w] \in WorkspaceRecord
      /\ ws[w].id \in Names \cup {None}
      /\ pass.snap \in Snapshots
  BY FieldTypes
<1>2. CASE ReconcileReady(w)
  BY <1>1, <1>2, WriteType, ClaudeMDType DEF ReconcileReady, TypeOK
<1>3. ASSUME \/ ReadyPass(w) /\ reconcileClaudeMD(w) /\ Write(w, ws[w])
             \/ ws' = [ws EXCEPT ![w].phase = "Terminating"] /\ UNCHANGED res
      PROVE  /\ ws' \in [Workspaces -> WorkspaceRecord]
             /\ res' \in [Names -> [Kinds -> Workspaces \cup {None}]]
  <2>1. CASE ReadyPass(w) /\ reconcileClaudeMD(w) /\ Write(w, ws[w])
    BY <1>1, <2>1, WriteType, ClaudeMDType
  <2>2. CASE ws' = [ws EXCEPT ![w].phase = "Terminating"] /\ UNCHANGED res
    <3>1. [ws[w] EXCEPT !.phase = "Terminating"] \in WorkspaceRecord
      BY <1>1, Updates DEF Phases
    <3>2. ws' = [ws EXCEPT ![w] = [ws[w] EXCEPT !.phase = "Terminating"]]
      BY <2>2
    <3> QED
      BY <2>2, <3>1, <3>2 DEF TypeOK
  <2> QED
    BY <1>3, <2>1, <2>2
<1>4. CASE RequestEvacuation(w)
  <2>1. work[ws[w].id] \in Snapshots
    BY <1>1, <1>4 DEF RequestEvacuation, computeRunning, TypeOK
  <2>2. pass' \in [who : Workspaces \cup {None}, snap : Snapshots, stale : BOOLEAN]
    BY <1>4, <2>1 DEF RequestEvacuation
  <2>3. /\ ws' \in [Workspaces -> WorkspaceRecord]
        /\ res' \in [Names -> [Kinds -> Workspaces \cup {None}]]
    BY <1>3, <1>4 DEF RequestEvacuation
  <2> QED
    BY <1>4, <2>2, <2>3 DEF RequestEvacuation, TypeOK
<1>5. CASE EvacuationRefused(w)
  <2>1. /\ ws' \in [Workspaces -> WorkspaceRecord]
        /\ res' \in [Names -> [Kinds -> Workspaces \cup {None}]]
    BY <1>3, <1>5 DEF EvacuationRefused
  <2> QED
    BY <1>5, <2>1 DEF EvacuationRefused, TypeOK
<1>6. ASSUME NEW r \in WorkspaceRecord, NEW k \in 0 .. 2, Stop(w, r, k)
      PROVE  /\ ws' \in [Workspaces -> WorkspaceRecord]
             /\ replicas' \in [Names -> {0, 1}]
  <2>1. [r EXCEPT !.phase = "Suspended"] \in WorkspaceRecord
    BY Updates DEF Phases
  <2>2. ws' \in [Workspaces -> WorkspaceRecord]
    BY <1>6, <2>1, WriteType DEF Stop
  <2>3. r.id \in Names \cup {None}
    BY DEF WorkspaceRecord
  <2>4. replicas' \in [Names -> {0, 1}]
    BY <1>6, <2>3, ScaleType DEF Stop, TypeOK
  <2> QED
    BY <2>2, <2>4
<1>7. ASSUME NEW k \in 0 .. 2, SuspendEvacuated(w, k) PROVE TypeOK'
  <2>1. [ws[w] EXCEPT !.evac = pass.snap] \in WorkspaceRecord
    BY <1>1, Updates
  <2> QED
    BY <1>6, <1>7, <2>1, NoPassType DEF SuspendEvacuated, Stop, TypeOK
<1>8. ASSUME NEW k \in 1 .. 2, SuspendUnevacuated(w, k) PROVE TypeOK'
  <2>1. k \in 0 .. 2
    OBVIOUS
  <2> QED
    BY <1>1, <1>6, <1>8, <2>1, ClaudeMDType DEF SuspendUnevacuated, Stop, TypeOK
<1>9. CASE ScaleUp(w)
  <2>1. replicas' \in [Names -> {0, 1}]
    BY <1>1, <1>9, ScaleType DEF ScaleUp
  <2> QED
    BY <1>1, <1>9, <2>1, WriteType DEF ScaleUp, TypeOK
<1>10. CASE reconcileResume(w)
  <2>1. replicas' \in [Names -> {0, 1}]
    BY <1>1, <1>10, ScaleType DEF reconcileResume, computeRunning
  <2>2. ws' \in [Workspaces -> WorkspaceRecord]
    BY <1>1, <1>10, Updates, WriteType DEF reconcileResume, Phases
  <2> QED
    BY <1>10, <2>1, <2>2 DEF reconcileResume, TypeOK
<1> QED
  BY <1>2, <1>4, <1>5, <1>7, <1>8, <1>9, <1>10

\* Only a Workspace with a resource name is evacuated.
PassNamed == \A w \in Workspaces : pass.who = w => ws[w].id # None

\* Passes that destroy keep the types.
LEMMA TypeDestroying ==
  ASSUME TypeOK, PassNamed, NEW w \in Workspaces,
         \/ DestroyUnowned(w)
         \/ \E k \in 0 .. 4 : DestroyEvacuated(w, k)
         \/ \E k \in 0 .. 4 : DestroyUnevacuated(w, k)
  PROVE  TypeOK'
<1>1. /\ ws[w] \in WorkspaceRecord
      /\ ws[w].id \in Names \cup {None}
      /\ pass.snap \in Snapshots
  BY FieldTypes
<1>2. CASE DestroyUnowned(w)
  <2>1. [ws[w] EXCEPT !.finalizer = FALSE, !.life = "gone"] \in WorkspaceRecord
    BY <1>1, Updates DEF Lives
  <2>2. ws' = [ws EXCEPT ![w] = [ws[w] EXCEPT !.finalizer = FALSE, !.life = "gone"]]
    BY <1>2 DEF DestroyUnowned, TypeOK
  <2> QED
    BY <1>2, <2>1, <2>2 DEF DestroyUnowned, TypeOK
<1>3. ASSUME NEW r \in WorkspaceRecord, r.id \in Names, NEW k \in 0 .. 4, Teardown(w, r, k)
      PROVE  /\ ws' \in [Workspaces -> WorkspaceRecord]
             /\ res' \in [Names -> [Kinds -> Workspaces \cup {None}]]
             /\ replicas' \in [Names -> {0, 1}]
             /\ pod' \in [Names -> BOOLEAN]
             /\ work' \in [Names -> Snapshots]
             /\ UNCHANGED <<second, seen, raced>>
  <2>1. [r EXCEPT !.finalizer = FALSE, !.life = "gone"] \in WorkspaceRecord
    BY Updates DEF Lives
  <2>2. ws' \in [Workspaces -> WorkspaceRecord]
    BY <1>3, <2>1 DEF Teardown, TypeOK
  <2> QED
    BY <1>3, <2>2, DeletedType DEF Teardown
<1>4. ASSUME NEW k \in 0 .. 4, DestroyEvacuated(w, k) PROVE TypeOK'
  <2>1. [ws[w] EXCEPT !.evac = pass.snap] \in WorkspaceRecord
    BY <1>1, Updates
  <2>2. [ws[w] EXCEPT !.evac = pass.snap].id \in Names
    BY <1>1, <1>4 DEF DestroyEvacuated, PassNamed, WorkspaceRecord
  <2> QED
    BY <1>3, <1>4, <2>1, <2>2, NoPassType DEF DestroyEvacuated, TypeOK
<1>5. ASSUME NEW k \in 0 .. 4, DestroyUnevacuated(w, k) PROVE TypeOK'
  <2>1. [ws[w] EXCEPT !.phase = "Terminating"] \in WorkspaceRecord
    BY <1>1, Updates DEF Phases
  <2>2. [ws[w] EXCEPT !.phase = "Terminating"].id \in Names
    BY <1>1, <1>5 DEF DestroyUnevacuated, WorkspaceRecord
  <2> QED
    BY <1>3, <1>5, <2>1, <2>2 DEF DestroyUnevacuated, TypeOK
<1> QED
  BY <1>2, <1>4, <1>5

\* What a user's request to one Workspace leaves alone.
LEMMA UserFrame ==
  ASSUME TypeOK, NEW w \in Workspaces,
         CreateWorkspace(w) \/ DeleteWorkspace(w) \/ MarkActivity(w)
  PROVE  /\ \A v \in Workspaces : /\ ws'[v].id = ws[v].id
                                  /\ ws'[v].dup = ws[v].dup
                                  /\ ws'[v].phase = ws[v].phase
                                  /\ ws'[v].finalizer = ws[v].finalizer
         /\ \A v \in Workspaces \ {w} : ws'[v] = ws[v]
         /\ \/ ws'[w].life = ws[w].life
            \/ ws[w].life = "unborn" /\ ws'[w].life = "live"
            \/ ws[w].life = "live" /\ ws'[w].life = "deleting"
            \/ /\ ws[w].life = "live" /\ ws[w].finalizer = FALSE
               /\ ws'[w].life = "gone"
<1>1. ws \in [Workspaces -> WorkspaceRecord] /\ ws[w] \in WorkspaceRecord
  BY DEF TypeOK
<1>2. ASSUME \A v \in Workspaces \ {w} : ws'[v] = ws[v],
             ws'[w].id = ws[w].id, ws'[w].dup = ws[w].dup, ws'[w].phase = ws[w].phase,
             ws'[w].finalizer = ws[w].finalizer
      PROVE  \A v \in Workspaces : /\ ws'[v].id = ws[v].id
                                   /\ ws'[v].dup = ws[v].dup
                                   /\ ws'[v].phase = ws[v].phase
                                   /\ ws'[v].finalizer = ws[v].finalizer
  BY <1>2
<1>3. CASE CreateWorkspace(w)
  <2> DEFINE r == [ws[w] EXCEPT !.life = "live", !.created = second]
  <2>1. ws' = [ws EXCEPT ![w] = r]
    BY <1>1, <1>3 DEF CreateWorkspace
  <2>2. /\ r.life = "live" /\ r.id = ws[w].id /\ r.dup = ws[w].dup
        /\ r.phase = ws[w].phase /\ r.finalizer = ws[w].finalizer
    BY <1>1 DEF WorkspaceRecord
  <2> HIDE DEF r
  <2> QED
    <3>1. ws'[w] = r /\ \A v \in Workspaces \ {w} : ws'[v] = ws[v]
      BY <1>1, <2>1
    <3> QED
      <4>1. \A v \in Workspaces : /\ ws'[v].id = ws[v].id
                                  /\ ws'[v].dup = ws[v].dup
                                  /\ ws'[v].phase = ws[v].phase
                                  /\ ws'[v].finalizer = ws[v].finalizer
        BY <1>2, <2>2, <3>1
      <4>2. ws[w].life = "unborn" /\ ws'[w].life = "live"
        BY <1>3, <2>2, <3>1 DEF CreateWorkspace
      <4> QED
        BY <3>1, <4>1, <4>2, Zenon
<1>4. CASE DeleteWorkspace(w)
  <2> DEFINE l == IF ws[w].finalizer THEN "deleting" ELSE "gone"
             r == [ws[w] EXCEPT !.life = l]
  <2>1. ws' = [ws EXCEPT ![w] = r] /\ ws[w].life = "live"
    BY <1>1, <1>4 DEF DeleteWorkspace
  <2>2. /\ r.life = l /\ r.id = ws[w].id /\ r.dup = ws[w].dup
        /\ r.phase = ws[w].phase /\ r.finalizer = ws[w].finalizer
    BY <1>1 DEF WorkspaceRecord
  <2>3. l = "deleting" \/ (ws[w].finalizer = FALSE /\ l = "gone")
    <3>1. ws[w].finalizer \in BOOLEAN
      BY <1>1 DEF WorkspaceRecord
    <3> QED
      BY <3>1, Zenon
  <2> HIDE DEF r, l
  <2> QED
    <3>1. ws'[w] = r /\ \A v \in Workspaces \ {w} : ws'[v] = ws[v]
      BY <1>1, <2>1
    <3> QED
      BY <1>2, <2>1, <2>2, <2>3, <3>1
<1>5. CASE MarkActivity(w)
  <2> DEFINE r == [ws[w] EXCEPT !.resume = (@ \/ ws[w].phase = "Suspended")]
  <2>1. ws' = [ws EXCEPT ![w] = r]
    BY <1>1, <1>5 DEF MarkActivity
  <2>2. /\ r.life = ws[w].life /\ r.id = ws[w].id /\ r.dup = ws[w].dup
        /\ r.phase = ws[w].phase /\ r.finalizer = ws[w].finalizer
    BY <1>1 DEF WorkspaceRecord
  <2> HIDE DEF r
  <2> QED
    <3>1. ws'[w] = r /\ \A v \in Workspaces \ {w} : ws'[v] = ws[v]
      BY <1>1, <2>1
    <3> QED
      <4>1. \A v \in Workspaces : /\ ws'[v].id = ws[v].id
                                  /\ ws'[v].dup = ws[v].dup
                                  /\ ws'[v].phase = ws[v].phase
                                  /\ ws'[v].finalizer = ws[v].finalizer
        BY <1>2, <2>2, <3>1
      <4>2. ws'[w].life = ws[w].life
        BY <2>2, <3>1
      <4> QED
        BY <3>1, <4>1, <4>2, Zenon
<1> QED
  BY <1>3, <1>4, <1>5

\* While a pass waits for an evacuation nobody takes its Workspace's name.
LEMMA PassNamedStep ==
  ASSUME TypeOK, PassNamed, [Next]_vars
  PROVE  PassNamed'
<1>1. CASE pass' = NoPass
  BY <1>1, ConstantsAssumption DEF PassNamed, NoPass
<1>2. CASE WorkerFree /\ UNCHANGED pass
  BY <1>2, ConstantsAssumption DEF PassNamed, WorkerFree
<1>3. CASE UNCHANGED ws /\ UNCHANGED pass
  BY <1>3 DEF PassNamed
<1>4. ASSUME NEW w \in Workspaces, CreateWorkspace(w) \/ DeleteWorkspace(w) \/ MarkActivity(w)
      PROVE  PassNamed'
  <2>1. pass'.who = pass.who
    BY <1>4 DEF CreateWorkspace, DeleteWorkspace, MarkActivity, Interrupt, TypeOK
  <2>2. \A v \in Workspaces : ws'[v].id = ws[v].id
    BY <1>4, UserFrame
  <2> QED
    BY <2>1, <2>2 DEF PassNamed
<1>5. ASSUME NEW w \in Workspaces, RequestEvacuation(w) PROVE PassNamed'
  <2>1. pass'.who = w /\ ws[w].id # None
    BY <1>5 DEF RequestEvacuation, computeRunning
  <2>2. ws'[w].id = ws[w].id
    BY <1>5 DEF RequestEvacuation, Write, TypeOK, WorkspaceRecord
  <2> QED
    BY <2>1, <2>2 DEF PassNamed
<1>6. ASSUME NEW w \in Workspaces, Reconcile(w) PROVE PassNamed'
  BY <1>1, <1>2, <1>5, <1>6
  DEF Reconcile, ReconcileIdle, mirrorCanonical, Provision, markReady, RollbackPartly,
      failAndRollback, FailWithoutRollback, Unprovisioned, Provisioning, Live, Deleting,
      ReconcileReady, ReadyPass, EvacuationRefused, SuspendEvacuated, SuspendUnevacuated,
      SuspendedPass, ScaleUp, reconcileResume, DestroyUnowned, DestroyEvacuated,
      DestroyUnevacuated
<1>7. CASE Environment
  BY <1>3, <1>4, <1>7
  DEF Environment, PodStart, PodStop, DoWork, GarbageCollect, Tick, Sync
<1> QED
  BY <1>1, <1>3, <1>6, <1>7 DEF Next, EvacuationFails, vars

\* Every step keeps the types.
LEMMA TypeStep ==
  ASSUME TypeOK, PassNamed, [Next]_vars
  PROVE  TypeOK'
<1>1. CASE Environment
  BY <1>1, TypeEnvironment
<1>2. CASE EvacuationFails
  BY <1>2, NoPassType DEF EvacuationFails, TypeOK
<1>3. ASSUME NEW w \in Workspaces, Reconcile(w) PROVE TypeOK'
  BY <1>3, TypeProvisioning, TypeRunning, TypeDestroying DEF Reconcile
<1>4. CASE UNCHANGED vars
  BY <1>4 DEF vars, TypeOK
<1> QED
  BY <1>1, <1>2, <1>3, <1>4 DEF Next

\* Every state of the controller is typed: each object is owned by a Workspace
\* or not there, each name is one DeriveResourceName can return.
THEOREM TypeCorrect == Spec => []TypeOK
<1>1. Init => TypeOK /\ PassNamed
  BY TypeInitial, ConstantsAssumption DEF Init, PassNamed, NoPass
<1>2. TypeOK /\ PassNamed /\ [Next]_vars => (TypeOK /\ PassNamed)'
  BY TypeStep, PassNamedStep
<1> QED
  BY <1>1, <1>2, PTL DEF Spec

-----------------------------------------------------------------------------
(* Names, ownership and volumes, where every branch has one Workspace *)

Substrate == {"pvc", "sts"}

\* Where branches are distinct, nothing is ever mirrored.
NoneMirrored == \A w \in Workspaces : ws[w].dup = FALSE

\* Before its first pass a Workspace has no name.
NamelessAtFirst ==
  \A w \in Workspaces :
    \/ ws[w].life = "unborn"
    \/ ws[w].life = "live" /\ ws[w].finalizer = FALSE
    => ws[w].id = None

\* A Workspace that was not created yet has no phase.
PhaselessAtFirst == \A w \in Workspaces : ws[w].life = "unborn" => ws[w].phase = ""

\* Volumes and StatefulSets do not outlive their Workspace.
SubstrateOwned ==
  \A n \in Names, k \in Substrate : res[n][k] # None => Exists(res[n][k])

\* The list shows no name before its holder, nor takes for gone what is not.
Listed ==
  \A w \in Workspaces :
    /\ seen[w].life = "unborn" => seen[w].id = None
    /\ seen[w].life = "gone" => ws[w].life = "gone"

\* Names some other Workspace object carries, listed or not.
Carried(w) == {ws[v].id : v \in {u \in Workspaces \ {w} : Exists(u)}}

Safe ==
  /\ NoneMirrored
  /\ NamelessAtFirst
  /\ PhaselessAtFirst
  /\ SharedOnlyIfRaced
  /\ OwnerKnowsName
  /\ SubstrateOwned
  /\ RunningHasSubstrate

Running(r) == r.life = "live" /\ r.phase \in {"Ready", "Suspended"}

(***************************************************************************)
(* All that a pass over w may do: it writes no other Workspace, keeps w's  *)
(* name or takes one that is free or that raced remembers, touches only    *)
(* objects under w's name, creating what is missing or deleting, removes a *)
(* volume only behind its gate, and lets w go only after its substrate.    *)
(***************************************************************************)
Touch(w) ==
  /\ \A v \in Workspaces \ {w} : ws'[v] = ws[v]
  /\ Exists(w)
  /\ ws'[w].dup = FALSE
  /\ \/ ws'[w].id = ws[w].id
     \/ ws[w].id = None /\ ws'[w].id \notin Carried(w) \ raced'
  /\ raced \subseteq raced'
  /\ \/ ws'[w].life = ws[w].life
     \/ ws[w].life = "deleting" /\ ws'[w].life = "gone"
  /\ ws'[w].life = "live" => ws'[w].finalizer = TRUE
  /\ \A n \in Names, k \in Kinds :
       \/ res'[n][k] = res[n][k]
       \/ n = ws'[w].id /\ res'[n][k] = None
       \/ n = ws'[w].id /\ res[n][k] = None /\ res'[n][k] = w
  /\ ws'[w].life = "gone" /\ ws'[w].id # None =>
       \A k \in Substrate : res'[ws'[w].id][k] = None
  /\ \A n \in Names :
       PvcRemoved(n, w) =>
         \/ RollingBack(w)
         \/ ws[w].life = "deleting" /\ ws'[w].evac # None
  /\ Running(ws'[w]) =>
       /\ ws'[w].id # None
       /\ ws'[w].id \notin raced' => \A k \in Substrate : res'[ws'[w].id][k] # None

\* An object under the name w has, or has just taken, is w's own, where its
\* owner still exists and the name was not given twice.
LEMMA OwnName ==
  ASSUME TypeOK, Safe, NEW w \in Workspaces, Touch(w), NEW k \in Substrate,
         NEW v \in Workspaces, NEW n \in Names, n = ws'[w].id, res[n][k] = v, n \notin raced'
  PROVE  v = w /\ ws[w].id = n
<1>1. k \in Kinds /\ v # None
  BY ConstantsAssumption DEF Substrate, Kinds
<1>2. ws[v].id = n /\ Exists(v) /\ n # None
  BY <1>1, ConstantsAssumption DEF Safe, OwnerKnowsName, SubstrateOwned, Names
<1>3. CASE v # w
  <2>1. n \in Carried(w)
    BY <1>2, <1>3 DEF Carried
  <2>2. ws[w].id = n /\ Exists(w) /\ n \notin raced
    BY <2>1 DEF Touch
  <2> QED
    BY <1>2, <1>3, <2>2 DEF Safe, SharedOnlyIfRaced, SharedName
<1> QED
  BY <1>2, <1>3

\* A pass keeps everything that is safe.
LEMMA TouchSafe ==
  ASSUME TypeOK, TypeOK', Safe, NEW w \in Workspaces, Touch(w)
  PROVE  Safe' /\ PvcGatedStep
<1>1. \A v \in Workspaces \ {w} : ws'[v] = ws[v]
  BY DEF Touch
<1>2. NoneMirrored'
  BY <1>1 DEF Safe, NoneMirrored, Touch
<1>3. NamelessAtFirst'
  <2> SUFFICES ASSUME NEW v \in Workspaces,
                      \/ ws'[v].life = "unborn"
                      \/ ws'[v].life = "live" /\ ws'[v].finalizer = FALSE
               PROVE  ws'[v].id = None
    BY DEF NamelessAtFirst
  <2>1. CASE v = w
    BY <2>1 DEF Touch, Exists
  <2>2. CASE v # w
    BY <1>1, <2>2 DEF Safe, NamelessAtFirst
  <2> QED
    BY <2>1, <2>2
<1>4. \A v \in Workspaces : Exists(v)' => Exists(v)
  BY <1>1 DEF Touch, Exists
<1>5. SharedOnlyIfRaced'
  <2>1. ASSUME NEW v \in Workspaces \ {w}, Exists(v)', ws'[v].id \in Names \ raced'
        PROVE  ws'[v].id # ws'[w].id
    <3>1. Exists(v) /\ Exists(w) /\ ws'[v].id = ws[v].id /\ ws[v].id \in Names \ raced
      BY <1>1, <1>4, <2>1 DEF Touch
    <3>2. ws[v].id \in Carried(w)
      BY <3>1 DEF Carried
    <3>3. ws[v].id # ws[w].id
      BY <3>1 DEF Safe, SharedOnlyIfRaced, SharedName
    <3> QED
      BY <2>1, <3>1, <3>2, <3>3 DEF Touch
  <2>2. ASSUME NEW v \in Workspaces \ {w}, NEW u \in Workspaces \ {w}, u # v,
               Exists(v)', Exists(u)', ws'[v].id \in Names \ raced'
        PROVE  ws'[v].id # ws'[u].id
    <3>1. /\ Exists(v) /\ Exists(u) /\ ws'[v].id = ws[v].id /\ ws'[u].id = ws[u].id
          /\ ws[v].id \in Names \ raced
      BY <1>1, <1>4, <2>2 DEF Touch
    <3> QED
      BY <2>2, <3>1 DEF Safe, SharedOnlyIfRaced, SharedName
  <2> SUFFICES ASSUME NEW n \in Names \ raced', NEW v \in Workspaces, NEW u \in Workspaces,
                      v # u, Exists(v)', Exists(u)', ws'[v].id = n, ws'[u].id = n
               PROVE  FALSE
    BY DEF SharedOnlyIfRaced, SharedName
  <2> QED
    BY <2>1, <2>2
<1>6. OwnerKnowsName'
  <2> SUFFICES ASSUME NEW n \in Names, NEW k \in Kinds, res'[n][k] # None
               PROVE  ws'[res'[n][k]].id = n
    BY DEF OwnerKnowsName
  <2>1. CASE res'[n][k] = res[n][k]
    <3>1. res[n][k] \in Workspaces /\ ws[res[n][k]].id = n
      BY <2>1 DEF Safe, OwnerKnowsName, TypeOK
    <3>2. n # None
      BY ConstantsAssumption DEF Names
    <3> QED
      BY <1>1, <2>1, <3>1, <3>2 DEF Touch
  <2>2. CASE res'[n][k] # res[n][k]
    BY <2>2 DEF Touch
  <2> QED
    BY <2>1, <2>2
<1>7. SubstrateOwned'
  <2> SUFFICES ASSUME NEW n \in Names, NEW k \in Substrate, res'[n][k] # None
               PROVE  ws'[res'[n][k]].life \in {"live", "deleting"}
    BY DEF SubstrateOwned, Exists
  <2>1. k \in Kinds
    BY DEF Substrate, Kinds
  <2>2. PICK v \in Workspaces : v = res'[n][k]
    BY <2>1 DEF TypeOK
  <2>3. ws'[v].id = n
    BY <1>6, <2>1, <2>2 DEF OwnerKnowsName
  <2>4. CASE v = w
    <3>1. n # None
      BY ConstantsAssumption DEF Names
    <3>2. ws'[w].life # "gone"
      <4>1. ws'[w].life = "gone" /\ ws'[w].id # None =>
              \A j \in Substrate : res'[ws'[w].id][j] = None
        BY DEF Touch
      <4> QED
        BY <2>3, <2>4, <3>1, <4>1
    <3> QED
      BY <2>2, <2>4, <3>2 DEF Touch, Exists
  <2>5. CASE v # w
    <3>1. res[n][k] = v
      BY <2>1, <2>2, <2>5 DEF Touch
    <3>2. Exists(v)
      BY <2>1, <2>2, <3>1 DEF Safe, SubstrateOwned
    <3> QED
      BY <1>1, <2>2, <2>5, <3>2 DEF Exists
  <2> QED
    BY <2>4, <2>5
<1>8. RunningHasSubstrate'
  <2> SUFFICES ASSUME NEW v \in Workspaces, Running(ws'[v])
               PROVE  /\ ws'[v].id # None
                      /\ ws'[v].id \notin raced' => \A k \in Substrate : res'[ws'[v].id][k] = v
    BY DEF RunningHasSubstrate, Running, Substrate
  <2>1. CASE v = w
    <3>1. ws'[w].id \in Names
      BY <2>1 DEF Touch, TypeOK, WorkspaceRecord
    <3>2. ASSUME NEW k \in Substrate, ws'[w].id \notin raced' PROVE res'[ws'[w].id][k] = w
      <4>1. k \in Kinds
        BY DEF Substrate, Kinds
      <4>2. PICK u \in Workspaces : u = res'[ws'[w].id][k]
        BY <2>1, <3>1, <3>2, <4>1 DEF Touch, TypeOK
      <4>3. Exists(u)' /\ ws'[u].id = ws'[w].id /\ Exists(w)'
        <5>1. u # None
          BY ConstantsAssumption
        <5>2. ws'[u].id = ws'[w].id
          BY <1>6, <3>1, <4>1, <4>2, <5>1 DEF OwnerKnowsName
        <5>3. Exists(u)'
          BY <1>7, <3>1, <4>2, <5>1 DEF SubstrateOwned, Exists
        <5>4. Exists(w)'
          BY <2>1 DEF Running, Exists
        <5> QED
          BY <5>2, <5>3, <5>4
      <4> QED
        BY <1>5, <3>1, <3>2, <4>2, <4>3 DEF SharedOnlyIfRaced, SharedName
    <3> QED
      BY <2>1, <3>2 DEF Touch
  <2>2. CASE v # w
    <3>1. Running(ws[v]) /\ ws'[v].id = ws[v].id
      BY <1>1, <2>2
    <3>2. /\ ws[v].id # None
          /\ ws[v].id \notin raced => \A k \in Substrate : res[ws[v].id][k] = v
      BY <3>1 DEF Safe, RunningHasSubstrate, Running, Substrate
    <3>3. ws[v].id \in Names
      BY <3>2 DEF TypeOK, WorkspaceRecord
    <3>4. ASSUME NEW k \in Substrate, ws[v].id \notin raced' PROVE res'[ws[v].id][k] = v
      <4>1. k \in Kinds /\ ws[v].id \notin raced
        BY <3>4 DEF Substrate, Kinds, Touch
      <4>2. ws[v].id # ws'[w].id
        BY <2>2, <3>2, <3>3, <3>4, <4>1, OwnName
      <4> QED
        BY <3>2, <3>3, <4>1, <4>2 DEF Touch
    <3> QED
      BY <3>1, <3>2, <3>4
  <2> QED
    BY <2>1, <2>2
<1>9. PhaselessAtFirst'
  <2> SUFFICES ASSUME NEW v \in Workspaces, ws'[v].life = "unborn"
               PROVE  ws'[v].phase = ""
    BY DEF PhaselessAtFirst
  <2>1. v # w
    BY DEF Touch, Exists
  <2> QED
    BY <1>1, <2>1 DEF Safe, PhaselessAtFirst
<1>10. PvcGatedStep
  <2> SUFFICES ASSUME NEW n \in Names, NEW v \in Workspaces, PvcRemoved(n, v),
                      n \notin raced'
               PROVE  \/ RollingBack(v)
                      \/ ws[v].life \in {"deleting", "gone"} /\ ws'[v].evac # None
    BY DEF PvcGatedStep
  <2>1. "pvc" \in Kinds /\ "pvc" \in Substrate /\ v # None
    BY ConstantsAssumption DEF Kinds, Substrate
  <2>2. n = ws'[w].id
    BY <2>1 DEF PvcRemoved, Touch
  <2>3. v = w
    BY <2>1, <2>2, OwnName DEF PvcRemoved
  <2> QED
    BY <2>3 DEF Touch
<1> QED
  BY <1>2, <1>3, <1>5, <1>6, <1>7, <1>8, <1>9, <1>10 DEF Safe

\* Names are shared as before by a step that writes no Workspace.
LEMMA SharedUnchanged ==
  ASSUME SharedOnlyIfRaced, UNCHANGED <<ws, raced>>
  PROVE  SharedOnlyIfRaced'
<1> SUFFICES ASSUME NEW n \in Names \ raced', NEW v \in Workspaces, NEW u \in Workspaces,
                    v # u, Exists(v)', Exists(u)', ws'[v].id = n, ws'[u].id = n
             PROVE  FALSE
  BY DEF SharedOnlyIfRaced, SharedName
<1>1. n \in Names \ raced /\ Exists(v) /\ Exists(u) /\ ws[v].id = n /\ ws[u].id = n
  BY DEF Exists
<1> QED
  BY <1>1 DEF SharedOnlyIfRaced, SharedName

\* Users, Pods and the garbage collector keep everything that is safe.
LEMMA EnvironmentSafe ==
  ASSUME TypeOK, Safe, Environment
  PROVE  Safe' /\ PvcGatedStep
<1>1. CASE UNCHANGED <<ws, res, raced>>
  <2>1. PvcGatedStep
    BY <1>1, ConstantsAssumption DEF PvcGatedStep, PvcRemoved
  <2> QED
    BY <1>1, <2>1, SharedUnchanged
    DEF Safe, NoneMirrored, NamelessAtFirst, PhaselessAtFirst, OwnerKnowsName, SubstrateOwned,
        RunningHasSubstrate, Exists
<1>2. ASSUME NEW w \in Workspaces,
             CreateWorkspace(w) \/ DeleteWorkspace(w) \/ MarkActivity(w)
      PROVE  Safe' /\ PvcGatedStep
  <2>1. UNCHANGED <<res, raced>>
    BY <1>2 DEF CreateWorkspace, DeleteWorkspace, MarkActivity
  <2>2. \A v \in Workspaces : /\ ws'[v].id = ws[v].id
                              /\ ws'[v].dup = ws[v].dup
                              /\ ws'[v].phase = ws[v].phase
                              /\ ws'[v].finalizer = ws[v].finalizer
    BY <1>2, UserFrame
  <2>3. /\ \A v \in Workspaces \ {w} : ws'[v] = ws[v]
        /\ \/ ws'[w].life = ws[w].life
           \/ ws[w].life = "unborn" /\ ws'[w].life = "live"
           \/ ws[w].life = "live" /\ ws'[w].life = "deleting"
           \/ ws[w].life = "live" /\ ws[w].finalizer = FALSE /\ ws'[w].life = "gone"
    BY <1>2, UserFrame
  <2>4. NoneMirrored'
    BY <2>2 DEF Safe, NoneMirrored
  <2>5. NamelessAtFirst'
    BY <2>2, <2>3 DEF Safe, NamelessAtFirst
  <2>6. \A v \in Workspaces : Exists(v)' /\ ws[v].id # None => Exists(v)
    BY <2>3 DEF Safe, NamelessAtFirst, Exists
  <2>7. SharedOnlyIfRaced'
    <3> SUFFICES ASSUME NEW n \in Names \ raced, NEW v \in Workspaces, NEW u \in Workspaces,
                        v # u, Exists(v)', Exists(u)', ws'[v].id = n, ws'[u].id = n
                 PROVE  FALSE
      BY <2>1 DEF SharedOnlyIfRaced, SharedName
    <3>1. ws[v].id = n /\ ws[u].id = n /\ n # None
      BY <2>2, ConstantsAssumption DEF Names
    <3>2. Exists(v) /\ Exists(u)
      BY <2>6, <3>1
    <3> QED
      BY <3>1, <3>2 DEF Safe, SharedOnlyIfRaced, SharedName
  <2>8. OwnerKnowsName'
    BY <2>1, <2>2 DEF Safe, OwnerKnowsName, TypeOK
  <2>9. SubstrateOwned'
    <3> SUFFICES ASSUME NEW n \in Names, NEW k \in Substrate, res[n][k] # None
                 PROVE  ws'[res[n][k]].life \in {"live", "deleting"}
      BY <2>1 DEF SubstrateOwned, Exists
    <3>1. k \in Kinds
      BY DEF Substrate, Kinds
    <3>2. PICK v \in Workspaces : v = res[n][k]
      BY <3>1 DEF TypeOK
    <3>3. ws[v].id = n /\ Exists(v) /\ n # None
      BY <3>1, <3>2, ConstantsAssumption DEF Safe, OwnerKnowsName, SubstrateOwned, Names
    <3>4. ~(ws[v].life = "live" /\ ws[v].finalizer = FALSE)
      BY <3>3 DEF Safe, NamelessAtFirst
    <3> QED
      BY <2>3, <3>2, <3>3, <3>4 DEF Exists
  <2>10. RunningHasSubstrate'
    <3> SUFFICES ASSUME NEW v \in Workspaces, ws'[v].life = "live",
                        ws'[v].phase \in {"Ready", "Suspended"}
                 PROVE  /\ ws[v].id # None
                        /\ ws[v].id \notin raced =>
                             res[ws[v].id]["pvc"] = v /\ res[ws[v].id]["sts"] = v
      BY <2>1, <2>2 DEF RunningHasSubstrate
    <3>1. ws[v].phase = ws'[v].phase /\ ws[v].id = ws'[v].id
      BY <2>2
    <3>2. ws[v].life # "unborn"
      BY <3>1 DEF Safe, PhaselessAtFirst
    <3>3. ws[v].life = "live"
      BY <2>3, <3>2
    <3> QED
      BY <3>1, <3>3 DEF Safe, RunningHasSubstrate
  <2>11. PvcGatedStep
    BY <2>1, ConstantsAssumption DEF PvcGatedStep, PvcRemoved
  <2>12. PhaselessAtFirst'
    BY <2>2, <2>3 DEF Safe, PhaselessAtFirst
  <2> QED
    BY <2>4, <2>5, <2>7, <2>8, <2>9, <2>10, <2>11, <2>12 DEF Safe
<1>3. ASSUME NEW n \in Names, NEW k \in Kinds, GarbageCollect(n, k)
      PROVE  Safe' /\ PvcGatedStep
  <2>1. /\ UNCHANGED <<ws, raced>> /\ res[n][k] # None
        /\ ws[res[n][k]].life = "gone" /\ deleted(n, {k})
    BY <1>3 DEF GarbageCollect
  <2>2. k \notin Substrate
    BY <2>1 DEF Safe, SubstrateOwned, Exists
  <2>3. \A m \in Names, j \in Kinds : res'[m][j] = res[m][j] \/ res'[m][j] = None
    BY <2>1 DEF deleted, TypeOK
  <2>4. \A m \in Names, j \in Substrate : res'[m][j] = res[m][j]
    BY <2>1, <2>2 DEF deleted, TypeOK, Substrate, Kinds
  <2>5. OwnerKnowsName'
    BY <2>1, <2>3 DEF Safe, OwnerKnowsName
  <2>6. SubstrateOwned'
    BY <2>1, <2>4 DEF Safe, SubstrateOwned, Exists
  <2>7. RunningHasSubstrate'
    <3>1. \A v \in Workspaces : ws[v].id # None => ws[v].id \in Names
      BY FieldTypes
    <3> QED
      BY <2>1, <2>4, <3>1 DEF Safe, RunningHasSubstrate, Substrate
  <2>8. PvcGatedStep
    BY <2>4, ConstantsAssumption DEF PvcGatedStep, PvcRemoved, Substrate
  <2> QED
    BY <2>1, <2>5, <2>6, <2>7, <2>8, SharedUnchanged
    DEF Safe, NoneMirrored, NamelessAtFirst, PhaselessAtFirst
<1> QED
  BY <1>1, <1>2, <1>3 DEF Environment, PodStart, PodStop, DoWork, Tick, Sync

-----------------------------------------------------------------------------
\* What a live pass writes: one object, with its finalizer on.
LEMMA Written ==
  ASSUME TypeOK, NEW w \in Workspaces, NEW r \in WorkspaceRecord, Write(w, r)
  PROVE  /\ \A v \in Workspaces \ {w} : ws'[v] = ws[v]
         /\ ws'[w].finalizer = TRUE
         /\ ws'[w].life = r.life /\ ws'[w].phase = r.phase
         /\ ws'[w].id = r.id /\ ws'[w].dup = r.dup /\ ws'[w].evac = r.evac
<1> DEFINE q == [r EXCEPT !.finalizer = TRUE]
<1>1. ws' = [ws EXCEPT ![w] = q] /\ ws \in [Workspaces -> WorkspaceRecord]
  BY DEF Write, TypeOK
<1>2. /\ q.finalizer = TRUE /\ q.life = r.life /\ q.phase = r.phase
      /\ q.id = r.id /\ q.dup = r.dup /\ q.evac = r.evac
  BY DEF WorkspaceRecord
<1> HIDE DEF q
<1>3. ws'[w] = q /\ \A v \in Workspaces \ {w} : ws'[v] = ws[v]
  BY <1>1
<1> QED
  BY <1>2, <1>3

\* Creation under the name n only adds what is missing, and adds it for w.
LEMMA CreatedFrame ==
  ASSUME TypeOK, NEW n \in Names, NEW w \in Workspaces, NEW kinds,
         res' = Created(n, w, kinds)
  PROVE  /\ \A m \in Names, k \in Kinds :
              \/ res'[m][k] = res[m][k]
              \/ m = n /\ res[m][k] = None /\ res'[m][k] = w
         /\ \A k \in Kinds : k \in kinds => res'[n][k] # None
<1>1. w # None
  BY ConstantsAssumption
<1> QED
  BY <1>1 DEF TypeOK, Created

\* Deletion under the name n only removes, and removes just the given kinds.
LEMMA DeletedFrame ==
  ASSUME TypeOK, NEW n \in Names, NEW kinds, deleted(n, kinds)
  PROVE  /\ \A m \in Names, k \in Kinds :
              \/ res'[m][k] = res[m][k]
              \/ m = n /\ k \in kinds /\ res'[m][k] = None
         /\ \A k \in Kinds : k \in kinds => res'[n][k] = None
BY DEF TypeOK, deleted

\* A pass over a live Workspace that only creates, or that rolls back.
LEMMA LiveTouch ==
  ASSUME TypeOK, NEW w \in Workspaces, NEW r \in WorkspaceRecord,
         Write(w, r), ws[w].life = "live", r.life = "live", r.dup = FALSE,
         \/ r.id = ws[w].id
         \/ ws[w].id = None /\ r.id \notin Carried(w) \ raced',
         raced \subseteq raced',
         \/ \A n \in Names, k \in Kinds :
              \/ res'[n][k] = res[n][k]
              \/ n = r.id /\ res[n][k] = None /\ res'[n][k] = w
         \/ /\ RollingBack(w)
            /\ \A n \in Names, k \in Kinds :
                 res'[n][k] = res[n][k] \/ (n = r.id /\ res'[n][k] = None),
         r.phase \in {"Ready", "Suspended"} =>
           /\ r.id # None
           /\ r.id \notin raced' => \A k \in Substrate : res'[r.id][k] # None
  PROVE  Touch(w)
<1>1. /\ \A v \in Workspaces \ {w} : ws'[v] = ws[v]
      /\ ws'[w].finalizer = TRUE
      /\ ws'[w].life = "live" /\ ws'[w].phase = r.phase
      /\ ws'[w].id = r.id /\ ws'[w].dup = FALSE
  BY Written
<1>2. \A n \in Names, k \in Kinds :
        \/ res'[n][k] = res[n][k]
        \/ n = r.id /\ res'[n][k] = None
        \/ n = r.id /\ res[n][k] = None /\ res'[n][k] = w
  OBVIOUS
<1>3. \A n \in Names : PvcRemoved(n, w) => RollingBack(w)
  <2>1. "pvc" \in Kinds /\ w # None
    BY ConstantsAssumption DEF Kinds
  <2> QED
    BY <2>1 DEF PvcRemoved
<1>4. Running(ws'[w]) =>
        /\ ws'[w].id # None
        /\ ws'[w].id \notin raced' => \A k \in Substrate : res'[ws'[w].id][k] # None
  BY <1>1 DEF Running
<1> QED
  BY <1>1, <1>2, <1>3, <1>4, Zenon DEF Touch, Exists

\* resolveResourceName keeps a name that was given, or gives one that is free
\* or from here on remembered as given twice.
LEMMA ResolveFresh ==
  ASSUME TypeOK, Listed, NEW w \in Workspaces, resolveResourceName(w) # None,
         Named(w, resolveResourceName(w))
  PROVE  /\ resolveResourceName(w) \in Names
         /\ \/ resolveResourceName(w) = ws[w].id
            \/ ws[w].id = None /\ resolveResourceName(w) \notin Carried(w) \ raced'
         /\ raced \subseteq raced'
<1>1. resolveResourceName(w) \in Names
  BY ResolveType
<1>2. CASE ws[w].id = None
  <2> DEFINE n == resolveResourceName(w)
  <2>1. n \notin Taken(w) /\ n # None
    BY <1>2 DEF resolveResourceName, DeriveResourceName
  <2>2. raced' = raced \cup ({n} \cap Unlisted(w))
    BY <1>2 DEF Named
  <2> HIDE DEF n
  <2>3. ASSUME n \in Carried(w) PROVE n \in Unlisted(w)
    <3>1. PICK v \in Workspaces \ {w} : Exists(v) /\ ws[v].id = n
      BY <2>3 DEF Carried
    <3>2. ASSUME seen[v].id = n PROVE FALSE
      <4>1. seen[v].life \in {"live", "deleting"}
        BY <2>1, <3>1, <3>2 DEF Listed, Exists, TypeOK, ListRecord, Lives
      <4> QED
        BY <2>1, <3>1, <3>2, <4>1 DEF Taken
    <3> QED
      BY <3>1, <3>2 DEF Unlisted
  <2> QED
    BY <1>1, <1>2, <2>2, <2>3 DEF n
<1>3. CASE ws[w].id # None
  BY <1>1, <1>3 DEF Named, resolveResourceName
<1> QED
  BY <1>2, <1>3

\* Passes that provision or roll back touch no more than they may.
LEMMA ProvisioningTouches ==
  ASSUME TypeOK, Safe, Listed, DistinctBranches, NEW w \in Workspaces,
         \/ ReconcileIdle(w)
         \/ mirrorCanonical(w)
         \/ \E k \in 0 .. 6 : Provision(w, k)
         \/ markReady(w)
         \/ \E k \in 1 .. 6 : RollbackPartly(w, k)
         \/ failAndRollback(w)
         \/ FailWithoutRollback(w)
  PROVE  Touch(w)
<1>1. ws[w] \in WorkspaceRecord /\ ws[w].id \in Names \cup {None} /\ ws[w].dup = FALSE
  BY FieldTypes DEF Safe, NoneMirrored
<1>2. ASSUME NEW i \in Names \cup {None}, NEW p \in Phases
      PROVE  /\ [ws[w] EXCEPT !.id = i] \in WorkspaceRecord
             /\ [ws[w] EXCEPT !.id = i].id = i
             /\ [ws[w] EXCEPT !.id = i].phase = ws[w].phase
             /\ [ws[w] EXCEPT !.id = i].life = ws[w].life
             /\ [ws[w] EXCEPT !.id = i].dup = FALSE
             /\ [ws[w] EXCEPT !.id = i, !.phase = p] \in WorkspaceRecord
             /\ [ws[w] EXCEPT !.id = i, !.phase = p].id = i
             /\ [ws[w] EXCEPT !.id = i, !.phase = p].life = ws[w].life
             /\ [ws[w] EXCEPT !.id = i, !.phase = p].dup = FALSE
             /\ [ws[w] EXCEPT !.phase = p] \in WorkspaceRecord
             /\ [ws[w] EXCEPT !.phase = p].phase = p
             /\ [ws[w] EXCEPT !.phase = p].id = ws[w].id
             /\ [ws[w] EXCEPT !.phase = p].life = ws[w].life
             /\ [ws[w] EXCEPT !.phase = p].dup = FALSE
  <2>1. /\ [ws[w] EXCEPT !.id = i] \in WorkspaceRecord
        /\ [ws[w] EXCEPT !.id = i, !.phase = p] \in WorkspaceRecord
        /\ [ws[w] EXCEPT !.phase = p] \in WorkspaceRecord
    BY <1>1, Updates
  <2> QED
    BY <1>1, <2>1 DEF WorkspaceRecord
<1>3. "Failed" \in Phases /\ "Ready" \in Phases
  BY DEF Phases
<1>4. CASE ReconcileIdle(w)
  <2>1. ws[w].life = "live" /\ Write(w, ws[w]) /\ UNCHANGED <<res, raced>>
    BY <1>4 DEF ReconcileIdle, Live
  <2>2. ws[w].phase \in {"Ready", "Suspended"} =>
          /\ ws[w].id # None
          /\ ws[w].id \notin raced' => \A k \in Substrate : res'[ws[w].id][k] # None
    BY <2>1, ConstantsAssumption DEF Safe, RunningHasSubstrate, Substrate
  <2> QED
    BY <1>1, <2>1, <2>2, LiveTouch
<1>5. CASE mirrorCanonical(w)
  BY <1>5 DEF mirrorCanonical, findCanonical, Rivals, DistinctBranches
<1>6. ASSUME NEW k \in 0 .. 6, Provision(w, k) PROVE Touch(w)
  <2> DEFINE n == resolveResourceName(w)
             r == [ws[w] EXCEPT !.id = n]
  <2>1. /\ ws[w].life = "live" /\ ws[w].phase \in {"", "Provisioning"} /\ n # None
        /\ Write(w, r) /\ res' = Created(n, w, First(CreateOrder, k)) /\ Named(w, n)
    BY <1>6 DEF Provision, ensureCreated, Provisioning, Unprovisioned, Live
  <2>2. /\ n \in Names
        /\ \/ n = ws[w].id
           \/ ws[w].id = None /\ n \notin Carried(w) \ raced'
        /\ raced \subseteq raced'
    BY <2>1, ResolveFresh
  <2>3. /\ r \in WorkspaceRecord /\ r.id = n /\ r.phase = ws[w].phase
        /\ r.life = "live" /\ r.dup = FALSE
    BY <1>2, <1>3, <2>1, <2>2
  <2>4. \A m \in Names, j \in Kinds :
          \/ res'[m][j] = res[m][j]
          \/ m = n /\ res[m][j] = None /\ res'[m][j] = w
    <3> DEFINE made == First(CreateOrder, k)
    <3>1. res' = Created(n, w, made)
      BY <2>1
    <3> HIDE DEF n, r, made
    <3> QED
      BY <2>2, <3>1, CreatedFrame
  <2> HIDE DEF n, r
  <2> QED
    BY <2>1, <2>2, <2>3, <2>4, LiveTouch
<1>7. CASE markReady(w)
  <2> DEFINE n == resolveResourceName(w)
             r == [ws[w] EXCEPT !.id = n, !.phase = "Ready"]
  <2>1. /\ ws[w].life = "live" /\ n # None
        /\ Write(w, r) /\ res' = Created(n, w, Kinds) /\ Named(w, n)
    BY <1>7
    DEF markReady, ensureCreated, Provisioning, Unprovisioned, Live, computeRunning
  <2>2. /\ n \in Names
        /\ \/ n = ws[w].id
           \/ ws[w].id = None /\ n \notin Carried(w) \ raced'
        /\ raced \subseteq raced'
    BY <2>1, ResolveFresh
  <2>3. r \in WorkspaceRecord /\ r.id = n /\ r.life = "live" /\ r.dup = FALSE
    BY <1>2, <1>3, <2>1, <2>2
  <2>4. /\ \A m \in Names, j \in Kinds :
             \/ res'[m][j] = res[m][j]
             \/ m = n /\ res[m][j] = None /\ res'[m][j] = w
        /\ \A j \in Kinds : res'[n][j] # None
    BY <2>1, <2>2, CreatedFrame
  <2>5. \A j \in Substrate : res'[n][j] # None
    BY <2>4 DEF Substrate, Kinds
  <2> HIDE DEF n, r
  <2> QED
    BY <2>1, <2>2, <2>3, <2>4, <2>5, LiveTouch
<1>8. ASSUME NEW kinds, NEW r \in WorkspaceRecord, Provisioning(w), ws[w].id # None,
             deleted(ws[w].id, kinds), Write(w, r), r.life = ws[w].life, r.id = ws[w].id,
             r.dup = FALSE, r.phase \notin {"Ready", "Suspended"}, UNCHANGED raced
      PROVE  Touch(w)
  <2>1. ws[w].life = "live" /\ RollingBack(w)
    BY <1>8 DEF Provisioning, Unprovisioned, Live, RollingBack
  <2>2. \A n \in Names, k \in Kinds :
          res'[n][k] = res[n][k] \/ (n = r.id /\ res'[n][k] = None)
    BY <1>1, <1>8, DeletedFrame
  <2> QED
    BY <1>8, <2>1, <2>2, LiveTouch
<1>9. ASSUME NEW k \in 1 .. 6, RollbackPartly(w, k) PROVE Touch(w)
  <2>1. ws[w].phase \notin {"Ready", "Suspended"}
    BY <1>9 DEF RollbackPartly, Provisioning, Unprovisioned
  <2> QED
    BY <1>1, <1>8, <1>9, <2>1 DEF RollbackPartly
<1>10. CASE failAndRollback(w)
  <2> DEFINE r == [ws[w] EXCEPT !.phase = "Failed"]
  <2>1. /\ r \in WorkspaceRecord /\ r.phase = "Failed" /\ r.id = ws[w].id
        /\ r.life = ws[w].life /\ r.dup = FALSE
    BY <1>1, <1>2, <1>3
  <2>2. /\ Provisioning(w) /\ ws[w].id # None /\ deleted(ws[w].id, Kinds) /\ Write(w, r)
        /\ UNCHANGED raced
    BY <1>10 DEF failAndRollback
  <2> HIDE DEF r
  <2> QED
    BY <1>8, <2>1, <2>2
<1>11. CASE FailWithoutRollback(w)
  <2> DEFINE r == [ws[w] EXCEPT !.phase = "Failed"]
  <2>1. /\ r \in WorkspaceRecord /\ r.phase = "Failed" /\ r.id = ws[w].id
        /\ r.life = ws[w].life /\ r.dup = FALSE
    BY <1>1, <1>2, <1>3
  <2>2. ws[w].life = "live" /\ Write(w, r) /\ UNCHANGED <<res, raced>>
    BY <1>11 DEF FailWithoutRollback, Provisioning, Unprovisioned, Live
  <2> HIDE DEF r
  <2> QED
    BY <2>1, <2>2, LiveTouch
<1> QED
  BY <1>4, <1>5, <1>6, <1>7, <1>9, <1>10, <1>11

\* While a pass waits for an evacuation its Workspace was created and, unless
\* it is deleted meanwhile, stays Ready.
PassReady ==
  \A w \in Workspaces :
    pass.who = w =>
      /\ ws[w].life # "unborn"
      /\ ws[w].life = "live" => ws[w].phase = "Ready"

LEMMA PassReadyStep ==
  ASSUME TypeOK, PassReady, [Next]_vars
  PROVE  PassReady'
<1>1. CASE pass' = NoPass
  BY <1>1, ConstantsAssumption DEF PassReady, NoPass
<1>2. CASE WorkerFree /\ UNCHANGED pass
  BY <1>2, ConstantsAssumption DEF PassReady, WorkerFree
<1>3. CASE UNCHANGED ws /\ UNCHANGED pass
  BY <1>3 DEF PassReady
<1>4. ASSUME NEW w \in Workspaces, CreateWorkspace(w) \/ DeleteWorkspace(w) \/ MarkActivity(w)
      PROVE  PassReady'
  <2>1. pass'.who = pass.who
    BY <1>4 DEF CreateWorkspace, DeleteWorkspace, MarkActivity, Interrupt, TypeOK
  <2>2. /\ \A v \in Workspaces : ws'[v].phase = ws[v].phase
        /\ \A v \in Workspaces \ {w} : ws'[v] = ws[v]
        /\ \/ ws'[w].life = ws[w].life
           \/ ws[w].life = "unborn" /\ ws'[w].life = "live"
           \/ ws[w].life = "live" /\ ws'[w].life = "deleting"
           \/ ws[w].life = "live" /\ ws'[w].life = "gone"
    BY <1>4, UserFrame
  <2> QED
    BY <2>1, <2>2 DEF PassReady
<1>5. ASSUME NEW w \in Workspaces, RequestEvacuation(w) PROVE PassReady'
  <2>1. pass'.who = w
    BY <1>5 DEF RequestEvacuation
  <2>2. CASE ReadyPass(w) /\ Write(w, ws[w])
    <3>1. ws'[w].life = "live" /\ ws'[w].phase = "Ready"
      BY <2>2, FieldTypes, Written DEF ReadyPass, Live
    <3> QED
      BY <2>1, <3>1 DEF PassReady
  <2>3. CASE Deleting(w) /\ ws' = [ws EXCEPT ![w].phase = "Terminating"]
    <3>1. ws'[w].life = "deleting"
      BY <2>3 DEF Deleting, TypeOK, WorkspaceRecord
    <3> QED
      BY <2>1, <3>1 DEF PassReady
  <2> QED
    BY <1>5, <2>2, <2>3 DEF RequestEvacuation
<1>6. ASSUME NEW w \in Workspaces, Reconcile(w) PROVE PassReady'
  BY <1>1, <1>2, <1>5, <1>6
  DEF Reconcile, ReconcileIdle, mirrorCanonical, Provision, markReady, RollbackPartly,
      failAndRollback, FailWithoutRollback, Unprovisioned, Provisioning, Live, Deleting,
      ReconcileReady, ReadyPass, EvacuationRefused, SuspendEvacuated, SuspendUnevacuated,
      SuspendedPass, ScaleUp, reconcileResume, DestroyUnowned, DestroyEvacuated,
      DestroyUnevacuated
<1>7. CASE Environment
  BY <1>3, <1>4, <1>7
  DEF Environment, PodStart, PodStop, DoWork, GarbageCollect, Tick, Sync
<1> QED
  BY <1>1, <1>3, <1>6, <1>7 DEF Next, EvacuationFails, vars

\* A pass over a running Workspace that leaves its name and adds at most its
\* document.
LEMMA RunningTouch ==
  ASSUME TypeOK, Safe, NEW w \in Workspaces, NEW r \in WorkspaceRecord,
         Write(w, r), ws[w].life = "live", ws[w].phase \in {"Ready", "Suspended"},
         r.life = ws[w].life, r.id = ws[w].id, r.dup = FALSE,
         UNCHANGED res \/ reconcileClaudeMD(w), UNCHANGED raced
  PROVE  Touch(w)
<1>1. ws[w].id # None /\ (ws[w].id \notin raced => \A k \in Substrate : res[ws[w].id][k] = w)
  BY DEF Safe, RunningHasSubstrate, Substrate
<1>2. ws[w].id \in Names
  BY <1>1, FieldTypes
<1>3. \A n \in Names, k \in Kinds :
        \/ res'[n][k] = res[n][k]
        \/ n = r.id /\ res[n][k] = None /\ res'[n][k] = w
  <2>1. CASE UNCHANGED res
    BY <2>1
  <2>2. CASE reconcileClaudeMD(w)
    <3>1. res' = Created(ws[w].id, w, {"doc"})
      BY <1>1, <2>2 DEF reconcileClaudeMD
    <3> QED
      BY <1>2, <3>1, CreatedFrame
  <2> QED
    BY <2>1, <2>2
<1>4. r.id \notin raced => \A k \in Substrate : res'[r.id][k] # None
  <2>1. w # None /\ Substrate \subseteq Kinds
    BY ConstantsAssumption DEF Substrate, Kinds
  <2> QED
    BY <1>1, <1>2, <1>3, <2>1
<1> QED
  BY <1>1, <1>3, <1>4, LiveTouch

\* Asking for an evacuation, or finding nobody to ask, touches no more than
\* the phase of an object being deleted, or the document of a Ready one.
LEMMA AskingTouches ==
  ASSUME TypeOK, Safe, NEW w \in Workspaces,
         \/ ReadyPass(w) /\ reconcileClaudeMD(w) /\ Write(w, ws[w])
         \/ /\ Deleting(w) /\ UNCHANGED res
            /\ ws' = [ws EXCEPT ![w].phase = "Terminating"],
         UNCHANGED raced
  PROVE  Touch(w)
<1>1. ws[w] \in WorkspaceRecord /\ ws[w].dup = FALSE
  BY FieldTypes DEF Safe, NoneMirrored
<1>2. CASE ReadyPass(w) /\ reconcileClaudeMD(w) /\ Write(w, ws[w])
  BY <1>1, <1>2, RunningTouch DEF ReadyPass, Live
<1>3. CASE Deleting(w) /\ UNCHANGED res /\ ws' = [ws EXCEPT ![w].phase = "Terminating"]
  <2>1. /\ \A v \in Workspaces \ {w} : ws'[v] = ws[v]
        /\ ws'[w].id = ws[w].id /\ ws'[w].life = "deleting" /\ ws'[w].dup = FALSE
        /\ ws[w].life = "deleting"
    BY <1>1, <1>3 DEF Deleting, TypeOK, WorkspaceRecord
  <2>2. \A n \in Names : ~PvcRemoved(n, w)
    BY <1>3, ConstantsAssumption DEF PvcRemoved
  <2> QED
    BY <1>3, <2>1, <2>2 DEF Touch, Exists, Running
<1> QED
  BY <1>2, <1>3

\* Passes over a Ready or a Suspended Workspace touch no more than they may.
LEMMA RunningTouches ==
  ASSUME TypeOK, Safe, PassReady, NEW w \in Workspaces,
         \/ ReconcileReady(w)
         \/ RequestEvacuation(w)
         \/ EvacuationRefused(w)
         \/ \E k \in 0 .. 2 : SuspendEvacuated(w, k)
         \/ \E k \in 1 .. 2 : SuspendUnevacuated(w, k)
         \/ ScaleUp(w)
         \/ reconcileResume(w)
  PROVE  Touch(w)
<1>1. ws[w] \in WorkspaceRecord /\ pass.snap \in Snapshots /\ ws[w].dup = FALSE
  BY FieldTypes DEF Safe, NoneMirrored
<1>2. CASE ReconcileReady(w)
  BY <1>1, <1>2, RunningTouch DEF ReconcileReady, ReadyPass, Live
<1>3. CASE RequestEvacuation(w)
  BY <1>3, AskingTouches DEF RequestEvacuation
<1>4. CASE EvacuationRefused(w)
  BY <1>4, AskingTouches DEF EvacuationRefused
<1>5. ASSUME NEW r \in WorkspaceRecord, NEW k \in 0 .. 2, Stop(w, r, k),
             ws[w].life = "live", ws[w].phase = "Ready",
             r.life = ws[w].life, r.id = ws[w].id, r.dup = FALSE,
             UNCHANGED res \/ reconcileClaudeMD(w), UNCHANGED raced
      PROVE  Touch(w)
  <2> DEFINE q == [r EXCEPT !.phase = "Suspended"]
  <2>1. q \in WorkspaceRecord
    BY Updates DEF Phases
  <2>2. q.life = ws[w].life /\ q.id = ws[w].id /\ q.dup = FALSE
    BY <1>5 DEF WorkspaceRecord
  <2>3. Write(w, q) \/ Write(w, r)
    BY <1>5 DEF Stop
  <2> HIDE DEF q
  <2> QED
    BY <1>5, <2>1, <2>2, <2>3, RunningTouch
<1>6. ASSUME NEW k \in 0 .. 2, SuspendEvacuated(w, k) PROVE Touch(w)
  <2> DEFINE r == [ws[w] EXCEPT !.evac = pass.snap]
  <2>1. r \in WorkspaceRecord
    BY <1>1, Updates
  <2>2. r.life = ws[w].life /\ r.id = ws[w].id /\ r.dup = FALSE
    BY <1>1 DEF WorkspaceRecord
  <2>3. /\ Stop(w, r, k) /\ UNCHANGED <<res, raced>>
        /\ ws[w].life = "live" /\ ws[w].phase = "Ready"
    BY <1>6 DEF SuspendEvacuated, PassReady, Stop
  <2> HIDE DEF r
  <2> QED
    BY <1>5, <2>1, <2>2, <2>3
<1>7. ASSUME NEW k \in 1 .. 2, SuspendUnevacuated(w, k) PROVE Touch(w)
  <2>1. k \in 0 .. 2
    OBVIOUS
  <2> QED
    BY <1>1, <1>5, <1>7, <2>1 DEF SuspendUnevacuated, ReadyPass, Live, Stop
<1>8. CASE ScaleUp(w)
  BY <1>1, <1>8, RunningTouch DEF ScaleUp, SuspendedPass, Live
<1>9. CASE reconcileResume(w)
  <2> DEFINE r == [ws[w] EXCEPT !.phase = "Ready", !.resume = FALSE]
  <2>1. r \in WorkspaceRecord
    BY <1>1, Updates DEF Phases
  <2>2. r.life = ws[w].life /\ r.id = ws[w].id /\ r.dup = FALSE
    BY <1>1 DEF WorkspaceRecord
  <2>3. /\ Write(w, r) /\ UNCHANGED <<res, raced>>
        /\ ws[w].life = "live" /\ ws[w].phase = "Suspended"
    BY <1>9 DEF reconcileResume, SuspendedPass, Live
  <2> HIDE DEF r
  <2> QED
    BY <2>1, <2>2, <2>3, RunningTouch
<1> QED
  BY <1>2, <1>3, <1>4, <1>6, <1>7, <1>8, <1>9

\* Passes that destroy touch no more than they may.
LEMMA DestroyingTouches ==
  ASSUME TypeOK, Safe, PassNamed, NEW w \in Workspaces,
         \/ DestroyUnowned(w)
         \/ \E k \in 0 .. 4 : DestroyEvacuated(w, k)
         \/ \E k \in 0 .. 4 : DestroyUnevacuated(w, k)
  PROVE  Touch(w)
<1>1. /\ ws[w] \in WorkspaceRecord /\ ws[w].id \in Names \cup {None}
      /\ pass.snap \in Snapshots /\ ws[w].dup = FALSE
  BY FieldTypes DEF Safe, NoneMirrored
<1>2. CASE DestroyUnowned(w)
  <2>1. /\ \A v \in Workspaces \ {w} : ws'[v] = ws[v]
        /\ ws'[w].id = ws[w].id /\ ws'[w].life = "gone" /\ ws'[w].dup = FALSE
    BY <1>1, <1>2 DEF DestroyUnowned, TypeOK, WorkspaceRecord
  <2>2. ws[w].life = "deleting" /\ ws[w].id = None /\ UNCHANGED <<res, raced>>
    BY <1>1, <1>2 DEF DestroyUnowned, Deleting
  <2>3. \A n \in Names : ~PvcRemoved(n, w)
    BY <2>2, ConstantsAssumption DEF PvcRemoved
  <2> QED
    BY <2>1, <2>2, <2>3 DEF Touch, Exists, Running
<1>3. ASSUME NEW r \in WorkspaceRecord, NEW k \in 0 .. 4, Teardown(w, r, k),
             ws[w].life = "deleting", r.life = "deleting", r.id = ws[w].id,
             ws[w].id # None, r.dup = FALSE
      PROVE  Touch(w)
  <2> DEFINE gone == [r EXCEPT !.finalizer = FALSE, !.life = "gone"]
             q == IF k = 4 THEN gone ELSE r
             kinds == First(DestroyOrder, IF k = 4 THEN 3 ELSE k)
  <2>1. /\ ws' = [ws EXCEPT ![w] = q] /\ deleted(r.id, kinds) /\ (k >= 3 => r.evac # None)
        /\ UNCHANGED raced
    BY <1>3 DEF Teardown
  <2>2. gone.life = "gone" /\ gone.id = r.id /\ gone.dup = r.dup /\ gone.evac = r.evac
    BY DEF WorkspaceRecord
  <2>3. /\ q.id = r.id /\ q.dup = FALSE /\ q.evac = r.evac
        /\ k = 4 => q.life = "gone"
        /\ k # 4 => q.life = "deleting"
    BY <1>3, <2>2
  <2>4. /\ k < 3 => "pvc" \notin kinds
        /\ k = 4 => "sts" \in kinds /\ "pvc" \in kinds
    BY DEF First, DestroyOrder
  <2> HIDE DEF gone, q, kinds
  <2>5. ws'[w] = q /\ \A v \in Workspaces \ {w} : ws'[v] = ws[v]
    BY <2>1 DEF TypeOK
  <2>6. r.id \in Names
    BY <1>1, <1>3
  <2>7. /\ \A m \in Names, j \in Kinds :
             \/ res'[m][j] = res[m][j]
             \/ m = r.id /\ j \in kinds /\ res'[m][j] = None
        /\ \A j \in Kinds : j \in kinds => res'[r.id][j] = None
    BY <2>1, <2>6, DeletedFrame
  <2>8. "pvc" \in Kinds /\ "sts" \in Kinds /\ w # None
    BY ConstantsAssumption DEF Kinds
  <2>9. \A n \in Names : PvcRemoved(n, w) => q.evac # None
    BY <2>1, <2>3, <2>4, <2>7, <2>8 DEF PvcRemoved
  <2>10. q.life = "gone" => \A j \in Substrate : res'[r.id][j] = None
    BY <2>3, <2>4, <2>7, <2>8 DEF Substrate
  <2>11. \A m \in Names, j \in Kinds :
           \/ res'[m][j] = res[m][j]
           \/ m = q.id /\ res'[m][j] = None
           \/ m = q.id /\ res[m][j] = None /\ res'[m][j] = w
    BY <2>3, <2>7
  <2>12. q.life \in {"gone", "deleting"}
    BY <2>3
  <2> QED
    BY <1>3, <2>1, <2>3, <2>5, <2>9, <2>10, <2>11, <2>12 DEF Touch, Exists, Running
<1>4. ASSUME NEW k \in 0 .. 4, DestroyEvacuated(w, k) PROVE Touch(w)
  <2> DEFINE r == [ws[w] EXCEPT !.evac = pass.snap]
  <2>1. r \in WorkspaceRecord
    BY <1>1, Updates
  <2>2. r.life = ws[w].life /\ r.id = ws[w].id /\ r.dup = FALSE
    BY <1>1 DEF WorkspaceRecord
  <2>3. Teardown(w, r, k) /\ ws[w].life = "deleting" /\ ws[w].id # None
    BY <1>4 DEF DestroyEvacuated, PassNamed
  <2> HIDE DEF r
  <2> QED
    BY <1>3, <2>1, <2>2, <2>3
<1>5. ASSUME NEW k \in 0 .. 4, DestroyUnevacuated(w, k) PROVE Touch(w)
  <2> DEFINE r == [ws[w] EXCEPT !.phase = "Terminating"]
  <2>1. r \in WorkspaceRecord
    BY <1>1, Updates DEF Phases
  <2>2. r.life = ws[w].life /\ r.id = ws[w].id /\ r.dup = FALSE
    BY <1>1 DEF WorkspaceRecord
  <2>3. Teardown(w, r, k) /\ ws[w].life = "deleting" /\ ws[w].id # None
    BY <1>5 DEF DestroyUnevacuated, Deleting
  <2> HIDE DEF r
  <2> QED
    BY <1>3, <2>1, <2>2, <2>3
<1> QED
  BY <1>2, <1>4, <1>5

\* What a pass does to ages, lives and owners: only a canonical Workspace is
\* given a volume.
LEMMA PassAges ==
  ASSUME TypeOK, PassNamed, NEW w \in Workspaces, Reconcile(w)
  PROVE  /\ \A v \in Workspaces : ws'[v].created = ws[v].created
         /\ \A v \in Workspaces : ws'[v].life = ws[v].life \/ (ws[v].life = "deleting" /\ ws'[v].life = "gone")
         /\ UNCHANGED <<second, seen>>
         /\ \A n \in Names, k \in Kinds :
              \/ res'[n][k] = res[n][k] \/ res'[n][k] = None
              \/ res'[n][k] = w /\ ws[w].life = "live" /\ (Provisioning(w) \/ k # "pvc")
<1> DEFINE Ages == /\ \A v \in Workspaces : ws'[v].created = ws[v].created
                   /\ \A v \in Workspaces :
                        ws'[v].life = ws[v].life \/ (ws[v].life = "deleting" /\ ws'[v].life = "gone")
           Owners == \A n \in Names, k \in Kinds :
                       \/ res'[n][k] = res[n][k] \/ res'[n][k] = None
                       \/ res'[n][k] = w /\ ws[w].life = "live" /\ (Provisioning(w) \/ k # "pvc")
<1>0. /\ ws \in [Workspaces -> WorkspaceRecord] /\ ws[w] \in WorkspaceRecord
      /\ ws[w].id \in Names \cup {None} /\ pass.snap \in Snapshots
  BY FieldTypes DEF TypeOK
<1>1. ASSUME NEW r \in WorkspaceRecord, Write(w, r), r.created = ws[w].created, r.life = ws[w].life
      PROVE  Ages
  <2> DEFINE q == [r EXCEPT !.finalizer = TRUE]
  <2>1. q.created = ws[w].created /\ q.life = ws[w].life
    BY <1>1 DEF WorkspaceRecord
  <2>2. ws' = [ws EXCEPT ![w] = q]
    BY <1>1 DEF Write
  <2> HIDE DEF q
  <2> QED
    BY <1>0, <2>1, <2>2
<1>2. UNCHANGED res => Owners
  OBVIOUS
<1>3. ASSUME NEW n \in Names, NEW kinds, deleted(n, kinds) PROVE Owners
  BY <1>3, DeletedFrame
<1>4. ASSUME NEW n \in Names, NEW kinds, res' = Created(n, w, kinds), ws[w].life = "live",
             Provisioning(w) \/ kinds = {"doc"}
      PROVE  Owners
  <2>1. \A m \in Names, k \in Kinds : res'[m][k] = res[m][k] \/ (res'[m][k] = w /\ k \in kinds)
    BY <1>4 DEF Created, TypeOK
  <2> QED
    BY <1>4, <2>1
<1>5. ASSUME reconcileClaudeMD(w), ws[w].life = "live" PROVE Owners
  <2>1. CASE ws[w].id = None
    BY <1>2, <1>5, <2>1 DEF reconcileClaudeMD
  <2>2. CASE ws[w].id # None
    <3>1. res' = Created(ws[w].id, w, {"doc"}) /\ ws[w].id \in Names
      BY <1>0, <1>5, <2>2 DEF reconcileClaudeMD
    <3> HIDE DEF Owners
    <3> QED
      BY <1>4, <1>5, <3>1
  <2> QED
    BY <2>1, <2>2
<1>7. CASE ReconcileIdle(w)
  BY <1>0, <1>1, <1>2, <1>7 DEF ReconcileIdle
<1>8. CASE mirrorCanonical(w)
  <2>1. PICK c \in Workspaces :
          Write(w, [ws[w] EXCEPT !.phase = IF seen[c].phase = "" THEN "Provisioning" ELSE seen[c].phase,
                                 !.id = seen[c].id, !.dup = TRUE])
    BY <1>8 DEF mirrorCanonical
  <2> DEFINE p == IF seen[c].phase = "" THEN "Provisioning" ELSE seen[c].phase
             i == seen[c].id
             r == [ws[w] EXCEPT !.phase = p, !.id = i, !.dup = TRUE]
  <2>2. p \in Phases /\ i \in Names \cup {None}
    BY FieldTypes DEF Phases
  <2>3. Write(w, r)
    BY <2>1
  <2> HIDE DEF p, i
  <2>4. r \in WorkspaceRecord
    BY <1>0, <2>2, Updates
  <2>5. r.created = ws[w].created /\ r.life = ws[w].life
    BY <1>0 DEF WorkspaceRecord
  <2> HIDE DEF r
  <2>6. Ages
    BY <1>1, <2>3, <2>4, <2>5
  <2> QED
    BY <1>2, <1>8, <2>6 DEF mirrorCanonical
<1>9. ASSUME NEW r \in WorkspaceRecord, NEW n, n = resolveResourceName(w), n # None, NEW kinds,
             ensureCreated(n, w, kinds), Write(w, r), Provisioning(w),
             r.created = ws[w].created, r.life = ws[w].life
      PROVE  Ages /\ Owners
  <2>1. Ages
    BY <1>1, <1>9
  <2>2. n \in Names /\ res' = Created(n, w, kinds) /\ ws[w].life = "live"
    BY <1>9, ResolveType DEF ensureCreated, Provisioning, Unprovisioned, Live
  <2> HIDE DEF Owners, Ages
  <2> QED
    BY <1>4, <1>9, <2>1, <2>2
<1>10. ASSUME NEW k \in 0 .. 6, Provision(w, k) PROVE Ages /\ Owners
  <2> DEFINE n == resolveResourceName(w)
             r == [ws[w] EXCEPT !.id = n]
             kinds == First(CreateOrder, k)
  <2>1. n # None /\ ensureCreated(n, w, kinds) /\ Write(w, r) /\ Provisioning(w)
    BY <1>10 DEF Provision
  <2>2. r \in WorkspaceRecord
    BY <1>0, ResolveType, Updates
  <2>3. r.created = ws[w].created /\ r.life = ws[w].life
    BY <1>0 DEF WorkspaceRecord
  <2> HIDE DEF r, kinds, Ages, Owners
  <2> QED
    BY <1>9, <2>1, <2>2, <2>3
<1>11. CASE markReady(w)
  <2> DEFINE n == resolveResourceName(w)
             r == [ws[w] EXCEPT !.id = n, !.phase = "Ready"]
  <2>1. n # None /\ ensureCreated(n, w, Kinds) /\ Write(w, r) /\ Provisioning(w)
    BY <1>11 DEF markReady, computeRunning
  <2>2. r \in WorkspaceRecord
    BY <1>0, ResolveType, Updates DEF Phases
  <2>3. r.created = ws[w].created /\ r.life = ws[w].life
    BY <1>0 DEF WorkspaceRecord
  <2> HIDE DEF r, Ages, Owners
  <2>4. Ages /\ Owners
    BY <1>9, <2>1, <2>2, <2>3
  <2> QED
    BY <1>11, <2>4 DEF markReady, Ages, Owners
<1>12. ASSUME NEW p \in Phases, NEW kinds, ws[w].id # None, deleted(ws[w].id, kinds),
              Write(w, ws[w]) \/ Write(w, [ws[w] EXCEPT !.phase = p])
       PROVE  Ages /\ Owners
  <2> DEFINE r == [ws[w] EXCEPT !.phase = p]
  <2>1. r \in WorkspaceRecord
    BY <1>0, Updates
  <2>2. r.created = ws[w].created /\ r.life = ws[w].life
    BY <1>0 DEF WorkspaceRecord
  <2>3. Write(w, ws[w]) \/ Write(w, r)
    BY <1>12
  <2> HIDE DEF r, Ages, Owners
  <2>4. Ages
    BY <1>0, <1>1, <2>1, <2>2, <2>3
  <2>5. Owners
    BY <1>0, <1>3, <1>12
  <2> QED
    BY <2>4, <2>5
<1>13. ASSUME NEW k \in 1 .. 6, RollbackPartly(w, k) PROVE Ages /\ Owners
  <2> HIDE DEF Ages, Owners
  <2> QED
    BY <1>12, <1>13 DEF RollbackPartly, Phases
<1>14. CASE failAndRollback(w)
  <2> HIDE DEF Ages, Owners
  <2>1. Ages /\ Owners
    BY <1>12, <1>14 DEF failAndRollback, Phases
  <2> QED
    BY <1>14, <2>1 DEF failAndRollback, Ages, Owners
<1>15. ASSUME NEW r \in WorkspaceRecord, Write(w, r), r.created = ws[w].created, r.life = ws[w].life,
              \/ UNCHANGED res
              \/ reconcileClaudeMD(w) /\ ws[w].life = "live"
       PROVE  Ages /\ Owners
  <2>1. Ages
    BY <1>1, <1>15
  <2> HIDE DEF Ages
  <2>2. Owners
    <3> HIDE DEF Owners
    <3> QED
      BY <1>2, <1>5, <1>15
  <2> QED
    BY <2>1, <2>2
<1>16. CASE FailWithoutRollback(w)
  <2> DEFINE r == [ws[w] EXCEPT !.phase = "Failed"]
  <2>1. r \in WorkspaceRecord
    BY <1>0, Updates DEF Phases
  <2>2. r.created = ws[w].created /\ r.life = ws[w].life
    BY <1>0 DEF WorkspaceRecord
  <2>3. Write(w, r) /\ UNCHANGED <<res, second, seen>>
    BY <1>16 DEF FailWithoutRollback
  <2> HIDE DEF r
  <2> QED
    BY <1>15, <2>1, <2>2, <2>3
<1>17. CASE ReconcileReady(w) \/ ScaleUp(w)
  BY <1>0, <1>15, <1>17 DEF ReconcileReady, ReadyPass, Live, ScaleUp
<1>18. ASSUME Deleting(w), ws' = [ws EXCEPT ![w].phase = "Terminating"], UNCHANGED res
       PROVE  Ages /\ Owners
  BY <1>0, <1>18 DEF WorkspaceRecord
<1>19. CASE RequestEvacuation(w) \/ EvacuationRefused(w)
  <2>1. /\ \/ ReadyPass(w) /\ reconcileClaudeMD(w) /\ Write(w, ws[w])
           \/ Deleting(w) /\ ws' = [ws EXCEPT ![w].phase = "Terminating"] /\ UNCHANGED res
        /\ UNCHANGED <<second, seen>>
    BY <1>19 DEF RequestEvacuation, EvacuationRefused
  <2> HIDE DEF Ages, Owners
  <2>2. Ages /\ Owners
    BY <1>0, <1>15, <1>18, <2>1 DEF ReadyPass, Live
  <2> QED
    BY <2>1, <2>2 DEF Ages, Owners
<1>20. ASSUME NEW r \in WorkspaceRecord, NEW k, Stop(w, r, k), r.created = ws[w].created, r.life = ws[w].life,
              \/ UNCHANGED res
              \/ reconcileClaudeMD(w) /\ ws[w].life = "live"
       PROVE  Ages /\ Owners
  <2> DEFINE q == [r EXCEPT !.phase = "Suspended"]
  <2>1. q \in WorkspaceRecord
    BY Updates DEF Phases
  <2>2. q.created = r.created /\ q.life = r.life
    BY DEF WorkspaceRecord
  <2>3. Write(w, q) \/ Write(w, r)
    BY <1>20 DEF Stop
  <2> HIDE DEF q, Ages, Owners
  <2> QED
    BY <1>15, <1>20, <2>1, <2>2, <2>3
<1>21. ASSUME NEW k \in 0 .. 2, SuspendEvacuated(w, k) PROVE Ages /\ Owners
  <2> DEFINE r == [ws[w] EXCEPT !.evac = pass.snap]
  <2>1. r \in WorkspaceRecord
    BY <1>0, Updates
  <2>2. r.created = ws[w].created /\ r.life = ws[w].life
    BY <1>0 DEF WorkspaceRecord
  <2>3. Stop(w, r, k) /\ UNCHANGED res
    BY <1>21 DEF SuspendEvacuated
  <2> HIDE DEF r, Ages, Owners
  <2> QED
    BY <1>20, <2>1, <2>2, <2>3
<1>22. ASSUME NEW k \in 1 .. 2, SuspendUnevacuated(w, k) PROVE Ages /\ Owners
  <2> HIDE DEF Ages, Owners
  <2> QED
    BY <1>0, <1>20, <1>22 DEF SuspendUnevacuated, ReadyPass, Live
<1>23. CASE reconcileResume(w)
  <2> DEFINE r == [ws[w] EXCEPT !.phase = "Ready", !.resume = FALSE]
  <2>1. r \in WorkspaceRecord
    BY <1>0, Updates DEF Phases
  <2>2. r.created = ws[w].created /\ r.life = ws[w].life
    BY <1>0 DEF WorkspaceRecord
  <2>3. Write(w, r) /\ UNCHANGED <<res, second, seen>>
    BY <1>23 DEF reconcileResume
  <2> HIDE DEF r
  <2> QED
    BY <1>15, <2>1, <2>2, <2>3
<1>24. CASE DestroyUnowned(w)
  BY <1>0, <1>24 DEF DestroyUnowned, Deleting, WorkspaceRecord
<1>25. ASSUME NEW r \in WorkspaceRecord, NEW k, Teardown(w, r, k), r.created = ws[w].created,
              r.life = ws[w].life, r.life = "deleting", r.id = ws[w].id, ws[w].id # None
       PROVE  Ages /\ Owners
  <2> DEFINE q == [r EXCEPT !.finalizer = FALSE, !.life = "gone"]
             kinds == First(DestroyOrder, IF k = 4 THEN 3 ELSE k)
  <2>1. q.created = r.created /\ q.life = "gone"
    BY DEF WorkspaceRecord
  <2>2. deleted(r.id, kinds) /\ (ws' = [ws EXCEPT ![w] = q] \/ ws' = [ws EXCEPT ![w] = r])
    BY <1>25 DEF Teardown
  <2> HIDE DEF q, kinds
  <2>3. Ages
    BY <1>0, <1>25, <2>1, <2>2
  <2> HIDE DEF Ages, Owners
  <2>4. Owners
    BY <1>0, <1>3, <1>25, <2>2
  <2> QED
    BY <2>3, <2>4
<1>26. ASSUME NEW k \in 0 .. 4, DestroyEvacuated(w, k) PROVE Ages /\ Owners
  <2> DEFINE r == [ws[w] EXCEPT !.evac = pass.snap]
  <2>1. r \in WorkspaceRecord
    BY <1>0, Updates
  <2>2. r.created = ws[w].created /\ r.life = ws[w].life /\ r.id = ws[w].id
    BY <1>0 DEF WorkspaceRecord
  <2>3. Teardown(w, r, k) /\ ws[w].life = "deleting" /\ ws[w].id # None
    BY <1>26 DEF DestroyEvacuated, PassNamed
  <2> HIDE DEF r, Ages, Owners
  <2> QED
    BY <1>25, <2>1, <2>2, <2>3
<1>27. ASSUME NEW k \in 0 .. 4, DestroyUnevacuated(w, k) PROVE Ages /\ Owners
  <2> DEFINE r == [ws[w] EXCEPT !.phase = "Terminating"]
  <2>1. r \in WorkspaceRecord
    BY <1>0, Updates DEF Phases
  <2>2. r.created = ws[w].created /\ r.life = ws[w].life /\ r.id = ws[w].id
    BY <1>0 DEF WorkspaceRecord
  <2>3. Teardown(w, r, k) /\ ws[w].life = "deleting" /\ ws[w].id # None
    BY <1>27 DEF DestroyUnevacuated, Deleting
  <2> HIDE DEF r, Ages, Owners
  <2> QED
    BY <1>25, <2>1, <2>2, <2>3
<1>28. UNCHANGED <<second, seen>>
  BY DEF Reconcile, ReconcileIdle, mirrorCanonical, Provision, markReady, RollbackPartly,
         failAndRollback, FailWithoutRollback, ReconcileReady, RequestEvacuation, EvacuationRefused,
         SuspendEvacuated, SuspendUnevacuated, Stop, ScaleUp, reconcileResume, DestroyUnowned,
         DestroyEvacuated, DestroyUnevacuated, Teardown
<1> HIDE DEF Ages, Owners
<1>29. Ages /\ Owners
  BY <1>7, <1>8, <1>10, <1>11, <1>13, <1>14, <1>16, <1>17, <1>19, <1>21, <1>22, <1>23, <1>24, <1>26,
     <1>27 DEF Reconcile, Ages, Owners
<1> QED
  BY <1>28, <1>29 DEF Ages, Owners

\* A step that writes no Workspace, or one that ends some, keeps what the list
\* shows of the names.
LEMMA ListedStep ==
  ASSUME TypeOK, PassNamed, Safe, Listed, [Next]_vars
  PROVE  Listed'
<1>1. ASSUME UNCHANGED seen, \A v \in Workspaces : ws[v].life = "gone" => ws'[v].life = "gone"
      PROVE  Listed'
  BY <1>1 DEF Listed
<1>2. ASSUME NEW w \in Workspaces, Reconcile(w) PROVE Listed'
  BY <1>1, <1>2, PassAges
<1>3. ASSUME NEW w \in Workspaces, CreateWorkspace(w) \/ DeleteWorkspace(w) \/ MarkActivity(w)
      PROVE  Listed'
  <2>1. UNCHANGED seen
    BY <1>3 DEF CreateWorkspace, DeleteWorkspace, MarkActivity
  <2> QED
    BY <1>1, <1>3, <2>1, UserFrame
<1>4. CASE Sync
  <2>1. UNCHANGED ws /\ \A v \in Workspaces : seen'[v].life = ws[v].life /\ seen'[v].id = ws[v].id
    BY <1>4 DEF Sync, Entry
  <2> QED
    BY <2>1 DEF Listed, Safe, NamelessAtFirst
<1>5. CASE UNCHANGED <<ws, seen>>
  BY <1>1, <1>5
<1> QED
  BY <1>2, <1>3, <1>4, <1>5
  DEF Next, Environment, PodStart, PodStop, DoWork, GarbageCollect, Tick, EvacuationFails, vars

\* Nothing exists at first.
LEMMA SafeInitial == Init => Safe /\ Listed /\ PassReady /\ PassNamed
<1> SUFFICES ASSUME Init PROVE Safe /\ Listed /\ PassReady /\ PassNamed
  OBVIOUS
<1>1. /\ \A w \in Workspaces : ws[w] = Unborn
      /\ \A n \in Names, k \in Kinds : res[n][k] = None
      /\ pass.who = None
  BY DEF Init, NoPass
<1>2. \A w \in Workspaces :
        /\ ws[w].life = "unborn" /\ ws[w].phase = "" /\ ws[w].id = None
        /\ ws[w].dup = FALSE
  <2>1. /\ Unborn.life = "unborn" /\ Unborn.phase = "" /\ Unborn.id = None
        /\ Unborn.dup = FALSE
    BY Zenon DEF Unborn
  <2> QED
    BY <1>1, <2>1
<1>3. NoneMirrored /\ NamelessAtFirst /\ PhaselessAtFirst
  BY <1>2 DEF NoneMirrored, NamelessAtFirst, PhaselessAtFirst
<1>4. SharedOnlyIfRaced /\ RunningHasSubstrate
  BY <1>2 DEF SharedOnlyIfRaced, SharedName, Exists, RunningHasSubstrate
<1>5. OwnerKnowsName /\ SubstrateOwned
  BY <1>1 DEF OwnerKnowsName, SubstrateOwned, Substrate, Kinds
<1>6. PassReady /\ PassNamed
  BY <1>1, ConstantsAssumption DEF PassReady, PassNamed
<1>7. Listed
  <2>1. \A w \in Workspaces : seen[w].life = "unborn" /\ seen[w].id = None
    BY <1>1, <1>2 DEF Init, Entry
  <2> QED
    BY <2>1 DEF Listed
<1> QED
  BY <1>3, <1>4, <1>5, <1>6, <1>7 DEF Safe

\* The inductive invariant of the theorems below.
Inv == TypeOK /\ PassNamed /\ PassReady /\ Safe /\ Listed

\* Where branches are distinct, every step keeps everything that is safe and
\* removes volumes only behind their gate.
LEMMA SafeStep ==
  ASSUME DistinctBranches, Inv, [Next]_vars
  PROVE  Inv' /\ PvcGatedStep
<1>1. TypeOK /\ PassNamed /\ PassReady /\ Safe /\ Listed
  BY DEF Inv
<1>2. TypeOK' /\ PassNamed' /\ PassReady' /\ Listed'
  BY <1>1, TypeStep, PassNamedStep, PassReadyStep, ListedStep
<1>3. CASE Environment
  BY <1>1, <1>2, <1>3, EnvironmentSafe DEF Inv
<1>4. CASE EvacuationFails \/ UNCHANGED vars
  <2>1. UNCHANGED <<ws, res, raced>>
    BY <1>4 DEF EvacuationFails, vars
  <2>2. PvcGatedStep
    BY <2>1, ConstantsAssumption DEF PvcGatedStep, PvcRemoved
  <2>3. Safe'
    BY <1>1, <2>1, SharedUnchanged
    DEF Safe, NoneMirrored, NamelessAtFirst, PhaselessAtFirst, OwnerKnowsName, SubstrateOwned,
        RunningHasSubstrate, Exists
  <2> QED
    BY <1>2, <2>2, <2>3 DEF Inv
<1>5. ASSUME NEW w \in Workspaces, Reconcile(w) PROVE Inv' /\ PvcGatedStep
  <2>1. Touch(w)
    BY <1>1, <1>5, ProvisioningTouches, RunningTouches, DestroyingTouches DEF Reconcile
  <2> QED
    BY <1>1, <1>2, <2>1, TouchSafe DEF Inv
<1> QED
  BY <1>3, <1>4, <1>5 DEF Next

\* Where branches are distinct: two Workspace objects carry one resource name
\* only if the list it was looked up in did not yet show that the other had
\* it, though labels collide and names are freed and taken again.
THEOREM NamesSharedOnlyIfRaced ==
  ASSUME DistinctBranches
  PROVE  Spec => []SharedOnlyIfRaced
<1>1. Init => Inv
  BY TypeInitial, SafeInitial DEF Inv
<1>2. Inv /\ [Next]_vars => Inv'
  BY SafeStep
<1>3. Inv => SharedOnlyIfRaced
  BY DEF Inv, Safe
<1> QED
  BY <1>1, <1>2, <1>3, PTL DEF Spec

\* Where branches are distinct: each generated object is under the name its
\* owner's status carries, so deletion by that name finds it.
THEOREM ObjectsFound ==
  ASSUME DistinctBranches
  PROVE  Spec => []OwnerKnowsName
<1>1. Init => Inv
  BY TypeInitial, SafeInitial DEF Inv
<1>2. Inv /\ [Next]_vars => Inv'
  BY SafeStep
<1>3. Inv => OwnerKnowsName
  BY DEF Inv, Safe
<1> QED
  BY <1>1, <1>2, <1>3, PTL DEF Spec

\* Where branches are distinct: a Ready or Suspended Workspace keeps a volume
\* and a StatefulSet of its own, whatever other Workspaces' passes roll back
\* or destroy, unless a trailing list gave its name to another as well.
THEOREM SubstrateKept ==
  ASSUME DistinctBranches
  PROVE  Spec => []RunningHasSubstrate
<1>1. Init => Inv
  BY TypeInitial, SafeInitial DEF Inv
<1>2. Inv /\ [Next]_vars => Inv'
  BY SafeStep
<1>3. Inv => RunningHasSubstrate
  BY DEF Inv, Safe
<1> QED
  BY <1>1, <1>2, <1>3, PTL DEF Spec

\* Where branches are distinct: no volume disappears before its gate opens,
\* that is unless its owner is still provisioning or a snapshot is on record
\* for its owner's destruction; a name given twice from a trailing list is
\* the exception.
THEOREM VolumeGated ==
  ASSUME DistinctBranches
  PROVE  Spec => PvcGated
<1>1. Init => Inv
  BY TypeInitial, SafeInitial DEF Inv
<1>2. Inv /\ [Next]_vars => Inv'
  BY SafeStep
<1>3. Inv /\ [Next]_vars => [PvcGatedStep]_vars
  BY SafeStep
<1> QED
  BY <1>1, <1>2, <1>3, PTL DEF Spec, PvcGated

-----------------------------------------------------------------------------
(* Rollback, where templates stay and every branch has one Workspace *)

\* A pass that leaves its Workspace Failed found it so and did nothing, had no
\* name yet, or rolled back.
LEMMA FailingPass ==
  ASSUME TypeOK, PassReady, DistinctBranches, ~TemplateLoss, NEW w \in Workspaces, Reconcile(w),
         ws'[w].life = "live", ws'[w].phase = "Failed"
  PROVE  \/ ws[w].life = "live" /\ ws[w].phase = "Failed" /\ UNCHANGED res
         \/ failAndRollback(w)
         \/ ws[w].id = None /\ UNCHANGED res
<1>0. ws[w] \in WorkspaceRecord /\ pass.snap \in Snapshots
  BY FieldTypes
<1>1. ASSUME NEW r \in WorkspaceRecord, Write(w, r) PROVE r.phase = "Failed"
  BY <1>1, Written
<1>2. CASE ReconcileIdle(w)
  BY <1>0, <1>2, Written DEF ReconcileIdle, Live
<1>3. CASE mirrorCanonical(w)
  BY <1>3 DEF mirrorCanonical, findCanonical, Rivals, DistinctBranches
<1>4. ASSUME NEW k \in 0 .. 6, Provision(w, k) PROVE FALSE
  <2> DEFINE n == resolveResourceName(w)
             r == [ws[w] EXCEPT !.id = n]
  <2>1. Write(w, r) /\ ws[w].phase \in {"", "Provisioning"}
    BY <1>4 DEF Provision, Provisioning, Unprovisioned
  <2>2. r \in WorkspaceRecord
    BY <1>0, ResolveType, Updates
  <2>3. r.phase = ws[w].phase
    BY <1>0 DEF WorkspaceRecord
  <2> HIDE DEF r
  <2> QED
    BY <1>1, <2>1, <2>2, <2>3
<1>5. CASE markReady(w)
  <2> DEFINE n == resolveResourceName(w)
             r == [ws[w] EXCEPT !.id = n, !.phase = "Ready"]
  <2>1. Write(w, r)
    BY <1>5 DEF markReady
  <2>2. r \in WorkspaceRecord
    BY <1>0, ResolveType, Updates DEF Phases
  <2>3. r.phase = "Ready"
    BY <1>0 DEF WorkspaceRecord
  <2> HIDE DEF r
  <2> QED
    BY <1>1, <2>1, <2>2, <2>3
<1>6. ASSUME NEW k \in 1 .. 6, RollbackPartly(w, k) PROVE FALSE
  BY <1>0, <1>1, <1>6 DEF RollbackPartly, Provisioning, Unprovisioned
<1>7. CASE FailWithoutRollback(w)
  BY <1>7 DEF FailWithoutRollback
<1>8. ASSUME \/ ReadyPass(w) /\ Write(w, ws[w])
             \/ SuspendedPass(w) /\ Write(w, ws[w])
             \/ Deleting(w) /\ ws' = [ws EXCEPT ![w].phase = "Terminating"]
      PROVE  FALSE
  <2>1. CASE Deleting(w) /\ ws' = [ws EXCEPT ![w].phase = "Terminating"]
    BY <1>0, <2>1 DEF TypeOK, WorkspaceRecord
  <2> QED
    BY <1>0, <1>1, <1>8, <2>1 DEF ReadyPass, SuspendedPass
<1>9. ~ReconcileReady(w) /\ ~RequestEvacuation(w) /\ ~EvacuationRefused(w) /\ ~ScaleUp(w)
  BY <1>8 DEF ReconcileReady, RequestEvacuation, EvacuationRefused, ScaleUp
<1>10. ASSUME NEW r \in WorkspaceRecord, NEW k, Stop(w, r, k), r.phase = "Ready" PROVE FALSE
  <2> DEFINE q == [r EXCEPT !.phase = "Suspended"]
  <2>1. q \in WorkspaceRecord
    BY Updates DEF Phases
  <2>2. q.phase = "Suspended"
    BY DEF WorkspaceRecord
  <2>3. Write(w, q) \/ Write(w, r)
    BY <1>10 DEF Stop
  <2> HIDE DEF q
  <2> QED
    BY <1>1, <1>10, <2>1, <2>2, <2>3
<1>11. ASSUME NEW k \in 0 .. 2, SuspendEvacuated(w, k) PROVE FALSE
  <2> DEFINE r == [ws[w] EXCEPT !.evac = pass.snap]
  <2>1. r \in WorkspaceRecord
    BY <1>0, Updates
  <2>2. r.phase = "Ready" /\ Stop(w, r, k)
    BY <1>0, <1>11 DEF SuspendEvacuated, PassReady, WorkspaceRecord
  <2> HIDE DEF r
  <2> QED
    BY <1>10, <2>1, <2>2
<1>12. ASSUME NEW k \in 1 .. 2, SuspendUnevacuated(w, k) PROVE FALSE
  BY <1>0, <1>10, <1>12 DEF SuspendUnevacuated, ReadyPass
<1>13. ~reconcileResume(w)
  <2> DEFINE r == [ws[w] EXCEPT !.phase = "Ready", !.resume = FALSE]
  <2>1. r \in WorkspaceRecord
    BY <1>0, Updates DEF Phases
  <2>2. r.phase = "Ready"
    BY <1>0 DEF WorkspaceRecord
  <2>3. reconcileResume(w) => Write(w, r)
    BY DEF reconcileResume
  <2> HIDE DEF r
  <2> QED
    BY <1>1, <2>1, <2>2, <2>3
<1>14. ~DestroyUnowned(w)
  BY <1>0 DEF DestroyUnowned, TypeOK, WorkspaceRecord
<1>15. ASSUME NEW r \in WorkspaceRecord, NEW k, Teardown(w, r, k), r.life = "deleting" PROVE FALSE
  <2>1. ws'[w].life \in {"gone", "deleting"}
    BY <1>15 DEF Teardown, TypeOK, WorkspaceRecord
  <2> QED
    BY <2>1
<1>16. ASSUME NEW k \in 0 .. 4, DestroyEvacuated(w, k) \/ DestroyUnevacuated(w, k) PROVE FALSE
  <2>1. CASE DestroyEvacuated(w, k)
    <3> DEFINE r == [ws[w] EXCEPT !.evac = pass.snap]
    <3>1. r \in WorkspaceRecord
      BY <1>0, Updates
    <3>2. r.life = "deleting" /\ Teardown(w, r, k)
      BY <1>0, <2>1 DEF DestroyEvacuated, WorkspaceRecord
    <3> HIDE DEF r
    <3> QED
      BY <1>15, <3>1, <3>2
  <2>2. CASE DestroyUnevacuated(w, k)
    <3> DEFINE r == [ws[w] EXCEPT !.phase = "Terminating"]
    <3>1. r \in WorkspaceRecord
      BY <1>0, Updates DEF Phases
    <3>2. r.life = "deleting" /\ Teardown(w, r, k)
      BY <1>0, <2>2 DEF DestroyUnevacuated, Deleting, WorkspaceRecord
    <3> HIDE DEF r
    <3> QED
      BY <1>15, <3>1, <3>2
  <2> QED
    BY <1>16, <2>1, <2>2
<1> QED
  BY <1>2, <1>3, <1>4, <1>5, <1>6, <1>7, <1>9, <1>11, <1>12, <1>13, <1>14, <1>16 DEF Reconcile

\* A Workspace that is Failed owns nothing and is given nothing.
LEMMA RollbackStep ==
  ASSUME DistinctBranches, ~TemplateLoss, Inv, RollbackComplete, [Next]_vars
  PROVE  RollbackComplete'
<1> SUFFICES ASSUME NEW w \in Workspaces, ws'[w].life = "live", ws'[w].phase = "Failed",
                    NEW n \in Names, NEW k \in Kinds
             PROVE  res'[n][k] # w
  BY DEF RollbackComplete
<1>0. TypeOK /\ PassNamed /\ PassReady /\ Safe /\ Listed /\ w # None /\ n # None
  BY ConstantsAssumption DEF Inv, Names
<1>1. ASSUME ws[w].life = "live", ws[w].phase = "Failed" PROVE res[n][k] # w
  BY <1>1 DEF RollbackComplete
<1>2. ASSUME NEW v \in Workspaces, Reconcile(v) PROVE res'[n][k] # w
  <2>1. Touch(v)
    BY <1>0, <1>2, ProvisioningTouches, RunningTouches, DestroyingTouches DEF Reconcile
  <2>2. CASE v # w
    <3>1. res[n][k] # w
      BY <1>1, <2>1, <2>2 DEF Touch
    <3> QED
      BY <1>0, <2>1, <2>2, <3>1 DEF Touch
  <2>3. CASE v = w
    <3>1. CASE failAndRollback(w)
      <4>1. ws[w].id \in Names /\ deleted(ws[w].id, Kinds)
        BY <1>0, <3>1, FieldTypes DEF failAndRollback
      <4>2. /\ n = ws[w].id => res'[n][k] = None
            /\ n # ws[w].id => res'[n][k] = res[n][k]
        BY <1>0, <4>1, DeletedFrame
      <4>3. res[n][k] = w => ws[w].id = n
        BY <1>0 DEF Safe, OwnerKnowsName
      <4> QED
        BY <1>0, <4>2, <4>3
    <3>2. CASE ws[w].id = None /\ UNCHANGED res
      BY <1>0, <3>2 DEF Safe, OwnerKnowsName
    <3>3. CASE ws[w].life = "live" /\ ws[w].phase = "Failed" /\ UNCHANGED res
      BY <1>1, <3>3
    <3> QED
      BY <1>0, <1>2, <2>3, <3>1, <3>2, <3>3, FailingPass
  <2> QED
    BY <2>2, <2>3
<1>3. ASSUME NEW v \in Workspaces, CreateWorkspace(v) \/ DeleteWorkspace(v) \/ MarkActivity(v)
      PROVE  res'[n][k] # w
  <2>1. UNCHANGED res
    BY <1>3 DEF CreateWorkspace, DeleteWorkspace, MarkActivity
  <2>2. ws[w].phase = "Failed" /\ (ws[w].life = "live" \/ ws[w].life = "unborn")
    BY <1>0, <1>3, UserFrame
  <2>3. ws[w].life # "unborn"
    BY <1>0, <2>2 DEF Safe, PhaselessAtFirst
  <2> QED
    BY <1>1, <2>1, <2>2, <2>3
<1>4. ASSUME NEW m \in Names, NEW j \in Kinds, GarbageCollect(m, j) PROVE res'[n][k] # w
  <2>1. UNCHANGED ws /\ deleted(m, {j})
    BY <1>4 DEF GarbageCollect
  <2>2. res'[n][k] = res[n][k] \/ res'[n][k] = None
    BY <1>0, <2>1, DeletedFrame
  <2> QED
    BY <1>0, <1>1, <2>1, <2>2
<1>5. CASE UNCHANGED <<ws, res>>
  BY <1>1, <1>5
<1> QED
  BY <1>2, <1>3, <1>4, <1>5
  DEF Next, Environment, PodStart, PodStop, DoWork, Tick, Sync, EvacuationFails, vars

\* Where branches are distinct and templates stay: a Workspace that failed has
\* left nothing behind, whatever passes died on the way.
THEOREM RollbackLeavesNothing ==
  ASSUME DistinctBranches, ~TemplateLoss
  PROVE  Spec => []RollbackComplete
<1>1. Init => Inv /\ RollbackComplete
  <2>1. Unborn.life = "unborn"
    BY Zenon DEF Unborn
  <2>2. Init => RollbackComplete
    BY <2>1 DEF Init, RollbackComplete
  <2> QED
    BY <2>2, TypeInitial, SafeInitial DEF Inv
<1>2. Inv /\ RollbackComplete /\ [Next]_vars => (Inv /\ RollbackComplete)'
  BY SafeStep, RollbackStep
<1> QED
  BY <1>1, <1>2, PTL DEF Spec

-----------------------------------------------------------------------------
(* One Workspace per branch, where creations are seconds apart *)

\* No object was created in the future, and none is owned by a Workspace that
\* is yet to be created.
CreatedPast == \A w \in Workspaces : ws[w].life # "unborn" => ws[w].created <= second
OwnersBorn == \A n \in Names, k \in Kinds, w \in Workspaces : res[n][k] = w => ws[w].life # "unborn"

\* The cache lists nothing that was not created, nor takes for ended what is
\* not, and it lists creations in their order.
SeenBorn == \A w \in Workspaces : seen[w].life # "unborn" => ws[w].life # "unborn"
SeenEnded ==
  \A w \in Workspaces :
    seen[w].life \in {"deleting", "gone"} => ws[w].life \in {"deleting", "gone"}
SeenInOrder ==
  \A v, w \in Workspaces :
    seen[v].life # "unborn" /\ seen[w].life = "unborn" /\ ws[w].life # "unborn" =>
      ws[v].created < ws[w].created
Cached == SeenBorn /\ SeenEnded /\ SeenInOrder

\* Who owns a volume is older than every rival.
OwnerOldest ==
  \A v, w \in Workspaces :
    /\ v # w /\ Branch[v] = Branch[w] /\ ws[v].life = "live" /\ ws[w].life = "live"
    /\ \E n \in Names : res[n]["pvc"] = v
    => isOlder(v, w)

\* The cache keeps trailing the store in the order of its writes.
LEMMA CachedStep ==
  ASSUME DistinctSeconds, TypeOK, PassNamed, CreatedPast, Cached, [Next]_vars
  PROVE  Cached'
<1>0. second \in Nat /\ \A w \in Workspaces : ws[w].created \in Nat
  BY DEF TypeOK, WorkspaceRecord
<1>1. CASE UNCHANGED <<ws, seen>>
  BY <1>1 DEF Cached, SeenBorn, SeenEnded, SeenInOrder
<1>2. ASSUME UNCHANGED seen, \A v \in Workspaces : ws'[v].created = ws[v].created,
             \A v \in Workspaces :
               \/ ws'[v].life = ws[v].life
               \/ ws[v].life # "unborn" /\ ws'[v].life \in {"deleting", "gone"}
      PROVE  Cached'
  <2>1. SeenBorn'
    BY <1>2 DEF Cached, SeenBorn
  <2>2. SeenEnded'
    BY <1>2 DEF Cached, SeenEnded
  <2>3. SeenInOrder'
    BY <1>2 DEF Cached, SeenInOrder
  <2> QED
    BY <2>1, <2>2, <2>3 DEF Cached
<1>3. ASSUME NEW w \in Workspaces, Reconcile(w) PROVE Cached'
  BY <1>2, <1>3, PassAges
<1>4. ASSUME NEW w \in Workspaces, CreateWorkspace(w) PROVE Cached'
  <2>1. /\ ws[w].life = "unborn" /\ UNCHANGED seen
        /\ ws'[w].life = "live" /\ ws'[w].created = second
        /\ \A v \in Workspaces \ {w} : ws'[v] = ws[v]
        /\ \A v \in Workspaces : ws[v].life # "unborn" => ws[v].created # second
    BY <1>4 DEF CreateWorkspace, TypeOK, WorkspaceRecord
  <2>2. SeenBorn' /\ SeenEnded'
    BY <2>1 DEF Cached, SeenBorn, SeenEnded
  <2>3. SeenInOrder'
    <3> SUFFICES ASSUME NEW u \in Workspaces, NEW v \in Workspaces, seen[u].life # "unborn",
                        seen[v].life = "unborn", ws'[v].life # "unborn"
                 PROVE  ws'[u].created < ws'[v].created
      BY <2>1 DEF SeenInOrder
    <3>1. ws[u].life # "unborn" /\ u # w /\ ws'[u].created = ws[u].created
      BY <2>1 DEF Cached, SeenBorn
    <3>2. CASE v = w
      BY <1>0, <2>1, <3>1, <3>2 DEF CreatedPast
    <3>3. CASE v # w
      BY <2>1, <3>1, <3>3 DEF Cached, SeenInOrder
    <3> QED
      BY <3>2, <3>3
  <2> QED
    BY <2>2, <2>3 DEF Cached
<1>5. ASSUME NEW w \in Workspaces, DeleteWorkspace(w) \/ MarkActivity(w) PROVE Cached'
  <2>1. UNCHANGED seen /\ \A v \in Workspaces : ws'[v].created = ws[v].created
    BY <1>5 DEF DeleteWorkspace, MarkActivity, TypeOK, WorkspaceRecord
  <2>2. \A v \in Workspaces :
          \/ ws'[v].life = ws[v].life
          \/ ws[v].life # "unborn" /\ ws'[v].life \in {"deleting", "gone"}
    BY <1>5, UserFrame DEF DeleteWorkspace, MarkActivity
  <2> QED
    BY <1>2, <2>1, <2>2
<1>6. CASE Sync
  <2>1. UNCHANGED ws /\ \A v \in Workspaces : seen'[v].life = ws[v].life
    BY <1>6 DEF Sync, Entry
  <2> QED
    BY <2>1 DEF Cached, SeenBorn, SeenEnded, SeenInOrder
<1> QED
  BY <1>1, <1>3, <1>4, <1>5, <1>6
  DEF Next, Environment, PodStart, PodStop, DoWork, GarbageCollect, Tick, EvacuationFails, vars

\* Ages and owners are kept by every step.
LEMMA OldestStep ==
  ASSUME DistinctSeconds, TypeOK, PassNamed, Cached, CreatedPast, OwnersBorn, OwnerOldest,
         [Next]_vars
  PROVE  CreatedPast' /\ OwnersBorn' /\ OwnerOldest'
<1> DEFINE Kept == CreatedPast' /\ OwnersBorn' /\ OwnerOldest'
<1>0. /\ second \in Nat /\ MaxSecond \in Nat
      /\ \A w \in Workspaces : ws[w].created \in Nat /\ w # None /\ w \in Nat
      /\ "pvc" \in Kinds
  BY ConstantsAssumption DEF TypeOK, WorkspaceRecord, Kinds
<1>1. ASSUME UNCHANGED ws, \A n \in Names, k \in Kinds : res'[n][k] = res[n][k] \/ res'[n][k] = None,
             second' \in {second, second + 1}
      PROVE  Kept
  <2>1. CreatedPast'
    BY <1>0, <1>1 DEF CreatedPast
  <2>2. OwnersBorn'
    BY <1>0, <1>1 DEF OwnersBorn
  <2>3. OwnerOldest'
    BY <1>0, <1>1 DEF OwnerOldest, isOlder
  <2> QED
    BY <2>1, <2>2, <2>3
<1>2. ASSUME NEW w \in Workspaces, Reconcile(w) PROVE Kept
  <2>1. /\ \A v \in Workspaces : ws'[v].created = ws[v].created
        /\ \A v \in Workspaces : ws'[v].life = ws[v].life \/ (ws[v].life = "deleting" /\ ws'[v].life = "gone")
        /\ UNCHANGED second
    BY <1>2, PassAges
  <2>2. \A n \in Names, k \in Kinds :
          \/ res'[n][k] = res[n][k] \/ res'[n][k] = None
          \/ res'[n][k] = w /\ ws[w].life = "live" /\ (Provisioning(w) \/ k # "pvc")
    BY <1>2, PassAges
  <2>3. CreatedPast'
    BY <2>1 DEF CreatedPast
  <2>4. OwnersBorn'
    BY <1>0, <2>1, <2>2 DEF OwnersBorn
  <2>5. OwnerOldest'
    <3> SUFFICES ASSUME NEW u \in Workspaces, NEW v \in Workspaces, u # v, Branch[u] = Branch[v],
                        ws'[u].life = "live", ws'[v].life = "live",
                        NEW n \in Names, res'[n]["pvc"] = u
                 PROVE  isOlder(u, v)
      BY <2>1 DEF OwnerOldest, isOlder
    <3>1. ws[u].life = "live" /\ ws[v].life = "live"
      BY <2>1
    <3>2. CASE res[n]["pvc"] = u
      BY <3>1, <3>2 DEF OwnerOldest
    <3>3. CASE res[n]["pvc"] # u
      <4>1. u = w /\ Provisioning(w)
        BY <1>0, <2>2, <3>3
      <4>2. isCanonical(w) /\ seen[w].life = "live"
        <5>1. isCanonical(w) /\ seen[w] = Entry(ws[w]) /\ ws[w].life = "live"
          BY <4>1, Zenon DEF Provisioning, Unprovisioned, Live, Current
        <5>2. Entry(ws[w]).life = ws[w].life
          BY DEF Entry
        <5> QED
          BY <5>1, <5>2
      <4>3. CASE seen[v].life = "live"
        BY <4>1, <4>2, <4>3 DEF isCanonical, Rivals
      <4>4. CASE seen[v].life = "unborn"
        BY <3>1, <4>1, <4>2, <4>4 DEF Cached, SeenInOrder, isOlder
      <4>5. seen[v].life \in Lives /\ seen[v].life \notin {"deleting", "gone"}
        BY <3>1 DEF Cached, SeenEnded, TypeOK, ListRecord
      <4> QED
        BY <4>3, <4>4, <4>5 DEF Lives
    <3> QED
      BY <3>2, <3>3
  <2> QED
    BY <2>3, <2>4, <2>5
<1>3. ASSUME NEW w \in Workspaces, CreateWorkspace(w) PROVE Kept
  <2>1. /\ ws[w].life = "unborn" /\ UNCHANGED <<res, second>>
        /\ ws'[w].life = "live" /\ ws'[w].created = second
        /\ \A v \in Workspaces \ {w} : ws'[v] = ws[v]
        /\ \A v \in Workspaces : ws[v].life # "unborn" => ws[v].created # second
    BY <1>3 DEF CreateWorkspace, TypeOK, WorkspaceRecord
  <2>2. CreatedPast'
    BY <1>0, <2>1 DEF CreatedPast
  <2>3. OwnersBorn'
    BY <2>1 DEF OwnersBorn
  <2>4. OwnerOldest'
    <3> SUFFICES ASSUME NEW u \in Workspaces, NEW v \in Workspaces, u # v, Branch[u] = Branch[v],
                        ws'[u].life = "live", ws'[v].life = "live",
                        NEW n \in Names, res[n]["pvc"] = u
                 PROVE  isOlder(u, v)'
      BY <2>1 DEF OwnerOldest
    <3>1. u # w
      BY <1>0, <2>1 DEF OwnersBorn
    <3>2. CASE v = w
      <4>1. ws[u].life = "live" /\ ws'[u].created = ws[u].created
        BY <2>1, <3>1
      <4>2. ws[u].created < second
        BY <1>0, <2>1, <4>1 DEF CreatedPast
      <4> QED
        BY <2>1, <3>2, <4>1, <4>2 DEF isOlder
    <3>3. CASE v # w
      <4>1. isOlder(u, v)
        BY <2>1, <3>1, <3>3 DEF OwnerOldest
      <4> QED
        BY <2>1, <3>1, <3>3, <4>1 DEF isOlder
    <3> QED
      BY <3>2, <3>3
  <2> QED
    BY <2>2, <2>3, <2>4
<1>4. ASSUME NEW w \in Workspaces, DeleteWorkspace(w) \/ MarkActivity(w) PROVE Kept
  <2>1. /\ UNCHANGED <<res, second>>
        /\ \A v \in Workspaces : ws'[v].created = ws[v].created
    BY <1>4 DEF DeleteWorkspace, MarkActivity, TypeOK, WorkspaceRecord
  <2>2. ws[w].life = "live" /\ ws'[w].life # "unborn"
    BY <1>4, UserFrame DEF DeleteWorkspace, MarkActivity
  <2>3. \A v \in Workspaces \ {w} : ws'[v] = ws[v]
    BY <1>4, UserFrame
  <2>4. CreatedPast'
    BY <2>1, <2>2, <2>3 DEF CreatedPast
  <2>5. OwnersBorn'
    BY <2>1, <2>2, <2>3 DEF OwnersBorn
  <2>6. \A v \in Workspaces : ws'[v].life = "live" => ws[v].life = "live"
    BY <2>2, <2>3
  <2>7. OwnerOldest'
    BY <2>1, <2>6 DEF OwnerOldest, isOlder
  <2> QED
    BY <2>4, <2>5, <2>7
<1>5. ASSUME NEW n \in Names, NEW k \in Kinds, GarbageCollect(n, k) PROVE Kept
  BY <1>1, <1>5, DeletedFrame DEF GarbageCollect
<1> QED
  BY <1>1, <1>2, <1>3, <1>4, <1>5
  DEF Next, Environment, PodStart, PodStop, DoWork, Tick, Sync, EvacuationFails, vars

\* Where creations are seconds apart: no two live Workspaces ever both own a
\* volume for one repository and branch, however passes, deletions and
\* mirrored names interleave and however far the list of rivals trails.
THEOREM BranchOwnedOnce ==
  ASSUME DistinctSeconds
  PROVE  Spec => []BranchExclusive
<1> DEFINE I == TypeOK /\ PassNamed /\ Cached /\ CreatedPast /\ OwnersBorn /\ OwnerOldest
<1>1. Init => I
  <2> SUFFICES ASSUME Init PROVE I
    OBVIOUS
  <2>1. Unborn.life = "unborn"
    BY Zenon DEF Unborn
  <2>2. \A w \in Workspaces : ws[w].life = "unborn" /\ w # None
    BY <2>1, ConstantsAssumption DEF Init
  <2>3. CreatedPast /\ OwnerOldest
    BY <2>2 DEF CreatedPast, OwnerOldest
  <2>4. OwnersBorn
    BY <2>2 DEF Init, OwnersBorn
  <2>5. \A w \in Workspaces : seen[w].life = "unborn"
    BY <2>1 DEF Init, Entry
  <2>6. Cached
    BY <2>5 DEF Cached, SeenBorn, SeenEnded, SeenInOrder
  <2> QED
    BY <2>3, <2>4, <2>6, TypeInitial, SafeInitial
<1>2. I /\ [Next]_vars => I'
  BY TypeStep, PassNamedStep, CachedStep, OldestStep
<1>3. I => BranchExclusive
  <2> SUFFICES ASSUME I, NEW v \in Workspaces, NEW w \in Workspaces, v # w, Branch[v] = Branch[w],
                      ws[v].life = "live", ws[w].life = "live",
                      NEW m \in Names, NEW n \in Names, res[m]["pvc"] = v, res[n]["pvc"] = w
               PROVE  FALSE
    BY DEF BranchExclusive
  <2>1. isOlder(v, w) /\ isOlder(w, v)
    BY DEF OwnerOldest
  <2>2. ws[v].created \in Nat /\ ws[w].created \in Nat /\ v \in Nat /\ w \in Nat
    BY ConstantsAssumption DEF TypeOK, WorkspaceRecord
  <2> QED
    BY <2>1, <2>2 DEF isOlder
<1> QED
  BY <1>1, <1>2, <1>3, PTL DEF Spec

-----------------------------------------------------------------------------
(* What is captured before a stop, where nobody writes meanwhile *)

\* A StatefulSet that is not there has no replicas.
NoneScaled == \A n \in Names : res[n]["sts"] = None => replicas[n] = 0

\* The snapshot under way holds what the working directory does.
SnapTrue == \A w \in Workspaces : pass.who = w => work[ws[w].id] = pass.snap

\* Creating and scaling keep replicas with their StatefulSets, and take none
\* away but by scaling to zero.
LEMMA EnsureScaled ==
  ASSUME TypeOK, NoneScaled, NEW n \in Names, NEW w \in Workspaces, NEW kinds,
         ensureCreated(n, w, kinds)
  PROVE  NoneScaled' /\ \A m \in Names : replicas[m] = 1 => replicas'[m] = 1
<1>1. w # None /\ "sts" \in Kinds
  BY ConstantsAssumption DEF Kinds
<1> QED
  BY <1>1 DEF ensureCreated, Created, NoneScaled, TypeOK

LEMMA DeletedScaled ==
  ASSUME TypeOK, NoneScaled, NEW n \in Names, NEW kinds, deleted(n, kinds)
  PROVE  /\ NoneScaled'
         /\ \A m \in Names : replicas[m] = 1 /\ replicas'[m] = 0 => m = n /\ "sts" \in kinds
         /\ \A m \in Names : m # n \/ "pvc" \notin kinds => work'[m] = work[m]
<1>1. "sts" \in Kinds
  BY DEF Kinds
<1> QED
  BY <1>1 DEF deleted, NoneScaled, TypeOK

LEMMA ScaleScaled ==
  ASSUME TypeOK, NoneScaled, NEW n \in Names, NEW k \in {0, 1}, scaleStatefulSet(n, k),
         \A m \in Names : res'[m]["sts"] = res[m]["sts"]
  PROVE  /\ NoneScaled'
         /\ \A m \in Names : replicas[m] = 1 /\ replicas'[m] = 0 => m = n /\ k = 0
BY DEF scaleStatefulSet, NoneScaled, TypeOK

\* The document of a Ready pass is no StatefulSet.
LEMMA DocumentScaled ==
  ASSUME TypeOK, NEW w \in Workspaces, UNCHANGED res \/ reconcileClaudeMD(w)
  PROVE  \A m \in Names : res'[m]["sts"] = res[m]["sts"]
<1>1. "sts" \in Kinds /\ ws[w].id \in Names \cup {None}
  BY FieldTypes DEF Kinds
<1> QED
  BY <1>1 DEF reconcileClaudeMD, Created, TypeOK

\* The working directory being captured stays as it is until the pass ends.
LEMMA SnapStep ==
  ASSUME QuietStop, Inv, SnapTrue, [Next]_vars
  PROVE  SnapTrue'
<1>0. TypeOK /\ PassNamed /\ PassReady /\ Safe
  BY DEF Inv
<1>1. CASE pass' = NoPass
  BY <1>1, ConstantsAssumption DEF SnapTrue, NoPass
<1>2. CASE WorkerFree /\ UNCHANGED pass
  BY <1>2, ConstantsAssumption DEF SnapTrue, WorkerFree
<1>3. CASE UNCHANGED <<ws, pass, work>>
  BY <1>3 DEF SnapTrue
<1>4. ASSUME NEW w \in Workspaces, CreateWorkspace(w) \/ DeleteWorkspace(w) \/ MarkActivity(w)
      PROVE  SnapTrue'
  <2>1. pass'.who = pass.who /\ pass'.snap = pass.snap /\ UNCHANGED work
    BY <1>0, <1>4 DEF CreateWorkspace, DeleteWorkspace, MarkActivity, Interrupt, TypeOK
  <2>2. \A v \in Workspaces : ws'[v].id = ws[v].id
    BY <1>0, <1>4, UserFrame
  <2> QED
    BY <2>1, <2>2 DEF SnapTrue
<1>5. ASSUME NEW w \in Workspaces, RequestEvacuation(w) PROVE SnapTrue'
  <2>1. pass'.who = w /\ pass'.snap = work[ws[w].id] /\ UNCHANGED work
    BY <1>5 DEF RequestEvacuation
  <2>2. ws'[w].id = ws[w].id
    BY <1>0, <1>5 DEF RequestEvacuation, Write, TypeOK, WorkspaceRecord
  <2> QED
    BY <2>1, <2>2 DEF SnapTrue
<1>6. ASSUME NEW w \in Workspaces, Reconcile(w) PROVE SnapTrue'
  BY <1>1, <1>2, <1>5, <1>6
  DEF Reconcile, ReconcileIdle, mirrorCanonical, Provision, markReady, RollbackPartly,
      failAndRollback, FailWithoutRollback, Unprovisioned, Provisioning, Live, Deleting,
      ReconcileReady, ReadyPass, EvacuationRefused, SuspendEvacuated, SuspendUnevacuated,
      SuspendedPass, ScaleUp, reconcileResume, DestroyUnowned, DestroyEvacuated,
      DestroyUnevacuated
<1>7. ASSUME NEW n \in Names, DoWork(n) PROVE SnapTrue'
  <2>1. UNCHANGED <<ws, pass>> /\ \A m \in Names \ {n} : work'[m] = work[m]
    BY <1>0, <1>7 DEF DoWork, TypeOK
  <2>2. \A w \in Workspaces : pass.who = w => ws[w].id # n /\ ws[w].id \in Names
    BY <1>0, <1>7, FieldTypes DEF DoWork, Stopping, PassNamed
  <2> QED
    BY <2>1, <2>2 DEF SnapTrue
<1>8. ASSUME NEW n \in Names, NEW k \in Kinds, GarbageCollect(n, k) PROVE SnapTrue'
  <2>1. UNCHANGED <<ws, pass>> /\ k # "pvc"
    BY <1>0, <1>8 DEF GarbageCollect, Safe, SubstrateOwned, Substrate, Exists
  <2>2. \A m \in Names : work'[m] = work[m]
    BY <1>0, <1>8, <2>1 DEF GarbageCollect, deleted, TypeOK
  <2>3. \A w \in Workspaces : pass.who = w => ws[w].id \in Names
    BY <1>0, FieldTypes DEF PassNamed
  <2> QED
    BY <2>1, <2>2, <2>3 DEF SnapTrue
<1> QED
  BY <1>1, <1>3, <1>4, <1>6, <1>7, <1>8
  DEF Next, Environment, PodStart, PodStop, Tick, Sync, EvacuationFails, vars

\* Replicas go with their StatefulSet, and only after a capture.
LEMMA StopStep ==
  ASSUME QuietStop, Inv, SnapTrue, NoneScaled, [Next]_vars
  PROVE  NoneScaled' /\ StopEvacuatedStep
<1> DEFINE Stopped == NoneScaled' /\ StopEvacuatedStep
<1>0. TypeOK /\ PassNamed /\ PassReady /\ Safe
  BY DEF Inv
<1>1. ASSUME UNCHANGED replicas, \A m \in Names : res'[m]["sts"] = res[m]["sts"] PROVE Stopped
  BY <1>1 DEF NoneScaled, StopEvacuatedStep
<1>2. ASSUME NoneScaled', \A m \in Names : replicas[m] = 1 => replicas'[m] = 1 PROVE Stopped
  BY <1>2 DEF StopEvacuatedStep
<1>3. ASSUME NEW n \in Names, NEW k \in Kinds, GarbageCollect(n, k) PROVE Stopped
  <2>1. k \notin Substrate /\ deleted(n, {k})
    BY <1>0, <1>3 DEF GarbageCollect, Safe, SubstrateOwned, Exists
  <2>2. /\ NoneScaled'
        /\ \A m \in Names : replicas[m] = 1 /\ replicas'[m] = 0 => "sts" \in {k}
    BY <1>0, <2>1, DeletedScaled
  <2> QED
    BY <2>1, <2>2 DEF StopEvacuatedStep, Substrate
<1>4. ASSUME NEW w \in Workspaces, NEW kinds, Provisioning(w), ws[w].id # None, deleted(ws[w].id, kinds)
      PROVE  Stopped
  <2>1. ws[w].id \in Names /\ RollingBack(w)
    BY <1>0, <1>4, FieldTypes DEF Provisioning, Unprovisioned, Live, RollingBack
  <2>2. /\ NoneScaled'
        /\ \A m \in Names : replicas[m] = 1 /\ replicas'[m] = 0 => m = ws[w].id
    BY <1>0, <1>4, <2>1, DeletedScaled
  <2> QED
    BY <2>1, <2>2 DEF StopEvacuatedStep
<1>5. ASSUME NEW w \in Workspaces, NEW k \in 0 .. 6, Provision(w, k) PROVE Stopped
  <2> DEFINE n == resolveResourceName(w)
             kinds == First(CreateOrder, k)
  <2>1. n \in Names /\ ensureCreated(n, w, kinds)
    BY <1>0, <1>5, ResolveType DEF Provision
  <2> HIDE DEF n, kinds, Stopped
  <2> QED
    BY <1>0, <1>2, <2>1, EnsureScaled
<1>6. ASSUME NEW w \in Workspaces, markReady(w) PROVE Stopped
  <2> DEFINE n == resolveResourceName(w)
  <2>1. n \in Names /\ ensureCreated(n, w, Kinds)
    BY <1>0, <1>6, ResolveType DEF markReady, computeRunning
  <2> HIDE DEF n, Stopped
  <2> QED
    BY <1>0, <1>2, <2>1, EnsureScaled
<1>7. ASSUME NEW w \in Workspaces, NEW r \in WorkspaceRecord, NEW k, Stop(w, r, k),
             r.id = ws[w].id, ws[w].id # None, UNCHANGED res \/ reconcileClaudeMD(w),
             r.evac = work[ws[w].id] \/ ~pod[ws[w].id] \/ replicas[ws[w].id] = 0
      PROVE  Stopped
  <2>1. ws[w].id \in Names /\ \A m \in Names : res'[m]["sts"] = res[m]["sts"]
    BY <1>0, <1>7, FieldTypes, DocumentScaled
  <2>2. UNCHANGED replicas \/ scaleStatefulSet(ws[w].id, 0)
    BY <1>7 DEF Stop
  <2>3. ws'[w].evac = r.evac
    <3> DEFINE q == [r EXCEPT !.phase = "Suspended"]
    <3>1. q \in WorkspaceRecord
      BY Updates DEF Phases
    <3>2. q.evac = r.evac
      BY DEF WorkspaceRecord
    <3>3. Write(w, q) \/ Write(w, r)
      BY <1>7 DEF Stop
    <3> HIDE DEF q
    <3> QED
      BY <1>0, <3>1, <3>2, <3>3, Written
  <2>4. CASE scaleStatefulSet(ws[w].id, 0)
    <3>1. /\ NoneScaled'
          /\ \A m \in Names : replicas[m] = 1 /\ replicas'[m] = 0 => m = ws[w].id
      BY <1>0, <2>1, <2>4, ScaleScaled
    <3> QED
      BY <1>7, <2>3, <3>1 DEF StopEvacuatedStep
  <2> QED
    BY <1>1, <2>1, <2>2, <2>4
<1>8. ASSUME NEW w \in Workspaces, NEW k \in 0 .. 2, SuspendEvacuated(w, k) PROVE Stopped
  <2> DEFINE r == [ws[w] EXCEPT !.evac = pass.snap]
  <2>1. r \in WorkspaceRecord
    BY <1>0, FieldTypes, Updates
  <2>2. r.id = ws[w].id /\ r.evac = pass.snap
    BY <1>0, FieldTypes DEF WorkspaceRecord
  <2>3. Stop(w, r, k) /\ UNCHANGED res /\ pass.who = w
    BY <1>8 DEF SuspendEvacuated
  <2>4. pass.snap = work[ws[w].id] /\ ws[w].id # None
    BY <1>0, <2>3 DEF SnapTrue, PassNamed
  <2> HIDE DEF r, Stopped
  <2> QED
    BY <1>7, <2>1, <2>2, <2>3, <2>4
<1>9. ASSUME NEW w \in Workspaces, NEW k \in 1 .. 2, SuspendUnevacuated(w, k) PROVE Stopped
  <2>1. ws[w].id # None
    BY <1>0, <1>9 DEF SuspendUnevacuated, ReadyPass, Live, Safe, RunningHasSubstrate
  <2>2. ~pod[ws[w].id] \/ replicas[ws[w].id] = 0
    BY <1>0, <1>9, <2>1, FieldTypes DEF SuspendUnevacuated, computeRunning, NoneScaled
  <2>3. Stop(w, ws[w], k) /\ reconcileClaudeMD(w) /\ ws[w] \in WorkspaceRecord
    BY <1>0, <1>9, FieldTypes DEF SuspendUnevacuated
  <2> HIDE DEF Stopped
  <2> QED
    BY <1>7, <2>1, <2>2, <2>3
<1>10. ASSUME NEW w \in Workspaces, ScaleUp(w) \/ reconcileResume(w) PROVE Stopped
  <2>1. ws[w].id \in Names /\ scaleStatefulSet(ws[w].id, 1) /\ UNCHANGED res
    BY <1>0, <1>10, FieldTypes DEF ScaleUp, reconcileResume, computeRunning
  <2>2. /\ NoneScaled'
        /\ \A m \in Names : ~(replicas[m] = 1 /\ replicas'[m] = 0)
    BY <1>0, <2>1, ScaleScaled
  <2> QED
    BY <2>2 DEF StopEvacuatedStep
<1>11. ASSUME NEW w \in Workspaces, NEW r \in WorkspaceRecord, NEW k, Teardown(w, r, k),
              r.id = ws[w].id, ws[w].id # None,
              r.evac = work[ws[w].id] \/ ~pod[ws[w].id] \/ replicas[ws[w].id] = 0
       PROVE  Stopped
  <2> DEFINE gone == [r EXCEPT !.finalizer = FALSE, !.life = "gone"]
             kinds == First(DestroyOrder, IF k = 4 THEN 3 ELSE k)
  <2>1. gone.evac = r.evac
    BY DEF WorkspaceRecord
  <2>2. deleted(ws[w].id, kinds) /\ (ws' = [ws EXCEPT ![w] = gone] \/ ws' = [ws EXCEPT ![w] = r])
    BY <1>11 DEF Teardown
  <2> HIDE DEF gone, kinds
  <2>3. ws'[w].evac = r.evac
    BY <1>0, <2>1, <2>2 DEF TypeOK
  <2>4. ws[w].id \in Names
    BY <1>0, <1>11, FieldTypes
  <2>5. /\ NoneScaled'
        /\ \A m \in Names : replicas[m] = 1 /\ replicas'[m] = 0 => m = ws[w].id
    BY <1>0, <2>2, <2>4, DeletedScaled
  <2> QED
    BY <1>11, <2>3, <2>5 DEF StopEvacuatedStep
<1>12. ASSUME NEW w \in Workspaces, NEW k \in 0 .. 4, DestroyEvacuated(w, k) PROVE Stopped
  <2> DEFINE r == [ws[w] EXCEPT !.evac = pass.snap]
  <2>1. r \in WorkspaceRecord
    BY <1>0, FieldTypes, Updates
  <2>2. r.id = ws[w].id /\ r.evac = pass.snap
    BY <1>0, FieldTypes DEF WorkspaceRecord
  <2>3. Teardown(w, r, k) /\ pass.who = w
    BY <1>12 DEF DestroyEvacuated
  <2>4. pass.snap = work[ws[w].id] /\ ws[w].id # None
    BY <1>0, <2>3 DEF SnapTrue, PassNamed
  <2> HIDE DEF r, Stopped
  <2> QED
    BY <1>11, <2>1, <2>2, <2>3, <2>4
<1>13. ASSUME NEW w \in Workspaces, NEW k \in 0 .. 4, DestroyUnevacuated(w, k) PROVE Stopped
  <2> DEFINE r == [ws[w] EXCEPT !.phase = "Terminating"]
  <2>1. r \in WorkspaceRecord
    BY <1>0, FieldTypes, Updates DEF Phases
  <2>2. r.id = ws[w].id
    BY <1>0, FieldTypes DEF WorkspaceRecord
  <2>3. Teardown(w, r, k) /\ ws[w].id # None /\ ~computeRunning(ws[w].id)
    BY <1>13 DEF DestroyUnevacuated
  <2>4. ~pod[ws[w].id] \/ replicas[ws[w].id] = 0
    BY <1>0, <2>3, FieldTypes DEF computeRunning, NoneScaled
  <2> HIDE DEF r, Stopped
  <2> QED
    BY <1>11, <2>1, <2>2, <2>3, <2>4
<1>14. ASSUME NEW w \in Workspaces,
              \/ ReconcileIdle(w) \/ mirrorCanonical(w) \/ FailWithoutRollback(w) \/ ReconcileReady(w)
              \/ RequestEvacuation(w) \/ EvacuationRefused(w) \/ DestroyUnowned(w)
       PROVE  Stopped
  <2>1. UNCHANGED replicas /\ (UNCHANGED res \/ reconcileClaudeMD(w))
    BY <1>14 DEF ReconcileIdle, mirrorCanonical, FailWithoutRollback, ReconcileReady,
                 RequestEvacuation, EvacuationRefused, DestroyUnowned
  <2> HIDE DEF Stopped
  <2> QED
    BY <1>0, <1>1, <2>1, DocumentScaled
<1>15. ASSUME NEW w \in Workspaces, Reconcile(w) PROVE Stopped
  <2> HIDE DEF Stopped
  <2> QED
    BY <1>4, <1>5, <1>6, <1>8, <1>9, <1>10, <1>12, <1>13, <1>14, <1>15
    DEF Reconcile, RollbackPartly, failAndRollback
<1>16. ASSUME UNCHANGED <<res, replicas>> PROVE Stopped
  BY <1>1, <1>16
<1> HIDE DEF Stopped
<1>17. Stopped
  BY <1>3, <1>15, <1>16
  DEF Next, Environment, CreateWorkspace, DeleteWorkspace, MarkActivity, PodStart, PodStop, DoWork,
      Tick, Sync, EvacuationFails, vars
<1> QED
  BY <1>17 DEF Stopped

\* Where branches are distinct and nobody writes while a stop is under way: no
\* running Pod is stopped before what its working directory holds was
\* captured, but by a rollback.
THEOREM StopCaptures ==
  ASSUME DistinctBranches, QuietStop
  PROVE  Spec => StopEvacuated
<1> DEFINE I == Inv /\ SnapTrue /\ NoneScaled
<1>1. Init => I
  <2>1. Init => SnapTrue /\ NoneScaled
    BY ConstantsAssumption DEF Init, NoPass, SnapTrue, NoneScaled
  <2> QED
    BY <2>1, TypeInitial, SafeInitial DEF Inv
<1>2. I /\ [Next]_vars => I'
  BY SafeStep, SnapStep, StopStep
<1>3. I /\ [Next]_vars => [StopEvacuatedStep]_vars
  BY StopStep
<1> QED
  BY <1>1, <1>2, <1>3, PTL DEF Spec, StopEvacuated
=============================================================================
