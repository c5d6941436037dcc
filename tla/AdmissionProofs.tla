--------------------------- MODULE AdmissionProofs ---------------------------
(***************************************************************************)
(* Proofs about Admission and the Connections it is composed with: that    *)
(* what is counted fits the node, that the count of browsers settles, and  *)
(* that the idle stop spares who was counted.                              *)
(***************************************************************************)
EXTENDS Admission, FiniteSetTheorems, TLAPS

Admitted == {w \in Counted : ws[w].id}

\* What was admitted stays in the list, however far it trails behind.
AdmittedListed == Admitted \subseteq listed \cap known

\* No template comes back, so the cache has at least those there are.
TemplatesKnown == templates \subseteq known

\* A Workspace that is not there yet has no socket and no count.
UnbornAlone ==
  \A w \in Workspaces :
    ws[w].life = "unborn" =>
      /\ ~ws[w].id /\ note[w] = 0 /\ last[w] = None
      /\ \A s \in Sockets : Home[s] = w => socket[s].at = "off"

\* The latest report carries the number of sockets there are.
LatestCounts ==
  \A w \in Workspaces :
    last[w] # None =>
      /\ last[w] \in Reporting(w)
      /\ socket[last[w]].count = Cardinality(Attached(w))

\* Once it has landed, so does the annotation.
NoteCounts ==
  \A w \in Workspaces :
    ws[w].life = "live" /\ last[w] = None /\ ~muddled[w] => note[w] = Cardinality(Attached(w))

\* No socket that the annotation should count goes uncounted while another
\* report is on its way.
NoneMissed ==
  \A w \in Workspaces :
    ws[w].life = "live" /\ ~muddled[w] /\ note[w] = 0 =>
      \A s \in Sockets : Home[s] = w => socket[s].at # "on"

\* A pass is over a Workspace that is there, no other pass moves it on, and
\* its deletion is something the pass has not read.
PassAlive ==
  pass.at # "none" \/ pass.who # None =>
    /\ pass.who \in Workspaces /\ ws[pass.who].phase = "Ready"
    /\ ws[pass.who].life = "live" \/ (ws[pass.who].life = "deleting" /\ pass.stale)

\* A stop nobody asked for found no browser in the copy of the object that it
\* still has.
PassFresh == pass.who # None /\ ~pass.asked /\ ~pass.stale => note[pass.who] = 0

\* The inductive invariant of the theorems below, but for the types.
Inv ==
  /\ AdmittedListed /\ TemplatesKnown /\ CountedFit
  /\ UnbornAlone /\ LatestCounts /\ NoteCounts /\ NoneMissed
  /\ PassAlive /\ PassFresh

-----------------------------------------------------------------------------
(* Types *)

\* What does not depend on the quota.
Typed ==
  /\ ConnTypeOK
  /\ volumes \subseteq Workspaces /\ templates \subseteq Workspaces /\ former \subseteq Workspaces
  /\ staged \in BOOLEAN /\ listed \subseteq Workspaces /\ known \subseteq Workspaces

\* Conditions are truth values.
LEMMA Booleans ==
  /\ \A x, y : (x = y) \in BOOLEAN /\ (x # y) \in BOOLEAN
  /\ \A p, q : (p /\ q) \in BOOLEAN /\ (p \/ q) \in BOOLEAN
BY Zenon

\* The changes that are made to the record of a Workspace.
LEMMA RecordTypes ==
  ASSUME NEW r \in WorkspaceRecord, NEW b \in BOOLEAN, NEW c \in BOOLEAN, NEW phase \in Phases
  PROVE  /\ [r EXCEPT !.late = b] \in WorkspaceRecord
         /\ [r EXCEPT !.asked = b] \in WorkspaceRecord
         /\ [r EXCEPT !.waiting = b] \in WorkspaceRecord
         /\ [r EXCEPT !.life = "live"] \in WorkspaceRecord
         /\ [r EXCEPT !.life = "deleting"] \in WorkspaceRecord
         /\ [r EXCEPT !.late = b, !.resume = c] \in WorkspaceRecord
         /\ [r EXCEPT !.waiting = b, !.id = c] \in WorkspaceRecord
         /\ [r EXCEPT !.phase = phase, !.late = b] \in WorkspaceRecord
         /\ [r EXCEPT !.phase = phase, !.late = b, !.resume = c] \in WorkspaceRecord
         /\ [Unborn EXCEPT !.life = "gone"] \in WorkspaceRecord
         /\ [Unborn EXCEPT !.life = "live", !.id = TRUE] \in WorkspaceRecord
BY DEF WorkspaceRecord, Phases, Unborn

\* A change of one record.
LEMMA OneRecord ==
  ASSUME ws \in [Workspaces -> WorkspaceRecord], NEW w \in Workspaces, NEW r \in WorkspaceRecord,
         ws' = [ws EXCEPT ![w] = r]
  PROVE  /\ ws' \in [Workspaces -> WorkspaceRecord]
         /\ ws'[w] = r /\ \A v \in Workspaces \ {w} : ws'[v] = ws[v]
OBVIOUS

\* The record after a change is the old one but for the fields named.
LEMMA EditOne ==
  ASSUME Typed, NEW w \in Workspaces, NEW b, NEW c, NEW d
  PROVE  /\ [ws EXCEPT ![w].late = b] = [ws EXCEPT ![w] = [ws[w] EXCEPT !.late = b]]
         /\ [ws EXCEPT ![w].asked = b] = [ws EXCEPT ![w] = [ws[w] EXCEPT !.asked = b]]
         /\ [ws EXCEPT ![w].waiting = b] = [ws EXCEPT ![w] = [ws[w] EXCEPT !.waiting = b]]
         /\ [ws EXCEPT ![w].life = b] = [ws EXCEPT ![w] = [ws[w] EXCEPT !.life = b]]
OBVIOUS

LEMMA EditTwo ==
  ASSUME Typed, NEW w \in Workspaces, NEW b, NEW c, NEW d
  PROVE  /\ [ws EXCEPT ![w].late = b, ![w].resume = c]
              = [ws EXCEPT ![w] = [ws[w] EXCEPT !.late = b, !.resume = c]]
         /\ [ws EXCEPT ![w].waiting = b, ![w].id = c]
              = [ws EXCEPT ![w] = [ws[w] EXCEPT !.waiting = b, !.id = c]]
         /\ [ws EXCEPT ![w].phase = b, ![w].late = c]
              = [ws EXCEPT ![w] = [ws[w] EXCEPT !.phase = b, !.late = c]]
         /\ [ws EXCEPT ![w].phase = b, ![w].late = c, ![w].resume = d]
              = [ws EXCEPT ![w] = [ws[w] EXCEPT !.phase = b, !.late = c, !.resume = d]]
BY DEF Typed, ConnTypeOK

\* The pass in progress.
LEMMA PassTypes ==
  ASSUME Typed, NEW w \in Workspaces
  PROVE  /\ Touched(w) \in PassRecord /\ NoPass \in PassRecord
         /\ \A stage \in Stages : [pass EXCEPT !.at = stage] \in PassRecord
         /\ \A stage \in Stages, b \in BOOLEAN :
              [who |-> w, at |-> stage, asked |-> b, stale |-> FALSE] \in PassRecord
<1>1. pass \in PassRecord
  BY DEF Typed, ConnTypeOK
<1>2. NoPass \in PassRecord
  BY DEF NoPass, PassRecord, Stages
<1>3. Touched(w) \in PassRecord
  BY <1>1 DEF Touched, PassRecord
<1> QED
  BY <1>1, <1>2, <1>3 DEF PassRecord

\* The changes that keep what admission looks at, but that a Workspace may
\* fail.
Keeps(old, new) ==
  /\ new \in WorkspaceRecord
  /\ new.life = old.life /\ new.id = old.id
  /\ new.phase = "Failed" \/ old.phase # "Failed"

\* The edits that are of this kind.
LEMMA KeepsTypes ==
  ASSUME NEW r \in WorkspaceRecord, NEW b \in BOOLEAN, NEW c \in BOOLEAN, NEW phase \in Phases
  PROVE  /\ Keeps(r, [r EXCEPT !.late = b]) /\ Keeps(r, [r EXCEPT !.asked = b])
         /\ Keeps(r, [r EXCEPT !.waiting = b])
         /\ Keeps(r, [r EXCEPT !.late = b, !.resume = c])
         /\ r.phase # "Failed" =>
              /\ Keeps(r, [r EXCEPT !.phase = phase, !.late = b])
              /\ Keeps(r, [r EXCEPT !.phase = phase, !.late = b, !.resume = c])
BY DEF Keeps, WorkspaceRecord, Phases

\* What a step makes of the objects.
LEMMA EditStep ==
  ASSUME Typed, PassAlive, [Next]_vars
  PROVE  \/ UNCHANGED ws
         \/ \E w \in Workspaces, r \in WorkspaceRecord :
              /\ ws' = [ws EXCEPT ![w] = r]
              /\ \/ Keeps(ws[w], r)
                 \/ CreateWorkspace(w) /\ r = [ws[w] EXCEPT !.life = "live"]
                 \/ DeleteWorkspace(w) /\ r = [ws[w] EXCEPT !.life = "deleting"]
                 \/ FinishDelete(w) /\ r = [Unborn EXCEPT !.life = "gone"]
                 \/ Inherit(w) /\ r = [Unborn EXCEPT !.life = "live", !.id = TRUE]
                 \/ Admit(w) /\ r = [ws[w] EXCEPT !.waiting = FALSE, !.id = TRUE]
<1> DEFINE Edited(w) ==
             \E r \in WorkspaceRecord :
               /\ ws' = [ws EXCEPT ![w] = r]
               /\ \/ Keeps(ws[w], r)
                  \/ CreateWorkspace(w) /\ r = [ws[w] EXCEPT !.life = "live"]
                  \/ DeleteWorkspace(w) /\ r = [ws[w] EXCEPT !.life = "deleting"]
                  \/ FinishDelete(w) /\ r = [Unborn EXCEPT !.life = "gone"]
                  \/ Inherit(w) /\ r = [Unborn EXCEPT !.life = "live", !.id = TRUE]
                  \/ Admit(w) /\ r = [ws[w] EXCEPT !.waiting = FALSE, !.id = TRUE]
<1>0. \A w \in Workspaces : ws[w] \in WorkspaceRecord
  BY DEF Typed, ConnTypeOK
<1>1. ASSUME NEW w \in Workspaces,
             AskSuspend(w) \/ Idle(w) \/ Age(w) \/ KeepAwake(w) \/ Hold(w)
      PROVE  Edited(w)
  <2>1. PICK b \in BOOLEAN :
          \/ ws' = [ws EXCEPT ![w] = [ws[w] EXCEPT !.late = b]]
          \/ ws' = [ws EXCEPT ![w] = [ws[w] EXCEPT !.asked = b]]
          \/ ws' = [ws EXCEPT ![w] = [ws[w] EXCEPT !.waiting = b]]
    BY <1>1, EditOne DEF AskSuspend, Idle, Age, KeepAwake, Hold
  <2>2. /\ Keeps(ws[w], [ws[w] EXCEPT !.late = b]) /\ Keeps(ws[w], [ws[w] EXCEPT !.asked = b])
        /\ Keeps(ws[w], [ws[w] EXCEPT !.waiting = b])
    BY <1>0, KeepsTypes DEF Phases
  <2> QED
    BY <2>1, <2>2 DEF Keeps
<1>2. ASSUME NEW w \in Workspaces, MarkActivity(w) PROVE Edited(w)
  <2> DEFINE b == ws[w].late /\ ws[w].phase # "Ready"
             c == ws[w].resume \/ ws[w].phase = "Suspended"
  <2>1. b \in BOOLEAN /\ c \in BOOLEAN
    BY Zenon
  <2>2. ws' = [ws EXCEPT ![w].late = b, ![w].resume = c]
    BY <1>0, <1>2 DEF MarkActivity, Typed, ConnTypeOK
  <2> HIDE DEF b, c
  <2>3. ws' = [ws EXCEPT ![w] = [ws[w] EXCEPT !.late = b, !.resume = c]]
    BY <2>2, EditTwo
  <2>4. Keeps(ws[w], [ws[w] EXCEPT !.late = b, !.resume = c])
    BY <1>0, <2>1, KeepsTypes DEF Phases
  <2> QED
    BY <2>3, <2>4 DEF Keeps
<1>3. ASSUME NEW w \in Workspaces, ws[w].phase # "Failed", NEW phase \in Phases,
             NEW b \in BOOLEAN, NEW c \in BOOLEAN,
             \/ ws' = [ws EXCEPT ![w].phase = phase, ![w].late = b]
             \/ ws' = [ws EXCEPT ![w].phase = phase, ![w].late = b, ![w].resume = c]
      PROVE  Edited(w)
  <2>1. \/ ws' = [ws EXCEPT ![w] = [ws[w] EXCEPT !.phase = phase, !.late = b]]
        \/ ws' = [ws EXCEPT ![w] = [ws[w] EXCEPT !.phase = phase, !.late = b, !.resume = c]]
    <3>1. CASE ws' = [ws EXCEPT ![w].phase = phase, ![w].late = b]
      BY <3>1, EditTwo
    <3>2. CASE ws' = [ws EXCEPT ![w].phase = phase, ![w].late = b, ![w].resume = c]
      BY <3>2, EditTwo
    <3> QED
      BY <1>3, <3>1, <3>2
  <2>2. /\ Keeps(ws[w], [ws[w] EXCEPT !.phase = phase, !.late = b])
        /\ Keeps(ws[w], [ws[w] EXCEPT !.phase = phase, !.late = b, !.resume = c])
    BY <1>0, <1>3, KeepsTypes
  <2> QED
    BY <2>1, <2>2 DEF Keeps
<1>4. ASSUME NEW w \in Workspaces,
             reconcileResume(w) \/ markReady(w) \/ failAndRollback(w) \/ TemplateMissing(w)
      PROVE  UNCHANGED ws \/ Edited(w)
  <2>1. ws[w].phase # "Failed"
    BY <1>4 DEF reconcileResume, markReady, failAndRollback, TemplateMissing, ProvisioningPass, Pass
  <2>2. UNCHANGED ws \/ \E phase \in Phases, b \in BOOLEAN, c \in BOOLEAN :
          \/ ws' = [ws EXCEPT ![w].phase = phase, ![w].late = b]
          \/ ws' = [ws EXCEPT ![w].phase = phase, ![w].late = b, ![w].resume = c]
    BY <1>4 DEF reconcileResume, markReady, failAndRollback, TemplateMissing, Phases
  <2> HIDE DEF Edited
  <2> QED
    BY <1>3, <2>1, <2>2
<1>5. ASSUME RecordSuspended PROVE UNCHANGED ws \/ Edited(pass.who)
  <2>1. pass.who \in Workspaces /\ ws[pass.who].phase # "Failed"
    BY <1>5 DEF RecordSuspended, PassAlive
  <2>2. UNCHANGED ws \/ \E phase \in Phases, b \in BOOLEAN :
          ws' = [ws EXCEPT ![pass.who].phase = phase, ![pass.who].late = b]
    BY <1>5 DEF RecordSuspended, Phases
  <2> HIDE DEF Edited
  <2> QED
    BY <1>3, <2>1, <2>2
<1>6. ASSUME NEW w \in Workspaces, CreateWorkspace(w) PROVE Edited(w)
  <2>1. ws' = [ws EXCEPT ![w] = [ws[w] EXCEPT !.life = "live"]]
    BY <1>6, EditOne DEF CreateWorkspace
  <2>2. [ws[w] EXCEPT !.life = "live"] \in WorkspaceRecord
    BY <1>0, RecordTypes DEF Phases
  <2> QED
    BY <1>6, <2>1, <2>2
<1>7. ASSUME NEW w \in Workspaces, FinishDelete(w) \/ Inherit(w) PROVE Edited(w)
  BY <1>0, <1>7, RecordTypes DEF FinishDelete, Inherit, Phases
<1>13. ASSUME NEW w \in Workspaces, DeleteWorkspace(w) PROVE Edited(w)
  <2>1. ws' = [ws EXCEPT ![w] = [ws[w] EXCEPT !.life = "deleting"]]
    BY <1>13, EditOne DEF DeleteWorkspace
  <2>2. [ws[w] EXCEPT !.life = "deleting"] \in WorkspaceRecord
    BY <1>0, RecordTypes DEF Phases
  <2> QED
    BY <1>13, <2>1, <2>2
<1>8. ASSUME NEW w \in Workspaces, Admit(w) PROVE Edited(w)
  <2>1. ws' = [ws EXCEPT ![w] = [ws[w] EXCEPT !.waiting = FALSE, !.id = TRUE]]
    BY <1>8, EditTwo DEF Admit
  <2>2. [ws[w] EXCEPT !.waiting = FALSE, !.id = TRUE] \in WorkspaceRecord
    BY <1>0, RecordTypes DEF Phases
  <2> QED
    BY <1>8, <2>1, <2>2
<1> HIDE DEF Edited
<1>9. ASSUME ConnStep PROVE UNCHANGED ws \/ \E w \in Workspaces : Edited(w)
  <2>1. ASSUME NEW x \in Sockets, Attach(x) \/ Detach(x) \/ SetBrowserConnections(x) \/ ReportLost(x)
        PROVE  UNCHANGED ws
    BY <2>1 DEF Attach, Detach, SetBrowserConnections, ReportLost
  <2>2. ASSUME NEW w \in Workspaces, PodStop(w) \/ ToggleSSH(w) \/ BeginStop(w)
        PROVE  UNCHANGED ws
    BY <2>2 DEF PodStop, ToggleSSH, BeginStop
  <2>3. ASSUME GatewayCrash \/ Evacuated \/ scaleStatefulSet \/ PassFails PROVE UNCHANGED ws
    BY <2>3 DEF GatewayCrash, Evacuated, scaleStatefulSet, PassFails
  <2>4. ASSUME RecordSuspended PROVE UNCHANGED ws \/ \E w \in Workspaces : Edited(w)
    BY <1>5, <2>4 DEF RecordSuspended, PassAlive
  <2> QED
    BY <1>1, <1>2, <1>4, <1>9, <2>1, <2>2, <2>3, <2>4 DEF ConnStep
<1>10. ASSUME NEW w \in Workspaces, PodStart(w) \/ Provision(w) \/ TearDown(w) \/ DeleteTemplate(w)
      PROVE  UNCHANGED ws
  BY <1>10 DEF PodStart, Provision, TearDown, DeleteTemplate, conns
<1>11. ASSUME StageImage \/ Sync \/ UNCHANGED vars PROVE UNCHANGED ws
  BY <1>11 DEF StageImage, Sync, vars, conns
<1>12. UNCHANGED ws \/ \E w \in Workspaces : Edited(w)
  BY <1>1, <1>4, <1>6, <1>7, <1>8, <1>9, <1>10, <1>11, <1>13 DEF Next
<1> QED
  BY <1>12 DEF Edited

-----------------------------------------------------------------------------
(* Volumes *)

\* The units of a Workspace are as many as its size.
LEMMA UnitsOfOne ==
  ASSUME NEW w \in Workspaces
  PROVE  /\ IsFiniteSet({w} \X (1 .. Size[w]))
         /\ Cardinality({w} \X (1 .. Size[w])) = Size[w]
<1>1. Size[w] \in Nat
  BY AdmissionAssumption
<1>2. IsFiniteSet(1 .. Size[w]) /\ Cardinality(1 .. Size[w]) = Size[w]
  BY <1>1, FS_Interval
<1>3. IsFiniteSet({w}) /\ Cardinality({w}) = 1
  BY FS_Singleton
<1>4. /\ IsFiniteSet({w} \X (1 .. Size[w]))
      /\ Cardinality({w} \X (1 .. Size[w])) = Cardinality({w}) * Cardinality(1 .. Size[w])
  BY <1>2, <1>3, FS_Product
<1> QED
  BY <1>1, <1>2, <1>3, <1>4

\* There are finitely many units.
LEMMA UnitsFinite ==
  ASSUME NEW S \in SUBSET Workspaces
  PROVE  IsFiniteSet(Units(S)) /\ Declared(S) \in Nat
<1> DEFINE T == {{w} \X (1 .. Size[w]) : w \in S}
           f == [w \in S |-> {w} \X (1 .. Size[w])]
<1>1. IsFiniteSet(S)
  BY AdmissionAssumption, FS_Subset
<1>2. f \in Surjection(S, T)
  BY DEF Surjection
<1>3. IsFiniteSet(T)
  BY <1>1, <1>2, FS_Surjection
<1>4. \A U \in T : IsFiniteSet(U)
  BY UnitsOfOne
<1>5. IsFiniteSet(UNION T)
  BY <1>3, <1>4, FS_UNION
<1>6. IsFiniteSet(Units(S))
  BY <1>5 DEF Units
<1> QED
  BY <1>6, FS_CardinalityType DEF Declared

\* More Workspaces declare no less.
LEMMA DeclaredMonotone ==
  ASSUME NEW S \in SUBSET Workspaces, NEW T \in SUBSET S
  PROVE  Declared(T) <= Declared(S)
<1>1. Units(T) \in SUBSET Units(S)
  BY DEF Units
<1> QED
  BY <1>1, UnitsFinite, FS_Subset DEF Declared

\* One more Workspace adds its size.
LEMMA DeclaredAdds ==
  ASSUME NEW S \in SUBSET Workspaces, NEW w \in Workspaces \ S
  PROVE  Declared(S \cup {w}) = Declared(S) + Size[w]
<1> DEFINE U == {w} \X (1 .. Size[w])
<1>1. Units(S \cup {w}) = Units(S) \cup U
  BY DEF Units
<1>2. Units(S) \cap U = {}
  BY DEF Units
<1>3. IsFiniteSet(Units(S)) /\ Cardinality(Units(S)) \in Nat
  BY UnitsFinite DEF Declared
<1>4. IsFiniteSet(U) /\ Cardinality(U) = Size[w]
  BY UnitsOfOne
<1> HIDE DEF U
<1>5. Cardinality(Units(S) \cup U)
        = Cardinality(Units(S)) + Cardinality(U) - Cardinality(Units(S) \cap U)
  BY <1>3, <1>4, FS_Union
<1>6. Cardinality(Units(S) \cap U) = 0
  BY <1>2, FS_EmptySet
<1>7. Size[w] \in Nat
  BY AdmissionAssumption
<1>8. Declared(S \cup {w}) = Cardinality(Units(S) \cup U) /\ Declared(S) = Cardinality(Units(S))
  BY <1>1 DEF Declared
<1> QED
  BY <1>3, <1>4, <1>5, <1>6, <1>7, <1>8

-----------------------------------------------------------------------------
(* The node's budget *)

\* What a step makes of the templates, the conditions and the caches.
LEMMA StoreStep ==
  ASSUME [Next]_vars
  PROVE  /\ templates' \subseteq templates
         /\ former' = former \/ \E w \in Workspaces : Inherit(w) /\ former' = former \cup {w}
         /\ \/ UNCHANGED <<listed, known>>
            \/ listed' = Listed /\ known' = templates /\ UNCHANGED <<ws, templates, former>>
<1> DEFINE Fine == /\ templates' \subseteq templates
                   /\ former' = former \/ \E w \in Workspaces : Inherit(w) /\ former' = former \cup {w}
                   /\ \/ UNCHANGED <<listed, known>>
                      \/ listed' = Listed /\ known' = templates /\ UNCHANGED <<ws, templates, former>>
<1>1. ASSUME NEW w \in Workspaces,
             \/ CreateWorkspace(w) \/ DeleteWorkspace(w) \/ TearDown(w) \/ PodStart(w) \/ Age(w)
             \/ TemplateMissing(w) \/ Hold(w) \/ Admit(w) \/ markReady(w)
      PROVE  Fine
  BY <1>1 DEF CreateWorkspace, DeleteWorkspace, TearDown, PodStart, Age, TemplateMissing, Hold, Admit,
              markReady, store, caches
<1>2. ASSUME NEW w \in Workspaces,
             \/ Inherit(w) \/ DeleteTemplate(w) \/ FinishDelete(w) \/ Provision(w) \/ failAndRollback(w)
      PROVE  Fine
  BY <1>2 DEF Inherit, DeleteTemplate, FinishDelete, Provision, failAndRollback, caches
<1>3. ASSUME StageImage PROVE Fine
  BY <1>3 DEF StageImage, store
<1>4. ASSUME Sync PROVE Fine
  BY <1>4 DEF Sync, store, conns
<1>5. ASSUME UNCHANGED <<store, caches>> PROVE Fine
  BY <1>5 DEF store, caches
<1> HIDE DEF Fine
<1>6. Fine
  BY <1>1, <1>2, <1>3, <1>4, <1>5 DEF Next, vars
<1> QED
  BY <1>6 DEF Fine

\* The Workspaces admitted after a step that changes one object.
LEMMA AdmittedEdit ==
  ASSUME Typed, [Next]_vars, NEW w \in Workspaces, NEW r \in WorkspaceRecord,
         ws' = [ws EXCEPT ![w] = r]
  PROVE  /\ Admitted' \subseteq Admitted \cup {w}
         /\ w \in Admitted' =>
              /\ r.life = "live" /\ r.phase # "Failed" /\ r.id
              /\ w \notin former /\ w \notin former' /\ w \in templates
         /\ ws[w].life = "live" /\ ws[w].phase # "Failed" /\ ws[w].id
              /\ w \notin former /\ w \in templates => w \in Admitted
<1>1. ws'[w] = r /\ \A v \in Workspaces \ {w} : ws'[v] = ws[v]
  BY DEF Typed, ConnTypeOK
<1>2. templates' \subseteq templates /\ former \subseteq former'
  BY StoreStep
<1> QED
  BY <1>1, <1>2 DEF Admitted, Counted, Listed

\* A step admits nobody but by Admit.
LEMMA AdmittedStep ==
  ASSUME Typed, PassAlive, UnbornAlone, [Next]_vars
  PROVE  Admitted' \subseteq Admitted \/ \E w \in Workspaces : Admit(w) /\ Admitted' \subseteq Admitted \cup {w}
<1>1. CASE UNCHANGED ws
  <2>1. templates' \subseteq templates /\ former \subseteq former'
    BY StoreStep
  <2> QED
    BY <1>1, <2>1 DEF Admitted, Counted, Listed
<1>2. ASSUME NEW w \in Workspaces, NEW r \in WorkspaceRecord, ws' = [ws EXCEPT ![w] = r],
             Keeps(ws[w], r)
      PROVE  Admitted' \subseteq Admitted
  BY <1>2, AdmittedEdit DEF Keeps
<1>3. ASSUME NEW w \in Workspaces, NEW r \in WorkspaceRecord, ws' = [ws EXCEPT ![w] = r],
             CreateWorkspace(w), r = [ws[w] EXCEPT !.life = "live"]
      PROVE  Admitted' \subseteq Admitted
  <2>1. ws[w] \in WorkspaceRecord /\ ~ws[w].id
    BY <1>3 DEF UnbornAlone, CreateWorkspace, Typed, ConnTypeOK
  <2>2. ~r.id
    BY <1>3, <2>1 DEF WorkspaceRecord
  <2> QED
    BY <1>3, <2>2, AdmittedEdit
<1>4. ASSUME NEW w \in Workspaces, NEW r \in WorkspaceRecord, ws' = [ws EXCEPT ![w] = r],
             r = [Unborn EXCEPT !.life = "gone"] \/ r = [ws[w] EXCEPT !.life = "deleting"]
      PROVE  Admitted' \subseteq Admitted
  <2>1. r.life # "live"
    BY <1>4 DEF Unborn, Typed, ConnTypeOK, WorkspaceRecord
  <2> QED
    BY <1>4, <2>1, AdmittedEdit
<1>5. ASSUME NEW w \in Workspaces, NEW r \in WorkspaceRecord, ws' = [ws EXCEPT ![w] = r]
      PROVE  Admitted' \subseteq Admitted \cup {w}
  BY <1>5, AdmittedEdit
<1>6. ASSUME NEW w \in Workspaces, NEW r \in WorkspaceRecord, ws' = [ws EXCEPT ![w] = r], Inherit(w)
      PROVE  Admitted' \subseteq Admitted
  <2>1. w \in former'
    BY <1>6 DEF Inherit
  <2> QED
    BY <1>6, <2>1, AdmittedEdit
<1> QED
  BY <1>1, <1>2, <1>3, <1>4, <1>5, <1>6, EditStep

\* What one step does to what admission relies on: an admission adds a
\* Workspace of the list that fits beside the others, and the list follows
\* the objects.
LEMMA BudgetStep ==
  ASSUME Typed, Typed', PassAlive, UnbornAlone, AdmittedListed, TemplatesKnown, CountedFit, [Next]_vars
  PROVE  AdmittedListed' /\ TemplatesKnown' /\ CountedFit'
<1> DEFINE cached == listed \cap known
<1>0. /\ Admitted \in SUBSET Workspaces /\ Admitted' \in SUBSET Workspaces
      /\ cached \in SUBSET Workspaces /\ Budget \in Nat
  BY AdmissionAssumption DEF Admitted, Counted, Listed, Typed
<1>1. ASSUME Admitted' \subseteq Admitted PROVE CountedFit'
  <2>1. Declared(Admitted') <= Declared(Admitted)
    BY <1>0, <1>1, DeclaredMonotone
  <2>2. Declared(Admitted) <= Budget
    BY DEF CountedFit, Admitted
  <2>3. Declared(Admitted) \in Nat /\ Declared(Admitted') \in Nat
    BY <1>0, UnitsFinite
  <2>4. Declared(Admitted') <= Budget
    BY <1>0, <2>1, <2>2, <2>3
  <2> QED
    BY <2>4 DEF CountedFit, Admitted, Declared, Units
<1>2. ASSUME NEW w \in Workspaces, Admit(w), Admitted' \subseteq Admitted \cup {w}
      PROVE  AdmittedListed' /\ CountedFit'
  <2>1. /\ UNCHANGED <<listed, known, former>> /\ w \in listed \cup former /\ w \in known
        /\ Size[w] + Declared(cached \ {w}) <= Budget
    BY <1>2 DEF Admit, ProvisioningPass, admissionBlocked, nodeDiskBudgetHasRoom, store, caches
  <2>2. AdmittedListed'
    <3>1. w \in former => w \notin Admitted'
      BY <2>1 DEF Admitted, Counted, Listed
    <3> QED
      BY <1>2, <2>1, <3>1 DEF AdmittedListed
  <2>3. Declared((cached \ {w}) \cup {w}) = Declared(cached \ {w}) + Size[w]
    BY <1>0, DeclaredAdds
  <2>4. Admitted' \subseteq (cached \ {w}) \cup {w}
    BY <2>1, <2>2 DEF AdmittedListed
  <2>5. Declared(Admitted') <= Declared((cached \ {w}) \cup {w})
    BY <1>0, <2>4, DeclaredMonotone
  <2>6. /\ Declared(Admitted') \in Nat /\ Declared(cached \ {w}) \in Nat /\ Size[w] \in Nat
    BY <1>0, UnitsFinite, AdmissionAssumption
  <2>7. Declared(Admitted') <= Budget
    BY <1>0, <2>1, <2>3, <2>5, <2>6
  <2>8. CountedFit'
    BY <2>7 DEF CountedFit, Admitted, Declared, Units
  <2> QED
    BY <2>2, <2>8
<1>3. ASSUME Admitted' \subseteq Admitted PROVE AdmittedListed'
  <2>1. CASE UNCHANGED <<listed, known>>
    BY <1>3, <2>1 DEF AdmittedListed
  <2>2. CASE listed' = Listed /\ known' = templates /\ UNCHANGED <<ws, templates, former>>
    BY <2>2 DEF AdmittedListed, Admitted, Counted, Listed
  <2> QED
    BY <2>1, <2>2, StoreStep
<1>4. TemplatesKnown'
  BY StoreStep DEF TemplatesKnown
<1> QED
  BY <1>1, <1>2, <1>3, <1>4, AdmittedStep

-----------------------------------------------------------------------------
(* The connections' types *)

\* Most steps are none of the gateway's.
Elsewhere == UNCHANGED <<socket, note, last, muddled>>

\* The steps that are, and the end of an object, which takes the annotation
\* with it.
LEMMA GatewayFrame ==
  ASSUME [Next]_vars
  PROVE  \/ Elsewhere
         \/ \E s \in Sockets : Attach(s) \/ Detach(s) \/ SetBrowserConnections(s) \/ ReportLost(s)
         \/ GatewayCrash
         \/ \E w \in Workspaces : PodStop(w) \/ FinishDelete(w)
<1>1. ASSUME NEW w \in Workspaces,
             \/ CreateWorkspace(w) \/ PodStart(w) \/ Age(w) \/ Hold(w) \/ Admit(w) \/ Provision(w)
             \/ markReady(w) \/ failAndRollback(w) \/ TemplateMissing(w)
             \/ Inherit(w) \/ DeleteTemplate(w) \/ DeleteWorkspace(w) \/ TearDown(w)
      PROVE  Elsewhere
  BY <1>1 DEF Elsewhere, CreateWorkspace, PodStart, Age, Hold, Admit, Provision, markReady,
              failAndRollback, TemplateMissing, Inherit, DeleteTemplate, DeleteWorkspace, TearDown, conns
<1>2. ASSUME NEW w \in Workspaces,
             \/ ToggleSSH(w) \/ AskSuspend(w) \/ MarkActivity(w) \/ Idle(w)
             \/ KeepAwake(w) \/ BeginStop(w) \/ reconcileResume(w)
      PROVE  Elsewhere
  BY <1>2 DEF Elsewhere, ToggleSSH, AskSuspend, MarkActivity, Idle, KeepAwake, BeginStop,
              reconcileResume
<1>3. ASSUME Evacuated \/ scaleStatefulSet \/ RecordSuspended \/ PassFails PROVE Elsewhere
  BY <1>3 DEF Elsewhere, Evacuated, scaleStatefulSet, RecordSuspended, PassFails
<1>4. ASSUME StageImage \/ Sync \/ UNCHANGED vars PROVE Elsewhere
  BY <1>4 DEF Elsewhere, StageImage, Sync, conns, vars
<1> QED
  BY <1>1, <1>2, <1>3, <1>4 DEF Next, ConnStep

\* The sockets of a Workspace can be counted.
LEMMA AttachedFinite ==
  ASSUME NEW w
  PROVE  /\ IsFiniteSet(Attached(w)) /\ Cardinality(Attached(w)) \in 0 .. Cardinality(Sockets)
         /\ Cardinality(Attached(w)) = 0 <=> Attached(w) = {}
<1>1. Attached(w) \in SUBSET Sockets
  BY DEF Attached
<1>2. IsFiniteSet(Sockets)
  BY ConnectionsAssumption
<1>3. IsFiniteSet(Attached(w)) /\ Cardinality(Attached(w)) <= Cardinality(Sockets)
  BY <1>1, <1>2, FS_Subset
<1>4. Cardinality(Attached(w)) \in Nat /\ Cardinality(Sockets) \in Nat
  BY <1>2, <1>3, FS_CardinalityType
<1> QED
  BY <1>3, <1>4, FS_EmptySet

\* The same for any set of sockets.
LEMMA CountType ==
  ASSUME NEW S \in SUBSET Sockets
  PROVE  IsFiniteSet(S) /\ Cardinality(S) \in 0 .. Cardinality(Sockets)
<1>1. IsFiniteSet(S) /\ Cardinality(S) <= Cardinality(Sockets) /\ IsFiniteSet(Sockets)
  BY ConnectionsAssumption, FS_Subset
<1>2. Cardinality(S) \in Nat /\ Cardinality(Sockets) \in Nat
  BY <1>1, FS_CardinalityType
<1> QED
  BY <1>1, <1>2

\* What the gateway's steps make of a socket.
LEMMA SocketEdits ==
  ASSUME Typed, [Next]_vars
  PROVE  socket' \in [Sockets -> SocketRecord]
<1>0. /\ socket \in [Sockets -> SocketRecord]
      /\ Off \in SocketRecord
  <2>1. 0 \in 0 .. Cardinality(Sockets)
    BY CountType, FS_CardinalityType, ConnectionsAssumption
  <2> QED
    BY <2>1 DEF Typed, ConnTypeOK, SocketRecord, Off
<1>1. ASSUME NEW s \in Sockets, Attach(s) \/ Detach(s) PROVE socket' \in [Sockets -> SocketRecord]
  <2>1. PICK at \in {"attaching", "detaching"}, S \in SUBSET Sockets :
          Launch(s, at, Cardinality(S))
    BY <1>1 DEF Attach, Detach, Remaining, Attached
  <2>2. [at |-> at, count |-> Cardinality(S), dead |-> FALSE] \in SocketRecord
    BY CountType DEF SocketRecord
  <2> QED
    BY <1>0, <2>1, <2>2 DEF Launch
<1>2. ASSUME NEW s \in Sockets, Reported(s) PROVE socket' \in [Sockets -> SocketRecord]
  <2>1. [socket[s] EXCEPT !.at = "on", !.count = 0] \in SocketRecord
    <3>1. 0 \in 0 .. Cardinality(Sockets)
      BY <1>0 DEF Off, SocketRecord
    <3> QED
      BY <1>0, <3>1 DEF SocketRecord
  <2> QED
    BY <1>0, <1>2, <2>1 DEF Reported
<1>3. ASSUME GatewayCrash PROVE socket' \in [Sockets -> SocketRecord]
  BY <1>0, <1>3 DEF GatewayCrash
<1>4. ASSUME NEW w \in Workspaces, PodStop(w) PROVE socket' \in [Sockets -> SocketRecord]
  <2>1. \A s \in Sockets : [socket[s] EXCEPT !.dead = TRUE] \in SocketRecord
    BY <1>0 DEF SocketRecord
  <2> QED
    BY <1>0, <1>4, <2>1 DEF PodStop
<1>5. ASSUME NEW w \in Workspaces, FinishDelete(w) PROVE UNCHANGED socket
  BY <1>5 DEF FinishDelete
<1> QED
  BY <1>0, <1>1, <1>2, <1>3, <1>4, <1>5, GatewayFrame
     DEF Elsewhere, SetBrowserConnections, ReportLost

\* The annotation and the history of the reports.
LEMMA ReportTypes ==
  ASSUME Typed, [Next]_vars
  PROVE  /\ note' \in [Workspaces -> 0 .. Cardinality(Sockets)]
         /\ last' \in [Workspaces -> Sockets \cup {None}]
         /\ muddled' \in [Workspaces -> BOOLEAN]
<1>0. /\ note \in [Workspaces -> 0 .. Cardinality(Sockets)]
      /\ last \in [Workspaces -> Sockets \cup {None}]
      /\ muddled \in [Workspaces -> BOOLEAN]
      /\ \A s \in Sockets : Home[s] \in Workspaces /\ socket[s].count \in 0 .. Cardinality(Sockets)
      /\ 0 \in 0 .. Cardinality(Sockets)
  BY ConnectionsAssumption, CountType, FS_CardinalityType DEF Typed, ConnTypeOK, SocketRecord
<1>1. ASSUME NEW s \in Sockets, Attach(s) \/ Detach(s)
      PROVE  UNCHANGED <<note, muddled>> /\ last' \in [Workspaces -> Sockets \cup {None}]
  BY <1>0, <1>1 DEF Attach, Detach, Launch
<1>2. ASSUME NEW s \in Sockets, Reported(s)
      PROVE  last' \in [Workspaces -> Sockets \cup {None}]
  BY <1>0, <1>2 DEF Reported
<1>3. ASSUME NEW s \in Sockets, SetBrowserConnections(s)
      PROVE  /\ note' \in [Workspaces -> 0 .. Cardinality(Sockets)]
             /\ muddled' \in [Workspaces -> BOOLEAN]
  <2>1. PICK b \in BOOLEAN : muddled' = [muddled EXCEPT ![Home[s]] = b]
    BY <1>3, Booleans DEF SetBrowserConnections
  <2> QED
    BY <1>0, <1>3, <2>1 DEF SetBrowserConnections
<1>4. ASSUME NEW s \in Sockets, ReportLost(s)
      PROVE  UNCHANGED note /\ muddled' \in [Workspaces -> BOOLEAN]
  <2>1. PICK b \in BOOLEAN : muddled' = [muddled EXCEPT ![Home[s]] = b]
    BY <1>4, Booleans DEF ReportLost
  <2> QED
    BY <1>0, <1>4, <2>1 DEF ReportLost
<1>5. ASSUME GatewayCrash
      PROVE  /\ UNCHANGED note /\ last' \in [Workspaces -> Sockets \cup {None}]
             /\ muddled' \in [Workspaces -> BOOLEAN]
  <2>1. UNCHANGED note /\ last' \in [Workspaces -> Sockets \cup {None}]
    BY <1>5 DEF GatewayCrash
  <2>2. muddled' \in [Workspaces -> BOOLEAN]
    BY <1>5, Zenon DEF GatewayCrash
  <2> QED
    BY <2>1, <2>2
<1>6. ASSUME NEW w \in Workspaces, PodStop(w) \/ FinishDelete(w)
      PROVE  /\ note' \in [Workspaces -> 0 .. Cardinality(Sockets)]
             /\ UNCHANGED <<last, muddled>>
  BY <1>0, <1>6 DEF PodStop, FinishDelete
<1> QED
  BY <1>0, <1>1, <1>2, <1>3, <1>4, <1>5, <1>6, GatewayFrame
     DEF Elsewhere, SetBrowserConnections, ReportLost

\* The pass in progress: only the worker begins and ends one.
PassStays == UNCHANGED pass

LEMMA PassFrame ==
  ASSUME [Next]_vars
  PROVE  \/ PassStays
         \/ \E s \in Sockets : SetBrowserConnections(s)
         \/ \E w \in Workspaces : AskSuspend(w) \/ MarkActivity(w) \/ DeleteWorkspace(w) \/ BeginStop(w)
         \/ Evacuated \/ scaleStatefulSet \/ RecordSuspended \/ PassFails
<1>1. ASSUME NEW w \in Workspaces,
             \/ CreateWorkspace(w) \/ FinishDelete(w) \/ PodStart(w) \/ Age(w) \/ Hold(w)
             \/ Admit(w) \/ Provision(w) \/ markReady(w) \/ failAndRollback(w)
             \/ TemplateMissing(w) \/ Inherit(w) \/ DeleteTemplate(w) \/ TearDown(w)
      PROVE  PassStays
  BY <1>1 DEF PassStays, CreateWorkspace, FinishDelete, PodStart, Age, Hold, Admit, Provision,
              markReady, failAndRollback, TemplateMissing, Inherit, DeleteTemplate, TearDown, conns
<1>2. ASSUME NEW w \in Workspaces,
             PodStop(w) \/ ToggleSSH(w) \/ Idle(w) \/ KeepAwake(w) \/ reconcileResume(w)
      PROVE  PassStays
  BY <1>2 DEF PassStays, PodStop, ToggleSSH, Idle, KeepAwake, reconcileResume
<1>3. ASSUME NEW s \in Sockets, Attach(s) \/ Detach(s) \/ ReportLost(s) PROVE PassStays
  BY <1>3 DEF PassStays, Attach, Detach, ReportLost
<1>4. ASSUME GatewayCrash \/ StageImage \/ Sync \/ UNCHANGED vars PROVE PassStays
  BY <1>4 DEF PassStays, GatewayCrash, StageImage, Sync, conns, vars
<1> QED
  BY <1>1, <1>2, <1>3, <1>4 DEF Next, ConnStep

LEMMA PassType ==
  ASSUME Typed, [Next]_vars
  PROVE  pass' \in PassRecord
<1>0. pass \in PassRecord /\ NoPass \in PassRecord
  BY DEF Typed, ConnTypeOK, NoPass, PassRecord, Stages
<1>1. ASSUME NEW s \in Sockets, SetBrowserConnections(s) PROVE pass' \in PassRecord
  BY <1>1, PassTypes, ConnectionsAssumption DEF SetBrowserConnections
<1>2. ASSUME NEW w \in Workspaces, AskSuspend(w) \/ MarkActivity(w) \/ DeleteWorkspace(w) PROVE pass' \in PassRecord
  BY <1>2, PassTypes DEF AskSuspend, MarkActivity, DeleteWorkspace
<1>3. ASSUME NEW w \in Workspaces, BeginStop(w) PROVE pass' \in PassRecord
  <2>1. FirstStage(w) \in Stages /\ ws[w].asked \in BOOLEAN
    BY DEF FirstStage, Stages, Typed, ConnTypeOK, WorkspaceRecord
  <2> QED
    BY <1>3, <2>1, PassTypes DEF BeginStop
<1>4. ASSUME Evacuated \/ scaleStatefulSet PROVE pass' \in PassRecord
  <2>1. \A stage \in Stages : [pass EXCEPT !.at = stage] \in PassRecord
    BY <1>0 DEF PassRecord
  <2> QED
    BY <1>0, <1>4, <2>1 DEF Evacuated, scaleStatefulSet, Stages
<1>5. ASSUME RecordSuspended \/ PassFails PROVE pass' \in PassRecord
  BY <1>0, <1>5 DEF RecordSuspended, PassFails
<1> QED
  BY <1>0, <1>1, <1>2, <1>3, <1>4, <1>5, PassFrame DEF PassStays

\* Replicas, Pods and SSH sessions.
LEMMA ClusterTypes ==
  ASSUME Typed, [Next]_vars
  PROVE  /\ replicas' \in [Workspaces -> {0, 1}]
         /\ pod' \in [Workspaces -> BOOLEAN] /\ ssh' \in [Workspaces -> BOOLEAN]
         /\ marks' \in 0 .. MaxActivity
<1> DEFINE Fine == /\ replicas' \in [Workspaces -> {0, 1}]
                   /\ pod' \in [Workspaces -> BOOLEAN] /\ ssh' \in [Workspaces -> BOOLEAN]
                   /\ marks' \in 0 .. MaxActivity
<1>0. /\ replicas \in [Workspaces -> {0, 1}]
      /\ pod \in [Workspaces -> BOOLEAN] /\ ssh \in [Workspaces -> BOOLEAN]
      /\ marks \in 0 .. MaxActivity /\ MaxActivity \in Nat
  BY ConnectionsAssumption DEF Typed, ConnTypeOK
<1>1. ASSUME NEW w \in Workspaces,
             \/ CreateWorkspace(w) \/ FinishDelete(w) \/ Age(w) \/ Hold(w)
             \/ Admit(w) \/ Provision(w) \/ markReady(w) \/ failAndRollback(w)
             \/ TemplateMissing(w) \/ Inherit(w) \/ DeleteTemplate(w) \/ DeleteWorkspace(w) \/ TearDown(w)
      PROVE  Fine
  BY <1>0, <1>1 DEF CreateWorkspace, FinishDelete, Age, Hold, Admit, Provision, markReady,
                    failAndRollback, TemplateMissing, Inherit, DeleteTemplate, DeleteWorkspace, TearDown, conns
<1>2. ASSUME NEW w \in Workspaces, PodStart(w) \/ PodStop(w) PROVE Fine
  BY <1>0, <1>2 DEF PodStart, PodStop
<1>3. ASSUME NEW w \in Workspaces, ToggleSSH(w) PROVE Fine
  <2>1. PICK b \in BOOLEAN : ssh' = [ssh EXCEPT ![w] = b]
    BY <1>3, Zenon DEF ToggleSSH
  <2> QED
    BY <1>0, <1>3, <2>1 DEF ToggleSSH
<1>4. ASSUME NEW w \in Workspaces,
             AskSuspend(w) \/ MarkActivity(w) \/ Idle(w) \/ KeepAwake(w) \/ BeginStop(w) \/ reconcileResume(w)
      PROVE  Fine
  BY <1>0, <1>4 DEF AskSuspend, MarkActivity, Idle, KeepAwake, BeginStop, reconcileResume
<1>5. ASSUME NEW s \in Sockets, Attach(s) \/ Detach(s) \/ SetBrowserConnections(s) \/ ReportLost(s)
      PROVE  Fine
  BY <1>0, <1>5 DEF Attach, Detach, SetBrowserConnections, ReportLost
<1>6. ASSUME Evacuated \/ scaleStatefulSet \/ RecordSuspended \/ PassFails \/ GatewayCrash PROVE Fine
  BY <1>0, <1>6 DEF Evacuated, scaleStatefulSet, RecordSuspended, PassFails, GatewayCrash
<1>7. ASSUME StageImage \/ Sync \/ UNCHANGED vars PROVE Fine
  BY <1>0, <1>7 DEF StageImage, Sync, conns, vars
<1> HIDE DEF Fine
<1>8. Fine
  BY <1>1, <1>2, <1>3, <1>4, <1>5, <1>6, <1>7 DEF Next, ConnStep
<1> QED
  BY <1>8 DEF Fine

\* Every step keeps the types.
LEMMA TypedStep ==
  ASSUME Typed, PassAlive, [Next]_vars
  PROVE  Typed'
<1>1. ws' \in [Workspaces -> WorkspaceRecord]
  <2>1. UNCHANGED ws \/ \E w \in Workspaces, r \in WorkspaceRecord : ws' = [ws EXCEPT ![w] = r]
    BY EditStep
  <2> QED
    BY <2>1 DEF Typed, ConnTypeOK
<1>2. staged' \in BOOLEAN
  <2>1. UNCHANGED staged \/ StageImage
    BY DEF Next, vars, caches, CreateWorkspace, Inherit, DeleteTemplate, DeleteWorkspace, TearDown,
           FinishDelete, PodStart, Age, TemplateMissing, Hold, Admit, Provision, markReady,
           failAndRollback, Sync
  <2> QED
    BY <2>1 DEF StageImage, Typed
<1>3. /\ listed' \subseteq Workspaces /\ known' \subseteq Workspaces
      /\ templates' \subseteq Workspaces /\ former' \subseteq Workspaces
  BY StoreStep DEF Typed, Listed
<1>4. volumes' \subseteq Workspaces
  <2>1. \/ UNCHANGED volumes
        \/ \E w \in Workspaces : volumes' = volumes \cup {w} \/ volumes' = volumes \ {w}
    BY DEF Next, vars, store, CreateWorkspace, Inherit, DeleteTemplate, DeleteWorkspace, TearDown,
           FinishDelete, PodStart, Age, TemplateMissing, Hold, Admit, Provision, markReady,
           failAndRollback, Sync, StageImage
  <2> QED
    BY <2>1 DEF Typed
<1> QED
  BY <1>1, <1>2, <1>3, <1>4, SocketEdits, ReportTypes, PassType, ClusterTypes DEF Typed, ConnTypeOK

-----------------------------------------------------------------------------
(* The worker's pass *)

\* The object of the pass in progress keeps its phase, but by the end of the
\* pass, and its life, but by a deletion that the pass does not read.
LEMMA HeldObject ==
  ASSUME Typed, pass.who \in Workspaces, ws[pass.who].life \in {"live", "deleting"}, [Next]_vars
  PROVE  \/ RecordSuspended
         \/ /\ ws'[pass.who].phase = ws[pass.who].phase
            /\ \/ ws'[pass.who].life = ws[pass.who].life
               \/ ws'[pass.who].life = "deleting" /\ pass'.stale
<1> DEFINE Same == /\ ws'[pass.who].phase = ws[pass.who].phase
                   /\ \/ ws'[pass.who].life = ws[pass.who].life
                      \/ ws'[pass.who].life = "deleting" /\ pass'.stale
<1>0. /\ ws \in [Workspaces -> WorkspaceRecord]
      /\ ~WorkerFree
  BY ConnectionsAssumption DEF Typed, ConnTypeOK, WorkerFree
<1>1. ASSUME NEW w \in Workspaces,
             \/ CreateWorkspace(w) \/ Age(w) \/ AskSuspend(w) \/ MarkActivity(w) \/ Idle(w) \/ Inherit(w)
      PROVE  Same
  BY <1>0, <1>1 DEF CreateWorkspace, Age, AskSuspend, MarkActivity, Idle, Inherit, WorkspaceRecord
<1>8. ASSUME NEW w \in Workspaces, DeleteWorkspace(w) PROVE Same
  BY <1>0, <1>8 DEF DeleteWorkspace, Touched, WorkspaceRecord, PassRecord, Typed, ConnTypeOK
<1>2. ASSUME NEW w \in Workspaces,
             \/ TearDown(w) \/ FinishDelete(w) \/ TemplateMissing(w) \/ Hold(w) \/ Admit(w) \/ Provision(w) \/ markReady(w)
             \/ failAndRollback(w) \/ KeepAwake(w) \/ BeginStop(w) \/ reconcileResume(w)
      PROVE  FALSE
  BY <1>0, <1>2 DEF TearDown, FinishDelete, TemplateMissing, Hold, Admit, Provision, markReady, failAndRollback,
                    KeepAwake, BeginStop, reconcileResume, ProvisioningPass, Pass
<1>3. ASSUME NEW w \in Workspaces, PodStart(w) \/ PodStop(w) \/ ToggleSSH(w) \/ DeleteTemplate(w)
      PROVE  Same
  BY <1>3 DEF PodStart, PodStop, ToggleSSH, DeleteTemplate, conns
<1>4. ASSUME NEW s \in Sockets, Attach(s) \/ Detach(s) \/ SetBrowserConnections(s) \/ ReportLost(s)
      PROVE  Same
  BY <1>4 DEF Attach, Detach, SetBrowserConnections, ReportLost
<1>5. ASSUME Evacuated \/ scaleStatefulSet \/ PassFails \/ GatewayCrash PROVE Same
  BY <1>5 DEF Evacuated, scaleStatefulSet, PassFails, GatewayCrash
<1>6. ASSUME StageImage \/ Sync \/ UNCHANGED vars PROVE Same
  BY <1>6 DEF StageImage, Sync, conns, vars
<1> HIDE DEF Same
<1>7. RecordSuspended \/ Same
  BY <1>1, <1>2, <1>3, <1>4, <1>5, <1>6, <1>8 DEF Next, ConnStep
<1> QED
  BY <1>7 DEF Same

\* A pass goes on over the same object, begins over a Ready one, or ends.
LEMMA PassStep ==
  ASSUME Typed, [Next]_vars
  PROVE  \/ /\ pass'.who = pass.who /\ pass'.asked = pass.asked
            /\ (pass.at = "none" => pass'.at = "none") /\ (pass.stale => pass'.stale)
         \/ \E w \in Workspaces : BeginStop(w)
         \/ pass' = NoPass
<1> DEFINE On == /\ pass'.who = pass.who /\ pass'.asked = pass.asked
                 /\ (pass.at = "none" => pass'.at = "none") /\ (pass.stale => pass'.stale)
<1>0. pass \in PassRecord
  BY DEF Typed, ConnTypeOK
<1>1. ASSUME NEW w, pass' = Touched(w) PROVE On
  BY <1>0, <1>1 DEF Touched, PassRecord
<1>2. ASSUME NEW s \in Sockets, SetBrowserConnections(s) PROVE On
  BY <1>1, <1>2 DEF SetBrowserConnections
<1>3. ASSUME NEW w \in Workspaces, AskSuspend(w) \/ MarkActivity(w) \/ DeleteWorkspace(w) PROVE On
  BY <1>1, <1>3 DEF AskSuspend, MarkActivity, DeleteWorkspace
<1>4. ASSUME Evacuated \/ scaleStatefulSet PROVE On \/ pass' = NoPass
  BY <1>0, <1>4 DEF Evacuated, scaleStatefulSet, PassRecord
<1>5. ASSUME RecordSuspended \/ PassFails PROVE pass' = NoPass
  BY <1>5 DEF RecordSuspended, PassFails
<1>6. PassStays => On
  BY DEF PassStays
<1> QED
  BY <1>2, <1>3, <1>4, <1>5, <1>6, PassFrame

LEMMA PassAliveStep ==
  ASSUME Typed, PassAlive, [Next]_vars
  PROVE  PassAlive'
<1>1. CASE pass' = NoPass
  BY <1>1 DEF PassAlive, NoPass
<1>2. ASSUME NEW w \in Workspaces, BeginStop(w) PROVE PassAlive'
  BY <1>2 DEF BeginStop, Pass, PassAlive
<1>3. CASE /\ pass'.who = pass.who /\ (pass.at = "none" => pass'.at = "none")
           /\ (pass.stale => pass'.stale) /\ pass' # NoPass
  <2>1. CASE pass.at # "none" \/ pass.who # None
    <3>1. /\ pass.who \in Workspaces /\ ws[pass.who].phase = "Ready"
          /\ ws[pass.who].life = "live" \/ (ws[pass.who].life = "deleting" /\ pass.stale)
      BY <2>1 DEF PassAlive
    <3>2. ~RecordSuspended
      BY <1>3 DEF RecordSuspended
    <3>3. /\ ws'[pass.who].phase = "Ready"
          /\ ws'[pass.who].life = "live" \/ (ws'[pass.who].life = "deleting" /\ pass'.stale)
      BY <1>3, <3>1, <3>2, HeldObject
    <3> QED
      BY <1>3, <3>1, <3>3 DEF PassAlive
  <2>2. CASE pass.at = "none" /\ pass.who = None
    BY <1>3, <2>2 DEF PassAlive
  <2> QED
    BY <2>1, <2>2
<1> QED
  BY <1>1, <1>2, <1>3, PassStep

\* Whatever is reported while the pass goes on makes it stale.
LEMMA PassFreshStep ==
  ASSUME Typed, PassAlive, PassFresh, [Next]_vars
  PROVE  PassFresh'
<1>0. /\ pass \in PassRecord /\ note \in [Workspaces -> 0 .. Cardinality(Sockets)]
      /\ pass.who # None => pass.who \in Workspaces
  BY DEF Typed, ConnTypeOK, PassAlive
<1>1. ASSUME NEW w, UNCHANGED note, pass' = Touched(w) PROVE PassFresh'
  BY <1>0, <1>1 DEF Touched, PassRecord, PassFresh
<1>2. ASSUME NEW s \in Sockets, SetBrowserConnections(s) PROVE PassFresh'
  <2>1. CASE pass.who = Home[s]
    <3>1. pass'.stale
      BY <1>0, <1>2, <2>1 DEF SetBrowserConnections, Touched, PassRecord
    <3> QED
      BY <3>1 DEF PassFresh
  <2>2. CASE pass.who # Home[s]
    <3>1. pass' = pass /\ (pass.who # None => note'[pass.who] = note[pass.who])
      BY <1>0, <1>2, <2>2 DEF SetBrowserConnections, Touched
    <3> QED
      BY <3>1 DEF PassFresh
  <2> QED
    BY <2>1, <2>2
<1>3. ASSUME NEW w \in Workspaces, AskSuspend(w) \/ MarkActivity(w) \/ DeleteWorkspace(w) PROVE PassFresh'
  BY <1>1, <1>3 DEF AskSuspend, MarkActivity, DeleteWorkspace
<1>4. ASSUME NEW w \in Workspaces, BeginStop(w) PROVE PassFresh'
  BY <1>4 DEF BeginStop, MayStop, Unconnected, PassFresh
<1>5. ASSUME Evacuated \/ scaleStatefulSet PROVE PassFresh'
  BY <1>0, <1>5 DEF Evacuated, scaleStatefulSet, PassRecord, PassFresh, NoPass
<1>6. ASSUME RecordSuspended \/ PassFails PROVE PassFresh'
  BY <1>6 DEF RecordSuspended, PassFails, PassFresh, NoPass
<1>7. ASSUME PassStays, ~ \E s \in Sockets : SetBrowserConnections(s) PROVE PassFresh'
  <2>1. ASSUME NEW w \in Workspaces, FinishDelete(w) PROVE PassFresh'
    BY <1>7, <2>1 DEF PassStays, FinishDelete, WorkerFree, PassFresh
  <2>2. ASSUME UNCHANGED note PROVE PassFresh'
    BY <1>7, <2>2 DEF PassStays, PassFresh
  <2> QED
    BY <1>7, <2>1, <2>2, GatewayFrame DEF Elsewhere, Attach, Detach, ReportLost, GatewayCrash, PodStop
<1> QED
  BY <1>2, <1>3, <1>4, <1>5, <1>6, <1>7, PassFrame

-----------------------------------------------------------------------------
(* The gateway's counts *)

\* A Workspace enters the namespace.
Born(w) == CreateWorkspace(w) \/ Inherit(w)

\* What a step makes of a Workspace's life.
LEMMA LifeStep ==
  ASSUME Typed, PassAlive, [Next]_vars, NEW v \in Workspaces
  PROVE  /\ ws'[v].life = "unborn" => ws[v].life = "unborn" /\ ws'[v].id = ws[v].id
         /\ ws'[v].life = "live" => ws[v].life = "live" \/ Born(v)
<1>1. CASE UNCHANGED ws
  BY <1>1
<1>2. ASSUME NEW w \in Workspaces, NEW r \in WorkspaceRecord, ws' = [ws EXCEPT ![w] = r],
             \/ Keeps(ws[w], r)
             \/ CreateWorkspace(w) /\ r = [ws[w] EXCEPT !.life = "live"]
             \/ DeleteWorkspace(w) /\ r = [ws[w] EXCEPT !.life = "deleting"]
             \/ FinishDelete(w) /\ r = [Unborn EXCEPT !.life = "gone"]
             \/ Inherit(w) /\ r = [Unborn EXCEPT !.life = "live", !.id = TRUE]
             \/ Admit(w) /\ r = [ws[w] EXCEPT !.waiting = FALSE, !.id = TRUE]
      PROVE  /\ ws'[v].life = "unborn" => ws[v].life = "unborn" /\ ws'[v].id = ws[v].id
             /\ ws'[v].life = "live" => ws[v].life = "live" \/ Born(v)
  <2>0. ws[w] \in WorkspaceRecord /\ ws'[w] = r /\ (v # w => ws'[v] = ws[v])
    BY <1>2 DEF Typed, ConnTypeOK
  <2>1. CASE Keeps(ws[w], r)
    BY <2>0, <2>1 DEF Keeps
  <2>2. CASE CreateWorkspace(w) /\ r = [ws[w] EXCEPT !.life = "live"]
    BY <2>0, <2>2 DEF WorkspaceRecord, Born
  <2>3. CASE r = [Unborn EXCEPT !.life = "gone"] \/ r = [ws[w] EXCEPT !.life = "deleting"]
    <3>1. r.life \notin {"unborn", "live"}
      BY <2>0, <2>3 DEF Unborn, WorkspaceRecord
    <3> QED
      BY <2>0, <3>1
  <2>5. CASE Inherit(w) /\ r = [Unborn EXCEPT !.life = "live", !.id = TRUE]
    <3>1. r.life = "live"
      BY <2>5 DEF Unborn
    <3> QED
      BY <2>0, <2>5, <3>1 DEF Born
  <2>4. CASE Admit(w) /\ r = [ws[w] EXCEPT !.waiting = FALSE, !.id = TRUE]
    <3>1. ws[w].life = "live" /\ r.life = "live"
      BY <2>0, <2>4 DEF Admit, ProvisioningPass, Pass, WorkspaceRecord
    <3> QED
      BY <2>0, <3>1
  <2> QED
    BY <1>2, <2>1, <2>2, <2>3, <2>4, <2>5
<1> QED
  BY <1>1, <1>2, EditStep

\* A step of one socket leaves the counts of the other Workspaces alone.
LEMMA OtherCounts ==
  ASSUME NEW s \in Sockets, NEW w \in Workspaces \ {Home[s]},
         \A t \in Sockets \ {s} : socket'[t] = socket[t]
  PROVE  Attached(w)' = Attached(w) /\ Reporting(w)' = Reporting(w)
BY DEF Attached, Reporting

\* What a step of a socket makes of the counts of its own Workspace.
LEMMA AttachCounts ==
  ASSUME Typed, NEW s \in Sockets, Attach(s)
  PROVE  /\ \A t \in Sockets \ {s} : socket'[t] = socket[t]
         /\ Attached(Home[s])' = Attached(Home[s]) \cup {s} /\ socket'[s].at = "attaching"
         /\ socket'[s].count = Cardinality(Attached(Home[s])')
<1>1. /\ socket'[s] = [at |-> "attaching", count |-> Cardinality(Attached(Home[s]) \cup {s}), dead |-> FALSE]
      /\ \A t \in Sockets \ {s} : socket'[t] = socket[t]
  BY DEF Attach, Launch, Typed, ConnTypeOK
<1>2. Attached(Home[s])' = Attached(Home[s]) \cup {s}
  BY <1>1 DEF Attached
<1> QED
  BY <1>1, <1>2

LEMMA DetachCounts ==
  ASSUME Typed, NEW s \in Sockets, Detach(s)
  PROVE  /\ \A t \in Sockets \ {s} : socket'[t] = socket[t]
         /\ Attached(Home[s])' = Attached(Home[s]) \ {s} /\ socket'[s].at = "detaching"
         /\ socket'[s].count = Cardinality(Attached(Home[s])')
<1>1. /\ socket'[s] = [at |-> "detaching", count |-> Cardinality(Attached(Home[s]) \ {s}), dead |-> FALSE]
      /\ \A t \in Sockets \ {s} : socket'[t] = socket[t]
  BY DEF Detach, Launch, Remaining, Typed, ConnTypeOK
<1>2. Attached(Home[s])' = Attached(Home[s]) \ {s}
  BY <1>1 DEF Attached
<1> QED
  BY <1>1, <1>2

\* A report that ends changes no count.
LEMMA ReportedCounts ==
  ASSUME Typed, NEW s \in Sockets, Reported(s)
  PROVE  /\ \A t \in Sockets \ {s} : socket'[t] = socket[t]
         /\ Attached(Home[s])' = Attached(Home[s])
         /\ socket'[s].at = "on" => s \in Attached(Home[s])
         /\ socket[s].at # "off" /\ socket'[s].at \in {"on", "off"}
         /\ last'[Home[s]] = IF last[Home[s]] = s THEN None ELSE last[Home[s]]
         /\ \A w \in Workspaces \ {Home[s]} : last'[w] = last[w]
<1>0. /\ socket \in [Sockets -> SocketRecord] /\ last \in [Workspaces -> Sockets \cup {None}]
      /\ Home[s] \in Workspaces
      /\ socket[s].at \in {"attaching", "detaching"}
  BY ConnectionsAssumption DEF Typed, ConnTypeOK, Reported, Reporting
<1>1. \A t \in Sockets \ {s} : socket'[t] = socket[t]
  BY <1>0 DEF Reported
<1>2. /\ socket[s].at = "attaching" => socket'[s].at = "on"
      /\ socket[s].at = "detaching" => socket'[s].at = "off"
  BY <1>0 DEF Reported, Off, SocketRecord
<1>3. Attached(Home[s])' = Attached(Home[s])
  BY <1>0, <1>1, <1>2 DEF Attached
<1>4. socket'[s].at = "on" => s \in Attached(Home[s])
  BY <1>0, <1>2 DEF Attached
<1>5. /\ last'[Home[s]] = IF last[Home[s]] = s THEN None ELSE last[Home[s]]
      /\ \A w \in Workspaces \ {Home[s]} : last'[w] = last[w]
  BY <1>0 DEF Reported
<1> QED
  BY <1>0, <1>1, <1>2, <1>3, <1>4, <1>5

\* Neither does a Pod that stops.
LEMMA StopCounts ==
  ASSUME Typed, NEW w \in Workspaces, PodStop(w)
  PROVE  /\ \A s \in Sockets : socket'[s].at = socket[s].at /\ socket'[s].count = socket[s].count
         /\ \A v \in Workspaces : Attached(v)' = Attached(v) /\ Reporting(v)' = Reporting(v)
<1>1. \A s \in Sockets : socket'[s].at = socket[s].at /\ socket'[s].count = socket[s].count
  BY DEF PodStop, Typed, ConnTypeOK, SocketRecord
<1> QED
  BY <1>1 DEF Attached, Reporting

LEMMA UnbornStep ==
  ASSUME Typed, PassAlive, UnbornAlone, [Next]_vars
  PROVE  UnbornAlone'
<1> SUFFICES ASSUME NEW w \in Workspaces, ws'[w].life = "unborn"
             PROVE  /\ ~ws'[w].id /\ note'[w] = 0 /\ last'[w] = None
                    /\ \A s \in Sockets : Home[s] = w => socket'[s].at = "off"
  BY DEF UnbornAlone
<1> DEFINE Alone == /\ note'[w] = 0 /\ last'[w] = None
                    /\ \A s \in Sockets : Home[s] = w => socket'[s].at = "off"
<1>0. /\ ws[w].life = "unborn" /\ ~ws[w].id /\ ~ws'[w].id
      /\ note[w] = 0 /\ last[w] = None
      /\ \A s \in Sockets : Home[s] = w => socket[s].at = "off"
  BY LifeStep DEF UnbornAlone
<1>1. CASE Elsewhere
  BY <1>0, <1>1 DEF Elsewhere
<1>2. ASSUME NEW s \in Sockets, Attach(s) \/ Detach(s) \/ SetBrowserConnections(s) \/ ReportLost(s)
      PROVE  Alone
  <2>1. Home[s] # w
    BY <1>0, <1>2 DEF Attach, Detach, SetBrowserConnections, ReportLost, Reported, Reporting
  <2>2. \A t \in Sockets \ {s} : socket'[t] = socket[t]
    BY <1>2, AttachCounts, DetachCounts, ReportedCounts DEF SetBrowserConnections, ReportLost
  <2>3. note'[w] = note[w] /\ last'[w] = last[w]
    BY <1>2, <2>1, ReportedCounts
       DEF Attach, Detach, Launch, SetBrowserConnections, ReportLost, Typed, ConnTypeOK
  <2> QED
    BY <1>0, <2>1, <2>2, <2>3
<1>3. CASE GatewayCrash
  BY <1>0, <1>3 DEF GatewayCrash, Off
<1>4. ASSUME NEW v \in Workspaces, PodStop(v) PROVE Alone
  BY <1>0, <1>4, StopCounts DEF PodStop
<1>5. ASSUME NEW v \in Workspaces, FinishDelete(v) PROVE Alone
  BY <1>0, <1>5 DEF FinishDelete, Typed, ConnTypeOK
<1> QED
  BY <1>0, <1>1, <1>2, <1>3, <1>4, <1>5, GatewayFrame

LEMMA LatestStep ==
  ASSUME Typed, LatestCounts, [Next]_vars
  PROVE  LatestCounts'
<1> SUFFICES ASSUME NEW w \in Workspaces, last'[w] # None
             PROVE  last'[w] \in Reporting(w)' /\ socket'[last'[w]].count = Cardinality(Attached(w)')
  BY DEF LatestCounts, Attached, Reporting
<1> DEFINE Latest == last'[w] \in Reporting(w)' /\ socket'[last'[w]].count = Cardinality(Attached(w)')
<1>0. last[w] # None => last[w] \in Reporting(w) /\ socket[last[w]].count = Cardinality(Attached(w))
  BY DEF LatestCounts
<1>1. ASSUME UNCHANGED <<socket, last>> PROVE Latest
  BY <1>0, <1>1 DEF Attached, Reporting
<1>2. ASSUME NEW s \in Sockets, \A t \in Sockets \ {s} : socket'[t] = socket[t],
             Home[s] # w, last'[w] = last[w]
      PROVE  Latest
  <2>1. Attached(w)' = Attached(w) /\ Reporting(w)' = Reporting(w)
    BY <1>2, OtherCounts
  <2>2. last[w] \in Sockets \ {s}
    BY <1>0, <1>2 DEF Reporting
  <2> QED
    BY <1>0, <1>2, <2>1, <2>2
<1>3. ASSUME NEW s \in Sockets, Attach(s) \/ Detach(s) PROVE Latest
  <2>1. CASE Home[s] = w
    <3>1. last'[w] = s
      BY <1>3, <2>1 DEF Attach, Detach, Launch, Typed, ConnTypeOK
    <3>2. /\ socket'[s].at \in {"attaching", "detaching"}
          /\ socket'[s].count = Cardinality(Attached(w)')
      BY <1>3, <2>1, AttachCounts, DetachCounts
    <3> QED
      BY <2>1, <3>1, <3>2 DEF Reporting
  <2>2. CASE Home[s] # w
    <3>1. last'[w] = last[w]
      BY <1>3, <2>2 DEF Attach, Detach, Launch, Typed, ConnTypeOK
    <3> QED
      BY <1>2, <1>3, <2>2, <3>1, AttachCounts, DetachCounts
  <2> QED
    BY <2>1, <2>2
<1>4. ASSUME NEW s \in Sockets, Reported(s) PROVE Latest
  <2>1. CASE Home[s] = w
    <3>1. last[w] # s /\ last'[w] = last[w]
      BY <1>4, <2>1, ReportedCounts
    <3>2. last[w] \in Reporting(w) /\ socket'[last[w]] = socket[last[w]]
      BY <1>0, <1>4, <3>1, ReportedCounts DEF Reporting
    <3>3. last[w] \in Reporting(w)'
      BY <3>2 DEF Reporting
    <3>4. Attached(w)' = Attached(w)
      BY <1>4, <2>1, ReportedCounts
    <3> QED
      BY <1>0, <3>1, <3>2, <3>3, <3>4
  <2>2. CASE Home[s] # w
    BY <1>2, <1>4, <2>2, ReportedCounts
  <2> QED
    BY <2>1, <2>2
<1>5. CASE GatewayCrash
  BY <1>5 DEF GatewayCrash
<1>6. ASSUME NEW v \in Workspaces, PodStop(v) PROVE Latest
  <2>1. last'[w] = last[w]
    BY <1>6 DEF PodStop
  <2>2. last[w] \in Sockets
    BY <1>0, <2>1 DEF Reporting
  <2> QED
    BY <1>0, <1>6, <2>1, <2>2, StopCounts
<1>7. ASSUME NEW v \in Workspaces, FinishDelete(v) PROVE Latest
  BY <1>1, <1>7 DEF FinishDelete
<1> QED
  BY <1>1, <1>3, <1>4, <1>5, <1>6, <1>7, GatewayFrame DEF Elsewhere, SetBrowserConnections, ReportLost

\* A Workspace just created has nobody on it.
LEMMA CreatedAlone ==
  ASSUME UnbornAlone, NEW w \in Workspaces, Born(w)
  PROVE  /\ note[w] = 0 /\ Attached(w) = {}
         /\ \A s \in Sockets : Home[s] = w => socket[s].at # "on"
BY DEF UnbornAlone, Born, CreateWorkspace, Inherit, Attached

LEMMA NoteStep ==
  ASSUME Typed, PassAlive, UnbornAlone, LatestCounts, NoteCounts, [Next]_vars
  PROVE  NoteCounts'
<1> SUFFICES ASSUME NEW w \in Workspaces, ws'[w].life = "live", last'[w] = None, ~muddled'[w]
             PROVE  note'[w] = Cardinality(Attached(w)')
  BY DEF NoteCounts, Attached
<1> DEFINE Right == note'[w] = Cardinality(Attached(w)')
<1>0. ws[w].life = "live" /\ last[w] = None /\ ~muddled[w] => note[w] = Cardinality(Attached(w))
  BY DEF NoteCounts
<1>1. ws[w].life = "live" \/ Born(w)
  BY LifeStep
<1>2. CASE Elsewhere
  <2>1. CASE Born(w)
    <3>1. note'[w] = 0 /\ Attached(w)' = {}
      BY <1>2, <2>1, CreatedAlone DEF Elsewhere, Attached
    <3> QED
      BY <3>1, FS_EmptySet
  <2>2. CASE ws[w].life = "live"
    BY <1>0, <1>2, <2>2 DEF Elsewhere, Attached
  <2> QED
    BY <1>1, <2>1, <2>2
<1>3. ASSUME ~Elsewhere, ~Born(w) PROVE Right
  <2>0. ws[w].life = "live"
    BY <1>1, <1>3
  <2>1. ASSUME NEW s \in Sockets, Attach(s) \/ Detach(s) PROVE Right
    <3>1. Home[s] # w
      BY <2>1, ConnectionsAssumption DEF Attach, Detach, Launch, Typed, ConnTypeOK
    <3>2. last'[w] = last[w] /\ muddled'[w] = muddled[w] /\ note'[w] = note[w]
      BY <2>1, <3>1 DEF Attach, Detach, Launch, Typed, ConnTypeOK
    <3>3. Attached(w)' = Attached(w)
      BY <2>1, <3>1, AttachCounts, DetachCounts, OtherCounts
    <3> QED
      BY <1>0, <2>0, <3>2, <3>3
  <2>2. ASSUME NEW s \in Sockets, SetBrowserConnections(s) PROVE Right
    <3>0. Reported(s) /\ Home[s] \in Workspaces
      BY <2>2, ConnectionsAssumption DEF SetBrowserConnections
    <3>1. CASE Home[s] = w
      <4>1. note'[w] = socket[s].count /\ last[w] = s
        BY <2>2, <3>1 DEF SetBrowserConnections, Typed, ConnTypeOK
      <4>2. socket[s].count = Cardinality(Attached(w))
        BY <4>1, ConnectionsAssumption DEF LatestCounts
      <4>3. Attached(w)' = Attached(w)
        BY <3>0, <3>1, ReportedCounts
      <4> QED
        BY <4>1, <4>2, <4>3
    <3>2. CASE Home[s] # w
      <4>1. last'[w] = last[w] /\ muddled'[w] = muddled[w] /\ note'[w] = note[w]
        BY <2>2, <3>0, <3>2, ReportedCounts DEF SetBrowserConnections, Typed, ConnTypeOK
      <4>2. Attached(w)' = Attached(w)
        BY <3>0, <3>2, ReportedCounts, OtherCounts
      <4> QED
        BY <1>0, <2>0, <4>1, <4>2
    <3> QED
      BY <3>1, <3>2
  <2>3. ASSUME NEW s \in Sockets, ReportLost(s) PROVE Right
    <3>0. Reported(s) /\ Home[s] \in Workspaces /\ note'[w] = note[w]
      BY <2>3, ConnectionsAssumption DEF ReportLost
    <3>1. last[w] = None /\ ~muddled[w]
      <4>1. muddled' = [muddled EXCEPT ![Home[s]] = muddled[Home[s]] \/ last[Home[s]] # None]
        BY <2>3 DEF ReportLost
      <4>2. CASE Home[s] = w
        BY <4>1, <4>2 DEF Typed, ConnTypeOK
      <4>3. CASE Home[s] # w
        <5>1. last'[w] = last[w]
          BY <3>0, <4>3, ReportedCounts
        <5>2. muddled'[w] = muddled[w]
          BY <4>1, <4>3 DEF Typed, ConnTypeOK
        <5> QED
          BY <5>1, <5>2
      <4> QED
        BY <4>2, <4>3
    <3>2. Attached(w)' = Attached(w)
      BY <3>0, ReportedCounts, OtherCounts
    <3> QED
      BY <1>0, <2>0, <3>0, <3>1, <3>2
  <2>4. ASSUME GatewayCrash PROVE Right
    <3>1. ~muddled[w] /\ note'[w] = note[w] /\ \A s \in Sockets : Home[s] = w => socket[s].at = "off"
      BY <2>4 DEF GatewayCrash
    <3>2. last[w] = None
      BY <3>1 DEF LatestCounts, Reporting
    <3>3. Attached(w)' = Attached(w)
      BY <2>4, <3>1 DEF GatewayCrash, Attached, Off
    <3> QED
      BY <1>0, <2>0, <3>1, <3>2, <3>3
  <2>5. ASSUME NEW v \in Workspaces, PodStop(v) PROVE Right
    BY <1>0, <2>0, <2>5, StopCounts DEF PodStop
  <2>6. ASSUME NEW v \in Workspaces, FinishDelete(v) PROVE Right
    <3>1. v # w
      BY <2>6 DEF FinishDelete, Typed, ConnTypeOK, Unborn
    <3> QED
      BY <1>0, <2>0, <2>6, <3>1 DEF FinishDelete, Typed, ConnTypeOK, Attached
  <2> QED
    BY <1>3, <2>1, <2>2, <2>3, <2>4, <2>5, <2>6, GatewayFrame
<1>4. Born(w) => Elsewhere
  BY DEF Born, CreateWorkspace, Inherit, Elsewhere
<1> QED
  BY <1>2, <1>3, <1>4

LEMMA MissedStep ==
  ASSUME Typed, PassAlive, UnbornAlone, LatestCounts, NoteCounts, NoneMissed, [Next]_vars
  PROVE  NoneMissed'
<1> SUFFICES ASSUME NEW w \in Workspaces, ws'[w].life = "live", ~muddled'[w], note'[w] = 0,
                    NEW t \in Sockets, Home[t] = w
             PROVE  socket'[t].at # "on"
  BY DEF NoneMissed
<1> DEFINE NotOn == socket'[t].at # "on"
<1>0. ws[w].life = "live" /\ ~muddled[w] /\ note[w] = 0 => socket[t].at # "on"
  BY DEF NoneMissed
<1>1. ws[w].life = "live" \/ Born(w)
  BY LifeStep
<1>2. CASE Elsewhere
  BY <1>0, <1>1, <1>2, CreatedAlone DEF Elsewhere
<1>3. ASSUME ~Elsewhere, ~Born(w) PROVE NotOn
  <2>0. ws[w].life = "live"
    BY <1>1, <1>3
  <2>1. ASSUME NEW s \in Sockets, Attach(s) \/ Detach(s) PROVE NotOn
    <3>1. muddled'[w] = muddled[w] /\ note'[w] = note[w]
      BY <2>1 DEF Attach, Detach
    <3> QED
      BY <1>0, <2>0, <2>1, <3>1, AttachCounts, DetachCounts
  <2>2. ASSUME NEW s \in Sockets, SetBrowserConnections(s) PROVE NotOn
    <3>0. Reported(s) /\ Home[s] \in Workspaces
      BY <2>2, ConnectionsAssumption DEF SetBrowserConnections
    <3>1. CASE Home[s] = w
      <4>1. note'[w] = socket[s].count /\ last[w] = s
        BY <2>2, <3>1 DEF SetBrowserConnections, Typed, ConnTypeOK
      <4>2. Cardinality(Attached(w)) = 0
        BY <4>1, ConnectionsAssumption DEF LatestCounts
      <4>3. Attached(w) = {} /\ Attached(w)' = Attached(w)
        BY <3>0, <3>1, <4>2, ReportedCounts, AttachedFinite
      <4> QED
        BY <4>3 DEF Attached
    <3>2. CASE Home[s] # w
      <4>1. muddled'[w] = muddled[w] /\ note'[w] = note[w] /\ socket'[t] = socket[t]
        BY <2>2, <3>0, <3>2, ReportedCounts DEF SetBrowserConnections, Typed, ConnTypeOK
      <4> QED
        BY <1>0, <2>0, <4>1
    <3> QED
      BY <3>1, <3>2
  <2>3. ASSUME NEW s \in Sockets, ReportLost(s) PROVE NotOn
    <3>0. Reported(s) /\ Home[s] \in Workspaces /\ note[w] = 0 /\ ~muddled[w]
      BY <2>3, ConnectionsAssumption DEF ReportLost, Typed, ConnTypeOK
    <3>1. CASE s = t
      <4>1. last[w] = None
        BY <2>3, <3>0, <3>1 DEF ReportLost, Typed, ConnTypeOK
      <4>2. Cardinality(Attached(w)) = 0
        BY <2>0, <3>0, <4>1 DEF NoteCounts
      <4>3. t \notin Attached(w)
        BY <4>2, AttachedFinite
      <4> QED
        BY <3>0, <3>1, <4>3, ReportedCounts
    <3>2. CASE s # t
      BY <1>0, <2>0, <3>0, <3>2, ReportedCounts
    <3> QED
      BY <3>1, <3>2
  <2>4. ASSUME GatewayCrash PROVE NotOn
    BY <2>4 DEF GatewayCrash, Off
  <2>5. ASSUME NEW v \in Workspaces, PodStop(v) PROVE NotOn
    BY <1>0, <2>0, <2>5, StopCounts DEF PodStop
  <2>6. ASSUME NEW v \in Workspaces, FinishDelete(v) PROVE NotOn
    <3>1. v # w
      BY <2>6 DEF FinishDelete, Typed, ConnTypeOK, Unborn
    <3> QED
      BY <1>0, <2>0, <2>6, <3>1 DEF FinishDelete, Typed, ConnTypeOK
  <2> QED
    BY <1>3, <2>1, <2>2, <2>3, <2>4, <2>5, <2>6, GatewayFrame
<1>4. Born(w) => Elsewhere
  BY DEF Born, CreateWorkspace, Inherit, Elsewhere
<1> QED
  BY <1>2, <1>3, <1>4

-----------------------------------------------------------------------------
(* Theorems *)

\* The invariant holds at the start and every step keeps it.
THEOREM Invariance == Spec => [](Typed /\ Inv)
<1>1. Init => Typed /\ Inv
  <2> SUFFICES ASSUME Init PROVE Typed /\ Inv
    OBVIOUS
  <2>0. Cardinality(Sockets) \in Nat
    BY ConnectionsAssumption, FS_CardinalityType
  <2>1. Typed
    <3>1. Unborn \in WorkspaceRecord /\ NoPass \in PassRecord
      BY DEF Unborn, WorkspaceRecord, Phases, NoPass, PassRecord, Stages
    <3>2. Off \in SocketRecord
      BY <2>0 DEF Off, SocketRecord
    <3>3. 0 \in 0 .. Cardinality(Sockets) /\ 0 \in 0 .. MaxActivity
      BY <2>0, ConnectionsAssumption
    <3>4. /\ ws \in [Workspaces -> WorkspaceRecord] /\ replicas \in [Workspaces -> {0, 1}]
          /\ pod \in [Workspaces -> BOOLEAN] /\ ssh \in [Workspaces -> BOOLEAN]
          /\ muddled \in [Workspaces -> BOOLEAN]
      BY <3>1 DEF Init, ConnInit
    <3>5. /\ socket \in [Sockets -> SocketRecord] /\ note \in [Workspaces -> 0 .. Cardinality(Sockets)]
          /\ last \in [Workspaces -> Sockets \cup {None}]
          /\ pass \in PassRecord /\ marks \in 0 .. MaxActivity
      BY <3>1, <3>2, <3>3 DEF Init, ConnInit
    <3>6. /\ staged \in BOOLEAN /\ listed \subseteq Workspaces /\ known \subseteq Workspaces
          /\ volumes \subseteq Workspaces /\ templates \subseteq Workspaces /\ former \subseteq Workspaces
      BY DEF Init
    <3> QED
      BY <3>4, <3>5, <3>6 DEF Typed, ConnTypeOK
  <2>2. Admitted = {}
    BY DEF Init, ConnInit, Unborn, Admitted, Counted, Listed
  <2>3. AdmittedListed /\ TemplatesKnown /\ CountedFit
    <3>1. Units({}) = {}
      BY DEF Units
    <3>2. Declared({}) <= Budget
      BY <3>1, FS_EmptySet, AdmissionAssumption DEF Declared
    <3> QED
      BY <2>2, <3>2 DEF Init, AdmittedListed, TemplatesKnown, CountedFit, Admitted
  <2>4. UnbornAlone /\ LatestCounts /\ NoteCounts /\ NoneMissed
    BY DEF Init, ConnInit, Unborn, Off, UnbornAlone, LatestCounts, NoteCounts, NoneMissed
  <2>5. PassAlive /\ PassFresh
    BY DEF Init, ConnInit, NoPass, PassAlive, PassFresh
  <2> QED
    BY <2>1, <2>3, <2>4, <2>5 DEF Inv
<1>2. Typed /\ Inv /\ [Next]_vars => (Typed /\ Inv)'
  <2> SUFFICES ASSUME Typed, Inv, [Next]_vars PROVE Typed' /\ Inv'
    OBVIOUS
  <2>1. Typed'
    BY TypedStep DEF Inv
  <2>2. AdmittedListed' /\ TemplatesKnown' /\ CountedFit'
    BY <2>1, BudgetStep DEF Inv
  <2>3. UnbornAlone' /\ LatestCounts' /\ NoteCounts' /\ NoneMissed'
    BY UnbornStep, LatestStep, NoteStep, MissedStep DEF Inv
  <2>4. PassAlive' /\ PassFresh'
    BY PassAliveStep, PassFreshStep DEF Inv
  <2> QED
    BY <2>1, <2>2, <2>3, <2>4 DEF Inv
<1> QED
  BY <1>1, <1>2, PTL DEF Spec

\* The Workspaces admission counts and has admitted fit the node's budget,
\* whatever the sizes, the budget, the quota and the delay of the caches, with
\* Workspaces deleted, duplicates left alone and templates lost.
THEOREM CountedAlwaysFit == Spec => []CountedFit
BY Invariance, PTL DEF Inv

\* Once every report has landed the annotation is the number of sockets,
\* unless the latest report was lost or overtaken or the gateway restarted.
THEOREM CountAlwaysSettles == Spec => []CountSettles
<1>1. Typed /\ Inv => CountSettles
  <2> SUFFICES ASSUME Typed, Inv, NEW w \in Workspaces, ws[w].life = "live", Reporting(w) = {}, ~muddled[w]
               PROVE  note[w] = Cardinality(Attached(w))
    BY DEF CountSettles
  <2>1. last[w] = None
    BY DEF Inv, LatestCounts
  <2> QED
    BY <2>1 DEF Inv, NoteCounts
<1> QED
  BY <1>1, Invariance, PTL

\* The idle stop scales down no Workspace with a browser on it whose report
\* had landed when the snapshot was recorded.
THEOREM StopAlwaysSpares == Spec => StopSparesHolders
<1> DEFINE Spares == scaleStatefulSet /\ ~pass.asked /\ ~pass.stale /\ ~muddled[pass.who]
                       => Attached(pass.who) = Reporting(pass.who) \cap Attached(pass.who)
<1>1. Typed /\ Inv => Spares
  <2> SUFFICES ASSUME Typed, Inv, scaleStatefulSet, ~pass.asked, ~pass.stale, ~muddled[pass.who]
               PROVE  Attached(pass.who) = Reporting(pass.who) \cap Attached(pass.who)
    OBVIOUS
  <2>1. pass.who \in Workspaces /\ ws[pass.who].life = "live"
    BY DEF scaleStatefulSet, Inv, PassAlive
  <2>2. note[pass.who] = 0
    BY <2>1, ConnectionsAssumption DEF Inv, PassFresh
  <2>3. \A s \in Sockets : Home[s] = pass.who => socket[s].at # "on"
    BY <2>1, <2>2 DEF Inv, NoneMissed
  <2> QED
    BY <2>3 DEF Attached, Reporting
<1>2. Typed /\ Inv /\ [Next]_vars => [Spares]_conns
  BY <1>1
<1> QED
  BY <1>2, Invariance, PTL DEF Spec, StopSparesHolders
=============================================================================
