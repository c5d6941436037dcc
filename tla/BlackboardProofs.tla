-------------------------- MODULE BlackboardProofs --------------------------
(***************************************************************************)
(* Proofs about Blackboard: its types, and that no branch is told of one   *)
(* conflict twice.                                                         *)
(***************************************************************************)
EXTENDS Blackboard, TLAPS

\* A pass that goes on has registered an entry.
PassListed == \A w \in Workspaces : pass.who = w => board[w].files # None

\* What was recorded last was told, unless its pass died in between.
ToldRecorded == \A w \in Workspaces : ~died[w] => told[w] = board[w].cond

-----------------------------------------------------------------------------
(* Types *)

\* The changes that are made to the record of a Workspace.
LEMMA RecordTypes ==
  ASSUME NEW r \in WorkspaceRecord, NEW b \in BOOLEAN, NEW F \in SUBSET Files, NEW C \in Details,
         NEW node \in {"unknown", "up", "down"}
  PROVE  /\ [r EXCEPT !.ready = b] \in WorkspaceRecord
         /\ [r EXCEPT !.active = FALSE] \in WorkspaceRecord
         /\ [r EXCEPT !.life = "deleting"] \in WorkspaceRecord
         /\ [r EXCEPT !.cond = C] \in WorkspaceRecord
         /\ [r EXCEPT !.node = node] \in WorkspaceRecord
         /\ [r EXCEPT !.node = node, !.files = F] \in WorkspaceRecord
         /\ [r EXCEPT !.life = "live", !.ready = TRUE, !.active = TRUE, !.files = {}] \in WorkspaceRecord
<1> DEFINE L == {None} \cup SUBSET Files
           N == {"unknown", "up", "down"}
           R == [life : {"unborn", "live", "deleting"}, ready : BOOLEAN, files : L, active : BOOLEAN,
                 cond : Details, node : N]
<1>1. WorkspaceRecord = R /\ F \in L /\ {} \in L /\ node \in N
  BY DEF WorkspaceRecord
<1> HIDE DEF L, N
<1>2. /\ [r EXCEPT !.ready = b] \in R
      /\ [r EXCEPT !.active = FALSE] \in R
      /\ [r EXCEPT !.life = "deleting"] \in R
      /\ [r EXCEPT !.cond = C] \in R
      /\ [r EXCEPT !.node = node] \in R
  BY <1>1
<1>3. /\ [r EXCEPT !.node = node, !.files = F] \in R
      /\ [r EXCEPT !.life = "live", !.ready = TRUE, !.active = TRUE, !.files = {}] \in R
  BY <1>1
<1> HIDE DEF R
<1> QED
  BY <1>1, <1>2, <1>3

\* The entries of a list are a document.
LEMMA EntriesType ==
  ASSUME NEW list \in [Workspaces -> WorkspaceRecord]
  PROVE  ActiveBlackboardEntries(list) \in Documents
<1>1. \A v \in Workspaces : list[v].files # None => list[v].files \in SUBSET Files
  BY DEF WorkspaceRecord
<1> QED
  BY <1>1 DEF ActiveBlackboardEntries, Documents

\* A conflict names files and who changes them.
LEMMA ConflictType ==
  ASSUME TypeOK, PassListed, NEW w \in Workspaces, pass.who = w
  PROVE  Conflict(w) \in Details
<1> DEFINE entries == ActiveBlackboardEntries(seen)
           own == board[w].files
<1>1. own \in SUBSET Files
  BY DEF PassListed, TypeOK, WorkspaceRecord
<1>2. entries \in Documents
  BY EntriesType DEF TypeOK
<1> HIDE DEF entries, own
<1>3. \A e \in entries : e[1] \in Workspaces
  BY <1>2 DEF Documents
<1>4. \A f : Changing(f, w, own, entries) \in SUBSET Workspaces
  BY <1>3 DEF Changing
<1>5. fileConflictDetail(entries, w, own) \in Details
  BY <1>1, <1>4 DEF fileConflictDetail, Details
<1> QED
  BY <1>5 DEF Conflict, entries, own

\* What a supervisor answers is a list of files.
LEMMA AnswerType ==
  ASSUME TypeOK, NEW w \in Workspaces, NEW F \in ChangedFiles(w)
  PROVE  F \in SUBSET Files /\ F # None
BY BlackboardAssumption DEF ChangedFiles, TypeOK, WorkspaceRecord

\* A record that is changed at one place.
LEMMA Edits ==
  ASSUME TypeOK, NEW w \in Workspaces, NEW r \in WorkspaceRecord, board' = [board EXCEPT ![w] = r],
         r.active => r.files # None
  PROVE  /\ board' \in [Workspaces -> WorkspaceRecord]
         /\ \A v \in Workspaces : board'[v].active => board'[v].files # None
         /\ board'[w] = r /\ \A v \in Workspaces \ {w} : board'[v] = board[v]
<1>1. /\ board' \in [Workspaces -> WorkspaceRecord]
      /\ board'[w] = r /\ \A v \in Workspaces \ {w} : board'[v] = board[v]
  BY DEF TypeOK
<1> QED
  BY <1>1 DEF TypeOK

\* What a step writes over the object of w: typed, with an entry where there
\* was one, and another condition only where conflicts are looked for.
Writes(w, r) ==
  /\ board' = [board EXCEPT ![w] = r] /\ r \in WorkspaceRecord
  /\ r.active => r.files # None
  /\ board[w].files # None => r.files # None
  /\ \/ r.cond = board[w].cond
     \/ reconcileFileConflicts(w) /\ r.cond = Conflict(w)
     \/ DiesBeforeNotify(w) /\ r.cond = Conflict(w)

\* Every step writes one object in this way, or none.
LEMMA BoardStep ==
  ASSUME TypeOK, PassListed, [Next]_vars
  PROVE  UNCHANGED board \/ \E w \in Workspaces, r \in WorkspaceRecord : Writes(w, r)
<1> DEFINE Written(w) == \E r \in WorkspaceRecord : Writes(w, r)
<1>0. /\ board \in [Workspaces -> WorkspaceRecord]
      /\ \A w \in Workspaces : board[w] \in WorkspaceRecord /\ (board[w].active => board[w].files # None)
  BY DEF TypeOK
<1>1. ASSUME NEW w \in Workspaces, NEW r \in WorkspaceRecord, board' = [board EXCEPT ![w] = r],
             r.active = board[w].active \/ r.active = FALSE, r.files = board[w].files,
             \/ r.cond = board[w].cond
             \/ reconcileFileConflicts(w) /\ r.cond = Conflict(w)
             \/ DiesBeforeNotify(w) /\ r.cond = Conflict(w)
      PROVE  Written(w)
  <2>1. Writes(w, r)
    BY <1>0, <1>1 DEF Writes
  <2> QED
    BY <2>1
<1>2. ASSUME NEW w \in Workspaces, Suspend(w) \/ Resume(w) PROVE Written(w)
  <2>1. PICK b \in BOOLEAN : board' = [board EXCEPT ![w] = [board[w] EXCEPT !.ready = b]]
    BY <1>0, <1>2 DEF Suspend, Resume
  <2> DEFINE r == [board[w] EXCEPT !.ready = b]
  <2>2. r \in WorkspaceRecord
    BY <1>0, RecordTypes DEF Details
  <2>3. r.active = board[w].active /\ r.files = board[w].files /\ r.cond = board[w].cond
    BY <1>0 DEF WorkspaceRecord
  <2>4. board' = [board EXCEPT ![w] = r]
    BY <2>1
  <2> HIDE DEF r, Written
  <2> QED
    BY <1>1, <2>2, <2>3, <2>4
<1>3. ASSUME NEW w \in Workspaces, Delete(w) PROVE Written(w)
  <2> DEFINE r == [board[w] EXCEPT !.life = "deleting"]
  <2>1. board' = [board EXCEPT ![w] = r]
    BY <1>0, <1>3 DEF Delete
  <2>2. r \in WorkspaceRecord
    BY <1>0, RecordTypes DEF Details
  <2>3. r.active = board[w].active /\ r.files = board[w].files /\ r.cond = board[w].cond
    BY <1>0 DEF WorkspaceRecord
  <2> HIDE DEF r, Written
  <2> QED
    BY <1>1, <2>1, <2>2, <2>3
<1>4. ASSUME NEW w \in Workspaces, deactivateBlackboard(w) PROVE Written(w)
  <2> DEFINE r == [board[w] EXCEPT !.active = FALSE]
  <2>1. board' = [board EXCEPT ![w] = r]
    BY <1>0, <1>4 DEF deactivateBlackboard
  <2>2. r \in WorkspaceRecord
    BY <1>0, RecordTypes DEF Details
  <2>3. r.active = FALSE /\ r.files = board[w].files /\ r.cond = board[w].cond
    BY <1>0 DEF WorkspaceRecord
  <2> HIDE DEF r, Written
  <2> QED
    BY <1>1, <2>1, <2>2, <2>3
<1>5. \A w \in Workspaces : NodeCondition(w) \in {"unknown", "up", "down"}
  BY DEF NodeCondition
<1>6. ASSUME NEW w \in Workspaces, DiesAfterNode(w) PROVE Written(w)
  <2> DEFINE n == NodeCondition(w)
             r == [board[w] EXCEPT !.node = n]
  <2>1. board' = [board EXCEPT ![w] = r]
    BY <1>0, <1>6 DEF DiesAfterNode
  <2>2. n \in {"unknown", "up", "down"}
    BY <1>5
  <2> HIDE DEF n
  <2>3. r \in WorkspaceRecord
    BY <1>0, <2>2, RecordTypes DEF Details
  <2>4. r.active = board[w].active /\ r.files = board[w].files /\ r.cond = board[w].cond
    BY <1>0 DEF WorkspaceRecord
  <2> HIDE DEF r, Written
  <2> QED
    BY <1>1, <2>1, <2>3, <2>4
<1>7. ASSUME NEW w \in Workspaces, reconcileFileConflicts(w) \/ DiesBeforeNotify(w) PROVE Written(w)
  <2> DEFINE C == Conflict(w)
             r == [board[w] EXCEPT !.cond = C]
  <2>1. board' = [board EXCEPT ![w] = r] /\ pass.who = w
    BY <1>0, <1>7 DEF reconcileFileConflicts, DiesBeforeNotify, At
  <2>2. C \in Details
    BY <2>1, ConflictType
  <2>3. C = Conflict(w)
    OBVIOUS
  <2> HIDE DEF C
  <2>4. r \in WorkspaceRecord
    BY <1>0, <2>2, RecordTypes
  <2>5. r.active = board[w].active /\ r.files = board[w].files /\ r.cond = C
    BY <1>0 DEF WorkspaceRecord
  <2> HIDE DEF r, Written
  <2> QED
    BY <1>1, <1>7, <2>1, <2>3, <2>4, <2>5
<1>8. ASSUME NEW w \in Workspaces, syncBlackboard(w) PROVE Written(w)
  <2>1. PICK F \in ChangedFiles(w) : board' = [board EXCEPT ![w].node = NodeCondition(w), ![w].files = F]
    BY <1>8 DEF syncBlackboard
  <2>2. F \in SUBSET Files /\ F # None
    BY AnswerType
  <2> DEFINE n == NodeCondition(w)
             r == [board[w] EXCEPT !.node = n, !.files = F]
  <2>3. n \in {"unknown", "up", "down"}
    BY <1>5
  <2>4. board' = [board EXCEPT ![w] = r]
    BY <1>0, <2>1
  <2> HIDE DEF n
  <2>5. r \in WorkspaceRecord
    BY <1>0, <2>2, <2>3, RecordTypes DEF Details
  <2>6. r.files = F /\ r.cond = board[w].cond
    BY <1>0 DEF WorkspaceRecord
  <2> HIDE DEF r
  <2>7. Writes(w, r)
    BY <2>2, <2>4, <2>5, <2>6 DEF Writes
  <2> QED
    BY <2>5, <2>7
<1>9. ASSUME NEW w \in Workspaces, markReady(w) PROVE Written(w)
  <2> DEFINE r == [board[w] EXCEPT !.life = "live", !.ready = TRUE, !.active = TRUE, !.files = {}]
  <2>1. board' = [board EXCEPT ![w] = r]
    BY <1>0, <1>9 DEF markReady
  <2>2. r \in WorkspaceRecord
    BY <1>0, RecordTypes DEF Details
  <2>3. r.files = {} /\ r.cond = board[w].cond
    BY <1>0 DEF WorkspaceRecord
  <2>4. {} # None
    BY BlackboardAssumption
  <2> HIDE DEF r
  <2>5. Writes(w, r)
    BY <2>1, <2>2, <2>3, <2>4 DEF Writes
  <2> QED
    BY <2>2, <2>5
<1>10. ASSUME NEW w \in Workspaces, PodDown(w) \/ PodUp(w) \/ reconcileClaudeMD(w) \/ \E f \in Files : Edit(w, f)
       PROVE  UNCHANGED board
  BY <1>10 DEF PodDown, PodUp, reconcileClaudeMD, Edit
<1>11. ASSUME NodeLost \/ NodeBack \/ Sync \/ PassFails \/ UNCHANGED vars PROVE UNCHANGED board
  BY <1>11 DEF NodeLost, NodeBack, Sync, PassFails, vars
<1> HIDE DEF Written
<1>12. UNCHANGED board \/ \E w \in Workspaces : Written(w)
  BY <1>2, <1>3, <1>4, <1>6, <1>7, <1>8, <1>9, <1>10, <1>11 DEF Next, PassStep
<1> QED
  BY <1>12 DEF Written

\* A pass goes on, begins with an entry, or ends.
LEMMA PassStepType ==
  ASSUME TypeOK, [Next]_vars
  PROVE  /\ pass' \in [who : Workspaces \cup {None}, at : {"none", "render", "conflicts"}]
         /\ \/ pass'.who = pass.who \/ pass'.who = None
            \/ \E w \in Workspaces : syncBlackboard(w) /\ pass'.who = w
<1> DEFINE P == [who : Workspaces \cup {None}, at : {"none", "render", "conflicts"}]
           Moves == /\ pass' \in P
                    /\ \/ pass'.who = pass.who \/ pass'.who = None
                       \/ \E w \in Workspaces : syncBlackboard(w) /\ pass'.who = w
<1>0. pass \in P /\ NoPass \in P /\ NoPass.who = None
  BY DEF TypeOK, NoPass
<1>1. ASSUME UNCHANGED pass \/ pass' = NoPass PROVE Moves
  BY <1>0, <1>1
<1>2. ASSUME NEW w \in Workspaces, syncBlackboard(w) PROVE Moves
  BY <1>2 DEF syncBlackboard, Goto
<1>3. ASSUME NEW w \in Workspaces, reconcileClaudeMD(w) PROVE Moves
  BY <1>3 DEF reconcileClaudeMD, At, Goto
<1>4. ASSUME NEW w \in Workspaces,
             \/ PodDown(w) \/ PodUp(w) \/ Suspend(w) \/ Resume(w) \/ Delete(w) \/ markReady(w)
             \/ deactivateBlackboard(w) \/ reconcileFileConflicts(w) \/ DiesAfterNode(w)
             \/ DiesBeforeNotify(w) \/ \E f \in Files : Edit(w, f)
      PROVE  UNCHANGED pass \/ pass' = NoPass
  BY <1>4 DEF PodDown, PodUp, Suspend, Resume, Delete, Interrupted, markReady, deactivateBlackboard,
              reconcileFileConflicts, DiesAfterNode, DiesBeforeNotify, Edit
<1>5. ASSUME NodeLost \/ NodeBack \/ Sync \/ PassFails \/ UNCHANGED vars
      PROVE  UNCHANGED pass \/ pass' = NoPass
  BY <1>5 DEF NodeLost, NodeBack, Sync, PassFails, vars
<1> HIDE DEF Moves
<1>6. Moves
  BY <1>1, <1>2, <1>3, <1>4, <1>5 DEF Next, PassStep
<1> QED
  BY <1>6 DEF Moves

LEMMA ListedStep ==
  ASSUME TypeOK, PassListed, [Next]_vars
  PROVE  PassListed'
<1> SUFFICES ASSUME NEW w \in Workspaces, pass'.who = w PROVE board'[w].files # None
  BY DEF PassListed
<1>1. CASE pass.who = w
  <2>1. board[w].files # None
    BY <1>1 DEF PassListed
  <2>2. ASSUME NEW v \in Workspaces, NEW r \in WorkspaceRecord, Writes(v, r) PROVE board'[w].files # None
    BY <2>1, <2>2 DEF Writes, TypeOK
  <2> QED
    BY <2>1, <2>2, BoardStep
<1>2. CASE syncBlackboard(w)
  <2>1. PICK F \in ChangedFiles(w) : board' = [board EXCEPT ![w].node = NodeCondition(w), ![w].files = F]
    BY <1>2 DEF syncBlackboard
  <2>2. board'[w].files = F
    BY <2>1 DEF TypeOK, WorkspaceRecord
  <2> QED
    BY <2>2, AnswerType
<1>3. w # None
  BY BlackboardAssumption
<1> QED
  BY <1>1, <1>2, <1>3, PassStepType

\* Conditions are truth values.
LEMMA Booleans ==
  \A p, q : (p /\ q) \in BOOLEAN
BY Zenon

\* The cache, the documents, the working directories and the bounds.
LEMMA RestStep ==
  ASSUME TypeOK, PassListed, [Next]_vars
  PROVE  /\ seen' \in [Workspaces -> WorkspaceRecord]
         /\ doc' \in [Workspaces -> {None} \cup Documents]
         /\ edits' \in [Workspaces -> SUBSET Files]
         /\ changes' \in 0 .. MaxChanges /\ deaths' \in 0 .. MaxDeaths
<1> DEFINE Named == \E w \in Workspaces :
                      \/ \E f \in Files : Edit(w, f)
                      \/ PodDown(w) \/ PodUp(w) \/ Suspend(w) \/ Resume(w) \/ Delete(w)
                      \/ markReady(w) \/ deactivateBlackboard(w) \/ PassStep(w)
                      \/ DiesAfterNode(w) \/ DiesBeforeNotify(w)
           Other == NodeLost \/ NodeBack \/ Sync \/ PassFails \/ UNCHANGED vars
<1>0. Named \/ Other
  BY DEF Next
<1>1. seen' \in [Workspaces -> WorkspaceRecord]
  <2>1. UNCHANGED seen \/ seen' = board
    <3>1. CASE Named
      BY <3>1 DEF Edit, PodDown, PodUp, Suspend, Resume, Delete, markReady, deactivateBlackboard, PassStep,
                  syncBlackboard, reconcileClaudeMD, reconcileFileConflicts, DiesAfterNode, DiesBeforeNotify
    <3>2. CASE Other
      BY <3>2 DEF NodeLost, NodeBack, Sync, PassFails, vars
    <3> QED
      BY <1>0, <3>1, <3>2
  <2> QED
    BY <2>1 DEF TypeOK
<1>2. doc' \in [Workspaces -> {None} \cup Documents]
  <2>1. UNCHANGED doc \/ \E w \in Workspaces : doc' = [doc EXCEPT ![w] = ActiveBlackboardEntries(seen)]
    <3>1. CASE Named
      BY <3>1 DEF Edit, PodDown, PodUp, Suspend, Resume, Delete, markReady, deactivateBlackboard, PassStep,
                  syncBlackboard, reconcileClaudeMD, reconcileFileConflicts, DiesAfterNode, DiesBeforeNotify
    <3>2. CASE Other
      BY <3>2 DEF NodeLost, NodeBack, Sync, PassFails, vars
    <3> QED
      BY <1>0, <3>1, <3>2
  <2>2. ActiveBlackboardEntries(seen) \in Documents
    BY EntriesType DEF TypeOK
  <2> QED
    BY <2>1, <2>2 DEF TypeOK
<1>3. edits' \in [Workspaces -> SUBSET Files]
  <2>1. ASSUME NEW w \in Workspaces, NEW f \in Files, Edit(w, f)
        PROVE  edits' \in [Workspaces -> SUBSET Files]
    BY <2>1 DEF Edit, TypeOK
  <2>2. (\E w \in Workspaces, f \in Files : Edit(w, f)) \/ UNCHANGED edits
    <3>1. CASE Named
      BY <3>1 DEF PodDown, PodUp, Suspend, Resume, Delete, markReady, deactivateBlackboard, PassStep,
                  syncBlackboard, reconcileClaudeMD, reconcileFileConflicts, DiesAfterNode, DiesBeforeNotify
    <3>2. CASE Other
      BY <3>2 DEF NodeLost, NodeBack, Sync, PassFails, vars
    <3> QED
      BY <1>0, <3>1, <3>2
  <2> QED
    BY <2>1, <2>2 DEF TypeOK
<1>4. changes' \in 0 .. MaxChanges /\ deaths' \in 0 .. MaxDeaths
  <2>1. /\ UNCHANGED changes \/ Change
        /\ UNCHANGED deaths \/ (deaths < MaxDeaths /\ deaths' = deaths + 1)
    <3>1. CASE Named
      BY <3>1 DEF Edit, PodDown, PodUp, Suspend, Resume, Delete, markReady, deactivateBlackboard, PassStep,
                  syncBlackboard, reconcileClaudeMD, reconcileFileConflicts, DiesAfterNode, DiesBeforeNotify
    <3>2. CASE Other
      BY <3>2 DEF NodeLost, NodeBack, Sync, PassFails, vars
    <3> QED
      BY <1>0, <3>1, <3>2
  <2> QED
    BY <2>1, BlackboardAssumption DEF TypeOK, Change
<1> QED
  BY <1>1, <1>2, <1>3, <1>4

\* Pods and the node.
LEMMA UpStep ==
  ASSUME TypeOK, [Next]_vars
  PROVE  up' \in [Workspaces -> BOOLEAN] /\ nodeUp' \in BOOLEAN
<1> DEFINE Ok == up' \in [Workspaces -> BOOLEAN] /\ nodeUp' \in BOOLEAN
<1>0. up \in [Workspaces -> BOOLEAN] /\ nodeUp \in BOOLEAN
  BY DEF TypeOK
<1>1. ASSUME NEW w \in Workspaces, NEW b \in BOOLEAN, up' = [up EXCEPT ![w] = b], UNCHANGED nodeUp
      PROVE  Ok
  BY <1>0, <1>1
<1>2. ASSUME UNCHANGED <<up, nodeUp>> PROVE Ok
  BY <1>0, <1>2
<1>3. ASSUME NodeLost PROVE Ok
  <2>1. nodeUp' = FALSE /\ up' = [w \in Workspaces |-> FALSE]
    BY <1>3 DEF NodeLost
  <2>2. nodeUp' \in BOOLEAN
    BY <2>1, Zenon
  <2>3. up' \in [Workspaces -> BOOLEAN]
    BY <2>1
  <2> QED
    BY <2>2, <2>3
<1>4. ASSUME NodeBack PROVE Ok
  <2>1. nodeUp' = TRUE /\ UNCHANGED up
    BY <1>4 DEF NodeBack
  <2>2. nodeUp' \in BOOLEAN
    BY <2>1, Zenon
  <2> QED
    BY <1>0, <2>1, <2>2
<1>5. ASSUME NEW w \in Workspaces,
             PodDown(w) \/ PodUp(w) \/ Suspend(w) \/ Resume(w) \/ markReady(w)
      PROVE  \E b \in BOOLEAN : up' = [up EXCEPT ![w] = b] /\ UNCHANGED nodeUp
  BY <1>5 DEF PodDown, PodUp, Suspend, Resume, markReady
<1>6. ASSUME NEW w \in Workspaces,
             \/ Delete(w) \/ deactivateBlackboard(w) \/ PassStep(w) \/ DiesAfterNode(w) \/ DiesBeforeNotify(w)
             \/ \E f \in Files : Edit(w, f)
      PROVE  UNCHANGED <<up, nodeUp>>
  BY <1>6 DEF Delete, deactivateBlackboard, PassStep, syncBlackboard, reconcileClaudeMD,
              reconcileFileConflicts, DiesAfterNode, DiesBeforeNotify, Edit
<1>7. ASSUME Sync \/ PassFails \/ UNCHANGED vars PROVE UNCHANGED <<up, nodeUp>>
  BY <1>7 DEF Sync, PassFails, vars
<1> HIDE DEF Ok
<1>8. Ok
  BY <1>1, <1>2, <1>3, <1>4, <1>5, <1>6, <1>7 DEF Next
<1> QED
  BY <1>8 DEF Ok

\* The warnings told, and those lost, change only where conflicts are looked
\* for.
LEMMA ToldStep ==
  ASSUME [Next]_vars
  PROVE  \/ UNCHANGED <<told, died>>
         \/ \E w \in Workspaces : reconcileFileConflicts(w) \/ DiesBeforeNotify(w)
<1>1. ASSUME NEW w \in Workspaces,
             \/ PodDown(w) \/ PodUp(w) \/ Suspend(w) \/ Resume(w) \/ Delete(w) \/ markReady(w)
             \/ deactivateBlackboard(w) \/ syncBlackboard(w) \/ reconcileClaudeMD(w) \/ DiesAfterNode(w)
             \/ \E f \in Files : Edit(w, f)
      PROVE  UNCHANGED <<told, died>>
  BY <1>1 DEF PodDown, PodUp, Suspend, Resume, Delete, markReady, deactivateBlackboard, syncBlackboard,
              reconcileClaudeMD, DiesAfterNode, Edit
<1>2. ASSUME NodeLost \/ NodeBack \/ Sync \/ PassFails \/ UNCHANGED vars PROVE UNCHANGED <<told, died>>
  BY <1>2 DEF NodeLost, NodeBack, Sync, PassFails, vars
<1> QED
  BY <1>1, <1>2 DEF Next, PassStep

LEMMA HistoryTypes ==
  ASSUME TypeOK, PassListed, [Next]_vars
  PROVE  told' \in [Workspaces -> Details] /\ died' \in [Workspaces -> BOOLEAN]
<1>0. told \in [Workspaces -> Details] /\ died \in [Workspaces -> BOOLEAN]
  BY DEF TypeOK
<1>1. CASE UNCHANGED <<told, died>>
  BY <1>0, <1>1
<1>2. ASSUME NEW w \in Workspaces, reconcileFileConflicts(w) \/ DiesBeforeNotify(w)
      PROVE  told' \in [Workspaces -> Details] /\ died' \in [Workspaces -> BOOLEAN]
  <2> DEFINE C == Conflict(w)
             same == died[w] /\ C = board[w].cond
  <2>1. pass.who = w
    BY <1>2 DEF reconcileFileConflicts, DiesBeforeNotify, At
  <2>2. C \in Details
    BY <2>1, ConflictType
  <2>3. UNCHANGED told \/ told' = [told EXCEPT ![w] = IF C = board[w].cond THEN told[w] ELSE C]
    BY <1>0, <1>2 DEF reconcileFileConflicts, DiesBeforeNotify
  <2>4. died' = [died EXCEPT ![w] = TRUE] \/ died' = [died EXCEPT ![w] = same]
    BY <1>0, <1>2 DEF reconcileFileConflicts, DiesBeforeNotify
  <2>5. same \in BOOLEAN
    BY Booleans, Zenon
  <2> HIDE DEF C, same
  <2>6. told' \in [Workspaces -> Details]
    BY <1>0, <2>2, <2>3
  <2>7. died' \in [Workspaces -> BOOLEAN]
    BY <1>0, <2>4, <2>5
  <2> QED
    BY <2>6, <2>7
<1> QED
  BY <1>1, <1>2, ToldStep

LEMMA TypeStep ==
  ASSUME TypeOK, PassListed, [Next]_vars
  PROVE  TypeOK'
<1>1. /\ board' \in [Workspaces -> WorkspaceRecord]
      /\ \A v \in Workspaces : board'[v].active => board'[v].files # None
  <2>1. CASE UNCHANGED board
    BY <2>1 DEF TypeOK
  <2>2. ASSUME NEW w \in Workspaces, NEW r \in WorkspaceRecord, Writes(w, r)
        PROVE  /\ board' \in [Workspaces -> WorkspaceRecord]
               /\ \A v \in Workspaces : board'[v].active => board'[v].files # None
    BY <2>2, Edits DEF Writes
  <2> QED
    BY <2>1, <2>2, BoardStep
<1> QED
  BY <1>1, PassStepType, RestStep, UpStep, HistoryTypes DEF TypeOK

-----------------------------------------------------------------------------
(* What is told *)

\* The history follows the condition, but for the warnings a death loses.
LEMMA RecordedStep ==
  ASSUME TypeOK, PassListed, ToldRecorded, [Next]_vars
  PROVE  ToldRecorded'
<1>0. /\ board \in [Workspaces -> WorkspaceRecord]
      /\ told \in [Workspaces -> Details] /\ died \in [Workspaces -> BOOLEAN]
  BY DEF TypeOK
<1>1. ASSUME NEW w \in Workspaces, reconcileFileConflicts(w) PROVE ToldRecorded'
  <2> DEFINE C == Conflict(w)
             same == C = board[w].cond
  <2>1. /\ board'[w].cond = C
        /\ \A v \in Workspaces \ {w} : board'[v] = board[v]
    BY <1>0, <1>1 DEF reconcileFileConflicts, WorkspaceRecord
  <2>2. /\ told'[w] = IF same THEN told[w] ELSE C
        /\ \A v \in Workspaces \ {w} : told'[v] = told[v]
    BY <1>0, <1>1 DEF reconcileFileConflicts
  <2>3. /\ died'[w] <=> died[w] /\ same
        /\ \A v \in Workspaces \ {w} : died'[v] = died[v]
    BY <1>0, <1>1 DEF reconcileFileConflicts
  <2>4. same => C = board[w].cond
    OBVIOUS
  <2> HIDE DEF C, same
  <2> QED
    BY <2>1, <2>2, <2>3, <2>4 DEF ToldRecorded
<1>2. ASSUME NEW w \in Workspaces, DiesBeforeNotify(w) PROVE ToldRecorded'
  <2>1. /\ \A v \in Workspaces \ {w} : board'[v] = board[v] /\ died'[v] = died[v]
        /\ UNCHANGED told
    BY <1>0, <1>2 DEF DiesBeforeNotify
  <2>2. died'[w]
    BY <1>0, <1>2 DEF DiesBeforeNotify
  <2> QED
    BY <2>1, <2>2 DEF ToldRecorded
<1>3. CASE \A w \in Workspaces : ~reconcileFileConflicts(w) /\ ~DiesBeforeNotify(w)
  <2>1. UNCHANGED <<told, died>>
    BY <1>3, ToldStep
  <2>2. ASSUME NEW w \in Workspaces, NEW r \in WorkspaceRecord, Writes(w, r)
        PROVE  \A v \in Workspaces : board'[v].cond = board[v].cond
    BY <1>0, <1>3, <2>2 DEF Writes
  <2>3. \A v \in Workspaces : board'[v].cond = board[v].cond
    BY <2>2, BoardStep
  <2> QED
    BY <2>1, <2>3 DEF ToldRecorded
<1> QED
  BY <1>1, <1>2, <1>3

LEMMA Initially ==
  ASSUME Init
  PROVE  TypeOK /\ PassListed /\ ToldRecorded
<1>1. /\ Unborn.life = "unborn" /\ Unborn.files = None /\ Unborn.cond = {} /\ Unborn.node = "unknown"
      /\ Unborn.active = FALSE /\ Unborn.ready = FALSE
  BY Zenon DEF Unborn
<1>2. Unborn \in WorkspaceRecord
  BY DEF Unborn, WorkspaceRecord, Details
<1>3. \A w \in Workspaces : board[w] = Unborn
  BY DEF Init
<1>4. board \in [Workspaces -> WorkspaceRecord] /\ seen \in [Workspaces -> WorkspaceRecord]
  BY <1>2 DEF Init
<1>5. \A w \in Workspaces : board[w].active => board[w].files # None
  BY <1>1, <1>3
<1>6. /\ doc \in [Workspaces -> {None} \cup Documents]
      /\ edits \in [Workspaces -> SUBSET Files]
      /\ up \in [Workspaces -> BOOLEAN] /\ died \in [Workspaces -> BOOLEAN]
      /\ told \in [Workspaces -> Details]
  BY DEF Init, Details
<1>7. nodeUp \in BOOLEAN
  BY Zenon DEF Init
<1>8. /\ pass \in [who : Workspaces \cup {None}, at : {"none", "render", "conflicts"}]
      /\ changes \in 0 .. MaxChanges /\ deaths \in 0 .. MaxDeaths
  BY BlackboardAssumption DEF Init, NoPass
<1>9. PassListed
  BY BlackboardAssumption DEF Init, NoPass, PassListed
<1>10. ToldRecorded
  BY <1>1, <1>3 DEF Init, ToldRecorded
<1> QED
  BY <1>4, <1>5, <1>6, <1>7, <1>8, <1>9, <1>10 DEF TypeOK

\* The inductive invariant: what reconcileFileConflicts relies on when it
\* compares a conflict with the condition on the object only.
THEOREM Invariance == Spec => [](TypeOK /\ PassListed /\ ToldRecorded)
<1> DEFINE I == TypeOK /\ PassListed /\ ToldRecorded
<1>1. Init => I
  BY Initially
<1>2. I /\ [Next]_vars => I'
  BY TypeStep, ListedStep, RecordedStep
<1> QED
  BY <1>1, <1>2, PTL DEF Spec

\* Every state of the board has its type; in particular a document lists only
\* files, and an entry that is worked on exists.
THEOREM TypeCorrect == Spec => []TypeOK
BY Invariance, PTL

\* No branch is told of one conflict twice in a row, for any number of
\* branches, files, changes and deaths, and however far the cache trails: the
\* condition on the object is what was told last, so a pass that finds another
\* conflict there has not told it.
THEOREM ToldOnce == Spec => RepeatsNothing
<1> DEFINE Quiet == \A w \in Workspaces :
                      reconcileFileConflicts(w) /\ Conflict(w) \notin {{}, board[w].cond} /\ ~died[w]
                        => Conflict(w) # told[w]
<1>1. TypeOK /\ PassListed /\ ToldRecorded => Quiet
  BY DEF ToldRecorded
<1> HIDE DEF Quiet
<1>2. TypeOK /\ PassListed /\ ToldRecorded => [Quiet]_vars
  BY <1>1
<1>3. Spec => [][Quiet]_vars
  BY <1>2, Invariance, PTL
<1> QED
  BY <1>3 DEF RepeatsNothing, Quiet
=============================================================================
