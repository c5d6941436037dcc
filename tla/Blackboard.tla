----------------------------- MODULE Blackboard -----------------------------
(***************************************************************************)
(* What the branches tell each other: the entry each Workspace keeps of    *)
(* the files it is changing, the document rendered for every session from  *)
(* all of them, the warning when two branches change one file, and the     *)
(* warning when the node is gone (controller/internal/controller/          *)
(* blackboard.go, claudemd.go, conflict.go, checkNodeAvailable and the     *)
(* first half of reconcileReady in lifecycle.go).                          *)
(*                                                                         *)
(* A pass over a Ready Workspace checks the node, refreshes its own entry, *)
(* renders its own document and looks for conflicts, each with a write of  *)
(* its own, and may die between any two calls.  The entries of the others  *)
(* are read from the informer's cache: all of them as they were at some    *)
(* time since, the Workspace's own included, although the pass has just    *)
(* written it.  A pass over a copy of its own object that trails fails at  *)
(* its first update and is left out.                                       *)
(*                                                                         *)
(* Branches are told apart by the Workspace; summary and interfaces are    *)
(* copied like the file list and left out, and a document stands for the   *)
(* set of entries in it, which it lists in branch order.                   *)
(***************************************************************************)
EXTENDS Naturals, FiniteSets

CONSTANTS
  Workspaces,   \* Workspace objects, one branch each
  Files,        \* paths in the repository
  None,         \* no entry, no document, no pass
  MaxChanges,   \* bound: edits and lifecycle changes
  MaxDeaths     \* bound: passes that die after an update

ASSUME BlackboardAssumption ==
  /\ None \notin Workspaces
  /\ \A F \in SUBSET Files : F # None
  /\ MaxChanges \in Nat /\ MaxDeaths \in Nat

VARIABLES
  board,     \* the Workspace objects
  seen,      \* the same, as the informer's cache has them
  doc,       \* the document in each Workspace's ConfigMap
  edits,     \* the files each working directory differs in from HEAD
  up,        \* whether its Pod is running
  nodeUp,    \* whether the node is Ready
  pass,      \* the pass under way, and the call it makes next
  told,      \* history: the conflict told last, since there was none
  died,      \* history: a warning was recorded and its pass died
  changes, deaths

vars == <<board, seen, doc, edits, up, nodeUp, pass, told, died, changes, deaths>>

\* What a conflict's message says: each contested file with its branches.
Details == SUBSET (Files \X SUBSET Workspaces)
Documents == SUBSET (Workspaces \X SUBSET Files)

WorkspaceRecord ==
  [life   : {"unborn", "live", "deleting"},
   ready  : BOOLEAN,                      \* phase Ready, else Suspended
   files  : {None} \cup SUBSET Files,     \* status.blackboard.changedFiles
   active : BOOLEAN,                      \* status.blackboard.active
   cond   : Details,                      \* FileConflict, {} when not True
   node   : {"unknown", "up", "down"}]    \* NodeAvailable

NoPass == [who |-> None, at |-> "none"]

Unborn ==
  [life |-> "unborn", ready |-> FALSE, files |-> None, active |-> FALSE,
   cond |-> {}, node |-> "unknown"]

TypeOK ==
  /\ board \in [Workspaces -> WorkspaceRecord]
  /\ \A w \in Workspaces : board[w].active => board[w].files # None
  /\ seen \in [Workspaces -> WorkspaceRecord]
  /\ doc \in [Workspaces -> {None} \cup Documents]
  /\ edits \in [Workspaces -> SUBSET Files]
  /\ up \in [Workspaces -> BOOLEAN]
  /\ nodeUp \in BOOLEAN
  /\ pass \in [who : Workspaces \cup {None}, at : {"none", "render", "conflicts"}]
  /\ told \in [Workspaces -> Details]
  /\ died \in [Workspaces -> BOOLEAN]
  /\ changes \in 0 .. MaxChanges /\ deaths \in 0 .. MaxDeaths

Init ==
  /\ board = [w \in Workspaces |-> Unborn]
  /\ seen = board
  /\ doc = [w \in Workspaces |-> None]
  /\ edits = [w \in Workspaces |-> {}]
  /\ up = [w \in Workspaces |-> FALSE]
  /\ nodeUp = TRUE
  /\ pass = NoPass
  /\ told = [w \in Workspaces |-> {}]
  /\ died = [w \in Workspaces |-> FALSE]
  /\ changes = 0 /\ deaths = 0

-----------------------------------------------------------------------------
(* Reads *)

\* The entries still worked on, in a list of Workspaces.
ActiveBlackboardEntries(list) ==
  {<<v, list[v].files>> : v \in {u \in Workspaces :
     list[u].files # None /\ list[u].active /\ list[u].life # "deleting"}}

\* The branches that change f: own, and the others by their entries.
Changing(f, w, own, entries) ==
  (IF f \in own THEN {w} ELSE {}) \cup {e[1] : e \in {x \in entries : x[1] # w /\ f \in x[2]}}

\* The files of own that somebody else's entry has too.
fileConflictDetail(entries, w, own) ==
  {<<f, Changing(f, w, own, entries)>> :
     f \in {g \in own : Cardinality(Changing(g, w, own, entries)) > 1}}

\* What ChangedFiles may answer, the recorded list where it fails.
ChangedFiles(w) == IF up[w] THEN {edits[w], board[w].files} \ {None} ELSE {{}}

-----------------------------------------------------------------------------
(* Agents, users and the cluster *)

Change == changes < MaxChanges /\ changes' = changes + 1

\* The object of w is written by somebody else: its pass will conflict.
Interrupted(w) == IF pass.who = w THEN NoPass ELSE pass

\* A file is changed, or its change committed or undone.
Edit(w, f) ==
  /\ Change /\ up[w]
  /\ edits' = [edits EXCEPT ![w] = IF f \in @ THEN @ \ {f} ELSE @ \cup {f}]
  /\ UNCHANGED <<board, seen, doc, up, nodeUp, pass, told, died, deaths>>

\* The Pod crashes, and is started again.
PodDown(w) ==
  /\ Change /\ up[w]
  /\ up' = [up EXCEPT ![w] = FALSE]
  /\ UNCHANGED <<board, seen, doc, edits, nodeUp, pass, told, died, deaths>>

PodUp(w) ==
  /\ nodeUp /\ ~up[w]
  /\ board[w].life = "live" /\ board[w].ready
  /\ up' = [up EXCEPT ![w] = TRUE]
  /\ UNCHANGED <<board, seen, doc, edits, nodeUp, pass, told, died, changes, deaths>>

NodeLost ==
  /\ Change /\ nodeUp
  /\ nodeUp' = FALSE
  /\ up' = [w \in Workspaces |-> FALSE]
  /\ UNCHANGED <<board, seen, doc, edits, pass, told, died, deaths>>

NodeBack ==
  /\ ~nodeUp
  /\ nodeUp' = TRUE
  /\ UNCHANGED <<board, seen, doc, edits, up, pass, told, died, changes, deaths>>

\* The later half of reconcileReady, and reconcileResume: the entry stays.
Suspend(w) ==
  /\ Change /\ pass = NoPass
  /\ board[w].life = "live" /\ board[w].ready
  /\ board' = [board EXCEPT ![w].ready = FALSE]
  /\ up' = [up EXCEPT ![w] = FALSE]
  /\ UNCHANGED <<seen, doc, edits, nodeUp, pass, told, died, deaths>>

Resume(w) ==
  /\ Change /\ pass = NoPass /\ nodeUp
  /\ board[w].life = "live" /\ ~board[w].ready
  /\ board' = [board EXCEPT ![w].ready = TRUE]
  /\ up' = [up EXCEPT ![w] = TRUE]
  /\ UNCHANGED <<seen, doc, edits, nodeUp, pass, told, died, deaths>>

Delete(w) ==
  /\ Change /\ board[w].life = "live"
  /\ board' = [board EXCEPT ![w].life = "deleting"]
  /\ pass' = Interrupted(w)
  /\ UNCHANGED <<seen, doc, edits, up, nodeUp, told, died, deaths>>

\* The watch delivers.
Sync ==
  /\ seen' = board
  /\ UNCHANGED <<board, doc, edits, up, nodeUp, pass, told, died, changes, deaths>>

-----------------------------------------------------------------------------
(* Passes *)

Begin(w) == pass = NoPass /\ seen[w] = board[w]
At(w, call) == pass = [who |-> w, at |-> call]
Goto(w, call) == pass' = [who |-> w, at |-> call]

\* The entry is registered by the update that publishes Ready; a Pod that
\* does not answer leaves it empty.
markReady(w) ==
  /\ Begin(w) /\ nodeUp
  /\ board[w].life = "unborn"
  /\ board' = [board EXCEPT ![w].life = "live", ![w].ready = TRUE,
                            ![w].active = TRUE, ![w].files = {}]
  /\ up' = [up EXCEPT ![w] = TRUE]
  /\ doc' = [doc EXCEPT ![w] = ActiveBlackboardEntries(seen)]
  /\ UNCHANGED <<seen, edits, nodeUp, pass, told, died, changes, deaths>>

\* reconcileTerminating begins by taking the branch off the board.
deactivateBlackboard(w) ==
  /\ Begin(w)
  /\ board[w].life = "deleting" /\ board[w].active
  /\ board' = [board EXCEPT ![w].active = FALSE]
  /\ UNCHANGED <<seen, doc, edits, up, nodeUp, pass, told, died, changes, deaths>>

\* NodeAvailable after a check: unknown until the node was gone once.
NodeCondition(w) ==
  IF ~nodeUp THEN "down" ELSE IF board[w].node = "unknown" THEN "unknown" ELSE "up"

ReadyPass(w) == Begin(w) /\ board[w].life = "live" /\ board[w].ready

\* checkNodeAvailable, and the process dies after its update.
DiesAfterNode(w) ==
  /\ ReadyPass(w) /\ deaths < MaxDeaths
  /\ NodeCondition(w) # board[w].node
  /\ board' = [board EXCEPT ![w].node = NodeCondition(w)]
  /\ deaths' = deaths + 1
  /\ UNCHANGED <<seen, doc, edits, up, nodeUp, pass, told, died, changes>>

\* checkNodeAvailable, then syncBlackboard, each with its update.
syncBlackboard(w) ==
  /\ ReadyPass(w)
  /\ \E files \in ChangedFiles(w) :
       board' = [board EXCEPT ![w].node = NodeCondition(w), ![w].files = files]
  /\ Goto(w, "render")
  /\ UNCHANGED <<seen, doc, edits, up, nodeUp, told, died, changes, deaths>>

\* Mutant of reconcileClaudeMD: written only where there is none yet.
RenderedOnce(w) ==
  /\ At(w, "render")
  /\ doc' = [doc EXCEPT ![w] = IF @ = None THEN ActiveBlackboardEntries(seen) ELSE @]
  /\ Goto(w, "conflicts")
  /\ UNCHANGED <<board, seen, edits, up, nodeUp, told, died, changes, deaths>>

\* Rendered from the cached list, its own entry as the cache has it.
reconcileClaudeMD(w) ==
  /\ At(w, "render")
  /\ doc' = [doc EXCEPT ![w] = ActiveBlackboardEntries(seen)]
  /\ Goto(w, "conflicts")
  /\ UNCHANGED <<board, seen, edits, up, nodeUp, told, died, changes, deaths>>

Conflict(w) == fileConflictDetail(ActiveBlackboardEntries(seen), w, board[w].files)

\* The condition is recorded, then the branch is warned.
reconcileFileConflicts(w) ==
  /\ At(w, "conflicts")
  /\ board' = [board EXCEPT ![w].cond = Conflict(w)]
  /\ told' = [told EXCEPT ![w] = IF Conflict(w) = board[w].cond THEN @ ELSE Conflict(w)]
  /\ died' = [died EXCEPT ![w] = @ /\ Conflict(w) = board[w].cond]
  /\ pass' = NoPass
  /\ UNCHANGED <<seen, doc, edits, up, nodeUp, changes, deaths>>

\* Mutant of DiesBeforeNotify: the warning goes out before it is recorded.
DiesBeforeUpdate(w) ==
  /\ At(w, "conflicts") /\ deaths < MaxDeaths
  /\ Conflict(w) \notin {{}, board[w].cond}
  /\ told' = [told EXCEPT ![w] = Conflict(w)]
  /\ deaths' = deaths + 1
  /\ pass' = NoPass
  /\ UNCHANGED <<board, seen, doc, edits, up, nodeUp, died, changes>>

\* The process dies in between: recorded, and never sent.
DiesBeforeNotify(w) ==
  /\ At(w, "conflicts") /\ deaths < MaxDeaths
  /\ Conflict(w) \notin {{}, board[w].cond}
  /\ board' = [board EXCEPT ![w].cond = Conflict(w)]
  /\ died' = [died EXCEPT ![w] = TRUE]
  /\ deaths' = deaths + 1
  /\ pass' = NoPass
  /\ UNCHANGED <<seen, doc, edits, up, nodeUp, told, changes>>

\* A call fails, or the process dies, with nothing half done.
PassFails ==
  /\ pass # NoPass /\ deaths < MaxDeaths
  /\ deaths' = deaths + 1
  /\ pass' = NoPass
  /\ UNCHANGED <<board, seen, doc, edits, up, nodeUp, told, died, changes>>

-----------------------------------------------------------------------------
(* Specification *)

PassStep(w) ==
  syncBlackboard(w) \/ reconcileClaudeMD(w) \/ reconcileFileConflicts(w)

Next ==
  \/ \E w \in Workspaces :
       \/ \E f \in Files : Edit(w, f)
       \/ PodDown(w) \/ PodUp(w) \/ Suspend(w) \/ Resume(w) \/ Delete(w)
       \/ markReady(w) \/ deactivateBlackboard(w) \/ PassStep(w)
       \/ DiesAfterNode(w) \/ DiesBeforeNotify(w)
  \/ NodeLost \/ NodeBack \/ Sync \/ PassFails

Spec == Init /\ [][Next]_vars

\* A Supervisor asked again and again answers once with the list it has now.
ReadsNow(w) == syncBlackboard(w) /\ board'[w].files = IF up[w] THEN edits[w] ELSE {}

\* Every Ready Workspace is looked at again each idleCheckInterval, the watch
\* delivers, and Pods start again.
Fairness ==
  /\ WF_vars(Sync)
  /\ \A w \in Workspaces :
       /\ WF_vars(PodUp(w)) /\ WF_vars(deactivateBlackboard(w))
       /\ SF_vars(ReadsNow(w))
       /\ WF_vars(reconcileClaudeMD(w)) /\ WF_vars(reconcileFileConflicts(w))

FairSpec == Spec /\ Fairness

-----------------------------------------------------------------------------
(* Properties *)

\* A conflict is announced once per distinct conflict: a branch is never told
\* what it was told last, unless the overlap was seen to end in between, or
\* the warning of another conflict in between was recorded by a pass that
\* died before it could send it.
RepeatsNothing ==
  [][\A w \in Workspaces :
       reconcileFileConflicts(w) /\ Conflict(w) \notin {{}, board[w].cond} /\ ~died[w]
         => Conflict(w) # told[w]]_vars

\* What a Ready Workspace shows is what is so: its entry is what its session
\* changes, its document is the one all of them share, it is warned of
\* exactly the overlaps there are, and of the node.
Shows(w) ==
  /\ board[w].files = IF up[w] THEN edits[w] ELSE {}
  /\ doc[w] = ActiveBlackboardEntries(board)
  /\ board[w].cond = fileConflictDetail(ActiveBlackboardEntries(board), w, board[w].files)
  /\ told[w] = board[w].cond \/ died[w]
  /\ board[w].node = "down" <=> ~nodeUp

\* Edits are finite in number here, and when they end every document, every
\* warning and every entry of the Ready Workspaces becomes right and stays
\* so, in whatever order the passes ran and whichever of them died.
EventuallyConsistent ==
  <>[](\A w \in Workspaces : board[w].life = "live" /\ board[w].ready => Shows(w))
=============================================================================
