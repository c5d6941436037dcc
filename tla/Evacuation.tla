----------------------------- MODULE Evacuation -----------------------------
(***************************************************************************)
(* The evacuation agent (supervisor/internal/evacuation: snapshot.go,      *)
(* restore.go, trigger.go), with the turn it watches and the init script   *)
(* that rebuilds a lost volume (controller resources.go).                  *)
(*                                                                         *)
(* A working directory is what was changed and not committed, and what its *)
(* branch has; the remote has what was pushed.  An evacuation captures the *)
(* commits as a bundle and the changes as an archive and uploads the two   *)
(* one after the other over the previous pair.  Nothing keeps commits or   *)
(* another evacuation out meanwhile.  Left out: deletions, which the       *)
(* archive does not carry, and request signing.                            *)
(***************************************************************************)
EXTENDS Naturals, FiniteSets

CONSTANT Items   \* units of work: a change to a file

VARIABLES
  dirty,      \* work not committed
  commits,    \* work on the branch
  remote,     \* work on the branch at the remote
  tracked,    \* the clone has refs/remotes/origin/<branch>
  volume,     \* how far the volume is from being usable
  turn,       \* the session is in a turn
  unseen,     \* a turn has completed that WatchTurns has not acted on
  evac,       \* the two evacuations that may be under way
  bundle,     \* the object at BundleKey: the branch it holds
  archive,    \* the object at DirtyArchiveKey
  promised,   \* history: work that evacuations which succeeded had started from
  assured,    \* history: the part of it whose objects no disturbed upload replaced
  unrestored  \* history: the objects were not replayed into this tree

tree == <<dirty, commits, remote, tracked>>
history == <<promised, assured, unrestored>>
store == <<bundle, archive, history>>
vars == <<tree, volume, turn, unseen, evac, store>>

Procs == {"watch", "request"}

\* A bundle brings its whole branch back.  An empty object, or none, brings
\* nothing.
Bundles == [full : BOOLEAN, head : SUBSET Items]
Nothing == [full |-> FALSE, head |-> {}]

\* What an evacuation has captured.  work is what the tree held at its start.
\* It is disturbed by a commit between its captures, by another evacuation at
\* the same time, and by a tree that was not restored.
EvacRecord == [at : {"idle", "bundled", "captured", "uploaded"},
               bundle : Bundles, archive : SUBSET Items, work : SUBSET Items,
               disturbed : BOOLEAN]

NoEvac == [at |-> "idle", bundle |-> Nothing, archive |-> {}, work |-> {}, disturbed |-> FALSE]

TypeOK ==
  /\ dirty \subseteq Items \ commits
  /\ commits \subseteq Items
  /\ remote \subseteq Items
  /\ tracked \in BOOLEAN
  /\ volume \in {"empty", "cloned", "replayed", "live"}
  /\ turn \in BOOLEAN
  /\ unseen \in BOOLEAN
  /\ evac \in [Procs -> EvacRecord]
  /\ bundle \in Bundles
  /\ archive \subseteq Items
  /\ promised \subseteq Items
  /\ assured \subseteq promised
  /\ unrestored \in BOOLEAN

\* A new branch: the remote does not have it yet.
Init ==
  /\ dirty = {} /\ commits = {} /\ remote = {} /\ tracked = FALSE
  /\ volume = "empty"
  /\ turn = FALSE /\ unseen = FALSE
  /\ evac = [p \in Procs |-> NoEvac]
  /\ bundle = Nothing /\ archive = {}
  /\ promised = {} /\ assured = {} /\ unrestored = FALSE

-----------------------------------------------------------------------------
(* Work *)

\* Agents write during turns, developers at any time.
Write(i) ==
  /\ volume = "live"
  /\ i \notin dirty \cup commits
  /\ dirty' = dirty \cup {i}
  /\ UNCHANGED <<commits, remote, tracked, volume, turn, unseen, evac, store>>

Commit(i) ==
  /\ volume = "live"
  /\ i \in dirty
  /\ dirty' = dirty \ {i}
  /\ commits' = commits \cup {i}
  /\ evac' = [p \in Procs |-> [evac[p] EXCEPT !.disturbed = @ \/ evac[p].at = "bundled"]]
  /\ UNCHANGED <<remote, tracked, volume, turn, unseen, store>>

\* A single-branch clone of the base branch tracks no other branch, so a push
\* of a new branch leaves it untracked.
Push ==
  /\ volume = "live"
  /\ remote # commits
  /\ remote \subseteq commits
  /\ remote' = commits
  /\ UNCHANGED <<dirty, commits, tracked, volume, turn, unseen, evac, store>>

BeginTurn ==
  /\ volume = "live" /\ ~turn
  /\ turn' = TRUE
  /\ UNCHANGED <<tree, volume, unseen, evac, store>>

EndTurn ==
  /\ turn
  /\ turn' = FALSE
  /\ unseen' = TRUE
  /\ UNCHANGED <<tree, volume, evac, store>>

-----------------------------------------------------------------------------
(* Evacuation *)

\* Commits past the remote branch, or the whole branch where the clone tracks
\* none; no commits at all make an empty object.
writeBundle ==
  IF tracked /\ commits \subseteq remote THEN Nothing ELSE [full |-> TRUE, head |-> commits]

writeDirtyArchive == dirty

UnderWay == {p \in Procs : evac[p].at # "idle"}

Begin(p) ==
  /\ volume = "live"
  /\ evac[p].at = "idle"
  /\ evac' = [q \in Procs |->
       IF q = p
       THEN [at |-> "bundled", bundle |-> writeBundle, archive |-> {}, work |-> dirty \cup commits,
             disturbed |-> unrestored \/ UnderWay # {}]
       ELSE [evac[q] EXCEPT !.disturbed = @ \/ evac[q].at # "idle"]]
  /\ UNCHANGED <<tree, volume, turn, store>>

\* WatchTurns: one evacuation for each completed turn it sees, however it ends.
\* A turn begun meanwhile does not hold it up.
WatchTurns ==
  /\ unseen /\ ~turn
  /\ unseen' = FALSE
  /\ Begin("watch")

\* POST /evacuate waits for the turn to settle, and fails if it does not.
EvacuateWhenSettled ==
  /\ ~turn
  /\ Begin("request")
  /\ UNCHANGED unseen

Capture(p) ==
  /\ evac[p].at = "bundled"
  /\ evac' = [evac EXCEPT ![p].at = "captured", ![p].archive = writeDirtyArchive]
  /\ UNCHANGED <<tree, volume, turn, unseen, store>>

\* Mutant of Upload: the archive is uploaded first.
UploadSwapped(n, e) ==
  IF n = 2 THEN bundle' = e.bundle /\ UNCHANGED archive
           ELSE archive' = e.archive /\ UNCHANGED bundle

\* The first PutFile of an evacuation and the second.
Upload(n, e) ==
  IF n = 1 THEN bundle' = e.bundle /\ UNCHANGED archive
           ELSE archive' = e.archive /\ UNCHANGED bundle

\* A disturbed evacuation replaces the objects without having all they held.
Replaced(e) ==
  /\ assured' = IF e.disturbed THEN {} ELSE assured
  /\ unrestored' = (unrestored /\ ~e.disturbed)

PutBundle(p) ==
  /\ evac[p].at = "captured"
  /\ Upload(1, evac[p])
  /\ Replaced(evac[p])
  /\ evac' = [evac EXCEPT ![p].at = "uploaded"]
  /\ UNCHANGED <<tree, volume, turn, unseen, promised>>

PutArchive(p) ==
  /\ evac[p].at = "uploaded"
  /\ Upload(2, evac[p])
  /\ promised' = promised \cup evac[p].work
  /\ assured' = IF evac[p].disturbed THEN {} ELSE assured \cup evac[p].work
  /\ UNCHANGED unrestored
  /\ evac' = [evac EXCEPT ![p] = NoEvac]
  /\ UNCHANGED <<tree, volume, turn, unseen>>

\* A git command or an upload fails; nothing is undone or tried again.
EvacuationFails(p) ==
  /\ evac[p].at # "idle"
  /\ evac' = [evac EXCEPT ![p] = NoEvac]
  /\ UNCHANGED <<tree, volume, turn, unseen, store>>

-----------------------------------------------------------------------------
(* Failures and the way back *)

\* The supervisor restarts.  What WatchTurns reads first is only its baseline.
Restart ==
  /\ volume = "live"
  /\ turn' = FALSE
  /\ unseen' = FALSE
  /\ evac' = [p \in Procs |-> NoEvac]
  /\ UNCHANGED <<tree, volume, store>>

NodeLoss ==
  /\ volume' = "empty"
  /\ dirty' = {} /\ commits' = {} /\ tracked' = FALSE
  /\ turn' = FALSE /\ unseen' = FALSE
  /\ evac' = [p \in Procs |-> NoEvac]
  /\ unrestored' = FALSE
  /\ UNCHANGED <<remote, bundle, archive, promised, assured>>

\* The init script: with no .git it clones the branch if the remote has it and
\* the base branch otherwise, and then runs restore.
Clone ==
  /\ volume = "empty"
  /\ volume' = "cloned"
  /\ commits' = remote
  /\ tracked' = (remote # {})
  /\ UNCHANGED <<dirty, remote, turn, unseen, evac, store>>

hasLocalWork == dirty # {} \/ (tracked /\ ~ commits \subseteq remote)

\* fetch and reset --hard, unless the bundle is empty.
Replayed == IF bundle.full THEN bundle.head ELSE commits

RestoreBundle ==
  /\ volume = "cloned"
  /\ ~hasLocalWork
  /\ commits' = Replayed
  /\ volume' = "replayed"
  /\ UNCHANGED <<dirty, remote, tracked, turn, unseen, evac, store>>

\* Mutants of extractArchive: a change stays one when it is committed as well;
\* the archive is left alone once a bundle was applied.
ExtractedOver == archive
BundleOnly == IF bundle.full THEN {} ELSE archive \ commits

\* A change that is in the commits already is no change any more.
extractArchive == archive \ commits

RestoreArchive ==
  /\ volume = "replayed"
  /\ dirty' = extractArchive
  /\ volume' = "live"
  /\ UNCHANGED <<commits, remote, tracked, turn, unseen, evac, store>>

\* The object store does not answer, or the container dies.  The container is
\* started again, finds .git and does not restore a second time.
RestoreFails ==
  /\ volume \in {"cloned", "replayed"}
  /\ volume' = "live"
  /\ unrestored' = TRUE
  /\ UNCHANGED <<tree, turn, unseen, evac, bundle, archive, promised, assured>>

-----------------------------------------------------------------------------

Evacuate(p) == Capture(p) \/ PutBundle(p) \/ PutArchive(p) \/ EvacuationFails(p)
Restore == RestoreBundle \/ RestoreArchive \/ RestoreFails

Next ==
  \/ \E i \in Items : Write(i) \/ Commit(i)
  \/ Push \/ BeginTurn \/ EndTurn
  \/ WatchTurns \/ EvacuateWhenSettled
  \/ \E p \in Procs : Evacuate(p)
  \/ Restart \/ NodeLoss \/ Clone \/ Restore

Spec == Init /\ [][Next]_vars

-----------------------------------------------------------------------------
(* Properties *)

Stored == remote \cup archive \cup bundle.head

\* main.go: POST /evacuate "answers only once the working directory is safely
\* off-node".  Not so: work committed between the two captures is in neither,
\* and of two evacuations at once the older may upload last.
SafelyOffNode == promised \subseteq Stored

\* restore.go: Restore "reconstructs the working directory from the most
\* recent evacuation after the node holding it was lost".  Not so: a restore
\* that fails once is never tried again, and the workspace starts without it.
Reconstructed == volume = "live" => promised \subseteq remote \cup commits \cup dirty

\* At every moment, with an evacuation half uploaded or given up too, the
\* remote and the pair of objects hold all the work that undisturbed
\* evacuations covered, since a disturbed one last uploaded anything.
StoreCovers == assured \subseteq Stored

\* What the workspace holds, or what the objects can still bring back to it.
Recoverable ==
  remote \cup commits \cup dirty \cup
    (IF volume = "live" /\ ~unrestored THEN {} ELSE archive \cup bundle.head)

\* Evacuate, the init script and Restore together implement DurableWork,
\* through crashes, lost nodes, half-finished uploads and failed restores: a
\* tree once restored has all of the assured work, and one that was not
\* leaves it in the objects until an evacuation replaces them.
Durable == INSTANCE DurableWork WITH work <- Recoverable, promised <- assured
KeepsPromise == Durable!Spec
=============================================================================
