----------------------------- MODULE Connections -----------------------------
(***************************************************************************)
(* Who is on a Workspace, and the stop that follows when nobody is: the    *)
(* browser counts the Terminal Gateway reports (gateway/internal/gateway/  *)
(* handover.go, handler.go, workspaces.go), the SSH count the Session      *)
(* Supervisor answers with, and the passes of the Workspace Controller     *)
(* over a Ready or Suspended Workspace that read both (controller/internal/*)
(* controller/connections.go, lifecycle.go).                               *)
(*                                                                         *)
(* A count is taken under the gateway's mutex and sent after it, by the    *)
(* goroutine of its own socket, so counts of one Workspace may overtake    *)
(* each other.  A pass that stops a Workspace lasts for minutes: it reads  *)
(* the object, waits for the evacuation, records it, scales down and       *)
(* records the suspension, and a report that lands in between makes its    *)
(* next status update a conflict.                                          *)
(*                                                                         *)
(* Time is a flag: created longer ago than the provisioning timeout (D-1), *)
(* or inactive for longer than the idle window (D-2).  What the supervisor *)
(* captures is the subject of Evacuation, who may type that of Handover,   *)
(* and deletion that of Workspace; what is written to an object that is    *)
(* being deleted is left out, for no pass here reads it.                   *)
(***************************************************************************)
EXTENDS Integers, FiniteSets

CONSTANTS
  Workspaces,   \* the Workspace objects of the namespace
  Sockets,      \* browser connections, each to one Workspace
  Home,         \* the Workspace of each socket
  SSHed,        \* the Workspaces somebody opens over SSH
  Told,         \* the Workspaces an operator tells to suspend
  None,         \* no pass in progress
  MaxActivity   \* bound: calls of MarkActivity

ASSUME ConnectionsAssumption ==
  /\ Home \in [Sockets -> Workspaces]
  /\ SSHed \subseteq Workspaces /\ Told \subseteq Workspaces
  /\ None \notin Workspaces \cup Sockets
  /\ MaxActivity \in Nat
  /\ IsFiniteSet(Sockets)

VARIABLES
  ws,        \* the Workspace objects
  replicas,  \* spec.replicas of each StatefulSet, 0 where there is none
  pod,       \* whether its Pod is running
  ssh,       \* whether an SSH session holds it
  socket,    \* the gateway's side of each browser connection
  note,      \* the browser-connections annotation
  last,      \* history: the socket whose report is the latest, while under way
  muddled,   \* history: the latest report was lost, overtaken, or forgotten
  pass,      \* the stop the worker is carrying out
  marks      \* calls of MarkActivity so far

conns == <<ws, replicas, pod, ssh, socket, note, last, muddled, pass, marks>>

Phases == {"Provisioning", "Ready", "Suspended", "Failed"}

WorkspaceRecord ==
  [life    : {"unborn", "live", "deleting", "gone"},
   phase   : Phases,
   id      : BOOLEAN,    \* status.workspaceId is set
   waiting : BOOLEAN,    \* ResourceWaiting is True
   resume  : BOOLEAN,    \* ResumeRequested is True
   asked   : BOOLEAN,    \* spec.desiredPhase is Suspended
   late    : BOOLEAN]    \* past D-1 if Provisioning, past D-2 if Ready

\* attaching, detaching: in the goroutine's call of reportConnections with
\* the count it was given.  dead: the Pod it was bridged to is gone.
SocketRecord ==
  [at    : {"off", "attaching", "on", "detaching"},
   count : 0 .. Cardinality(Sockets),
   dead  : BOOLEAN]

\* evacuating: in the call to the supervisor; evacuated: the snapshot is
\* recorded; scaled: the StatefulSet is at zero.  stale: the object changed
\* since the pass last read or wrote it.
Stages == {"none", "evacuating", "evacuated", "scaled"}

PassRecord ==
  [who : Workspaces \cup {None}, at : Stages,
   asked : BOOLEAN, stale : BOOLEAN]

NoPass == [who |-> None, at |-> "none", asked |-> FALSE, stale |-> FALSE]

Unborn ==
  [life |-> "unborn", phase |-> "Provisioning", id |-> FALSE, waiting |-> FALSE,
   resume |-> FALSE, asked |-> FALSE, late |-> FALSE]

Off == [at |-> "off", count |-> 0, dead |-> FALSE]

ConnTypeOK ==
  /\ ws \in [Workspaces -> WorkspaceRecord]
  /\ replicas \in [Workspaces -> {0, 1}]
  /\ pod \in [Workspaces -> BOOLEAN]
  /\ ssh \in [Workspaces -> BOOLEAN]
  /\ socket \in [Sockets -> SocketRecord]
  /\ note \in [Workspaces -> 0 .. Cardinality(Sockets)]
  /\ last \in [Workspaces -> Sockets \cup {None}]
  /\ muddled \in [Workspaces -> BOOLEAN]
  /\ pass \in PassRecord
  /\ marks \in 0 .. MaxActivity

ConnInit ==
  /\ ws = [w \in Workspaces |-> Unborn]
  /\ replicas = [w \in Workspaces |-> 0]
  /\ pod = [w \in Workspaces |-> FALSE]
  /\ ssh = [w \in Workspaces |-> FALSE]
  /\ socket = [s \in Sockets |-> Off]
  /\ note = [w \in Workspaces |-> 0]
  /\ last = [w \in Workspaces |-> None]
  /\ muddled = [w \in Workspaces |-> FALSE]
  /\ pass = NoPass
  /\ marks = 0

-----------------------------------------------------------------------------
(* The gateway *)

\* The sockets in browserSessions.byWorkspace[w].
Attached(w) ==
  {s \in Sockets : Home[s] = w /\ socket[s].at \in {"attaching", "on"}}

\* The goroutines inside reportConnections for w.
Reporting(w) ==
  {s \in Sockets : Home[s] = w /\ socket[s].at \in {"attaching", "detaching"}}

\* A write to the object of w by somebody else.
Touched(w) == IF pass.who = w THEN [pass EXCEPT !.stale = TRUE] ELSE pass

\* A count is on its way.
Launch(s, at, count) ==
  /\ socket' = [socket EXCEPT ![s] = [at |-> at, count |-> count, dead |-> FALSE]]
  /\ last' = [last EXCEPT ![Home[s]] = s]

\* serveSessionSocket: SessionEndpoint finds a running Pod, attach counts.
Attach(s) ==
  /\ socket[s].at = "off"
  /\ ws[Home[s]].life = "live" /\ pod[Home[s]]
  /\ Launch(s, "attaching", Cardinality(Attached(Home[s]) \cup {s}))
  /\ UNCHANGED <<ws, replicas, pod, ssh, note, muddled, pass, marks>>

\* Mutant of Remaining: the count is taken before the socket is removed.
CountedTooEarly(s) == Cardinality(Attached(Home[s]))

\* What detach returns.
Remaining(s) == Cardinality(Attached(Home[s]) \ {s})

\* The browser closes the socket, or the bridge fails because the Pod is gone.
Detach(s) ==
  /\ socket[s].at = "on"
  /\ Launch(s, "detaching", Remaining(s))
  /\ UNCHANGED <<ws, replicas, pod, ssh, note, muddled, pass, marks>>

\* The goroutine of s is back from its report, which was the latest or not.
Reported(s) ==
  /\ s \in Reporting(Home[s])
  /\ socket' = [socket EXCEPT ![s] =
                  IF @.at = "attaching" THEN [@ EXCEPT !.at = "on", !.count = 0] ELSE Off]
  /\ last' = [last EXCEPT ![Home[s]] = IF @ = s THEN None ELSE @]

\* SetBrowserConnections: a merge patch, which never conflicts itself.
SetBrowserConnections(s) ==
  /\ ws[Home[s]].life = "live"
  /\ Reported(s)
  /\ note' = [note EXCEPT ![Home[s]] = socket[s].count]
  /\ muddled' = [muddled EXCEPT ![Home[s]] = last[Home[s]] # s]
  /\ pass' = Touched(Home[s])
  /\ UNCHANGED <<ws, replicas, pod, ssh, marks>>

\* The patch fails or times out: logged, and the socket goes on.
ReportLost(s) ==
  /\ Reported(s)
  /\ muddled' = [muddled EXCEPT ![Home[s]] = @ \/ last[Home[s]] # None]
  /\ UNCHANGED <<ws, replicas, pod, ssh, note, pass, marks>>

\* A restart forgets every connection and corrects no annotation.
GatewayCrash ==
  /\ \E s \in Sockets : socket[s].at # "off"
  /\ socket' = [s \in Sockets |-> Off]
  /\ last' = [w \in Workspaces |-> None]
  /\ muddled' = [w \in Workspaces |->
                   \/ muddled[w]
                   \/ \E s \in Sockets : Home[s] = w /\ socket[s].at # "off"]
  /\ UNCHANGED <<ws, replicas, pod, ssh, note, pass, marks>>

-----------------------------------------------------------------------------
(* Pods, SSH users and whoever edits the object *)

\* The sessions of a Pod end with it, and every bridge to it will fail.
PodStop(w) ==
  /\ pod[w]
  /\ pod' = [pod EXCEPT ![w] = FALSE]
  /\ ssh' = [ssh EXCEPT ![w] = FALSE]
  /\ socket' = [s \in Sockets |->
                  IF Home[s] = w /\ socket[s].at \in {"attaching", "on"}
                  THEN [socket[s] EXCEPT !.dead = TRUE] ELSE socket[s]]
  /\ UNCHANGED <<ws, replicas, note, last, muddled, pass, marks>>

\* A login or a logout; sshsessions.go counts the connections.
ToggleSSH(w) ==
  /\ w \in SSHed /\ pod[w]
  /\ ssh' = [ssh EXCEPT ![w] = ~@]
  /\ UNCHANGED <<ws, replicas, pod, socket, note, last, muddled, pass, marks>>

AskSuspend(w) ==
  /\ w \in Told /\ ws[w].life = "live" /\ ~ws[w].asked
  /\ ws' = [ws EXCEPT ![w].asked = TRUE]
  /\ pass' = Touched(w)
  /\ UNCHANGED <<replicas, pod, ssh, socket, note, last, muddled, marks>>

\* An entry point for other components; only tests call it.
MarkActivity(w) ==
  /\ ws[w].life = "live" /\ marks < MaxActivity
  /\ marks' = marks + 1
  /\ ws' = [ws EXCEPT ![w].late = @ /\ ws[w].phase # "Ready",
                      ![w].resume = @ \/ ws[w].phase = "Suspended"]
  /\ pass' = Touched(w)
  /\ UNCHANGED <<replicas, pod, ssh, socket, note, last, muddled>>

\* The idle window passes.
Idle(w) ==
  /\ ws[w].life = "live" /\ ws[w].phase = "Ready" /\ ~ws[w].late
  /\ ws' = [ws EXCEPT ![w].late = TRUE]
  /\ UNCHANGED <<replicas, pod, ssh, socket, note, last, muddled, pass, marks>>

-----------------------------------------------------------------------------
(* Passes over a Ready Workspace *)

WorkerFree == pass.who = None

Pass(w, phase) == WorkerFree /\ ws[w].life = "live" /\ ws[w].phase = phase

\* Whether connected can come out as said: an SSH count that cannot be read
\* is none.
Connected(w) == note[w] > 0 \/ ssh[w]
Unconnected(w) == note[w] = 0

\* reconcileReady with somebody there: the clock is kept at now.
KeepAwake(w) ==
  /\ Pass(w, "Ready") /\ ~ws[w].asked
  /\ Connected(w)
  /\ ws' = [ws EXCEPT ![w].late = FALSE]
  /\ UNCHANGED <<replicas, pod, ssh, socket, note, last, muddled, pass, marks>>

\* Idle with nobody there, or told to.
MayStop(w) == ws[w].asked \/ (ws[w].late /\ Unconnected(w))

\* Mutant of FirstStage: a Workspace with no ready replica is asked as well.
AskAlways(w) == "evacuating"

\* evacuateBeforeStop: without a ready replica there is nothing to capture.
FirstStage(w) == IF pod[w] THEN "evacuating" ELSE "evacuated"

\* reconcileReady decides to stop.
BeginStop(w) ==
  /\ Pass(w, "Ready")
  /\ MayStop(w)
  /\ pass' = [who |-> w, at |-> FirstStage(w),
              asked |-> ws[w].asked, stale |-> FALSE]
  /\ UNCHANGED <<ws, replicas, pod, ssh, socket, note, last, muddled, marks>>

\* Mutant of Evacuated: the update is retried on a fresh copy of the object.
EvacuatedAnyway ==
  /\ pass.at = "evacuating" /\ pod[pass.who]
  /\ pass' = [pass EXCEPT !.at = "evacuated", !.stale = FALSE]
  /\ UNCHANGED <<ws, replicas, pod, ssh, socket, note, last, muddled, marks>>

\* evacuateBeforeStop: the snapshot is taken and recorded; a conflict ends
\* the pass.
Evacuated ==
  /\ pass.at = "evacuating" /\ pod[pass.who]
  /\ pass' = IF pass.stale THEN NoPass ELSE [pass EXCEPT !.at = "evacuated"]
  /\ UNCHANGED <<ws, replicas, pod, ssh, socket, note, last, muddled, marks>>

scaleStatefulSet ==
  /\ pass.at = "evacuated"
  /\ replicas' = [replicas EXCEPT ![pass.who] = 0]
  /\ pass' = [pass EXCEPT !.at = "scaled"]
  /\ UNCHANGED <<ws, pod, ssh, socket, note, last, muddled, marks>>

\* The last update of the pass; a conflict leaves the Workspace Ready with no
\* replica.
RecordSuspended ==
  /\ pass.at = "scaled"
  /\ ws' = IF pass.stale THEN ws ELSE [ws EXCEPT ![pass.who].phase = "Suspended", ![pass.who].late = FALSE]
  /\ pass' = NoPass
  /\ UNCHANGED <<replicas, pod, ssh, socket, note, last, muddled, marks>>

\* A call of the pass fails, or the controller restarts.
PassFails ==
  /\ ~WorkerFree
  /\ pass' = NoPass
  /\ UNCHANGED <<ws, replicas, pod, ssh, socket, note, last, muddled, marks>>

-----------------------------------------------------------------------------
(* Passes over a Suspended Workspace *)

\* Scales up; Ready as soon as a replica is, which may be the one still
\* terminating.
reconcileResume(w) ==
  /\ Pass(w, "Suspended") /\ ws[w].resume
  /\ replicas' = [replicas EXCEPT ![w] = 1]
  /\ ws' = IF pod[w]
           THEN [ws EXCEPT ![w].phase = "Ready", ![w].late = FALSE, ![w].resume = FALSE]
           ELSE ws
  /\ UNCHANGED <<pod, ssh, socket, note, last, muddled, pass, marks>>

-----------------------------------------------------------------------------
(* Composition *)

ConnStep ==
  \/ \E s \in Sockets :
       Attach(s) \/ Detach(s) \/ SetBrowserConnections(s) \/ ReportLost(s)
  \/ GatewayCrash
  \/ \E w \in Workspaces :
       \/ PodStop(w) \/ ToggleSSH(w) \/ AskSuspend(w) \/ MarkActivity(w) \/ Idle(w)
       \/ KeepAwake(w) \/ BeginStop(w) \/ reconcileResume(w)
  \/ Evacuated \/ scaleStatefulSet \/ RecordSuspended \/ PassFails

\* Calls of the gateway end, a bridge to a Pod that is gone fails, time
\* passes, a Pod scaled down stops, and the controller looks at a Ready or
\* Suspended Workspace again every idleCheckInterval.  A call to a supervisor
\* that is gone times out, and a pass tried over and over succeeds once.
ConnFairness ==
  /\ \A s \in Sockets : WF_conns(SetBrowserConnections(s) \/ ReportLost(s))
                     /\ WF_conns(Detach(s) /\ socket[s].dead)
  /\ \A w \in Workspaces :
       /\ WF_conns(PodStop(w) /\ replicas[w] = 0)
       /\ WF_conns(Idle(w))
       /\ WF_conns(BeginStop(w))
       /\ WF_conns(reconcileResume(w))
  /\ WF_conns(PassFails /\ pass.at = "evacuating" /\ ~pod[pass.who])
  /\ SF_conns(Evacuated)
  /\ SF_conns(scaleStatefulSet)
  /\ SF_conns(RecordSuspended)

-----------------------------------------------------------------------------
(* Properties *)

\* Once the last report has landed the annotation is the number of sockets
\* the gateway holds, as reportConnections means it to be, unless the latest
\* report was lost or overtaken by an older one, or the gateway restarted.
CountSettles ==
  \A w \in Workspaces :
    ws[w].life = "live" /\ Reporting(w) = {} /\ ~muddled[w]
      => note[w] = Cardinality(Attached(w))

\* Idle detection never scales down a Workspace with a browser on it whose
\* report had landed by the time the snapshot was recorded: the minutes the
\* evacuation takes are covered by the update that conflicts.
StopSparesHolders ==
  [][scaleStatefulSet /\ ~pass.asked /\ ~pass.stale /\ ~muddled[pass.who]
       => Attached(pass.who) = Reporting(pass.who) \cap Attached(pass.who)]_conns

\* A pass that dies or conflicts between scaling down and recording it leaves
\* a Ready Workspace without a replica.  The passes after it finish the stop,
\* however many sockets were on it, as long as the gateway's count is right.
HalfStopHeals ==
  \A w \in Workspaces :
    (ws[w].life = "live" /\ ws[w].phase = "Ready" /\ replicas[w] = 0)
      ~> (ws[w].life # "live" \/ ws[w].phase # "Ready" \/ muddled[w])
=============================================================================
