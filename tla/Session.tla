------------------------------- MODULE Session -------------------------------
(***************************************************************************)
(* One workspace's pod as the Session Supervisor runs it (supervisor/cmd/  *)
(* supervisor/main.go; internal/session/session.go, supervise.go,          *)
(* transcript.go, probe.go, prompt.go, health.go; internal/dbboot).  The   *)
(* init container brings the branch database up; the supervisor then hosts *)
(* Claude Code in tmux, watches that process, derives the turn state from  *)
(* the transcript, and puts a request through the session only by pasting  *)
(* a prompt and polling the turn state until it changes.                   *)
(*                                                                         *)
(* Times of day are the numbers of ended turns: the code only compares     *)
(* them for equality.  A turn awaiting a tool counts as running, as in     *)
(* turnReader.  Left out: the text of prompts and details, the model a     *)
(* turn ran on, repositories that declare no database step.                *)
(***************************************************************************)
EXTENDS Naturals, Sequences

CONSTANTS
  MaxWork,      \* bound: prompts of developers and agents
  MaxTurns,     \* bound: turns that end
  MaxCrashes,   \* bound: exits of the Claude Code process
  MaxRestarts,  \* bound: restarts of the pod or of its container
  None

ASSUME SessionAssumption ==
  /\ {MaxWork, MaxTurns, MaxCrashes, MaxRestarts} \subseteq Nat
  /\ None \notin {"probe", "heal", "work"}

VARIABLES
  boot,       \* where the init container is; "up" once the supervisor serves
  marker,     \* the file db-seeded
  seeds,      \* times the seed command completed
  marks,      \* the files unusable-<source>
  unusable,   \* the in-memory mark of the Health that serves /health
  claude,     \* the hosted process
  typed,      \* prompts Claude Code has accepted and not begun
  author,     \* whose prompt the current turn answers
  record,     \* the turn state the newest transcript implies
  stamp,      \* turns ended so far
  failure,    \* Supervisor.failure is set
  req,        \* the Request call under way
  probe,      \* where probeAuth is
  spent,      \* bounds used up: work prompts, crashes, restarts
  verdict,    \* history: what each check last found
  unwritten   \* history: checks whose last mark did not reach the volume

databaseVars == <<boot, marker, seeds>>
healthVars == <<marks, unusable, verdict, unwritten>>
processVars == <<claude, typed, author, record, stamp, failure>>
sessionVars == <<databaseVars, healthVars, processVars, req, probe, spent>>

Sources == {"dbboot", "auth"}
Requesters == {"probe", "heal"}
Authors == Requesters \cup {"work"}
Prompts == Authors \cup {"clear"}

\* EndedAt is empty, here 0, unless the turn completed or failed.
TurnStates ==
  {t \in [kind : {"idle", "running", "completed", "failed"}, ended : 0 .. MaxTurns] :
     t.kind \in {"idle", "running"} => t.ended = 0}
Idle == [kind |-> "idle", ended |-> 0]

SessionTypeOK ==
  /\ boot \in {"migrate", "seed", "marker", "up"}
  /\ marker \in BOOLEAN
  /\ seeds \in Nat
  /\ marks \subseteq Sources
  /\ unusable \in BOOLEAN
  /\ claude \in {"dead", "drawing", "ready"}
  /\ typed \in Seq(Prompts)
  /\ author \in Authors \cup {None}
  /\ record \in TurnStates
  /\ stamp \in 0 .. MaxTurns
  /\ failure \in BOOLEAN
  /\ req \in [by : Requesters, at : {"send", "wait"}, before : 0 .. MaxTurns] \cup {None}
  /\ probe \in {"settle", "ask", "done"}
  /\ spent \in [work : 0 .. MaxWork, crash : 0 .. MaxCrashes, restart : 0 .. MaxRestarts]
  /\ verdict \in [Sources -> {"none", "passed", "failed"}]
  /\ unwritten \subseteq Sources

SessionInit ==
  /\ boot = "migrate"
  /\ marker = FALSE
  /\ seeds = 0
  /\ marks = {}
  /\ unusable = FALSE
  /\ claude = "dead"
  /\ typed = <<>>
  /\ author = None
  /\ record = Idle
  /\ stamp = 0
  /\ failure = FALSE
  /\ req = None
  /\ probe = "settle"
  /\ spent = [work |-> 0, crash |-> 0, restart |-> 0]
  /\ verdict = [s \in Sources |-> "none"]
  /\ unwritten = {}

Serving == boot = "up"

-----------------------------------------------------------------------------
(* The usability mark *)

\* One file per check.  A volume that takes no file loses the mark for the
\* process that comes next.
MarkUnusable(s) ==
  /\ \/ /\ marks' = marks \cup {s}
        /\ unwritten' = unwritten \ {s}
     \/ /\ s \notin marks
        /\ marks' = marks
        /\ unwritten' = unwritten \cup {s}
  /\ verdict' = [verdict EXCEPT ![s] = "failed"]

\* Mutant of ClearUnusable: a check that passes clears every mark.
ClearAll(s) ==
  /\ marks' = {}
  /\ unwritten' = unwritten \ {s}
  /\ verdict' = [verdict EXCEPT ![s] = "passed"]

ClearUnusable(s) ==
  /\ marks' = marks \ {s}
  /\ unwritten' = unwritten \ {s}
  /\ verdict' = [verdict EXCEPT ![s] = "passed"]

\* What GET /health answers.  Status passes over a mark it cannot read; every
\* mark here can be read.
Usable == ~unusable /\ marks = {}

-----------------------------------------------------------------------------
(* The init container: dbboot *)

\* tm.Start: the supervisor begins to serve a session that draws its screen.
Serve ==
  /\ boot' = "up"
  /\ claude' = "drawing"

Migrate ==
  /\ boot = "migrate"
  /\ boot' = "seed"
  /\ UNCHANGED <<marker, seeds, healthVars, processVars, req, probe, spent>>

Seed ==
  /\ boot = "seed"
  /\ ~marker
  /\ seeds' = seeds + 1
  /\ boot' = "marker"
  /\ UNCHANGED <<marker, healthVars, processVars, req, probe, spent>>

\* The marker is found, or written after the seed.
Bootstrapped ==
  /\ \/ boot = "seed" /\ marker
     \/ boot = "marker"
  /\ marker' = TRUE
  /\ ClearUnusable("dbboot")
  /\ Serve
  /\ UNCHANGED <<seeds, unusable, typed, author, record, stamp, failure, req, probe, spent>>

\* The database does not answer in time, a command fails, or the marker cannot
\* be written.  The workspace comes up all the same.
BootstrapFails ==
  /\ boot \in {"migrate", "seed", "marker"}
  /\ MarkUnusable("dbboot")
  /\ Serve
  /\ UNCHANGED <<marker, seeds, unusable, typed, author, record, stamp, failure, req, probe, spent>>

-----------------------------------------------------------------------------
(* Claude Code *)

\* Text pasted into a screen that is not drawn yet, or into a dead pane, is
\* lost without an error.
Paste(p) == typed' = IF claude = "ready" THEN Append(typed, p) ELSE typed

Draw ==
  /\ claude = "drawing"
  /\ claude' = "ready"
  /\ UNCHANGED <<databaseVars, healthVars, typed, author, record, stamp, failure, req, probe, spent>>

\* A developer types, or an agent's request is pasted.
Work ==
  /\ claude = "ready"
  /\ spent.work < MaxWork
  /\ spent' = [spent EXCEPT !.work = @ + 1]
  /\ Paste("work")
  /\ UNCHANGED <<databaseVars, healthVars, claude, author, record, stamp, failure, req, probe>>

\* A prompt accepted during a turn waits for its end.  /clear is no turn; the
\* transcript it leaves newest may be a new, empty one.
BeginTurn ==
  /\ claude = "ready"
  /\ author = None
  /\ typed # <<>>
  /\ typed' = Tail(typed)
  /\ IF Head(typed) = "clear"
     THEN author' = author /\ record' \in {record, Idle}
     ELSE author' = Head(typed) /\ record' = [kind |-> "running", ended |-> 0]
  /\ UNCHANGED <<databaseVars, healthVars, claude, stamp, failure, req, probe, spent>>

\* The last record is an end_turn, or an API error.
EndTurn(kind) ==
  /\ author # None
  /\ stamp < MaxTurns
  /\ stamp' = stamp + 1
  /\ record' = [kind |-> kind, ended |-> stamp + 1]
  /\ author' = None
  /\ UNCHANGED <<databaseVars, healthVars, claude, typed, failure, req, probe, spent>>

\* The process exits.  The transcript simply stops.
Exit ==
  /\ claude # "dead" /\ Serving
  /\ spent.crash < MaxCrashes
  /\ spent' = [spent EXCEPT !.crash = @ + 1]
  /\ claude' = "dead"
  /\ typed' = <<>>
  /\ author' = None
  /\ UNCHANGED <<databaseVars, healthVars, record, stamp, failure, req, probe>>

\* A tick of watchProcess: the failure is set when the pane is found dead, and
\* cleared by the next tick that finds it alive.
CheckProcess ==
  /\ Serving
  /\ failure' = (claude = "dead")
  /\ claude' = IF claude = "dead" THEN "drawing" ELSE claude
  /\ UNCHANGED <<databaseVars, healthVars, typed, author, record, stamp, req, probe, spent>>

\* The pod starts again from its init container, or its supervisor alone does;
\* tmux and Claude Code die with it.  The volume stays.
Restart(from) ==
  /\ from = "up" => Serving
  /\ spent.restart < MaxRestarts
  /\ spent' = [spent EXCEPT !.restart = @ + 1]
  /\ boot' = from
  /\ claude' = IF from = "up" THEN "drawing" ELSE "dead"
  /\ typed' = <<>>
  /\ author' = None
  /\ failure' = FALSE
  /\ unusable' = FALSE
  /\ req' = None
  /\ probe' = "settle"
  /\ UNCHANGED <<marker, seeds, marks, record, stamp, verdict, unwritten>>

-----------------------------------------------------------------------------
(* Requests through the session *)

TurnState == IF failure THEN [kind |-> "failed", ended |-> 0] ELSE record

\* turnReader: a value only a completed turn has.
CompletedAt == IF TurnState.kind = "completed" THEN TurnState.ended ELSE 0

\* Request takes its snapshot before it sends, ...
RequestReads(by) == req' = [by |-> by, at |-> "send", before |-> TurnState.ended]

RequestSends ==
  /\ req # None /\ req.at = "send"
  /\ req' = [req EXCEPT !.at = "wait"]
  /\ Paste(req.by)
  /\ UNCHANGED <<databaseVars, healthVars, claude, author, record, stamp, failure, probe, spent>>

\* ... and returns once the turn state shows an end other than the snapshot's,
\* whoever's turn that is.
Answered(by, kind) ==
  /\ req # None /\ req.by = by /\ req.at = "wait"
  /\ TurnState.kind = kind
  /\ TurnState.ended # req.before

\* Mutant of RequestFails: no deadline.
NoDeadline(by) ==
  /\ req # None /\ req.by = by
  /\ req.at = "send" \/ Answered(by, "failed")
  /\ req' = None

\* A developer holds the session, the turn failed, or the deadline passed: the
\* last may happen at any time.
RequestFails(by) ==
  /\ req # None /\ req.by = by
  /\ req' = None

RequestOk(by) ==
  /\ Answered(by, "completed")
  /\ req' = None

-----------------------------------------------------------------------------
(* The authentication probe *)

AuthProbe ==
  /\ Serving
  /\ probe = "settle"
  /\ probe' = "ask"
  /\ RequestReads("probe")
  /\ UNCHANGED <<databaseVars, healthVars, processVars, spent>>

\* The probe's turn is dropped from the context, unless a developer holds the
\* session.
ProbePasses ==
  /\ probe = "ask"
  /\ RequestOk("probe")
  /\ probe' = "done"
  /\ ClearUnusable("auth")
  /\ Paste("clear") \/ typed' = typed
  /\ UNCHANGED <<databaseVars, unusable, claude, author, record, stamp, failure, spent>>

ProbeFails ==
  /\ probe = "ask"
  /\ RequestFails("probe")
  /\ probe' = "done"
  /\ unusable' = TRUE
  /\ MarkUnusable("auth")
  /\ UNCHANGED <<databaseVars, processVars, spent>>

-----------------------------------------------------------------------------
(* Properties *)

\* A workspace reported usable has no check whose last verdict is a failure,
\* whatever the other check found since and however often the pod restarted,
\* and its database was seeded; a mark the volume did not take is the only
\* exception, and not for the process that found the failure.
UsableIsTrue ==
  Serving /\ Usable =>
    /\ \A s \in Sources \ unwritten : verdict[s] # "failed"
    /\ "dbboot" \in unwritten \/ seeds > 0
    /\ probe = "done" => verdict["auth"] = "passed"
=============================================================================
