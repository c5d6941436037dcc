------------------------------ MODULE SelfHeal ------------------------------
(***************************************************************************)
(* The self-healing loop over one session (supervisor/internal/testrun:    *)
(* heal.go, runner.go, failure.go; main.go probeAuth, newHealingLoop).     *)
(* Each completed turn the loop notices starts a run of the declared       *)
(* suites; while they fail, a fix request goes through the session and     *)
(* what failed runs again, at most MaxHealingAttempts times.  Composes     *)
(* Session with the loop that reads its turn state and sends requests.     *)
(*                                                                         *)
(* A suite's outcome is any set of failing tests, or that it reached no    *)
(* test.  Left out: evidence, categories, screenshots and reports, which   *)
(* decide nothing; two tests with one title, which merge takes for one.    *)
(***************************************************************************)
EXTENDS Session

CONSTANTS
  Unit,                \* tests of the unit suite
  E2E,                 \* tests of the E2E suite
  Filter,              \* BOOLEAN: the repository declares an E2E filter
  EmptyPasses,         \* BOOLEAN: a filter that matches no test exits 0
  MaxHealingAttempts

ASSUME SelfHealAssumption ==
  /\ Unit \cap E2E = {} /\ E2E # {}
  /\ (Unit \cup E2E) \cap {"unit", "e2e"} = {}
  /\ {Filter, EmptyPasses} \subseteq BOOLEAN
  /\ MaxHealingAttempts \in Nat
  /\ None \notin {"TestsVerified", "SelfHealingExhausted"}

VARIABLES
  at,        \* where the loop is
  seen,      \* the completed turn Watch last took note of
  attempt,   \* Result.Attempt
  only,      \* Run.OnlyTests
  failed,    \* names in Result.Failures; the run passed when there is none
  unitFailed,
  reported,  \* the session's verdict sent to Hermes Agent
  owed,      \* history: tests that failed in this session and passed in no later run
  foreign,   \* history: a turn the loop did not ask for completed since its baseline
  basis      \* history: "settled" when the last baseline was read with every turn of this
             \* process on record, "early" when not, "none" when none was read

runVars == <<attempt, only, failed, unitFailed, reported, owed>>
watchVars == <<seen, foreign, basis>>
loopVars == <<at, runVars, watchVars>>
vars == <<sessionVars, loopVars>>

Tests == Unit \cup E2E
Steps == {"unit", "e2e"}
FailureNames == Tests \cup Steps

Bases == {"none", "early", "settled"}

\* A fix is asked for only while one of the attempts is left.
AttemptBounded == at = "fix" => attempt <= MaxHealingAttempts

TypeOK ==
  /\ SessionTypeOK
  /\ AttemptBounded
  /\ at \in {"off", "first", "watch", "unit", "e2e", "judge", "fix", "rebase"}
  /\ seen \in 0 .. MaxTurns
  /\ attempt \in 0 .. MaxHealingAttempts + 1
  /\ only \subseteq FailureNames
  /\ failed \subseteq FailureNames
  /\ unitFailed \in BOOLEAN
  /\ reported \in {None, "TestsVerified", "SelfHealingExhausted"}
  /\ owed \subseteq FailureNames
  /\ foreign \in BOOLEAN
  /\ basis \in Bases

LoopOff ==
  /\ at' = "off"
  /\ seen' = 0 /\ foreign' = FALSE /\ basis' = "none"
  /\ attempt' = 0 /\ only' = {} /\ failed' = {} /\ unitFailed' = FALSE
  /\ reported' = None /\ owed' = {}

Init ==
  /\ SessionInit
  /\ at = "off"
  /\ seen = 0 /\ foreign = FALSE /\ basis = "none"
  /\ attempt = 0 /\ only = {} /\ failed = {} /\ unitFailed = FALSE
  /\ reported = None /\ owed = {}

-----------------------------------------------------------------------------
(* Watching for completed turns *)

\* Prompts of this process whose turn has not ended.
Unanswered == Requesters \cap ({author} \cup {typed[i] : i \in DOMAIN typed})

\* Mutant of Baseline: only the first reading sets one.
FirstOnly ==
  /\ seen' = IF at = "first" THEN CompletedAt ELSE seen
  /\ foreign' = FALSE
  /\ basis' = IF ~failure /\ Unanswered = {} THEN "settled" ELSE "early"

\* The reading is settled unless a turn of this process has not ended, or a
\* crash hides its end.
Baseline ==
  /\ seen' = CompletedAt
  /\ foreign' = FALSE
  /\ basis' = IF ~failure /\ Unanswered = {} THEN "settled" ELSE "early"

\* The first reading only sets the baseline.
WatchFirst ==
  /\ at = "first"
  /\ at' = "watch"
  /\ Baseline
  /\ UNCHANGED <<sessionVars, runVars>>

StartRun(n, names) ==
  /\ attempt' = n
  /\ only' = names
  /\ at' = IF names = {} /\ Unit # {} THEN "unit" ELSE "e2e"
  /\ failed' = {}
  /\ unitFailed' = FALSE

WatchTurn ==
  /\ at = "watch"
  /\ CompletedAt \notin {0, seen}
  /\ seen' = CompletedAt
  /\ StartRun(1, {})
  /\ owed' = {}
  /\ reported' = None
  /\ UNCHANGED <<sessionVars, foreign, basis>>

\* After a session.  When the turn state cannot be read, the old value stays.
Rebaseline ==
  /\ at = "rebase"
  /\ at' = "watch"
  /\ \/ Baseline
     \/ /\ seen' = seen /\ foreign' = FALSE /\ basis' = "none"
  /\ UNCHANGED <<sessionVars, runVars>>

-----------------------------------------------------------------------------
(* A run *)

\* The tests the E2E command executes.
e2eArgv == IF only = {} \/ ~Filter THEN E2E ELSE only \cap E2E

\* A step ran the given tests and those in bad failed.  A step that reached no
\* test is itself the failure.
Step(name, ran, next) ==
  /\ at' = next
  /\ \/ \E bad \in SUBSET ran :
          /\ ran = {} => EmptyPasses
          /\ failed' = failed \cup bad
          /\ owed' = (owed \ (ran \cup (IF ran = {} THEN {} ELSE {name}))) \cup bad
          /\ unitFailed' = (unitFailed \/ (name = "unit" /\ bad # {}))
     \/ /\ failed' = failed \cup {name}
        /\ owed' = owed \cup {name}
        /\ unitFailed' = (unitFailed \/ name = "unit")
  /\ UNCHANGED <<sessionVars, watchVars, attempt, only, reported>>

UnitStep == at = "unit" /\ Step("unit", Unit, "e2e")

E2EStep == at = "e2e" /\ Step("e2e", e2eArgv, "judge")

\* The run cannot happen at all: its directory, its log or the application.
RunFails ==
  /\ at \in {"unit", "e2e"}
  /\ at' = "rebase"
  /\ UNCHANGED <<sessionVars, runVars, watchVars>>

\* Mutant of nextOnly: a unit failure is narrowed as well.
AlwaysNarrow == failed

\* A unit failure cannot be narrowed: the declaration has no unit filter.
nextOnly == IF unitFailed THEN {} ELSE failed

\* Mutant of GivesUp: the session never gives up.
NeverGivesUp == failed = {}

GivesUp == failed = {} \/ attempt > MaxHealingAttempts

Report ==
  /\ at = "judge"
  /\ GivesUp
  /\ reported' = IF failed = {} THEN "TestsVerified" ELSE "SelfHealingExhausted"
  /\ at' = "rebase"
  /\ UNCHANGED <<sessionVars, watchVars, attempt, only, failed, unitFailed, owed>>

RequestFix ==
  /\ at = "judge"
  /\ ~GivesUp
  /\ at' = "fix"
  /\ RequestReads("heal")
  /\ UNCHANGED <<databaseVars, healthVars, processVars, probe, spent, runVars, watchVars>>

Rerun ==
  /\ at = "fix"
  /\ RequestOk("heal")
  /\ StartRun(attempt + 1, nextOnly)
  /\ UNCHANGED <<databaseVars, healthVars, processVars, probe, spent, owed, reported, watchVars>>

FixFails ==
  /\ at = "fix"
  /\ RequestFails("heal")
  /\ at' = "rebase"
  /\ UNCHANGED <<databaseVars, healthVars, processVars, probe, spent, runVars, watchVars>>

-----------------------------------------------------------------------------

\* The steps of the pod that the loop does not take part in.
PodStep ==
  /\ \/ Migrate \/ Seed \/ Bootstrapped \/ BootstrapFails
     \/ Draw \/ Work \/ BeginTurn \/ Exit \/ CheckProcess
     \/ RequestSends \/ AuthProbe \/ ProbeFails
     \/ EndTurn("failed")
  /\ UNCHANGED loopVars

CompleteTurn ==
  /\ EndTurn("completed")
  /\ foreign' = (foreign \/ author = "work")
  /\ UNCHANGED <<at, runVars, seen, basis>>

\* The loop starts only in a container whose probe passed.
StartWatch ==
  /\ ProbePasses
  /\ at' = "first"
  /\ UNCHANGED <<runVars, watchVars>>

RestartPod(from) == Restart(from) /\ LoopOff

LoopStep ==
  \/ WatchFirst \/ WatchTurn \/ Rebaseline
  \/ UnitStep \/ E2EStep \/ RunFails
  \/ Report \/ RequestFix \/ Rerun \/ FixFails

Next ==
  \/ PodStep \/ CompleteTurn \/ StartWatch
  \/ RestartPod("migrate") \/ RestartPod("up")
  \/ LoopStep

Spec == Init /\ [][Next]_vars

\* The loop's own process runs, and a request that waits meets its deadline.
\* Nothing ends a command of the suites but the command itself.
FairSpec ==
  /\ Spec
  /\ WF_vars(LoopStep /\ at \notin Steps)
  /\ WF_vars(RequestSends /\ UNCHANGED loopVars)

-----------------------------------------------------------------------------
(* Properties *)

\* A session that reports its tests verified ran again, and saw pass, every
\* test and every suite that failed in it (the concern of nextOnly: "verified
\* on evidence it never gathered").
VerifiedRan == at = "rebase" /\ reported = "TestsVerified" => owed = {}

\* After a session and the re-baselining that follows it, turns of the loop's
\* own start no other, as the comment there has it.  They may: a fix request
\* that met its deadline is answered after the new baseline was read.
OwnTurnsIgnored ==
  [][attempt > 0 /\ basis # "none" /\ at = "watch" /\ at' \in Steps => foreign]_vars

\* They start none once the baseline was read with every prompt of the loop's
\* own answered, through crashes, restarts and prompts that wait behind other
\* turns.
SettledTurnsIgnored ==
  [][basis = "settled" /\ at = "watch" /\ at' \in Steps => foreign]_vars

\* Every session ends, or hangs for ever in a command of the suites: the fix
\* requests are bounded, and each returns.
HealEnds == at \in Steps ~> (at \in {"watch", "off"} \/ [](at \in Steps))
=============================================================================
