--------------------------- MODULE SelfHealProofs ---------------------------
(***************************************************************************)
(* Proofs about SelfHeal and the Session it runs in: types, what a         *)
(* workspace reported usable has passed, what a session reported verified  *)
(* has run, and that the loop does not start itself.                       *)
(***************************************************************************)
EXTENDS SelfHeal, TLAPS

\* A check that failed last left its mark, or could not write it; the probe of
\* this process is remembered in memory as well.
MarksTrue ==
  /\ \A s \in Sources : verdict[s] = "failed" => s \in marks \cup unwritten
  /\ probe = "done" => verdict["auth"] = "passed" \/ unusable

\* Only a seeded database passes.
SeedTrue ==
  /\ boot = "marker" \/ marker \/ verdict["dbboot"] = "passed" => seeds > 0
  /\ boot = "up" => verdict["dbboot"] # "none"

\* The loop runs after the probe, and has a request under way only while it
\* waits for a fix.
OneRequester ==
  /\ at # "off" => probe = "done"
  /\ at \notin {"off", "fix"} => req = None

UnitNames == Unit \cup {"unit"}
E2ENames == E2E \cup {"e2e"}

\* What is still owed when the unit tests of a run are done: only what the
\* E2E tests of it will run, or the run has failed already.
OwedByE2E ==
  at = "e2e" =>
    \/ unitFailed /\ failed # {} /\ Unit # {} /\ only = {}
    \/ /\ ~unitFailed /\ failed = {} /\ owed \subseteq E2ENames
       /\ \/ only \in {{}, {"e2e"}}
          \/ only \subseteq E2E /\ (Filter => owed \subseteq only)

\* What a run that is over owes is what failed in it, unless the next one is
\* bound to run everything again or to fail.
OwedByRun ==
  at \in {"judge", "fix"} =>
    \/ unitFailed /\ failed # {} /\ Unit # {}
    \/ ~unitFailed /\ failed \subseteq E2E /\ owed \subseteq failed
    \/ ~unitFailed /\ failed = {"e2e"} /\ owed \subseteq E2ENames

RunState ==
  /\ at \in {"unit", "e2e", "judge", "fix"} => reported = None
  /\ at = "unit" => only = {} /\ failed = {} /\ ~unitFailed /\ Unit # {}
  /\ at = "fix" => failed # {}
  /\ OwedByE2E
  /\ OwedByRun

\* The completed turn in the transcript, whatever the process does.
Recorded == IF record.kind = "completed" THEN record.ended ELSE 0

\* No prompt of this process is unanswered.
OwnDone ==
  /\ author \notin Requesters
  /\ \A i \in 1 .. Len(typed) : typed[i] \notin Requesters

\* With a baseline that shows everything, the loop waits with none of its own
\* prompts unanswered, and what completed since is somebody's work.
NothingOwn ==
  at = "watch" /\ ~foreign /\ basis = "settled" =>
    Recorded \in {0, seen} /\ OwnDone


-----------------------------------------------------------------------------
(* Types *)

\* A mark and its removal keep the types.
LEMMA MarkTypes ==
  ASSUME SessionTypeOK, NEW s \in Sources, MarkUnusable(s) \/ ClearUnusable(s)
  PROVE  /\ marks' \subseteq Sources /\ unwritten' \subseteq Sources
         /\ verdict' \in [Sources -> {"none", "passed", "failed"}]
BY DEF SessionTypeOK, MarkUnusable, ClearUnusable

\* Prompts that are typed stay prompts.
LEMMA PasteTypes ==
  ASSUME SessionTypeOK, NEW p \in Prompts, Paste(p)
  PROVE  typed' \in Seq(Prompts)
BY DEF SessionTypeOK, Paste

\* What a turn leaves in the transcript.
LEMMA TurnTypes ==
  ASSUME SessionTypeOK
  PROVE  /\ Idle \in TurnStates /\ [kind |-> "running", ended |-> 0] \in TurnStates
         /\ TurnState \in TurnStates /\ TurnState.ended \in 0 .. MaxTurns
         /\ CompletedAt \in 0 .. MaxTurns
         /\ \A kind \in {"completed", "failed"}, n \in 0 .. MaxTurns :
              [kind |-> kind, ended |-> n] \in TurnStates
<1>1. 0 \in 0 .. MaxTurns
  BY SessionAssumption
<1>2. /\ Idle \in TurnStates /\ [kind |-> "running", ended |-> 0] \in TurnStates
      /\ \A kind \in {"completed", "failed"}, n \in 0 .. MaxTurns :
           [kind |-> kind, ended |-> n] \in TurnStates
  BY <1>1 DEF TurnStates, Idle
<1>3. TurnState \in TurnStates
  BY <1>1, <1>2 DEF SessionTypeOK, TurnState
<1>4. TurnState.ended \in 0 .. MaxTurns
  BY <1>3 DEF TurnStates
<1> QED
  BY <1>1, <1>2, <1>3, <1>4 DEF CompletedAt

\* The init container.
LEMMA BootTypes ==
  ASSUME SessionTypeOK, Migrate \/ Seed \/ Bootstrapped \/ BootstrapFails
  PROVE  SessionTypeOK'
<1>0. "dbboot" \in Sources
  BY DEF Sources
<1>1. CASE Migrate
  BY <1>1 DEF Migrate, SessionTypeOK, healthVars, processVars
<1>2. CASE Seed
  BY <1>2 DEF Seed, SessionTypeOK, healthVars, processVars
<1>3. CASE Bootstrapped
  <2>1. /\ marks' \subseteq Sources /\ unwritten' \subseteq Sources
        /\ verdict' \in [Sources -> {"none", "passed", "failed"}]
    BY <1>0, <1>3, MarkTypes DEF Bootstrapped
  <2> QED
    BY <1>3, <2>1 DEF Bootstrapped, Serve, SessionTypeOK
<1>4. CASE BootstrapFails
  <2>1. /\ marks' \subseteq Sources /\ unwritten' \subseteq Sources
        /\ verdict' \in [Sources -> {"none", "passed", "failed"}]
    BY <1>0, <1>4, MarkTypes DEF BootstrapFails
  <2> QED
    BY <1>4, <2>1 DEF BootstrapFails, Serve, SessionTypeOK
<1> QED
  BY <1>1, <1>2, <1>3, <1>4

\* Claude Code and the process that hosts it.
LEMMA ProcessTypes ==
  ASSUME SessionTypeOK,
         \/ Draw \/ Work \/ BeginTurn \/ Exit \/ CheckProcess
         \/ EndTurn("failed") \/ EndTurn("completed")
         \/ Restart("migrate") \/ Restart("up")
  PROVE  SessionTypeOK'
<1> USE SessionAssumption
<1>1. CASE Draw
  BY <1>1 DEF Draw, SessionTypeOK, databaseVars, healthVars
<1>2. CASE Work
  <2>1. typed' \in Seq(Prompts)
    BY <1>2, PasteTypes DEF Work, Prompts, Authors
  <2>2. spent' \in [work : 0 .. MaxWork, crash : 0 .. MaxCrashes, restart : 0 .. MaxRestarts]
    BY <1>2 DEF Work, SessionTypeOK
  <2> QED
    BY <1>2, <2>1, <2>2 DEF Work, SessionTypeOK, databaseVars, healthVars
<1>3. CASE BeginTurn
  <2>1. typed' \in Seq(Prompts) /\ Head(typed) \in Prompts
    BY <1>3 DEF BeginTurn, SessionTypeOK
  <2>2. author' \in Authors \cup {None}
    BY <1>3, <2>1 DEF BeginTurn, SessionTypeOK, Prompts
  <2>3. record' \in TurnStates
    BY <1>3, TurnTypes DEF BeginTurn, SessionTypeOK
  <2> QED
    BY <1>3, <2>1, <2>2, <2>3 DEF BeginTurn, SessionTypeOK, databaseVars, healthVars
<1>4. ASSUME NEW kind \in {"completed", "failed"}, EndTurn(kind) PROVE SessionTypeOK'
  <2>1. stamp + 1 \in 0 .. MaxTurns
    BY <1>4 DEF EndTurn, SessionTypeOK
  <2>2. record' \in TurnStates
    BY <1>4, <2>1, TurnTypes DEF EndTurn
  <2> QED
    BY <1>4, <2>1, <2>2 DEF EndTurn, SessionTypeOK, databaseVars, healthVars
<1>5. CASE Exit
  <2>1. spent' \in [work : 0 .. MaxWork, crash : 0 .. MaxCrashes, restart : 0 .. MaxRestarts]
    BY <1>5 DEF Exit, SessionTypeOK
  <2> QED
    BY <1>5, <2>1 DEF Exit, SessionTypeOK, databaseVars, healthVars
<1>6. CASE CheckProcess
  <2>1. failure' \in BOOLEAN
    BY <1>6, Zenon DEF CheckProcess
  <2>2. claude' \in {"dead", "drawing", "ready"}
    BY <1>6 DEF CheckProcess, SessionTypeOK
  <2>3. UNCHANGED <<databaseVars, healthVars, typed, author, record, stamp, req, probe, spent>>
    BY <1>6 DEF CheckProcess
  <2> QED
    BY <2>1, <2>2, <2>3 DEF SessionTypeOK, databaseVars, healthVars
<1>7. ASSUME NEW from \in {"migrate", "up"}, Restart(from) PROVE SessionTypeOK'
  <2>1. spent' \in [work : 0 .. MaxWork, crash : 0 .. MaxCrashes, restart : 0 .. MaxRestarts]
    BY <1>7 DEF Restart, SessionTypeOK
  <2>2. failure' \in BOOLEAN /\ unusable' \in BOOLEAN
    BY <1>7, Zenon DEF Restart
  <2>3. /\ boot' = from /\ claude' \in {"drawing", "dead"} /\ typed' = <<>> /\ author' = None
        /\ req' = None /\ probe' = "settle"
        /\ UNCHANGED <<marker, seeds, marks, record, stamp, verdict, unwritten>>
    BY <1>7 DEF Restart
  <2> QED
    BY <2>1, <2>2, <2>3 DEF SessionTypeOK
<1> QED
  BY <1>1, <1>2, <1>3, <1>4, <1>5, <1>6, <1>7

RequestRecord == [by : Requesters, at : {"send", "wait"}, before : 0 .. MaxTurns]

\* The probe and the requests.
LEMMA RequestTypes ==
  ASSUME SessionTypeOK
  PROVE  /\ RequestSends \/ AuthProbe \/ ProbePasses \/ ProbeFails => SessionTypeOK'
         /\ \A by \in Requesters : RequestReads(by) => req' \in RequestRecord
<1>0. "auth" \in Sources /\ Requesters \subseteq Prompts /\ "clear" \in Prompts
  BY DEF Sources, Requesters, Prompts, Authors
<1>1. ASSUME NEW by \in Requesters, RequestReads(by) PROVE req' \in RequestRecord
  BY <1>1, TurnTypes DEF RequestReads, RequestRecord
<1>2. ASSUME RequestSends PROVE SessionTypeOK'
  <2>1. req \in RequestRecord
    BY <1>2 DEF RequestSends, SessionTypeOK, RequestRecord
  <2>2. req' \in RequestRecord /\ req.by \in Requesters
    BY <1>2, <2>1 DEF RequestSends, RequestRecord
  <2>3. typed' \in Seq(Prompts)
    BY <1>0, <1>2, <2>2, PasteTypes DEF RequestSends
  <2> QED
    BY <1>2, <2>2, <2>3 DEF RequestSends, SessionTypeOK, databaseVars, healthVars, RequestRecord
<1>3. ASSUME AuthProbe PROVE SessionTypeOK'
  <2>1. req' \in RequestRecord
    BY <1>1, <1>3 DEF AuthProbe, Requesters
  <2> QED
    BY <1>3, <2>1 DEF AuthProbe, SessionTypeOK, databaseVars, healthVars, processVars, RequestRecord
<1>4. ASSUME ProbePasses PROVE SessionTypeOK'
  <2>1. /\ marks' \subseteq Sources /\ unwritten' \subseteq Sources
        /\ verdict' \in [Sources -> {"none", "passed", "failed"}]
    BY <1>0, <1>4, MarkTypes DEF ProbePasses
  <2>2. typed' \in Seq(Prompts)
    BY <1>0, <1>4, PasteTypes DEF ProbePasses, SessionTypeOK
  <2> QED
    BY <1>4, <2>1, <2>2 DEF ProbePasses, RequestOk, SessionTypeOK, databaseVars
<1>5. ASSUME ProbeFails PROVE SessionTypeOK'
  <2>1. /\ marks' \subseteq Sources /\ unwritten' \subseteq Sources
        /\ verdict' \in [Sources -> {"none", "passed", "failed"}]
    BY <1>0, <1>5, MarkTypes DEF ProbeFails
  <2> QED
    BY <1>5, <2>1 DEF ProbeFails, RequestFails, SessionTypeOK, databaseVars, processVars
<1> QED
  BY <1>1, <1>2, <1>3, <1>4, <1>5

\* The steps in which only the pod moves.
LEMMA PodTypes ==
  ASSUME SessionTypeOK,
         \/ Migrate \/ Seed \/ Bootstrapped \/ BootstrapFails
         \/ Draw \/ Work \/ BeginTurn \/ Exit \/ CheckProcess
         \/ RequestSends \/ AuthProbe \/ ProbeFails \/ ProbePasses
         \/ EndTurn("failed") \/ EndTurn("completed")
         \/ Restart("migrate") \/ Restart("up")
  PROVE  SessionTypeOK'
BY BootTypes, ProcessTypes, RequestTypes

\* A new baseline.
LEMMA BaselineTypes ==
  ASSUME SessionTypeOK, Baseline
  PROVE  seen' \in 0 .. MaxTurns /\ foreign' \in BOOLEAN /\ basis' \in Bases
<1>1. seen' \in 0 .. MaxTurns
  BY TurnTypes DEF Baseline
<1>2. foreign' \in BOOLEAN /\ basis' \in Bases
  BY Zenon DEF Baseline, Bases
<1> QED
  BY <1>1, <1>2

\* A step of a run.
LEMMA StepTypes ==
  ASSUME TypeOK, NEW name \in Steps, NEW ran \in SUBSET Tests, NEW next \in {"e2e", "judge"},
         Step(name, ran, next)
  PROVE  TypeOK'
<1>1. failed' \subseteq FailureNames /\ owed' \subseteq FailureNames
  BY DEF Step, TypeOK, FailureNames
<1>2. unitFailed' \in BOOLEAN
  BY Zenon DEF Step
<1>3. UNCHANGED <<sessionVars, watchVars, attempt, only, reported>> /\ at' = next
  BY DEF Step
<1> QED
  BY <1>1, <1>2, <1>3
  DEF TypeOK, AttemptBounded, SessionTypeOK, sessionVars, watchVars, databaseVars, healthVars,
      processVars

\* Every step keeps the types.
LEMMA TypeStep ==
  ASSUME TypeOK, [Next]_vars
  PROVE  TypeOK'
<1>0. SessionTypeOK /\ MaxHealingAttempts \in Nat
  BY SelfHealAssumption DEF TypeOK
<1>1. CASE UNCHANGED vars
  BY <1>1
  DEF vars, sessionVars, databaseVars, healthVars, processVars, loopVars, runVars, watchVars,
      TypeOK, SessionTypeOK, AttemptBounded
<1>2. CASE PodStep
  <2>1. SessionTypeOK'
    BY <1>0, <1>2, PodTypes DEF PodStep
  <2> QED
    BY <1>2, <2>1 DEF PodStep, TypeOK, AttemptBounded, loopVars, runVars, watchVars
<1>3. CASE CompleteTurn
  <2>1. SessionTypeOK'
    BY <1>0, <1>3, PodTypes DEF CompleteTurn
  <2>2. foreign' \in BOOLEAN
    BY <1>3, Zenon DEF CompleteTurn
  <2>3. UNCHANGED <<at, runVars, seen, basis>>
    BY <1>3 DEF CompleteTurn
  <2> QED
    BY <2>1, <2>2, <2>3 DEF TypeOK, AttemptBounded, runVars
<1>4. CASE StartWatch
  <2>1. SessionTypeOK'
    BY <1>0, <1>4, PodTypes DEF StartWatch
  <2> QED
    BY <1>4, <2>1 DEF StartWatch, TypeOK, AttemptBounded, runVars, watchVars
<1>5. CASE RestartPod("migrate") \/ RestartPod("up")
  <2>1. SessionTypeOK' /\ LoopOff
    BY <1>0, <1>5, PodTypes DEF RestartPod
  <2>2. 0 \in 0 .. MaxTurns
    BY SessionAssumption
  <2>3. unitFailed' \in BOOLEAN /\ foreign' \in BOOLEAN /\ basis' \in Bases
    BY <2>1, Zenon DEF LoopOff, Bases
  <2>4. /\ at' = "off" /\ seen' = 0 /\ attempt' = 0 /\ only' = {} /\ failed' = {}
        /\ reported' = None /\ owed' = {}
    BY <2>1 DEF LoopOff
  <2> QED
    BY <1>0, <2>1, <2>2, <2>3, <2>4 DEF TypeOK, AttemptBounded
<1>6. CASE WatchFirst \/ Rebaseline
  <2>1. seen' \in 0 .. MaxTurns /\ foreign' \in BOOLEAN /\ basis' \in Bases
    BY <1>0, <1>6, BaselineTypes DEF WatchFirst, Rebaseline, Bases, TypeOK
  <2>2. UNCHANGED <<sessionVars, runVars>> /\ at' = "watch"
    BY <1>6 DEF WatchFirst, Rebaseline
  <2> QED
    BY <2>1, <2>2
    DEF TypeOK, SessionTypeOK, AttemptBounded, sessionVars, runVars, databaseVars, healthVars,
        processVars
<1>7. CASE WatchTurn
  <2>1. seen' \in 0 .. MaxTurns
    BY <1>0, <1>7, TurnTypes DEF WatchTurn
  <2>2. /\ attempt' \in 0 .. MaxHealingAttempts + 1 /\ only' = {} /\ failed' = {}
        /\ at' \in {"unit", "e2e"} /\ owed' = {} /\ reported' = None
        /\ UNCHANGED <<sessionVars, foreign, basis>>
    BY <1>0, <1>7 DEF WatchTurn, StartRun
  <2>3. unitFailed' \in BOOLEAN
    BY <1>7, Zenon DEF WatchTurn, StartRun
  <2> QED
    BY <2>1, <2>2, <2>3
    DEF TypeOK, SessionTypeOK, AttemptBounded, sessionVars, databaseVars, healthVars, processVars
<1>8. CASE UnitStep
  <2>1. "unit" \in Steps /\ Unit \in SUBSET Tests /\ Step("unit", Unit, "e2e")
    BY <1>8 DEF UnitStep, Steps, Tests
  <2> QED
    BY <2>1, StepTypes
<1>9. CASE E2EStep
  <2>1. "e2e" \in Steps /\ e2eArgv \in SUBSET Tests /\ Step("e2e", e2eArgv, "judge")
    BY <1>9 DEF E2EStep, Steps, Tests, e2eArgv
  <2> QED
    BY <2>1, StepTypes
<1>10. CASE RunFails \/ Report
  BY <1>10
  DEF RunFails, Report, TypeOK, SessionTypeOK, AttemptBounded, sessionVars, watchVars, runVars,
      databaseVars, healthVars, processVars
<1>11. CASE RequestFix
  <2>1. req' \in RequestRecord
    BY <1>0, <1>11, RequestTypes DEF RequestFix, Requesters
  <2>2. attempt <= MaxHealingAttempts /\ at' = "fix"
    BY <1>0, <1>11 DEF RequestFix, GivesUp, TypeOK
  <2>3. UNCHANGED <<databaseVars, healthVars, processVars, probe, spent, runVars, watchVars>>
    BY <1>11 DEF RequestFix
  <2> QED
    BY <2>1, <2>2, <2>3
    DEF TypeOK, SessionTypeOK, AttemptBounded, watchVars, runVars, databaseVars, healthVars,
        processVars, RequestRecord
<1>12. CASE Rerun
  <2>1. attempt + 1 \in 0 .. MaxHealingAttempts + 1
    BY <1>0, <1>12 DEF Rerun, AttemptBounded, TypeOK
  <2>2. nextOnly \subseteq FailureNames
    BY DEF nextOnly, TypeOK
  <2>3. /\ attempt' = attempt + 1 /\ only' = nextOnly /\ at' \in {"unit", "e2e"} /\ failed' = {}
        /\ req' = None
        /\ UNCHANGED <<databaseVars, healthVars, processVars, probe, spent, owed, reported, watchVars>>
    BY <1>12 DEF Rerun, StartRun, RequestOk
  <2>4. unitFailed' \in BOOLEAN
    BY <1>12, Zenon DEF Rerun, StartRun
  <2> QED
    BY <2>1, <2>2, <2>3, <2>4
    DEF TypeOK, SessionTypeOK, AttemptBounded, watchVars, databaseVars, healthVars, processVars
<1>13. CASE FixFails
  BY <1>13
  DEF FixFails, RequestFails, TypeOK, SessionTypeOK, AttemptBounded, watchVars, runVars,
      databaseVars, healthVars, processVars
<1> QED
  BY <1>1, <1>2, <1>3, <1>4, <1>5, <1>6, <1>7, <1>8, <1>9, <1>10, <1>11, <1>12, <1>13
  DEF Next, LoopStep

\* The pod is about to start.
LEMMA TypeInitial == Init => TypeOK
<1> SUFFICES ASSUME Init PROVE TypeOK
  OBVIOUS
<1> USE SessionAssumption, SelfHealAssumption
<1>1. SessionTypeOK
  <2>1. Idle \in TurnStates
    BY DEF Idle, TurnStates
  <2>2. marker \in BOOLEAN /\ unusable \in BOOLEAN /\ failure \in BOOLEAN
    BY Zenon DEF Init, SessionInit
  <2>3. /\ boot = "migrate" /\ seeds = 0 /\ marks = {} /\ claude = "dead" /\ typed = <<>>
        /\ author = None /\ record = Idle /\ stamp = 0 /\ req = None /\ probe = "settle"
        /\ spent = [work |-> 0, crash |-> 0, restart |-> 0]
        /\ verdict = [s \in Sources |-> "none"] /\ unwritten = {}
    BY DEF Init, SessionInit
  <2> QED
    BY <2>1, <2>2, <2>3 DEF SessionTypeOK
<1>2. unitFailed \in BOOLEAN /\ foreign \in BOOLEAN /\ basis \in Bases
  BY Zenon DEF Init, Bases
<1>3. /\ at = "off" /\ seen = 0 /\ attempt = 0 /\ only = {} /\ failed = {}
      /\ reported = None /\ owed = {}
  BY DEF Init
<1> QED
  BY <1>1, <1>2, <1>3 DEF TypeOK, AttemptBounded

\* The session and the loop over it keep their types through every crash and
\* restart; in particular no more than MaxHealingAttempts fixes are asked for.
THEOREM TypeCorrect == Spec => []TypeOK
<1>1. TypeOK /\ [Next]_vars => TypeOK'
  BY TypeStep
<1> QED
  BY <1>1, TypeInitial, PTL DEF Spec

-----------------------------------------------------------------------------
(* The usability mark *)

\* What the checks leave behind.
LEMMA MarkEffect ==
  ASSUME SessionTypeOK, MarksTrue, NEW s \in Sources
  PROVE  /\ MarkUnusable(s) =>
              /\ verdict'[s] = "failed" /\ \A t \in Sources \ {s} : verdict'[t] = verdict[t]
              /\ \A t \in Sources : verdict'[t] = "failed" => t \in marks' \cup unwritten'
         /\ ClearUnusable(s) =>
              /\ verdict'[s] = "passed" /\ \A t \in Sources \ {s} : verdict'[t] = verdict[t]
              /\ \A t \in Sources : verdict'[t] = "failed" => t \in marks' \cup unwritten'
<1>1. ASSUME MarkUnusable(s)
      PROVE  /\ verdict'[s] = "failed" /\ \A t \in Sources \ {s} : verdict'[t] = verdict[t]
             /\ \A t \in Sources : verdict'[t] = "failed" => t \in marks' \cup unwritten'
  <2>1. verdict'[s] = "failed" /\ \A t \in Sources \ {s} : verdict'[t] = verdict[t]
    BY <1>1 DEF MarkUnusable, SessionTypeOK
  <2>2. s \in marks' \cup unwritten' /\ marks \cup unwritten \subseteq marks' \cup unwritten'
    BY <1>1 DEF MarkUnusable
  <2> QED
    BY <2>1, <2>2 DEF MarksTrue
<1>2. ASSUME ClearUnusable(s)
      PROVE  /\ verdict'[s] = "passed" /\ \A t \in Sources \ {s} : verdict'[t] = verdict[t]
             /\ \A t \in Sources : verdict'[t] = "failed" => t \in marks' \cup unwritten'
  <2>1. verdict'[s] = "passed" /\ \A t \in Sources \ {s} : verdict'[t] = verdict[t]
    BY <1>2 DEF ClearUnusable, SessionTypeOK
  <2>2. \A t \in Sources \ {s} : t \in marks \cup unwritten => t \in marks' \cup unwritten'
    BY <1>2 DEF ClearUnusable
  <2> QED
    BY <2>1, <2>2 DEF MarksTrue
<1> QED
  BY <1>1, <1>2

\* The steps that leave the marks and the database alone.
LEMMA HealthStays ==
  ASSUME [Next]_vars
  PROVE  \/ UNCHANGED <<databaseVars, healthVars, probe>>
         \/ Migrate \/ Seed \/ Bootstrapped \/ BootstrapFails
         \/ AuthProbe \/ ProbePasses \/ ProbeFails
         \/ Restart("migrate") \/ Restart("up")
BY DEF Next, PodStep, CompleteTurn, StartWatch, RestartPod, LoopStep, vars, sessionVars,
       Draw, Work, BeginTurn, Exit, CheckProcess, RequestSends, EndTurn,
       WatchFirst, WatchTurn, Rebaseline, UnitStep, E2EStep, Step, RunFails, Report, RequestFix,
       Rerun, FixFails

\* Every step keeps the marks true.
LEMMA MarksStep ==
  ASSUME SessionTypeOK, MarksTrue, SeedTrue, [Next]_vars
  PROVE  MarksTrue' /\ SeedTrue'
<1>0. "dbboot" \in Sources /\ "auth" \in Sources /\ "dbboot" # "auth" /\ seeds \in Nat
  BY DEF Sources, SessionTypeOK
<1>1. CASE UNCHANGED <<databaseVars, healthVars, probe>>
  BY <1>1 DEF databaseVars, healthVars, MarksTrue, SeedTrue
<1>2. CASE Migrate \/ Seed
  <2>1. UNCHANGED <<healthVars, probe, marker>> /\ boot' \in {"seed", "marker"}
    BY <1>2 DEF Migrate, Seed, processVars
  <2>2. seeds' \in {seeds, seeds + 1} /\ (boot' = "marker" => seeds' = seeds + 1)
    BY <1>2 DEF Migrate, Seed
  <2>3. MarksTrue'
    BY <2>1 DEF MarksTrue, healthVars
  <2>4. SeedTrue'
    BY <1>0, <2>1, <2>2 DEF SeedTrue, healthVars
  <2> QED
    BY <2>3, <2>4
<1>3. CASE Bootstrapped
  <2>1. /\ verdict'["dbboot"] = "passed" /\ verdict'["auth"] = verdict["auth"]
        /\ \A t \in Sources : verdict'[t] = "failed" => t \in marks' \cup unwritten'
    BY <1>0, <1>3, MarkEffect DEF Bootstrapped
  <2>2. boot' = "up" /\ UNCHANGED <<unusable, probe, seeds>> /\ seeds > 0
    BY <1>3 DEF Bootstrapped, Serve, SeedTrue
  <2>3. MarksTrue'
    BY <2>1, <2>2 DEF MarksTrue
  <2>4. SeedTrue'
    BY <2>1, <2>2 DEF SeedTrue
  <2> QED
    BY <2>3, <2>4
<1>4. CASE BootstrapFails
  <2>1. /\ verdict'["dbboot"] = "failed" /\ verdict'["auth"] = verdict["auth"]
        /\ \A t \in Sources : verdict'[t] = "failed" => t \in marks' \cup unwritten'
    BY <1>0, <1>4, MarkEffect DEF BootstrapFails
  <2>2. boot' = "up" /\ UNCHANGED <<unusable, probe, seeds, marker>>
    BY <1>4 DEF BootstrapFails, Serve
  <2>3. MarksTrue'
    BY <2>1, <2>2 DEF MarksTrue
  <2>4. SeedTrue'
    BY <2>1, <2>2 DEF SeedTrue
  <2> QED
    BY <2>3, <2>4
<1>5. CASE AuthProbe
  <2>1. UNCHANGED <<databaseVars, healthVars>> /\ probe' = "ask"
    BY <1>5 DEF AuthProbe
  <2> QED
    BY <2>1 DEF databaseVars, healthVars, MarksTrue, SeedTrue
<1>6. CASE ProbePasses
  <2>1. /\ verdict'["auth"] = "passed" /\ verdict'["dbboot"] = verdict["dbboot"]
        /\ \A t \in Sources : verdict'[t] = "failed" => t \in marks' \cup unwritten'
    BY <1>0, <1>6, MarkEffect DEF ProbePasses
  <2>2. UNCHANGED databaseVars
    BY <1>6 DEF ProbePasses
  <2> QED
    BY <2>1, <2>2 DEF databaseVars, MarksTrue, SeedTrue
<1>7. CASE ProbeFails
  <2>1. /\ verdict'["auth"] = "failed" /\ verdict'["dbboot"] = verdict["dbboot"]
        /\ \A t \in Sources : verdict'[t] = "failed" => t \in marks' \cup unwritten'
    BY <1>0, <1>7, MarkEffect DEF ProbeFails
  <2>2. UNCHANGED databaseVars
    BY <1>7 DEF ProbeFails
  <2>3. unusable'
    BY <1>7, Zenon DEF ProbeFails
  <2>4. MarksTrue'
    BY <2>1, <2>3, Zenon DEF MarksTrue
  <2>5. SeedTrue'
    BY <2>1, <2>2 DEF databaseVars, SeedTrue
  <2> QED
    BY <2>4, <2>5
<1>8. ASSUME NEW from \in {"migrate", "up"}, Restart(from) PROVE MarksTrue' /\ SeedTrue'
  <2>1. /\ UNCHANGED <<marker, seeds, marks, verdict, unwritten>> /\ probe' = "settle"
        /\ boot' = from /\ (from = "up" => boot = "up")
    BY <1>8 DEF Restart, Serving
  <2>2. MarksTrue'
    BY <2>1 DEF MarksTrue
  <2>3. SeedTrue'
    BY <2>1 DEF SeedTrue
  <2> QED
    BY <2>2, <2>3
<1> QED
  BY <1>1, <1>2, <1>3, <1>4, <1>5, <1>6, <1>7, <1>8, HealthStays

\* A workspace that answers usable has passed its checks, through any number
\* of restarts, probes and bootstraps (MarkUnusable, ClearUnusable, Usable):
\* a mark that reached the volume outlives the process that made it, and one
\* check's success never hides the other's failure.
THEOREM UsableAlwaysTrue == Spec => []UsableIsTrue
<1> DEFINE I == TypeOK /\ MarksTrue /\ SeedTrue
<1>1. Init => I
  <2> SUFFICES ASSUME Init PROVE I
    OBVIOUS
  <2>1. /\ \A s \in Sources : verdict[s] = "none"
        /\ boot = "migrate" /\ marker = FALSE /\ probe = "settle"
    BY DEF Init, SessionInit
  <2>2. MarksTrue
    BY <2>1 DEF MarksTrue
  <2>3. SeedTrue
    BY <2>1 DEF SeedTrue, Sources
  <2> QED
    BY <2>2, <2>3, TypeInitial
<1>2. I /\ [Next]_vars => I'
  <2> SUFFICES ASSUME I, [Next]_vars PROVE I'
    OBVIOUS
  <2> QED
    BY TypeStep, MarksStep DEF TypeOK
<1>3. I => UsableIsTrue
  <2> SUFFICES ASSUME I, Serving, Usable
               PROVE  /\ \A s \in Sources \ unwritten : verdict[s] # "failed"
                      /\ "dbboot" \in unwritten \/ seeds > 0
                      /\ probe = "done" => verdict["auth"] = "passed"
    BY DEF UsableIsTrue
  <2>1. ~unusable /\ marks = {} /\ boot = "up"
    BY DEF Usable, Serving
  <2>2. \A s \in Sources \ unwritten : verdict[s] # "failed"
    BY <2>1 DEF MarksTrue
  <2>3. "dbboot" \in unwritten \/ seeds > 0
    <3>1. "dbboot" \in Sources /\ verdict["dbboot"] \in {"none", "passed", "failed"}
      BY DEF Sources, TypeOK, SessionTypeOK
    <3> QED
      BY <2>1, <2>2, <3>1 DEF SeedTrue
  <2>4. probe = "done" => verdict["auth"] = "passed"
    BY <2>1, Zenon DEF MarksTrue
  <2> QED
    BY <2>2, <2>3, <2>4
<1> QED
  BY <1>1, <1>2, <1>3, PTL DEF Spec

-----------------------------------------------------------------------------
(* What a verified session has run *)

\* A filter that matches nothing does not pass.
FilterFails == Filter => ~EmptyPasses

\* A run of the unit tests.
LEMMA UnitOwes ==
  ASSUME TypeOK, RunState, UnitStep
  PROVE  RunState' /\ VerifiedRan'
<1>1. /\ at = "unit" /\ at' = "e2e" /\ reported' = reported /\ only' = only
      /\ \/ \E bad \in SUBSET Unit :
              /\ failed' = failed \cup bad
              /\ owed' = (owed \ (Unit \cup {"unit"})) \cup bad
              /\ unitFailed' = (unitFailed \/ bad # {})
         \/ /\ failed' = failed \cup {"unit"}
            /\ unitFailed' = TRUE
  BY DEF UnitStep, Step, RunState
<1>2. only = {} /\ failed = {} /\ ~unitFailed /\ Unit # {} /\ reported = None
  BY <1>1 DEF RunState
<1>3. owed \subseteq UnitNames \cup E2ENames
  BY DEF TypeOK, FailureNames, Tests, Steps, UnitNames, E2ENames
<1>4. OwedByE2E'
  <2>1. ASSUME NEW bad \in SUBSET Unit, bad # {}, failed' = failed \cup bad,
               unitFailed' = (unitFailed \/ bad # {})
        PROVE  unitFailed' /\ failed' # {}
    BY <2>1
  <2>2. ASSUME failed' = failed \cup {"unit"}, unitFailed' = TRUE
        PROVE  unitFailed' /\ failed' # {}
    BY <2>2
  <2>3. ASSUME NEW bad \in SUBSET Unit, bad = {}, failed' = failed \cup bad,
               owed' = (owed \ (Unit \cup {"unit"})) \cup bad,
               unitFailed' = (unitFailed \/ bad # {})
        PROVE  ~unitFailed' /\ failed' = {} /\ owed' \subseteq E2ENames
    <3>1. ~unitFailed' /\ failed' = {}
      BY <1>2, <2>3
    <3>2. owed' \subseteq E2ENames
      BY <1>3, <2>3 DEF UnitNames
    <3> QED
      BY <3>1, <3>2
  <2>4. \/ unitFailed' /\ failed' # {}
        \/ ~unitFailed' /\ failed' = {} /\ owed' \subseteq E2ENames
    BY <1>1, <2>1, <2>2, <2>3
  <2> QED
    BY <1>1, <1>2, <2>4 DEF OwedByE2E
<1> QED
  BY <1>1, <1>2, <1>4 DEF RunState, OwedByRun, VerifiedRan

\* A run of the E2E tests.
LEMMA E2EOwes ==
  ASSUME TypeOK, FilterFails, RunState, E2EStep
  PROVE  RunState' /\ VerifiedRan'
<1>0. "e2e" \notin E2E /\ E2E # {}
  BY SelfHealAssumption
<1>1. /\ at = "e2e" /\ at' = "judge" /\ reported' = reported
      /\ \/ \E bad \in SUBSET e2eArgv :
              /\ e2eArgv = {} => EmptyPasses
              /\ failed' = failed \cup bad
              /\ owed' = (owed \ (e2eArgv \cup (IF e2eArgv = {} THEN {} ELSE {"e2e"}))) \cup bad
              /\ unitFailed' = (unitFailed \/ FALSE)
         \/ /\ failed' = failed \cup {"e2e"}
            /\ owed' = owed \cup {"e2e"}
            /\ unitFailed' = (unitFailed \/ FALSE)
  BY DEF E2EStep, Step
<1>2. unitFailed' = unitFailed
  BY <1>1 DEF TypeOK
<1>3. reported = None
  BY <1>1 DEF RunState
<1>4. OwedByRun'
  <2>1. CASE unitFailed
    <3>1. failed # {} /\ Unit # {}
      BY <1>1, <2>1 DEF RunState, OwedByE2E
    <3>2. failed' # {}
      BY <1>1, <3>1
    <3> QED
      BY <1>2, <2>1, <3>1, <3>2 DEF OwedByRun
  <2>2. CASE ~unitFailed
    <3>1. /\ failed = {} /\ owed \subseteq E2ENames
          /\ \/ only \in {{}, {"e2e"}}
             \/ only \subseteq E2E /\ (Filter => owed \subseteq only)
      BY <1>1, <2>2 DEF RunState, OwedByE2E
    <3>2. ASSUME failed' = failed \cup {"e2e"}, owed' = owed \cup {"e2e"}
          PROVE  failed' = {"e2e"} /\ owed' \subseteq E2ENames
      BY <3>1, <3>2 DEF E2ENames
    <3>3. ASSUME NEW bad \in SUBSET e2eArgv, e2eArgv = {} => EmptyPasses,
                 failed' = failed \cup bad,
                 owed' = (owed \ (e2eArgv \cup (IF e2eArgv = {} THEN {} ELSE {"e2e"}))) \cup bad
          PROVE  failed' \subseteq E2E /\ owed' \subseteq failed'
      <4>1. e2eArgv \subseteq E2E
        BY DEF e2eArgv
      <4>2. e2eArgv # {}
        BY <1>0, <3>3 DEF FilterFails, e2eArgv
      <4>3. failed' = bad /\ owed' = (owed \ (e2eArgv \cup {"e2e"})) \cup bad
        BY <3>1, <3>3, <4>2
      <4>4. owed \subseteq e2eArgv \cup {"e2e"}
        <5>1. CASE only = {} \/ ~Filter
          BY <3>1, <5>1 DEF e2eArgv, E2ENames
        <5>2. CASE only # {} /\ Filter
          <6>1. only # {"e2e"}
            BY <1>0, <4>2, <5>2 DEF e2eArgv
          <6>2. owed \subseteq only /\ only \subseteq E2E
            BY <3>1, <5>2, <6>1
          <6> QED
            BY <5>2, <6>2 DEF e2eArgv
        <5> QED
          BY <5>1, <5>2
      <4> QED
        BY <4>1, <4>3, <4>4
    <3>4. \/ failed' \subseteq E2E /\ owed' \subseteq failed'
          \/ failed' = {"e2e"} /\ owed' \subseteq E2ENames
      BY <1>1, <3>2, <3>3
    <3> QED
      BY <1>2, <2>2, <3>4 DEF OwedByRun, E2ENames
  <2> QED
    BY <2>1, <2>2
<1> QED
  BY <1>1, <1>3, <1>4 DEF RunState, OwedByE2E, VerifiedRan

\* The next run.
LEMMA RerunOwes ==
  ASSUME TypeOK, RunState, Rerun
  PROVE  RunState' /\ VerifiedRan'
<1>0. "e2e" \notin E2E
  BY SelfHealAssumption
<1>1. /\ at = "fix" /\ only' = nextOnly /\ failed' = {} /\ unitFailed' = FALSE
      /\ at' = IF nextOnly = {} /\ Unit # {} THEN "unit" ELSE "e2e"
      /\ owed' = owed /\ reported' = reported
  BY DEF Rerun, StartRun
<1>2. reported = None /\ failed # {}
  BY <1>1 DEF RunState
<1>3. CASE unitFailed
  <2>1. nextOnly = {} /\ Unit # {}
    BY <1>1, <1>3 DEF RunState, OwedByRun, nextOnly
  <2> QED
    BY <1>1, <1>2, <2>1 DEF RunState, OwedByE2E, OwedByRun, VerifiedRan
<1>4. CASE ~unitFailed
  <2>1. nextOnly = failed
    BY <1>4 DEF nextOnly
  <2>2. \/ failed \subseteq E2E /\ owed \subseteq failed
        \/ failed = {"e2e"} /\ owed \subseteq E2ENames
    BY <1>1, <1>4 DEF RunState, OwedByRun
  <2>3. at' = "e2e" /\ only' = failed
    BY <1>1, <1>2, <2>1
  <2>4. owed' \subseteq E2ENames
    BY <1>1, <2>2 DEF E2ENames
  <2>5. OwedByE2E'
    BY <1>1, <2>2, <2>3, <2>4 DEF OwedByE2E, E2ENames
  <2> QED
    BY <1>1, <1>2, <2>3, <2>5 DEF RunState, OwedByRun, VerifiedRan
<1> QED
  BY <1>3, <1>4

\* Every step keeps account of what is owed.
LEMMA OwedStep ==
  ASSUME TypeOK, FilterFails, RunState, VerifiedRan, [Next]_vars
  PROVE  RunState' /\ VerifiedRan'
<1>0. None # "TestsVerified"
  BY SelfHealAssumption
<1>1. CASE UNCHANGED <<at, runVars>>
  BY <1>1 DEF runVars, RunState, OwedByE2E, OwedByRun, VerifiedRan, E2ENames
<1>2. CASE at' \in {"off", "first", "watch"}
  BY <1>2 DEF RunState, OwedByE2E, OwedByRun, VerifiedRan
<1>3. CASE WatchTurn
  <2>1. /\ only' = {} /\ failed' = {} /\ unitFailed' = FALSE /\ owed' = {} /\ reported' = None
        /\ at' = IF Unit # {} THEN "unit" ELSE "e2e"
    BY <1>3 DEF WatchTurn, StartRun
  <2> QED
    BY <2>1 DEF RunState, OwedByE2E, OwedByRun, VerifiedRan
<1>4. CASE RunFails \/ FixFails
  <2>1. at \in {"unit", "e2e", "fix"} /\ at' = "rebase" /\ UNCHANGED runVars
    BY <1>4 DEF RunFails, FixFails
  <2> QED
    BY <1>0, <2>1 DEF runVars, RunState, OwedByE2E, OwedByRun, VerifiedRan
<1>5. CASE Report
  <2>1. /\ at = "judge" /\ at' = "rebase" /\ owed' = owed
        /\ reported' = IF failed = {} THEN "TestsVerified" ELSE "SelfHealingExhausted"
    BY <1>5 DEF Report
  <2>2. failed = {} => owed = {}
    BY <2>1 DEF RunState, OwedByRun
  <2> QED
    BY <2>1, <2>2 DEF RunState, OwedByE2E, OwedByRun, VerifiedRan
<1>6. CASE RequestFix
  <2>1. at = "judge" /\ at' = "fix" /\ failed # {} /\ UNCHANGED runVars
    BY <1>6 DEF RequestFix, GivesUp
  <2> QED
    BY <2>1 DEF runVars, RunState, OwedByE2E, OwedByRun, VerifiedRan, E2ENames
<1>7. \/ UNCHANGED <<at, runVars>> \/ at' \in {"off", "first", "watch"}
      \/ WatchTurn \/ RunFails \/ FixFails \/ Report \/ RequestFix \/ Rerun \/ UnitStep \/ E2EStep
  BY DEF Next, PodStep, CompleteTurn, StartWatch, RestartPod, LoopOff, LoopStep, vars, loopVars,
         WatchFirst, Rebaseline
<1> QED
  BY <1>1, <1>2, <1>3, <1>4, <1>5, <1>6, <1>7, UnitOwes, E2EOwes, RerunOwes

\* A session that reports its tests verified has seen pass everything that
\* failed in it, for any suites and any number of attempts (nextOnly,
\* e2eArgv), provided a filter that matches no test is not taken for a pass.
\* Narrowing a run is sound because a run owes no more than what failed in
\* it, and a suite that reached no test owes itself.
THEOREM VerifiedAlwaysRan ==
  ASSUME FilterFails
  PROVE  Spec => []VerifiedRan
<1> DEFINE I == TypeOK /\ RunState /\ VerifiedRan
<1>1. Init => I
  <2> SUFFICES ASSUME Init PROVE I
    OBVIOUS
  <2>1. at = "off"
    BY DEF Init
  <2> QED
    BY <2>1, TypeInitial DEF RunState, OwedByE2E, OwedByRun, VerifiedRan
<1>2. I /\ [Next]_vars => I'
  BY TypeStep, OwedStep
<1> QED
  BY <1>1, <1>2, PTL DEF Spec

-----------------------------------------------------------------------------
(* The loop and its own turns *)

\* Every step keeps the loop the only one that sends requests.
LEMMA RequesterStep ==
  ASSUME TypeOK, OneRequester, [Next]_vars
  PROVE  OneRequester'
<1>1. CASE UNCHANGED <<at, req, probe>>
  BY <1>1 DEF OneRequester
<1>2. CASE RequestSends /\ UNCHANGED loopVars
  <2>1. req # None /\ UNCHANGED <<at, probe>>
    BY <1>2 DEF RequestSends, loopVars
  <2> QED
    BY <2>1 DEF OneRequester
<1>3. CASE (AuthProbe \/ ProbeFails) /\ UNCHANGED loopVars
  <2>1. probe \in {"settle", "ask"} /\ UNCHANGED at
    BY <1>3 DEF AuthProbe, ProbeFails, loopVars
  <2>2. at = "off"
    BY <2>1 DEF OneRequester
  <2> QED
    BY <2>1, <2>2 DEF OneRequester
<1>4. CASE StartWatch
  <2>1. probe' = "done" /\ req' = None
    BY <1>4 DEF StartWatch, ProbePasses, RequestOk
  <2> QED
    BY <2>1 DEF OneRequester
<1>5. CASE LoopOff
  BY <1>5 DEF LoopOff, OneRequester
<1>6. CASE RequestFix \/ Rerun \/ FixFails
  <2>1. at # "off" /\ probe' = probe /\ (at' # "fix" => req' = None) /\ at' # "off"
    BY <1>6 DEF RequestFix, Rerun, FixFails, RequestOk, RequestFails, StartRun
  <2> QED
    BY <2>1 DEF OneRequester
<1>7. CASE at \notin {"off", "fix"} /\ UNCHANGED <<req, probe>>
  BY <1>7 DEF OneRequester
<1>8. CASE PodStep
  BY <1>1, <1>2, <1>3, <1>8
  DEF PodStep, loopVars, Migrate, Seed, Bootstrapped, BootstrapFails, Draw, Work, BeginTurn, Exit,
      CheckProcess, EndTurn
<1>9. CASE CompleteTurn \/ UNCHANGED vars
  BY <1>1, <1>9 DEF CompleteTurn, EndTurn, vars, sessionVars, loopVars
<1>10. CASE WatchFirst \/ WatchTurn \/ Rebaseline \/ UnitStep \/ E2EStep \/ RunFails \/ Report
  <2>1. at \notin {"off", "fix"}
    BY <1>10 DEF WatchFirst, WatchTurn, Rebaseline, UnitStep, E2EStep, RunFails, Report
  <2>2. UNCHANGED sessionVars
    BY <1>10 DEF WatchFirst, WatchTurn, Rebaseline, UnitStep, E2EStep, Step, RunFails, Report
  <2> QED
    BY <1>7, <2>1, <2>2 DEF sessionVars
<1> QED
  BY <1>4, <1>5, <1>6, <1>8, <1>9, <1>10 DEF Next, RestartPod, LoopStep

\* What an unfailing process shows is what the transcript holds.
LEMMA ShownIsRecorded ==
  ASSUME TypeOK
  PROVE  CompletedAt \in {0, Recorded} /\ (~failure => CompletedAt = Recorded)
BY DEF CompletedAt, TurnState, Recorded

\* A settled baseline leaves nothing of the loop's own out.
LEMMA BaselineShows ==
  ASSUME TypeOK, Baseline, UNCHANGED sessionVars, basis' = "settled"
  PROVE  Recorded' \in {0, seen'} /\ OwnDone'
<1>1. ~failure /\ Unanswered = {}
  BY Zenon DEF Baseline
<1>2. seen' = Recorded
  BY <1>1, ShownIsRecorded DEF Baseline
<1>3. UNCHANGED <<record, author, typed>> /\ Recorded' = Recorded
  BY DEF sessionVars, processVars, Recorded
<1>4. author \notin Requesters
  BY <1>1 DEF Unanswered
<1>5. ASSUME NEW i \in 1 .. Len(typed) PROVE typed[i] \notin Requesters
  <2>1. i \in DOMAIN typed
    BY DEF TypeOK, SessionTypeOK
  <2>2. typed[i] \in {typed[j] : j \in DOMAIN typed}
    BY <2>1
  <2> QED
    BY <1>1, <2>2 DEF Unanswered
<1> QED
  BY <1>2, <1>3, <1>4, <1>5 DEF OwnDone

\* A step of the pod that types nothing for the loop.
LEMMA OwnStaysDone ==
  ASSUME SessionTypeOK, OwnDone,
         \/ UNCHANGED <<author, typed>>
         \/ Work \/ BeginTurn \/ EndTurn("failed") \/ EndTurn("completed") \/ Exit
  PROVE  OwnDone'
<1>0. /\ typed \in Seq(Prompts) /\ "work" \in Prompts /\ "work" \notin Requesters
      /\ None \notin Requesters
  BY SessionAssumption DEF SessionTypeOK, Prompts, Authors, Requesters
<1>1. CASE UNCHANGED <<author, typed>>
  BY <1>1 DEF OwnDone
<1>2. CASE Work
  <2>1. author' = author /\ typed' \in {typed, Append(typed, "work")}
    BY <1>2 DEF Work, Paste
  <2>2. \A i \in 1 .. Len(Append(typed, "work")) : Append(typed, "work")[i] \notin Requesters
    BY <1>0 DEF OwnDone
  <2> QED
    BY <2>1, <2>2 DEF OwnDone
<1>3. CASE BeginTurn
  <2>1. typed # <<>> /\ typed' = Tail(typed) /\ author' \in {author, Head(typed)}
    BY <1>3 DEF BeginTurn
  <2>2. Len(typed) > 0
    BY <1>0, <2>1
  <2>3. Head(typed) \notin Requesters
    BY <1>0, <2>1, <2>2 DEF OwnDone
  <2>4. \A i \in 1 .. Len(Tail(typed)) : Tail(typed)[i] \notin Requesters
    BY <1>0, <2>1, <2>2 DEF OwnDone
  <2> QED
    BY <2>1, <2>3, <2>4 DEF OwnDone
<1>4. CASE EndTurn("failed") \/ EndTurn("completed")
  BY <1>0, <1>4 DEF EndTurn, OwnDone
<1>5. CASE Exit
  BY <1>0, <1>5 DEF Exit, OwnDone
<1> QED
  BY <1>1, <1>2, <1>3, <1>4, <1>5

\* Every step but somebody's completed turn leaves the loop nothing to notice.
LEMMA NothingOwnStep ==
  ASSUME TypeOK, OneRequester, NothingOwn, [Next]_vars
  PROVE  NothingOwn'
<1> SUFFICES ASSUME at' = "watch", ~foreign', basis' = "settled"
             PROVE  Recorded' \in {0, seen'} /\ OwnDone'
  BY DEF NothingOwn
<1>0. SessionTypeOK
  BY DEF TypeOK
<1>1. CASE WatchFirst \/ Rebaseline
  <2>1. Baseline /\ UNCHANGED sessionVars
    BY <1>1, Zenon DEF WatchFirst, Rebaseline
  <2> QED
    BY <2>1, BaselineShows
<1>2. CASE PodStep
  <2>1. at = "watch" /\ ~foreign /\ basis = "settled" /\ seen' = seen
    BY <1>2 DEF PodStep, loopVars, watchVars
  <2>2. Recorded \in {0, seen} /\ OwnDone /\ req = None /\ probe = "done"
    BY <2>1 DEF NothingOwn, OneRequester
  <2>3. ~RequestSends /\ ~AuthProbe /\ ~ProbeFails
    BY <2>2 DEF RequestSends, AuthProbe, ProbeFails
  <2>4. \/ UNCHANGED <<author, typed, record>>
        \/ Work \/ BeginTurn \/ EndTurn("failed") \/ Exit
    BY <1>2, <2>3
    DEF PodStep, Migrate, Seed, Bootstrapped, BootstrapFails, Draw, CheckProcess, processVars
  <2>5. OwnDone'
    BY <1>0, <2>2, <2>4, OwnStaysDone
  <2>6. Recorded' \in {0, seen}
    <3>1. CASE UNCHANGED record
      BY <2>2, <3>1 DEF Recorded
    <3>2. CASE BeginTurn
      <4>1. record' \in {record, Idle, [kind |-> "running", ended |-> 0]}
        BY <3>2 DEF BeginTurn
      <4> QED
        BY <2>2, <4>1 DEF Recorded, Idle
    <3>3. CASE EndTurn("failed")
      BY <3>3 DEF EndTurn, Recorded
    <3> QED
      BY <2>4, <3>1, <3>2, <3>3 DEF Work, Exit
  <2> QED
    BY <2>1, <2>5, <2>6
<1>3. CASE CompleteTurn
  <2>1. at = "watch" /\ basis = "settled" /\ foreign' = (foreign \/ author = "work")
    BY <1>3 DEF CompleteTurn
  <2>2. ~foreign /\ author # "work"
    BY <2>1, Zenon
  <2>3. author \in Authors
    BY <1>0, <1>3 DEF CompleteTurn, EndTurn, SessionTypeOK
  <2>4. author \in Requesters
    BY <2>2, <2>3 DEF Authors
  <2> QED
    BY <2>1, <2>2, <2>4 DEF NothingOwn, OwnDone
<1>4. CASE UNCHANGED vars
  BY <1>4 DEF vars, sessionVars, processVars, loopVars, watchVars, NothingOwn, Recorded, OwnDone
<1>5. ASSUME \/ StartWatch \/ LoopOff \/ WatchTurn \/ UnitStep \/ E2EStep \/ RunFails \/ Report
             \/ RequestFix \/ Rerun \/ FixFails
      PROVE  at' # "watch"
  BY <1>5
  DEF StartWatch, LoopOff, WatchTurn, StartRun, UnitStep, E2EStep, Step, RunFails, Report,
      RequestFix, Rerun, FixFails
<1> QED
  BY <1>1, <1>2, <1>3, <1>4, <1>5 DEF Next, RestartPod, LoopStep

\* After a baseline read with every prompt of its own answered, a turn that
\* Watch notices is one somebody else asked for, through any crashes, restarts
\* and prompts that wait behind other turns.
THEOREM SettledAlwaysIgnored == Spec => SettledTurnsIgnored
<1> DEFINE I == TypeOK /\ OneRequester /\ NothingOwn
<1>1. Init => I
  <2> SUFFICES ASSUME Init PROVE I
    OBVIOUS
  <2>1. at = "off"
    BY DEF Init
  <2> QED
    BY <2>1, TypeInitial DEF OneRequester, NothingOwn
<1>2. I /\ [Next]_vars => I'
  BY TypeStep, RequesterStep, NothingOwnStep
<1>3. I /\ [Next]_vars => [basis = "settled" /\ at = "watch" /\ at' \in Steps => foreign]_vars
  <2> SUFFICES ASSUME I, Next, basis = "settled", at = "watch", at' \in {"unit", "e2e"}, ~foreign
               PROVE  FALSE
    BY DEF Steps
  <2>1. Recorded \in {0, seen}
    BY DEF NothingOwn
  <2>2. WatchTurn
    BY DEF Next, PodStep, CompleteTurn, StartWatch, RestartPod, LoopOff, LoopStep, loopVars,
           WatchFirst, Rebaseline, UnitStep, E2EStep, RunFails, Report, RequestFix, Rerun, FixFails
  <2>3. CompletedAt \notin {0, seen}
    BY <2>2 DEF WatchTurn
  <2> QED
    BY <2>1, <2>3, ShownIsRecorded
<1> QED
  BY <1>1, <1>2, <1>3, PTL DEF Spec, SettledTurnsIgnored
=============================================================================
