------------------------------ MODULE Handover ------------------------------
(***************************************************************************)
(* Who may type into one workspace's session (gateway/internal/gateway/    *)
(* handover.go, handler.go; supervisor/internal/session/session.go,        *)
(* http.go, tmux.go).  Browsers reach the session through the gateway and  *)
(* never attach to tmux, so a promotion lives in two places: the gateway's *)
(* browserSessions and the supervisor's held.  The gateway keeps the two   *)
(* together with calls that may fail, or be answered too late; developers  *)
(* over SSH attach to tmux beside them; agents type through the            *)
(* supervisor, which lists the writable clients before it pastes.          *)
(*                                                                         *)
(* One gateway, one workspace.  Left out: who the caller is, the output    *)
(* direction, the text itself and the connection counts, which are in      *)
(* Connections.                                                            *)
(***************************************************************************)
EXTENDS Naturals, FiniteSets

CONSTANTS
  Browsers,   \* browser connections; each page load makes an id of its own
  Requests,   \* bound: POST /handover requests under way at a time
  Agents,     \* callers of /input that name no client
  MaxInputs,  \* bound: inputs under way at a time
  Writers,    \* developers who attach over SSH with --takeover
  None        \* no request, no text

ASSUME HandoverAssumption ==
  /\ IsFiniteSet(Browsers)
  /\ MaxInputs \in Nat \ {0}
  /\ Browsers \cap Agents = {}
  /\ Browsers \cap Writers = {}
  /\ Agents \cap Writers = {}
  /\ None \notin Browsers \cup Agents \cup {"held", "paste"}
  /\ None \notin [by : Browsers, at : {"held", "promote", "declare"}]

VARIABLES
  sock,        \* where each browser's socket handler is
  writable,    \* browserSessions: the flag of each attached browser
  request,     \* handover requests under way
  held,        \* Supervisor.held
  tmux,        \* writable clients of the multiplexer
  input,       \* where each sender's /input request is
  granted,     \* history: browsers this supervisor's session was handed to
  since,       \* history: who has held the session since an input began
  leaked       \* history: holds nothing will release any more

gatewayVars == <<sock, writable, request>>
supervisorVars == <<held, tmux, input, granted, since, leaked>>
vars == <<gatewayVars, supervisorVars>>

Senders == Browsers \cup Agents

\* releasing and leaving are the deferred function of the socket handler once
\* it has read the writable flag.
Sockets == {"new", "open", "releasing", "leaving", "gone"}

\* A request waits to read held, to promote, or for its hold to be recorded.
RequestRecord == [by : Browsers, at : {"held", "promote", "declare"}]

TypeOK ==
  /\ sock \in [Browsers -> Sockets]
  /\ writable \in [Browsers -> BOOLEAN]
  /\ request \in [Requests -> RequestRecord \cup {None}]
  /\ held \subseteq Browsers
  /\ tmux \subseteq Writers
  /\ input \in [Senders -> {None, "held", "paste"}]
  /\ granted \subseteq Browsers
  /\ since \in [Senders -> SUBSET (Browsers \cup Writers)]
  /\ leaked \subseteq Browsers

Init ==
  /\ sock = [b \in Browsers |-> "new"]
  /\ writable = [b \in Browsers |-> FALSE]
  /\ request = [r \in Requests |-> None]
  /\ held = {}
  /\ tmux = {}
  /\ input = [s \in Senders |-> None]
  /\ granted = {}
  /\ since = [s \in Senders |-> {}]
  /\ leaked = {}

-----------------------------------------------------------------------------
(* The gateway's sockets *)

Attached == {b \in Browsers : sock[b] \in {"open", "releasing", "leaving"}}

Connect(b) ==
  /\ sock[b] = "new"
  /\ sock' = [sock EXCEPT ![b] = "open"]
  /\ writable' = [writable EXCEPT ![b] = FALSE]
  /\ UNCHANGED <<request, supervisorVars>>

\* What holds for the browsers the session was handed to and the writers, once
\* they go away.
Drop(gone) ==
  /\ granted' = granted \ gone
  /\ since' = [s \in Senders |-> since[s] \ gone]

\* The browser goes away, or the bridge cannot read or write any longer.
EndSocket(b) ==
  /\ sock[b] = "open"
  /\ sock' = [sock EXCEPT ![b] = IF writable[b] THEN "releasing" ELSE "leaving"]
  /\ Drop({b})
  /\ UNCHANGED <<writable, request,
                 held, tmux, input, leaked>>

\* DELETE /clients/{id}.
ReleaseWritable(b) == held' = held \ {b}

Release(b) ==
  /\ sock[b] = "releasing"
  /\ sock' = [sock EXCEPT ![b] = "leaving"]
  /\ ReleaseWritable(b)
  /\ leaked' = leaked \ {b}
  /\ UNCHANGED <<writable, request,
                 tmux, input, granted, since>>

\* The call is lost on its way; it is logged and not made again.
ReleaseFails(b) ==
  /\ sock[b] = "releasing"
  /\ sock' = [sock EXCEPT ![b] = "leaving"]
  /\ leaked' = leaked \cup (held \cap {b})
  /\ UNCHANGED <<writable, request,
                 held, tmux, input, granted, since>>

Detach(b) ==
  /\ sock[b] = "leaving"
  /\ sock' = [sock EXCEPT ![b] = "gone"]
  /\ writable' = [writable EXCEPT ![b] = FALSE]
  /\ UNCHANGED <<request, supervisorVars>>

-----------------------------------------------------------------------------
(* Handover requests *)

End(r) == request' = [request EXCEPT ![r] = None]
Move(r, at) == request' = [request EXCEPT ![r].at = at]

\* GET /clients lists tmux's clients first.  A writable one ends the request.
Ask(r, b) ==
  /\ request[r] = None
  /\ sock[b] = "open"
  /\ tmux = {}
  /\ request' = [request EXCEPT ![r] = [by |-> b, at |-> "held"]]
  /\ UNCHANGED <<sock, writable, supervisorVars>>

\* Then the holds, the caller's own among them.
AskHeld(r) ==
  /\ request[r] # None /\ request[r].at = "held"
  /\ IF held = {} THEN Move(r, "promote") ELSE End(r)
  /\ UNCHANGED <<sock, writable, supervisorVars>>

\* Mutant of MayPromote: another connection's flag is overlooked.
AttachedOnly(b) == b \in Attached

\* promote: under the mutex, unless another connection holds the session.
MayPromote(b) ==
  /\ b \in Attached
  /\ \A other \in Attached \ {b} : ~writable[other]

Promote(r) ==
  /\ request[r] # None /\ request[r].at = "promote"
  /\ LET b == request[r].by IN
     IF MayPromote(b)
     THEN writable' = [writable EXCEPT ![b] = TRUE] /\ Move(r, "declare")
     ELSE UNCHANGED writable /\ End(r)
  /\ UNCHANGED <<sock, supervisorVars>>

\* Mutants of HoldWritable: the takeover is not declared to the supervisor; it
\* is declared for the empty client.
NoHold(b) == held' = held
HoldNobody(b) == held' = held \cup {None}

\* POST /clients/{id}.
HoldWritable(b) == held' = held \cup {b}

\* Nobody releases a hold that comes after its socket looked for one.
Declare(r) ==
  /\ request[r] # None /\ request[r].at = "declare"
  /\ LET b == request[r].by IN
     /\ HoldWritable(b)
     /\ granted' = IF sock[b] = "open" THEN granted \cup {b} ELSE granted
     /\ leaked' = IF sock[b] \in {"open", "releasing"} /\ writable[b]
                  THEN leaked \ {b} ELSE leaked \cup {b}
  /\ End(r)
  /\ UNCHANGED <<sock, writable,
                 tmux, input, since>>

\* The call fails, whether or not the supervisor recorded the hold first.
DeclareFails(r) ==
  /\ request[r] # None /\ request[r].at = "declare"
  /\ LET b == request[r].by IN
     /\ HoldWritable(b) \/ UNCHANGED held
     /\ writable' = [writable EXCEPT ![b] = FALSE]
     /\ leaked' = leaked \cup (held' \cap {b})
  /\ End(r)
  /\ UNCHANGED <<sock,
                 tmux, input, granted, since>>

-----------------------------------------------------------------------------
(* Typing *)

\* A developer attaches with write access; nothing asks who else has it.
Takeover(w) ==
  /\ w \notin tmux
  /\ tmux' = tmux \cup {w}
  /\ UNCHANGED <<gatewayVars, held, input, granted, since, leaked>>

Leave(w) ==
  /\ w \in tmux
  /\ tmux' = tmux \ {w}
  /\ Drop({w})
  /\ UNCHANGED <<gatewayVars, held, input, leaked>>

\* The bridge passes on what the browser types while its flag is set; agents
\* type when they like.  A writable client of tmux refuses the text at once.
Type(s) ==
  /\ input[s] = None
  /\ Cardinality({t \in Senders : input[t] # None}) < MaxInputs
  /\ s \in Browsers => sock[s] = "open" /\ writable[s]
  /\ tmux = {}
  /\ input' = [input EXCEPT ![s] = "held"]
  /\ since' = [since EXCEPT ![s] = granted \ {s}]
  /\ UNCHANGED <<gatewayVars, held, tmux, granted, leaked>>

\* Mutant of firstWritableOther: only tmux's clients are looked at.
TmuxOnly(s) == tmux

\* The holds a sender finds in its way: its own is not.
firstWritableOther(s) == held \ {s}

TypeHeld(s) ==
  /\ input[s] = "held"
  /\ input' = [input EXCEPT ![s] = IF firstWritableOther(s) = {} THEN "paste" ELSE None]
  /\ since' = [since EXCEPT ![s] = IF firstWritableOther(s) = {} THEN @ ELSE {}]
  /\ UNCHANGED <<gatewayVars, held, tmux, granted, leaked>>

\* SyncClaudeMD and SendText, or one of them fails.
Paste(s) ==
  /\ input[s] = "paste"
  /\ input' = [input EXCEPT ![s] = None]
  /\ since' = [since EXCEPT ![s] = {}]
  /\ UNCHANGED <<gatewayVars, held, tmux, granted, leaked>>

-----------------------------------------------------------------------------
(* Failures *)

\* The gateway dies with its sockets; what it declared stays declared.
GatewayCrash ==
  /\ \E b \in Browsers : sock[b] \notin {"new", "gone"}
  /\ sock' = [b \in Browsers |-> IF sock[b] = "new" THEN "new" ELSE "gone"]
  /\ writable' = [b \in Browsers |-> FALSE]
  /\ request' = [r \in Requests |-> None]
  /\ leaked' = held
  /\ Drop(Browsers)
  /\ UNCHANGED <<held, tmux, input>>

\* The container restarts with a new session.  It is down for longer than the
\* bridges' poll interval, so every bridge that is running ends.
SupervisorRestart ==
  /\ held \cup tmux \cup {s \in Senders : input[s] # None} # {}
  /\ held' = {} /\ tmux' = {} /\ leaked' = {} /\ granted' = {}
  /\ input' = [s \in Senders |-> None]
  /\ since' = [s \in Senders |-> {}]
  /\ sock' = [b \in Browsers |->
                IF sock[b] # "open" THEN sock[b]
                ELSE IF writable[b] THEN "releasing" ELSE "leaving"]
  /\ UNCHANGED <<writable, request>>

-----------------------------------------------------------------------------

Socket(b) == Connect(b) \/ EndSocket(b) \/ Release(b) \/ ReleaseFails(b) \/ Detach(b)
Handle(r) == (\E b \in Browsers : Ask(r, b)) \/ AskHeld(r) \/ Promote(r) \/ Declare(r) \/ DeclareFails(r)
Send(s) == Type(s) \/ TypeHeld(s) \/ Paste(s)

Next ==
  \/ \E b \in Browsers : Socket(b)
  \/ \E r \in Requests : Handle(r)
  \/ \E s \in Senders : Send(s)
  \/ \E w \in Writers : Takeover(w) \/ Leave(w)
  \/ GatewayCrash
  \/ SupervisorRestart

Spec == Init /\ [][Next]_vars

-----------------------------------------------------------------------------
(* Properties *)

\* Once a browser has been handed the session and is still connected, nobody
\* else's text that came in after that passes the supervisor's check: the
\* promotion the gateway granted is the hold the supervisor refuses on.
NoTypingOver ==
  \A s \in Senders : input[s] = "paste" => since[s] = {}

\* A browser whose typing the gateway passes on is one the supervisor refuses
\* others for, or is being told about: no failed call, second request or
\* restart leaves a promotion that only the gateway knows.
PromotedHeld ==
  \A b \in Browsers :
    sock[b] = "open" /\ writable[b] =>
      b \in held \/ \E r \in Requests : request[r] = [by |-> b, at |-> "declare"]

\* A hold does not outlive the socket it was declared for, as the comment in
\* the supervisor's http.go has it.  It may: a release is lost, a declaration
\* arrives after the socket looked for one, or the gateway dies.
HoldsEnd == \A b \in held : sock[b] # "gone"

\* However requests and sockets interleave, the gateway never declares a second
\* holder, with whom neither could type, unless the first one's hold leaked.
OneHolder == Cardinality(held \ leaked) <= 1
=============================================================================
