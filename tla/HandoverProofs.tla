--------------------------- MODULE HandoverProofs ---------------------------
(***************************************************************************)
(* Proofs about Handover: its types, and that for any number of browsers,  *)
(* requests, agents and developers the promotions of the gateway and the   *)
(* holds of the supervisor stay together.                                  *)
(***************************************************************************)
EXTENDS Handover, FiniteSetTheorems, TLAPS

\* What is true of a hold that nobody will forget: its browser is connected
\* and promoted.  Who was handed the session since a text came in holds it.
Open(b) == sock[b] = "open"

GrantsHeld == \A b \in granted : b \in held /\ Open(b)

SinceHeld == \A s \in Senders : \A b \in since[s] : b \in held /\ b # s /\ Open(b)

\* A hold belongs to a connected, promoted browser, or to one of the ways to
\* lose it: the gateway died, a release or the answer to a declaration was
\* lost, or the socket closed before the declaration arrived.
HoldsAccounted ==
  \A b \in held \ leaked : writable[b] /\ sock[b] \in {"open", "releasing"}

\* promote's mutex: one connection's flag at a time, until it is detached.
OnePromoted ==
  \A a, b \in Attached : writable[a] /\ writable[b] => a = b

\* The inductive invariant of the theorems below.
Inv ==
  /\ TypeOK
  /\ GrantsHeld
  /\ SinceHeld
  /\ NoTypingOver
  /\ HoldsAccounted
  /\ OnePromoted
  /\ PromotedHeld

-----------------------------------------------------------------------------
(* Types *)

\* A request in progress is one.
LEMMA Asking ==
  ASSUME TypeOK, NEW r \in Requests, request[r] # None
  PROVE  request[r] \in RequestRecord /\ request[r].by \in Browsers
BY DEF TypeOK, RequestRecord

\* The steps of requests keep them typed.
LEMMA RequestTypes ==
  ASSUME TypeOK, NEW r \in Requests
  PROVE  /\ End(r) => request' \in [Requests -> RequestRecord \cup {None}]
         /\ \A at \in {"held", "promote", "declare"} :
              request[r] # None /\ Move(r, at) => request' \in [Requests -> RequestRecord \cup {None}]
<1>1. End(r) => request' \in [Requests -> RequestRecord \cup {None}]
  BY DEF End, TypeOK
<1>2. ASSUME NEW at \in {"held", "promote", "declare"}, request[r] # None, Move(r, at)
      PROVE  request' \in [Requests -> RequestRecord \cup {None}]
  <2>1. request[r] \in RequestRecord
    BY <1>2, Asking
  <2>2. [request[r] EXCEPT !.at = at] \in RequestRecord
    BY <2>1 DEF RequestRecord
  <2> QED
    BY <1>2, <2>2 DEF Move, TypeOK
<1> QED
  BY <1>1, <1>2

\* Every step keeps the types.
LEMMA TypeStep == TypeOK /\ [Next]_vars => TypeOK'
<1> SUFFICES ASSUME TypeOK, [Next]_vars PROVE TypeOK'
  OBVIOUS
<1> USE DEF TypeOK
<1>1. ASSUME NEW b \in Browsers, Socket(b) PROVE TypeOK'
  <2>1. CASE Connect(b) \/ Detach(b)
    BY <2>1 DEF Connect, Detach, Sockets, supervisorVars
  <2>2. CASE EndSocket(b)
    BY <2>2 DEF EndSocket, Drop, Sockets
  <2>3. CASE Release(b) \/ ReleaseFails(b)
    BY <2>3 DEF Release, ReleaseWritable, ReleaseFails, Sockets
  <2> QED
    BY <1>1, <2>1, <2>2, <2>3 DEF Socket
<1>2. ASSUME NEW r \in Requests, NEW b \in Browsers, Ask(r, b) PROVE TypeOK'
  BY <1>2 DEF Ask, RequestRecord, supervisorVars
<1>3. ASSUME NEW r \in Requests, AskHeld(r) PROVE TypeOK'
  <2>1. request' \in [Requests -> RequestRecord \cup {None}]
    BY <1>3, RequestTypes DEF AskHeld
  <2> QED
    BY <1>3, <2>1 DEF AskHeld, supervisorVars
<1>4. ASSUME NEW r \in Requests, Promote(r) PROVE TypeOK'
  <2>1. request' \in [Requests -> RequestRecord \cup {None}]
    BY <1>4, RequestTypes DEF Promote
  <2>2. writable' \in [Browsers -> BOOLEAN]
    BY <1>4 DEF Promote
  <2> QED
    BY <1>4, <2>1, <2>2 DEF Promote, supervisorVars
<1>5. ASSUME NEW r \in Requests, Declare(r) \/ DeclareFails(r) PROVE TypeOK'
  <2>1. request' \in [Requests -> RequestRecord \cup {None}]
    BY <1>5, RequestTypes DEF Declare, DeclareFails
  <2>2. request[r].by \in Browsers
    BY <1>5, Asking DEF Declare, DeclareFails
  <2> QED
    BY <1>5, <2>1, <2>2 DEF Declare, DeclareFails, HoldWritable
<1>6. ASSUME NEW s \in Senders, Send(s) PROVE TypeOK'
  <2>1. since' \in [Senders -> SUBSET (Browsers \cup Writers)]
    BY <1>6 DEF Send, Type, TypeHeld, Paste
  <2>2. input' \in [Senders -> {None, "held", "paste"}]
    BY <1>6 DEF Send, Type, TypeHeld, Paste
  <2> QED
    BY <1>6, <2>1, <2>2 DEF Send, Type, TypeHeld, Paste, gatewayVars
<1>7. ASSUME NEW w \in Writers, Takeover(w) \/ Leave(w) PROVE TypeOK'
  BY <1>7 DEF Takeover, Leave, Drop, gatewayVars
<1>8. CASE GatewayCrash
  BY <1>8 DEF GatewayCrash, Drop, Sockets
<1>9. CASE SupervisorRestart
  BY <1>9 DEF SupervisorRestart, Sockets
<1>10. CASE UNCHANGED vars
  BY <1>10 DEF vars, gatewayVars, supervisorVars
<1> QED
  BY <1>1, <1>2, <1>3, <1>4, <1>5, <1>6, <1>7, <1>8, <1>9, <1>10 DEF Next, Handle

\* The state of the gateway and the supervisor keeps its types.
THEOREM TypeCorrect == Spec => []TypeOK
<1>1. Init => TypeOK
  BY DEF Init, TypeOK, Sockets
<1> QED
  BY <1>1, TypeStep, PTL DEF Spec

-----------------------------------------------------------------------------
(* Promotions and holds *)

\* Every step keeps promotions and holds together: a promotion is declared by
\* the request that made it, and a hold goes only with its socket.
LEMMA PromotedStep ==
  ASSUME Inv, [Next]_vars
  PROVE  PromotedHeld'
<1>0. TypeOK /\ TypeOK' /\ PromotedHeld
  BY TypeStep DEF Inv
<1> DEFINE Told(b) == b \in held \/ \E r \in Requests : request[r] = [by |-> b, at |-> "declare"]
<1> SUFFICES ASSUME NEW b \in Browsers, sock'[b] = "open", writable'[b] PROVE Told(b)'
  BY DEF PromotedHeld
<1>1. sock[b] = "open" /\ writable[b] => Told(b)
  BY <1>0 DEF PromotedHeld
<1>2. ASSUME UNCHANGED <<sock, writable, request>>, held \subseteq held' PROVE Told(b)'
  BY <1>1, <1>2
<1>3. ASSUME NEW a \in Browsers, Socket(a) PROVE Told(b)'
  <2>1. CASE Connect(a)
    <3>1. b # a
      BY <1>0, <2>1 DEF Connect, TypeOK
    <3> QED
      BY <1>0, <1>1, <2>1, <3>1 DEF Connect, supervisorVars, TypeOK
  <2>2. CASE EndSocket(a) \/ Release(a) \/ ReleaseFails(a) \/ Detach(a)
    <3>1. b # a /\ UNCHANGED request /\ sock[b] = "open" /\ writable[b]
      BY <1>0, <2>2 DEF EndSocket, Release, ReleaseFails, Detach, TypeOK
    <3>2. b \in held => b \in held'
      BY <2>2, <3>1 DEF EndSocket, Release, ReleaseWritable, ReleaseFails, Detach, supervisorVars
    <3> QED
      BY <1>1, <3>1, <3>2
  <2> QED
    BY <1>3, <2>1, <2>2 DEF Socket
<1>4. ASSUME NEW r \in Requests, Handle(r) PROVE Told(b)'
  <2>0. /\ request \in [Requests -> RequestRecord \cup {None}]
        /\ writable \in [Browsers -> BOOLEAN]
    BY <1>0 DEF TypeOK
  <2>1. ASSUME UNCHANGED <<sock, writable, held>>,
               \A q \in Requests \ {r} : request'[q] = request[q],
               request[r] = None \/ request[r].at # "declare"
        PROVE  Told(b)'
    <3>1. Told(b)
      BY <1>1, <2>1
    <3>2. CASE b \in held
      BY <2>1, <3>2
    <3>3. ASSUME NEW q \in Requests, request[q] = [by |-> b, at |-> "declare"] PROVE Told(b)'
      <4>1. q # r
        BY <2>1, <3>3, HandoverAssumption
      <4> QED
        BY <2>1, <3>3, <4>1
    <3> QED
      BY <3>1, <3>2, <3>3
  <2>2. ASSUME NEW a \in Browsers, Ask(r, a) PROVE Told(b)'
    BY <2>0, <2>1, <2>2 DEF Ask, supervisorVars
  <2>3. CASE AskHeld(r)
    <3>1. \A q \in Requests \ {r} : request'[q] = request[q]
      BY <2>0, <2>3 DEF AskHeld, Move, End
    <3> QED
      BY <2>1, <2>3, <3>1 DEF AskHeld, supervisorVars
  <2>4. CASE Promote(r)
    <3>1. \A q \in Requests \ {r} : request'[q] = request[q]
      BY <2>0, <2>4 DEF Promote, Move, End
    <3>2. CASE UNCHANGED writable
      BY <2>1, <2>4, <3>1, <3>2 DEF Promote, supervisorVars
    <3>3. CASE writable' = [writable EXCEPT ![request[r].by] = TRUE] /\ Move(r, "declare")
      <4>1. CASE b = request[r].by
        <5>1. request[r] \in RequestRecord
          BY <1>0, <2>4, Asking DEF Promote
        <5>2. request'[r] = [request[r] EXCEPT !.at = "declare"]
          BY <2>0, <3>3 DEF Move
        <5>3. request'[r] = [by |-> b, at |-> "declare"]
          BY <4>1, <5>1, <5>2 DEF RequestRecord
        <5> QED
          BY <5>3
      <4>2. CASE b # request[r].by
        <5>1. writable[b] /\ UNCHANGED <<sock, held>>
          BY <2>0, <2>4, <3>3, <4>2 DEF Promote, supervisorVars
        <5>2. CASE b \in held
          BY <5>1, <5>2
        <5>3. ASSUME NEW q \in Requests, request[q] = [by |-> b, at |-> "declare"] PROVE Told(b)'
          <6>1. q # r
            BY <4>2, <5>3
          <6> QED
            BY <3>1, <5>3, <6>1
        <5> QED
          BY <1>1, <5>1, <5>2, <5>3
      <4> QED
        BY <4>1, <4>2
    <3> QED
      BY <2>4, <3>2, <3>3 DEF Promote
  <2>5. CASE Declare(r) \/ DeclareFails(r)
    <3>1. /\ \A q \in Requests \ {r} : request'[q] = request[q]
          /\ held \subseteq held' /\ UNCHANGED sock
      BY <2>0, <2>5 DEF Declare, DeclareFails, HoldWritable, End
    <3>2. CASE b = request[r].by
      <4>1. ~DeclareFails(r)
        BY <2>0, <3>2 DEF DeclareFails
      <4> QED
        BY <2>5, <3>2, <4>1 DEF Declare, HoldWritable
    <3>3. CASE b # request[r].by
      <4>1. writable[b]
        BY <2>0, <2>5, <3>3 DEF Declare, DeclareFails
      <4>2. CASE b \in held
        BY <3>1, <4>2
      <4>3. ASSUME NEW q \in Requests, request[q] = [by |-> b, at |-> "declare"] PROVE Told(b)'
        <5>1. q # r
          BY <3>3, <4>3
        <5> QED
          BY <3>1, <4>3, <5>1
      <4> QED
        BY <1>1, <3>1, <4>1, <4>2, <4>3
    <3> QED
      BY <3>2, <3>3
  <2> QED
    BY <1>4, <2>2, <2>3, <2>4, <2>5 DEF Handle
<1>5. ASSUME NEW s \in Senders, Send(s) PROVE Told(b)'
  BY <1>2, <1>5 DEF Send, Type, TypeHeld, Paste, gatewayVars
<1>6. ASSUME NEW w \in Writers, Takeover(w) \/ Leave(w) PROVE Told(b)'
  BY <1>2, <1>6 DEF Takeover, Leave, gatewayVars
<1>7. CASE GatewayCrash
  BY <1>7 DEF GatewayCrash
<1>8. CASE SupervisorRestart
  BY <1>8 DEF SupervisorRestart
<1>9. CASE UNCHANGED vars
  BY <1>2, <1>9 DEF vars, gatewayVars, supervisorVars
<1> QED
  BY <1>3, <1>4, <1>5, <1>6, <1>7, <1>8, <1>9 DEF Next

\* Every step keeps the invariant.
LEMMA InvStep ==
  ASSUME Inv, [Next]_vars
  PROVE  Inv'
<1>1. TypeOK /\ TypeOK'
  BY TypeStep DEF Inv
<1> DEFINE Typing == GrantsHeld /\ SinceHeld /\ NoTypingOver
           Holding == HoldsAccounted /\ OnePromoted
<1> SUFFICES Typing' /\ Holding'
  BY <1>1, PromotedStep DEF Inv
<1> USE <1>1 DEF Inv, Open, GrantsHeld, SinceHeld, NoTypingOver, HoldsAccounted, OnePromoted, Attached
<1>2. ASSUME NEW b \in Browsers, Connect(b) PROVE Typing' /\ Holding'
  <2>1. Typing'
    BY <1>2 DEF Connect, supervisorVars, TypeOK
  <2>2. Holding'
    BY <1>2 DEF Connect, supervisorVars, TypeOK
  <2> QED
    BY <2>1, <2>2
<1>3. ASSUME NEW b \in Browsers, EndSocket(b) PROVE Typing' /\ Holding'
  <2>1. Typing'
    BY <1>3 DEF EndSocket, Drop, TypeOK
  <2>2. Holding'
    BY <1>3 DEF EndSocket, TypeOK
  <2> QED
    BY <2>1, <2>2
<1>4. ASSUME NEW b \in Browsers, Release(b) \/ ReleaseFails(b) PROVE Typing' /\ Holding'
  <2>1. Typing'
    BY <1>4 DEF Release, ReleaseFails, ReleaseWritable, TypeOK
  <2>2. Holding'
    BY <1>4 DEF Release, ReleaseFails, ReleaseWritable, TypeOK
  <2> QED
    BY <2>1, <2>2
<1>5. ASSUME NEW b \in Browsers, Detach(b) PROVE Typing' /\ Holding'
  <2>1. Typing'
    BY <1>5 DEF Detach, supervisorVars, TypeOK
  <2>2. Holding'
    BY <1>5 DEF Detach, supervisorVars, TypeOK
  <2> QED
    BY <2>1, <2>2
<1>6. ASSUME NEW r \in Requests, (\E b \in Browsers : Ask(r, b)) \/ AskHeld(r)
      PROVE  Typing' /\ Holding'
  BY <1>6 DEF Ask, AskHeld, supervisorVars
<1>7. ASSUME NEW r \in Requests, Promote(r) PROVE Typing' /\ Holding'
  <2>1. Typing'
    BY <1>7 DEF Promote, supervisorVars
  <2>2. Holding'
    <3>1. request[r].by \in Browsers
      BY <1>7, Asking DEF Promote
    <3> QED
      BY <1>7, <3>1 DEF Promote, MayPromote, supervisorVars, TypeOK
  <2> QED
    BY <2>1, <2>2
<1>8. ASSUME NEW r \in Requests, Declare(r) PROVE Typing' /\ Holding'
  BY <1>8 DEF Declare, HoldWritable, TypeOK
<1>9. ASSUME NEW r \in Requests, DeclareFails(r) PROVE Typing' /\ Holding'
  <2>1. request[r].by \in Browsers
    BY <1>9, Asking DEF DeclareFails
  <2> QED
    BY <1>9, <2>1 DEF DeclareFails, HoldWritable, TypeOK
<1>10. ASSUME NEW s \in Senders, Send(s) PROVE Typing' /\ Holding'
  <2>1. CASE Type(s)
    BY <2>1, HandoverAssumption DEF Type, gatewayVars, TypeOK
  <2>2. CASE TypeHeld(s)
    BY <2>2, HandoverAssumption DEF TypeHeld, firstWritableOther, gatewayVars, TypeOK
  <2>3. CASE Paste(s)
    BY <2>3, HandoverAssumption DEF Paste, gatewayVars, TypeOK
  <2> QED
    BY <1>10, <2>1, <2>2, <2>3 DEF Send
<1>11. ASSUME NEW w \in Writers, Takeover(w) \/ Leave(w) PROVE Typing' /\ Holding'
  BY <1>11 DEF Takeover, Leave, Drop, gatewayVars, TypeOK
<1>12. CASE GatewayCrash
  BY <1>12 DEF GatewayCrash, Drop, TypeOK
<1>13. CASE SupervisorRestart
  BY <1>13, HandoverAssumption DEF SupervisorRestart, TypeOK
<1>14. CASE UNCHANGED vars
  BY <1>14 DEF vars, gatewayVars, supervisorVars
<1> QED
  BY <1>2, <1>3, <1>4, <1>5, <1>6, <1>7, <1>8, <1>9, <1>10, <1>11, <1>12, <1>13, <1>14
  DEF Next, Socket, Handle

\* Nobody is connected at first.
LEMMA InvInitial == Init => Inv
<1>1. Init => TypeOK
  BY DEF Init, TypeOK, Sockets
<1>2. Init => GrantsHeld /\ SinceHeld /\ NoTypingOver /\ HoldsAccounted /\ OnePromoted /\ PromotedHeld
  BY HandoverAssumption
  DEF Init, GrantsHeld, SinceHeld, NoTypingOver, HoldsAccounted, OnePromoted, PromotedHeld, Attached
<1> QED
  BY <1>1, <1>2 DEF Inv

\* The invariant holds of every state.
LEMMA InvAlways == Spec => []Inv
<1>1. Inv /\ [Next]_vars => Inv'
  BY InvStep
<1> QED
  BY <1>1, InvInitial, PTL DEF Spec

\* No text that came in after a browser was handed the session passes the
\* supervisor's check while that browser is connected, however the calls
\* between gateway and supervisor fail.
THEOREM NobodyTypesOver == Spec => []NoTypingOver
<1>1. Inv => NoTypingOver
  BY DEF Inv
<1> QED
  BY <1>1, InvAlways, PTL

\* A browser the gateway lets type is held by the supervisor, or its
\* declaration is under way.
THEOREM PromotionsAreHeld == Spec => []PromotedHeld
<1>1. Inv => PromotedHeld
  BY DEF Inv
<1> QED
  BY <1>1, InvAlways, PTL

\* The gateway never declares a second holder to the supervisor unless the
\* first one's hold leaked, for any number of browsers that ask at once.
THEOREM SingleHolder == Spec => []OneHolder
<1>1. Inv => OneHolder
  <2> SUFFICES ASSUME Inv PROVE OneHolder
    OBVIOUS
  <2>1. \A a, b \in held \ leaked : a = b
    BY DEF Inv, TypeOK, HoldsAccounted, OnePromoted, Attached
  <2>2. CASE held \ leaked = {}
    BY <2>2, FS_EmptySet DEF OneHolder
  <2>3. ASSUME NEW b \in held \ leaked PROVE OneHolder
    <3>1. held \ leaked = {b}
      BY <2>1, <2>3
    <3>2. Cardinality({b}) = 1
      BY FS_Singleton
    <3> QED
      BY <3>1, <3>2 DEF OneHolder
  <2> QED
    BY <2>2, <2>3
<1> QED
  BY <1>1, InvAlways, PTL
=============================================================================
