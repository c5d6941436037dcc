------------------------------ MODULE Identity ------------------------------
(***************************************************************************)
(* What the gateway keeps in Secrets and how its replicas agree on it      *)
(* (gateway/internal/gateway: sshca_bootstrap.go, identity_bootstrap.go,   *)
(* userstore.go, session_issuer.go, authroutes.go; cmd/gateway/main.go).   *)
(* A replica that starts makes sure of the SSH authority's key and its     *)
(* published half, of the administrator and its initial credential, and of *)
(* the session key; two replicas of a rolling update do so at the same     *)
(* time and may die at any call.  Password changes read and write the one  *)
(* user Secret under its resourceVersion.                                  *)
(*                                                                         *)
(* A random value is named after the start that draws it.  The clock is    *)
(* shared and its readings differ.  Left out: expiry of sessions and       *)
(* certificates, the external identity provider, hashing.                  *)
(***************************************************************************)
EXTENDS Naturals, FiniteSets

CONSTANTS
  Replicas,    \* gateway processes
  Changes,     \* password change requests; each sets a password of its own
  Users, Admin,
  MaxStarts,   \* bound: starts of all replicas together
  MaxRetries,  \* maxUserStoreRetries
  MaxClock,    \* bound: readings of the clock
  MaxSessions, \* bound: sessions issued
  Operator,    \* an authority's key the operator put in place
  Stale,       \* the public key of an earlier authority
  Empty,       \* a Secret that holds no key
  Old,         \* the password an earlier deployment left
  None

ASSUME IdentityAssumption ==
  /\ Admin \in Users
  /\ Replicas \cap Changes = {}
  /\ {MaxStarts, MaxRetries, MaxClock, MaxSessions} \subseteq Nat
  /\ MaxRetries > 0

VARIABLES
  keySecret,   \* the Secrets of the SSH authority's and of the session key
  pub,         \* the published public key
  store,       \* the user Secret
  credential,  \* the Secret with the initial credential
  at,          \* where each replica's start is
  held,        \* the keys each replica works with
  seen,        \* the version of the published key each replica read; 0 for none
  starts,      \* starts so far
  own,         \* the start each replica runs, which names what it draws
  change,      \* where each password change is
  snap,        \* the user Secret each start and change last read, to write back
  stamp,       \* the UpdatedAt each will write
  tries,       \* rounds of mutate
  clock,
  sessions,    \* sessions issued
  latest,      \* history: the password of the last write accepted for each user
  revoked,     \* history: when the last change that succeeded was asked for
  orphaned     \* history: a start died between creating and publishing the administrator

secretVars == <<keySecret, pub, store, credential>>
replicaVars == <<at, held, seen, starts, own>>
mutateVars == <<snap, stamp, tries>>
historyVars == <<latest, revoked, orphaned>>
vars == <<secretVars, replicaVars, change, mutateVars, clock, sessions, historyVars>>

Keys == {"ca", "session"}
Drawn == [start : 1 .. MaxStarts]
Passwords == Drawn \cup Changes \cup {Old}
KeyValues == Drawn \cup {Operator}

\* The steps of main before it listens, in their order.
Starting ==
  (Keys \X {"read", "create", "adopt"})
    \cup {<<"pub", "read">>, <<"pub", "write">>,
          <<"user", "read">>, <<"user", "write">>, <<"user", "publish">>}

Down == <<"gateway", "down">>
Up == <<"gateway", "serving">>

UserRecord == [hash : Passwords, updated : 0 .. MaxClock]
Secret(S) == [value : S, version : Nat] \cup {None}
UserMap == [Users -> UserRecord \cup {None}]

\* What is missing is no value, and no one sets a password the gateway draws.
ASSUME NoneAssumption ==
  /\ None \notin KeyValues \cup Passwords
  /\ None \notin UserRecord \cup [value : UserMap \cup KeyValues \cup {Stale}, version : Nat]
  /\ (Changes \cup {Old}) \cap Drawn = {}

TypeOK ==
  /\ keySecret \in [Keys -> KeyValues \cup {Empty, None}]
  /\ pub \in Secret(KeyValues \cup {Stale})
  /\ store \in Secret(UserMap)
  /\ credential \in Drawn \cup {Old, None}
  /\ at \in [Replicas -> Starting \cup {Down, Up}]
  /\ held \in [Replicas -> [Keys -> KeyValues \cup {None}]]
  /\ seen \in [Replicas -> Nat]
  /\ starts \in 0 .. MaxStarts
  /\ own \in [Replicas -> 0 .. MaxStarts]
  /\ change \in [Changes -> [at : {"new", "read", "write", "done"},
                             user : Users \cup {None}, began : 0 .. MaxClock]]
  /\ snap \in [Replicas \cup Changes -> Secret(UserMap)]
  /\ stamp \in [Replicas \cup Changes -> 0 .. MaxClock]
  /\ tries \in [Replicas \cup Changes -> 0 .. MaxRetries - 1]
  /\ clock \in 0 .. MaxClock
  /\ sessions \subseteq [user : Users, issued : 0 .. MaxClock, key : KeyValues]
  /\ latest \in [Users -> Passwords \cup {None}]
  /\ revoked \in [Users -> 0 .. MaxClock]
  /\ orphaned \in BOOLEAN

NoUser == [u \in Users |-> None]
Has(s, u) == s # None /\ s.value[u] # None
Version(s) == IF s = None THEN 0 ELSE s.version
Fresh(v) == [value |-> v, version |-> 1]

\* The operator may have put the authority's Secret in place, with a key or
\* without one; the one before it may still be published; an earlier
\* deployment may have left users and, where GATEWAY_ADMIN_USERNAME named
\* another of them, that one's credential.  (Where it named Admin nobody looks
\* at the credential again, left or not.)
Init ==
  /\ keySecret \in [Keys -> {None, Empty, Operator}]
  /\ keySecret["session"] = None
  /\ pub \in {None} \cup {Fresh(Stale) : k \in {Operator} \cap {keySecret["ca"]}}
  /\ store \in {None} \cup
       {Fresh([u \in Users |-> IF u \in left THEN [hash |-> Old, updated |-> 0] ELSE None]) :
          left \in (SUBSET Users) \ {{}}}
  /\ credential \in {None} \cup {Old : s \in {store} \ {None}}
  /\ Has(store, Admin) => credential = None
  /\ at = [r \in Replicas |-> Down]
  /\ held = [r \in Replicas |-> [k \in Keys |-> None]]
  /\ seen = [r \in Replicas |-> 0]
  /\ starts = 0
  /\ own = [r \in Replicas |-> 0]
  /\ change = [c \in Changes |-> [at |-> "new", user |-> None, began |-> 0]]
  /\ snap = [a \in Replicas \cup Changes |-> None]
  /\ stamp = [a \in Replicas \cup Changes |-> 0]
  /\ tries = [a \in Replicas \cup Changes |-> 0]
  /\ clock = 0
  /\ sessions = {}
  /\ latest = [u \in Users |-> None]
  /\ revoked = [u \in Users |-> 0]
  /\ orphaned = FALSE

\* What this start draws.
Own(r) == [start |-> own[r]]

Go(r, next) == at' = [at EXCEPT ![r] = next]
Tick == clock < MaxClock /\ clock' = clock + 1

-----------------------------------------------------------------------------
(* A replica's life *)

Start(r) ==
  /\ at[r] = Down
  /\ starts < MaxStarts
  /\ starts' = starts + 1
  /\ own' = [own EXCEPT ![r] = starts + 1]
  /\ Go(r, <<"ca", "read">>)
  /\ UNCHANGED <<secretVars, held, seen, change, mutateVars, clock, sessions, historyVars>>

\* mutate is over for a.
Leave(a) ==
  /\ snap' = [snap EXCEPT ![a] = None]
  /\ stamp' = [stamp EXCEPT ![a] = 0]
  /\ tries' = [tries EXCEPT ![a] = 0]

\* The process dies.  A call of the identity bootstrap that fails, or whose
\* answer is lost, ends it as well.
Crash(r) ==
  /\ at[r] # Down
  /\ Go(r, Down)
  /\ held' = [held EXCEPT ![r] = [k \in Keys |-> None]]
  /\ seen' = [seen EXCEPT ![r] = 0]
  /\ own' = [own EXCEPT ![r] = 0]
  /\ Leave(r)
  /\ orphaned' = (orphaned \/ at[r] = <<"user", "publish">>)
  /\ UNCHANGED <<secretVars, starts, change, clock, sessions, latest, revoked>>

WithoutCA(r) ==
  /\ held' = [held EXCEPT ![r]["ca"] = None]
  /\ Go(r, <<"user", "read">>)

\* A call of the authority's bootstrap fails: certificates are not issued, the
\* gateway starts all the same.
CAFails(r) ==
  /\ at[r] \in {<<"ca", "read">>, <<"ca", "create">>, <<"ca", "adopt">>,
                <<"pub", "read">>, <<"pub", "write">>}
  /\ WithoutCA(r)
  /\ UNCHANGED <<secretVars, seen, starts, own, change, mutateVars, clock, sessions, historyVars>>

-----------------------------------------------------------------------------
(* ensureSecretKey *)

Hold(r, k, v) ==
  /\ held' = [held EXCEPT ![r][k] = v]
  /\ Go(r, IF k = "ca" THEN <<"pub", "read">> ELSE Up)

ReadKey(r, k) ==
  /\ at[r] = <<k, "read">>
  /\ IF keySecret[k] \in KeyValues
     THEN Hold(r, k, keySecret[k])
     ELSE Go(r, <<k, "create">>) /\ held' = held
  /\ UNCHANGED <<secretVars, seen, starts, own, change, mutateVars, clock, sessions, historyVars>>

\* Mutant of CreateKey: the loser of a race keeps the key it drew.
KeepOwn(r, k) ==
  /\ at[r] = <<k, "create">>
  /\ keySecret' = [keySecret EXCEPT ![k] = IF @ = None THEN Own(r) ELSE @]
  /\ Hold(r, k, Own(r))
  /\ UNCHANGED <<pub, store, credential, seen, starts, own, change, mutateVars, clock, sessions, historyVars>>

CreateKey(r, k) ==
  /\ at[r] = <<k, "create">>
  /\ IF keySecret[k] = None
     THEN keySecret' = [keySecret EXCEPT ![k] = Own(r)] /\ Hold(r, k, Own(r))
     ELSE Go(r, <<k, "adopt">>) /\ UNCHANGED <<keySecret, held>>
  /\ UNCHANGED <<pub, store, credential, seen, starts, own, change, mutateVars, clock, sessions, historyVars>>

\* Mutant of AdoptKey: what the Secret holds is not looked at.
AdoptBlindly(r, k) ==
  /\ at[r] = <<k, "adopt">>
  /\ Hold(r, k, keySecret[k])
  /\ UNCHANGED <<secretVars, seen, starts, own, change, mutateVars, clock, sessions, historyVars>>

\* Reads the winner's key back; a Secret that holds none is an error.
AdoptKey(r, k) ==
  /\ at[r] = <<k, "adopt">>
  /\ keySecret[k] \in KeyValues
  /\ Hold(r, k, keySecret[k])
  /\ UNCHANGED <<secretVars, seen, starts, own, change, mutateVars, clock, sessions, historyVars>>

-----------------------------------------------------------------------------
(* publishPublicKey *)

\* Mutant of ReadPublic: a public key that is there is left alone.
PublishOnce(r) ==
  /\ at[r] = <<"pub", "read">>
  /\ seen' = [seen EXCEPT ![r] = Version(pub)]
  /\ Go(r, IF pub # None THEN <<"user", "read">> ELSE <<"pub", "write">>)
  /\ UNCHANGED <<secretVars, held, starts, own, change, mutateVars, clock, sessions, historyVars>>

ReadPublic(r) ==
  /\ at[r] = <<"pub", "read">>
  /\ seen' = [seen EXCEPT ![r] = Version(pub)]
  /\ Go(r, IF pub # None /\ pub.value = held[r]["ca"] THEN <<"user", "read">> ELSE <<"pub", "write">>)
  /\ UNCHANGED <<secretVars, held, starts, own, change, mutateVars, clock, sessions, historyVars>>

\* Another replica may have published first: an object that exists by now
\* counts as published, a conflicting update as a failure.
WritePublic(r) ==
  /\ at[r] = <<"pub", "write">>
  /\ IF Version(pub) = seen[r]
     THEN /\ pub' = [value |-> held[r]["ca"], version |-> seen[r] + 1]
          /\ Go(r, <<"user", "read">>) /\ held' = held
     ELSE /\ pub' = pub
          /\ IF seen[r] = 0 THEN Go(r, <<"user", "read">>) /\ held' = held
                               ELSE WithoutCA(r)
  /\ UNCHANGED <<keySecret, store, credential, seen, starts, own, change, mutateVars, clock, sessions, historyVars>>

-----------------------------------------------------------------------------
(* UserStore.mutate *)

\* Reads the Secret and computes the new record, its time included.
Look(a) ==
  /\ Tick
  /\ snap' = [snap EXCEPT ![a] = store]
  /\ stamp' = [stamp EXCEPT ![a] = clock + 1]

Put(s, a, u, password) ==
  LET users == IF s = None THEN NoUser ELSE s.value
  IN [value |-> [users EXCEPT ![u] = [hash |-> password, updated |-> stamp[a]]],
      version |-> Version(s) + 1]

\* Whether the API server takes a write based on what a read.
Unchanged(a) == store = snap[a]

Written(a, u, password) ==
  /\ Unchanged(a)
  /\ store' = Put(snap[a], a, u, password)
  /\ latest' = [latest EXCEPT ![u] = password]

LastTry(a) == tries[a] = MaxRetries - 1

\* The administrator

\* Mutant of FindAdmin: the credential is published whoever created the user.
PublishAnyway(r) ==
  /\ at[r] = <<"user", "read">>
  /\ Has(store, Admin)
  /\ Go(r, <<"user", "publish">>)
  /\ Leave(r)
  /\ UNCHANGED <<secretVars, held, seen, starts, own, change, clock, sessions, historyVars>>

FindAdmin(r) ==
  /\ at[r] = <<"user", "read">>
  /\ Has(store, Admin)
  /\ Go(r, <<"session", "read">>)
  /\ Leave(r)
  /\ UNCHANGED <<secretVars, held, seen, starts, own, change, clock, sessions, historyVars>>

MissAdmin(r) ==
  /\ at[r] = <<"user", "read">>
  /\ ~Has(store, Admin)
  /\ Look(r)
  /\ Go(r, <<"user", "write">>)
  /\ UNCHANGED <<secretVars, held, seen, starts, own, change, tries, sessions, historyVars>>

CreateAdmin(r) ==
  /\ at[r] = <<"user", "write">>
  /\ Written(r, Admin, Own(r))
  /\ Go(r, <<"user", "publish">>)
  /\ Leave(r)
  /\ UNCHANGED <<keySecret, pub, credential, held, seen, starts, own, change, clock, sessions,
                 revoked, orphaned>>

\* The Secret changed: the next round reads it afresh.  Without one left the
\* gateway does not start (Crash).
AdminConflict(r) ==
  /\ at[r] = <<"user", "write">>
  /\ ~Unchanged(r)
  /\ ~LastTry(r)
  /\ tries' = [tries EXCEPT ![r] = @ + 1]
  /\ Go(r, <<"user", "read">>)
  /\ UNCHANGED <<secretVars, held, seen, starts, own, change, snap, stamp, clock, sessions, historyVars>>

\* A credential that is there is left alone.
publishInitialCredential(r) ==
  /\ at[r] = <<"user", "publish">>
  /\ credential' = IF credential = None THEN Own(r) ELSE credential
  /\ Go(r, <<"session", "read">>)
  /\ UNCHANGED <<keySecret, pub, store, held, seen, starts, own, change, mutateVars, clock, sessions, historyVars>>

-----------------------------------------------------------------------------
(* Sessions and password changes *)

Serving == {r \in Replicas : at[r] = Up}

\* UserStore.Verify, then Issue, of which the action is the second: the token
\* carries nothing of the password, and a user once stored stays, so a change
\* of the password between the two is one before the action.
Login(r, u) ==
  /\ r \in Serving
  /\ Has(store, u)
  /\ Cardinality(sessions) < MaxSessions
  /\ Tick
  /\ sessions' = sessions \cup {[user |-> u, issued |-> clock + 1, key |-> held[r]["session"]]}
  /\ UNCHANGED <<secretVars, replicaVars, change, mutateVars, historyVars>>

\* JWTSessionIssuer.Verify.
Accepts(r, s) ==
  /\ r \in Serving
  /\ held[r]["session"] = s.key
  /\ Has(store, s.user)
  /\ store.value[s.user].updated <= s.issued

MoveChange(c, next) ==
  change' = [change EXCEPT ![c] =
    IF next = "done" THEN [at |-> "done", user |-> None, began |-> 0] ELSE [@ EXCEPT !.at = next]]

\* The request is identified and the current password checked.
changePassword(c, u) ==
  /\ change[c].at = "new"
  /\ Serving # {}
  /\ Has(store, u)
  /\ change' = [change EXCEPT ![c] = [at |-> "read", user |-> u, began |-> clock]]
  /\ UNCHANGED <<secretVars, replicaVars, mutateVars, clock, sessions, historyVars>>

\* Mutant of SetPassword: the time is taken once, not in every round.
StampOnce(c) ==
  /\ change[c].at = "read"
  /\ Tick
  /\ snap' = [snap EXCEPT ![c] = store]
  /\ stamp' = [stamp EXCEPT ![c] = IF @ = 0 THEN clock + 1 ELSE @]
  /\ MoveChange(c, "write")
  /\ UNCHANGED <<secretVars, replicaVars, tries, sessions, historyVars>>

SetPassword(c) ==
  /\ change[c].at = "read"
  /\ Look(c)
  /\ MoveChange(c, "write")
  /\ UNCHANGED <<secretVars, replicaVars, tries, sessions, historyVars>>

\* Mutant of SetPasswordWrites: the write carries no resourceVersion.
WritesBlind(c) ==
  /\ change[c].at = "write"
  /\ store' = Put(snap[c], c, change[c].user, c)
  /\ latest' = [latest EXCEPT ![change[c].user] = c]
  /\ MoveChange(c, "done")
  /\ revoked' = [revoked EXCEPT ![change[c].user] = IF change[c].began > @ THEN change[c].began ELSE @]
  /\ Leave(c)
  /\ UNCHANGED <<keySecret, pub, credential, replicaVars, clock, sessions, orphaned>>

SetPasswordWrites(c) ==
  /\ change[c].at = "write"
  /\ Written(c, change[c].user, c)
  /\ MoveChange(c, "done")
  /\ revoked' = [revoked EXCEPT ![change[c].user] = IF change[c].began > @ THEN change[c].began ELSE @]
  /\ Leave(c)
  /\ UNCHANGED <<keySecret, pub, credential, replicaVars, clock, sessions, orphaned>>

SetPasswordConflict(c) ==
  /\ change[c].at = "write"
  /\ ~Unchanged(c)
  /\ IF LastTry(c)
     THEN MoveChange(c, "done") /\ Leave(c)
     ELSE /\ MoveChange(c, "read")
          /\ tries' = [tries EXCEPT ![c] = @ + 1]
          /\ UNCHANGED <<snap, stamp>>
  /\ UNCHANGED <<secretVars, replicaVars, clock, sessions, historyVars>>

-----------------------------------------------------------------------------

BootstrapStep(r) ==
  \/ Start(r) \/ Crash(r) \/ CAFails(r)
  \/ \E k \in Keys : ReadKey(r, k) \/ CreateKey(r, k) \/ AdoptKey(r, k)
  \/ ReadPublic(r) \/ WritePublic(r)
  \/ FindAdmin(r) \/ MissAdmin(r) \/ CreateAdmin(r) \/ AdminConflict(r)
  \/ publishInitialCredential(r)

ChangeStep(c) ==
  \/ \E u \in Users : changePassword(c, u)
  \/ SetPassword(c) \/ SetPasswordWrites(c) \/ SetPasswordConflict(c)

Next ==
  \/ \E r \in Replicas : BootstrapStep(r) \/ \E u \in Users : Login(r, u)
  \/ \E c \in Changes : ChangeStep(c)

Spec == Init /\ [][Next]_vars

-----------------------------------------------------------------------------
(* Properties *)

\* A session stays good at every replica, whichever issued it and however
\* often they restarted since, until its user's password changes.
AnyReplicaAccepts ==
  \A s \in sessions, r \in Serving :
    Has(store, s.user) /\ store.value[s.user].updated <= s.issued => Accepts(r, s)

\* No replica accepts a session issued before a password change that has
\* succeeded was asked for, also when changes overlapped and were retried.
SessionsRevoked ==
  \A s \in sessions, r \in Replicas : s.issued <= revoked[s.user] => ~Accepts(r, s)

\* A replica that issues certificates signs them with the key the workspaces
\* trust.
CertificatesTrusted ==
  \A r \in Serving : held[r]["ca"] # None => pub # None /\ pub.value = held[r]["ca"]

\* While the administrator still has the password the gateway drew, that is
\* the published one, or the start that drew it is about to publish it, or it
\* died there, or the credential of an earlier administrator was in the way.
InitialCredentialWorks ==
  Has(store, Admin) /\ store.value[Admin].hash \in Drawn =>
    \/ credential = store.value[Admin].hash
    \/ \E r \in Replicas : at[r] = <<"user", "publish">> /\ Own(r) = store.value[Admin].hash
    \/ orphaned
    \/ credential = Old

\* No write undoes another one that the Secret took, also of another user's
\* record.
ChangesKept ==
  \A u \in Users : latest[u] # None => Has(store, u) /\ store.value[u].hash = latest[u]
=============================================================================
