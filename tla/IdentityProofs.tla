--------------------------- MODULE IdentityProofs ---------------------------
(***************************************************************************)
(* Proofs about Identity: its types, and that any number of replicas that  *)
(* start, die and race agree on the keys, the administrator and the users. *)
(***************************************************************************)
EXTENDS Identity, TLAPS

\* What each step of a start and of a password change has to work with.
Placed ==
  /\ \A r \in Replicas :
       /\ at[r] # Down => own[r] # 0
       /\ at[r] \in {<<"pub", "read">>, <<"pub", "write">>} => held[r]["ca"] # None
       /\ at[r] = Up => held[r]["session"] # None
  /\ \A c \in Changes : change[c].at \in {"read", "write"} => change[c].user \in Users

\* A key somebody works with is the one in the Secret, and it is never
\* replaced there.
KeysAgree ==
  /\ \A r \in Replicas, k \in Keys : held[r][k] # None => held[r][k] = keySecret[k]
  /\ \A s \in sessions : s.key = keySecret["session"]

\* Past the bootstrap of the authority.
Published(r) ==
  at[r] \in {<<"user", "read">>, <<"user", "write">>, <<"user", "publish">>,
             <<"session", "read">>, <<"session", "create">>, <<"session", "adopt">>, Up}

\* What is published is the authority's key, for whoever got past it, and also
\* when somebody else publishes while a replica is about to.
PublicAgrees ==
  /\ pub # None => pub.version > 0
  /\ \A r \in Replicas :
       held[r]["ca"] # None =>
         /\ Published(r) => pub # None /\ pub.value = held[r]["ca"]
         /\ at[r] = <<"pub", "write">> /\ seen[r] = 0 /\ pub # None => pub.value = held[r]["ca"]

\* Times are read before they are written.
Recent(s, t) == \A u \in Users : Has(s, u) => s.value[u].updated < t

TimesOrdered ==
  /\ Recent(store, clock + 1)
  /\ \A a \in Replicas \cup Changes : stamp[a] <= clock
  /\ \A s \in sessions : s.issued > 0
  /\ \A c \in Changes :
       /\ change[c].began <= clock
       /\ change[c].at = "write" => change[c].began < stamp[c] /\ Recent(snap[c], stamp[c])

\* A change that succeeded is older than what the Secret shows.
RevokedBefore ==
  \A u \in Users : revoked[u] > 0 => Has(store, u) /\ revoked[u] < store.value[u].updated

\* The administrator is created once, by one start.
AdminOnce ==
  /\ \A r \in Replicas : at[r] = <<"user", "write">> => ~Has(snap[r], Admin)
  /\ ~Has(store, Admin) => credential \in {Old, None}
  /\ \A r \in Replicas :
       at[r] = <<"user", "publish">> =>
         /\ Has(store, Admin) /\ credential \in {Old, None}
         /\ \A q \in Replicas : at[q] = <<"user", "publish">> => q = r

\* The inductive invariant of the theorems below.
Inv ==
  /\ TypeOK /\ Placed
  /\ KeysAgree /\ PublicAgrees
  /\ TimesOrdered /\ RevokedBefore
  /\ AdminOnce /\ InitialCredentialWorks
  /\ ChangesKept

-----------------------------------------------------------------------------
(* Types *)

\* What a running start draws.
LEMMA OwnDrawn ==
  ASSUME TypeOK, Placed, NEW r \in Replicas, at[r] # Down
  PROVE  Own(r) \in Drawn /\ Own(r) \in KeyValues /\ Own(r) \in Passwords
<1>1. own[r] \in 1 .. MaxStarts
  BY IdentityAssumption DEF TypeOK, Placed
<1> QED
  BY <1>1 DEF Own, Drawn, KeyValues, Passwords

\* The places of a start are different.
LEMMA Places ==
  /\ \A k \in Keys, step \in {"read", "create", "adopt"} :
       <<k, step>> \in Starting /\ <<k, step>> # Down /\ <<k, step>> # Up
  /\ {<<"pub", "read">>, <<"pub", "write">>, <<"user", "read">>, <<"user", "write">>,
      <<"user", "publish">>} \subseteq Starting
  /\ Down \notin Starting /\ Up \notin Starting /\ Down # Up
BY DEF Starting, Keys, Down, Up

\* The Secret a write leaves is typed, and shows the new record beside the
\* others.
LEMMA PutType ==
  ASSUME NEW s \in Secret(UserMap), NEW a \in Replicas \cup Changes, TypeOK,
         NEW u \in Users, NEW password \in Passwords
  PROVE  LET p == Put(s, a, u, password) IN
         /\ p \in Secret(UserMap) /\ p # None
         /\ Has(p, u) /\ p.value[u] = [hash |-> password, updated |-> stamp[a]]
         /\ \A v \in Users \ {u} : /\ Has(p, v) <=> Has(s, v)
                                   /\ Has(s, v) => p.value[v] = s.value[v]
<1> DEFINE users == IF s = None THEN NoUser ELSE s.value
           new == [hash |-> password, updated |-> stamp[a]]
           m == [users EXCEPT ![u] = new]
           p == [value |-> m, version |-> Version(s) + 1]
<1>1. users \in UserMap
  BY NoneAssumption DEF Secret, UserMap, NoUser
<1>2. Version(s) \in Nat
  BY NoneAssumption DEF Secret, Version
<1>3. stamp[a] \in 0 .. MaxClock
  BY DEF TypeOK
<1>4. new \in UserRecord
  BY <1>3 DEF UserRecord
<1>5. m \in UserMap /\ m[u] = new /\ \A v \in Users \ {u} : m[v] = users[v]
  BY <1>1, <1>4 DEF UserMap
<1>6. p \in [value : UserMap, version : Nat]
  BY <1>2, <1>5
<1>7. p # None
  BY <1>6, NoneAssumption
<1>8. p \in Secret(UserMap)
  BY <1>6 DEF Secret
<1>9. new # None
  BY <1>4, NoneAssumption
<1>10. p.value = m
  OBVIOUS
<1> HIDE DEF m, new
<1>11. Has(p, u) /\ p.value[u] = new
  BY <1>5, <1>7, <1>9, <1>10 DEF Has
<1>12. ASSUME NEW v \in Users \ {u}
       PROVE  (Has(p, v) <=> Has(s, v)) /\ (Has(s, v) => p.value[v] = s.value[v])
  <2>1. p.value[v] = users[v]
    BY <1>5, <1>10
  <2>2. CASE s = None
    BY <1>7, <2>1, <2>2 DEF Has, NoUser
  <2>3. CASE s # None
    BY <1>7, <2>1, <2>3 DEF Has
  <2> QED
    BY <2>2, <2>3
<1>13. Put(s, a, u, password) = p
  BY DEF Put, m, new
<1> HIDE DEF p
<1> QED
  BY <1>7, <1>8, <1>11, <1>12, <1>13 DEF new

\* A step of the bootstrap of keys and public key keeps the types.
LEMMA KeyTypes ==
  ASSUME TypeOK, Placed, NEW r \in Replicas,
         \/ Start(r) \/ Crash(r) \/ CAFails(r)
         \/ \E k \in Keys : ReadKey(r, k) \/ CreateKey(r, k) \/ AdoptKey(r, k)
         \/ ReadPublic(r) \/ WritePublic(r)
  PROVE  TypeOK' /\ Placed'
<1> USE DEF TypeOK, Placed, secretVars, replicaVars, mutateVars, historyVars, Go
<1>1. CASE Start(r)
  <2>1. starts + 1 \in 0 .. MaxStarts /\ starts + 1 # 0
    BY <1>1, IdentityAssumption DEF Start
  <2>2. at' = [at EXCEPT ![r] = <<"ca", "read">>] /\ own' = [own EXCEPT ![r] = starts + 1]
    BY <1>1 DEF Start
  <2>3. <<"ca", "read">> \in Starting /\ <<"ca", "read">> # Up /\ <<"ca", "read">> # Down
    BY Places DEF Keys
  <2>4. TypeOK'
    BY <1>1, <2>1, <2>2, <2>3 DEF Start
  <2>5. Placed'
    BY <1>1, <2>1, <2>2, <2>3 DEF Start
  <2> QED
    BY <2>4, <2>5
<1>2. CASE Crash(r)
  <2>1. TypeOK'
    BY <1>2, IdentityAssumption DEF Crash, Leave, Secret
  <2>2. Placed'
    BY <1>2 DEF Crash, Leave, Down, Up
  <2> QED
    BY <2>1, <2>2
<1>3. CASE CAFails(r)
  <2>1. TypeOK'
    BY <1>3, Places DEF CAFails, WithoutCA
  <2>2. Placed'
    BY <1>3 DEF CAFails, WithoutCA, Down, Up, Keys
  <2> QED
    BY <2>1, <2>2
<1>4. ASSUME NEW k \in Keys, NEW v \in KeyValues, Hold(r, k, v),
             UNCHANGED <<pub, store, credential, seen, starts, own, change, mutateVars, clock,
                         sessions, historyVars>>,
             keySecret' \in [Keys -> KeyValues \cup {Empty, None}], at[r] # Down
      PROVE  TypeOK' /\ Placed'
  <2>1. held' = [held EXCEPT ![r] = [held[r] EXCEPT ![k] = v]]
        /\ held'[r][k] = v /\ \A j \in Keys \ {k} : held'[r][j] = held[r][j]
    BY <1>4 DEF Hold
  <2>2. \/ k = "ca" /\ at' = [at EXCEPT ![r] = <<"pub", "read">>]
        \/ k = "session" /\ at' = [at EXCEPT ![r] = Up]
    BY <1>4 DEF Hold, Keys
  <2>3. v # None
    BY NoneAssumption
  <2>4. TypeOK'
    BY <1>4, <2>1, <2>2, Places
  <2>5. Placed'
    <3>1. Up \notin {<<"pub", "read">>, <<"pub", "write">>} /\ <<"pub", "read">> # Up
      BY DEF Up
    <3>2. \A q \in Replicas \ {r} : at'[q] = at[q] /\ held'[q] = held[q]
      BY <2>1, <2>2
    <3>3. held'[r][k] # None /\ own[r] # 0
      BY <1>4, <2>1, <2>3
    <3>4. \/ k = "ca" /\ at'[r] = <<"pub", "read">>
          \/ k = "session" /\ at'[r] = Up
      BY <2>2
    <3> QED
      BY <1>4, <3>1, <3>2, <3>3, <3>4
  <2> QED
    BY <2>4, <2>5
<1>5. ASSUME NEW k \in Keys, NEW step \in {"create", "adopt"}, Go(r, <<k, step>>), at[r] # Down,
             UNCHANGED <<secretVars, held, seen, starts, own, change, mutateVars, clock, sessions,
                         historyVars>>
      PROVE  TypeOK' /\ Placed'
  <2>1. <<k, step>> \in Starting /\ <<k, step>> # Up
        /\ <<k, step>> \notin {<<"pub", "read">>, <<"pub", "write">>}
    BY Places DEF Keys
  <2>2. TypeOK'
    BY <1>5, <2>1
  <2>3. Placed'
    BY <1>5, <2>1
  <2> QED
    BY <2>2, <2>3
<1>6. ASSUME NEW k \in Keys, ReadKey(r, k) \/ CreateKey(r, k) \/ AdoptKey(r, k)
      PROVE  TypeOK' /\ Placed'
  <2>1. at[r] # Down
    BY <1>6, Places DEF ReadKey, CreateKey, AdoptKey
  <2>2. Own(r) \in KeyValues
    BY <2>1, OwnDrawn
  <2>3. CASE ReadKey(r, k)
    BY <1>4, <1>5, <2>1, <2>3 DEF ReadKey
  <2>4. CASE CreateKey(r, k)
    BY <1>4, <1>5, <2>1, <2>2, <2>4 DEF CreateKey
  <2>5. CASE AdoptKey(r, k)
    BY <1>4, <2>1, <2>5 DEF AdoptKey
  <2> QED
    BY <1>6, <2>3, <2>4, <2>5
<1>7. CASE ReadPublic(r)
  <2>1. Version(pub) \in Nat
    BY NoneAssumption DEF Secret, Version
  <2>2. at[r] # Down /\ held[r]["ca"] # None
    BY <1>7 DEF ReadPublic, Down
  <2>3. at' \in {[at EXCEPT ![r] = <<"user", "read">>], [at EXCEPT ![r] = <<"pub", "write">>]}
    BY <1>7 DEF ReadPublic
  <2>4. TypeOK'
    BY <1>7, <2>1, <2>3, Places DEF ReadPublic
  <2>5. Placed'
    BY <1>7, <2>2, <2>3 DEF ReadPublic, Up, Down
  <2> QED
    BY <2>4, <2>5
<1>8. CASE WritePublic(r)
  <2>1. at[r] # Down /\ held[r]["ca"] \in KeyValues
    <3>1. at[r] = <<"pub", "write">>
      BY <1>8 DEF WritePublic
    <3>2. <<"pub", "write">> # Down
      BY Places
    <3>3. held[r]["ca"] # None
      BY <3>1
    <3>4. held[r]["ca"] \in KeyValues \cup {None}
      BY DEF Keys
    <3> QED
      BY <3>1, <3>2, <3>3, <3>4
  <2>2. at' = [at EXCEPT ![r] = <<"user", "read">>]
    BY <1>8 DEF WritePublic, WithoutCA
  <2>3. /\ held' \in [Replicas -> [Keys -> KeyValues \cup {None}]]
        /\ \A q \in Replicas \ {r} : held'[q] = held[q]
    <3>1. held' \in {held, [held EXCEPT ![r] = [held[r] EXCEPT !["ca"] = None]]}
      BY <1>8 DEF WritePublic, WithoutCA
    <3>2. [held[r] EXCEPT !["ca"] = None] \in [Keys -> KeyValues \cup {None}]
      OBVIOUS
    <3> QED
      BY <3>1, <3>2
  <2>4. pub' \in Secret(KeyValues \cup {Stale})
    BY <1>8, <2>1 DEF WritePublic, Secret
  <2>5. TypeOK'
    BY <1>8, <2>2, <2>3, <2>4, Places DEF WritePublic
  <2>6. Placed'
    BY <1>8, <2>1, <2>2, <2>3 DEF WritePublic, Up, Down
  <2> QED
    BY <2>5, <2>6
<1> QED
  BY <1>1, <1>2, <1>3, <1>6, <1>7, <1>8

\* mutate leaves nothing behind, and its reading is typed.
LEMMA MutateTypes ==
  ASSUME TypeOK, NEW a \in Replicas \cup Changes
  PROVE  /\ Leave(a) => /\ snap' \in [Replicas \cup Changes -> Secret(UserMap)]
                        /\ stamp' \in [Replicas \cup Changes -> 0 .. MaxClock]
                        /\ tries' \in [Replicas \cup Changes -> 0 .. MaxRetries - 1]
         /\ Look(a) => /\ snap' \in [Replicas \cup Changes -> Secret(UserMap)]
                       /\ stamp' \in [Replicas \cup Changes -> 0 .. MaxClock]
                       /\ clock' \in 0 .. MaxClock
         /\ ~LastTry(a) =>
              [tries EXCEPT ![a] = @ + 1] \in [Replicas \cup Changes -> 0 .. MaxRetries - 1]
<1>1. Leave(a) => /\ snap' \in [Replicas \cup Changes -> Secret(UserMap)]
                  /\ stamp' \in [Replicas \cup Changes -> 0 .. MaxClock]
                  /\ tries' \in [Replicas \cup Changes -> 0 .. MaxRetries - 1]
  BY IdentityAssumption DEF Leave, TypeOK, Secret
<1>2. Look(a) => /\ snap' \in [Replicas \cup Changes -> Secret(UserMap)]
                 /\ stamp' \in [Replicas \cup Changes -> 0 .. MaxClock]
                 /\ clock' \in 0 .. MaxClock
  BY IdentityAssumption DEF Look, Tick, TypeOK
<1>3. ~LastTry(a) =>
        [tries EXCEPT ![a] = @ + 1] \in [Replicas \cup Changes -> 0 .. MaxRetries - 1]
  <2>1. tries[a] \in 0 .. MaxRetries - 1 /\ MaxRetries \in Nat
    BY IdentityAssumption DEF TypeOK
  <2>2. ~LastTry(a) => tries[a] + 1 \in 0 .. MaxRetries - 1
    BY <2>1 DEF LastTry
  <2> QED
    BY <2>2 DEF TypeOK
<1> QED
  BY <1>1, <1>2, <1>3

\* A write of mutate leaves the store typed.
LEMMA WrittenTypes ==
  ASSUME TypeOK, NEW a \in Replicas \cup Changes, NEW u \in Users, NEW password \in Passwords,
         Written(a, u, password)
  PROVE  store' \in Secret(UserMap) /\ latest' \in [Users -> Passwords \cup {None}]
<1>1. snap[a] \in Secret(UserMap)
  BY DEF TypeOK
<1>2. store' \in Secret(UserMap)
  BY <1>1, PutType DEF Written
<1> QED
  BY <1>2 DEF Written, TypeOK

\* A step of the administrator's bootstrap keeps the types.
LEMMA AdminTypes ==
  ASSUME TypeOK, Placed, NEW r \in Replicas,
         \/ FindAdmin(r) \/ MissAdmin(r) \/ CreateAdmin(r) \/ AdminConflict(r)
         \/ publishInitialCredential(r)
  PROVE  TypeOK' /\ Placed'
<1> DEFINE Users2 == {<<"user", "read">>, <<"user", "write">>, <<"user", "publish">>}
           Reached == Users2 \cup {<<"session", "read">>}
<1>1. at[r] \in Users2
  BY DEF FindAdmin, MissAdmin, CreateAdmin, AdminConflict, publishInitialCredential
<1>2. PICK next \in Reached : at' = [at EXCEPT ![r] = next]
  BY DEF FindAdmin, MissAdmin, CreateAdmin, AdminConflict, publishInitialCredential, Go
<1>3. /\ \A p \in Reached : p # Down /\ p # Up /\ p \in Starting
      /\ Reached \cap {<<"pub", "read">>, <<"pub", "write">>} = {}
  BY Places DEF Keys
<1>4. at' \in [Replicas -> Starting \cup {Down, Up}]
  BY <1>2, <1>3 DEF TypeOK
<1>5. UNCHANGED <<held, seen, starts, own, change, keySecret, pub, sessions, revoked, orphaned>>
  BY DEF FindAdmin, MissAdmin, CreateAdmin, AdminConflict, publishInitialCredential,
     secretVars, historyVars
<1>6. Placed'
  <2>1. at'[r] = next /\ \A q \in Replicas \ {r} : at'[q] = at[q]
    BY <1>2 DEF TypeOK
  <2>2. own[r] # 0
    BY <1>1, <1>3 DEF Placed
  <2> QED
    BY <1>3, <1>5, <2>1, <2>2 DEF Placed
<1>7. Own(r) \in Passwords /\ Own(r) \in Drawn /\ Admin \in Users
  BY <1>1, <1>3, OwnDrawn, IdentityAssumption
<1>8. store' \in Secret(UserMap) /\ latest' \in [Users -> Passwords \cup {None}]
  <2>1. CASE CreateAdmin(r)
    BY <1>7, <2>1, WrittenTypes DEF CreateAdmin
  <2>2. CASE ~CreateAdmin(r)
    BY <2>2 DEF FindAdmin, MissAdmin, AdminConflict, publishInitialCredential, secretVars,
       historyVars, TypeOK
  <2> QED
    BY <2>1, <2>2
<1>9. /\ snap' \in [Replicas \cup Changes -> Secret(UserMap)]
      /\ stamp' \in [Replicas \cup Changes -> 0 .. MaxClock]
      /\ tries' \in [Replicas \cup Changes -> 0 .. MaxRetries - 1]
      /\ clock' \in 0 .. MaxClock
  <2>1. CASE FindAdmin(r) \/ CreateAdmin(r)
    BY <2>1, MutateTypes DEF FindAdmin, CreateAdmin, TypeOK
  <2>2. CASE MissAdmin(r)
    BY <2>2, MutateTypes DEF MissAdmin, TypeOK
  <2>3. CASE AdminConflict(r)
    BY <2>3, MutateTypes DEF AdminConflict, TypeOK
  <2>4. CASE publishInitialCredential(r)
    BY <2>4 DEF publishInitialCredential, mutateVars, TypeOK
  <2> QED
    BY <2>1, <2>2, <2>3, <2>4
<1>10. credential' \in Drawn \cup {Old, None}
  <2>1. credential' = credential \/ credential' = Own(r)
    BY DEF FindAdmin, MissAdmin, CreateAdmin, AdminConflict, publishInitialCredential, secretVars
  <2> QED
    BY <1>7, <2>1 DEF TypeOK
<1> QED
  BY <1>4, <1>5, <1>6, <1>8, <1>9, <1>10 DEF TypeOK

\* A login or a step of a password change keeps the types.
LEMMA ChangeTypes ==
  ASSUME TypeOK, Placed,
         \/ \E r \in Replicas, u \in Users : Login(r, u)
         \/ \E c \in Changes : ChangeStep(c)
  PROVE  TypeOK' /\ Placed'
<1>1. ASSUME NEW r \in Replicas, NEW u \in Users, Login(r, u) PROVE TypeOK' /\ Placed'
  <2>1. held[r]["session"] \in KeyValues
    BY <1>1 DEF Login, Serving, Placed, TypeOK, Keys
  <2>2. clock + 1 \in 0 .. MaxClock /\ clock' = clock + 1
    BY <1>1, IdentityAssumption DEF Login, Tick, TypeOK
  <2>3. sessions' \subseteq [user : Users, issued : 0 .. MaxClock, key : KeyValues]
    BY <1>1, <2>1, <2>2 DEF Login, TypeOK
  <2>4. TypeOK'
    BY <1>1, <2>2, <2>3 DEF Login, TypeOK, secretVars, replicaVars, mutateVars, historyVars
  <2>5. Placed'
    BY <1>1 DEF Login, Placed, replicaVars
  <2> QED
    BY <2>4, <2>5
<1>2. ASSUME NEW c \in Changes, ChangeStep(c) PROVE TypeOK' /\ Placed'
  <2> DEFINE ChangeRecord == [at : {"new", "read", "write", "done"}, user : Users \cup {None},
                              began : 0 .. MaxClock]
             Stays == UNCHANGED <<keySecret, pub, credential, replicaVars, sessions, orphaned>>
  <2>1. Stays
    BY <1>2 DEF ChangeStep, changePassword, SetPassword, SetPasswordWrites, SetPasswordConflict,
       secretVars, historyVars
  <2>2. change[c] \in ChangeRecord /\ 0 \in 0 .. MaxClock
    BY IdentityAssumption DEF TypeOK
  <2>3. ASSUME NEW n \in ChangeRecord, change' = [change EXCEPT ![c] = n],
               n.at \in {"read", "write"} => n.user \in Users
        PROVE  /\ change' \in [Changes -> ChangeRecord]
               /\ Placed'
    <3>1. /\ change' \in [Changes -> ChangeRecord]
          /\ change'[c] = n /\ \A d \in Changes \ {c} : change'[d] = change[d]
      BY <2>3 DEF TypeOK
    <3> QED
      BY <2>1, <2>3, <3>1 DEF Placed, replicaVars
  <2>4. ASSUME NEW next \in {"read", "write", "done"}, MoveChange(c, next),
               change[c].at \in {"read", "write"}
        PROVE  change' \in [Changes -> ChangeRecord] /\ Placed'
    <3> DEFINE n == IF next = "done" THEN [at |-> "done", user |-> None, began |-> 0]
                                     ELSE [change[c] EXCEPT !.at = next]
    <3>1. n \in ChangeRecord /\ (n.at \in {"read", "write"} => n.user \in Users)
      BY <2>2, <2>4 DEF Placed
    <3>2. change' = [change EXCEPT ![c] = n]
      BY <2>4 DEF MoveChange
    <3> HIDE DEF n
    <3> QED
      BY <2>3, <3>1, <3>2
  <2>5. ASSUME NEW u \in Users, changePassword(c, u) PROVE TypeOK' /\ Placed'
    <3>1. [at |-> "read", user |-> u, began |-> clock] \in ChangeRecord
      BY DEF TypeOK
    <3>2. change' \in [Changes -> ChangeRecord] /\ Placed'
      BY <2>3, <2>5, <3>1 DEF changePassword
    <3> QED
      BY <2>5, <3>2 DEF changePassword, TypeOK, secretVars, replicaVars, mutateVars, historyVars
  <2>6. CASE SetPassword(c)
    <3>1. change' \in [Changes -> ChangeRecord] /\ Placed'
      BY <2>4, <2>6 DEF SetPassword
    <3>2. /\ snap' \in [Replicas \cup Changes -> Secret(UserMap)]
          /\ stamp' \in [Replicas \cup Changes -> 0 .. MaxClock]
          /\ clock' \in 0 .. MaxClock
      BY <2>6, MutateTypes DEF SetPassword
    <3> QED
      BY <2>6, <3>1, <3>2 DEF SetPassword, TypeOK, secretVars, replicaVars, historyVars
  <2>7. CASE SetPasswordWrites(c)
    <3>1. change' \in [Changes -> ChangeRecord] /\ Placed'
      BY <2>4, <2>7 DEF SetPasswordWrites
    <3>2. /\ snap' \in [Replicas \cup Changes -> Secret(UserMap)]
          /\ stamp' \in [Replicas \cup Changes -> 0 .. MaxClock]
          /\ tries' \in [Replicas \cup Changes -> 0 .. MaxRetries - 1]
      BY <2>7, MutateTypes DEF SetPasswordWrites
    <3>3. change[c].user \in Users /\ c \in Passwords
      BY <2>7 DEF SetPasswordWrites, Placed, Passwords
    <3>4. store' \in Secret(UserMap) /\ latest' \in [Users -> Passwords \cup {None}]
      BY <2>7, <3>3, WrittenTypes DEF SetPasswordWrites
    <3>5. revoked' \in [Users -> 0 .. MaxClock]
      BY <2>2, <2>7 DEF SetPasswordWrites, TypeOK
    <3> QED
      BY <2>7, <3>1, <3>2, <3>4, <3>5 DEF SetPasswordWrites, TypeOK, replicaVars
  <2>8. CASE SetPasswordConflict(c)
    <3>1. change' \in [Changes -> ChangeRecord] /\ Placed'
      BY <2>4, <2>8 DEF SetPasswordConflict
    <3>2. /\ snap' \in [Replicas \cup Changes -> Secret(UserMap)]
          /\ stamp' \in [Replicas \cup Changes -> 0 .. MaxClock]
          /\ tries' \in [Replicas \cup Changes -> 0 .. MaxRetries - 1]
      BY <2>8, MutateTypes DEF SetPasswordConflict, TypeOK
    <3> QED
      BY <2>8, <3>1, <3>2 DEF SetPasswordConflict, TypeOK, secretVars, replicaVars, historyVars
  <2> QED
    BY <1>2, <2>5, <2>6, <2>7, <2>8 DEF ChangeStep
<1> QED
  BY <1>1, <1>2

\* Every step keeps the types.
LEMMA TypeStep ==
  ASSUME TypeOK, Placed, [Next]_vars
  PROVE  TypeOK' /\ Placed'
<1>1. CASE UNCHANGED vars
  BY <1>1 DEF vars, TypeOK, Placed, secretVars, replicaVars, mutateVars, historyVars
<1>2. CASE Next
  BY <1>2, KeyTypes, AdminTypes, ChangeTypes DEF Next, BootstrapStep
<1> QED
  BY <1>1, <1>2

\* The gateway has not started yet.
LEMMA TypeInitial == Init => TypeOK /\ Placed
<1> SUFFICES ASSUME Init PROVE TypeOK /\ Placed
  OBVIOUS
<1> USE IdentityAssumption
<1>1. keySecret \in [Keys -> KeyValues \cup {Empty, None}]
  BY DEF Init, KeyValues
<1>2. pub \in Secret(KeyValues \cup {Stale})
  BY DEF Init, Secret, Fresh
<1>3. store \in Secret(UserMap)
  <2>1. ASSUME NEW left \in SUBSET Users
        PROVE  [u \in Users |-> IF u \in left THEN [hash |-> Old, updated |-> 0] ELSE None] \in UserMap
    BY DEF UserMap, UserRecord, Passwords
  <2>2. CASE store = None
    BY <2>2 DEF Secret
  <2>3. CASE store # None
    <3>1. PICK left \in SUBSET Users :
            store = Fresh([u \in Users |-> IF u \in left THEN [hash |-> Old, updated |-> 0] ELSE None])
      BY <2>3 DEF Init
    <3>2. \A m \in UserMap : Fresh(m) \in Secret(UserMap)
      BY DEF Fresh, Secret
    <3> QED
      BY <2>1, <3>1, <3>2
  <2> QED
    BY <2>2, <2>3
<1>4. /\ at \in [Replicas -> Starting \cup {Down, Up}]
      /\ held \in [Replicas -> [Keys -> KeyValues \cup {None}]]
      /\ seen \in [Replicas -> Nat] /\ starts \in 0 .. MaxStarts
      /\ own \in [Replicas -> 0 .. MaxStarts]
  BY DEF Init
<1>5. change \in [Changes -> [at : {"new", "read", "write", "done"},
                              user : Users \cup {None}, began : 0 .. MaxClock]]
  BY DEF Init
<1>6. /\ snap \in [Replicas \cup Changes -> Secret(UserMap)]
      /\ stamp \in [Replicas \cup Changes -> 0 .. MaxClock]
      /\ tries \in [Replicas \cup Changes -> 0 .. MaxRetries - 1]
  BY DEF Init, Secret
<1>7. /\ credential \in Drawn \cup {Old, None} /\ clock \in 0 .. MaxClock
      /\ sessions \subseteq [user : Users, issued : 0 .. MaxClock, key : KeyValues]
      /\ latest \in [Users -> Passwords \cup {None}]
      /\ revoked \in [Users -> 0 .. MaxClock]
  BY DEF Init
<1>9. orphaned \in BOOLEAN
  BY DEF Init
<1>8. Placed
  BY DEF Init, Placed, Up, Down
<1> QED
  BY <1>1, <1>2, <1>3, <1>4, <1>5, <1>6, <1>7, <1>8, <1>9 DEF TypeOK

\* What the gateway keeps in Secrets, and what its replicas hold of it, keeps
\* its types through every race and crash: no start goes on without the key
\* it needs.
THEOREM TypeCorrect == Spec => []TypeOK
<1>1. TypeOK /\ Placed /\ [Next]_vars => TypeOK' /\ Placed'
  BY TypeStep
<1> QED
  BY <1>1, TypeInitial, PTL DEF Spec

-----------------------------------------------------------------------------
(* Keys *)

\* What a step does to a key in its Secret: at most put one where none was.
LEMMA KeyKept ==
  ASSUME TypeOK, [Next]_vars, NEW k \in Keys, keySecret[k] # None
  PROVE  keySecret'[k] = keySecret[k]
<1>1. ASSUME NEW r \in Replicas, BootstrapStep(r) PROVE keySecret'[k] = keySecret[k]
  <2>1. ASSUME NEW j \in Keys, CreateKey(r, j) PROVE keySecret'[k] = keySecret[k]
    BY <2>1 DEF CreateKey, TypeOK
  <2>2. CASE UNCHANGED keySecret
    BY <2>2
  <2> QED
    BY <1>1, <2>1, <2>2
    DEF BootstrapStep, Start, Crash, CAFails, ReadKey, AdoptKey, ReadPublic, WritePublic,
        FindAdmin, MissAdmin, CreateAdmin, AdminConflict, publishInitialCredential, secretVars
<1>2. ASSUME NEW r \in Replicas, NEW u \in Users, Login(r, u) PROVE UNCHANGED keySecret
  BY <1>2 DEF Login, secretVars
<1>3. ASSUME NEW c \in Changes, ChangeStep(c) PROVE UNCHANGED keySecret
  BY <1>3 DEF ChangeStep, changePassword, SetPassword, SetPasswordWrites, SetPasswordConflict,
     secretVars
<1>4. CASE UNCHANGED vars
  BY <1>4 DEF vars, secretVars
<1> QED
  BY <1>1, <1>2, <1>3, <1>4 DEF Next

\* What a step does to the keys a replica works with: it keeps them, forgets
\* them, or takes the one in the Secret.
LEMMA HeldStep ==
  ASSUME TypeOK, Placed, [Next]_vars, NEW q \in Replicas, NEW k \in Keys, held'[q][k] # None
  PROVE  held'[q][k] = held[q][k] \/ held'[q][k] = keySecret'[k]
<1>1. ASSUME NEW r \in Replicas, NEW j \in Keys,
             ReadKey(r, j) \/ CreateKey(r, j) \/ AdoptKey(r, j)
      PROVE  held'[q][k] = held[q][k] \/ held'[q][k] = keySecret'[k]
  <2>1. \/ held' = held
        \/ held' = [held EXCEPT ![r] = [held[r] EXCEPT ![j] = keySecret'[j]]]
    BY <1>1 DEF ReadKey, CreateKey, AdoptKey, Hold, secretVars, TypeOK
  <2> QED
    BY <2>1 DEF TypeOK
<1>2. ASSUME NEW r \in Replicas, Crash(r) \/ CAFails(r) \/ WritePublic(r)
      PROVE  held'[q][k] = held[q][k]
  <2>1. CASE held' = [held EXCEPT ![r] = [j \in Keys |-> None]]
    BY <2>1 DEF TypeOK
  <2>2. CASE held' = [held EXCEPT ![r] = [held[r] EXCEPT !["ca"] = None]]
    BY <2>2 DEF TypeOK
  <2>3. CASE held' = held
    BY <2>3
  <2> QED
    BY <1>2, <2>1, <2>2, <2>3 DEF Crash, CAFails, WritePublic, WithoutCA
<1>3. CASE UNCHANGED held
  BY <1>3
<1> QED
  BY <1>1, <1>2, <1>3
  DEF Next, BootstrapStep, ChangeStep, vars, Start, ReadPublic, FindAdmin, MissAdmin, CreateAdmin,
      AdminConflict, publishInitialCredential, Login, changePassword, SetPassword,
      SetPasswordWrites, SetPasswordConflict, replicaVars

\* Sessions are issued at logins, one at a time.
LEMMA SessionStep ==
  ASSUME [Next]_vars, NEW s \in sessions', s \notin sessions
  PROVE  \E r \in Replicas, u \in Users :
           Login(r, u) /\ s = [user |-> u, issued |-> clock + 1, key |-> held[r]["session"]]
<1>1. PICK r \in Replicas, u \in Users : Login(r, u)
  BY DEF Next, BootstrapStep, ChangeStep, vars, Start, Crash, CAFails, ReadKey, CreateKey,
         AdoptKey, ReadPublic, WritePublic, FindAdmin, MissAdmin, CreateAdmin, AdminConflict,
         publishInitialCredential, changePassword, SetPassword, SetPasswordWrites,
         SetPasswordConflict
<1>2. s = [user |-> u, issued |-> clock + 1, key |-> held[r]["session"]]
  BY <1>1 DEF Login
<1> QED
  BY <1>1, <1>2

\* Every step keeps the keys in agreement.
LEMMA KeysStep ==
  ASSUME TypeOK, Placed, KeysAgree, [Next]_vars
  PROVE  KeysAgree'
<1>1. TypeOK' /\ Placed'
  BY TypeStep
<1>2. ASSUME NEW r \in Replicas, NEW k \in Keys, held'[r][k] # None
      PROVE  held'[r][k] = keySecret'[k]
  BY <1>2, HeldStep, KeyKept DEF KeysAgree
<1>3. ASSUME NEW s \in sessions' PROVE s.key = keySecret'["session"]
  <2>1. "session" \in Keys
    BY DEF Keys
  <2>2. CASE s \in sessions
    <3>1. s.key = keySecret["session"] /\ s.key \in KeyValues
      BY <2>2 DEF KeysAgree, TypeOK
    <3> QED
      BY <2>1, <3>1, KeyKept, NoneAssumption
  <2>3. CASE s \notin sessions
    <3>1. PICK r \in Replicas, u \in Users :
            Login(r, u) /\ s = [user |-> u, issued |-> clock + 1, key |-> held[r]["session"]]
      BY <1>3, <2>3, SessionStep
    <3>3. held[r]["session"] = keySecret["session"]
      BY <2>1, <3>1 DEF Login, Serving, Placed, KeysAgree
    <3> QED
      BY <3>1, <3>3 DEF Login, secretVars
  <2> QED
    BY <2>2, <2>3
<1> QED
  BY <1>2, <1>3 DEF KeysAgree

-----------------------------------------------------------------------------
(* The user Secret *)

\* The two writes of the user Secret.
LEMMA StoreStep ==
  ASSUME [Next]_vars
  PROVE  \/ UNCHANGED <<store, latest, revoked>>
         \/ \E r \in Replicas : CreateAdmin(r)
         \/ \E c \in Changes : SetPasswordWrites(c)
<1>1. ASSUME NEW r \in Replicas, BootstrapStep(r), ~CreateAdmin(r)
      PROVE  UNCHANGED <<store, latest, revoked>>
  BY <1>1
  DEF BootstrapStep, Start, Crash, CAFails, ReadKey, CreateKey, AdoptKey, ReadPublic, WritePublic,
      FindAdmin, MissAdmin, AdminConflict, publishInitialCredential, secretVars, historyVars
<1>2. ASSUME NEW r \in Replicas, NEW u \in Users, Login(r, u)
      PROVE  UNCHANGED <<store, latest, revoked>>
  BY <1>2 DEF Login, secretVars, historyVars
<1>3. ASSUME NEW c \in Changes, ChangeStep(c), ~SetPasswordWrites(c)
      PROVE  UNCHANGED <<store, latest, revoked>>
  BY <1>3 DEF ChangeStep, changePassword, SetPassword, SetPasswordConflict, secretVars, historyVars
<1>4. CASE UNCHANGED vars
  BY <1>4 DEF vars, secretVars, historyVars
<1> QED
  BY <1>1, <1>2, <1>3, <1>4 DEF Next

\* The step gives u a password at time t, and nobody else anything.
Sets(u, password, t) ==
  /\ Has(store', u)
  /\ store'.value[u] = [hash |-> password, updated |-> t]
  /\ \A v \in Users \ {u} : /\ Has(store', v) <=> Has(store, v)
                            /\ Has(store, v) => store'.value[v] = store.value[v]
  /\ latest'[u] = password
  /\ \A v \in Users \ {u} : latest'[v] = latest[v]

\* What a write changes, compared with what was in the Secret.
LEMMA WriteEffect ==
  ASSUME TypeOK, NEW a \in Replicas \cup Changes, NEW u \in Users, NEW password \in Passwords,
         Written(a, u, password)
  PROVE  Sets(u, password, stamp[a])
<1>1. store \in Secret(UserMap) /\ store' = Put(store, a, u, password)
  BY DEF TypeOK, Written, Unchanged
<1>2. latest' = [latest EXCEPT ![u] = password]
  BY DEF Written
<1>3. /\ latest'[u] = password
      /\ \A v \in Users \ {u} : latest'[v] = latest[v]
  BY <1>2 DEF TypeOK
<1>4. LET p == Put(store, a, u, password) IN
      /\ p \in Secret(UserMap) /\ p # None
      /\ Has(p, u) /\ p.value[u] = [hash |-> password, updated |-> stamp[a]]
      /\ \A v \in Users \ {u} : /\ Has(p, v) <=> Has(store, v)
                                /\ Has(store, v) => p.value[v] = store.value[v]
  BY <1>1, PutType
<1> HIDE DEF Put
<1> QED
  BY <1>1, <1>3, <1>4 DEF Sets

\* What the administrator's creation and a password change write.
LEMMA CreateEffect ==
  ASSUME TypeOK, Placed, NEW r \in Replicas, CreateAdmin(r)
  PROVE  /\ Admin \in Users /\ Own(r) \in Drawn /\ Own(r) \in Passwords
         /\ Sets(Admin, Own(r), stamp[r]) /\ store = snap[r]
<1>1. at[r] # Down
  BY Places DEF CreateAdmin
<1> QED
  BY <1>1, OwnDrawn, WriteEffect, IdentityAssumption DEF CreateAdmin, Written, Unchanged

LEMMA ChangeEffect ==
  ASSUME TypeOK, Placed, NEW c \in Changes, SetPasswordWrites(c)
  PROVE  /\ change[c].user \in Users /\ c \in Passwords /\ c \notin Drawn
         /\ Sets(change[c].user, c, stamp[c]) /\ store = snap[c]
<1>1. change[c].user \in Users /\ c \in Passwords /\ c \notin Drawn /\ store = snap[c]
  BY NoneAssumption DEF SetPasswordWrites, Placed, Passwords, Written, Unchanged
<1> QED
  BY <1>1, WriteEffect DEF SetPasswordWrites

\* Every step keeps the last write of each user.
LEMMA KeptStep ==
  ASSUME TypeOK, Placed, ChangesKept, [Next]_vars
  PROVE  ChangesKept'
<1>1. ASSUME NEW u \in Users, NEW password, NEW t, Sets(u, password, t)
      PROVE  ChangesKept'
  <2>1. ASSUME NEW v \in Users, latest'[v] # None
        PROVE  Has(store', v) /\ store'.value[v].hash = latest'[v]
    <3>1. CASE v = u
      BY <1>1, <3>1 DEF Sets
    <3>2. CASE v # u
      BY <1>1, <2>1, <3>2 DEF ChangesKept, Sets
    <3> QED
      BY <3>1, <3>2
  <2> QED
    BY <2>1 DEF ChangesKept, Has
<1>2. CASE UNCHANGED <<store, latest, revoked>>
  BY <1>2 DEF ChangesKept, Has
<1> QED
  BY <1>1, <1>2, StoreStep, CreateEffect, ChangeEffect

\* What mutate does to the times: it takes one, drops one, or leaves them.
LEMMA StampStep ==
  ASSUME TypeOK, [Next]_vars
  PROVE  \/ UNCHANGED <<snap, stamp, clock>>
         \/ UNCHANGED <<snap, stamp>> /\ clock' = clock + 1
         \/ \E a \in Replicas \cup Changes : Look(a) \/ (Leave(a) /\ UNCHANGED clock)
<1>1. ASSUME NEW r \in Replicas, BootstrapStep(r)
      PROVE  UNCHANGED <<snap, stamp, clock>> \/ Look(r) \/ (Leave(r) /\ UNCHANGED clock)
  BY <1>1
  DEF BootstrapStep, Start, Crash, CAFails, ReadKey, CreateKey, AdoptKey, ReadPublic, WritePublic,
      FindAdmin, MissAdmin, CreateAdmin, AdminConflict, publishInitialCredential, mutateVars
<1>2. ASSUME NEW r \in Replicas, NEW u \in Users, Login(r, u)
      PROVE  UNCHANGED <<snap, stamp>> /\ clock' = clock + 1
  BY <1>2 DEF Login, mutateVars, Tick
<1>3. ASSUME NEW c \in Changes, ChangeStep(c)
      PROVE  UNCHANGED <<snap, stamp, clock>> \/ Look(c) \/ (Leave(c) /\ UNCHANGED clock)
  BY <1>3
  DEF ChangeStep, changePassword, SetPassword, SetPasswordWrites, SetPasswordConflict, mutateVars
<1>4. CASE UNCHANGED vars
  BY <1>4 DEF vars, mutateVars
<1> QED
  BY <1>1, <1>2, <1>3, <1>4 DEF Next

\* The times of the records in the Secret are numbers.
LEMMA UpdatedType ==
  ASSUME NEW s \in Secret(UserMap), NEW u \in Users, Has(s, u)
  PROVE  s.value[u] \in UserRecord /\ s.value[u].updated \in Nat
<1>1. s.value[u] \in UserRecord
  BY DEF Has, Secret, UserMap
<1> QED
  BY <1>1, IdentityAssumption DEF UserRecord

\* Every step keeps the times in order.
LEMMA TimesStep ==
  ASSUME TypeOK, Placed, TimesOrdered, [Next]_vars
  PROVE  TimesOrdered'
<1>1. clock \in Nat /\ clock' \in Nat /\ clock <= clock'
  BY StampStep, TypeStep, IdentityAssumption DEF Look, Tick, TypeOK
<1>2. ASSUME NEW a \in Replicas \cup Changes PROVE stamp'[a] <= clock'
  <2>1. stamp[a] <= clock /\ stamp[a] \in Nat
    BY IdentityAssumption DEF TimesOrdered, TypeOK
  <2>2. CASE UNCHANGED stamp
    BY <1>1, <2>1, <2>2
  <2>3. ASSUME NEW b \in Replicas \cup Changes, Look(b) PROVE stamp'[a] <= clock'
    BY <1>1, <2>1, <2>3 DEF Look, Tick, TypeOK
  <2>4. ASSUME NEW b \in Replicas \cup Changes, Leave(b) PROVE stamp'[a] <= clock'
    BY <1>1, <2>1, <2>4 DEF Leave, TypeOK
  <2> QED
    BY <2>2, <2>3, <2>4, StampStep
<1>3. Recent(store', clock' + 1)
  <2> SUFFICES ASSUME NEW v \in Users, Has(store', v)
               PROVE  store'.value[v].updated < clock' + 1
    BY DEF Recent
  <2>1. store \in Secret(UserMap) /\ Recent(store, clock + 1)
    BY DEF TypeOK, TimesOrdered
  <2>2. ASSUME Has(store, v), store'.value[v] = store.value[v]
        PROVE  store'.value[v].updated < clock' + 1
    BY <1>1, <2>1, <2>2, UpdatedType DEF Recent
  <2>3. ASSUME NEW u \in Users, NEW password, NEW a \in Replicas \cup Changes,
               Sets(u, password, stamp[a])
        PROVE  store'.value[v].updated < clock' + 1
    <3>1. stamp[a] <= clock /\ stamp[a] \in Nat
      BY IdentityAssumption DEF TimesOrdered, TypeOK
    <3>2. CASE v = u
      BY <1>1, <2>3, <3>1, <3>2 DEF Sets
    <3>3. CASE v # u
      BY <2>2, <2>3, <3>3 DEF Sets
    <3> QED
      BY <3>2, <3>3
  <2>4. CASE UNCHANGED <<store, latest, revoked>>
    BY <2>2, <2>4 DEF Has
  <2> QED
    BY <2>3, <2>4, StoreStep, CreateEffect, ChangeEffect, IdentityAssumption
<1>4. ASSUME NEW d \in Changes
      PROVE  /\ change'[d].began <= clock'
             /\ change'[d].at = "write" =>
                  change'[d].began < stamp'[d] /\ Recent(snap'[d], stamp'[d])
  <2>1. /\ change[d].began <= clock /\ change[d].began \in Nat
        /\ change[d].at = "write" => change[d].began < stamp[d] /\ Recent(snap[d], stamp[d])
    BY IdentityAssumption DEF TimesOrdered, TypeOK
  <2>2. CASE change'[d] = change[d] /\ stamp'[d] = stamp[d] /\ snap'[d] = snap[d]
    BY <1>1, <2>1, <2>2
  <2>3. CASE change'[d].began = 0 /\ change'[d].at # "write"
    BY <1>1, <2>3
  <2>4. CASE change'[d].began = change[d].began /\ change'[d].at = "read"
    BY <1>1, <2>1, <2>4
  <2>5. ASSUME NEW u \in Users, changePassword(d, u)
        PROVE  change'[d].began = clock /\ change'[d].at = "read"
    BY <2>5 DEF changePassword, TypeOK
  <2>6. ASSUME NEW next \in {"read", "write", "done"}, MoveChange(d, next)
        PROVE  /\ next = "done" => change'[d].began = 0 /\ change'[d].at = "done"
               /\ next # "done" => change'[d].began = change[d].began /\ change'[d].at = next
    <3>1. change[d] \in [at : {"new", "read", "write", "done"}, user : Users \cup {None},
                         began : 0 .. MaxClock]
      BY DEF TypeOK
    <3>2. change'[d] = IF next = "done" THEN [at |-> "done", user |-> None, began |-> 0]
                                        ELSE [change[d] EXCEPT !.at = next]
      BY <2>6 DEF MoveChange, TypeOK
    <3> QED
      BY <3>1, <3>2
  <2>7. CASE SetPassword(d)
    <3>1. stamp'[d] = clock + 1 /\ snap'[d] = store
      BY <2>7 DEF SetPassword, Look, TypeOK
    <3>2. change'[d].began = change[d].began
      BY <2>6, <2>7 DEF SetPassword
    <3>3. Recent(store, clock + 1)
      BY DEF TimesOrdered
    <3> QED
      BY <1>1, <2>1, <3>1, <3>2, <3>3
  <2>8. CASE ChangeStep(d)
    BY <1>1, <2>3, <2>4, <2>5, <2>6, <2>7, <2>8
    DEF ChangeStep, SetPasswordWrites, SetPasswordConflict
  <2>9. ASSUME NEW c \in Changes \ {d}, ChangeStep(c)
        PROVE  change'[d] = change[d] /\ stamp'[d] = stamp[d] /\ snap'[d] = snap[d]
    <3>1. change'[d] = change[d]
      BY <2>9
      DEF ChangeStep, changePassword, SetPassword, SetPasswordWrites, SetPasswordConflict,
          MoveChange, TypeOK
    <3>2. stamp'[d] = stamp[d] /\ snap'[d] = snap[d]
      BY <2>9
      DEF ChangeStep, changePassword, SetPassword, SetPasswordWrites, SetPasswordConflict,
          Leave, Look, mutateVars, TypeOK
    <3> QED
      BY <3>1, <3>2
  <2>10. ASSUME NEW r \in Replicas, BootstrapStep(r)
         PROVE  change'[d] = change[d] /\ stamp'[d] = stamp[d] /\ snap'[d] = snap[d]
    <3>1. r # d
      BY IdentityAssumption
    <3>2. UNCHANGED change
      BY <2>10
      DEF BootstrapStep, Start, Crash, CAFails, ReadKey, CreateKey, AdoptKey, ReadPublic,
          WritePublic, FindAdmin, MissAdmin, CreateAdmin, AdminConflict, publishInitialCredential
    <3>3. UNCHANGED <<snap, stamp>> \/ Look(r) \/ Leave(r)
      BY <2>10
      DEF BootstrapStep, Start, Crash, CAFails, ReadKey, CreateKey, AdoptKey, ReadPublic,
          WritePublic, FindAdmin, MissAdmin, CreateAdmin, AdminConflict, publishInitialCredential,
          mutateVars
    <3> QED
      BY <3>1, <3>2, <3>3 DEF Look, Leave, TypeOK
  <2>11. ASSUME NEW r \in Replicas, NEW u \in Users, Login(r, u)
         PROVE  change'[d] = change[d] /\ stamp'[d] = stamp[d] /\ snap'[d] = snap[d]
    BY <2>11 DEF Login, mutateVars
  <2>12. CASE UNCHANGED vars
    BY <2>2, <2>12 DEF vars, mutateVars
  <2> QED
    BY <2>2, <2>8, <2>9, <2>10, <2>11, <2>12 DEF Next
<1>5. ASSUME NEW s \in sessions' PROVE s.issued > 0
  <2>1. CASE s \in sessions
    BY <2>1 DEF TimesOrdered
  <2>2. CASE s \notin sessions
    BY <1>1, <2>2, SessionStep
  <2> QED
    BY <2>1, <2>2
<1> QED
  BY <1>2, <1>3, <1>4, <1>5 DEF TimesOrdered, Recent, Has

\* Every step keeps the changes that succeeded older than the records.
LEMMA RevokedStep ==
  ASSUME TypeOK, Placed, TimesOrdered, RevokedBefore, AdminOnce, [Next]_vars
  PROVE  RevokedBefore'
<1>1. \A v \in Users : revoked[v] \in Nat
  BY IdentityAssumption DEF TypeOK
<1>2. CASE UNCHANGED <<store, latest, revoked>>
  BY <1>2 DEF RevokedBefore, Has
<1>3. ASSUME NEW r \in Replicas, CreateAdmin(r) PROVE RevokedBefore'
  <2>1. UNCHANGED revoked /\ ~Has(store, Admin)
    BY <1>3, CreateEffect DEF CreateAdmin, AdminOnce
  <2>2. Sets(Admin, Own(r), stamp[r])
    BY <1>3, CreateEffect
  <2> QED
    BY <2>1, <2>2, IdentityAssumption DEF RevokedBefore, Sets, Has
<1>4. ASSUME NEW c \in Changes, SetPasswordWrites(c) PROVE RevokedBefore'
  <2> DEFINE u == change[c].user
  <2>1. u \in Users /\ Sets(u, c, stamp[c]) /\ store = snap[c]
    BY <1>4, ChangeEffect
  <2> HIDE DEF u
  <2>2. revoked' = [revoked EXCEPT ![u] = IF change[c].began > @ THEN change[c].began ELSE @]
    BY <1>4 DEF SetPasswordWrites, u
  <2>3. change[c].began < stamp[c] /\ Recent(store, stamp[c])
    BY <1>4, <2>1 DEF SetPasswordWrites, TimesOrdered
  <2>4. change[c].began \in Nat /\ stamp[c] \in Nat
    BY IdentityAssumption DEF TypeOK
  <2>5. revoked[u] < stamp[c]
    <3>1. CASE revoked[u] = 0
      BY <2>3, <2>4, <3>1
    <3>2. CASE revoked[u] > 0
      <4>1. Has(store, u) /\ revoked[u] < store.value[u].updated
        BY <2>1, <3>2 DEF RevokedBefore
      <4>2. store.value[u].updated < stamp[c] /\ store.value[u].updated \in Nat
        BY <2>1, <2>3, <4>1, UpdatedType DEF Recent, TypeOK
      <4> QED
        BY <1>1, <2>1, <2>4, <4>1, <4>2
    <3> QED
      BY <1>1, <2>1, <3>1, <3>2
  <2>6. ASSUME NEW v \in Users, revoked'[v] > 0
        PROVE  Has(store', v) /\ revoked'[v] < store'.value[v].updated
    <3>1. CASE v = u
      <4>1. revoked'[u] < stamp[c]
        BY <2>1, <2>2, <2>3, <2>5 DEF TypeOK
      <4> QED
        BY <2>1, <3>1, <4>1 DEF Sets
    <3>2. CASE v # u
      <4>1. revoked'[v] = revoked[v]
        BY <2>2, <3>2 DEF TypeOK
      <4> QED
        BY <2>1, <2>6, <3>2, <4>1 DEF Sets, RevokedBefore
    <3> QED
      BY <3>1, <3>2
  <2> QED
    BY <2>6 DEF RevokedBefore, Has
<1> QED
  BY <1>2, <1>3, <1>4, StoreStep

-----------------------------------------------------------------------------
(* The administrator and its credential *)

\* Somebody created the administrator and is about to publish the credential.
Publishing(r) == at[r] = <<"user", "publish">>

\* How a replica comes to write the administrator and to publish the
\* credential, and how it leaves.
LEMMA AdminMoves ==
  ASSUME TypeOK, [Next]_vars, NEW q \in Replicas
  PROVE  /\ at'[q] = <<"user", "write">> =>
              MissAdmin(q) \/ (at[q] = <<"user", "write">> /\ snap'[q] = snap[q])
         /\ Publishing(q)' => CreateAdmin(q) \/ (Publishing(q) /\ own'[q] = own[q])
         /\ Publishing(q) /\ ~Publishing(q)' => Crash(q) \/ publishInitialCredential(q)
<1> DEFINE Moves ==
             /\ at'[q] = <<"user", "write">> =>
                  MissAdmin(q) \/ (at[q] = <<"user", "write">> /\ snap'[q] = snap[q])
             /\ Publishing(q)' => CreateAdmin(q) \/ (Publishing(q) /\ own'[q] = own[q])
             /\ Publishing(q) /\ ~Publishing(q)' => Crash(q) \/ publishInitialCredential(q)
<1> SUFFICES Moves
  OBVIOUS
<1>1. CASE at'[q] = at[q] /\ snap'[q] = snap[q] /\ own'[q] = own[q]
  BY <1>1 DEF Publishing
<1>2. ASSUME NEW r \in Replicas \ {q}, BootstrapStep(r)
      PROVE  at'[q] = at[q] /\ snap'[q] = snap[q] /\ own'[q] = own[q]
  <2>1. at'[q] = at[q]
    BY <1>2
    DEF BootstrapStep, Start, Crash, CAFails, ReadKey, CreateKey, AdoptKey, ReadPublic,
        WritePublic, FindAdmin, MissAdmin, CreateAdmin, AdminConflict, publishInitialCredential,
        Hold, WithoutCA, Go, TypeOK
  <2>2. own'[q] = own[q]
    BY <1>2
    DEF BootstrapStep, Start, Crash, CAFails, ReadKey, CreateKey, AdoptKey, ReadPublic,
        WritePublic, FindAdmin, MissAdmin, CreateAdmin, AdminConflict, publishInitialCredential,
        TypeOK
  <2>3. snap'[q] = snap[q]
    BY <1>2
    DEF BootstrapStep, Start, Crash, CAFails, ReadKey, CreateKey, AdoptKey, ReadPublic,
        WritePublic, FindAdmin, MissAdmin, CreateAdmin, AdminConflict, publishInitialCredential,
        mutateVars, Look, Leave, TypeOK
  <2> QED
    BY <2>1, <2>2, <2>3
<1>3. CASE BootstrapStep(q)
  <2>1. CASE MissAdmin(q) \/ CreateAdmin(q) \/ Crash(q) \/ publishInitialCredential(q)
    BY <2>1
    DEF MissAdmin, CreateAdmin, Crash, publishInitialCredential, Go, Publishing, Down, TypeOK
  <2>2. ASSUME NEW k \in Keys, ReadKey(q, k) \/ CreateKey(q, k) \/ AdoptKey(q, k) PROVE Moves
    <3>1. at[q] = <<k, "read">> \/ at[q] = <<k, "create">> \/ at[q] = <<k, "adopt">>
      BY <2>2 DEF ReadKey, CreateKey, AdoptKey
    <3>2. at'[q] \in {<<"pub", "read">>, Up, <<k, "create">>, <<k, "adopt">>}
      BY <2>2 DEF ReadKey, CreateKey, AdoptKey, Hold, Go, TypeOK
    <3> QED
      BY <3>1, <3>2 DEF Keys, Up, Publishing
  <2>3. CASE Start(q) \/ CAFails(q) \/ ReadPublic(q) \/ WritePublic(q) \/ FindAdmin(q)
             \/ AdminConflict(q)
    <3>1. ~Publishing(q)
      BY <2>3
      DEF Start, CAFails, ReadPublic, WritePublic, FindAdmin, AdminConflict, Publishing, Down
    <3>2. at'[q] \in {<<"ca", "read">>, <<"user", "read">>, <<"pub", "write">>, <<"session", "read">>}
      BY <2>3
      DEF Start, CAFails, ReadPublic, WritePublic, FindAdmin, AdminConflict, WithoutCA, Go, TypeOK
    <3> QED
      BY <3>1, <3>2 DEF Publishing
  <2> QED
    BY <1>3, <2>1, <2>2, <2>3 DEF BootstrapStep
<1>4. ASSUME NEW c \in Changes, ChangeStep(c)
      PROVE  at'[q] = at[q] /\ snap'[q] = snap[q] /\ own'[q] = own[q]
  <2>1. c # q
    BY IdentityAssumption
  <2>2. UNCHANGED <<at, own>>
    BY <1>4
    DEF ChangeStep, changePassword, SetPassword, SetPasswordWrites, SetPasswordConflict,
        replicaVars
  <2>3. UNCHANGED snap \/ Look(c) \/ Leave(c)
    BY <1>4
    DEF ChangeStep, changePassword, SetPassword, SetPasswordWrites, SetPasswordConflict,
        mutateVars
  <2> QED
    BY <2>1, <2>2, <2>3 DEF Look, Leave, TypeOK
<1>5. ASSUME NEW r \in Replicas, NEW u \in Users, Login(r, u)
      PROVE  at'[q] = at[q] /\ snap'[q] = snap[q] /\ own'[q] = own[q]
  BY <1>5 DEF Login, replicaVars, mutateVars
<1>6. CASE UNCHANGED vars
  BY <1>1, <1>6 DEF vars, replicaVars, mutateVars
<1> HIDE DEF Moves
<1> QED
  BY <1>1, <1>2, <1>3, <1>4, <1>5, <1>6 DEF Next

\* The credential is written by whoever publishes it, and a start that died
\* there is remembered.
LEMMA CredentialMoves ==
  ASSUME [Next]_vars
  PROVE  /\ UNCHANGED credential \/ \E r \in Replicas : publishInitialCredential(r)
         /\ orphaned => orphaned'
<1>1. ASSUME NEW r \in Replicas, BootstrapStep(r)
      PROVE  (UNCHANGED credential \/ publishInitialCredential(r)) /\ (orphaned => orphaned')
  <2>1. UNCHANGED credential \/ publishInitialCredential(r)
    BY <1>1
    DEF BootstrapStep, Start, Crash, CAFails, ReadKey, CreateKey, AdoptKey, ReadPublic,
        WritePublic, FindAdmin, MissAdmin, CreateAdmin, AdminConflict, secretVars
  <2>2. UNCHANGED orphaned \/ Crash(r)
    BY <1>1
    DEF BootstrapStep, Start, CAFails, ReadKey, CreateKey, AdoptKey, ReadPublic, WritePublic,
        FindAdmin, MissAdmin, CreateAdmin, AdminConflict, publishInitialCredential, historyVars
  <2>3. Crash(r) /\ orphaned => orphaned'
    BY Zenon DEF Crash
  <2> QED
    BY <2>1, <2>2, <2>3
<1>2. ASSUME NEW r \in Replicas, NEW u \in Users, Login(r, u)
      PROVE  UNCHANGED <<credential, orphaned>>
  BY <1>2 DEF Login, secretVars, historyVars
<1>3. ASSUME NEW c \in Changes, ChangeStep(c) PROVE UNCHANGED <<credential, orphaned>>
  BY <1>3
  DEF ChangeStep, changePassword, SetPassword, SetPasswordWrites, SetPasswordConflict, secretVars,
      historyVars
<1>4. CASE UNCHANGED vars
  BY <1>4 DEF vars, secretVars, historyVars
<1> QED
  BY <1>1, <1>2, <1>3, <1>4 DEF Next

\* Nobody is removed from the Secret.
LEMMA UsersStay ==
  ASSUME TypeOK, Placed, [Next]_vars, NEW u \in Users, Has(store, u)
  PROVE  Has(store', u)
<1>1. CASE UNCHANGED <<store, latest, revoked>>
  BY <1>1 DEF Has
<1>2. ASSUME NEW v \in Users, NEW password, NEW t, Sets(v, password, t) PROVE Has(store', u)
  BY <1>2 DEF Sets
<1> QED
  BY <1>1, <1>2, StoreStep, CreateEffect, ChangeEffect

\* Every step leaves the administrator to one start.
LEMMA AdminStep ==
  ASSUME TypeOK, Placed, AdminOnce, [Next]_vars
  PROVE  AdminOnce'
<1>0. Admin \in Users
  BY IdentityAssumption
<1>1. ASSUME NEW r \in Replicas, at'[r] = <<"user", "write">> PROVE ~Has(snap'[r], Admin)
  <2>1. CASE MissAdmin(r)
    BY <2>1 DEF MissAdmin, Look, TypeOK
  <2>2. CASE at[r] = <<"user", "write">> /\ snap'[r] = snap[r]
    BY <2>2 DEF AdminOnce
  <2> QED
    BY <1>1, <2>1, <2>2, AdminMoves
<1>2. ASSUME ~Has(store', Admin) PROVE credential' \in {Old, None}
  <2>1. ~Has(store, Admin)
    BY <1>0, <1>2, UsersStay
  <2>2. credential \in {Old, None} /\ \A r \in Replicas : ~publishInitialCredential(r)
    BY <2>1 DEF AdminOnce, publishInitialCredential
  <2> QED
    BY <2>2, CredentialMoves
<1>3. ASSUME NEW r \in Replicas, Publishing(r)'
      PROVE  /\ Has(store', Admin) /\ credential' \in {Old, None}
             /\ \A q \in Replicas : Publishing(q)' => q = r
  <2>1. ASSUME NEW p \in Replicas, CreateAdmin(p)
        PROVE  /\ \A q \in Replicas : ~Publishing(q)
               /\ Has(store', Admin) /\ credential' \in {Old, None}
               /\ \A q \in Replicas : CreateAdmin(q) => q = p
    <3>1. ~Has(store, Admin)
      BY <2>1, CreateEffect DEF AdminOnce, CreateAdmin
    <3>2. credential \in {Old, None} /\ \A q \in Replicas : ~Publishing(q)
      BY <3>1 DEF AdminOnce, Publishing
    <3>3. Has(store', Admin) /\ credential' = credential
      BY <2>1, CreateEffect DEF CreateAdmin, Sets
    <3>4. ASSUME NEW q \in Replicas, CreateAdmin(q) PROVE q = p
      <4>1. /\ at' = [at EXCEPT ![p] = <<"user", "publish">>]
            /\ at' = [at EXCEPT ![q] = <<"user", "publish">>]
            /\ at[p] = <<"user", "write">> /\ at[q] = <<"user", "write">>
        BY <2>1, <3>4 DEF CreateAdmin, Go
      <4>2. at[q] # <<"user", "publish">>
        BY <4>1
      <4> QED
        BY <4>1, <4>2 DEF TypeOK
    <3> QED
      BY <3>2, <3>3, <3>4
  <2>2. CASE \E p \in Replicas : CreateAdmin(p)
    BY <1>3, <2>1, <2>2, AdminMoves
  <2>3. CASE ~\E p \in Replicas : CreateAdmin(p)
    <3>1. \A q \in Replicas : Publishing(q)' => Publishing(q)
      BY <2>3, AdminMoves
    <3>2. /\ Has(store, Admin) /\ credential \in {Old, None}
          /\ \A q \in Replicas : Publishing(q) => q = r
      BY <1>3, <3>1 DEF AdminOnce, Publishing
    <3>3. ASSUME NEW p \in Replicas, publishInitialCredential(p) PROVE FALSE
      <4>1. Publishing(p) /\ at' = [at EXCEPT ![p] = <<"session", "read">>]
        BY <3>3 DEF publishInitialCredential, Publishing, Go
      <4>2. p = r
        BY <3>2, <4>1
      <4>3. at'[r] = <<"session", "read">>
        BY <4>1, <4>2 DEF TypeOK
      <4> QED
        BY <1>3, <4>3 DEF Publishing
    <3> QED
      BY <1>0, <3>1, <3>2, <3>3, CredentialMoves, UsersStay
  <2> QED
    BY <2>2, <2>3
<1> QED
  BY <1>1, <1>2, <1>3 DEF AdminOnce, Publishing, Has

\* Every step keeps the administrator's drawn password within reach.
LEMMA CredentialStep ==
  ASSUME TypeOK, Placed, AdminOnce, InitialCredentialWorks, [Next]_vars
  PROVE  InitialCredentialWorks'
<1> DEFINE new == store'.value[Admin].hash
           Reach == \/ credential' = new
                    \/ \E r \in Replicas : Publishing(r)' /\ Own(r)' = new
                    \/ orphaned'
                    \/ credential' = Old
<1> SUFFICES ASSUME Has(store', Admin), new \in Drawn PROVE Reach
  BY DEF InitialCredentialWorks, Publishing, Has
<1>1. CASE Has(store, Admin) /\ store'.value[Admin] = store.value[Admin]
  <2>1. \/ credential = new
        \/ \E r \in Replicas : Publishing(r) /\ Own(r) = new
        \/ orphaned
        \/ credential = Old
    BY <1>1 DEF InitialCredentialWorks, Publishing
  <2>2. CASE orphaned
    BY <2>2, CredentialMoves
  <2>3. CASE credential = new \/ credential = Old
    <3>1. credential # None
      BY <2>3, NoneAssumption DEF Passwords
    <3>2. \A r \in Replicas : publishInitialCredential(r) => credential' = credential
      BY <3>1 DEF publishInitialCredential
    <3> QED
      BY <2>3, <3>2, CredentialMoves
  <2>4. ASSUME NEW r \in Replicas, Publishing(r), Own(r) = new PROVE Reach
    <3>1. CASE Publishing(r)' /\ own'[r] = own[r]
      BY <2>4, <3>1 DEF Own
    <3>2. CASE Crash(r)
      BY <2>4, <3>2, Zenon DEF Crash, Publishing
    <3>3. CASE publishInitialCredential(r)
      <4>1. credential \in {Old, None}
        BY <2>4 DEF AdminOnce, Publishing
      <4>2. credential' = Own(r) \/ credential' = Old
        BY <3>3, <4>1 DEF publishInitialCredential
      <4> QED
        BY <2>4, <4>2
    <3>4. CASE CreateAdmin(r)
      BY <2>4, <3>4 DEF CreateAdmin, Publishing
    <3> QED
      BY <2>4, <3>1, <3>2, <3>3, <3>4, AdminMoves
  <2> QED
    BY <2>1, <2>2, <2>3, <2>4
<1>2. CASE UNCHANGED <<store, latest, revoked>>
  BY <1>1, <1>2 DEF Has
<1>3. ASSUME NEW r \in Replicas, CreateAdmin(r) PROVE Reach
  <2>0. Sets(Admin, Own(r), stamp[r])
    BY <1>3, CreateEffect
  <2>1. new = Own(r)
    BY <2>0 DEF Sets
  <2>2. Publishing(r)' /\ own' = own
    BY <1>3 DEF CreateAdmin, Publishing, Go, TypeOK
  <2> QED
    BY <2>1, <2>2 DEF Own
<1>4. ASSUME NEW c \in Changes, SetPasswordWrites(c) PROVE Reach
  <2>1. change[c].user \in Users /\ c \notin Drawn /\ Sets(change[c].user, c, stamp[c])
    BY <1>4, ChangeEffect
  <2>2. CASE change[c].user = Admin
    BY <2>1, <2>2 DEF Sets
  <2>3. CASE change[c].user # Admin
    BY <1>1, <2>1, <2>3, IdentityAssumption DEF Sets
  <2> QED
    BY <2>2, <2>3
<1> QED
  BY <1>2, <1>3, <1>4, StoreStep

-----------------------------------------------------------------------------
(* The published key *)

\* Past the bootstrap of the authority a start does not come back to it.
LEMMA PublishedPlaces ==
  /\ \A p \in {<<"user", "read">>, <<"user", "write">>, <<"user", "publish">>,
               <<"session", "read">>, <<"session", "create">>, <<"session", "adopt">>, Up} :
       p # <<"pub", "write">> /\ p # <<"pub", "read">>
  /\ \A p \in {Down, <<"ca", "read">>, <<"ca", "create">>, <<"ca", "adopt">>, <<"pub", "read">>,
               <<"pub", "write">>} :
       p \notin {<<"user", "read">>, <<"user", "write">>, <<"user", "publish">>,
                 <<"session", "read">>, <<"session", "create">>, <<"session", "adopt">>, Up}
BY DEF Down, Up

\* The one write of the published key.
LEMMA PubStep ==
  ASSUME [Next]_vars
  PROVE  \/ UNCHANGED pub
         \/ \E r \in Replicas :
              /\ at[r] = <<"pub", "write">>
              /\ pub' = [value |-> held[r]["ca"], version |-> seen[r] + 1]
<1>1. ASSUME NEW r \in Replicas, BootstrapStep(r)
      PROVE  \/ UNCHANGED pub
             \/ /\ at[r] = <<"pub", "write">>
                /\ pub' = [value |-> held[r]["ca"], version |-> seen[r] + 1]
  BY <1>1
  DEF BootstrapStep, Start, Crash, CAFails, ReadKey, CreateKey, AdoptKey, ReadPublic,
      WritePublic, FindAdmin, MissAdmin, CreateAdmin, AdminConflict, publishInitialCredential,
      secretVars
<1>2. ASSUME NEW r \in Replicas, NEW u \in Users, Login(r, u) PROVE UNCHANGED pub
  BY <1>2 DEF Login, secretVars
<1>3. ASSUME NEW c \in Changes, ChangeStep(c) PROVE UNCHANGED pub
  BY <1>3
  DEF ChangeStep, changePassword, SetPassword, SetPasswordWrites, SetPasswordConflict, secretVars
<1>4. CASE UNCHANGED vars
  BY <1>4 DEF vars, secretVars
<1> QED
  BY <1>1, <1>2, <1>3, <1>4 DEF Next

\* What a step of replica q makes of the published key it relies on.
Trusts(q) ==
  held[q]["ca"] # None =>
    /\ Published(q) => pub # None /\ pub.value = held[q]["ca"]
    /\ at[q] = <<"pub", "write">> /\ seen[q] = 0 /\ pub # None => pub.value = held[q]["ca"]

LEMMA TrustStep ==
  ASSUME TypeOK, Placed, NEW q \in Replicas, BootstrapStep(q), UNCHANGED pub, Trusts(q),
         pub # None => pub.version > 0
  PROVE  Trusts(q)'
<1>1. CASE Published(q) /\ Published(q)' /\ held'[q]["ca"] = held[q]["ca"]
  BY <1>1, PublishedPlaces DEF Trusts, Published
<1>2. CASE held'[q]["ca"] = None
  BY <1>2 DEF Trusts
<1>3. CASE at'[q] \in {<<"ca", "read">>, <<"ca", "create">>, <<"ca", "adopt">>, <<"pub", "read">>}
  BY <1>3, PublishedPlaces DEF Trusts, Published
<1>4. CASE Start(q)
  BY <1>3, <1>4 DEF Start, Go, TypeOK
<1>5. CASE Crash(q)
  BY <1>2, <1>5 DEF Crash, TypeOK, Keys
<1>6. CASE CAFails(q)
  BY <1>2, <1>6 DEF CAFails, WithoutCA, TypeOK, Keys
<1>7. ASSUME NEW k \in Keys, ReadKey(q, k) \/ CreateKey(q, k) \/ AdoptKey(q, k) PROVE Trusts(q)'
  <2>1. CASE k = "ca"
    <3>1. at'[q] \in {<<"ca", "read">>, <<"ca", "create">>, <<"ca", "adopt">>, <<"pub", "read">>}
      BY <1>7, <2>1 DEF ReadKey, CreateKey, AdoptKey, Hold, Go, TypeOK
    <3> QED
      BY <1>3, <3>1
  <2>2. CASE k = "session"
    <3>1. Published(q)
      BY <1>7, <2>2 DEF ReadKey, CreateKey, AdoptKey, Published
    <3>2. Published(q)'
      BY <1>7, <2>2 DEF ReadKey, CreateKey, AdoptKey, Hold, Go, TypeOK, Published
    <3>3. held'[q]["ca"] = held[q]["ca"]
      BY <1>7, <2>2 DEF ReadKey, CreateKey, AdoptKey, Hold, TypeOK, Keys
    <3> QED
      BY <1>1, <3>1, <3>2, <3>3
  <2> QED
    BY <2>1, <2>2 DEF Keys
<1>8. CASE ReadPublic(q)
  <2>1. held' = held /\ seen'[q] = Version(pub)
    BY <1>8 DEF ReadPublic, TypeOK
  <2>2. CASE pub # None /\ pub.value = held[q]["ca"]
    BY <2>1, <2>2 DEF Trusts
  <2>3. CASE ~(pub # None /\ pub.value = held[q]["ca"])
    <3>1. at'[q] = <<"pub", "write">>
      BY <1>8, <2>3 DEF ReadPublic, Go, TypeOK
    <3>2. pub # None => seen'[q] # 0
      BY <2>1 DEF Version
    <3> QED
      BY <3>1, <3>2, PublishedPlaces DEF Trusts, Published
  <2> QED
    BY <2>2, <2>3
<1>9. CASE WritePublic(q)
  <2>1. CASE Version(pub) = seen[q]
    <3>1. pub = [value |-> held[q]["ca"], version |-> seen[q] + 1]
      BY <1>9, <2>1 DEF WritePublic
    <3>2. pub.version # seen[q]
      BY <3>1 DEF TypeOK
    <3>3. pub = None
      BY <2>1, <3>2 DEF Version
    <3>4. held[q]["ca"] \in KeyValues /\ seen[q] + 1 \in Nat
      BY <1>9 DEF WritePublic, Placed, TypeOK, Keys
    <3> QED
      BY <3>1, <3>3, <3>4, NoneAssumption
  <2>2. CASE Version(pub) # seen[q] /\ seen[q] = 0
    <3>1. pub # None /\ held' = held /\ at[q] = <<"pub", "write">>
      BY <1>9, <2>2 DEF WritePublic, Version
    <3> QED
      BY <2>2, <3>1 DEF Trusts
  <2>3. CASE Version(pub) # seen[q] /\ seen[q] # 0
    BY <1>2, <1>9, <2>3 DEF WritePublic, WithoutCA, TypeOK, Keys
  <2> QED
    BY <2>1, <2>2, <2>3
<1>10. CASE FindAdmin(q) \/ MissAdmin(q) \/ CreateAdmin(q) \/ AdminConflict(q)
            \/ publishInitialCredential(q)
  <2>1. Published(q) /\ held' = held
    BY <1>10
    DEF FindAdmin, MissAdmin, CreateAdmin, AdminConflict, publishInitialCredential, Published
  <2>2. Published(q)'
    BY <1>10
    DEF FindAdmin, MissAdmin, CreateAdmin, AdminConflict, publishInitialCredential, Go, Published,
        TypeOK
  <2> QED
    BY <1>1, <2>1, <2>2
<1> QED
  BY <1>4, <1>5, <1>6, <1>7, <1>8, <1>9, <1>10 DEF BootstrapStep

\* Every step keeps the published key the authority's.
LEMMA PublicStep ==
  ASSUME TypeOK, Placed, KeysAgree, PublicAgrees, [Next]_vars
  PROVE  PublicAgrees'
<1>0. KeysAgree' /\ "ca" \in Keys
  BY KeysStep DEF Keys
<1>1. ASSUME NEW r \in Replicas, at[r] = <<"pub", "write">>,
             pub' = [value |-> held[r]["ca"], version |-> seen[r] + 1]
      PROVE  PublicAgrees'
  <2>1. held[r]["ca"] # None /\ held[r]["ca"] = keySecret["ca"]
    BY <1>0, <1>1 DEF Placed, KeysAgree
  <2>2. keySecret'["ca"] = held[r]["ca"]
    BY <1>0, <2>1, KeyKept
  <2>3. held[r]["ca"] \in KeyValues /\ seen[r] \in Nat
    BY <1>0, <2>1 DEF TypeOK
  <2>4. pub' # None /\ pub'.value = keySecret'["ca"] /\ pub'.version > 0
    BY <1>1, <2>2, <2>3, NoneAssumption
  <2> QED
    BY <1>0, <2>4 DEF PublicAgrees, KeysAgree, Published
<1>2. CASE UNCHANGED pub
  <2>1. \A q \in Replicas : Trusts(q)
    BY DEF PublicAgrees, Trusts
  <2>2. ASSUME NEW q \in Replicas PROVE Trusts(q)'
    <3>1. CASE at'[q] = at[q] /\ held'[q] = held[q] /\ seen'[q] = seen[q]
      BY <1>2, <2>1, <3>1 DEF Trusts, Published
    <3>2. CASE BootstrapStep(q)
      BY <1>2, <2>1, <3>2, TrustStep DEF PublicAgrees
    <3>3. ASSUME NEW r \in Replicas \ {q}, BootstrapStep(r)
          PROVE  at'[q] = at[q] /\ held'[q] = held[q] /\ seen'[q] = seen[q]
      <4>1. at'[q] = at[q]
        BY <3>3
        DEF BootstrapStep, Start, Crash, CAFails, ReadKey, CreateKey, AdoptKey, ReadPublic,
            WritePublic, FindAdmin, MissAdmin, CreateAdmin, AdminConflict,
            publishInitialCredential, Hold, WithoutCA, Go, TypeOK
      <4>2. held'[q] = held[q]
        BY <3>3
        DEF BootstrapStep, Start, Crash, CAFails, ReadKey, CreateKey, AdoptKey, ReadPublic,
            WritePublic, FindAdmin, MissAdmin, CreateAdmin, AdminConflict,
            publishInitialCredential, Hold, WithoutCA, TypeOK
      <4>3. seen'[q] = seen[q]
        BY <3>3
        DEF BootstrapStep, Start, Crash, CAFails, ReadKey, CreateKey, AdoptKey, ReadPublic,
            WritePublic, FindAdmin, MissAdmin, CreateAdmin, AdminConflict,
            publishInitialCredential, TypeOK
      <4> QED
        BY <4>1, <4>2, <4>3
    <3>4. ASSUME NEW r \in Replicas, NEW u \in Users, Login(r, u)
          PROVE  at'[q] = at[q] /\ held'[q] = held[q] /\ seen'[q] = seen[q]
      BY <3>4 DEF Login, replicaVars
    <3>5. ASSUME NEW c \in Changes, ChangeStep(c)
          PROVE  at'[q] = at[q] /\ held'[q] = held[q] /\ seen'[q] = seen[q]
      BY <3>5
      DEF ChangeStep, changePassword, SetPassword, SetPasswordWrites, SetPasswordConflict,
          replicaVars
    <3>6. CASE UNCHANGED vars
      BY <3>1, <3>6 DEF vars, replicaVars
    <3> QED
      BY <3>1, <3>2, <3>3, <3>4, <3>5, <3>6 DEF Next
  <2> QED
    BY <1>2, <2>2 DEF PublicAgrees, Trusts
<1> QED
  BY <1>1, <1>2, PubStep

-----------------------------------------------------------------------------
(* The theorems *)

LEMMA InvInitial == Init => Inv
<1> SUFFICES ASSUME Init PROVE Inv
  OBVIOUS
<1>1. TypeOK /\ Placed
  BY TypeInitial
<1>2. KeysAgree
  BY DEF Init, KeysAgree
<1>3. PublicAgrees
  <2>1. pub # None => pub.version > 0
    BY DEF Init, Fresh
  <2>2. \A r \in Replicas : held[r]["ca"] = None
    BY DEF Init, Keys
  <2> QED
    BY <2>1, <2>2 DEF PublicAgrees
<1>4. ASSUME NEW u \in Users, Has(store, u)
      PROVE  store.value[u] = [hash |-> Old, updated |-> 0]
  <2>1. PICK left \in SUBSET Users :
          store = Fresh([v \in Users |-> IF v \in left THEN [hash |-> Old, updated |-> 0] ELSE None])
    BY <1>4 DEF Init, Has
  <2>2. store.value = [v \in Users |-> IF v \in left THEN [hash |-> Old, updated |-> 0] ELSE None]
    BY <2>1 DEF Fresh
  <2> QED
    BY <1>4, <2>2 DEF Has
<1>5. TimesOrdered
  BY <1>4 DEF Init, TimesOrdered, Recent
<1>6. RevokedBefore /\ ChangesKept
  BY DEF Init, RevokedBefore, ChangesKept
<1>7. AdminOnce
  <2>1. \A r \in Replicas : at[r] = Down
    BY DEF Init
  <2>2. \A r \in Replicas : at[r] # <<"user", "write">> /\ at[r] # <<"user", "publish">>
    BY <2>1 DEF Down
  <2> QED
    BY <2>2 DEF AdminOnce, Init
<1>8. InitialCredentialWorks
  <2>1. Has(store, Admin) => store.value[Admin].hash = Old
    BY <1>4, IdentityAssumption
  <2> QED
    BY <2>1, NoneAssumption DEF InitialCredentialWorks
<1> QED
  BY <1>1, <1>2, <1>3, <1>5, <1>6, <1>7, <1>8 DEF Inv

LEMMA Invariance == Spec => []Inv
<1>1. Inv /\ [Next]_vars => Inv'
  <2> SUFFICES ASSUME Inv, [Next]_vars PROVE Inv'
    OBVIOUS
  <2>1. TypeOK' /\ Placed'
    BY TypeStep DEF Inv
  <2>2. KeysAgree' /\ PublicAgrees'
    BY KeysStep, PublicStep DEF Inv
  <2>3. TimesOrdered' /\ RevokedBefore'
    BY TimesStep, RevokedStep DEF Inv
  <2>4. AdminOnce' /\ InitialCredentialWorks'
    BY AdminStep, CredentialStep DEF Inv
  <2>5. ChangesKept'
    BY KeptStep DEF Inv
  <2> QED
    BY <2>1, <2>2, <2>3, <2>4, <2>5 DEF Inv
<1> QED
  BY <1>1, InvInitial, PTL DEF Spec

\* A session is good at every replica that serves, for any number of replicas
\* that started together, restarted or lost the race for the key
\* (ensureSecretKey, JWTSessionIssuer.Verify): they all sign and verify with
\* the key in the Secret.
THEOREM SessionsShared == Spec => []AnyReplicaAccepts
<1>1. Inv => AnyReplicaAccepts
  <2> SUFFICES ASSUME Inv, NEW s \in sessions, NEW r \in Serving,
                      Has(store, s.user), store.value[s.user].updated <= s.issued
               PROVE  Accepts(r, s)
    BY DEF AnyReplicaAccepts
  <2>1. r \in Replicas /\ at[r] = Up /\ "session" \in Keys
    BY DEF Serving, Keys
  <2>2. held[r]["session"] = keySecret["session"]
    BY <2>1 DEF Inv, Placed, KeysAgree
  <2>3. s.key = keySecret["session"]
    BY DEF Inv, KeysAgree
  <2> QED
    BY <2>2, <2>3 DEF Accepts
<1> QED
  BY <1>1, Invariance, PTL

\* No session outlives a password change that succeeded after it was issued,
\* however the changes, their retries and the sessions interleave
\* (UserStore.SetPassword, which takes the time anew in every round of mutate).
THEOREM OldSessionsRefused == Spec => []SessionsRevoked
<1>1. Inv => SessionsRevoked
  <2> SUFFICES ASSUME Inv, NEW s \in sessions, NEW r \in Replicas, s.issued <= revoked[s.user],
                      Accepts(r, s)
               PROVE  FALSE
    BY DEF SessionsRevoked
  <2>1. s.user \in Users /\ s.issued \in Nat /\ revoked[s.user] \in Nat
    BY IdentityAssumption DEF Inv, TypeOK
  <2>2. Has(store, s.user) /\ store.value[s.user].updated <= s.issued
    BY DEF Accepts
  <2>3. store.value[s.user].updated \in Nat
    BY <2>1, <2>2, UpdatedType DEF Inv, TypeOK
  <2>4. CASE revoked[s.user] > 0
    <3>1. revoked[s.user] < store.value[s.user].updated
      BY <2>1, <2>4 DEF Inv, RevokedBefore
    <3> QED
      BY <2>1, <2>2, <2>3, <3>1
  <2>5. CASE revoked[s.user] = 0
    BY <2>1, <2>5 DEF Inv, TimesOrdered
  <2> QED
    BY <2>1, <2>4, <2>5
<1> QED
  BY <1>1, Invariance, PTL

\* Whoever serves and issues certificates signs them with the key that is
\* published, whoever published it, whatever an earlier authority left there
\* and whoever's update failed (publishPublicKey).
THEOREM CertificatesAlwaysTrusted == Spec => []CertificatesTrusted
<1>1. Inv => CertificatesTrusted
  BY DEF Inv, PublicAgrees, CertificatesTrusted, Serving, Published
<1> QED
  BY <1>1, Invariance, PTL

\* The administrator never has a drawn password that nobody can learn, unless
\* a start died right before it published it or an earlier deployment's
\* credential is in its place (ensureAdmin, publishInitialCredential).
THEOREM CredentialAlwaysWorks == Spec => []InitialCredentialWorks
<1>1. Inv => InitialCredentialWorks
  BY DEF Inv
<1> QED
  BY <1>1, Invariance, PTL

\* The Secret of the users shows the last password written for each of them:
\* no retry of mutate, by any replica, writes back what it read before
\* somebody else's write.
THEOREM ChangesAlwaysKept == Spec => []ChangesKept
<1>1. Inv => ChangesKept
  BY DEF Inv
<1> QED
  BY <1>1, Invariance, PTL
=============================================================================
