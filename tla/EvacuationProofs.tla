-------------------------- MODULE EvacuationProofs --------------------------
(***************************************************************************)
(* Proofs about Evacuation, with commits, evacuations and failures at any  *)
(* moment: its types, that the remote and the objects cover the assured    *)
(* work, and that Evacuation implements DurableWork.                       *)
(***************************************************************************)
EXTENDS Evacuation, TLAPS

\* Nothing captured yet is typed.
LEMMA NothingType == NoEvac \in EvacRecord /\ Nothing \in Bundles
<1>1. Nothing \in Bundles
  BY DEF Nothing, Bundles
<1> QED
  BY <1>1 DEF NoEvac, EvacRecord

\* What writeBundle captures is a bundle.
LEMMA BundleType == TypeOK => writeBundle \in Bundles
BY NothingType DEF TypeOK, writeBundle, Bundles

\* While a lost volume is rebuilt it holds no work of its own, and nobody
\* evacuates it.
Rebuilding ==
  volume # "live" =>
    /\ dirty = {}
    /\ volume = "empty" => commits = {}
    /\ volume = "cloned" => commits = remote
    /\ \A p \in Procs : evac[p].at = "idle"

\* Every step keeps the types: a clone, in which work may be both on the
\* remote branch and in the tree, needs that the tree is still empty.
LEMMA TypeStep == TypeOK /\ Rebuilding /\ [Next]_vars => TypeOK'
<1> SUFFICES ASSUME TypeOK, Rebuilding, [Next]_vars PROVE TypeOK'
  OBVIOUS
<1> USE DEF TypeOK, Rebuilding
<1>1. ASSUME NEW i \in Items, Write(i) \/ Commit(i) PROVE TypeOK'
  <2>1. CASE Write(i)
    BY <2>1 DEF Write, store, history
  <2>2. CASE Commit(i)
    <3>1. evac' \in [Procs -> EvacRecord]
      BY <2>2 DEF Commit, EvacRecord
    <3> QED
      BY <2>2, <3>1 DEF Commit, store, history
  <2> QED
    BY <1>1, <2>1, <2>2
<1>2. CASE Push \/ BeginTurn \/ EndTurn
  BY <1>2 DEF Push, BeginTurn, EndTurn, tree, store, history
<1>3. ASSUME NEW p \in Procs, Begin(p), unseen' \in BOOLEAN PROVE TypeOK'
  <2>1. [at |-> "bundled", bundle |-> writeBundle, archive |-> {}, work |-> dirty \cup commits,
         disturbed |-> unrestored \/ UnderWay # {}] \in EvacRecord
    BY BundleType DEF EvacRecord
  <2>2. \A q \in Procs : [evac[q] EXCEPT !.disturbed = @ \/ evac[q].at # "idle"] \in EvacRecord
    BY DEF EvacRecord
  <2>3. evac' \in [Procs -> EvacRecord]
    BY <1>3, <2>1, <2>2 DEF Begin
  <2> QED
    BY <1>3, <2>3 DEF Begin, tree, store, history
<1>4. CASE WatchTurns \/ EvacuateWhenSettled
  BY <1>3, <1>4 DEF WatchTurns, EvacuateWhenSettled, Procs
<1>5. ASSUME NEW p \in Procs, Capture(p) PROVE TypeOK'
  <2>1. evac' \in [Procs -> EvacRecord]
    BY <1>5 DEF Capture, writeDirtyArchive, EvacRecord
  <2> QED
    BY <1>5, <2>1 DEF Capture, tree, store, history
<1>6. ASSUME NEW p \in Procs, PutBundle(p) PROVE TypeOK'
  <2>1. evac' \in [Procs -> EvacRecord] /\ evac[p].bundle \in Bundles
    BY <1>6 DEF PutBundle, EvacRecord
  <2> QED
    BY <1>6, <2>1 DEF PutBundle, Upload, Replaced, tree
<1>7. ASSUME NEW p \in Procs, PutArchive(p) PROVE TypeOK'
  <2>1. evac[p].archive \subseteq Items /\ evac[p].work \subseteq Items
    BY DEF EvacRecord
  <2> QED
    BY <1>7, <2>1, NothingType DEF PutArchive, Upload, tree
<1>8. ASSUME NEW p \in Procs, EvacuationFails(p) PROVE TypeOK'
  BY <1>8, NothingType DEF EvacuationFails, tree, store, history
<1>9. CASE Restart \/ NodeLoss \/ Clone
  BY <1>9, NothingType DEF Restart, NodeLoss, Clone, tree, store, history
<1>10. CASE Restore
  BY <1>10 DEF Restore, RestoreBundle, RestoreArchive, RestoreFails, hasLocalWork, Replayed,
     extractArchive, Bundles, tree, store, history
<1>11. CASE UNCHANGED vars
  BY <1>11 DEF vars, tree, store, history
<1> QED
  BY <1>1, <1>2, <1>4, <1>5, <1>6, <1>7, <1>8, <1>9, <1>10, <1>11 DEF Next, Evacuate

\* Every step keeps what is so while a volume is rebuilt.
LEMMA RebuildingStep == TypeOK /\ Rebuilding /\ [Next]_vars => Rebuilding'
<1> SUFFICES ASSUME TypeOK, Rebuilding, [Next]_vars PROVE Rebuilding'
  OBVIOUS
<1> USE DEF TypeOK, Rebuilding
<1>1. ASSUME NEW i \in Items, Write(i) \/ Commit(i) PROVE Rebuilding'
  BY <1>1 DEF Write, Commit
<1>2. CASE Push \/ BeginTurn \/ EndTurn
  BY <1>2 DEF Push, BeginTurn, EndTurn, tree
<1>3. CASE WatchTurns \/ EvacuateWhenSettled
  BY <1>3 DEF WatchTurns, EvacuateWhenSettled, Begin
<1>4. ASSUME NEW p \in Procs, Capture(p) \/ PutBundle(p) PROVE Rebuilding'
  BY <1>4 DEF Capture, PutBundle
<1>5. ASSUME NEW p \in Procs, PutArchive(p) \/ EvacuationFails(p) PROVE Rebuilding'
  BY <1>5 DEF PutArchive, EvacuationFails
<1>6. CASE Restart \/ NodeLoss
  BY <1>6 DEF Restart, NodeLoss, NoEvac
<1>7. CASE Clone \/ Restore
  BY <1>7 DEF Clone, Restore, RestoreBundle, RestoreArchive, RestoreFails
<1>8. CASE UNCHANGED vars
  BY <1>8 DEF vars, tree
<1> QED
  BY <1>1, <1>2, <1>3, <1>4, <1>5, <1>6, <1>7, <1>8 DEF Next, Evacuate

\* Nothing is evacuated at first.
LEMMA Initial == Init => TypeOK /\ Rebuilding
<1>1. Init => TypeOK
  BY NothingType DEF Init, TypeOK
<1>2. Init => Rebuilding
  BY DEF Init, Rebuilding, NoEvac
<1> QED
  BY <1>1, <1>2

\* The state of the evacuation agent, the volume and the object store keeps
\* its types, whatever is committed or evacuated at the same time; a change
\* is never both committed and not.
THEOREM TypeCorrect == Spec => []TypeOK
BY Initial, TypeStep, RebuildingStep, PTL DEF Spec
-----------------------------------------------------------------------------
(* The promise.  While an undisturbed evacuation is under way it is alone,   *)
(* and all that is assured is among the work it covers or on the remote;     *)
(* what only the bundle has is in its own bundle too; and what it captured,  *)
(* with what is still to be captured, is all of the work it covers.          *)

Under(p) ==
  LET e == evac[p] IN
  /\ e.work \subseteq commits \cup dirty
  /\ e.bundle.head \subseteq commits
  /\ assured \subseteq e.work \cup remote
  /\ assured \cap bundle.head \subseteq e.bundle.head \cup remote
  /\ e.work \subseteq remote \cup e.bundle.head \cup
                     (IF e.at = "bundled" THEN dirty ELSE e.archive)
  /\ e.at = "uploaded" => bundle = e.bundle

Undisturbed(p) == evac[p].at # "idle" /\ ~evac[p].disturbed

Alone(p) == ~unrestored /\ \A q \in Procs \ {p} : evac[q].at = "idle"

\* What the tree has of what is assured, by how far it is rebuilt.
TreeCovers ==
  /\ volume = "live" /\ ~unrestored =>
       /\ assured \subseteq remote \cup commits \cup dirty
       /\ assured \cap bundle.head \subseteq commits \cup remote
  /\ volume = "replayed" =>
       /\ assured \subseteq remote \cup commits \cup archive
       /\ assured \cap bundle.head \subseteq commits \cup remote

\* An object without commits brings none back.
EmptyIsEmpty ==
  /\ ~bundle.full => bundle.head = {}
  /\ \A p \in Procs : ~evac[p].bundle.full => evac[p].bundle.head = {}

\* The inductive invariant of the theorems below.
Inv ==
  /\ TypeOK
  /\ Rebuilding
  /\ EmptyIsEmpty
  /\ StoreCovers
  /\ TreeCovers
  /\ \A p \in Procs : Undisturbed(p) => Alone(p) /\ Under(p)

\* What writeBundle leaves out is on the remote.
LEMMA BundleCovers ==
  /\ commits \subseteq writeBundle.head \cup remote
  /\ writeBundle.head \subseteq commits
  /\ ~writeBundle.full => writeBundle.head = {}
BY DEF writeBundle, Nothing

\* Every step keeps the invariant.
LEMMA InvStep ==
  ASSUME Inv, [Next]_vars
  PROVE  Inv'
<1>1. TypeOK' /\ Rebuilding'
  BY TypeStep, RebuildingStep DEF Inv
<1> DEFINE Rest == /\ EmptyIsEmpty /\ StoreCovers /\ TreeCovers
                   /\ \A p \in Procs : Undisturbed(p) => Alone(p) /\ Under(p)
<1> SUFFICES Rest'
  BY <1>1 DEF Inv
<1> USE DEF Inv, TypeOK, EmptyIsEmpty, StoreCovers, Stored, TreeCovers, history
<1>2. ASSUME NEW i \in Items, Write(i) PROVE Rest'
  BY <1>2 DEF Write, store, Under, Alone, Undisturbed
<1>3. ASSUME NEW i \in Items, Commit(i) PROVE Rest'
  <2>1. \A p \in Procs :
          /\ evac'[p].at = evac[p].at /\ evac'[p].bundle = evac[p].bundle
          /\ evac'[p].archive = evac[p].archive /\ evac'[p].work = evac[p].work
          /\ Undisturbed(p)' => Undisturbed(p) /\ evac[p].at # "bundled"
    BY <1>3 DEF Commit, EvacRecord, Undisturbed
  <2>2. /\ UNCHANGED <<remote, volume, bundle, archive, assured, unrestored>> /\ volume = "live"
        /\ dirty' = dirty \ {i} /\ commits' = commits \cup {i}
    BY <1>3 DEF Commit, store
  <2>3. \A p \in Procs : Undisturbed(p)' => Alone(p)'
    BY <2>1, <2>2 DEF Alone
  <2>4. ASSUME NEW p \in Procs, Undisturbed(p)' PROVE Under(p)'
    BY <2>1, <2>2, <2>4 DEF Under
  <2>5. EmptyIsEmpty'
    BY <2>1, <2>2
  <2> QED
    BY <2>2, <2>3, <2>4, <2>5
<1>4. CASE Push
  BY <1>4 DEF Push, store, Under, Alone, Undisturbed
<1>5. CASE BeginTurn \/ EndTurn
  BY <1>5 DEF BeginTurn, EndTurn, tree, store, Under, Alone, Undisturbed
<1>6. ASSUME NEW p \in Procs, Begin(p) PROVE Rest'
  <2>1. /\ evac'[p] = [at |-> "bundled", bundle |-> writeBundle, archive |-> {},
                       work |-> dirty \cup commits, disturbed |-> unrestored \/ UnderWay # {}]
        /\ \A q \in Procs \ {p} : evac'[q] = [evac[q] EXCEPT !.disturbed = @ \/ evac[q].at # "idle"]
    BY <1>6 DEF Begin
  <2>2. UNCHANGED <<dirty, commits, remote, volume, bundle, archive, assured, unrestored>>
        /\ volume = "live" /\ evac[p].at = "idle"
    BY <1>6 DEF Begin, tree, store
  <2>3. \A q \in Procs \ {p} :
          /\ evac'[q].at = evac[q].at /\ evac'[q].bundle = evac[q].bundle
          /\ ~Undisturbed(q)'
    BY <2>1 DEF EvacRecord, Undisturbed
  <2>4. evac'[p].at = "bundled" /\ evac'[p].bundle = writeBundle /\ evac'[p].work = dirty \cup commits
        /\ evac'[p].disturbed = (unrestored \/ UnderWay # {})
    BY <2>1
  <2>5. Undisturbed(p)' => Alone(p)'
    BY <2>2, <2>3, <2>4 DEF Undisturbed, Alone, UnderWay
  <2>6. Undisturbed(p)' => Under(p)'
    BY <2>2, <2>4, <2>5, BundleCovers DEF Under, Alone
  <2>7. EmptyIsEmpty'
    BY <2>2, <2>3, <2>4, BundleCovers
  <2> QED
    BY <2>2, <2>3, <2>5, <2>6, <2>7
<1>7. CASE WatchTurns \/ EvacuateWhenSettled
  BY <1>6, <1>7 DEF WatchTurns, EvacuateWhenSettled, Procs
<1>8. ASSUME NEW p \in Procs, Capture(p) PROVE Rest'
  <2>1. /\ evac'[p] = [evac[p] EXCEPT !.at = "captured", !.archive = dirty]
        /\ \A q \in Procs \ {p} : evac'[q] = evac[q]
        /\ evac[p].at = "bundled"
    BY <1>8 DEF Capture, writeDirtyArchive
  <2>2. UNCHANGED <<dirty, commits, remote, volume, bundle, archive, assured, unrestored>>
    BY <1>8 DEF Capture, tree, store
  <2>3. /\ evac'[p].at = "captured" /\ evac'[p].archive = dirty
        /\ evac'[p].work = evac[p].work /\ evac'[p].bundle = evac[p].bundle
        /\ evac'[p].disturbed = evac[p].disturbed
    BY <2>1 DEF EvacRecord
  <2>4. \A q \in Procs : (Undisturbed(q)' = Undisturbed(q)) /\ (evac'[q].at = "idle" <=> evac[q].at = "idle")
    BY <2>1, <2>3 DEF Undisturbed
  <2>5. \A q \in Procs : Undisturbed(q)' => Alone(q)'
    BY <2>2, <2>4 DEF Alone
  <2>6. ASSUME NEW q \in Procs, Undisturbed(q)' PROVE Under(q)'
    <3>1. Under(q)
      BY <2>4, <2>6
    <3>2. CASE q = p
      BY <2>1, <2>2, <2>3, <3>1, <3>2 DEF Under
    <3>3. CASE q # p
      BY <2>1, <2>2, <3>1, <3>3 DEF Under
    <3> QED
      BY <3>2, <3>3
  <2>7. \A q \in Procs : evac'[q].bundle = evac[q].bundle
    BY <2>1, <2>3
  <2> QED
    BY <2>2, <2>5, <2>6, <2>7
<1>9. ASSUME NEW p \in Procs, PutBundle(p) PROVE Rest'
  <2>1. /\ evac'[p] = [evac[p] EXCEPT !.at = "uploaded"]
        /\ \A q \in Procs \ {p} : evac'[q] = evac[q]
    BY <1>9 DEF PutBundle
  <2>2. /\ UNCHANGED <<dirty, commits, remote, volume, archive>> /\ bundle' = evac[p].bundle
        /\ assured' = IF evac[p].disturbed THEN {} ELSE assured
        /\ unrestored' = (unrestored /\ ~evac[p].disturbed)
    BY <1>9 DEF PutBundle, Upload, Replaced, tree
  <2>3. /\ evac'[p].at = "uploaded" /\ evac'[p].archive = evac[p].archive
        /\ evac'[p].work = evac[p].work /\ evac'[p].bundle = evac[p].bundle
        /\ evac'[p].disturbed = evac[p].disturbed
    BY <2>1 DEF EvacRecord
  <2>4. volume = "live" /\ evac[p].at = "captured"
    BY <1>9 DEF PutBundle, Rebuilding
  <2>5. \A q \in Procs : (Undisturbed(q)' = Undisturbed(q)) /\ (evac'[q].at = "idle" <=> evac[q].at = "idle")
    BY <2>1, <2>3, <2>4 DEF Undisturbed
  <2>6. \A q \in Procs : evac'[q].bundle = evac[q].bundle
    BY <2>1, <2>3
  <2>7. EmptyIsEmpty'
    BY <2>2, <2>6
  <2>8. \A q \in Procs : Undisturbed(q)' => Alone(q)'
    BY <2>2, <2>5 DEF Alone
  <2>9. CASE evac[p].disturbed
    <3>1. \A q \in Procs : ~Undisturbed(q)'
      BY <2>4, <2>5, <2>9 DEF Undisturbed, Alone
    <3> QED
      BY <2>2, <2>4, <2>7, <2>9, <3>1
  <2>10. CASE ~evac[p].disturbed
    <3>1. Undisturbed(p) /\ Under(p) /\ Alone(p)
      BY <2>4, <2>10 DEF Undisturbed
    <3>2. Under(p)'
      BY <2>2, <2>3, <2>4, <2>10, <3>1 DEF Under
    <3>3. StoreCovers' /\ TreeCovers'
      BY <2>2, <2>4, <2>10, <3>1 DEF Under, Alone
    <3>4. \A q \in Procs \ {p} : ~Undisturbed(q)'
      BY <2>5, <3>1 DEF Undisturbed, Alone
    <3> QED
      BY <2>2, <2>4, <2>7, <2>8, <3>2, <3>3, <3>4
  <2> QED
    BY <2>9, <2>10
<1>10. ASSUME NEW p \in Procs, PutArchive(p) PROVE Rest'
  <2>1. /\ evac'[p] = NoEvac
        /\ \A q \in Procs \ {p} : evac'[q] = evac[q]
    BY <1>10 DEF PutArchive
  <2>2. /\ UNCHANGED <<dirty, commits, remote, volume, bundle, unrestored>>
        /\ archive' = evac[p].archive
        /\ assured' = IF evac[p].disturbed THEN {} ELSE assured \cup evac[p].work
    BY <1>10 DEF PutArchive, Upload, tree
  <2>3. volume = "live" /\ evac[p].at = "uploaded"
    BY <1>10 DEF PutArchive, Rebuilding
  <2>4. NoEvac.at = "idle" /\ NoEvac.bundle.head = {}
    BY DEF NoEvac, Nothing
  <2>5. EmptyIsEmpty'
    BY <2>1, <2>2, <2>4
  <2>6. \A q \in Procs : ~Undisturbed(q)'
    BY <2>1, <2>3, <2>4 DEF Undisturbed, Alone
  <2>7. StoreCovers' /\ TreeCovers'
    <3>1. CASE evac[p].disturbed
      BY <2>2, <2>3, <3>1
    <3>2. CASE ~evac[p].disturbed
      BY <2>2, <2>3, <3>2 DEF Under, Undisturbed
    <3> QED
      BY <3>1, <3>2
  <2> QED
    BY <2>2, <2>3, <2>5, <2>6, <2>7
<1>11. ASSUME NEW p \in Procs, EvacuationFails(p) PROVE Rest'
  <2>1. /\ evac'[p] = NoEvac
        /\ \A q \in Procs \ {p} : evac'[q] = evac[q]
    BY <1>11 DEF EvacuationFails
  <2>2. UNCHANGED <<dirty, commits, remote, volume, bundle, archive, assured, unrestored>>
    BY <1>11 DEF EvacuationFails, tree, store
  <2>3. NoEvac.at = "idle" /\ NoEvac.bundle.head = {}
    BY DEF NoEvac, Nothing
  <2>4. \A q \in Procs : Undisturbed(q)' => q # p /\ Undisturbed(q)
    BY <2>1, <2>3 DEF Undisturbed
  <2>5. \A q \in Procs : Undisturbed(q)' => Alone(q)' /\ Under(q)'
    BY <2>1, <2>2, <2>3, <2>4 DEF Under, Alone
  <2> QED
    BY <2>1, <2>2, <2>3, <2>5
<1>12. CASE Restart \/ NodeLoss
  BY <1>12 DEF Restart, NodeLoss, NoEvac, Nothing, tree, store, Undisturbed
<1>13. CASE Clone
  BY <1>13 DEF Clone, Rebuilding, store, Undisturbed
<1>14. CASE RestoreBundle
  BY <1>14 DEF RestoreBundle, Replayed, Rebuilding, store, Undisturbed
<1>15. CASE RestoreArchive
  BY <1>15 DEF RestoreArchive, extractArchive, Rebuilding, store, Undisturbed
<1>16. CASE RestoreFails
  BY <1>16 DEF RestoreFails, Rebuilding, tree, Undisturbed
<1>17. CASE UNCHANGED vars
  BY <1>17 DEF vars, tree, store, Under, Alone, Undisturbed
<1> QED
  BY <1>2, <1>3, <1>4, <1>5, <1>7, <1>8, <1>9, <1>10, <1>11, <1>12, <1>13, <1>14, <1>15, <1>16,
     <1>17 DEF Next, Evacuate, Restore

\* At first nothing is assured.
LEMMA InvInitial == Init => Inv
<1> SUFFICES ASSUME Init PROVE Inv
  OBVIOUS
<1>1. TypeOK /\ Rebuilding
  BY Initial
<1>2. \A p \in Procs : evac[p] = NoEvac
  BY DEF Init
<1>3. EmptyIsEmpty
  BY <1>2 DEF EmptyIsEmpty, NoEvac, Nothing, Init
<1>4. StoreCovers /\ TreeCovers
  BY DEF StoreCovers, TreeCovers, Init
<1> QED
  BY <1>1, <1>2, <1>3, <1>4 DEF Inv, NoEvac, Undisturbed

\* Whatever is committed, evacuated or lost at the same time: with any upload
\* half done, the remote and the two objects hold all the work that
\* undisturbed evacuations covered since a disturbed one last uploaded.
THEOREM StoreAlwaysCovers == Spec => []StoreCovers
<1>1. Inv /\ [Next]_vars => Inv'
  BY InvStep
<1>2. Inv => StoreCovers
  BY DEF Inv
<1> QED
  BY <1>1, <1>2, InvInitial, PTL DEF Spec

-----------------------------------------------------------------------------
(* Evacuation implements DurableWork *)

\* What can be brought back, by how far the volume is rebuilt.
LEMMA RecoverableBy ==
  /\ volume = "live" /\ ~unrestored => Recoverable = remote \cup commits \cup dirty
  /\ volume # "live" \/ unrestored =>
       Recoverable = remote \cup commits \cup dirty \cup archive \cup bundle.head
BY DEF Recoverable

\* The same after a step.
LEMMA RecoverableNext ==
  /\ volume' = "live" /\ ~unrestored' => Recoverable' = remote' \cup commits' \cup dirty'
  /\ volume' # "live" \/ unrestored' =>
       Recoverable' = remote' \cup commits' \cup dirty' \cup archive' \cup bundle'.head
BY DEF Recoverable

\* Every step is one of DurableWork, or changes nothing there.
LEMMA DurableStep ==
  ASSUME Inv, [Next]_vars
  PROVE  [Durable!Next]_(Durable!vars)
<1> DEFINE Stutter == UNCHANGED <<Recoverable, assured>>
<1>1. TypeOK /\ Rebuilding /\ TypeOK'
  BY InvStep DEF Inv
<1>2. Recoverable \subseteq Items /\ Recoverable' \subseteq Items
  BY <1>1, RecoverableBy, RecoverableNext DEF TypeOK, Bundles
<1>3. Stutter => [Durable!Next]_(Durable!vars)
  BY DEF Durable!vars
<1> USE DEF history
<1>4. ASSUME NEW i \in Items, Write(i) PROVE Durable!Write
  <2>1. Recoverable' = Recoverable \cup {i}
    BY <1>4, RecoverableBy, RecoverableNext DEF Write, store
  <2> QED
    BY <1>4, <2>1 DEF Write, store, Durable!Write
<1>5. ASSUME NEW i \in Items, Commit(i) PROVE Stutter
  BY <1>5, RecoverableBy, RecoverableNext DEF Commit, store
<1>6. CASE Push \/ BeginTurn \/ EndTurn
  <2>1. Stutter
    <3>1. CASE Push
      BY <3>1, RecoverableBy, RecoverableNext DEF Push, store
    <3>2. CASE BeginTurn \/ EndTurn
      BY <3>2 DEF BeginTurn, EndTurn, tree, store, Recoverable
    <3> QED
      BY <1>6, <3>1, <3>2
  <2> QED
    BY <1>3, <2>1
<1>7. ASSUME NEW p \in Procs, Begin(p) \/ Capture(p) \/ EvacuationFails(p) PROVE Stutter
  BY <1>7 DEF Begin, Capture, EvacuationFails, tree, store, Recoverable
<1>8. ASSUME NEW p \in Procs, PutBundle(p) PROVE Stutter \/ Durable!Forfeit
  <2>1. volume = "live" /\ evac[p].at # "idle"
    BY <1>1, <1>8 DEF Rebuilding, PutBundle
  <2>2. CASE evac[p].disturbed
    BY <1>2, <1>8, <2>2 DEF PutBundle, Replaced, Durable!Forfeit
  <2>3. CASE ~evac[p].disturbed
    <3>1. ~unrestored
      BY <2>1, <2>3 DEF Inv, Undisturbed, Alone
    <3> QED
      BY <1>8, <2>1, <2>3, <3>1, RecoverableBy, RecoverableNext DEF PutBundle, Replaced, tree
  <2> QED
    BY <2>2, <2>3
<1>9. ASSUME NEW p \in Procs, PutArchive(p) PROVE Durable!Confirm \/ Durable!Forfeit
  <2>1. volume = "live" /\ evac[p].at # "idle"
    BY <1>1, <1>9 DEF Rebuilding, PutArchive
  <2>2. CASE evac[p].disturbed
    BY <1>2, <1>9, <2>2 DEF PutArchive, Durable!Forfeit
  <2>3. CASE ~evac[p].disturbed
    <3>1. ~unrestored /\ Under(p) /\ TreeCovers
      BY <2>1, <2>3 DEF Inv, Undisturbed, Alone
    <3>2. UNCHANGED Recoverable
      BY <1>9, <2>1, <3>1, RecoverableBy, RecoverableNext DEF PutArchive, tree
    <3>3. assured \cup evac[p].work \subseteq Recoverable
      BY <2>1, <3>1, RecoverableBy DEF Under, TreeCovers
    <3> QED
      BY <1>9, <2>3, <3>2, <3>3 DEF PutArchive, Durable!Confirm
  <2> QED
    BY <2>2, <2>3
<1>10. CASE Restart
  <2>1. Stutter
    BY <1>10 DEF Restart, tree, store, Recoverable
  <2> QED
    BY <1>3, <2>1
<1>11. CASE NodeLoss
  <2>1. assured \subseteq Recoverable' /\ UNCHANGED assured
    BY <1>11, RecoverableNext DEF NodeLoss, Inv, StoreCovers, Stored
  <2> QED
    BY <1>2, <2>1 DEF Durable!Next, Durable!Lose
<1>12. CASE Clone \/ RestoreBundle \/ RestoreArchive
  <2>1. UNCHANGED <<assured, unrestored, archive, bundle, remote>> /\ volume # "live"
    BY <1>12 DEF Clone, RestoreBundle, RestoreArchive, store
  <2>2. assured \subseteq Recoverable'
    <3>1. CASE Clone \/ RestoreBundle
      BY <2>1, <3>1, RecoverableNext DEF Clone, RestoreBundle, Inv, StoreCovers, Stored
    <3>2. CASE RestoreArchive
      BY <2>1, <3>2, RecoverableNext DEF RestoreArchive, extractArchive, Inv, TreeCovers
    <3> QED
      BY <1>12, <3>1, <3>2
  <2> QED
    BY <1>2, <2>1, <2>2 DEF Durable!Next, Durable!Lose
<1>13. CASE RestoreFails
  <2>1. Stutter
    BY <1>13, RecoverableBy, RecoverableNext DEF RestoreFails, tree
  <2> QED
    BY <1>3, <2>1
<1>14. CASE UNCHANGED vars
  <2>1. Stutter
    BY <1>14 DEF vars, tree, store, Recoverable
  <2> QED
    BY <1>3, <2>1
<1> QED
  <2> HIDE DEF Stutter
  <2>1. WatchTurns \/ EvacuateWhenSettled => \E p \in Procs : Begin(p)
    BY DEF WatchTurns, EvacuateWhenSettled, Procs
  <2> QED
    BY <1>3, <1>4, <1>5, <1>6, <1>7, <1>8, <1>9, <1>10, <1>11, <1>12, <1>13, <1>14, <2>1
    DEF Next, Evacuate, Restore, Durable!Next

\* Evacuate, the init script and Restore implement DurableWork.  What
\* undisturbed evacuations covered is in the tree, or can be brought back to
\* it, after any crash, lost node, half-finished upload or failed restore,
\* until a disturbed evacuation replaces the objects.
THEOREM ImplementsDurableWork == Spec => KeepsPromise
<1>1. Init => Durable!Init
  <2>1. Init => Recoverable = {} /\ assured = {}
    BY RecoverableBy DEF Init, Nothing
  <2> QED
    BY <2>1 DEF Durable!Init
<1>2. Inv /\ [Next]_vars => Inv'
  BY InvStep
<1>3. Inv /\ [Next]_vars => [Durable!Next]_(Durable!vars)
  BY DurableStep
<1> QED
  BY <1>1, <1>2, <1>3, InvInitial, PTL DEF Spec, KeepsPromise, Durable!Spec
=============================================================================
