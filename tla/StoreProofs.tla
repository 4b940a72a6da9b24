----------------------------- MODULE StoreProofs -----------------------------
(***************************************************************************)
(* Proofs about the published store beyond its types: what its two gates   *)
(* carry, what a store without a gate holds, that explicit recovery accepts *)
(* every whole gate, and that the store implements DurableRegister.        *)
(***************************************************************************)
EXTENDS PublicationProofs

-----------------------------------------------------------------------------
(***************************************************************************)
(* What the gates carry: how a published image descends from the one it    *)
(* replaces, that a recovery plan carries no authority, and that authority *)
(* which no gate guards was confirmed durable, whatever a power loss leaves *)
(* behind.                                                                 *)
(***************************************************************************)

\* n is o after one operation, under the same key.
Operation(o, n) ==
    /\ n.seed = o.seed /\ n.salt = o.salt
    /\ n.app.generation = o.app.generation + 1
    /\ n.app.data = o.app.data + 1
    /\ n.app.predecessor = o.app.predecessor

\* n is the content of o under a new key, and names o.
Rekeyed(o, n) ==
    /\ n.app.generation = o.app.generation + 1
    /\ n.app.data = o.app.data
    /\ n.app.live = o.app.live /\ n.app.unfinished = o.app.unfinished
    /\ n.app.predecessor = o.id

\* What one call of publish_with puts in the place of o.
Publishes(o, n) ==
    IF o = None THEN n.app \in {DefaultApp, RestoredApp}
                ELSE Operation(o, n) \/ Rekeyed(o, n)

\* What recover_at plans for the image it starts from.
Plans(p) ==
    /\ p.old # None
    /\ p.next.seed = p.old.seed /\ p.next.salt = p.old.salt
    /\ p.next.app = Sanitize(p.old.app)

\* An image names only a ciphertext sealed before it, and is one of the first n.
Dated(i, n) == i \in Image => i.app.predecessor < i.id /\ i.id <= n

\* Steps of publish_with before its rename is synced, and before it renames.
Unsynced == {"intent", "fill", "intentSync", "rename", "renameSync"}
Unrenamed == {"intent", "fill", "intentSync", "rename"}

AllDated ==
    /\ Dated(dir.state, images) /\ Dated(pers.state, images)
    /\ Dated(cur, images) /\ Dated(cand, images)
    /\ \A p \in {dir.pending, pers.pending, dir.recovery, pers.recovery} :
        p \in Pair => Dated(p.old, images) /\ Dated(p.next, images)

GatesDescend ==
    /\ \A p \in {dir.pending, pers.pending} : p \in Pair => Publishes(p.old, p.next)
    /\ \A p \in {dir.recovery, pers.recovery} : p \in Pair => Plans(p)

OwnerDescends ==
    /\ dir.state = None => pers.state = None
    /\ pc \in Unsynced => Publishes(cur, cand)
    /\ pc \in Unrenamed => dir.state = cur /\ pers.state = cur
    /\ pc \in {"intentSync", "rename", "renameSync"} => dir.pending = [old |-> cur, next |-> cand]

Lineage == AllDated /\ GatesDescend /\ OwnerDescends

LineageInv == DurableInv /\ Lineage

\* A power loss may leave no gate behind.
Bare ==
    /\ dir.pending = None \/ pers.pending = None
    /\ dir.recovery = None \/ pers.recovery = None

\* What image i lets an agent use, or leaves unfinished, was confirmed.
Vouched(i) ==
    i # None /\ (i.app.live \/ i.app.unfinished) =>
        /\ confirmed # None /\ i.app.data = confirmed.app.data
        /\ i.app.live => confirmed.app.live
        /\ i.app.unfinished => confirmed.app.unfinished

\* Steps after the sync that confirmed the candidate.
Settling == {"clear", "clearSync", "dropIntent", "dropIntentSync", "dropPlan", "dropPlanSync"}

Authority ==
    /\ Bare => Vouched(dir.state) /\ Vouched(pers.state)
    /\ pc \in Settling => confirmed = cand
    /\ pc \in {"rename", "renameSync"} => pers.pending # None
    /\ pc = "adopt" => /\ dir.pending.old # None
                       /\ dir.state = dir.pending.old
                       /\ dir.pending.next.app.predecessor = dir.pending.old.id
    /\ pc \in InstallSteps => ~cand.app.live

AuthorityInv == LineageInv /\ Authority

-----------------------------------------------------------------------------
(* How images descend from one another.                                    *)

\* A call has sealed its candidate: the disk is untouched, nothing gates it,
\* and the candidate is one step from the image it will replace.
Starts ==
    /\ pc' = "intent"
    /\ images' = images + 1
    /\ cand' \in Image /\ cand'.id = images + 1
    /\ ~PendingExists(dir)
    /\ dir.state = cur /\ pers.state = cur
    /\ Publishes(cur, cand')
    /\ UNCHANGED <<dir, pers, cur, confirmed>>

LEMMA SealFields ==
    ASSUME images \in Nat, NEW a \in App, NEW s \in Seeds, NEW salt \in Nat
    PROVE  LET i == Seal(a, s, salt)
           IN  i \in Image /\ i.id = images + 1 /\ i.seed = s /\ i.salt = salt /\ i.app = a
BY DEF Seal, Image

LEMMA StartsFrom ==
    ASSUME DurableInv, NEW k, NEW a \in App, NEW s \in Seeds, NEW salt \in Nat,
           Publish(k, a, s, salt), dir.state = cur,
           LET n == Seal(a, s, salt) IN Publishes(cur, n),
           UNCHANGED <<disk, cur, confirmed>>
    PROVE  Starts
<1> DEFINE n == Seal(a, s, salt)
<1>1. n \in Image /\ n.id = images + 1
  BY SealFields DEF DurableInv, TypeInv, TypeOK
<1>2. cand' = n /\ images' = images + 1 /\ pc' = "intent" /\ ~PendingExists(dir)
  BY DEF Publish
<1>3. dir.state = pers.state
  BY <1>2 DEF DurableInv, Gates
<1> HIDE DEF n
<1> QED BY <1>1, <1>2, <1>3 DEF Starts, disk, n

\* An operation: data grows by one, the key and the named ciphertext stay.
LEMMA OperationStarts ==
    ASSUME DurableInv, cur \in Image, InMemory, app \in App,
           NEW k, NEW unfinished \in BOOLEAN, NEW clockFrozen \in BOOLEAN, NEW live \in BOOLEAN,
           Publish(k, Successor(app, app.data + 1, unfinished, clockFrozen, live, app.predecessor),
                   cur.seed, cur.salt),
           UNCHANGED <<disk, cur, confirmed>>
    PROVE  Starts
<1> DEFINE a == Successor(app, app.data + 1, unfinished, clockFrozen, live, app.predecessor)
<1>1. app.data + 1 \in Nat /\ app.predecessor \in Nat
  BY AppFields
<1>2. a \in App
  BY <1>1, SuccessorType
<1>3. a.generation = app.generation + 1 /\ a.data = app.data + 1 /\ a.predecessor = app.predecessor
  BY DEF Successor
<1>4. cur.seed \in Seeds /\ cur.salt \in Nat /\ cur # None
  BY ImageFields
<1> HIDE DEF a
<1> DEFINE n == Seal(a, cur.seed, cur.salt)
<1>5. n.seed = cur.seed /\ n.salt = cur.salt /\ n.app = a
  BY <1>2, <1>4, SealFields DEF DurableInv, TypeInv, TypeOK
<1> HIDE DEF n
<1>6. Publishes(cur, n)
  BY <1>3, <1>4, <1>5 DEF Publishes, Operation, InMemory
<1>7. Publish(k, a, cur.seed, cur.salt) /\ dir.state = cur
  BY DEF a, InMemory
<1> QED BY <1>2, <1>4, <1>6, <1>7, StartsFrom DEF n

\* Every call either opens the store, starts a recovery, or starts to publish.
LEMMA CallStarts ==
    ASSUME DurableInv, Call
    PROVE  \/ Starts
           \/ \E s \in Seeds : Open(s) \/ RecoverStart(s)
<1> USE DEF DurableInv, TypeInv
<1>1. ASSUME NEW s \in Seeds, Rekey(s) PROVE Starts
  <2>1. /\ cur \in Image /\ app \in App /\ images + 1 \in Nat
        /\ cur.app = app /\ dir.state = cur
    BY <1>1 DEF Rekey, WellFormed, TypeOK, Owner, InMemory
  <2> DEFINE a == Successor(app, app.data, app.unfinished, app.clockFrozen, app.live, cur.id)
  <2>2. a \in App
    <3>1. /\ app.data \in Nat /\ app.unfinished \in BOOLEAN /\ app.clockFrozen \in BOOLEAN
          /\ app.live \in BOOLEAN /\ cur.id \in Nat
      BY <2>1, AppFields, ImageFields
    <3> QED BY <2>1, <3>1, SuccessorType
  <2>3. /\ a.generation = app.generation + 1 /\ a.data = app.data /\ a.live = app.live
        /\ a.unfinished = app.unfinished /\ a.predecessor = cur.id
    BY DEF Successor
  <2> HIDE DEF a
  <2> DEFINE n == Seal(a, s, images + 1)
  <2>4. n.app = a
    BY <2>1, <2>2, SealFields DEF TypeOK
  <2> HIDE DEF n
  <2>5. Publishes(cur, n)
    BY <2>1, <2>3, <2>4, ImageFields DEF Publishes, Rekeyed
  <2>6. Publish("rekey", a, s, images + 1)
    BY <1>1 DEF Rekey, a
  <2> QED BY <1>1, <2>1, <2>2, <2>5, <2>6, StartsFrom DEF Rekey, n
<1>2. ASSUME NEW s \in Seeds, NEW a \in {DefaultApp, RestoredApp}, Create(s, a) PROVE Starts
  <2>1. a \in App /\ images + 1 \in Nat
    BY InitialApps DEF TypeOK
  <2> DEFINE n == Seal(a, s, images + 1)
  <2>2. n.app = a
    BY <2>1, SealFields DEF TypeOK
  <2> HIDE DEF n
  <2>3. dir.state = cur /\ cur = None
    BY <1>2 DEF Create, Owner
  <2>4. Publishes(cur, n)
    BY <2>2, <2>3 DEF Publishes
  <2>5. Publish("create", a, s, images + 1)
    BY <1>2 DEF Create
  <2> QED BY <1>2, <2>1, <2>3, <2>4, <2>5, StartsFrom DEF Create, n
<1>3. ASSUME NEW live \in BOOLEAN, NEW clockFrozen \in BOOLEAN, Operate(live, clockFrozen)
      PROVE  Starts
  <2>1. cur \in Image /\ app \in App /\ InMemory /\ app.unfinished \in BOOLEAN
    BY <1>3, AppFields DEF Operate, WellFormed, TypeOK, Owner
  <2> QED BY <1>3, <2>1, OperationStarts DEF Operate
<1>4. ASSUME Prepare PROVE Starts
  <2>1. /\ cur \in Image /\ app \in App /\ InMemory
        /\ app.clockFrozen \in BOOLEAN /\ app.live \in BOOLEAN
    BY <1>4, AppFields DEF Prepare, WellFormed, TypeOK, Owner
  <2> QED BY <1>4, <2>1, OperationStarts DEF Prepare
<1>5. ASSUME Complete PROVE Starts
  <2>1. /\ cur \in Image /\ app \in App /\ InMemory
        /\ app.clockFrozen \in BOOLEAN /\ app.live \in BOOLEAN
    BY <1>5, AppFields DEF Complete, WellFormed, TypeOK, Owner
  <2> QED BY <1>5, <2>1, OperationStarts DEF Complete
<1> QED BY <1>1, <1>2, <1>3, <1>4, <1>5 DEF Call

LEMMA DatedLonger ==
    ASSUME NEW i, NEW n \in Nat, NEW m \in Nat, n <= m, Dated(i, n)
    PROVE  Dated(i, m)
BY ImageFields DEF Dated

LEMMA PublishedDated ==
    ASSUME NEW m \in Nat, NEW o \in Image \cup {None}, NEW n \in Image,
           Publishes(o, n), Dated(o, m), n.id = m + 1
    PROVE  Dated(n, m + 1)
<1>1. CASE o = None
  <2>1. DefaultApp.predecessor = 0 /\ RestoredApp.predecessor = 0
    BY DEF DefaultApp, RestoredApp, NoHash
  <2>2. n.app.predecessor = 0
    BY <1>1, <2>1 DEF Publishes
  <2> QED BY <2>2 DEF Dated
<1>2. CASE o \in Image
  <2>1. /\ o # None /\ o.id \in Nat /\ o.app.predecessor \in Nat
        /\ o.app.predecessor < o.id /\ o.id <= m
    BY <1>2, ImageFields, AppFields DEF Dated
  <2>2. n.app.predecessor \in {o.id, o.app.predecessor}
    BY <2>1 DEF Publishes, Operation, Rekeyed
  <2> QED BY <2>1, <2>2 DEF Dated
<1> QED BY <1>1, <1>2

\* Only a re-key names the ciphertext it replaces: a publication accepted as
\* one has the content and the authority of the image before it.
LEMMA NamesItsPredecessor ==
    ASSUME NEW m, NEW o \in Image, NEW n \in Image, Publishes(o, n), Dated(o, m),
           n.app.predecessor = o.id
    PROVE  Rekeyed(o, n)
BY ImageFields, AppFields DEF Publishes, Operation, Dated

\* A process that ends leaves the rules about the directory.
LEMMA ExitLineage ==
    ASSUME Lineage, Exit, UNCHANGED images,
           dir'.state \in {dir.state, pers.state, cand}, dir'.state = None => pers'.state = None,
           pers'.state \in {dir'.state, pers.state},
           dir'.pending \in {dir.pending, pers.pending},
           pers'.pending \in {dir.pending, pers.pending},
           dir'.recovery \in {dir.recovery, pers.recovery},
           pers'.recovery \in {dir.recovery, pers.recovery}
    PROVE  Lineage'
<1>1. Dated(None, images)
  BY NoneAssumption DEF Dated
<1>2. AllDated'
  BY <1>1 DEF Exit, Lineage, AllDated
<1>3. GatesDescend'
  BY DEF Lineage, GatesDescend
<1>4. OwnerDescends'
  BY DEF Exit, OwnerDescends, Unsynced, Unrenamed
<1> QED BY <1>2, <1>3, <1>4 DEF Lineage

LEMMA LineageAfterCall ==
    ASSUME LineageInv, Call
    PROVE  Lineage'
<1> USE DEF LineageInv, DurableInv, TypeInv
<1>1. CASE Starts
  <2>1. images \in Nat /\ images' = images + 1 /\ cur \in Image \cup {None}
    BY <1>1 DEF Starts, TypeOK
  <2>2. Dated(cand, images)'
    BY <1>1, <2>1, PublishedDated DEF Starts, Lineage, AllDated
  <2>3. \A i : Dated(i, images) => Dated(i, images')
    BY <2>1, DatedLonger
  <2>4. AllDated'
    BY <1>1, <2>2, <2>3 DEF Starts, Lineage, AllDated
  <2>5. GatesDescend'
    BY <1>1 DEF Starts, Lineage, GatesDescend
  <2>6. OwnerDescends'
    BY <1>1 DEF Starts, OwnerDescends, Unsynced, Unrenamed
  <2> QED BY <2>4, <2>5, <2>6 DEF Lineage
<1>2. ASSUME NEW s \in Seeds, Open(s) PROVE Lineage'
  BY <1>2 DEF Open, disk, Lineage, AllDated, GatesDescend, OwnerDescends, Unsynced, Unrenamed
<1>3. ASSUME NEW s \in Seeds, RecoverStart(s) PROVE Lineage'
  BY <1>3 DEF RecoverStart, disk, Lineage, AllDated, GatesDescend, OwnerDescends, Unsynced, Unrenamed
<1> QED BY <1>1, <1>2, <1>3, CallStarts

LEMMA LineageAfterPublish ==
    ASSUME LineageInv, PublishStep
    PROVE  Lineage'
<1> USE DEF LineageInv, DurableInv, TypeInv, Unsynced, Unrenamed
<1>0. dir \in Directory /\ cand \in Image \cup {None}
  BY DEF TypeOK
<1>1. CASE CreateIntent
  <2>1. dir'.state = dir.state /\ dir'.pending = Torn /\ dir'.recovery = dir.recovery
    BY <1>0, <1>1, SetPending DEF CreateIntent, Step
  <2> QED BY <1>1, <2>1, NoneAssumption
          DEF CreateIntent, Step, Lineage, AllDated, GatesDescend, OwnerDescends
<1>2. CASE FillIntent
  <2>1. cand \in Image /\ cur \in Image \cup {None}
    BY <1>2 DEF FillIntent, Step, TypeOK, WellFormed, PublishSteps
  <2> DEFINE pair == [old |-> cur, next |-> cand]
  <2>2. pair \in Pair /\ pair.old = cur /\ pair.next = cand
    BY <2>1, MakePair
  <2>3. /\ dir'.state = dir.state /\ dir'.pending = pair /\ dir'.recovery = dir.recovery
        /\ pers' = pers /\ pc' = "intentSync"
        /\ UNCHANGED <<images, cur, cand>>
    BY <1>0, <1>2, <2>2, SetPending DEF FillIntent, Step
  <2>4. Publishes(pair.old, pair.next) /\ Dated(pair.old, images) /\ Dated(pair.next, images)
    BY <1>2, <2>2 DEF FillIntent, Step, Lineage, OwnerDescends, AllDated
  <2>5. OwnerDescends'
    BY <1>2, <2>3 DEF FillIntent, Step, Lineage, OwnerDescends
  <2> HIDE DEF pair
  <2>6. AllDated'
    BY <2>3, <2>4 DEF Lineage, AllDated
  <2>7. GatesDescend'
    BY <2>3, <2>4 DEF Lineage, GatesDescend
  <2> QED BY <2>5, <2>6, <2>7 DEF Lineage
<1>3. CASE SyncIntent
  BY <1>3 DEF SyncIntent, Step, Lineage, AllDated, GatesDescend, OwnerDescends
<1>4. CASE Rename
  <2>1. dir'.state = cand /\ dir'.pending = dir.pending /\ dir'.recovery = dir.recovery
    BY <1>0, <1>4, SetState DEF Rename, Step
  <2>2. cand # None
    BY <1>4, ImageFields DEF Rename, Step, WellFormed, PublishSteps
  <2> QED BY <1>4, <2>1, <2>2 DEF Rename, Step, Lineage, AllDated, GatesDescend, OwnerDescends
<1>5. CASE SyncRename
  BY <1>5 DEF SyncRename, Lineage, AllDated, GatesDescend, OwnerDescends
<1>6. CASE ClearIntent
  <2>1. dir'.state = dir.state /\ dir'.pending = None /\ dir'.recovery = dir.recovery
    BY <1>0, <1>6, SetPending DEF ClearIntent, Step
  <2> QED BY <1>6, <2>1, NoneAssumption
          DEF ClearIntent, Step, Lineage, AllDated, GatesDescend, OwnerDescends
<1>7. CASE SyncClear
  BY <1>7, NoneAssumption
     DEF SyncClear, Durable, Lineage, AllDated, Dated, GatesDescend, OwnerDescends
<1> QED BY <1>1, <1>2, <1>3, <1>4, <1>5, <1>6, <1>7 DEF PublishStep

LEMMA LineageAfterRecovery ==
    ASSUME LineageInv, RecoveryStep
    PROVE  Lineage'
<1> USE DEF LineageInv, DurableInv, TypeInv, Unsynced, Unrenamed
<1>0. dir \in Directory /\ cand \in Image \cup {None}
  BY DEF TypeOK
<1>1. CASE Adopt
  <2>1. dir.pending \in Pair /\ dir.pending.next \in Image /\ dir.pending.next # None
    BY <1>1, PairFields, ImageFields DEF Adopt, Step, WellFormed
  <2>2. dir'.state = dir.pending.next /\ dir'.pending = dir.pending /\ dir'.recovery = dir.recovery
    BY <1>0, <1>1, <2>1, SetState DEF Adopt, Step
  <2> QED BY <1>1, <2>1, <2>2 DEF Adopt, Step, Lineage, AllDated, GatesDescend, OwnerDescends
<1>2. CASE SyncAdopt
  BY <1>2 DEF SyncAdopt, Step, Lineage, AllDated, GatesDescend, OwnerDescends
<1>3. CASE PlanRefused
  BY <1>3, ExitLineage DEF PlanRefused, disk, Lineage, OwnerDescends
<1>4. CASE PlanResumed
  <2>1. dir.recovery \in Pair
    BY <1>0, <1>4, DirectoryFields DEF PlanResumed
  <2> QED BY <1>4, <2>1 DEF PlanResumed, disk, Lineage, AllDated, GatesDescend, OwnerDescends
<1>5. CASE PlanWritten
  <2>1. Visible \in Image /\ images \in Nat /\ images' = images + 1
    BY <1>5, VisibleType DEF PlanWritten, WellFormed, TypeOK
  <2>2. /\ Visible.app \in App /\ Visible.seed \in Seeds /\ Visible.salt \in Nat
        /\ Visible # None /\ Sanitize(Visible.app) \in App
    BY <2>1, ImageFields, SanitizeType
  <2>3. /\ cand' \in Image /\ cand'.id = images + 1
        /\ cand'.seed = Visible.seed /\ cand'.salt = Visible.salt
        /\ cand'.app = Sanitize(Visible.app)
    BY <1>5, <2>1, <2>2, SealFields DEF PlanWritten
  <2> DEFINE pair == [old |-> Visible, next |-> cand']
  <2>4. pair \in Pair /\ pair.old = Visible /\ pair.next = cand'
    BY <2>1, <2>3, MakePair
  <2> HIDE DEF pair
  <2>5. /\ dir'.state = dir.state /\ dir'.pending = dir.pending /\ dir'.recovery = pair
        /\ UNCHANGED <<pers, cur>> /\ pc' = "planSync"
    BY <1>0, <1>5, <2>4, SetRecovery DEF PlanWritten, pair
  <2>6. Dated(Visible, images)
    <3>1. dir.state = None => dir.pending \in Pair
      BY <1>5, ImageFields DEF PlanWritten, WellFormed
    <3>2. dir.state = None => Dated(dir.pending.next, images)
      BY <3>1 DEF Lineage, AllDated
    <3> QED BY <3>2 DEF Visible, Lineage, AllDated
  <2>7. \A i : Dated(i, images) => Dated(i, images')
    BY <2>1, DatedLonger
  <2>8. Dated(cand, images)'
    BY <2>1, <2>3 DEF Dated, Sanitize, Successor, NoHash
  <2>9. AllDated'
    BY <2>4, <2>5, <2>6, <2>7, <2>8 DEF Lineage, AllDated
  <2>10. GatesDescend'
    BY <2>2, <2>3, <2>4, <2>5 DEF Lineage, GatesDescend, Plans
  <2> QED BY <2>5, <2>9, <2>10 DEF Lineage, OwnerDescends
<1>6. CASE SyncPlan
  BY <1>6 DEF SyncPlan, Step, Lineage, AllDated, GatesDescend, OwnerDescends
<1>7. CASE Install
  <2>1. dir'.state = cand /\ dir'.pending = dir.pending /\ dir'.recovery = dir.recovery
    BY <1>0, <1>7, SetState DEF Install, Step
  <2>2. cand # None
    BY <1>7, ImageFields DEF Install, Step, WellFormed, InstallSteps
  <2> QED BY <1>7, <2>1, <2>2 DEF Install, Step, Lineage, AllDated, GatesDescend, OwnerDescends
<1>8. CASE SyncInstall
  BY <1>8 DEF SyncInstall, Step, Lineage, AllDated, GatesDescend, OwnerDescends
<1>9. CASE DropIntent
  <2>1. dir'.state = dir.state /\ dir'.pending = None /\ dir'.recovery = dir.recovery
    BY <1>0, <1>9, SetPending DEF DropIntent, Step
  <2> QED BY <1>9, <2>1, NoneAssumption
          DEF DropIntent, Step, Lineage, AllDated, GatesDescend, OwnerDescends
<1>10. CASE SyncDropIntent
  BY <1>10 DEF SyncDropIntent, Step, Lineage, AllDated, GatesDescend, OwnerDescends
<1>11. CASE DropPlan
  <2>1. dir'.state = dir.state /\ dir'.pending = dir.pending /\ dir'.recovery = None
    BY <1>0, <1>11, SetRecovery DEF DropPlan, Step
  <2> QED BY <1>11, <2>1, NoneAssumption
          DEF DropPlan, Step, Lineage, AllDated, GatesDescend, OwnerDescends
<1>12. CASE Recovered
  BY <1>12, NoneAssumption
     DEF Recovered, Lineage, AllDated, Dated, GatesDescend, OwnerDescends
<1> QED BY <1>1, <1>2, <1>3, <1>4, <1>5, <1>6, <1>7, <1>8, <1>9, <1>10, <1>11, <1>12 DEF RecoveryStep

LEMMA LineageAfterFault ==
    ASSUME LineageInv, FaultStep \/ Close
    PROVE  Lineage'
<1> USE DEF LineageInv, DurableInv, TypeInv, Unsynced, Unrenamed
<1>0. Dated(None, images)
  BY NoneAssumption DEF Dated
<1>1. CASE CandidateFails
  <2>1. CASE Exit
    BY <1>1, <2>1, ExitLineage DEF CandidateFails, disk, Lineage, OwnerDescends
  <2> QED BY <1>0, <1>1, <2>1
          DEF CandidateFails, NotPublished, disk, Lineage, AllDated, GatesDescend, OwnerDescends
<1>2. CASE PublishFails
  <2> DEFINE renamed == [dir EXCEPT !.state = cand]
  <2>1. /\ renamed.pending = dir.pending /\ renamed.state = cand
        /\ renamed.recovery = dir.recovery
    BY SetState DEF TypeOK
  <2> HIDE DEF renamed
  <2>2. cand # None
    BY <1>2, ImageFields DEF PublishFails, WellFormed, PublishSteps
  <2>3. /\ dir'.state \in {dir.state, cand} /\ dir'.pending = dir.pending
        /\ dir'.recovery = dir.recovery /\ UNCHANGED <<pers, images>>
    BY <1>2, <2>1 DEF PublishFails, renamed
  <2>4. CASE Exit
    BY <2>2, <2>3, <2>4, ExitLineage DEF Lineage, OwnerDescends
  <2> QED BY <1>0, <1>2, <2>2, <2>3, <2>4
          DEF PublishFails, Unknown, Lineage, AllDated, GatesDescend, OwnerDescends
<1>3. CASE ClearFails
  BY <1>0, <1>3 DEF ClearFails, Durable, disk, Lineage, AllDated, GatesDescend, OwnerDescends
<1>4. CASE Kill
  BY <1>4, ExitLineage DEF Kill, disk, Lineage, OwnerDescends
<1>5. CASE LosePower
  <2>1. /\ dir'.state \in {dir.state, pers.state}
        /\ dir'.pending \in {dir.pending, pers.pending}
        /\ dir'.recovery \in {dir.recovery, pers.recovery}
        /\ pers' = dir' /\ Exit /\ UNCHANGED images
    BY <1>5, PowerLossEntries DEF LosePower
  <2> QED BY <2>1, ExitLineage
<1>6. CASE Close
  BY <1>6, ExitLineage DEF Close, disk, Lineage, OwnerDescends
<1> QED BY <1>1, <1>2, <1>3, <1>4, <1>5, <1>6 DEF FaultStep

LEMMA LineageInitially == Init => LineageInv
<1> SUFFICES ASSUME Init PROVE Lineage
  BY DurableInitially DEF LineageInv
<1>1. AllDated
  BY NoneAssumption DEF Init, EmptyDirectory, AllDated, Dated
<1>2. GatesDescend
  BY NoneAssumption DEF Init, EmptyDirectory, GatesDescend
<1>3. OwnerDescends
  BY DEF Init, EmptyDirectory, OwnerDescends, Unsynced, Unrenamed
<1> QED BY <1>1, <1>2, <1>3 DEF Lineage

LEMMA LineagePreserved == LineageInv /\ [Next]_vars => LineageInv'
<1> SUFFICES ASSUME LineageInv, [Next]_vars PROVE Lineage'
  BY DurablePreserved DEF LineageInv
<1>1. CASE Next
  BY <1>1, LineageAfterCall, LineageAfterPublish, LineageAfterRecovery, LineageAfterFault DEF Next
<1>2. CASE UNCHANGED vars
  BY <1>2 DEF vars, LineageInv, Lineage, AllDated, GatesDescend, OwnerDescends
<1> QED BY <1>1, <1>2

-----------------------------------------------------------------------------
(* Authority that no gate guards was confirmed.                            *)

\* A process that ends leaves the rule about the directory.
LEMMA ExitAuthority ==
    ASSUME Authority, Exit, UNCHANGED confirmed, Bare' => Bare,
           Bare' => {dir'.state, pers'.state} \subseteq {dir.state, pers.state}
    PROVE  Authority'
<1>1. (Bare => Vouched(dir.state) /\ Vouched(pers.state))'
  BY DEF Authority, Vouched
<1> QED BY <1>1 DEF Exit, Authority, Settling, InstallSteps

LEMMA AuthorityAfterCall ==
    ASSUME AuthorityInv, Call
    PROVE  Authority'
<1> USE DEF AuthorityInv, LineageInv, DurableInv, TypeInv
<1>1. CASE Starts
  BY <1>1 DEF Starts, Authority, Bare, Vouched, Settling, InstallSteps
<1>2. ASSUME NEW s \in Seeds, Open(s) PROVE Authority'
  BY <1>2 DEF Open, disk, Authority, Bare, Vouched, Settling, InstallSteps
<1>3. ASSUME NEW s \in Seeds, RecoverStart(s) PROVE Authority'
  <2>1. pc' \in {"plan", "adopt"} /\ UNCHANGED <<dir, pers, confirmed>>
    BY <1>3 DEF RecoverStart, disk
  <2>2. ASSUME pc' = "adopt"
        PROVE  /\ dir.pending.old # None
               /\ dir.state = dir.pending.old
               /\ dir.pending.next.app.predecessor = dir.pending.old.id
    BY <1>3, <2>2 DEF RecoverStart, AdoptAccepts
  <2> QED BY <2>1, <2>2 DEF Authority, Bare, Vouched, Settling, InstallSteps
<1> QED BY <1>1, <1>2, <1>3, CallStarts

LEMMA AuthorityAfterPublish ==
    ASSUME AuthorityInv, PublishStep
    PROVE  Authority'
<1> USE DEF AuthorityInv, LineageInv, DurableInv, TypeInv, Settling, InstallSteps
<1>0. dir \in Directory /\ cand \in Image \cup {None}
  BY DEF TypeOK
<1>1. CASE CreateIntent
  <2>1. dir'.state = dir.state /\ dir'.pending = Torn /\ dir'.recovery = dir.recovery
    BY <1>0, <1>1, SetPending DEF CreateIntent, Step
  <2>2. Bare' => Bare
    BY <1>1, <2>1, NoneAssumption DEF CreateIntent, Step, Bare
  <2> QED BY <1>1, <2>1, <2>2 DEF CreateIntent, Step, Authority, Vouched
<1>2. CASE FillIntent
  <2>1. [old |-> cur, next |-> cand] \in Pair
    BY <1>2, MakePair DEF FillIntent, Step, TypeOK, WellFormed, PublishSteps
  <2>2. dir'.state = dir.state /\ dir'.pending \in Pair /\ dir'.recovery = dir.recovery
    BY <1>0, <1>2, <2>1, SetPending DEF FillIntent, Step
  <2>3. Bare' => Bare
    BY <1>2, <2>2, NoneAssumption DEF FillIntent, Step, Bare
  <2> QED BY <1>2, <2>2, <2>3 DEF FillIntent, Step, Authority, Vouched
<1>3. CASE SyncIntent
  <2>1. dir.pending # None
    BY <1>3 DEF SyncIntent, Step, Gates
  <2> QED BY <1>3, <2>1 DEF SyncIntent, Step, Authority, Bare
<1>4. CASE Rename
  <2>1. dir'.pending = dir.pending /\ dir.pending # None
    BY <1>0, <1>4, SetState DEF Rename, Step, Gates
  <2> QED BY <1>4, <2>1 DEF Rename, Step, Authority, Bare
<1>5. CASE SyncRename
  <2>1. dir.pending # None
    BY <1>5 DEF SyncRename, Gates
  <2> QED BY <1>5, <2>1 DEF SyncRename, Authority, Bare
<1>6. CASE ClearIntent
  <2>1. dir'.state = dir.state
    BY <1>0, <1>6, SetPending DEF ClearIntent, Step
  <2> QED BY <1>6, <2>1 DEF ClearIntent, Step, Gates, Authority, Vouched
<1>7. CASE SyncClear
  BY <1>7 DEF SyncClear, Durable, Gates, Authority, Vouched
<1> QED BY <1>1, <1>2, <1>3, <1>4, <1>5, <1>6, <1>7 DEF PublishStep

LEMMA AuthorityAfterRecovery ==
    ASSUME AuthorityInv, RecoveryStep
    PROVE  Authority'
<1> USE DEF AuthorityInv, LineageInv, DurableInv, TypeInv, Settling, InstallSteps
<1>0. dir \in Directory /\ cand \in Image \cup {None}
  BY DEF TypeOK
<1>1. CASE Adopt
  <2> DEFINE old == dir.pending.old
             next == dir.pending.next
  <2>1. dir.pending \in Pair /\ next \in Image /\ old \in Image /\ dir.state = old
    BY <1>1, PairFields DEF Adopt, Step, WellFormed, Authority
  <2>2. dir'.state = next /\ dir'.pending = dir.pending /\ dir'.recovery = dir.recovery
    BY <1>0, <1>1, <2>1, SetState DEF Adopt, Step
  <2>3. Rekeyed(old, next)
    BY <1>1, <2>1, NamesItsPredecessor
       DEF Adopt, Step, Authority, Lineage, AllDated, GatesDescend
  <2>4. Vouched(old) => Vouched(next)
    BY <2>1, <2>3, ImageFields DEF Vouched, Rekeyed
  <2>5. Bare' => Bare
    BY <1>1, <2>2 DEF Adopt, Step, Bare
  <2>6. Bare' => Vouched(next) /\ Vouched(pers.state)
    BY <2>1, <2>4, <2>5 DEF Authority
  <2> HIDE DEF next
  <2> QED BY <1>1, <2>2, <2>6 DEF Adopt, Step, Authority, Vouched
<1>2. CASE SyncAdopt
  BY <1>2 DEF SyncAdopt, Step, Authority, Vouched
<1>3. CASE PlanRefused
  BY <1>3, ExitAuthority DEF PlanRefused, disk, Bare
<1>4. CASE PlanResumed
  <2>1. dir.recovery \in Pair /\ Plans(dir.recovery)
    BY <1>0, <1>4, DirectoryFields DEF PlanResumed, Lineage, GatesDescend
  <2>2. dir.recovery.old \in Image
    BY <2>1, PairFields DEF Plans
  <2>3. ~cand'.app.live
    BY <1>4, <2>1, <2>2, ImageFields, SanitizeType DEF PlanResumed, Plans
  <2> QED BY <1>4, <2>3 DEF PlanResumed, disk, Authority, Bare, Vouched
<1>5. CASE PlanWritten
  <2>1. Visible \in Image
    BY <1>5, VisibleType DEF PlanWritten, WellFormed
  <2>2. Visible.app \in App /\ Visible.seed \in Seeds /\ Visible.salt \in Nat
    BY <2>1, ImageFields
  <2>3. cand' \in Image /\ ~cand'.app.live
    BY <1>5, <2>2, SealType, SanitizeType, ZenonT(40) DEF PlanWritten, TypeOK
  <2>4. [old |-> Visible, next |-> cand'] \in Pair
    BY <2>1, <2>3, MakePair
  <2>5. dir'.state = dir.state /\ dir'.pending = dir.pending
    BY <1>0, <1>5, <2>4, SetRecovery DEF PlanWritten
  <2>6. Bare' => Bare
    BY <1>5, <2>5 DEF PlanWritten, Bare
  <2> QED BY <1>5, <2>3, <2>5, <2>6 DEF PlanWritten, Authority, Vouched
<1>6. CASE SyncPlan
  BY <1>6 DEF SyncPlan, Step, Gates, Authority, Bare, Vouched
<1>7. CASE Install
  <2>1. dir'.state = cand /\ dir'.pending = dir.pending /\ dir'.recovery = dir.recovery
    BY <1>0, <1>7, SetState DEF Install, Step
  <2>2. ~cand.app.live /\ ~cand.app.unfinished
    BY <1>7 DEF Install, Step, Authority, Owner
  <2> QED BY <1>7, <2>1, <2>2 DEF Install, Step, Authority, Bare, Vouched
<1>8. CASE SyncInstall
  BY <1>8 DEF SyncInstall, Step, Gates, Authority, Vouched
<1>9. CASE DropIntent
  <2>1. dir'.state = dir.state
    BY <1>0, <1>9, SetPending DEF DropIntent, Step
  <2> QED BY <1>9, <2>1 DEF DropIntent, Step, Gates, Authority, Vouched
<1>10. CASE SyncDropIntent
  BY <1>10 DEF SyncDropIntent, Step, Gates, Authority, Vouched
<1>11. CASE DropPlan
  <2>1. dir'.state = dir.state
    BY <1>0, <1>11, SetRecovery DEF DropPlan, Step
  <2> QED BY <1>11, <2>1 DEF DropPlan, Step, Gates, Authority, Vouched
<1>12. CASE Recovered
  BY <1>12 DEF Recovered, Gates, Authority, Vouched
<1> QED BY <1>1, <1>2, <1>3, <1>4, <1>5, <1>6, <1>7, <1>8, <1>9, <1>10, <1>11, <1>12 DEF RecoveryStep

LEMMA AuthorityAfterFault ==
    ASSUME AuthorityInv, FaultStep \/ Close
    PROVE  Authority'
<1> USE DEF AuthorityInv, LineageInv, DurableInv, TypeInv, Settling, InstallSteps
<1>1. CASE CandidateFails
  <2>1. CASE Exit
    BY <1>1, <2>1, ExitAuthority DEF CandidateFails, disk, Bare
  <2> QED BY <1>1, <2>1 DEF CandidateFails, NotPublished, disk, Authority, Bare, Vouched
<1>2. CASE PublishFails
  <2> DEFINE renamed == [dir EXCEPT !.state = cand]
  <2>1. renamed.pending = dir.pending /\ renamed.recovery = dir.recovery
    BY SetState DEF TypeOK
  <2> HIDE DEF renamed
  <2>2. dir'.pending = dir.pending /\ dir'.recovery = dir.recovery /\ UNCHANGED <<pers, confirmed>>
    BY <1>2, <2>1 DEF PublishFails, renamed
  <2>3. Bare' => Bare
    BY <2>2 DEF Bare
  <2>4. dir'.state # dir.state => ~Bare
    BY <1>2 DEF PublishFails, Gates, Authority, Bare
  <2>5. CASE Exit
    BY <2>2, <2>3, <2>4, <2>5, ExitAuthority
  <2> QED BY <1>2, <2>2, <2>3, <2>4, <2>5 DEF PublishFails, Unknown, Authority, Vouched
<1>3. CASE ClearFails
  BY <1>3 DEF ClearFails, Durable, disk, Authority, Bare, Vouched
<1>4. CASE Kill
  BY <1>4, ExitAuthority DEF Kill, disk, Bare
<1>5. CASE LosePower
  <2>1. /\ dir'.state \in {dir.state, pers.state}
        /\ dir'.pending \in {dir.pending, pers.pending}
        /\ dir'.recovery \in {dir.recovery, pers.recovery}
        /\ pers' = dir' /\ Exit /\ UNCHANGED confirmed
    BY <1>5, PowerLossEntries DEF LosePower
  <2>2. Bare' => Bare
    BY <2>1 DEF Bare
  <2> QED BY <2>1, <2>2, ExitAuthority
<1>6. CASE Close
  BY <1>6, ExitAuthority DEF Close, disk, Bare
<1> QED BY <1>1, <1>2, <1>3, <1>4, <1>5, <1>6 DEF FaultStep

LEMMA AuthorityInitially == Init => AuthorityInv
<1> SUFFICES ASSUME Init PROVE Authority
  BY LineageInitially DEF AuthorityInv
<1> QED BY DEF Init, EmptyDirectory, Authority, Vouched, Settling, InstallSteps

LEMMA AuthorityPreserved == AuthorityInv /\ [Next]_vars => AuthorityInv'
<1> SUFFICES ASSUME AuthorityInv, [Next]_vars PROVE Authority'
  BY LineagePreserved DEF AuthorityInv
<1>1. CASE Next
  BY <1>1, AuthorityAfterCall, AuthorityAfterPublish, AuthorityAfterRecovery, AuthorityAfterFault DEF Next
<1>2. CASE UNCHANGED vars
  BY <1>2 DEF vars, AuthorityInv, Authority, Bare, Vouched
<1> QED BY <1>1, <1>2

\* Whatever a power loss leaves behind, tasks, grants and unfinished
\* deliveries that no gate guards are those of the image confirmed last: what
\* was not confirmed yet does not count, and what a recovery withdrew never
\* comes back (storage.rs:121-134, 272-292, recovery.rs:110-124, 153-193).
THEOREM UngatedAuthority == Spec => []UngatedAuthorityIsConfirmed
<1>1. Spec => []AuthorityInv
  BY AuthorityInitially, AuthorityPreserved, PTL DEF Spec
<1>2. ASSUME AuthorityInv PROVE UngatedAuthorityIsConfirmed
  <2>1. SUFFICES ASSUME NEW d \in AfterPowerLoss, ~PendingExists(d)
                 PROVE  Vouched(d.state)
    BY DEF UngatedAuthorityIsConfirmed, Vouched
  <2>2. /\ d.state \in {dir.state, pers.state}
        /\ d.pending \in {dir.pending, pers.pending}
        /\ d.recovery \in {dir.recovery, pers.recovery}
    BY <1>2, PowerLossEntries DEF AuthorityInv, LineageInv, DurableInv, TypeInv
  <2>3. Bare
    BY <2>1, <2>2 DEF PendingExists, Bare
  <2> QED BY <1>2, <2>2, <2>3 DEF AuthorityInv, Authority
<1> QED BY <1>1, <1>2, PTL

-----------------------------------------------------------------------------
(***************************************************************************)
(* A process that may be killed or fail at any system call, on a machine   *)
(* that keeps its power: without a gate the store holds the last confirmed *)
(* image, and behind a whole gate explicit recovery accepts some seed the  *)
(* human holds.                                                            *)
(***************************************************************************)

\* Steps of recover_at while its plan is on disk.
Planned == {"planSync", "install", "installSync", "dropIntent", "dropIntentSync", "dropPlan"}

\* STATE is one of the two images of the gate that decides about it.
StateMatches ==
    /\ dir.pending \in Pair /\ dir.recovery = None =>
        dir.state \in {dir.pending.old, dir.pending.next}
    /\ dir.pending \in Pair /\ dir.state = None => dir.pending.old = None
    /\ dir.recovery \in Pair =>
        \/ dir.state \in {dir.recovery.old, dir.recovery.next}
        \/ dir.state = None /\ dir.pending \in Pair /\ dir.recovery.old = dir.pending.next

\* A plan starts from an image of the intent it reconciles, under the new key.
PlanMatches ==
    dir.recovery \in Pair /\ dir.pending \in Pair =>
        /\ dir.recovery.old \in {dir.pending.old, dir.pending.next}
        /\ dir.recovery.old.seed = dir.pending.next.seed

\* What recover_at knows at each step.
RecoveryHolds ==
    /\ pc = "plan" => Unseals(Visible, seed)
    /\ pc \in {"adopt", "adoptSync"} => dir.recovery = None /\ Unseals(dir.pending.next, seed)
    /\ pc = "adoptSync" => dir.pending \in Pair /\ dir.state = dir.pending.next
    /\ pc \in Planned => cand = dir.recovery.next

Acceptance == StateMatches /\ PlanMatches /\ RecoveryHolds /\ UngatedIsConfirmed

AcceptanceInv == AuthorityInv /\ Acceptance

-----------------------------------------------------------------------------
(* Every step without a power loss.                                        *)

\* A process that ends leaves the rules about the directory.
LEMMA ExitAcceptance ==
    ASSUME Exit, StateMatches', PlanMatches', UngatedIsConfirmed'
    PROVE  Acceptance'
BY DEF Exit, Acceptance, RecoveryHolds, Planned

\* A step that leaves the directory and what is confirmed.
LEMMA SameDirectory ==
    ASSUME Acceptance, UNCHANGED <<dir, confirmed>>
    PROVE  StateMatches' /\ PlanMatches' /\ UngatedIsConfirmed'
BY DEF Acceptance, StateMatches, PlanMatches, UngatedIsConfirmed, PendingExists

LEMMA AcceptanceAfterCall ==
    ASSUME AcceptanceInv, Call
    PROVE  Acceptance'
<1> USE DEF AcceptanceInv, AuthorityInv, LineageInv, DurableInv, TypeInv
<1>1. CASE Starts
  BY <1>1, SameDirectory DEF Starts, Acceptance, RecoveryHolds, Planned
<1>2. ASSUME NEW s \in Seeds, Open(s) PROVE Acceptance'
  BY <1>2, SameDirectory DEF Open, disk, Acceptance, RecoveryHolds, Planned
<1>3. ASSUME NEW s \in Seeds, RecoverStart(s) PROVE Acceptance'
  <2>1. /\ pc' \in {"plan", "adopt"} /\ seed' = s
        /\ UNCHANGED <<dir, confirmed>>
    BY <1>3 DEF RecoverStart, disk
  <2>2. ASSUME pc' = "plan" PROVE Unseals(Visible, seed)'
    <3>1. CASE Unseals(dir.state, s)
      BY <2>1, <3>1 DEF Unseals, Visible
    <3>2. CASE dir.state = None /\ AbsentInitialAccepts(s)
      BY <2>1, <3>2 DEF Unseals, Visible, AbsentInitialAccepts
    <3> QED BY <1>3, <2>2, <3>1, <3>2 DEF RecoverStart
  <2>3. ASSUME pc' = "adopt" PROVE dir.recovery = None /\ Unseals(dir.pending.next, s)
    <3>1. AdoptAccepts(s) /\ dir.state # None /\ ~Unseals(dir.state, s)
      BY <1>3, <2>3 DEF RecoverStart
    <3>2. /\ dir.pending \in Pair /\ Unseals(dir.pending.next, s)
          /\ dir.recovery \in Pair \cup {None}
      BY <3>1, DirectoryFields DEF AdoptAccepts, TypeOK
    <3>3. dir.recovery \notin Pair
      <4> SUFFICES ASSUME dir.recovery \in Pair PROVE FALSE
        OBVIOUS
      <4>1. dir.state \in {dir.recovery.old, dir.recovery.next}
        BY <3>1 DEF Acceptance, StateMatches
      <4>2. dir.recovery.old.seed = s /\ dir.recovery.next.seed = dir.recovery.old.seed
        BY <3>2 DEF Acceptance, PlanMatches, Unseals, Lineage, GatesDescend, Plans
      <4> QED BY <3>1, <4>1, <4>2 DEF Unseals
    <3> QED BY <3>2, <3>3
  <2>4. RecoveryHolds'
    BY <2>1, <2>2, <2>3 DEF RecoveryHolds, Unseals, Planned
  <2> QED BY <2>1, <2>4, SameDirectory DEF Acceptance
<1> QED BY <1>1, <1>2, <1>3, CallStarts

LEMMA AcceptanceAfterPublish ==
    ASSUME AcceptanceInv, PublishStep
    PROVE  Acceptance'
<1> USE DEF AcceptanceInv, AuthorityInv, LineageInv, DurableInv, TypeInv
<1>0. dir \in Directory /\ cand \in Image \cup {None}
  BY DEF TypeOK
<1>a. dir.recovery = None /\ pc' \notin RecoverySteps
  BY DEF PublishStep, CreateIntent, FillIntent, SyncIntent, Rename, SyncRename, ClearIntent, SyncClear,
         Step, Durable, Gates, PublishSteps, RecoverySteps
<1>b. RecoveryHolds'
  BY <1>a DEF RecoveryHolds, RecoverySteps, Planned
<1>1. CASE CreateIntent
  <2>1. dir'.state = dir.state /\ dir'.pending = Torn /\ dir'.recovery = dir.recovery
    BY <1>0, <1>1, SetPending DEF CreateIntent, Step
  <2>2. dir'.pending \notin Pair /\ dir'.recovery \notin Pair /\ dir'.pending # None
    BY <1>a, <2>1, NoneAssumption
  <2> QED BY <1>b, <2>2 DEF Acceptance, StateMatches, PlanMatches, UngatedIsConfirmed, PendingExists
<1>2. CASE FillIntent
  <2>1. cand \in Image /\ cur \in Image \cup {None}
    BY <1>2 DEF FillIntent, Step, TypeOK, WellFormed, PublishSteps
  <2> DEFINE pair == [old |-> cur, next |-> cand]
  <2>2. pair \in Pair /\ pair.old = cur /\ pair.next = cand
    BY <2>1, MakePair
  <2> HIDE DEF pair
  <2>3. dir'.state = dir.state /\ dir'.pending = pair /\ dir'.recovery = dir.recovery
    BY <1>0, <1>2, <2>2, SetPending DEF FillIntent, Step, pair
  <2>4. dir.state = cur
    BY <1>2 DEF FillIntent, Step, Lineage, OwnerDescends, Unrenamed
  <2>5. dir'.recovery \notin Pair /\ dir'.pending # None
    BY <1>a, <2>2, <2>3, NoneAssumption
  <2> QED BY <1>b, <2>2, <2>3, <2>4, <2>5
          DEF Acceptance, StateMatches, PlanMatches, UngatedIsConfirmed, PendingExists
<1>3. CASE SyncIntent
  BY <1>b, <1>3, SameDirectory DEF SyncIntent, Step, Acceptance
<1>4. CASE Rename
  <2>1. dir'.state = cand /\ dir'.pending = dir.pending /\ dir'.recovery = dir.recovery
    BY <1>0, <1>4, SetState DEF Rename, Step
  <2>2. dir.pending = [old |-> cur, next |-> cand] /\ dir.pending # None /\ cand # None
    BY <1>4, ImageFields
       DEF Rename, Step, Lineage, OwnerDescends, Gates, WellFormed, PublishSteps
  <2>3. dir'.pending.next = cand /\ dir'.recovery \notin Pair
    BY <1>a, <2>1, <2>2, NoneAssumption
  <2> QED BY <1>b, <2>1, <2>2, <2>3
          DEF Acceptance, StateMatches, PlanMatches, UngatedIsConfirmed, PendingExists
<1>5. CASE SyncRename
  <2>1. dir.pending # None
    BY <1>5 DEF SyncRename, Gates
  <2> QED BY <1>b, <1>5, <2>1
          DEF SyncRename, Acceptance, StateMatches, PlanMatches, UngatedIsConfirmed, PendingExists
<1>6. CASE ClearIntent
  <2>1. /\ dir'.state = dir.state /\ dir'.pending = None /\ dir'.recovery = dir.recovery
        /\ UNCHANGED confirmed
    BY <1>0, <1>6, SetPending DEF ClearIntent, Step
  <2>2. dir.state = confirmed
    BY <1>6 DEF ClearIntent, Step, Gates, Authority, Settling
  <2>3. dir'.pending \notin Pair /\ dir'.recovery \notin Pair
    BY <1>a, <2>1, NoneAssumption
  <2> QED BY <1>b, <2>1, <2>2, <2>3
          DEF Acceptance, StateMatches, PlanMatches, UngatedIsConfirmed
<1>7. CASE SyncClear
  BY <1>b, <1>7, SameDirectory DEF SyncClear, Acceptance
<1> QED BY <1>1, <1>2, <1>3, <1>4, <1>5, <1>6, <1>7 DEF PublishStep

LEMMA AcceptanceAfterRecovery ==
    ASSUME AcceptanceInv, RecoveryStep
    PROVE  Acceptance'
<1> USE DEF AcceptanceInv, AuthorityInv, LineageInv, DurableInv, TypeInv, Planned
<1>0. /\ dir \in Directory /\ cand \in Image \cup {None}
      /\ dir.pending \in Pair \cup {None, Torn} /\ dir.recovery \in Pair \cup {None}
  BY DirectoryFields DEF TypeOK
<1>1. CASE Adopt
  <2>1. /\ dir.pending \in Pair /\ dir.pending.next \in Image /\ dir.pending.next # None
        /\ dir.pending # None /\ dir.recovery = None
    BY <1>1, PairFields, ImageFields DEF Adopt, Step, WellFormed, Acceptance, RecoveryHolds
  <2>2. dir'.state = dir.pending.next /\ dir'.pending = dir.pending /\ dir'.recovery = dir.recovery
    BY <1>0, <1>1, <2>1, SetState DEF Adopt, Step
  <2>3. dir.recovery \notin Pair
    BY <2>1, NoneAssumption
  <2>4. RecoveryHolds'
    BY <1>1, <2>1, <2>2 DEF Adopt, Step, Acceptance, RecoveryHolds
  <2> QED BY <2>1, <2>2, <2>3, <2>4
          DEF Acceptance, StateMatches, PlanMatches, UngatedIsConfirmed, PendingExists
<1>2. CASE SyncAdopt
  <2>1. /\ dir.state = dir.pending.next /\ Unseals(dir.pending.next, seed)
        /\ UNCHANGED <<dir, seed>> /\ pc' = "plan" /\ confirmed' = dir.state
    BY <1>2 DEF SyncAdopt, Step, Acceptance, RecoveryHolds
  <2>2. Unseals(Visible, seed)'
    BY <2>1 DEF Unseals, Visible
  <2> QED BY <2>1, <2>2
          DEF Acceptance, StateMatches, PlanMatches, RecoveryHolds, UngatedIsConfirmed
<1>3. CASE PlanRefused
  BY <1>3, ExitAcceptance, SameDirectory DEF PlanRefused, disk
<1>4. CASE PlanResumed
  BY <1>4, SameDirectory DEF PlanResumed, disk, Acceptance, RecoveryHolds
<1>5. CASE PlanWritten
  <2>1. Visible \in Image
    BY <1>5, VisibleType DEF PlanWritten, WellFormed
  <2>2. Visible.app \in App /\ Visible.seed \in Seeds /\ Visible.salt \in Nat
    BY <2>1, ImageFields
  <2>3. cand' \in Image
    BY <1>5, <2>2, SealType, SanitizeType DEF PlanWritten, TypeOK
  <2> DEFINE pair == [old |-> Visible, next |-> cand']
  <2>4. pair \in Pair /\ pair.old = Visible /\ pair.next = cand'
    BY <2>1, <2>3, MakePair
  <2> HIDE DEF pair
  <2>5. /\ dir'.state = dir.state /\ dir'.pending = dir.pending /\ dir'.recovery = pair
        /\ pc' = "planSync" /\ dir'.recovery # None
    BY <1>0, <1>5, <2>4, SetRecovery, PairFields DEF PlanWritten, pair
  <2>6. dir.state # None => Visible = dir.state
    BY DEF Visible
  <2>7. dir.state = None => dir.pending \in Pair /\ Visible = dir.pending.next
    BY <1>5, ImageFields DEF PlanWritten, Visible, WellFormed
  <2>8. ASSUME dir.pending \in Pair
        PROVE  /\ Visible \in {dir.pending.old, dir.pending.next}
               /\ Visible.seed = dir.pending.next.seed
    BY <1>5, <2>8, PairFields
       DEF PlanWritten, FreshAccepts, ValidatePending, Unseals, Acceptance, RecoveryHolds
  <2>9. StateMatches'
    BY <2>4, <2>5, <2>6, <2>7 DEF Acceptance, StateMatches
  <2>10. PlanMatches'
    BY <2>4, <2>5, <2>8 DEF PlanMatches
  <2> QED BY <2>4, <2>5, <2>9, <2>10 DEF Acceptance, RecoveryHolds, UngatedIsConfirmed, PendingExists
<1>6. CASE SyncPlan
  BY <1>6, SameDirectory DEF SyncPlan, Step, Acceptance, RecoveryHolds
<1>7. CASE Install
  <2>1. dir'.state = cand /\ dir'.pending = dir.pending /\ dir'.recovery = dir.recovery
    BY <1>0, <1>7, SetState DEF Install, Step
  <2>2. cand = dir.recovery.next /\ dir.recovery # None /\ cand # None
    BY <1>7, ImageFields
       DEF Install, Step, Acceptance, RecoveryHolds, Gates, WellFormed, InstallSteps
  <2> QED BY <1>7, <2>1, <2>2
          DEF Install, Step, Acceptance, StateMatches, PlanMatches, RecoveryHolds, UngatedIsConfirmed,
              PendingExists
<1>8. CASE SyncInstall
  <2>1. dir.state = cand /\ confirmed' = cand /\ UNCHANGED dir
    BY <1>8 DEF SyncInstall, Step, Gates
  <2> QED BY <1>8, <2>1
          DEF SyncInstall, Step, Acceptance, StateMatches, PlanMatches, RecoveryHolds, UngatedIsConfirmed
<1>9. CASE DropIntent
  <2>1. dir'.state = dir.state /\ dir'.pending = None /\ dir'.recovery = dir.recovery
    BY <1>0, <1>9, SetPending DEF DropIntent, Step
  <2>2. dir.state = dir.recovery.next /\ dir.recovery # None
    BY <1>9 DEF DropIntent, Step, Gates, Acceptance, RecoveryHolds
  <2> QED BY <1>9, <2>1, <2>2, NoneAssumption
          DEF DropIntent, Step, Acceptance, StateMatches, PlanMatches, RecoveryHolds, UngatedIsConfirmed,
              PendingExists
<1>10. CASE SyncDropIntent
  BY <1>10, SameDirectory DEF SyncDropIntent, Step, Acceptance, RecoveryHolds
<1>11. CASE DropPlan
  <2>1. dir'.state = dir.state /\ dir'.pending = dir.pending /\ dir'.recovery = None
    BY <1>0, <1>11, SetRecovery DEF DropPlan, Step
  <2>2. dir.state = confirmed /\ dir.pending = None
    BY <1>11 DEF DropPlan, Step, Gates, Authority, Settling
  <2> QED BY <1>11, <2>1, <2>2, NoneAssumption
          DEF DropPlan, Step, Acceptance, StateMatches, PlanMatches, RecoveryHolds, UngatedIsConfirmed
<1>12. CASE Recovered
  BY <1>12, SameDirectory DEF Recovered, Acceptance, RecoveryHolds
<1> QED BY <1>1, <1>2, <1>3, <1>4, <1>5, <1>6, <1>7, <1>8, <1>9, <1>10, <1>11, <1>12 DEF RecoveryStep

LEMMA AcceptanceAfterFault ==
    ASSUME ~PowerLoss, AcceptanceInv, FaultStep \/ Close
    PROVE  Acceptance'
<1> USE DEF AcceptanceInv, AuthorityInv, LineageInv, DurableInv, TypeInv, Planned
<1>1. CASE CandidateFails
  <2>1. CASE Exit
    BY <1>1, <2>1, ExitAcceptance, SameDirectory DEF CandidateFails, disk
  <2> QED BY <1>1, <2>1, SameDirectory DEF CandidateFails, NotPublished, disk, Acceptance, RecoveryHolds
<1>2. CASE PublishFails
  <2> DEFINE renamed == [dir EXCEPT !.state = cand]
  <2>1. /\ renamed.pending = dir.pending /\ renamed.state = cand
        /\ renamed.recovery = dir.recovery
    BY SetState DEF TypeOK
  <2> HIDE DEF renamed
  <2>2. /\ pc \in PublishSteps /\ cand # None /\ dir.recovery = None /\ UNCHANGED confirmed
    BY <1>2, ImageFields DEF PublishFails, WellFormed, Gates, PublishSteps
  <2>3. StateMatches' /\ PlanMatches' /\ UngatedIsConfirmed'
    <3>1. CASE dir' = dir
      BY <2>2, <3>1, SameDirectory
    <3>2. CASE dir' # dir
      <4>1. dir' = renamed /\ pc = "rename"
        BY <1>2, <3>2 DEF PublishFails, renamed
      <4>2. dir.pending = [old |-> cur, next |-> cand] /\ dir.pending # None
        BY <4>1 DEF Lineage, OwnerDescends, Gates
      <4>3. dir'.pending.next = cand /\ dir'.recovery \notin Pair
        BY <2>1, <2>2, <4>1, <4>2, NoneAssumption
      <4> QED BY <2>1, <2>2, <4>1, <4>2, <4>3
              DEF StateMatches, PlanMatches, UngatedIsConfirmed, PendingExists
    <3> QED BY <3>1, <3>2
  <2>4. CASE Exit
    BY <2>3, <2>4, ExitAcceptance
  <2> QED BY <1>2, <2>3, <2>4 DEF PublishFails, Unknown, Acceptance, RecoveryHolds
<1>3. CASE ClearFails
  BY <1>3, SameDirectory DEF ClearFails, Durable, disk, Acceptance, RecoveryHolds
<1>4. CASE Kill
  BY <1>4, ExitAcceptance, SameDirectory DEF Kill, disk
<1>5. CASE LosePower
  BY <1>5 DEF LosePower
<1>6. CASE Close
  BY <1>6, ExitAcceptance, SameDirectory DEF Close, disk
<1> QED BY <1>1, <1>2, <1>3, <1>4, <1>5, <1>6 DEF FaultStep

LEMMA AcceptanceInitially == Init => AcceptanceInv
<1> SUFFICES ASSUME Init PROVE Acceptance
  BY AuthorityInitially DEF AcceptanceInv
<1> QED BY NoneAssumption
        DEF Init, EmptyDirectory, Acceptance, StateMatches, PlanMatches, RecoveryHolds, Planned,
            UngatedIsConfirmed

LEMMA AcceptancePreserved ==
    ASSUME ~PowerLoss
    PROVE  AcceptanceInv /\ [Next]_vars => AcceptanceInv'
<1> SUFFICES ASSUME AcceptanceInv, [Next]_vars PROVE Acceptance'
  BY AuthorityPreserved DEF AcceptanceInv
<1>1. CASE Next
  BY <1>1, AcceptanceAfterCall, AcceptanceAfterPublish, AcceptanceAfterRecovery, AcceptanceAfterFault
     DEF Next
<1>2. CASE UNCHANGED vars
  <2>1. RecoveryHolds'
    BY <1>2 DEF vars, AcceptanceInv, Acceptance, RecoveryHolds, Unseals, Visible
  <2> QED BY <1>2, <2>1, SameDirectory DEF vars, AcceptanceInv, Acceptance
<1> QED BY <1>1, <1>2

\* While the machine keeps its power, a directory without a gate holds exactly
\* the last image a sync confirmed, wherever the process was killed or a system
\* call failed (storage.rs:272-292).
THEOREM UngatedStore ==
    ASSUME ~PowerLoss
    PROVE  Spec => []UngatedIsConfirmed
<1>1. Spec => []AcceptanceInv
  BY AcceptanceInitially, AcceptancePreserved, PTL DEF Spec
<1> QED BY <1>1, PTL DEF AcceptanceInv, Acceptance

-----------------------------------------------------------------------------
(* What recovery accepts.                                                  *)

\* A new vault and a restored backup are safe initial publications.
LEMMA InitialIsSafe ==
    ASSUME NEW a \in {DefaultApp, RestoredApp}
    PROVE  SafeInitial(a)
<1>1. DefaultApp.generation = 1 /\ DefaultApp.data = 0 /\ ~DefaultApp.clockFrozen
  BY DEF DefaultApp
<1>2. RestoredApp.restored /\ ~RestoredApp.live /\ ~RestoredApp.unfinished
  BY DEF RestoredApp, DefaultApp
<1> QED BY <1>1, <1>2 DEF SafeInitial

\* Whatever publish_with wrote into the intent passes validate_pending with
\* the seed of the new image, from either of its two images.
LEMMA IntentIsValid ==
    ASSUME dir.pending \in Pair, Publishes(dir.pending.old, dir.pending.next),
           NEW base \in {dir.pending.old, dir.pending.next}
    PROVE  ValidatePending(dir.pending.next.seed, base)
<1> DEFINE old == dir.pending.old
           next == dir.pending.next
           s == next.seed
<1>1. /\ dir.pending # Torn /\ next \in Image /\ next # None /\ old \in Image \cup {None}
  BY PairFields, ImageFields
<1>2. Unseals(next, s)
  BY <1>1 DEF Unseals
<1>3. old = None => SafeInitial(next.app)
  BY InitialIsSafe DEF Publishes
<1>4. ASSUME old # None
      PROVE  /\ ~Unseals(old, s) \/ next.salt # old.salt => next.app.predecessor = old.id
             /\ Follows(old.app, next.app)
  <2>1. old.app.data \in Nat /\ next.app.data \in Nat
    BY <1>1, <1>4, ImageFields, AppFields
  <2>2. CASE Operation(old, next)
    BY <1>4, <2>1, <2>2 DEF Operation, Unseals, Follows
  <2>3. CASE Rekeyed(old, next)
    BY <2>1, <2>3 DEF Rekeyed, Follows
  <2> QED BY <1>4, <2>2, <2>3 DEF Publishes
<1> QED BY <1>1, <1>2, <1>3, <1>4 DEF ValidatePending

\* A plan left behind is resumed with the seed it was drawn up for.
LEMMA PlanIsResumable ==
    ASSUME AcceptanceInv, dir.recovery \in Pair, dir.pending # Torn
    PROVE  \E s \in Seeds : Recoverable(s)
<1> USE DEF AcceptanceInv, AuthorityInv, LineageInv, DurableInv, TypeInv, Acceptance
<1> DEFINE base == dir.recovery.old
           planned == dir.recovery.next
           s == base.seed
<1>1. /\ Plans(dir.recovery) /\ base \in Image /\ planned \in Image
      /\ base # None /\ planned # None /\ s \in Seeds
  <2>1. Plans(dir.recovery)
    BY DEF Lineage, GatesDescend
  <2> QED BY <2>1, PairFields, ImageFields DEF Plans
<1>2. Unseals(base, s) /\ Unseals(planned, s)
  BY <1>1 DEF Plans, Unseals
<1>3. dir.pending # None => dir.pending \in Pair
  BY DirectoryFields DEF TypeOK
<1>4. ASSUME dir.pending \in Pair
      PROVE  ValidatePending(s, base) /\ dir.pending.next.seed = s
  <2>1. base \in {dir.pending.old, dir.pending.next} /\ dir.pending.next.seed = s
    BY <1>4 DEF PlanMatches
  <2>2. Publishes(dir.pending.old, dir.pending.next)
    BY <1>4 DEF Lineage, GatesDescend
  <2>3. ValidatePending(dir.pending.next.seed, base)
    BY <1>4, <2>1, <2>2, IntentIsValid
  <2> QED BY <2>1, <2>3
<1>5. /\ Visible \in {base, planned}
      /\ Unseals(dir.state, s) \/ (dir.state = None /\ AbsentInitialAccepts(s))
  <2>1. CASE dir.state # None
    BY <1>2, <2>1 DEF StateMatches, Visible
  <2>2. CASE dir.state = None
    <3>1. /\ dir.pending \in Pair /\ base = dir.pending.next /\ dir.pending.old = None
      BY <1>1, <2>2 DEF StateMatches
    <3>2. SafeInitial(dir.pending.next.app)
      BY <3>1, InitialIsSafe DEF Lineage, GatesDescend, Publishes
    <3> QED BY <1>2, <2>2, <3>1, <3>2, PairFields DEF Visible, AbsentInitialAccepts
  <2> QED BY <2>1, <2>2
<1>6. ResumeAccepts(s)
  BY <1>1, <1>2, <1>3, <1>4, <1>5 DEF ResumeAccepts, Plans
<1> QED BY <1>1, <1>5, <1>6, PairFields DEF Recoverable

\* An intent left behind without a plan is recovered with the seed of its new
\* image: from that image, from the old one under the same key, by adoption
\* of a re-key, or as the first image of a vault.
LEMMA IntentIsRecoverable ==
    ASSUME AcceptanceInv, dir.recovery = None, dir.pending \in Pair
    PROVE  \E s \in Seeds : Recoverable(s)
<1> USE DEF AcceptanceInv, AuthorityInv, LineageInv, DurableInv, TypeInv, Acceptance
<1> DEFINE old == dir.pending.old
           next == dir.pending.next
           s == next.seed
<1>1. /\ next \in Image /\ next # None /\ s \in Seeds /\ old \in Image \cup {None}
      /\ dir.pending # None /\ dir.pending # Torn /\ Publishes(old, next)
      /\ dir.state \in {old, next}
  BY PairFields, ImageFields DEF Lineage, GatesDescend, StateMatches
<1>2. Unseals(next, s)
  BY <1>1 DEF Unseals
<1>3. Visible \in {old, next} => FreshAccepts(s)
  BY <1>1, IntentIsValid DEF FreshAccepts
<1>4. CASE Unseals(dir.state, s)
  <2>1. Visible = dir.state
    BY <1>4 DEF Visible, Unseals
  <2> QED BY <1>1, <1>3, <1>4, <2>1 DEF Recoverable
<1>5. CASE dir.state = None
  <2>1. Visible = next /\ old = None
    BY <1>1, <1>5 DEF Visible
  <2>2. AbsentInitialAccepts(s)
    BY <1>1, <1>2, <2>1, InitialIsSafe DEF AbsentInitialAccepts, Publishes
  <2> QED BY <1>1, <1>3, <1>5, <2>1, <2>2 DEF Recoverable
<1>6. CASE dir.state # None /\ ~Unseals(dir.state, s)
  <2>1. old # None /\ dir.state = old /\ old.seed # s
    BY <1>1, <1>2, <1>6 DEF Unseals
  <2>2. next.app.predecessor = old.id
    BY <1>1, <2>1 DEF Publishes, Operation, Rekeyed
  <2>3. AdoptAccepts(s)
    BY <1>1, <1>2, <2>2 DEF AdoptAccepts
  <2> QED BY <1>1, <1>6, <2>3 DEF Recoverable
<1> QED BY <1>4, <1>5, <1>6

\* While the machine keeps its power, a store that refuses to open is never
\* beyond recovery: unless its intent is torn, some seed the human holds passes
\* every check of recover_at (recovery.rs:153-176, 214-255).
THEOREM WholeGates ==
    ASSUME ~PowerLoss
    PROVE  Spec => []WholeGateIsRecoverable
<1>1. Spec => []AcceptanceInv
  BY AcceptanceInitially, AcceptancePreserved, PTL DEF Spec
<1>2. ASSUME AcceptanceInv PROVE WholeGateIsRecoverable
  <2>1. SUFFICES ASSUME NeedsRecovery, dir.pending # Torn
                 PROVE  \E s \in Seeds : Recoverable(s)
    BY DEF WholeGateIsRecoverable
  <2>2. /\ dir.state \in Image \cup {None} /\ dir.pending \in Pair \cup {None}
        /\ dir.recovery \in Pair \cup {None}
    BY <1>2, <2>1, DirectoryFields DEF AcceptanceInv, AuthorityInv, LineageInv, DurableInv, TypeInv, TypeOK
  <2>3. CASE dir.recovery # None
    BY <1>2, <2>1, <2>2, <2>3, PlanIsResumable
  <2>4. CASE dir.recovery = None /\ dir.pending # None
    BY <1>2, <2>2, <2>4, IntentIsRecoverable
  <2>5. CASE dir.recovery = None /\ dir.pending = None
    <3>1. dir.state \in Image /\ dir.state # None /\ dir.state.app.unfinished
      BY <2>1, <2>2, <2>5 DEF NeedsRecovery, PendingExists
    <3>2. dir.state.seed \in Seeds /\ Unseals(dir.state, dir.state.seed) /\ Visible = dir.state
      BY <3>1, ImageFields DEF Unseals, Visible
    <3> QED BY <2>5, <3>1, <3>2 DEF Recoverable, FreshAccepts
  <2> QED BY <2>3, <2>4, <2>5
<1> QED BY <1>1, <1>2, PTL

-----------------------------------------------------------------------------
(***************************************************************************)
(* The refinement: every system call, kill, I/O error, power loss and step *)
(* of recovery is a write that puts two neighbouring values in doubt, a    *)
(* settling of that doubt, the serving of the one possible value, or a     *)
(* stutter.                                                                *)
(***************************************************************************)

\* What recovery installs has the content that is on disk, or is the first
\* content of a vault.
Content ==
    /\ pc = "plan" /\ dir.state = None => dir.pending.old = None
    /\ pc \in {"planSync", "install"} =>
        IF dir.state = None THEN cand.app.data \in {0, 1}
                            ELSE cand.app.data = dir.state.app.data

RegisterInv == AuthorityInv /\ Content

\* The values of the mapped variables.
Possible == {DataOf(dir.state), DataOf(pers.state)}
Served == IF Serving THEN app.data ELSE None

-----------------------------------------------------------------------------
(* The content of a recovery.                                              *)

\* What is drawn up from the visible image, or was drawn up before, has its
\* content.
LEMMA PlanContent ==
    ASSUME RegisterInv, pc = "plan", NEW data, Visible.app.data = data
    PROVE  IF dir.state = None THEN data \in {0, 1} ELSE data = dir.state.app.data
<1> USE DEF RegisterInv, AuthorityInv, LineageInv, DurableInv, TypeInv
<1>1. CASE dir.state = None
  <2>1. dir.pending \in Pair /\ dir.pending.old = None /\ Visible = dir.pending.next
    BY <1>1, ImageFields DEF WellFormed, Content, Visible
  <2>2. Visible.app \in {DefaultApp, RestoredApp}
    BY <2>1 DEF Lineage, GatesDescend, Publishes
  <2>3. DefaultApp.data = 0 /\ RestoredApp.data = 1
    BY DEF DefaultApp, RestoredApp
  <2> QED BY <1>1, <2>2, <2>3
<1>2. CASE dir.state # None
  BY <1>2 DEF Visible
<1> QED BY <1>1, <1>2

LEMMA ContentPreserved ==
    ASSUME RegisterInv, Next
    PROVE  Content'
<1> USE DEF RegisterInv, AuthorityInv, LineageInv, DurableInv, TypeInv
<1>1. ASSUME NEW s \in Seeds, RecoverStart(s) PROVE Content'
  <2>1. /\ pc' \in {"plan", "adopt"} /\ UNCHANGED dir
        /\ pc' = "plan" /\ dir.state = None => AbsentInitialAccepts(s)
    BY <1>1 DEF RecoverStart, disk, Unseals
  <2> QED BY <2>1 DEF Content, AbsentInitialAccepts
<1>2. CASE SyncAdopt
  <2>1. dir.state # None /\ UNCHANGED dir /\ pc' = "plan"
    BY <1>2, ImageFields DEF SyncAdopt, Step, WellFormed
  <2> QED BY <2>1 DEF Content
<1>3. CASE PlanResumed
  <2>1. /\ pc = "plan" /\ pc' = "install" /\ UNCHANGED dir /\ cand' = dir.recovery.next
        /\ dir.recovery \in Pair /\ Plans(dir.recovery)
    BY <1>3, DirectoryFields DEF PlanResumed, disk, TypeOK, Lineage, GatesDescend
  <2>2. dir.recovery.old \in Image
    BY <2>1, PairFields DEF Plans
  <2>3. dir.recovery.next.app.data = dir.recovery.old.app.data
    BY <2>1, <2>2, ImageFields, SanitizeType DEF Plans
  <2>4. Visible.app.data = cand'.app.data
    BY <1>3, <2>1, <2>3 DEF PlanResumed, ResumeAccepts
  <2> QED BY <2>1, <2>4, PlanContent DEF Content
<1>4. CASE PlanWritten
  <2>1. Visible \in Image
    BY <1>4, VisibleType DEF PlanWritten, WellFormed
  <2>2. Visible.app \in App /\ Visible.seed \in Seeds /\ Visible.salt \in Nat
    BY <2>1, ImageFields
  <2>3. cand' \in Image /\ cand'.app.data = Visible.app.data
    BY <1>4, <2>2, SealType, SanitizeType, ZenonT(40) DEF PlanWritten, TypeOK
  <2>4. [old |-> Visible, next |-> cand'] \in Pair
    BY <2>1, <2>3, MakePair
  <2>5. dir'.state = dir.state /\ pc = "plan" /\ pc' = "planSync"
    BY <1>4, <2>4, SetRecovery DEF PlanWritten, TypeOK
  <2> QED BY <2>3, <2>5, PlanContent DEF Content
<1>5. CASE SyncPlan
  BY <1>5 DEF SyncPlan, Step, Content
<1>6. CASE ~(\/ SyncAdopt \/ PlanResumed \/ PlanWritten \/ SyncPlan
             \/ \E s \in Seeds : RecoverStart(s))
  <2>1. pc' \notin {"plan", "planSync", "install"}
    <3>1. CASE Call
      BY <1>6, <3>1, CallStarts DEF Starts, Open
    <3>2. CASE PublishStep
      BY <3>2 DEF PublishStep, CreateIntent, FillIntent, SyncIntent, Rename, SyncRename, ClearIntent,
                  SyncClear, Step, Durable
    <3>3. CASE RecoveryStep
      BY <1>6, <3>3 DEF RecoveryStep, Adopt, PlanRefused, Exit, Install, SyncInstall, DropIntent,
                        SyncDropIntent, DropPlan, Recovered, Step
    <3>4. CASE Close
      BY <3>4 DEF Close, Exit
    <3>5. CASE FaultStep
      BY <3>5 DEF FaultStep, CandidateFails, PublishFails, ClearFails, Kill, LosePower, Exit,
                  NotPublished, Unknown, Durable
    <3> QED BY <3>1, <3>2, <3>3, <3>4, <3>5 DEF Next
  <2> QED BY <2>1 DEF Content
<1> QED BY <1>1, <1>2, <1>3, <1>4, <1>5, <1>6

LEMMA RegisterInitially == Init => RegisterInv
<1> SUFFICES ASSUME Init PROVE Content
  BY AuthorityInitially DEF RegisterInv
<1> QED BY DEF Init, Content

LEMMA RegisterPreserved == RegisterInv /\ [Next]_vars => RegisterInv'
<1> SUFFICES ASSUME RegisterInv, [Next]_vars PROVE Content'
  BY AuthorityPreserved DEF RegisterInv
<1>1. CASE Next
  BY <1>1, ContentPreserved
<1>2. CASE UNCHANGED vars
  BY <1>2 DEF vars, RegisterInv, Content
<1> QED BY <1>1, <1>2

-----------------------------------------------------------------------------
(* Steps of the register.                                                  *)

LEMMA Settles ==
    ASSUME ~Serving', Possible' \subseteq Possible
    PROVE  Register!RegisterNext
<1>1. Register!Settle
  BY DEF Possible, Register!Settle
<1> QED BY <1>1 DEF Register!RegisterNext

\* A step that leaves the possible values: what is served, if anything is, is
\* the one possible value.
LEMMA Keeps ==
    ASSUME DurableInv', Possible' = Possible
    PROVE  Register!RegisterNext
<1>1. CASE ~Serving'
  BY <1>1, Settles
<1>2. CASE Serving'
  <2>1. /\ dir'.state = cur' /\ pers'.state = cur' /\ cur'.app = app'
        /\ cur' \in Image /\ app' \in App
    BY <1>2 DEF Serving, DurableInv, TypeInv, TypeOK, WellFormed, Owner, InMemory
  <2>2. cur' # None /\ app'.data \in Nat /\ app'.data # None
    BY <2>1, ImageFields, AppFields, NoneAssumption
  <2>3. Possible' = {app'.data}
    BY <2>1, <2>2 DEF Possible, DataOf
  <2>4. Register!Serve
    BY <1>2, <2>2, <2>3 DEF Possible, Register!Serve
  <2> QED BY <2>4 DEF Register!RegisterNext
<1> QED BY <1>1, <1>2

\* From one image on disk to one image and the next: a write.
LEMMA WritesImage ==
    ASSUME NEW o \in Image \cup {None}, NEW n \in Image, Publishes(o, n),
           dir.state = o, pers.state = o, dir'.state = n, pers'.state = o, ~Serving'
    PROVE  Register!RegisterNext
<1> DEFINE w == DataOf(o)
<1>0. /\ Possible = {w} /\ Possible' = {DataOf(n), w}
      /\ n # None /\ DataOf(n) = n.app.data
  BY ImageFields DEF Possible, DataOf
<1>1. CASE o = None
  <2>1. DefaultApp.data = 0 /\ RestoredApp.data = 1
    BY DEF DefaultApp, RestoredApp
  <2>2. w = None /\ n.app.data \in {0, 1}
    BY <1>1, <2>1 DEF Publishes, DataOf
  <2>3. Possible' \in {{None, 0}, {None, 1}}
    BY <1>0, <2>2
  <2>4. Register!Write
    BY <1>0, <2>2, <2>3 DEF Possible, Register!Write
  <2> QED BY <2>4 DEF Register!RegisterNext
<1>2. CASE o # None /\ Operation(o, n)
  <2>1. w = o.app.data /\ w \in Nat /\ w # None
    BY <1>2, ImageFields, AppFields, NoneAssumption DEF DataOf
  <2>2. Possible' = {w, w + 1}
    BY <1>0, <1>2, <2>1 DEF Operation
  <2>3. Register!Write
    BY <1>0, <2>1, <2>2 DEF Possible, Register!Write
  <2> QED BY <2>3 DEF Register!RegisterNext
<1>3. CASE o # None /\ Rekeyed(o, n)
  <2>1. DataOf(n) = w
    BY <1>0, <1>3 DEF Rekeyed, DataOf
  <2> QED BY <1>0, <2>1, Settles
<1> QED BY <1>1, <1>2, <1>3 DEF Publishes

-----------------------------------------------------------------------------
(* Every step of the store is a step of the register.                      *)

LEMMA RegisterAfterPublish ==
    ASSUME RegisterInv, DurableInv', PublishStep
    PROVE  Register!RegisterNext
<1> USE DEF RegisterInv, AuthorityInv, LineageInv, DurableInv, TypeInv
<1>0. dir \in Directory /\ cand \in Image \cup {None}
  BY DEF TypeOK
<1>1. CASE CreateIntent
  <2>1. dir'.state = dir.state /\ pers' = pers
    BY <1>0, <1>1, SetPending DEF CreateIntent, Step
  <2> QED BY <2>1, Keeps DEF Possible
<1>2. CASE FillIntent
  <2>1. [old |-> cur, next |-> cand] \in Pair
    BY <1>2, MakePair DEF FillIntent, Step, TypeOK, WellFormed, PublishSteps
  <2>2. dir'.state = dir.state /\ pers' = pers
    BY <1>0, <1>2, <2>1, SetPending DEF FillIntent, Step
  <2> QED BY <2>2, Keeps DEF Possible
<1>3. CASE SyncIntent
  <2>1. dir.state = pers.state /\ dir' = dir /\ pers' = dir
    BY <1>3 DEF SyncIntent, Step, Lineage, OwnerDescends, Unrenamed
  <2> QED BY <2>1, Keeps DEF Possible
<1>4. CASE Rename
  <2>1. dir'.state = cand /\ pers' = pers /\ ~Serving'
    BY <1>0, <1>4, SetState DEF Rename, Step, Serving
  <2>2. /\ cand \in Image /\ cur \in Image \cup {None} /\ Publishes(cur, cand)
        /\ dir.state = cur /\ pers.state = cur
    BY <1>4 DEF Rename, Step, TypeOK, WellFormed, PublishSteps, Lineage, OwnerDescends, Unsynced, Unrenamed
  <2> QED BY <2>1, <2>2, WritesImage
<1>5. CASE SyncRename
  <2>1. dir' = dir /\ pers' = dir /\ ~Serving'
    BY <1>5 DEF SyncRename, Serving
  <2> QED BY <2>1, Settles DEF Possible
<1>6. CASE ClearIntent
  <2>1. dir'.state = dir.state /\ pers' = pers
    BY <1>0, <1>6, SetPending DEF ClearIntent, Step
  <2> QED BY <2>1, Keeps DEF Possible
<1>7. CASE SyncClear
  <2>1. dir.state = pers.state /\ dir' = dir /\ pers' = dir
    BY <1>7 DEF SyncClear, Gates
  <2> QED BY <2>1, Keeps DEF Possible
<1> QED BY <1>1, <1>2, <1>3, <1>4, <1>5, <1>6, <1>7 DEF PublishStep

LEMMA RegisterAfterRecovery ==
    ASSUME RegisterInv, DurableInv', RecoveryStep
    PROVE  Register!RegisterNext
<1> USE DEF RegisterInv, AuthorityInv, LineageInv, DurableInv, TypeInv
<1>0. dir \in Directory /\ cand \in Image \cup {None}
  BY DEF TypeOK
<1>1. CASE Adopt
  <2> DEFINE old == dir.pending.old
             next == dir.pending.next
  <2>1. dir.pending \in Pair /\ next \in Image /\ old \in Image /\ dir.state = old
    BY <1>1, PairFields DEF Adopt, Step, WellFormed, Authority
  <2>2. Rekeyed(old, next)
    BY <1>1, <2>1, NamesItsPredecessor
       DEF Adopt, Step, Authority, Lineage, AllDated, GatesDescend
  <2>3. dir'.state = next /\ pers' = pers
    BY <1>0, <1>1, <2>1, SetState DEF Adopt, Step
  <2>4. DataOf(dir'.state) = DataOf(dir.state)
    BY <2>1, <2>2, <2>3, ImageFields DEF Rekeyed, DataOf
  <2> QED BY <2>3, <2>4, Keeps DEF Possible
<1>2. CASE SyncAdopt
  <2>1. dir' = dir /\ pers' = dir /\ ~Serving'
    BY <1>2 DEF SyncAdopt, Step, Serving
  <2> QED BY <2>1, Settles DEF Possible
<1>3. CASE PlanRefused
  BY <1>3, Keeps DEF PlanRefused, disk, Possible
<1>4. CASE PlanResumed
  BY <1>4, Keeps DEF PlanResumed, disk, Possible
<1>5. CASE PlanWritten
  <2>1. Visible \in Image
    BY <1>5, VisibleType DEF PlanWritten, WellFormed
  <2>2. Visible.app \in App /\ Visible.seed \in Seeds /\ Visible.salt \in Nat
    BY <2>1, ImageFields
  <2>3. cand' \in Image
    BY <1>5, <2>2, SealType, SanitizeType DEF PlanWritten, TypeOK
  <2>4. [old |-> Visible, next |-> cand'] \in Pair
    BY <2>1, <2>3, MakePair
  <2>5. dir'.state = dir.state /\ pers' = pers
    BY <1>0, <1>5, <2>4, SetRecovery DEF PlanWritten
  <2> QED BY <2>5, Keeps DEF Possible
<1>6. CASE SyncPlan
  <2>1. dir' = dir /\ pers' = dir /\ ~Serving'
    BY <1>6 DEF SyncPlan, Step, Serving
  <2> QED BY <2>1, Settles DEF Possible
<1>7. CASE Install
  <2>1. dir'.state = cand /\ pers' = pers /\ ~Serving' /\ cand \in Image
    BY <1>0, <1>7, SetState DEF Install, Step, Serving, WellFormed, InstallSteps
  <2>2. IF dir.state = None THEN cand.app.data \in {0, 1} ELSE cand.app.data = dir.state.app.data
    BY <1>7 DEF Install, Step, Content
  <2>3. DataOf(cand) = cand.app.data
    BY <2>1, ImageFields DEF DataOf
  <2>4. CASE dir.state # None
    <3>1. DataOf(dir'.state) = DataOf(dir.state)
      BY <2>1, <2>2, <2>3, <2>4 DEF DataOf
    <3> QED BY <2>1, <3>1, Keeps DEF Possible
  <2>5. CASE dir.state = None
    <3>1. pers.state = None
      BY <2>5 DEF Lineage, OwnerDescends
    <3>2. Possible = {None} /\ Possible' \in {{None, 0}, {None, 1}}
      BY <2>1, <2>2, <2>3, <2>5, <3>1 DEF Possible, DataOf
    <3>3. Register!Write
      BY <2>1, <3>2 DEF Possible, Register!Write
    <3> QED BY <3>3 DEF Register!RegisterNext
  <2> QED BY <2>4, <2>5
<1>8. CASE SyncInstall
  <2>1. dir' = dir /\ pers' = dir /\ ~Serving'
    BY <1>8 DEF SyncInstall, Step, Serving
  <2> QED BY <2>1, Settles DEF Possible
<1>9. CASE DropIntent
  <2>1. dir'.state = dir.state /\ pers' = pers
    BY <1>0, <1>9, SetPending DEF DropIntent, Step
  <2> QED BY <2>1, Keeps DEF Possible
<1>10. CASE SyncDropIntent
  <2>1. dir' = dir /\ pers' = dir /\ ~Serving'
    BY <1>10 DEF SyncDropIntent, Step, Serving
  <2> QED BY <2>1, Settles DEF Possible
<1>11. CASE DropPlan
  <2>1. dir'.state = dir.state /\ pers' = pers
    BY <1>0, <1>11, SetRecovery DEF DropPlan, Step
  <2> QED BY <2>1, Keeps DEF Possible
<1>12. CASE Recovered
  <2>1. dir.state = pers.state /\ dir' = dir /\ pers' = dir
    BY <1>12 DEF Recovered, Gates
  <2> QED BY <2>1, Keeps DEF Possible
<1> QED BY <1>1, <1>2, <1>3, <1>4, <1>5, <1>6, <1>7, <1>8, <1>9, <1>10, <1>11, <1>12 DEF RecoveryStep

LEMMA RegisterAfterFault ==
    ASSUME RegisterInv, DurableInv', FaultStep \/ Close
    PROVE  Register!RegisterNext
<1> USE DEF RegisterInv, AuthorityInv, LineageInv, DurableInv, TypeInv
<1>1. CASE CandidateFails \/ ClearFails \/ Kill \/ Close
  BY <1>1, Keeps DEF CandidateFails, ClearFails, Kill, Close, disk, Possible
<1>2. CASE PublishFails
  <2>0. UNCHANGED pers /\ ~Serving'
    BY <1>2 DEF PublishFails, Unknown, Exit, Serving, Ready
  <2>1. CASE dir' = dir
    BY <2>0, <2>1, Keeps DEF Possible
  <2>2. CASE dir' # dir
    <3>1. dir' = [dir EXCEPT !.state = cand] /\ pc = "rename"
      BY <1>2, <2>2 DEF PublishFails
    <3>2. dir'.state = cand
      BY <3>1, SetState DEF TypeOK
    <3>3. /\ cand \in Image /\ cur \in Image \cup {None} /\ Publishes(cur, cand)
          /\ dir.state = cur /\ pers.state = cur
      BY <3>1 DEF TypeOK, WellFormed, PublishSteps, Lineage, OwnerDescends, Unsynced, Unrenamed
    <3> QED BY <2>0, <3>2, <3>3, WritesImage
  <2> QED BY <2>1, <2>2
<1>3. CASE LosePower
  <2>1. dir'.state \in {dir.state, pers.state} /\ pers' = dir' /\ ~Serving'
    BY <1>3, PowerLossEntries DEF LosePower, Exit, Serving
  <2> QED BY <2>1, Settles DEF Possible
<1> QED BY <1>1, <1>2, <1>3 DEF FaultStep

\* Publication, restart and recovery together implement a register whose
\* writes are atomic, whose doubt only narrows and which never serves a value
\* in doubt (storage.rs:235-293, 298-368, recovery.rs:214-271), through any
\* number of kills, I/O errors and power losses.
THEOREM StoreIsARegister == Spec => ImplementsRegister
<1>1. Init => Register!RegisterInit
  BY DEF Init, EmptyDirectory, Serving, DataOf, Register!RegisterInit
<1>2. ASSUME RegisterInv, RegisterInv', [Next]_vars
      PROVE  [Register!RegisterNext]_(Register!registerVars)
  <2>1. DurableInv /\ DurableInv'
    BY <1>2 DEF RegisterInv, AuthorityInv, LineageInv
  <2>2. CASE Call
    <3>1. UNCHANGED <<dir, pers>>
      BY <2>1, <2>2, CallStarts DEF Starts, Open, RecoverStart, disk
    <3> QED BY <2>1, <3>1, Keeps DEF Possible
  <2>3. CASE Next /\ ~Call
    BY <1>2, <2>1, <2>3, RegisterAfterPublish, RegisterAfterRecovery, RegisterAfterFault DEF Next
  <2>4. CASE UNCHANGED vars
    BY <2>4 DEF vars, Register!registerVars, Serving, Ready, DataOf
  <2> QED BY <1>2, <2>2, <2>3, <2>4
<1>3. Spec => []RegisterInv
  BY RegisterInitially, RegisterPreserved, PTL DEF Spec
<1> QED BY <1>1, <1>2, <1>3, PTL DEF Spec, ImplementsRegister, Register!RegisterSpec

=============================================================================
