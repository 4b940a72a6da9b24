------------------------- MODULE PublicationProofs -------------------------
(***************************************************************************)
(* Proofs about the store: its state stays well formed, an owner that      *)
(* serves holds exactly the durable image, and no confirmed operation is   *)
(* ever lost, for every number of images, faults and seeds.                *)
(***************************************************************************)
EXTENDS Publication, TLAPS

\* The steps of recover_at after its plan is decided.
InstallSteps == {"planSync", "install", "installSync", "dropIntent", "dropIntentSync",
                 "dropPlan", "dropPlanSync"}

\* What a process holds at each step, beyond its type.
WellFormed ==
    /\ pc \in PublishSteps \cup InstallSteps => cand \in Image
    /\ pc \in {"serving", "handoff", "clear", "clearSync"} => cur \in Image
    /\ pc \in PublishSteps /\ kind # "create" => cur \in Image
    /\ pc = "adopt" => dir.pending \in Pair
    /\ pc = "adoptSync" => dir.state \in Image
    /\ pc = "plan" => dir.state \in Image \/ (dir.state = None /\ dir.pending \in Pair)

TypeInv == TypeOK /\ WellFormed

\* The owner's memory is the image on disk: while it serves, at a handoff, and
\* until a publication writes its gate.
InMemory ==
    /\ ~PendingExists(dir)
    /\ dir.state = cur /\ pers.state = cur
    /\ cur.app = app

Owner ==
    /\ pc = "serving" /\ Ready => InMemory /\ ~app.unfinished
    /\ pc = "handoff" => InMemory /\ Ready
    /\ pc \in PublishSteps => Ready
    /\ pc = "intent" /\ kind # "create" =>
        InMemory /\ (kind # "complete" => ~app.unfinished)
    /\ pc \in PublishSteps /\ kind # "prepare" => ~cand.app.unfinished
    /\ pc \in InstallSteps => ~cand.app.unfinished
    /\ pc \in RecoverySteps => Ready
    /\ pc = "idle" => Ready /\ cur = None

\* Which gates are up at each step, and that an image which is not yet durable
\* is always behind one.
Gates ==
    /\ dir.state # pers.state => PendingExists(dir)
    /\ pc \in PublishSteps => dir.recovery = None
    /\ pc \in {"fill", "intentSync", "rename", "renameSync", "clear"} => dir.pending # None
    /\ pc = "intent" => dir.pending = None
    /\ pc = "clearSync" => dir.pending = None
    /\ pc \in {"clear", "clearSync"} => cur = cand /\ dir.state = cand /\ pers.state = cand
    /\ pc = "renameSync" => dir.state = cand
    /\ pc \in {"planSync", "install", "installSync", "dropIntent", "dropIntentSync", "dropPlan"} =>
        dir.recovery # None
    /\ pc = "installSync" => dir.state = cand
    /\ pc \in {"dropIntent", "dropIntentSync", "dropPlan", "dropPlanSync"} =>
        dir.state = cand /\ pers.state = cand
    /\ pc \in InstallSteps /\ ~hasPending => dir.pending = None
    /\ pc \in {"dropIntentSync", "dropPlan", "dropPlanSync"} => dir.pending = None
    /\ pc = "dropPlanSync" => dir.recovery = None

DurableInv == TypeInv /\ Owner /\ Gates

\* No image that can still become the state holds less than the confirmed one.
AtLeast(image, other) == image # None /\ image.app.data >= other.app.data

PairKeeps(pair) ==
    pair \in Pair =>
        /\ pair.old # None => AtLeast(pair.next, pair.old)
        /\ confirmed # None => AtLeast(pair.next, confirmed)

Monotone ==
    /\ confirmed # None => AtLeast(dir.state, confirmed) /\ AtLeast(pers.state, confirmed)
    /\ PairKeeps(dir.pending) /\ PairKeeps(pers.pending)
    /\ pc \in PublishSteps => (confirmed # None => AtLeast(cand, confirmed))
    /\ pc \in PublishSteps /\ cur # None => AtLeast(cand, cur)
    /\ pc \in {"intentSync", "rename", "renameSync", "clear"} => dir.pending \in Pair /\ dir.pending.next = cand
    /\ pc = "adoptSync" => dir.pending \in Pair /\ dir.state = dir.pending.next
    /\ pc \in InstallSteps => (confirmed # None => AtLeast(cand, confirmed))
    /\ pc \in {"planSync", "install", "installSync"} /\ dir.pending \in Pair => AtLeast(dir.pending.next, cand)

KeepInv == DurableInv /\ Monotone

-----------------------------------------------------------------------------
(* Types.                                                                  *)

LEMMA ImageFields ==
    ASSUME NEW i \in Image
    PROVE  i # None /\ i.id \in Nat /\ i.seed \in Seeds /\ i.salt \in Nat /\ i.app \in App
BY NoneAssumption DEF Image

LEMMA PairFields ==
    ASSUME NEW p \in Pair
    PROVE  p # None /\ p # Torn /\ p.old \in Image \cup {None} /\ p.next \in Image
BY NoneAssumption DEF Pair

LEMMA DirectoryFields ==
    ASSUME NEW d \in Directory
    PROVE  /\ d.state \in Image \cup {None}
           /\ d.pending \in Pair \cup {None, Torn}
           /\ d.recovery \in Pair \cup {None}
BY DEF Directory

\* Sealing well-formed content yields an image.
LEMMA SealType ==
    ASSUME images \in Nat, NEW a \in App, NEW s \in Seeds, NEW salt \in Nat
    PROVE  /\ Seal(a, s, salt) \in Image
           /\ Seal(a, s, salt).app = a
BY DEF Seal, Image

LEMMA InitialApps ==
    /\ DefaultApp \in App /\ ~DefaultApp.unfinished
    /\ RestoredApp \in App /\ ~RestoredApp.unfinished
BY DEF DefaultApp, RestoredApp, App, NoHash

LEMMA SuccessorType ==
    ASSUME NEW a \in App, NEW data \in Nat, NEW unfinished \in BOOLEAN,
           NEW clockFrozen \in BOOLEAN, NEW live \in BOOLEAN, NEW predecessor \in Nat
    PROVE  Successor(a, data, unfinished, clockFrozen, live, predecessor) \in App
BY DEF Successor, App

\* The image a recovery starts from.
LEMMA VisibleType ==
    ASSUME TypeOK, dir.state \in Image \/ (dir.state = None /\ dir.pending \in Pair)
    PROVE  Visible \in Image
BY NoneAssumption, PairFields, ImageFields DEF Visible

\* Replacing one entry of a directory leaves the other two.
LEMMA SetState ==
    ASSUME NEW d \in Directory, NEW x \in Image \cup {None}
    PROVE  LET e == [d EXCEPT !.state = x]
           IN  e \in Directory /\ e.state = x /\ e.pending = d.pending /\ e.recovery = d.recovery
BY DEF Directory

LEMMA SetPending ==
    ASSUME NEW d \in Directory, NEW x \in Pair \cup {None, Torn}
    PROVE  LET e == [d EXCEPT !.pending = x]
           IN  e \in Directory /\ e.pending = x /\ e.state = d.state /\ e.recovery = d.recovery
BY DEF Directory

LEMMA SetRecovery ==
    ASSUME NEW d \in Directory, NEW x \in Pair \cup {None}
    PROVE  LET e == [d EXCEPT !.recovery = x]
           IN  e \in Directory /\ e.recovery = x /\ e.state = d.state /\ e.pending = d.pending
BY DEF Directory

LEMMA MakePair ==
    ASSUME NEW o \in Image \cup {None}, NEW n \in Image
    PROVE  LET p == [old |-> o, next |-> n]
           IN  p \in Pair /\ p.old = o /\ p.next = n
BY DEF Pair

\* A power loss leaves a directory whose entries were visible or durable.
LEMMA PowerLossEntries ==
    ASSUME TypeOK, NEW d \in AfterPowerLoss
    PROVE  /\ d \in Directory
           /\ d.state \in {dir.state, pers.state}
           /\ d.pending \in {dir.pending, pers.pending}
           /\ d.recovery \in {dir.recovery, pers.recovery}
BY DirectoryFields DEF AfterPowerLoss, TypeOK, Directory

\* When the process ends, only what it leaves on disk is of interest.
LEMMA ExitType ==
    ASSUME Exit, dir' \in Directory, pers' \in Directory, images' \in Nat, faults' \in Nat,
           confirmed' \in Image \cup {None}
    PROVE  TypeInv'
BY InitialApps DEF Exit, TypeInv, TypeOK, WellFormed, PublishSteps, RecoverySteps, InstallSteps, Kinds

\* A successful system call that changes the directory to d.
LEMMA StepType ==
    ASSUME TypeOK, NEW from, NEW to, NEW d \in Directory, NEW p \in Directory, Step(from, to, d, p),
           to \in PublishSteps \cup RecoverySteps, confirmed' \in Image \cup {None}
    PROVE  TypeOK'
BY DEF Step, TypeOK, PublishSteps, RecoverySteps

\* What a call hands to publish_with, and what is published.
LEMMA PublishType ==
    ASSUME TypeOK, NEW k, NEW a \in App, NEW s \in Seeds, NEW salt \in Nat, Publish(k, a, s, salt)
    PROVE  /\ cand' \in Image /\ cand'.app = a
           /\ images' \in Nat /\ kind' = k /\ pc' = "intent"
           /\ ~PendingExists(dir) /\ ~blocked
BY SealType DEF Publish, TypeOK

\* The state of a vault that just started to publish.
LEMMA CallType ==
    ASSUME TypeInv, NEW k \in Kinds, NEW a \in App, NEW s \in Seeds, NEW salt \in Nat,
           Publish(k, a, s, salt), app' \in App, k # "create" => cur \in Image,
           UNCHANGED <<disk, faults, cur, seed, hasPending, blocked, frozen, confirmed>>
    PROVE  TypeInv'
<1>1. /\ cand' \in Image /\ images' \in Nat /\ kind' = k /\ pc' = "intent"
  BY PublishType DEF TypeInv
<1>2. TypeOK'
  BY <1>1 DEF TypeInv, TypeOK, disk, PublishSteps
<1>3. WellFormed'
  BY <1>1 DEF WellFormed, PublishSteps, InstallSteps
<1> QED BY <1>2, <1>3 DEF TypeInv

LEMMA AppFields ==
    ASSUME NEW a \in App
    PROVE  /\ a.generation \in Nat /\ a.data \in Nat /\ a.unfinished \in BOOLEAN
           /\ a.clockFrozen \in BOOLEAN /\ a.live \in BOOLEAN /\ a.restored \in BOOLEAN
           /\ a.predecessor \in Nat
BY DEF App

\* Every call leaves the state well formed.
LEMMA TypeAfterCall ==
    ASSUME TypeInv, Call
    PROVE  TypeInv'
<1> USE DEF TypeInv
<1>1. ASSUME NEW s \in Seeds, Open(s) PROVE TypeInv'
  <2>1. dir.state \in Image
    BY <1>1, DirectoryFields DEF Open, Unseals, TypeOK
  <2>2. app' \in App /\ cur' \in Image
    BY <1>1, <2>1, ImageFields DEF Open
  <2>3. TypeOK'
    BY <1>1, <2>2 DEF Open, TypeOK, disk
  <2> QED BY <1>1, <2>2, <2>3 DEF Open, WellFormed, PublishSteps, InstallSteps
<1>2. ASSUME NEW s \in Seeds, Rekey(s) PROVE TypeInv'
  <2>1. cur \in Image /\ app \in App /\ images + 1 \in Nat
    BY <1>2 DEF Rekey, WellFormed, TypeOK
  <2> DEFINE a == Successor(app, app.data, app.unfinished, app.clockFrozen, app.live, cur.id)
  <2>2. a \in App
    <3>1. /\ app.data \in Nat /\ app.unfinished \in BOOLEAN /\ app.clockFrozen \in BOOLEAN
          /\ app.live \in BOOLEAN /\ cur.id \in Nat
      BY <2>1, AppFields, ImageFields
    <3> QED BY <2>1, <3>1, SuccessorType
  <2> HIDE DEF a
  <2>3. Publish("rekey", a, s, images + 1)
    BY <1>2 DEF Rekey, a
  <2>4. app' \in App
    BY <1>2, <2>1 DEF Rekey
  <2> QED BY <1>2, <2>1, <2>2, <2>3, <2>4, CallType DEF Rekey, Kinds
<1>3. ASSUME NEW s \in Seeds, RecoverStart(s) PROVE TypeInv'
  <2>1. TypeOK'
    BY <1>3 DEF RecoverStart, TypeOK, disk, RecoverySteps, Kinds
  <2>2. pc' = "adopt" => dir.pending \in Pair
    BY <1>3, DirectoryFields DEF RecoverStart, AdoptAccepts, TypeOK
  <2>3. pc' = "plan" => dir.state \in Image \/ (dir.state = None /\ dir.pending \in Pair)
    BY <1>3, DirectoryFields DEF RecoverStart, AbsentInitialAccepts, Unseals, TypeOK
  <2> QED BY <1>3, <2>1, <2>2, <2>3 DEF RecoverStart, WellFormed, disk, PublishSteps, InstallSteps
<1>4. ASSUME NEW s \in Seeds, NEW a \in {DefaultApp, RestoredApp}, Create(s, a) PROVE TypeInv'
  <2>1. a \in App /\ images + 1 \in Nat
    BY InitialApps DEF TypeOK
  <2>2. Publish("create", a, s, images + 1) /\ app' = a
    BY <1>4 DEF Create
  <2> QED BY <1>4, <2>1, <2>2, CallType DEF Create, Kinds
<1>5. ASSUME NEW live \in BOOLEAN, NEW clockFrozen \in BOOLEAN, Operate(live, clockFrozen)
      PROVE  TypeInv'
  <2>1. cur \in Image /\ app \in App
    BY <1>5 DEF Operate, WellFormed, TypeOK
  <2> DEFINE a == Successor(app, app.data + 1, app.unfinished, clockFrozen, live, app.predecessor)
  <2>2. a \in App
    <3>1. /\ app.data + 1 \in Nat /\ app.unfinished \in BOOLEAN /\ app.clockFrozen \in BOOLEAN
          /\ app.live \in BOOLEAN /\ app.predecessor \in Nat
      BY <2>1, AppFields
    <3> QED BY <2>1, <3>1, SuccessorType
  <2> HIDE DEF a
  <2>3. Publish("op", a, cur.seed, cur.salt)
    BY <1>5 DEF Operate, a
  <2>4. cur.seed \in Seeds /\ cur.salt \in Nat
    BY <2>1, ImageFields
  <2>5. app' \in App
    BY <1>5, <2>1 DEF Operate
  <2> QED BY <1>5, <2>1, <2>2, <2>3, <2>4, <2>5, CallType DEF Operate, Kinds
<1>6. ASSUME Prepare PROVE TypeInv'
  <2>1. cur \in Image /\ app \in App
    BY <1>6 DEF Prepare, WellFormed, TypeOK
  <2> DEFINE a == Successor(app, app.data + 1, TRUE, app.clockFrozen, app.live, app.predecessor)
  <2>2. a \in App
    <3>1. /\ app.data + 1 \in Nat /\ app.unfinished \in BOOLEAN /\ app.clockFrozen \in BOOLEAN
          /\ app.live \in BOOLEAN /\ app.predecessor \in Nat
      BY <2>1, AppFields
    <3> QED BY <2>1, <3>1, SuccessorType
  <2> HIDE DEF a
  <2>3. Publish("prepare", a, cur.seed, cur.salt)
    BY <1>6 DEF Prepare, a
  <2>4. cur.seed \in Seeds /\ cur.salt \in Nat
    BY <2>1, ImageFields
  <2>5. app' \in App
    BY <1>6, <2>1 DEF Prepare
  <2> QED BY <1>6, <2>1, <2>2, <2>3, <2>4, <2>5, CallType DEF Prepare, Kinds
<1>7. ASSUME Complete PROVE TypeInv'
  <2>1. cur \in Image /\ app \in App
    BY <1>7 DEF Complete, WellFormed, TypeOK
  <2> DEFINE a == Successor(app, app.data + 1, FALSE, app.clockFrozen, app.live, app.predecessor)
  <2>2. a \in App
    <3>1. /\ app.data + 1 \in Nat /\ app.unfinished \in BOOLEAN /\ app.clockFrozen \in BOOLEAN
          /\ app.live \in BOOLEAN /\ app.predecessor \in Nat
      BY <2>1, AppFields
    <3> QED BY <2>1, <3>1, SuccessorType
  <2> HIDE DEF a
  <2>3. Publish("complete", a, cur.seed, cur.salt)
    BY <1>7 DEF Complete, a
  <2>4. cur.seed \in Seeds /\ cur.salt \in Nat
    BY <2>1, ImageFields
  <2>5. app' \in App
    BY <1>7, <2>1 DEF Complete
  <2> QED BY <1>7, <2>1, <2>2, <2>3, <2>4, <2>5, CallType DEF Complete, Kinds
<1> QED BY <1>1, <1>2, <1>3, <1>4, <1>5, <1>6, <1>7 DEF Call

\* The three results of publish_with leave the owner well formed.
LEMMA ResultType ==
    ASSUME TypeInv, pc \in PublishSteps, dir' \in Directory, pers' \in Directory,
           UNCHANGED <<images, confirmed>>, faults' \in Nat,
           \/ NotPublished
           \/ Unknown
           \/ pc \in {"clear", "clearSync"} /\ \E cleared \in BOOLEAN : Durable(cleared)
    PROVE  TypeInv'
<1> USE DEF TypeInv
<1>1. CASE Exit
  BY <1>1, ExitType DEF TypeOK
<1>2. CASE ~Exit /\ (NotPublished \/ Unknown)
  BY <1>2 DEF NotPublished, Unknown, TypeOK, WellFormed, PublishSteps, InstallSteps, Kinds
<1>3. ASSUME pc \in {"clear", "clearSync"}, NEW cleared \in BOOLEAN, Durable(cleared)
      PROVE  TypeInv'
  <2>1. app' \in App /\ cur' \in Image
    BY <1>3, ImageFields DEF Durable, WellFormed
  <2> QED BY <1>3, <2>1 DEF Durable, TypeOK, WellFormed, PublishSteps, InstallSteps, Kinds
<1> QED BY <1>1, <1>2, <1>3

LEMMA TypeAfterPublish ==
    ASSUME TypeInv, PublishStep
    PROVE  TypeInv'
<1> USE DEF TypeInv
<1>1. CASE CreateIntent
  <2>1. [dir EXCEPT !.pending = Torn] \in Directory
    BY SetPending DEF TypeOK
  <2> QED BY <1>1, <2>1, StepType
          DEF CreateIntent, Step, TypeOK, WellFormed, PublishSteps, InstallSteps
<1>2. CASE FillIntent
  <2>1. [old |-> cur, next |-> cand] \in Pair
    BY <1>2, MakePair DEF FillIntent, Step, TypeOK, WellFormed, PublishSteps
  <2>2. [dir EXCEPT !.pending = [old |-> cur, next |-> cand]] \in Directory
    BY <2>1, SetPending DEF TypeOK
  <2> QED BY <1>2, <2>2, StepType
          DEF FillIntent, Step, TypeOK, WellFormed, PublishSteps, InstallSteps
<1>3. CASE SyncIntent
  BY <1>3, StepType DEF SyncIntent, Step, TypeOK, WellFormed, PublishSteps, InstallSteps
<1>4. CASE Rename
  <2>1. [dir EXCEPT !.state = cand] \in Directory
    BY SetState DEF TypeOK
  <2> QED BY <1>4, <2>1, StepType DEF Rename, Step, TypeOK, WellFormed, PublishSteps, InstallSteps
<1>5. CASE SyncRename
  BY <1>5 DEF SyncRename, TypeOK, WellFormed, PublishSteps, InstallSteps
<1>6. CASE ClearIntent
  <2>1. [dir EXCEPT !.pending = None] \in Directory
    BY SetPending DEF TypeOK
  <2> QED BY <1>6, <2>1, StepType DEF ClearIntent, Step, TypeOK, WellFormed, PublishSteps, InstallSteps
<1>7. CASE SyncClear
  BY <1>7, ResultType DEF SyncClear, TypeOK, PublishSteps
<1> QED BY <1>1, <1>2, <1>3, <1>4, <1>5, <1>6, <1>7 DEF PublishStep

LEMMA SanitizeType ==
    ASSUME NEW a \in App
    PROVE  /\ Sanitize(a) \in App
           /\ Sanitize(a).data = a.data
           /\ Sanitize(a).unfinished = FALSE /\ Sanitize(a).live = FALSE
BY AppFields DEF Sanitize, Successor, App, NoHash

LEMMA TypeAfterRecovery ==
    ASSUME TypeInv, RecoveryStep
    PROVE  TypeInv'
<1> USE DEF TypeInv
<1>1. CASE Adopt
  <2>1. dir.pending.next \in Image
    BY <1>1, PairFields DEF Adopt, Step, WellFormed
  <2>2. LET e == [dir EXCEPT !.state = dir.pending.next]
        IN  e \in Directory /\ e.state = dir.pending.next
    BY <2>1, SetState DEF TypeOK
  <2> QED BY <1>1, <2>1, <2>2, StepType
          DEF Adopt, Step, TypeOK, WellFormed, PublishSteps, RecoverySteps, InstallSteps
<1>2. CASE SyncAdopt
  BY <1>2, StepType, DirectoryFields
     DEF SyncAdopt, Step, TypeOK, WellFormed, PublishSteps, RecoverySteps, InstallSteps
<1>3. CASE PlanRefused
  BY <1>3, ExitType DEF PlanRefused, TypeOK, disk
<1>4. CASE PlanResumed
  <2>1. dir.recovery.next \in Image
    BY <1>4, DirectoryFields, PairFields DEF PlanResumed, TypeOK
  <2> QED BY <1>4, <2>1
          DEF PlanResumed, TypeOK, disk, WellFormed, PublishSteps, RecoverySteps, InstallSteps
<1>5. CASE PlanWritten
  <2>1. Visible \in Image
    BY <1>5, VisibleType DEF PlanWritten, WellFormed
  <2>2. Visible.app \in App /\ Visible.seed \in Seeds /\ Visible.salt \in Nat
    BY <2>1, ImageFields
  <2>3. cand' \in Image
    BY <1>5, <2>2, SealType, SanitizeType DEF PlanWritten, TypeOK
  <2>4. [dir EXCEPT !.recovery = [old |-> Visible, next |-> cand']] \in Directory
    BY <2>1, <2>3, MakePair, SetRecovery DEF TypeOK
  <2> QED BY <1>5, <2>3, <2>4
          DEF PlanWritten, TypeOK, WellFormed, PublishSteps, RecoverySteps, InstallSteps
<1>6. CASE SyncPlan
  BY <1>6, StepType DEF SyncPlan, Step, TypeOK, WellFormed, PublishSteps, RecoverySteps, InstallSteps
<1>7. CASE Install
  <2>1. [dir EXCEPT !.state = cand] \in Directory
    BY SetState DEF TypeOK
  <2> QED BY <1>7, <2>1, StepType
          DEF Install, Step, TypeOK, WellFormed, PublishSteps, RecoverySteps, InstallSteps
<1>8. CASE SyncInstall
  BY <1>8, StepType DEF SyncInstall, Step, TypeOK, WellFormed, PublishSteps, RecoverySteps, InstallSteps
<1>9. CASE DropIntent
  <2>1. [dir EXCEPT !.pending = None] \in Directory
    BY SetPending DEF TypeOK
  <2> QED BY <1>9, <2>1, StepType
          DEF DropIntent, Step, TypeOK, WellFormed, PublishSteps, RecoverySteps, InstallSteps
<1>10. CASE SyncDropIntent
  BY <1>10, StepType
     DEF SyncDropIntent, Step, TypeOK, WellFormed, PublishSteps, RecoverySteps, InstallSteps
<1>11. CASE DropPlan
  <2>1. [dir EXCEPT !.recovery = None] \in Directory
    BY SetRecovery DEF TypeOK
  <2> QED BY <1>11, <2>1, StepType
          DEF DropPlan, Step, TypeOK, WellFormed, PublishSteps, RecoverySteps, InstallSteps
<1>12. CASE Recovered
  <2>1. cand \in Image /\ cand.app \in App
    BY <1>12, ImageFields DEF Recovered, WellFormed, InstallSteps
  <2> QED BY <1>12, <2>1 DEF Recovered, TypeOK, WellFormed, PublishSteps, InstallSteps, Kinds
<1> QED BY <1>1, <1>2, <1>3, <1>4, <1>5, <1>6, <1>7, <1>8, <1>9, <1>10, <1>11, <1>12 DEF RecoveryStep

LEMMA TypeAfterFault ==
    ASSUME TypeInv, FaultStep \/ Close
    PROVE  TypeInv'
<1> USE DEF TypeInv
<1>0. faults + 1 \in Nat
  BY DEF TypeOK
<1>1. CASE CandidateFails
  BY <1>0, <1>1, ResultType DEF CandidateFails, Fault, TypeOK, disk, PublishSteps
<1>2. CASE PublishFails
  <2>1. [dir EXCEPT !.state = cand] \in Directory
    BY SetState DEF TypeOK
  <2>2. dir' \in Directory /\ pers' \in Directory
    BY <1>2, <2>1 DEF PublishFails, TypeOK
  <2> QED BY <1>0, <1>2, <2>2, ResultType DEF PublishFails, Fault, PublishSteps
<1>3. CASE ClearFails
  BY <1>0, <1>3, ResultType DEF ClearFails, Fault, TypeOK, disk, PublishSteps
<1>4. CASE Kill
  BY <1>0, <1>4, ExitType DEF Kill, Fault, TypeOK, disk
<1>5. CASE LosePower
  BY <1>0, <1>5, ExitType, PowerLossEntries DEF LosePower, Fault, TypeOK
<1>6. CASE Close
  BY <1>6, ExitType DEF Close, TypeOK, disk
<1> QED BY <1>1, <1>2, <1>3, <1>4, <1>5, <1>6 DEF FaultStep

LEMMA TypeInitially == Init => TypeInv
<1> SUFFICES ASSUME Init PROVE TypeInv
  OBVIOUS
<1>1. EmptyDirectory \in Directory
  BY DEF EmptyDirectory, Directory
<1>2. TypeOK
  BY <1>1, InitialApps DEF Init, TypeOK, Kinds
<1>3. WellFormed
  BY DEF Init, WellFormed, PublishSteps, InstallSteps
<1> QED BY <1>2, <1>3 DEF TypeInv

LEMMA TypePreserved == TypeInv /\ [Next]_vars => TypeInv'
<1> SUFFICES ASSUME TypeInv, [Next]_vars PROVE TypeInv'
  OBVIOUS
<1>1. CASE Next
  BY <1>1, TypeAfterCall, TypeAfterPublish, TypeAfterRecovery, TypeAfterFault DEF Next
<1>2. CASE UNCHANGED vars
  BY <1>2 DEF vars, TypeInv, TypeOK, WellFormed
<1> QED BY <1>1, <1>2

\* In every reachable state the files have their types, an intent that may be
\* torn and a plan that may not, and the process holds what its step needs: a
\* candidate to publish or install, the current image while it serves, hands
\* over or replaces it, a whole intent to adopt, an image or a whole intent to
\* plan from (storage.rs:34-54, 235-293, recovery.rs:153-193, 214-271).
THEOREM TypeCorrect == Spec => [](TypeOK /\ WellFormed)
<1>1. TypeInv => TypeOK /\ WellFormed
  BY DEF TypeInv
<1> QED BY <1>1, TypeInitially, TypePreserved, PTL DEF Spec

-----------------------------------------------------------------------------
(* A serving owner holds the durable image.                                *)

\* A process that ends leaves only the rule that an image which is not
\* durable is behind a gate.
LEMMA ExitDurable ==
    ASSUME Exit, dir'.state # pers'.state => PendingExists(dir)'
    PROVE  Owner' /\ Gates'
BY DEF Exit, Owner, Gates, Ready, PublishSteps, RecoverySteps, InstallSteps

\* A call that starts to publish works on the durable image.
LEMMA CallDurable ==
    ASSUME DurableInv, NEW k, NEW a \in App, NEW s \in Seeds, NEW salt \in Nat,
           Publish(k, a, s, salt), Ready,
           k # "create" => InMemory /\ app' = app /\ (k # "complete" => ~app.unfinished),
           k # "prepare" => ~a.unfinished,
           UNCHANGED <<disk, faults, cur, seed, hasPending, blocked, frozen, confirmed>>
    PROVE  Owner' /\ Gates'
<1>1. /\ cand'.app = a /\ kind' = k /\ pc' = "intent"
      /\ dir.pending = None /\ dir.recovery = None
  BY PublishType DEF DurableInv, TypeInv, PendingExists
<1>2. Owner'
  BY <1>1 DEF Owner, Ready, InMemory, PendingExists, disk, PublishSteps, RecoverySteps, InstallSteps
<1>3. Gates'
  BY <1>1 DEF DurableInv, Gates, PendingExists, disk, PublishSteps, InstallSteps
<1> QED BY <1>2, <1>3

LEMMA DurableAfterCall ==
    ASSUME DurableInv, Call
    PROVE  Owner' /\ Gates'
<1> USE DEF DurableInv, TypeInv
<1>1. ASSUME NEW s \in Seeds, Open(s) PROVE Owner' /\ Gates'
  BY <1>1 DEF Open, Owner, Gates, Ready, InMemory, PendingExists, disk, PublishSteps, RecoverySteps, InstallSteps
<1>2. ASSUME NEW s \in Seeds, Rekey(s) PROVE Owner' /\ Gates'
  <2>1. /\ cur \in Image /\ app \in App /\ images + 1 \in Nat
        /\ Ready /\ InMemory /\ ~app.unfinished
    BY <1>2 DEF Rekey, WellFormed, TypeOK, Owner
  <2> DEFINE a == Successor(app, app.data, app.unfinished, app.clockFrozen, app.live, cur.id)
  <2>2. a \in App /\ ~a.unfinished
    BY <2>1, SuccessorType, AppFields, ImageFields DEF Successor
  <2> HIDE DEF a
  <2>3. Publish("rekey", a, s, images + 1) /\ app' = app
    BY <1>2 DEF Rekey, a
  <2> QED BY <1>2, <2>1, <2>2, <2>3, CallDurable DEF Rekey
<1>3. ASSUME NEW s \in Seeds, RecoverStart(s) PROVE Owner' /\ Gates'
  BY <1>3 DEF RecoverStart, Owner, Gates, Ready, PendingExists, disk, PublishSteps, RecoverySteps, InstallSteps
<1>4. ASSUME NEW s \in Seeds, NEW a \in {DefaultApp, RestoredApp}, Create(s, a) PROVE Owner' /\ Gates'
  <2>1. a \in App /\ images + 1 \in Nat /\ ~a.unfinished
    BY InitialApps DEF TypeOK
  <2>2. Publish("create", a, s, images + 1) /\ Ready
    BY <1>4 DEF Create, Owner
  <2> QED BY <1>4, <2>1, <2>2, CallDurable DEF Create
<1>5. ASSUME NEW live \in BOOLEAN, NEW clockFrozen \in BOOLEAN, Operate(live, clockFrozen)
      PROVE  Owner' /\ Gates'
  <2>1. /\ cur \in Image /\ cur.seed \in Seeds /\ cur.salt \in Nat
        /\ app \in App /\ Ready /\ InMemory /\ ~app.unfinished
    BY <1>5, ImageFields DEF Operate, WellFormed, TypeOK, Owner
  <2> DEFINE a == Successor(app, app.data + 1, app.unfinished, clockFrozen, live, app.predecessor)
  <2>2. a \in App /\ ~a.unfinished
    <3>1. app.data + 1 \in Nat /\ app.unfinished \in BOOLEAN /\ app.predecessor \in Nat
      BY <2>1, AppFields
    <3> QED BY <2>1, <3>1, SuccessorType DEF Successor
  <2> HIDE DEF a
  <2>3. Publish("op", a, cur.seed, cur.salt) /\ app' = app
    BY <1>5 DEF Operate, a
  <2> QED BY <1>5, <2>1, <2>2, <2>3, CallDurable DEF Operate
<1>6. ASSUME Prepare PROVE Owner' /\ Gates'
  <2>1. /\ cur \in Image /\ cur.seed \in Seeds /\ cur.salt \in Nat
        /\ app \in App /\ Ready /\ InMemory /\ ~app.unfinished
    BY <1>6, ImageFields DEF Prepare, WellFormed, TypeOK, Owner
  <2> DEFINE a == Successor(app, app.data + 1, TRUE, app.clockFrozen, app.live, app.predecessor)
  <2>2. a \in App
    <3>1. /\ app.data + 1 \in Nat /\ app.clockFrozen \in BOOLEAN /\ app.live \in BOOLEAN
          /\ app.predecessor \in Nat
      BY <2>1, AppFields
    <3> QED BY <2>1, <3>1, SuccessorType
  <2> HIDE DEF a
  <2>3. Publish("prepare", a, cur.seed, cur.salt) /\ app' = app
    BY <1>6 DEF Prepare, a
  <2> QED BY <1>6, <2>1, <2>2, <2>3, CallDurable DEF Prepare
<1>7. ASSUME Complete PROVE Owner' /\ Gates'
  <2>1. /\ cur \in Image /\ cur.seed \in Seeds /\ cur.salt \in Nat
        /\ app \in App /\ Ready /\ InMemory
    BY <1>7, ImageFields DEF Complete, WellFormed, TypeOK, Owner
  <2> DEFINE a == Successor(app, app.data + 1, FALSE, app.clockFrozen, app.live, app.predecessor)
  <2>2. a \in App /\ ~a.unfinished
    <3>1. /\ app.data + 1 \in Nat /\ app.clockFrozen \in BOOLEAN /\ app.live \in BOOLEAN
          /\ app.predecessor \in Nat
      BY <2>1, AppFields
    <3> QED BY <2>1, <3>1, SuccessorType DEF Successor
  <2> HIDE DEF a
  <2>3. Publish("complete", a, cur.seed, cur.salt) /\ app' = app
    BY <1>7 DEF Complete, a
  <2> QED BY <1>7, <2>1, <2>2, <2>3, CallDurable DEF Complete
<1> QED BY <1>1, <1>2, <1>3, <1>4, <1>5, <1>6, <1>7 DEF Call

LEMMA DurableAfterPublish ==
    ASSUME DurableInv, PublishStep
    PROVE  Owner' /\ Gates'
<1> USE DEF DurableInv, TypeInv, PublishSteps, RecoverySteps, InstallSteps
<1>0. dir \in Directory /\ cand \in Image \cup {None}
  BY DEF TypeOK
<1>1. CASE CreateIntent
  <2>1. dir'.state = dir.state /\ dir'.pending = Torn /\ dir'.recovery = dir.recovery
    BY <1>0, <1>1, SetPending DEF CreateIntent, Step
  <2> QED BY <1>1, <2>1, NoneAssumption DEF CreateIntent, Step, Owner, Gates, Ready, InMemory, PendingExists
<1>2. CASE FillIntent
  <2>1. [old |-> cur, next |-> cand] \in Pair
    BY <1>2, MakePair DEF FillIntent, Step, TypeOK, WellFormed
  <2>2. dir'.state = dir.state /\ dir'.pending \in Pair /\ dir'.recovery = dir.recovery
    BY <1>0, <1>2, <2>1, SetPending DEF FillIntent, Step
  <2> QED BY <1>2, <2>2, PairFields DEF FillIntent, Step, Owner, Gates, Ready, InMemory, PendingExists
<1>3. CASE SyncIntent
  BY <1>3 DEF SyncIntent, Step, Owner, Gates, Ready, InMemory, PendingExists
<1>4. CASE Rename
  <2>1. dir'.state = cand /\ dir'.pending = dir.pending /\ dir'.recovery = dir.recovery
    BY <1>0, <1>4, SetState DEF Rename, Step
  <2> QED BY <1>4, <2>1 DEF Rename, Step, Owner, Gates, Ready, InMemory, PendingExists
<1>5. CASE SyncRename
  BY <1>5 DEF SyncRename, Owner, Gates, Ready, InMemory, PendingExists
<1>6. CASE ClearIntent
  <2>1. dir'.state = dir.state /\ dir'.pending = None /\ dir'.recovery = dir.recovery
    BY <1>0, <1>6, SetPending DEF ClearIntent, Step
  <2> QED BY <1>6, <2>1 DEF ClearIntent, Step, Owner, Gates, Ready, InMemory, PendingExists
<1>7. CASE SyncClear
  BY <1>7 DEF SyncClear, Durable, Owner, Gates, Ready, InMemory, PendingExists
<1> QED BY <1>1, <1>2, <1>3, <1>4, <1>5, <1>6, <1>7 DEF PublishStep

LEMMA DurableAfterRecovery ==
    ASSUME DurableInv, RecoveryStep
    PROVE  Owner' /\ Gates'
<1> USE DEF DurableInv, TypeInv, PublishSteps, RecoverySteps, InstallSteps
<1>0. dir \in Directory /\ cand \in Image \cup {None}
  BY DEF TypeOK
<1>1. CASE Adopt
  <2>1. dir.pending \in Pair /\ dir.pending.next \in Image
    BY <1>1, PairFields DEF Adopt, Step, WellFormed
  <2>2. dir'.pending = dir.pending /\ dir'.recovery = dir.recovery /\ dir.pending # None
    BY <1>0, <1>1, <2>1, SetState, PairFields DEF Adopt, Step
  <2> QED BY <1>1, <2>2 DEF Adopt, Step, Owner, Gates, Ready, PendingExists
<1>2. CASE SyncAdopt
  BY <1>2 DEF SyncAdopt, Step, Owner, Gates, Ready, PendingExists
<1>3. CASE PlanRefused
  BY <1>3, ExitDurable DEF PlanRefused, Gates, PendingExists, disk
<1>4. CASE PlanResumed
  <2>1. dir.recovery.old \in Image
    BY <1>0, <1>4, DirectoryFields, PairFields DEF PlanResumed, ResumeAccepts, Unseals
  <2>2. ~cand'.app.unfinished
    BY <1>4, <2>1, ImageFields, SanitizeType DEF PlanResumed, ResumeAccepts
  <2> QED BY <1>4, <2>2 DEF PlanResumed, Owner, Gates, Ready, PendingExists, disk
<1>5. CASE PlanWritten
  <2>1. Visible \in Image
    BY <1>5, VisibleType DEF PlanWritten, WellFormed
  <2>2. Visible.app \in App /\ Visible.seed \in Seeds /\ Visible.salt \in Nat
    BY <2>1, ImageFields
  <2>3. cand' \in Image /\ ~cand'.app.unfinished
    BY <1>5, <2>2, SealType, SanitizeType, ZenonT(40) DEF PlanWritten, TypeOK
  <2>4. [old |-> Visible, next |-> cand'] \in Pair
    BY <2>1, <2>3, MakePair
  <2>5. dir'.state = dir.state /\ dir'.pending = dir.pending /\ dir'.recovery \in Pair
    BY <1>0, <1>5, <2>4, SetRecovery DEF PlanWritten
  <2> QED BY <1>5, <2>3, <2>5, PairFields DEF PlanWritten, Owner, Gates, Ready, PendingExists
<1>6. CASE SyncPlan
  BY <1>6 DEF SyncPlan, Step, Owner, Gates, Ready, PendingExists
<1>7. CASE Install
  <2>1. dir'.state = cand /\ dir'.pending = dir.pending /\ dir'.recovery = dir.recovery
    BY <1>0, <1>7, SetState DEF Install, Step
  <2> QED BY <1>7, <2>1 DEF Install, Step, Owner, Gates, Ready, PendingExists
<1>8. CASE SyncInstall
  BY <1>8 DEF SyncInstall, Step, Owner, Gates, Ready, PendingExists
<1>9. CASE DropIntent
  <2>1. dir'.state = dir.state /\ dir'.pending = None /\ dir'.recovery = dir.recovery
    BY <1>0, <1>9, SetPending DEF DropIntent, Step
  <2> QED BY <1>9, <2>1 DEF DropIntent, Step, Owner, Gates, Ready, PendingExists
<1>10. CASE SyncDropIntent
  BY <1>10 DEF SyncDropIntent, Step, Owner, Gates, Ready, PendingExists
<1>11. CASE DropPlan
  <2>1. dir'.state = dir.state /\ dir'.pending = dir.pending /\ dir'.recovery = None
    BY <1>0, <1>11, SetRecovery DEF DropPlan, Step
  <2> QED BY <1>11, <2>1 DEF DropPlan, Step, Owner, Gates, Ready, PendingExists
<1>12. CASE Recovered
  BY <1>12 DEF Recovered, Owner, Gates, Ready, InMemory, PendingExists
<1> QED BY <1>1, <1>2, <1>3, <1>4, <1>5, <1>6, <1>7, <1>8, <1>9, <1>10, <1>11, <1>12 DEF RecoveryStep

LEMMA DurableAfterFault ==
    ASSUME DurableInv, FaultStep \/ Close
    PROVE  Owner' /\ Gates'
<1> USE DEF DurableInv, TypeInv, PublishSteps, RecoverySteps, InstallSteps
<1>1. CASE CandidateFails
  <2>1. CASE Exit
    BY <1>1, <2>1, ExitDurable DEF CandidateFails, Gates, PendingExists, disk
  <2> QED BY <1>1, <2>1 DEF CandidateFails, NotPublished, Owner, Gates, Ready, InMemory, PendingExists, disk
<1>2. CASE PublishFails
  <2> DEFINE renamed == [dir EXCEPT !.state = cand]
  <2>0. renamed.pending = dir.pending /\ renamed.recovery = dir.recovery
    BY SetState DEF TypeOK
  <2> HIDE DEF renamed
  <2>1. /\ dir'.pending = dir.pending /\ dir'.recovery = dir.recovery
        /\ dir'.state # dir.state => dir.pending # None
    BY <1>2, <2>0 DEF PublishFails, Gates, renamed
  <2>2. dir'.state # pers'.state => PendingExists(dir)'
    BY <1>2, <2>1 DEF PublishFails, Gates, PendingExists
  <2>3. CASE Exit
    BY <2>2, <2>3, ExitDurable
  <2> QED BY <1>2, <2>2, <2>3 DEF PublishFails, Unknown, Owner, Gates, Ready
<1>3. CASE ClearFails
  BY <1>3 DEF ClearFails, Durable, Owner, Gates, Ready, PendingExists, disk
<1>4. CASE Kill
  BY <1>4, ExitDurable DEF Kill, Gates, PendingExists, disk
<1>5. CASE LosePower
  BY <1>5, ExitDurable DEF LosePower
<1>6. CASE Close
  BY <1>6, ExitDurable DEF Close, Gates, PendingExists, disk
<1> QED BY <1>1, <1>2, <1>3, <1>4, <1>5, <1>6 DEF FaultStep

LEMMA DurableInitially == Init => DurableInv
<1> SUFFICES ASSUME Init PROVE Owner /\ Gates
  BY TypeInitially DEF DurableInv
<1> QED BY DEF Init, EmptyDirectory, Owner, Gates, Ready, PublishSteps, RecoverySteps, InstallSteps

LEMMA DurablePreserved == DurableInv /\ [Next]_vars => DurableInv'
<1> SUFFICES ASSUME DurableInv, [Next]_vars PROVE Owner' /\ Gates'
  BY TypePreserved DEF DurableInv
<1>1. CASE Next
  BY <1>1, DurableAfterCall, DurableAfterPublish, DurableAfterRecovery, DurableAfterFault DEF Next
<1>2. CASE UNCHANGED vars
  BY <1>2 DEF vars, DurableInv, Owner, Gates, Ready, InMemory, PendingExists
<1> QED BY <1>1, <1>2

\* An owner that answers requests holds exactly the durable image, with no
\* gate visible and no delivery unfinished (storage.rs:235-293, 321-359),
\* through every kill, I/O error, power loss and recovery.
THEOREM ServingDurable == Spec => []ServingIsDurable
<1>1. Spec => []DurableInv
  BY DurableInitially, DurablePreserved, PTL DEF Spec
<1>2. DurableInv => ServingIsDurable
  BY ImageFields DEF DurableInv, TypeInv, WellFormed, Owner, InMemory, Serving, ServingIsDurable
<1> QED BY <1>1, <1>2, PTL

-----------------------------------------------------------------------------
(* No confirmed operation is ever lost.                                    *)

LEMMA AtLeastSelf ==
    ASSUME NEW i \in Image
    PROVE  AtLeast(i, i)
BY ImageFields, AppFields DEF AtLeast

LEMMA AtLeastTransitive ==
    ASSUME NEW i \in Image, NEW j \in Image, NEW k \in Image, AtLeast(i, j), AtLeast(j, k)
    PROVE  AtLeast(i, k)
BY ImageFields, AppFields DEF AtLeast

LEMMA AtLeastByData ==
    ASSUME NEW i \in Image, NEW j \in Image, i.app.data = j.app.data
    PROVE  AtLeast(i, j) /\ AtLeast(j, i)
BY ImageFields, AppFields DEF AtLeast

\* A process that ends leaves the rules about the directory.
LEMMA ExitMonotone ==
    ASSUME Exit, UNCHANGED confirmed,
           confirmed # None => AtLeast(dir'.state, confirmed) /\ AtLeast(pers'.state, confirmed),
           PairKeeps(dir'.pending), PairKeeps(pers'.pending)
    PROVE  Monotone'
BY DEF Exit, Monotone, PairKeeps, PublishSteps, InstallSteps

\* A call publishes at least what the store holds.
LEMMA CallMonotone ==
    ASSUME KeepInv, NEW k, NEW a \in App, NEW s \in Seeds, NEW salt \in Nat,
           Publish(k, a, s, salt),
           IF k = "create" THEN dir.state = None /\ cur = None
                           ELSE cur \in Image /\ dir.state = cur /\ a.data >= cur.app.data,
           UNCHANGED <<disk, faults, cur, seed, hasPending, blocked, frozen, confirmed>>
    PROVE  Monotone'
<1> USE DEF KeepInv, DurableInv, TypeInv
<1>1. cand' \in Image /\ cand'.app = a /\ pc' = "intent"
  BY PublishType
<1>2. k = "create" => confirmed = None
  BY DEF Monotone, AtLeast
<1>3. k # "create" => AtLeast(cand', cur)
  BY <1>1, ImageFields DEF AtLeast
<1>4. k # "create" /\ confirmed # None => AtLeast(cand', confirmed)
  <2>1. k # "create" /\ confirmed # None => AtLeast(cur, confirmed) /\ confirmed \in Image
    BY DEF Monotone, TypeOK
  <2> QED BY <1>1, <1>3, <2>1, AtLeastTransitive
<1> QED BY <1>1, <1>2, <1>3, <1>4 DEF Monotone, PairKeeps, disk, PublishSteps, InstallSteps

LEMMA MonotoneAfterCall ==
    ASSUME KeepInv, Call
    PROVE  Monotone'
<1> USE DEF KeepInv, DurableInv, TypeInv
<1>1. ASSUME NEW s \in Seeds, Open(s) PROVE Monotone'
  BY <1>1 DEF Open, Monotone, PairKeeps, disk, PublishSteps, InstallSteps
<1>2. ASSUME NEW s \in Seeds, Rekey(s) PROVE Monotone'
  <2>1. /\ cur \in Image /\ cur.app = app /\ dir.state = cur
        /\ app \in App /\ images + 1 \in Nat
    BY <1>2 DEF Rekey, WellFormed, TypeOK, Owner, InMemory
  <2> DEFINE a == Successor(app, app.data, app.unfinished, app.clockFrozen, app.live, cur.id)
  <2>2. a \in App /\ a.data >= cur.app.data
    BY <2>1, SuccessorType, AppFields, ImageFields DEF Successor
  <2> HIDE DEF a
  <2>3. Publish("rekey", a, s, images + 1)
    BY <1>2 DEF Rekey, a
  <2> QED BY <1>2, <2>1, <2>2, <2>3, CallMonotone DEF Rekey
<1>3. ASSUME NEW s \in Seeds, RecoverStart(s) PROVE Monotone'
  BY <1>3 DEF RecoverStart, Monotone, PairKeeps, disk, PublishSteps, InstallSteps
<1>4. ASSUME NEW s \in Seeds, NEW a \in {DefaultApp, RestoredApp}, Create(s, a) PROVE Monotone'
  <2>1. a \in App /\ images + 1 \in Nat
    BY InitialApps DEF TypeOK
  <2>2. Publish("create", a, s, images + 1) /\ dir.state = None /\ cur = None
    BY <1>4 DEF Create, Owner
  <2> QED BY <1>4, <2>1, <2>2, CallMonotone DEF Create
<1>5. ASSUME NEW live \in BOOLEAN, NEW clockFrozen \in BOOLEAN, Operate(live, clockFrozen)
      PROVE  Monotone'
  <2>1. /\ cur \in Image /\ cur.seed \in Seeds /\ cur.salt \in Nat
        /\ cur.app = app /\ dir.state = cur /\ app \in App
    BY <1>5, ImageFields DEF Operate, WellFormed, TypeOK, Owner, InMemory
  <2> DEFINE a == Successor(app, app.data + 1, app.unfinished, clockFrozen, live, app.predecessor)
  <2>2. a \in App /\ a.data >= cur.app.data
    <3>1. app.data + 1 \in Nat /\ app.unfinished \in BOOLEAN /\ app.predecessor \in Nat /\ app.data \in Nat
      BY <2>1, AppFields
    <3>2. a.data = app.data + 1
      BY DEF Successor
    <3>3. a \in App
      BY <2>1, <3>1, SuccessorType
    <3> HIDE DEF a
    <3> QED BY <2>1, <3>1, <3>2, <3>3
  <2> HIDE DEF a
  <2>3. Publish("op", a, cur.seed, cur.salt)
    BY <1>5 DEF Operate, a
  <2> QED BY <1>5, <2>1, <2>2, <2>3, CallMonotone DEF Operate
<1>6. ASSUME Prepare PROVE Monotone'
  <2>1. /\ cur \in Image /\ cur.seed \in Seeds /\ cur.salt \in Nat
        /\ cur.app = app /\ dir.state = cur /\ app \in App
    BY <1>6, ImageFields DEF Prepare, WellFormed, TypeOK, Owner, InMemory
  <2> DEFINE a == Successor(app, app.data + 1, TRUE, app.clockFrozen, app.live, app.predecessor)
  <2>2. a \in App /\ a.data >= cur.app.data
    <3>1. /\ app.data + 1 \in Nat /\ app.clockFrozen \in BOOLEAN /\ app.live \in BOOLEAN
          /\ app.predecessor \in Nat /\ app.data \in Nat
      BY <2>1, AppFields
    <3>2. a.data = app.data + 1
      BY DEF Successor
    <3>3. a \in App
      BY <2>1, <3>1, SuccessorType
    <3> HIDE DEF a
    <3> QED BY <2>1, <3>1, <3>2, <3>3
  <2> HIDE DEF a
  <2>3. Publish("prepare", a, cur.seed, cur.salt)
    BY <1>6 DEF Prepare, a
  <2> QED BY <1>6, <2>1, <2>2, <2>3, CallMonotone DEF Prepare
<1>7. ASSUME Complete PROVE Monotone'
  <2>1. /\ cur \in Image /\ cur.seed \in Seeds /\ cur.salt \in Nat
        /\ cur.app = app /\ dir.state = cur /\ app \in App
    BY <1>7, ImageFields DEF Complete, WellFormed, TypeOK, Owner, InMemory
  <2> DEFINE a == Successor(app, app.data + 1, FALSE, app.clockFrozen, app.live, app.predecessor)
  <2>2. a \in App /\ a.data >= cur.app.data
    <3>1. /\ app.data + 1 \in Nat /\ app.clockFrozen \in BOOLEAN /\ app.live \in BOOLEAN
          /\ app.predecessor \in Nat /\ app.data \in Nat
      BY <2>1, AppFields
    <3>2. a.data = app.data + 1
      BY DEF Successor
    <3>3. a \in App
      BY <2>1, <3>1, SuccessorType, ZenonT(40)
    <3> HIDE DEF a
    <3> QED BY <2>1, <3>1, <3>2, <3>3
  <2> HIDE DEF a
  <2>3. Publish("complete", a, cur.seed, cur.salt)
    BY <1>7 DEF Complete, a
  <2> QED BY <1>7, <2>1, <2>2, <2>3, CallMonotone DEF Complete
<1> QED BY <1>1, <1>2, <1>3, <1>4, <1>5, <1>6, <1>7 DEF Call

LEMMA MonotoneAfterPublish ==
    ASSUME KeepInv, PublishStep
    PROVE  Monotone'
<1> USE DEF KeepInv, DurableInv, TypeInv, PublishSteps, InstallSteps
<1>0. dir \in Directory /\ cand \in Image \cup {None} /\ confirmed \in Image \cup {None}
  BY DEF TypeOK
<1>1. CASE CreateIntent
  <2>1. dir'.state = dir.state /\ dir'.pending = Torn
    BY <1>0, <1>1, SetPending DEF CreateIntent, Step
  <2> QED BY <1>1, <2>1, NoneAssumption DEF CreateIntent, Step, Monotone, PairKeeps
<1>2. CASE FillIntent
  <2>1. cand \in Image /\ cur \in Image \cup {None}
    BY <1>2 DEF FillIntent, Step, TypeOK, WellFormed
  <2> DEFINE pair == [old |-> cur, next |-> cand]
  <2>2. pair \in Pair /\ pair.old = cur /\ pair.next = cand
    BY <2>1, MakePair
  <2> HIDE DEF pair
  <2>3. dir'.state = dir.state /\ dir'.pending = pair
    BY <1>0, <1>2, <2>2, SetPending DEF FillIntent, Step, pair
  <2>4. PairKeeps(pair)
    BY <1>2, <2>2 DEF FillIntent, Step, Monotone, PairKeeps
  <2> QED BY <1>2, <2>2, <2>3, <2>4 DEF FillIntent, Step, Monotone, PairKeeps
<1>3. CASE SyncIntent
  BY <1>3 DEF SyncIntent, Step, Monotone, PairKeeps
<1>4. CASE Rename
  <2>1. dir'.state = cand /\ dir'.pending = dir.pending
    BY <1>0, <1>4, SetState DEF Rename, Step
  <2> QED BY <1>4, <2>1 DEF Rename, Step, Monotone, PairKeeps
<1>5. CASE SyncRename
  <2>1. /\ cand \in Image /\ AtLeast(cand, cand) /\ dir.state = cand
        /\ dir.pending \in Pair /\ dir.pending.next = cand
    BY <1>5, AtLeastSelf DEF SyncRename, WellFormed, Gates, Monotone
  <2> QED BY <1>5, <2>1 DEF SyncRename, Monotone, PairKeeps
<1>6. CASE ClearIntent
  <2>1. dir'.state = dir.state /\ dir'.pending = None
    BY <1>0, <1>6, SetPending DEF ClearIntent, Step
  <2> QED BY <1>6, <2>1, NoneAssumption DEF ClearIntent, Step, Monotone, PairKeeps
<1>7. CASE SyncClear
  BY <1>7 DEF SyncClear, Durable, Monotone, PairKeeps
<1> QED BY <1>1, <1>2, <1>3, <1>4, <1>5, <1>6, <1>7 DEF PublishStep

\* The image a plan starts from holds what was confirmed, and a publication it
\* reconciles leads at least as far.
LEMMA PlanBase ==
    ASSUME KeepInv, pc = "plan", NEW base \in Image, NEW n \in Image,
           n.app.data = base.app.data, Visible.app.data = base.app.data,
           dir.pending # None => ValidatePending(seed, base)
    PROVE  /\ confirmed # None => AtLeast(n, confirmed)
           /\ dir.pending \in Pair => AtLeast(dir.pending.next, n)
<1> USE DEF KeepInv, DurableInv, TypeInv
<1>1. ASSUME confirmed # None PROVE AtLeast(n, confirmed)
  <2>1. dir.state \in Image /\ confirmed \in Image /\ AtLeast(dir.state, confirmed)
    BY <1>1, DirectoryFields DEF Monotone, TypeOK, AtLeast
  <2>2. n.app.data = dir.state.app.data
    BY <2>1, ImageFields DEF Visible
  <2> QED BY <2>1, <2>2, AtLeastByData, AtLeastTransitive
<1>2. ASSUME dir.pending \in Pair PROVE AtLeast(dir.pending.next, n)
  <2>1. /\ dir.pending.next \in Image /\ dir.pending.old \in Image \cup {None}
        /\ base \in {dir.pending.old, dir.pending.next}
    BY <1>2, PairFields DEF ValidatePending
  <2>2. AtLeast(dir.pending.next, base)
    BY <1>2, <2>1, AtLeastSelf, ImageFields DEF Monotone, PairKeeps
  <2> QED BY <2>1, <2>2, AtLeastByData, AtLeastTransitive
<1> QED BY <1>1, <1>2

LEMMA MonotoneAfterRecovery ==
    ASSUME KeepInv, RecoveryStep
    PROVE  Monotone'
<1> USE DEF KeepInv, DurableInv, TypeInv, PublishSteps, InstallSteps
<1>0. dir \in Directory /\ cand \in Image \cup {None} /\ confirmed \in Image \cup {None}
  BY DEF TypeOK
<1>1. CASE Adopt
  <2>1. dir.pending \in Pair /\ dir.pending.next \in Image
    BY <1>1, PairFields DEF Adopt, Step, WellFormed
  <2>2. dir'.state = dir.pending.next /\ dir'.pending = dir.pending
    BY <1>0, <1>1, <2>1, SetState DEF Adopt, Step
  <2> QED BY <1>1, <2>1, <2>2 DEF Adopt, Step, Monotone, PairKeeps
<1>2. CASE SyncAdopt
  <2>1. /\ dir.pending \in Pair /\ dir.state = dir.pending.next
        /\ dir.state \in Image /\ AtLeast(dir.state, dir.state)
    BY <1>2, AtLeastSelf DEF SyncAdopt, Step, WellFormed, Monotone
  <2> QED BY <1>2, <2>1 DEF SyncAdopt, Step, Monotone, PairKeeps
<1>3. CASE PlanRefused
  BY <1>3, ExitMonotone DEF PlanRefused, Monotone, disk
<1>4. CASE PlanResumed
  <2> DEFINE base == dir.recovery.old
             planned == dir.recovery.next
  <2>1. dir.recovery \in Pair
    BY <1>0, <1>4, DirectoryFields DEF PlanResumed
  <2>2. base \in Image /\ planned \in Image
    BY <1>4, <2>1, PairFields DEF PlanResumed, ResumeAccepts, Unseals
  <2>3. planned.app.data = base.app.data
    BY <1>4, <2>2, ImageFields, SanitizeType DEF PlanResumed, ResumeAccepts
  <2>4. Visible.app.data = base.app.data
    BY <1>4, <2>3 DEF PlanResumed, ResumeAccepts
  <2>5. dir.pending # None => ValidatePending(seed, base)
    BY <1>4 DEF PlanResumed, ResumeAccepts
  <2>6. /\ confirmed # None => AtLeast(planned, confirmed)
        /\ dir.pending \in Pair => AtLeast(dir.pending.next, planned)
    BY <1>4, <2>2, <2>3, <2>4, <2>5, PlanBase DEF PlanResumed
  <2> QED BY <1>4, <2>6 DEF PlanResumed, Monotone, PairKeeps, disk
<1>5. CASE PlanWritten
  <2>1. Visible \in Image
    BY <1>5, VisibleType DEF PlanWritten, WellFormed
  <2>2. Visible.app \in App /\ Visible.seed \in Seeds /\ Visible.salt \in Nat
    BY <2>1, ImageFields
  <2>3. cand' \in Image /\ cand'.app.data = Visible.app.data
    BY <1>5, <2>2, SealType, SanitizeType, ZenonT(40) DEF PlanWritten, TypeOK
  <2>4. [old |-> Visible, next |-> cand'] \in Pair
    BY <2>1, <2>3, MakePair
  <2>5. dir'.state = dir.state /\ dir'.pending = dir.pending
    BY <1>0, <1>5, <2>4, SetRecovery DEF PlanWritten
  <2>6. /\ confirmed # None => AtLeast(cand', confirmed)
        /\ dir.pending \in Pair => AtLeast(dir.pending.next, cand')
    BY <1>5, <2>1, <2>3, PlanBase DEF PlanWritten, FreshAccepts
  <2> QED BY <1>5, <2>5, <2>6 DEF PlanWritten, Monotone, PairKeeps
<1>6. CASE SyncPlan
  BY <1>6 DEF SyncPlan, Step, Monotone, PairKeeps
<1>7. CASE Install
  <2>1. dir'.state = cand /\ dir'.pending = dir.pending
    BY <1>0, <1>7, SetState DEF Install, Step
  <2> QED BY <1>7, <2>1 DEF Install, Step, Monotone, PairKeeps
<1>8. CASE SyncInstall
  <2>1. cand \in Image /\ AtLeast(cand, cand) /\ dir.state = cand
    BY <1>8, AtLeastSelf DEF SyncInstall, Step, WellFormed, Gates
  <2> QED BY <1>8, <2>1 DEF SyncInstall, Step, Monotone, PairKeeps
<1>9. CASE DropIntent
  <2>1. dir'.state = dir.state /\ dir'.pending = None
    BY <1>0, <1>9, SetPending DEF DropIntent, Step
  <2> QED BY <1>9, <2>1, NoneAssumption DEF DropIntent, Step, Monotone, PairKeeps
<1>10. CASE SyncDropIntent
  BY <1>10 DEF SyncDropIntent, Step, Monotone, PairKeeps
<1>11. CASE DropPlan
  <2>1. dir'.state = dir.state /\ dir'.pending = dir.pending
    BY <1>0, <1>11, SetRecovery DEF DropPlan, Step
  <2> QED BY <1>11, <2>1 DEF DropPlan, Step, Monotone, PairKeeps
<1>12. CASE Recovered
  BY <1>12 DEF Recovered, Monotone, PairKeeps
<1> QED BY <1>1, <1>2, <1>3, <1>4, <1>5, <1>6, <1>7, <1>8, <1>9, <1>10, <1>11, <1>12 DEF RecoveryStep

LEMMA MonotoneAfterFault ==
    ASSUME KeepInv, FaultStep \/ Close
    PROVE  Monotone'
<1> USE DEF KeepInv, DurableInv, TypeInv, PublishSteps, InstallSteps
<1>1. CASE CandidateFails
  <2>1. CASE Exit
    BY <1>1, <2>1, ExitMonotone DEF CandidateFails, Monotone, disk
  <2> QED BY <1>1, <2>1 DEF CandidateFails, NotPublished, Monotone, PairKeeps, disk
<1>2. CASE PublishFails
  <2> DEFINE renamed == [dir EXCEPT !.state = cand]
  <2>1. renamed.pending = dir.pending /\ renamed.state = cand
    BY SetState DEF TypeOK
  <2> HIDE DEF renamed
  <2>2. dir'.pending = dir.pending /\ (confirmed # None => AtLeast(dir'.state, confirmed))
    BY <1>2, <2>1 DEF PublishFails, Monotone, renamed
  <2>3. CASE Exit
    BY <1>2, <2>2, <2>3, ExitMonotone DEF PublishFails, Monotone
  <2> QED BY <1>2, <2>2, <2>3 DEF PublishFails, Unknown, Monotone, PairKeeps
<1>3. CASE ClearFails
  BY <1>3 DEF ClearFails, Durable, Monotone, PairKeeps, disk
<1>4. CASE Kill
  BY <1>4, ExitMonotone DEF Kill, Monotone, disk
<1>5. CASE LosePower
  BY <1>5, PowerLossEntries, ExitMonotone DEF LosePower, Monotone
<1>6. CASE Close
  BY <1>6, ExitMonotone DEF Close, Monotone, disk
<1> QED BY <1>1, <1>2, <1>3, <1>4, <1>5, <1>6 DEF FaultStep

LEMMA KeepInitially == Init => KeepInv
<1> SUFFICES ASSUME Init PROVE Monotone
  BY DurableInitially DEF KeepInv
<1> QED BY NoneAssumption DEF Init, EmptyDirectory, Monotone, PairKeeps, PublishSteps, InstallSteps

LEMMA KeepPreserved == KeepInv /\ [Next]_vars => KeepInv'
<1> SUFFICES ASSUME KeepInv, [Next]_vars PROVE Monotone'
  BY DurablePreserved DEF KeepInv
<1>1. CASE Next
  BY <1>1, MonotoneAfterCall, MonotoneAfterPublish, MonotoneAfterRecovery, MonotoneAfterFault DEF Next
<1>2. CASE UNCHANGED vars
  BY <1>2 DEF vars, KeepInv, Monotone, PairKeeps
<1> QED BY <1>1, <1>2

\* Once the sync of an image succeeded, whatever a later kill, power loss,
\* failed publication, re-key or recovery leaves behind still holds its
\* operations (storage.rs:272-292, recovery.rs:179-193, 254-265).
THEOREM NothingConfirmedIsLost == Spec => []ConfirmedNeverLost
<1>1. Spec => []KeepInv
  BY KeepInitially, KeepPreserved, PTL DEF Spec
<1>2. KeepInv => ConfirmedNeverLost
  BY PowerLossEntries DEF KeepInv, DurableInv, TypeInv, Monotone, AtLeast, ConfirmedNeverLost
<1> QED BY <1>1, <1>2, PTL

=============================================================================
