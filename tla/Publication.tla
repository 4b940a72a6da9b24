---------------------------- MODULE Publication ----------------------------
(***************************************************************************)
(* The encrypted store of one vault directory: the image STATE and the two *)
(* gates PENDING (publication intent) and RECOVERY (recovery plan), the    *)
(* exclusive owner that publishes through the intent gate, and the         *)
(* explicit recovery that resolves an interrupted publication, re-key or   *)
(* recovery.                                                               *)
(*                                                                         *)
(* Every system call that changes the directory is a step of its own, so a *)
(* killed process, an I/O error or a power loss can fall between any two.  *)
(* dir is what a process sees; pers is what the last successful directory  *)
(* sync made durable.  After a power loss each name independently shows    *)
(* its durable or its visible entry.                                       *)
(*                                                                         *)
(* An image is abstracted to its identity (every sealing draws a fresh     *)
(* nonce), its key (seed and salt) and the facts about the application     *)
(* that storage decides on; the content of the application is the counter  *)
(* data.  The content checks of transition() are in module Snapshot.       *)
(***************************************************************************)
EXTENDS Naturals

CONSTANTS
    Seeds,       \* mnemonics the human holds
    None,        \* an absent file, image or process
    Torn,        \* a gate file whose bytes are not a whole pair
    MaxImages,   \* bound: images ever sealed
    MaxFaults,   \* bound: kills, I/O errors and power losses
    PowerLoss    \* whether a fault may be a loss of power

ASSUME SeedsAssumption == Seeds # {}
ASSUME BoundsAssumption == MaxImages \in Nat /\ MaxFaults \in Nat
ASSUME PowerLossAssumption == PowerLoss \in BOOLEAN

NoHash == 0

(***************************************************************************)
(* What storage reads of an Application: generation; data, the number of   *)
(* operations it holds; unfinished, some delivery attempt has no status;   *)
(* clockFrozen; live, some task or grant still carries authority;          *)
(* restored, every record is marked restored; predecessor, the hash of the *)
(* ciphertext a re-key replaced.                                           *)
(***************************************************************************)
App == [generation: Nat, data: Nat, unfinished: BOOLEAN, clockFrozen: BOOLEAN,
        live: BOOLEAN, restored: BOOLEAN, predecessor: Nat]

\* A sealed image; id stands for its bytes, and for their hash.
Image == [id: Nat, seed: Seeds, salt: Nat, app: App]

\* A gate file: the image before and the image after.
Pair == [old: Image \cup {None}, next: Image]

Directory == [state: Image \cup {None}, pending: Pair \cup {None, Torn},
              recovery: Pair \cup {None}]

ASSUME NoneAssumption ==
    /\ None \notin Image /\ None \notin Pair /\ None \notin Seeds /\ None \notin Nat
    /\ Torn \notin Pair /\ Torn # None

DefaultApp == [generation |-> 1, data |-> 0, unfinished |-> FALSE,
               clockFrozen |-> FALSE, live |-> FALSE, restored |-> FALSE,
               predecessor |-> NoHash]

\* The next generation of a; records keep whether they were restored.
Successor(a, data, unfinished, clockFrozen, live, predecessor) ==
    [generation |-> a.generation + 1, data |-> data, unfinished |-> unfinished,
     clockFrozen |-> clockFrozen, live |-> live, restored |-> a.restored,
     predecessor |-> predecessor]

\* What prepare_restored leaves of a backup of generation 2.
RestoredApp == [DefaultApp EXCEPT !.generation = 3, !.data = 1, !.restored = TRUE]

VARIABLES
    dir,        \* the directory as processes see it
    pers,       \* the directory as of the last successful directory sync
    images,     \* number of images sealed so far
    faults,     \* number of faults so far
    pc,         \* where the process holding owner.lock is; "idle": nobody holds it
    kind,       \* the call that is publishing
    app,        \* DurableVault.app
    cur,        \* Store.current_image (its key is Store.key and Store.salt)
    cand,       \* the image being published or installed
    seed,       \* the mnemonic recover() was given
    hasPending, \* recover(): PENDING existed when the plan was decided
    blocked,    \* Store.blocked
    frozen,     \* DurableVault.frozen
    confirmed   \* history: the last image a sync of STATE confirmed

disk == <<dir, pers>>
process == <<pc, kind, app, cur, cand, seed, hasPending, blocked, frozen>>
vars == <<dir, pers, images, faults, pc, kind, app, cur, cand, seed,
          hasPending, blocked, frozen, confirmed>>

PublishSteps == {"intent", "fill", "intentSync", "rename", "renameSync", "clear", "clearSync"}
RecoverySteps == {"adopt", "adoptSync", "plan", "planSync", "install", "installSync",
                  "dropIntent", "dropIntentSync", "dropPlan", "dropPlanSync"}
Kinds == {"none", "create", "op", "prepare", "complete", "rekey", "recover"}

TypeOK ==
    /\ dir \in Directory
    /\ pers \in Directory
    /\ images \in Nat
    /\ faults \in Nat
    /\ pc \in {"idle", "serving", "handoff"} \cup PublishSteps \cup RecoverySteps
    /\ kind \in Kinds
    /\ app \in App
    /\ cur \in Image \cup {None}
    /\ cand \in Image \cup {None}
    /\ seed \in Seeds \cup {None}
    /\ hasPending \in BOOLEAN
    /\ blocked \in BOOLEAN
    /\ frozen \in BOOLEAN
    /\ confirmed \in Image \cup {None}

EmptyDirectory == [state |-> None, pending |-> None, recovery |-> None]

Init ==
    /\ dir = EmptyDirectory
    /\ pers = EmptyDirectory
    /\ images = 0
    /\ faults = 0
    /\ pc = "idle"
    /\ kind = "none"
    /\ app = DefaultApp
    /\ cur = None
    /\ cand = None
    /\ seed = None
    /\ hasPending = FALSE
    /\ blocked = FALSE
    /\ frozen = FALSE
    /\ confirmed = None

-----------------------------------------------------------------------------
(* Helpers of the store.                                                   *)

\* pending_exists: either gate, readable or not.
PendingExists(d) == d.pending # None \/ d.recovery # None

\* A fresh nonce makes every sealed image distinct.
Seal(a, s, salt) == [id |-> images + 1, seed |-> s, salt |-> salt, app |-> a]

\* Bound: a new call starts only below MaxImages; completing an attempt and
\* recovering are needed at most once per call and per fault.
CanSeal == images < MaxImages

Unseals(image, s) == image # None /\ image.seed = s

\* The process ends and releases owner.lock; what it held in memory is gone.
Exit ==
    /\ pc' = "idle"
    /\ kind' = "none"
    /\ app' = DefaultApp
    /\ cur' = None
    /\ cand' = None
    /\ seed' = None
    /\ hasPending' = FALSE
    /\ blocked' = FALSE
    /\ frozen' = FALSE

\* One successful system call of the running process: the directory becomes d,
\* what is durable becomes p, and the process goes on from step `from` to step `to`.
Step(from, to, d, p) ==
    /\ pc = from
    /\ pc' = to
    /\ dir' = d
    /\ pers' = p
    /\ UNCHANGED <<images, faults, kind, app, cur, cand, seed, hasPending, blocked, frozen>>

Fault ==
    /\ faults < MaxFaults
    /\ faults' = faults + 1

-----------------------------------------------------------------------------
(* Opening, and the start of a call that publishes.                        *)

Ready == ~frozen /\ ~blocked

Open(s) ==
    /\ pc = "idle"
    /\ ~PendingExists(dir)
    /\ Unseals(dir.state, s)
    /\ ~dir.state.app.unfinished
    /\ pc' = "serving"
    /\ app' = dir.state.app
    /\ cur' = dir.state
    /\ UNCHANGED <<disk, images, faults, kind, cand, seed, hasPending, blocked, frozen, confirmed>>

\* publish_with up to the candidate file: refused while gated, otherwise the
\* candidate is sealed and written under a private name.
Publish(k, a, s, salt) ==
    /\ ~blocked /\ ~PendingExists(dir)
    /\ cand' = Seal(a, s, salt)
    /\ images' = images + 1
    /\ kind' = k
    /\ pc' = "intent"

Create(s, a) ==
    /\ pc = "idle"
    /\ ~PendingExists(dir)
    /\ dir.state = None
    /\ CanSeal
    /\ Publish("create", a, s, images + 1)
    /\ app' = a
    /\ UNCHANGED <<disk, faults, cur, seed, hasPending, blocked, frozen, confirmed>>

\* apply() with an operation that changed more than the clock high-water.  A
\* frozen clock refuses every operation before it changes anything.
Operate(live, clockFrozen) ==
    /\ pc = "serving" /\ Ready /\ CanSeal
    /\ ~app.clockFrozen
    /\ Publish("op", Successor(app, app.data + 1, app.unfinished, clockFrozen, live, app.predecessor),
               cur.seed, cur.salt)
    /\ UNCHANGED <<disk, faults, app, cur, seed, hasPending, blocked, frozen, confirmed>>

\* First apply() of use_secret: the delivery intent, without a status.
Prepare ==
    /\ pc = "serving" /\ Ready /\ CanSeal
    /\ ~app.clockFrozen /\ app.live
    /\ Publish("prepare", Successor(app, app.data + 1, TRUE, app.clockFrozen, app.live, app.predecessor),
               cur.seed, cur.salt)
    /\ UNCHANGED <<disk, faults, app, cur, seed, hasPending, blocked, frozen, confirmed>>

\* Last apply() of use_secret, after the handoff was refused or came back.
Complete ==
    /\ pc = "handoff"
    /\ Publish("complete", Successor(app, app.data + 1, FALSE, app.clockFrozen, app.live, app.predecessor),
               cur.seed, cur.salt)
    /\ UNCHANGED <<disk, faults, app, cur, seed, hasPending, blocked, frozen, confirmed>>

\* The new image names the ciphertext it replaces; the salt is fresh.
Rekey(s) ==
    /\ pc = "serving" /\ Ready /\ CanSeal
    /\ Publish("rekey", Successor(app, app.data, app.unfinished, app.clockFrozen, app.live, cur.id),
               s, images + 1)
    /\ UNCHANGED <<disk, faults, app, cur, seed, hasPending, blocked, frozen, confirmed>>

-----------------------------------------------------------------------------
(* The three results of publish_with, as create, commit, rekey and         *)
(* use_secret take them.                                                   *)

\* Before any gate: the memory of the owner is still the durable image.  Only
\* use_secret freezes, because its attempt is left unfinished.
NotPublished ==
    IF kind = "create"
    THEN Exit
    ELSE /\ pc' = "serving"
         /\ kind' = "none"
         /\ cand' = None
         /\ frozen' = (kind = "complete")
         /\ UNCHANGED <<app, cur, seed, hasPending, blocked>>

\* Mutant: the owner goes on serving after an ambiguous publication.
UnknownIgnored ==
    IF kind = "create"
    THEN Exit
    ELSE /\ pc' = "serving"
         /\ kind' = "none"
         /\ cand' = None
         /\ UNCHANGED <<app, cur, seed, hasPending, blocked, frozen>>

Unknown ==
    IF kind = "create"
    THEN Exit
    ELSE /\ pc' = "serving"
         /\ kind' = "none"
         /\ cand' = None
         /\ blocked' = TRUE
         /\ frozen' = TRUE
         /\ UNCHANGED <<app, cur, seed, hasPending>>

\* Mutant: the sealed image is kept in place of the application.
DurableSealed(cleared) ==
    /\ pc' = IF kind = "prepare" /\ cleared THEN "handoff" ELSE "serving"
    /\ kind' = "none"
    /\ app' = cand
    /\ cand' = None
    /\ blocked' = ~cleared
    /\ frozen' = ~cleared
    /\ UNCHANGED <<cur, seed, hasPending>>

\* The image is durable; cleared says whether the intent was removed durably.
Durable(cleared) ==
    /\ pc' = IF kind = "prepare" /\ cleared THEN "handoff" ELSE "serving"
    /\ kind' = "none"
    /\ app' = cand.app
    /\ cand' = None
    /\ blocked' = ~cleared
    /\ frozen' = ~cleared
    /\ UNCHANGED <<cur, seed, hasPending>>

-----------------------------------------------------------------------------
(* publish_with, one step per system call after the candidate is written.  *)

\* The candidate could not be written: a definite prepublication failure.
CandidateFails ==
    /\ pc = "intent" /\ Fault
    /\ NotPublished
    /\ UNCHANGED <<disk, images, confirmed>>

CreateIntent ==
    Step("intent", "fill", [dir EXCEPT !.pending = Torn], pers) /\ UNCHANGED confirmed

\* Both images are written into the intent in place, then the file is synced.
FillIntent ==
    /\ Step("fill", "intentSync", [dir EXCEPT !.pending = [old |-> cur, next |-> cand]], pers)
    /\ UNCHANGED confirmed

\* Mutant: the directory is not synced after the intent is written.
SyncIntentSkipped == Step("intentSync", "rename", dir, pers) /\ UNCHANGED confirmed

SyncIntent == Step("intentSync", "rename", dir, dir) /\ UNCHANGED confirmed

Rename == Step("rename", "renameSync", [dir EXCEPT !.state = cand], pers) /\ UNCHANGED confirmed

\* Mutant: the directory is not synced after the rename.
SyncRenameSkipped ==
    /\ pc = "renameSync"
    /\ cur' = cand
    /\ confirmed' = cand
    /\ pc' = "clear"
    /\ UNCHANGED <<disk, images, faults, kind, app, cand, seed, hasPending, blocked, frozen>>

\* From here the store's image and key are the new ones.
SyncRename ==
    /\ pc = "renameSync"
    /\ pers' = dir
    /\ cur' = cand
    /\ confirmed' = cand
    /\ pc' = "clear"
    /\ UNCHANGED <<dir, images, faults, kind, app, cand, seed, hasPending, blocked, frozen>>

ClearIntent == Step("clear", "clearSync", [dir EXCEPT !.pending = None], pers) /\ UNCHANGED confirmed

SyncClear ==
    /\ pc = "clearSync"
    /\ pers' = dir
    /\ Durable(TRUE)
    /\ UNCHANGED <<dir, images, faults, confirmed>>

\* Mutant: a failed publication removes its intent.
PublishFailsClearing ==
    /\ pc \in {"intent", "fill", "intentSync", "rename", "renameSync"} /\ Fault
    /\ dir' = [dir EXCEPT !.pending = None]
    /\ Unknown
    /\ UNCHANGED <<pers, images, confirmed>>

\* Creating, writing or syncing the intent, the rename or its sync failed:
\* whatever is there keeps gating, and a rename that reports an error may have
\* happened all the same.
PublishFails ==
    /\ pc \in {"intent", "fill", "intentSync", "rename", "renameSync"} /\ Fault
    /\ dir' \in {dir} \cup {d \in {[dir EXCEPT !.state = cand]} : pc = "rename"}
    /\ Unknown
    /\ UNCHANGED <<pers, images, confirmed>>

\* Mutant: a failed cleanup does not block the owner.
ClearFailsIgnored ==
    /\ pc \in {"clear", "clearSync"} /\ Fault
    /\ Durable(TRUE)
    /\ UNCHANGED <<disk, images, confirmed>>

\* Cleanup failed after the image was confirmed: durable, but blocked.
ClearFails ==
    /\ pc \in {"clear", "clearSync"} /\ Fault
    /\ Durable(FALSE)
    /\ UNCHANGED <<disk, images, confirmed>>

-----------------------------------------------------------------------------
(* recover_at.                                                             *)

\* safe_initial_publication.
SafeInitial(a) ==
    \/ a.generation = 1 /\ a.data = 0 /\ ~a.clockFrozen
    \/ a.restored /\ ~a.live /\ ~a.unfinished

\* The storage part of transition(): one generation further, nothing lost.
Follows(old, next) == next.generation = old.generation + 1 /\ next.data >= old.data

ValidatePending(s, visible) ==
    LET old == dir.pending.old
        next == dir.pending.next
    IN  /\ dir.pending # Torn
        /\ Unseals(next, s)
        /\ IF old = None
           THEN SafeInitial(next.app)
           ELSE /\ ~Unseals(old, s) \/ next.salt # old.salt => next.app.predecessor = old.id
                /\ Unseals(old, s) => Follows(old.app, next.app)
        /\ visible \in {old, next}

Sanitize(a) == Successor(a, a.data, FALSE, FALSE, FALSE, NoHash)

\* adopt_rekeyed's checks, when STATE does not unseal with the seed.
AdoptAccepts(s) ==
    /\ dir.pending \notin {None, Torn}
    /\ dir.state \in {dir.pending.old, dir.pending.next}
    /\ Unseals(dir.pending.next, s)
    /\ dir.pending.next.app.predecessor = dir.pending.old.id

\* absent_initial_image.
AbsentInitialAccepts(s) ==
    /\ dir.pending \notin {None, Torn}
    /\ dir.pending.old = None
    /\ Unseals(dir.pending.next, s)
    /\ SafeInitial(dir.pending.next.app)

Visible == IF dir.state = None THEN dir.pending.next ELSE dir.state

\* Mutant: a plan whose image is already installed is refused.
ResumeAcceptsBase(s) ==
    /\ Unseals(dir.recovery.old, s) /\ Unseals(dir.recovery.next, s)
    /\ Visible = dir.recovery.old
    /\ dir.recovery.next.app = Sanitize(Visible.app)
    /\ dir.pending # None => ValidatePending(s, Visible)

\* The plan of an interrupted recovery is reused, never drawn up again.
ResumeAccepts(s) ==
    LET base == dir.recovery.old
        planned == dir.recovery.next
    IN  /\ Unseals(base, s) /\ Unseals(planned, s)
        /\ Visible.salt = base.salt /\ Visible.salt = planned.salt
        /\ Visible \in {base, planned}
        /\ planned.app = Sanitize(base.app)
        /\ dir.pending # None => ValidatePending(s, base)

FreshAccepts(s) ==
    /\ dir.pending # None \/ Visible.app.clockFrozen \/ Visible.app.unfinished
    /\ dir.pending # None => ValidatePending(s, Visible)

RecoverStart(s) ==
    /\ pc = "idle"
    /\ \/ Unseals(dir.state, s) /\ pc' = "plan"
       \/ dir.state = None /\ AbsentInitialAccepts(s) /\ pc' = "plan"
       \/ dir.state # None /\ ~Unseals(dir.state, s) /\ AdoptAccepts(s) /\ pc' = "adopt"
    /\ seed' = s
    /\ kind' = "recover"
    /\ UNCHANGED <<disk, images, faults, app, cur, cand, hasPending, blocked, frozen, confirmed>>

Adopt == Step("adopt", "adoptSync", [dir EXCEPT !.state = dir.pending.next], pers) /\ UNCHANGED confirmed

SyncAdopt == Step("adoptSync", "plan", dir, dir) /\ confirmed' = dir.state

PlanRefused ==
    /\ pc = "plan"
    /\ IF dir.recovery # None THEN ~ResumeAccepts(seed) ELSE ~FreshAccepts(seed)
    /\ Exit
    /\ UNCHANGED <<disk, images, faults, confirmed>>

PlanResumed ==
    /\ pc = "plan"
    /\ dir.recovery # None /\ ResumeAccepts(seed)
    /\ pc' = "install"
    /\ cand' = dir.recovery.next
    /\ hasPending' = (dir.pending # None)
    /\ UNCHANGED <<disk, images, faults, kind, app, cur, seed, blocked, frozen, confirmed>>

\* write_pair: written under a private name and renamed, so never torn.
PlanWritten ==
    /\ pc = "plan"
    /\ dir.recovery = None /\ FreshAccepts(seed)
    /\ cand' = Seal(Sanitize(Visible.app), Visible.seed, Visible.salt)
    /\ images' = images + 1
    /\ dir' = [dir EXCEPT !.recovery = [old |-> Visible, next |-> cand']]
    /\ hasPending' = (dir.pending # None)
    /\ pc' = "planSync"
    /\ UNCHANGED <<pers, faults, kind, app, cur, seed, blocked, frozen, confirmed>>

SyncPlan == Step("planSync", "install", dir, dir) /\ UNCHANGED confirmed

Install == Step("install", "installSync", [dir EXCEPT !.state = cand], pers) /\ UNCHANGED confirmed

\* Mutant: recovery forgets the intent it reconciled.
SyncInstallForgetful ==
    /\ Step("installSync", "dropPlan", dir, dir)
    /\ confirmed' = cand

\* Mutant: the directory is not synced after the plan is installed.
SyncInstallSkipped ==
    /\ Step("installSync", IF hasPending THEN "dropIntent" ELSE "dropPlan", dir, pers)
    /\ confirmed' = cand

SyncInstall ==
    /\ Step("installSync", IF hasPending THEN "dropIntent" ELSE "dropPlan", dir, dir)
    /\ confirmed' = cand

DropIntent ==
    Step("dropIntent", "dropIntentSync", [dir EXCEPT !.pending = None], pers) /\ UNCHANGED confirmed

SyncDropIntent == Step("dropIntentSync", "dropPlan", dir, dir) /\ UNCHANGED confirmed

DropPlan ==
    Step("dropPlan", "dropPlanSync", [dir EXCEPT !.recovery = None], pers) /\ UNCHANGED confirmed

Recovered ==
    /\ pc = "dropPlanSync"
    /\ pers' = dir
    /\ pc' = "serving"
    /\ kind' = "none"
    /\ app' = cand.app
    /\ cur' = cand
    /\ cand' = None
    /\ seed' = None
    /\ hasPending' = FALSE
    /\ UNCHANGED <<dir, images, faults, blocked, frozen, confirmed>>

-----------------------------------------------------------------------------
(* The environment.                                                        *)

\* The owner is closed between two calls.
Close ==
    /\ pc = "serving"
    /\ Exit
    /\ UNCHANGED <<disk, images, faults, confirmed>>

\* The process dies between two system calls.  An error inside recover_at
\* returns from it and leaves the directory the same way.
Kill ==
    /\ pc \notin {"idle", "serving"} /\ Fault
    /\ Exit
    /\ UNCHANGED <<disk, images, confirmed>>

\* Every directory a power loss may leave behind.
AfterPowerLoss ==
    [state: {dir.state, pers.state}, pending: {dir.pending, pers.pending},
     recovery: {dir.recovery, pers.recovery}]

LosePower ==
    /\ PowerLoss /\ Fault
    /\ dir' \in AfterPowerLoss
    /\ pers' = dir'
    /\ Exit
    /\ UNCHANGED <<images, confirmed>>

Call ==
    \/ \E s \in Seeds : Open(s) \/ Rekey(s) \/ RecoverStart(s)
    \/ \E s \in Seeds, a \in {DefaultApp, RestoredApp} : Create(s, a)
    \/ \E live, clockFrozen \in BOOLEAN : Operate(live, clockFrozen)
    \/ Prepare
    \/ Complete

PublishStep ==
    \/ CreateIntent \/ FillIntent \/ SyncIntent \/ Rename \/ SyncRename
    \/ ClearIntent \/ SyncClear

RecoveryStep ==
    \/ Adopt \/ SyncAdopt \/ PlanRefused \/ PlanResumed \/ PlanWritten \/ SyncPlan
    \/ Install \/ SyncInstall \/ DropIntent \/ SyncDropIntent \/ DropPlan \/ Recovered

FaultStep ==
    \/ CandidateFails \/ PublishFails \/ ClearFails \/ Kill \/ LosePower

Next == Call \/ PublishStep \/ RecoveryStep \/ Close \/ FaultStep

Spec == Init /\ [][Next]_vars

\* A process goes on unless something kills it, a serving owner ends at its
\* deadline, and a human who holds the seeds keeps trying to recover with each.
Fairness ==
    /\ WF_vars(PublishStep \/ RecoveryStep \/ Complete)
    /\ WF_vars(Close)
    /\ \A s \in Seeds : SF_vars(RecoverStart(s))

FairSpec == Spec /\ Fairness

-----------------------------------------------------------------------------
(* Properties.                                                             *)

Serving == pc = "serving" /\ Ready

\* storage.rs:235-293, 321-359: an owner that answers requests holds exactly
\* the image on disk, that image survives a power loss, no gate is visible,
\* and no delivery is left without a status.
ServingIsDurable ==
    Serving =>
        /\ ~PendingExists(dir)
        /\ dir.state = cur /\ pers.state = cur
        /\ cur # None /\ cur.app = app
        /\ ~app.unfinished

\* storage.rs:272-292: a directory without a gate holds exactly the last image
\* confirmed durable, wherever the process was killed.
UngatedIsConfirmed == ~PendingExists(dir) => dir.state = confirmed

\* storage.rs:121-134, 272-292, recovery.rs:110-124, 256-264: whatever a power
\* loss leaves behind, authority and unfinished deliveries that no gate guards
\* are those of the image confirmed last.  What an interrupted publication
\* granted does not count before it is confirmed, and what a recovery has
\* withdrawn or settled never comes back.
UngatedAuthorityIsConfirmed ==
    \A d \in AfterPowerLoss :
        ~PendingExists(d) /\ d.state # None /\ (d.state.app.live \/ d.state.app.unfinished) =>
            /\ confirmed # None /\ d.state.app.data = confirmed.app.data
            /\ d.state.app.live => confirmed.app.live
            /\ d.state.app.unfinished => confirmed.app.unfinished

\* storage.rs:272-292, recovery.rs:254-265: once an image was confirmed
\* durable, no kill, power loss or recovery takes its operations back.
ConfirmedNeverLost ==
    confirmed # None =>
        \A d \in AfterPowerLoss : d.state # None /\ d.state.app.data >= confirmed.app.data

\* Recovery with seed s would be accepted by every check before its first write.
Recoverable(s) ==
    \/ /\ Unseals(dir.state, s) \/ (dir.state = None /\ AbsentInitialAccepts(s))
       /\ IF dir.recovery # None THEN ResumeAccepts(s) ELSE FreshAccepts(s)
    \/ dir.state # None /\ ~Unseals(dir.state, s) /\ AdoptAccepts(s)

NeedsRecovery == PendingExists(dir) \/ (dir.state # None /\ dir.state.app.unfinished)

\* recovery.rs:153-176, 214-255: whenever no process holds the store and it
\* refuses to open, some seed the human holds passes recovery's checks, unless
\* the intent itself is torn.
WholeGateIsRecoverable ==
    pc = "idle" /\ NeedsRecovery /\ dir.pending # Torn => \E s \in Seeds : Recoverable(s)

\* SECURITY.md:27: "Ambiguity freezes access for explicit human recovery".
EveryGateIsRecoverable ==
    pc = "idle" /\ NeedsRecovery /\ dir.state # None => \E s \in Seeds : Recoverable(s)

DataOf(image) == IF image = None THEN None ELSE image.app.data

Register == INSTANCE DurableRegister
    WITH possible <- {DataOf(dir.state), DataOf(pers.state)},
         served <- IF Serving THEN app.data ELSE None

\* storage.rs:235-293, 298-368, recovery.rs:214-271: publication, restart and
\* recovery together implement a register whose writes are atomic, whose doubt
\* only narrows and which never serves a value in doubt.
ImplementsRegister == Register!RegisterSpec

\* recovery.rs:214-271: with finitely many faults, a gated store is eventually
\* cleared by the human who keeps recovering it (a torn intent apart).
RecoveryCompletes ==
    NeedsRecovery ~> (~NeedsRecovery \/ dir.pending = Torn)

=============================================================================
