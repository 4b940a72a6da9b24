------------------------------- MODULE Vault -------------------------------
(***************************************************************************)
(* One durable vault as its callers see it: storage.rs apply() and         *)
(* commit() around the policy core, the private use of secrets in          *)
(* storage/workflow.rs, restart, explicit recovery and restore.            *)
(*                                                                         *)
(* A publication is one step here; module Publication shows that it is     *)
(* atomic to everyone who can open the store.  An interrupted one is a     *)
(* crash that leaves a gate, before or after the step.  The owner runs one *)
(* call at a time (&mut self), so only time, crashes and the destination   *)
(* interleave with the two phases of use_secret.                           *)
(***************************************************************************)
EXTENDS Snapshot

CONSTANTS
    Contexts,              \* callers: [principal, admin, deadline]
    Approvals,             \* approvals the supervisor may issue: [id, task]
    Requests,              \* request identifiers
    Creations,             \* creations: [op, kind, fields]
    PatchFields,           \* sets of fields a patch writes
    Specs,                 \* grant specifications
    Outcomes,              \* signup states an agent reports
    Reads,                 \* reads: [permission, fields]
    Uses,                  \* private uses: [action, fields, destination]
    ClockPersistInterval,  \* CLOCK_PERSIST_INTERVAL
    MaxTime,               \* bound: time
    MaxFresh,              \* bound: identifiers drawn
    MaxRecords,            \* bound: records held at once
    MaxRevision,           \* bound: revision a mutation expects
    MaxGeneration,         \* bound: publications
    MaxCrashes,            \* bound: crashes and closings
    MaxRestores,           \* bound: restores from a backup
    ClockStepsBack         \* whether the trusted clock may step back

Statuses == {"accepted", "rejected", "human_required", "unknown"}

ASSUME VaultConstants ==
    /\ ClockPersistInterval \in Nat \ {0}
    /\ {MaxTime, MaxFresh, MaxRecords, MaxRevision, MaxGeneration, MaxCrashes, MaxRestores} \subseteq Nat
    /\ ClockStepsBack \in BOOLEAN
    /\ \A ctx \in Contexts : ctx.deadline \in Nat
    /\ \A approval \in Approvals :
        /\ approval.task.expiresAt \in Nat
        /\ approval.task.share # None => approval.task.share.expiresAt \in Nat
    /\ \A spec \in Specs : spec.expiresAt \in Nat
    /\ \A op \in Creations : op.op = "create"
    /\ None \notin Statuses /\ None \notin Nat
    /\ None \notin [id: Nat, ctx: Contexts, task: {approval.id : approval \in Approvals}, record: Nat,
                    use: Uses, handed: BOOLEAN]

VARIABLES
    app,         \* DurableVault.app
    disk,        \* the published image
    now,         \* the trusted clock
    up,          \* whether an owner is open
    gated,       \* whether an interrupted publication left its gate
    flight,      \* the use_secret call between its two publications, or None
    last,        \* what the last commit did
    fresh,       \* the next identifier
    crashes,     \* crashes so far
    restores,    \* restores so far
    backup,      \* an exported backup, or None
    work,        \* history of this store: requests that did work: [ctx, key, op, at, n]
    registered,  \* history: records whose registration was dispatched
    sent,        \* history: the last dispatch, or None
    renewed      \* history: tasks approved since the last recovery

owner == <<app, disk, last>>
history == <<work, registered, sent, renewed>>
vars == <<app, disk, now, up, gated, flight, last, fresh, crashes, restores, backup,
          work, registered, sent, renewed>>

Idle == up /\ flight = None

Init ==
    /\ app = NewApplication
    /\ disk = NewApplication
    /\ now = 1
    /\ up = TRUE
    /\ gated = FALSE
    /\ flight = None
    /\ last = "none"
    /\ fresh = 1
    /\ crashes = 0
    /\ restores = 0
    /\ backup = None
    /\ work = {}
    /\ registered = <<>>
    /\ sent = None
    /\ renewed = {}

-----------------------------------------------------------------------------
(* apply() and commit().                                                   *)

\* The clone an operation works on, compacted first when it is due.
Staged == IF ShouldCompact(app) THEN Compact(app) ELSE app

ClockOnly(candidate) == [candidate EXCEPT !.lastTime = app.lastTime] = app

\* Mutant: the persist interval is one step longer.
ClockDueLate(candidate) ==
    \/ disk.lastTime = 0 /\ candidate.lastTime # 0
    \/ disk.lastTime # 0 /\ candidate.lastTime > disk.lastTime + ClockPersistInterval

ClockDue(candidate) ==
    \/ disk.lastTime = 0 /\ candidate.lastTime # 0
    \/ disk.lastTime # 0 /\ candidate.lastTime >= disk.lastTime + ClockPersistInterval

Publishable(candidate) == [candidate EXCEPT !.generation = app.generation + 1]

\* An advance of the clock alone stays in memory until it is due; everything
\* else is validated and published.
Commit(candidate) ==
    LET quiet == ClockOnly(candidate) /\ ~ClockDue(candidate) /\ candidate.clockFrozen = disk.clockFrozen
    IN  \/ /\ quiet
           /\ app' = [app EXCEPT !.lastTime = candidate.lastTime]
           /\ last' = "memory"
           /\ UNCHANGED disk
        \/ ~quiet /\ \E valid \in {Validate(candidate)} :
            \/ /\ ~valid
               /\ last' = "invalid"
               /\ UNCHANGED <<app, disk>>
            \/ /\ valid
               /\ app.generation < MaxGeneration
               /\ app' = Publishable(candidate)
               /\ disk' = Publishable(candidate)
               /\ last' = "published"

-----------------------------------------------------------------------------
(* Calls between two publications.  Clocked is the staged value after the  *)
(* call sampled the trusted clock, Effective the time it decides by.       *)

Clocked == Clock(Staged, now)

\* Compaction leaves the clock alone.
Effective == EffectiveTime(app, now)

\* A call that is refused, or answered from a retained receipt, does nothing
\* else: commit() sees the clock and a due compaction only.
Observe ==
    /\ Idle
    /\ Commit(Clocked)
    /\ UNCHANGED <<now, up, gated, flight, fresh, crashes, restores, backup, history>>

Approve(ctx, id, t) ==
    /\ Idle
    /\ ClockAccepts(app, now)
    /\ MayApprove(Clocked, ctx, id, t, Effective)
    /\ Commit(ApproveTask(Clocked, id, t))
    /\ renewed' = IF last' = "published" THEN renewed \cup {id} ELSE renewed
    /\ UNCHANGED <<now, up, gated, flight, fresh, crashes, restores, backup, work, registered, sent>>

Revoke(ctx, id) ==
    /\ Idle
    /\ ClockAccepts(app, now)
    /\ MayRevokeTask(Clocked, ctx, id)
    /\ Commit(RevokeTask(Clocked, id))
    /\ UNCHANGED <<now, up, gated, flight, fresh, crashes, restores, backup, history>>

\* Operations that name a live revision; any other is refused by authorize().
OperationsOn(rid) ==
    LET revision == {app.records[rid].revision}
    IN  [op: {"patch"}, record: {rid}, expected: revision, fields: PatchFields]
            \cup [op: {"share"}, record: {rid}, expected: revision, grant: Specs]
            \cup [op: {"revoke"}, record: {rid}, expected: revision, grant: DOMAIN app.grants]
            \cup [op: {"report"}, record: {rid}, expected: revision, state: Outcomes]
            \cup [op: {"delete"}, record: {rid}, expected: revision]

Mutations ==
    Creations \cup UNION {OperationsOn(rid) : rid \in {r \in DOMAIN app.records :
                                                        app.records[r].revision < MaxRevision}}

MutateStep(a, ctx, tid, request, op) ==
    LET key == RequestKey(ctx, tid, request)
        at == Effective
    IN  /\ Idle /\ fresh < MaxFresh
        /\ op.op = "create" => Cardinality(DOMAIN app.records) < MaxRecords
        /\ ClockAccepts(app, now)
        /\ MutationAdmitted(a, ctx, tid, request, op, at)
        /\ Performable(a, ctx, tid, key, op, at)
        /\ Commit(Mutate(a, ctx, tid, request, op, at, fresh))
        /\ fresh' = IF op.op \in {"create", "share"} THEN fresh + 1 ELSE fresh
        /\ work' = IF last' = "published"
                   THEN work \cup {[ctx |-> ctx, key |-> key, op |-> op, at |-> at, n |-> fresh]}
                   ELSE work
        /\ UNCHANGED <<now, up, gated, flight, crashes, restores, backup, registered, sent, renewed>>

ReadStep(a, ctx, tid, rid, read) ==
    /\ Idle
    /\ ClockAccepts(app, now)
    /\ Select(a, ctx, tid, rid, read.fields, read.permission, {}, Effective)
    /\ Commit(Read(a, tid, rid, Effective))
    /\ UNCHANGED <<now, up, gated, flight, fresh, crashes, restores, backup, history>>

-----------------------------------------------------------------------------
(* use_secret: publish the intent, check again at the handoff, hand the    *)
(* secret to the destination, publish what came of it.                     *)

\* Mutant: a registration folded into the baseline is forgotten.
RegistrationListed(a, rid) ==
    \E d \in Values(a.deliveries) : d.record = rid /\ SealsRegister(d)

RegistrationSealed(a, rid) ==
    \/ Baseline(a, rid).registrationDispatched
    \/ \E d \in Values(a.deliveries) : d.record = rid /\ SealsRegister(d)

\* Mutant: a restored record may register.
UseAdmittedRestored(a, ctx, tid, rid, use, time) ==
    Select(a, ctx, tid, rid, use.fields, "secret_use", {use.destination}, time)

UseAdmitted(a, ctx, tid, rid, use, time) ==
    /\ Select(a, ctx, tid, rid, use.fields, "secret_use", {use.destination}, time)
    /\ use.action # "use" =>
        a.records[rid].kind = "login" /\ {"username", "password"} \subseteq use.fields
    /\ use.action = "register" => ~a.records[rid].restored

\* An identifier seen before is answered from its receipt or refused.
UseIsNew(a, key, rid, use) ==
    /\ key \notin DOMAIN a.requests
    /\ \A d \in Values(a.deliveries) : d.key # key
    /\ use.action = "register" => ~RegistrationSealed(a, rid)
    /\ Cardinality(DOMAIN a.deliveries) < Limit

SetSignup(a, rid, state) == [a EXCEPT !.records[rid].signup = state]

Intend(a, ctx, tid, rid, request, use, time) ==
    LET attempt == [task |-> tid, record |-> rid, version |-> a.records[rid].secretVersion,
                    destination |-> use.destination, fields |-> use.fields, status |-> None,
                    key |-> RequestKey(ctx, tid, request), action |-> use.action,
                    dispatched |-> TRUE, at |-> time]
        b == [a EXCEPT !.deliveries = Inserted(@, fresh, attempt)]
    IN  IF use.action = "register" THEN SetSignup(b, rid, "submitted") ELSE b

Prepare(a, ctx, tid, rid, request, use) ==
    LET at == Effective
    IN  /\ Idle /\ fresh < MaxFresh
        /\ ClockAccepts(app, now)
        /\ UseAdmitted(a, ctx, tid, rid, use, at)
        /\ UseIsNew(a, RequestKey(ctx, tid, request), rid, use)
        /\ Commit(Intend(a, ctx, tid, rid, request, use, at))
        /\ IF last' = "published"
           THEN /\ flight' = [id |-> fresh, ctx |-> ctx, task |-> tid, record |-> rid,
                              use |-> use, handed |-> FALSE]
                /\ fresh' = fresh + 1
           ELSE UNCHANGED <<flight, fresh>>
        /\ UNCHANGED <<now, up, gated, crashes, restores, backup, history>>

\* Mutant: the clock alone decides at the handoff.
HandoffUnchecked == ClockAccepts(app, now)

\* The clock is sampled again: the caller must still be allowed at this time.
HandoffAllowed ==
    /\ ClockAccepts(app, now)
    /\ Select(Clock(app, now), flight.ctx, flight.task, flight.record, flight.use.fields,
              "secret_use", {flight.use.destination}, EffectiveTime(app, now))

Handoff ==
    LET at == EffectiveTime(app, now)
        attempt == app.deliveries[flight.id]
    IN  /\ up /\ flight # None /\ ~flight.handed
        /\ HandoffAllowed
        /\ app' = Clock(app, now)
        /\ flight' = [flight EXCEPT !.handed = TRUE]
        /\ work' = work \cup {[ctx |-> flight.ctx, key |-> attempt.key, op |-> None, at |-> attempt.at,
                              n |-> flight.id]}
        /\ registered' = IF attempt.action = "register" THEN Append(registered, attempt.record) ELSE registered
        /\ sent' = [id |-> flight.id, preparedAt |-> attempt.at, at |-> at,
                    deadline |-> flight.ctx.deadline, expiresAt |-> app.tasks[attempt.task].expiresAt]
        /\ UNCHANGED <<disk, now, up, gated, last, fresh, crashes, restores, backup, renewed>>

\* The apply() that ends the call: it returns, or leaves the owner frozen.
Finish(candidate) ==
    /\ Commit(candidate)
    /\ up' = (last' = "published")
    /\ flight' = None

\* The clock that refused the handoff stays observed; apply() may compact.
Refuse ==
    LET a == Clock(app, now)
        b == [(IF ShouldCompact(a) THEN Compact(a) ELSE a)
                EXCEPT !.deliveries[flight.id].dispatched = FALSE,
                       !.deliveries[flight.id].status = "rejected"]
    IN  /\ up /\ flight # None /\ ~flight.handed
        /\ ~HandoffAllowed
        /\ Finish(IF flight.use.action = "register" THEN SetSignup(b, flight.record, "pending") ELSE b)
        /\ UNCHANGED <<now, gated, fresh, crashes, restores, backup, history>>

SignupAfter(action, status, signup) ==
    CASE action = "register" /\ status = "accepted" -> "reported_success"
      [] action = "register" /\ status # "accepted" -> status
      [] action = "login" /\ status = "accepted" -> "verified_login"
      [] OTHER -> signup

\* An adapter error is recorded as the status unknown.
Complete(status) ==
    LET rid == flight.record
        b == [Staged EXCEPT !.deliveries[flight.id].status = status,
                            !.records[rid].signup = SignupAfter(flight.use.action, status, @)]
    IN  /\ up /\ flight # None /\ flight.handed
        /\ Finish(Audit(b, [task |-> flight.task, record |-> rid, request |-> None, at |-> sent.at]))
        /\ UNCHANGED <<now, gated, fresh, crashes, restores, backup, history>>

-----------------------------------------------------------------------------
(* Restart, recovery, backup and restore.                                  *)

\* The owner ends, between two calls or in the middle of one.
Crash ==
    /\ up
    /\ crashes < MaxCrashes
    /\ crashes' = crashes + 1
    /\ up' = FALSE
    /\ gated' \in BOOLEAN
    /\ flight' = None
    /\ app' = disk
    /\ UNCHANGED <<disk, now, last, fresh, restores, backup, history>>

Open ==
    /\ ~up /\ ~gated
    /\ ~Unfinished(disk)
    /\ up' = TRUE
    /\ app' = disk
    /\ UNCHANGED <<disk, now, gated, flight, last, fresh, crashes, restores, backup, history>>

NeedsRecovery == gated \/ Unfinished(disk) \/ disk.clockFrozen

Recover ==
    /\ ~up /\ NeedsRecovery
    /\ Validate(Sanitize(disk, now))
    /\ disk.generation < MaxGeneration
    /\ disk' = Sanitize(disk, now)
    /\ app' = disk'
    /\ up' = TRUE
    /\ gated' = FALSE
    /\ last' = "recovered"
    /\ renewed' = {}
    /\ UNCHANGED <<now, flight, fresh, crashes, restores, backup, work, registered, sent>>

ExportBackup ==
    /\ Idle /\ ~app.clockFrozen
    /\ backup = None /\ restores < MaxRestores
    /\ backup' = app
    /\ UNCHANGED <<app, disk, now, up, gated, flight, last, fresh, crashes, restores, history>>

\* The copy is published in a fresh directory and used from then on.
Restore ==
    /\ ~up /\ backup # None
    /\ restores < MaxRestores
    /\ Validate(PrepareRestored(backup, now))
    /\ disk' = PrepareRestored(backup, now)
    /\ app' = disk'
    /\ up' = TRUE
    /\ gated' = FALSE
    /\ last' = "restored"
    /\ restores' = restores + 1
    /\ work' = {}
    /\ sent' = None
    /\ renewed' = {}
    /\ UNCHANGED <<now, flight, fresh, crashes, backup, registered>>

Tick ==
    /\ now < MaxTime
    /\ now' = now + 1
    /\ UNCHANGED <<owner, up, gated, flight, fresh, crashes, restores, backup, history>>

StepBack ==
    /\ ClockStepsBack
    /\ now' \in 1 .. now - 1
    /\ UNCHANGED <<owner, up, gated, flight, fresh, crashes, restores, backup, history>>

-----------------------------------------------------------------------------
Supervise ==
    \E ctx \in Contexts :
        \/ \E approval \in Approvals : Approve(ctx, approval.id, approval.task)
        \/ \E tid \in DOMAIN app.tasks : Revoke(ctx, tid)

\* task() refuses everybody else.
TasksOf(ctx) == {tid \in DOMAIN app.tasks : app.tasks[tid].principal = ctx.principal}

Agent ==
    \/ Observe
    \/ \E a \in {Clocked}, ctx \in Contexts : \E tid \in TasksOf(ctx) :
        \/ \E op \in Mutations, request \in Requests : MutateStep(a, ctx, tid, request, op)
        \/ \E rid \in DOMAIN app.records, read \in Reads : ReadStep(a, ctx, tid, rid, read)
        \/ \E rid \in DOMAIN app.records, request \in Requests, use \in Uses :
            Prepare(a, ctx, tid, rid, request, use)

Delivery ==
    \/ Handoff \/ Refuse
    \/ \E status \in Statuses : Complete(status)

Next ==
    \/ Supervise \/ Agent \/ Delivery
    \/ Crash \/ Open \/ Recover \/ ExportBackup \/ Restore
    \/ Tick \/ StepBack

Spec == Init /\ [][Next]_vars

-----------------------------------------------------------------------------
(* Properties.                                                             *)

\* storage.rs:337-368: between calls the owner's memory differs from the
\* published image only by a clock advance too small to be persisted.
MemoryIsDisk ==
    Idle => /\ [app EXCEPT !.lastTime = disk.lastTime] = disk
            /\ app.lastTime = 0 \/ app.lastTime < disk.lastTime + ClockPersistInterval

\* snapshot.rs:95-263 against mod.rs:498-767, workflow.rs:5-92 and
\* snapshot.rs:281-389: in a vault whose tasks are for one scope, no admitted
\* call, compaction included, stages a value that validate() then refuses.
CandidatesValid == last # "invalid"

\* A human's deletion or revocation of what another service or origin holds.
Strays(ctx, tid, op) ==
    /\ ctx.admin /\ op.op \in {"delete", "revoke"}
    /\ Clocked.tasks[tid].site # Clocked.records[op.record].site

StrayingStep ==
    \E ctx \in Contexts : \E tid \in TasksOf(ctx), op \in Mutations, request \in Requests :
        MutateStep(Clocked, ctx, tid, request, op) /\ Strays(ctx, tid, op)

\* mod.rs:606-636, snapshot.rs:154-157: authorize() compares a record's scope with
\* the task's in can(), which it does not ask for a human's deletion or
\* revocation; validate() compares it for every receipt. No other call is
\* admitted and then refused, whatever scopes the tasks have.
OnlyStrayingIsRefused ==
    [][last' = "invalid" => last = "invalid" \/ StrayingStep]_vars

\* Nothing that happened is inside its retry window any more, or under way.
Outdated(a) ==
    /\ \A cached \in Values(a.requests) : Stale(a, cached.at)
    /\ \A d \in Values(a.deliveries) : d.status # None /\ Stale(a, d.at)

\* README.md:15, snapshot.rs:281-379: "History outside the window is compacted
\* so the 10,000-entry collections can keep accepting work": a compaction after
\* a quiet window leaves no receipt, no delivery, no grant that ended, no
\* deleted record and at most one task that ended and nothing names.
HistoryIsFreed ==
    Idle /\ Outdated(app) /\ ShouldCompact(app) =>
        LET a == Staged
            Ended(tid) == tid \in a.revokedTasks \/ a.tasks[tid].expiresAt <= a.lastTime
            Over(g) == g.revoked \/ g.spec.expiresAt <= a.lastTime
        IN  /\ DOMAIN a.requests = {} /\ DOMAIN a.deliveries = {}
            /\ \A g \in Values(a.grants) : ~Over(g)
            /\ \A r \in Values(a.records) : ~r.deleted
            /\ Cardinality({tid \in DOMAIN a.tasks : Ended(tid) /\ ~Referenced(a, tid)}) <= 1

\* snapshot.rs:281-389: one compaction is enough, whatever the state: a second
\* one finds nothing to drop, and what the first leaves can be published.
CompactionSettles ==
    up => LET compacted == Compact(app) IN Compact(compacted) = compacted /\ Validate(compacted)

\* The call that pruned an identifier also used it again.
ReusesPruned ==
    \/ \E key \in DOMAIN disk.requests \cap DOMAIN disk'.requests : disk.requests[key] # disk'.requests[key]
    \/ \E tid \in DOMAIN disk.tasks \cap DOMAIN disk'.tasks : disk.tasks[tid] # disk'.tasks[tid]
    \/ \E tid \in disk.revokedTasks : tid \in DOMAIN disk'.tasks \ disk'.revokedTasks

Publishes == disk' # disk /\ last' = "published"

\* recovery.rs:32-108: were the publication interrupted, recovery would accept
\* the step from the published image to the next one, unless the step used an
\* identifier again that it had just pruned.
PublicationsRecoverable == [][Publishes /\ ~ReusesPruned => Transition(disk, disk')]_vars

\* README.md:14: "recover from ambiguous storage publication"; SECURITY.md:45:
\* "an authorized request using a pruned ID can perform new work".
EveryPublicationRecoverable == [][Publishes => Transition(disk, disk')]_vars

\* Who can read a secret now: the caller, its task and the record.
Readers ==
    {x \in [ctx: Contexts, task: DOMAIN app.tasks, record: DOMAIN app.records] :
        /\ ~app.clockFrozen
        /\ Select(app, x.ctx, x.task, x.record, {"password"}, "secret_read", {}, EffectiveTime(app, now))}

\* mod.rs:532-571, snapshot.rs:317-379: a reader appears only when its task is
\* approved, the record created or a grant on it issued; never by compaction, time or
\* anything done to another's access (Vault_share), nor, as ReadersConsented
\* of CandidateProofs adds, by a restart, recovery or restore.
AccessOnlyByConsent ==
    [][\A x \in Readers' \ Readers :
        \/ \E ctx \in Contexts, approval \in Approvals :
            approval.id = x.task /\ Approve(ctx, x.task, approval.task)
        \/ x.record \notin DOMAIN app.records
        \/ \E g \in DOMAIN app'.grants \ DOMAIN app.grants : app'.grants[g].record = x.record]_vars

\* mod.rs:558-571: who reads another's record does so while the creator's or a
\* human's task that shared it is alive, and never a deleted record.
DelegateNeedsIssuer ==
    \A x \in Readers :
        LET r == app.records[x.record] IN
        r.task # x.task =>
            /\ ~r.deleted
            /\ \E tid \in DOMAIN app.tasks \ app.revokedTasks :
                /\ EffectiveTime(app, now) < app.tasks[tid].expiresAt
                /\ tid = r.task \/ \E ctx \in Contexts : ctx.admin /\ ctx.principal = app.tasks[tid].principal

\* recovery.rs:110-124, backup.rs:10-26: after a recovery or a restore only
\* tasks approved since then read, and only through grants issued since then.
AuthorityIsRenewed ==
    \A x \in Readers :
        /\ x.task \in renewed
        /\ \/ app.records[x.record].task = x.task
           \/ \E g \in Values(app.grants) :
                g.record = x.record /\ ~g.revoked /\ g.issuerTask \in renewed

\* mod.rs:664-671, snapshot.rs:281-316: an identifier does work again only a
\* full retry window later, over restarts and compactions.
AtMostOncePerWindow ==
    \A v, w \in work :
        v.key = w.key /\ v # w => v.at + RetryWindow <= w.at \/ w.at + RetryWindow <= v.at

\* HARNESS-BRIDGE.md:55, mod.rs:664-671: an identical retry inside the window
\* that is still authorized finds its receipt, however the vault was compacted.
RetriesAnswered ==
    \A w \in work :
        (w.op # None /\ app.lastTime < w.at + RetryWindow
            /\ MutationAdmitted(Staged, w.ctx, w.key.task, w.key.id, w.op, Effective))
            => w.key \in DOMAIN Staged.requests /\ Staged.requests[w.key].fingerprint = w.op

\* workflow.rs:31-33, snapshot.rs:327-343, backup.rs:15: a record's registration
\* reaches the destination at most once, over crashes, recoveries, compactions
\* and restores.
RegisterOnce ==
    \A i, j \in DOMAIN registered : registered[i] = registered[j] => i = j

\* workflow.rs:5-71: a secret that left the process is on disk as a dispatched
\* attempt until its retry window has passed.
DispatchAccounted ==
    sent # None =>
        \/ sent.id \in DOMAIN disk.deliveries /\ disk.deliveries[sent.id].dispatched
        \/ disk.lastTime >= sent.preparedAt + RetryWindow

\* workflow.rs:45-67: nothing is handed over once the task or the session that
\* asked has expired, however long the publication of the intent took.
DispatchBeforeExpiry == sent # None => sent.at < sent.deadline /\ sent.at < sent.expiresAt

\* mod.rs:489-496, storage.rs:337-350: outside of human recovery and restore
\* the high-water mark goes back only by a restart, and then by less than the
\* persist interval; a larger loss leaves an unfinished delivery, so that the
\* store does not open without recovery.
HighWaterKept ==
    [][app'.lastTime < app.lastTime =>
        \/ ~up /\ up' /\ last' \in {"recovered", "restored"}
        \/ up /\ ~up' /\ (app.lastTime < app'.lastTime + ClockPersistInterval \/ Unfinished(disk))]_vars

\* SECURITY.md:63, recovery.rs:110-124: recovery can settle every unfinished
\* delivery the store may hold.
UnfinishedIsRecoverable ==
    Unfinished(disk) => Validate(Sanitize(disk, EffectiveTime(disk, now)))

\* SECURITY.md:43: "A larger backward step freezes access until human recovery."
FrozenClockIsRecoverable == disk.clockFrozen => Validate(Sanitize(disk, now))

=============================================================================
