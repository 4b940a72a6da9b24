------------------------------ MODULE Snapshot ------------------------------
(***************************************************************************)
(* What may be stored: agent/snapshot.rs compact() and validate(), and the *)
(* checks and rewrites of storage/recovery.rs and storage/backup.rs on the *)
(* content of an image.  Encoding is not modelled: an image holds the      *)
(* value itself.                                                           *)
(***************************************************************************)
EXTENDS Policy, FiniteSetsExt

CONSTANTS
    RetryWindow,    \* RETRY_WINDOW
    CompactAt,      \* COMPACT_AT
    CompactPeriod   \* generations between two periodic compactions

ASSUME SnapshotConstants ==
    /\ RetryWindow \in Nat \ {0}
    /\ CompactAt \in Nat \ {0}
    /\ CompactPeriod \in Nat \ {0}

NoBaseline == [through |-> 0, secretVersion |-> 0, deletePruned |-> FALSE, prunedGrants |-> {},
               registrationDispatched |-> FALSE, verifiedLogin |-> FALSE]

Baseline(a, rid) == IF rid \in DOMAIN a.baselines THEN a.baselines[rid] ELSE NoBaseline

\* Mutant: the retry window closes one step early.
StaleEarly(a, at) == a.lastTime + 1 >= at + RetryWindow

Stale(a, at) == a.lastTime >= at + RetryWindow

\* The collections whose growth makes compaction due.
HotSizes(a) ==
    {Cardinality(DOMAIN a.tasks), Cardinality(DOMAIN a.records), Cardinality(DOMAIN a.grants),
     Cardinality(DOMAIN a.requests), Cardinality(a.revokedTasks), Cardinality(DOMAIN a.deliveries)}

ShouldCompact(a) ==
    \/ \E n \in HotSizes(a) : n >= CompactAt
    \/ a.generation >= CompactPeriod /\ a.generation % CompactPeriod = 0
    \/ \E cached \in Values(a.requests) : Stale(a, cached.at)
    \/ \E d \in Values(a.deliveries) : d.status # None /\ Stale(a, d.at)

-----------------------------------------------------------------------------
(* compact(), one stage after the other.                                   *)

Receipts(a, rid) == {k \in DOMAIN a.requests : a.requests[k].record = rid}

\* Mutant: one stale receipt takes the record's fresh ones with it.
FoldedWhole(a, rid) ==
    {k \in Receipts(a, rid) : \E l \in Receipts(a, rid) : Stale(a, a.requests[l].at)}

\* Mutant: folding looks for the baseline's own last revision again.
FoldedAgain(a, rid) ==
    {k \in Receipts(a, rid) :
        \A n \in Baseline(a, rid).through .. a.requests[k].revision :
            \E l \in Receipts(a, rid) : a.requests[l].revision = n /\ Stale(a, a.requests[l].at)}

\* The stale receipts that extend the baseline's prefix without a gap.
Folded(a, rid) ==
    {k \in Receipts(a, rid) :
        \A n \in Baseline(a, rid).through + 1 .. a.requests[k].revision :
            \E l \in Receipts(a, rid) : a.requests[l].revision = n /\ Stale(a, a.requests[l].at)}

FoldedBaseline(a, rid) ==
    LET base == Baseline(a, rid)
        folded == {a.requests[k] : k \in Folded(a, rid)}
        OfKind(kind) == {c \in folded : c.kind = kind}
    IN  IF folded = {} THEN base ELSE
        [base EXCEPT
            !.through = Max({c.revision : c \in folded}),
            !.secretVersion = (IF OfKind("create") # {} THEN 1 ELSE @) + Cardinality(OfKind("patch")),
            !.deletePruned = @ \/ OfKind("delete") # {},
            !.prunedGrants = @ \cup {c.grant : c \in OfKind("share")}]

FoldReceipts(a) ==
    [a EXCEPT !.baselines = [rid \in DOMAIN a.records |-> FoldedBaseline(a, rid)],
              !.requests = Restrict(@, DOMAIN @ \ UNION {Folded(a, rid) : rid \in DOMAIN a.records})]

DropGrants(a) ==
    LET dropped == {g \in DOMAIN a.grants :
                        /\ a.grants[g].revoked \/ a.grants[g].spec.expiresAt <= a.lastTime
                        /\ \A cached \in Values(a.requests) : cached.grant # g}
    IN  [a EXCEPT !.grants = Restrict(@, DOMAIN @ \ dropped),
                  !.baselines = [rid \in DOMAIN a.baselines |->
                      [a.baselines[rid] EXCEPT !.prunedGrants = @ \ dropped]]]

SealsRegister(d) == d.action = "register" /\ d.dispatched

SealsLogin(a, d) ==
    /\ d.action = "login" /\ d.dispatched /\ d.status = "accepted"
    /\ a.records[d.record].signup = "verified_login"
    /\ d.version = a.records[d.record].secretVersion

\* Mutant: a finished delivery is dropped inside its retry window.
DropFinished(a) ==
    [a EXCEPT !.deliveries = Restrict(@, {d \in DOMAIN @ : @[d].status = None})]

\* What a dropped delivery proved about its record stays in the baseline.
DropDeliveries(a) ==
    LET dropped == {d \in DOMAIN a.deliveries :
                        a.deliveries[d].status # None /\ Stale(a, a.deliveries[d].at)}
        Of(rid) == {d \in Values(Restrict(a.deliveries, dropped)) : d.record = rid}
    IN  [a EXCEPT !.deliveries = Restrict(@, DOMAIN @ \ dropped),
                  !.baselines = [rid \in DOMAIN a.baselines |-> [a.baselines[rid] EXCEPT
                      !.registrationDispatched = @ \/ \E d \in Of(rid) : SealsRegister(d),
                      !.verifiedLogin = @ \/ \E d \in Of(rid) : SealsLogin(a, d)]]]

DropRecords(a) ==
    LET kept == {rid \in DOMAIN a.records :
                    \/ ~a.records[rid].deleted
                    \/ \E g \in Values(a.grants) : g.record = rid
                    \/ \E d \in Values(a.deliveries) : d.record = rid
                    \/ Receipts(a, rid) # {}}
    IN  [a EXCEPT !.records = Restrict(@, kept), !.baselines = Restrict(@, kept)]

Referenced(a, tid) ==
    \/ \E r \in Values(a.records) : r.task = tid
    \/ \E g \in Values(a.grants) : g.issuerTask = tid
    \/ \E d \in Values(a.deliveries) : d.task = tid
    \/ \E key \in DOMAIN a.requests : key.task = tid

\* Mutant: pruning forgets that a task still referenced was revoked.
DropTasksForgetful(a) ==
    LET dead == {tid \in DOMAIN a.tasks :
                    /\ ~Referenced(a, tid)
                    /\ tid \in a.revokedTasks \/ a.tasks[tid].expiresAt <= a.lastTime}
        kept == IF dead = DOMAIN a.tasks THEN dead ELSE DOMAIN a.tasks \ dead
    IN  [a EXCEPT !.tasks = Restrict(@, kept), !.revokedTasks = @ \cap dead \cap kept]

\* One task is always kept: it binds the vault to its owner and workspace.
DropTasks(a) ==
    LET dead == {tid \in DOMAIN a.tasks :
                    /\ ~Referenced(a, tid)
                    /\ tid \in a.revokedTasks \/ a.tasks[tid].expiresAt <= a.lastTime}
        kept == IF dead = DOMAIN a.tasks /\ dead # {}
                THEN {CHOOSE tid \in dead : \A u \in dead : a.tasks[u].expiresAt <= a.tasks[tid].expiresAt}
                ELSE DOMAIN a.tasks \ dead
    IN  [a EXCEPT !.tasks = Restrict(@, kept), !.revokedTasks = @ \cap kept]

\* An event is kept while its task, its record and its receipt are.
EventSupported(a, e) ==
    /\ e.task \in DOMAIN a.tasks
    /\ e.record \in DOMAIN a.records
    /\ e.request # None =>
        LET key == [principal |-> a.tasks[e.task].principal, task |-> e.task, id |-> e.request]
        IN  key \in DOMAIN a.requests /\ a.requests[key].record = e.record

Supported(a) == {i \in DOMAIN a.audit : EventSupported(a, a.audit[i])}

\* What a sequence holds at the places in K, in order.
At(s, K) ==
    LET prefix[n \in 0 .. Len(s)] ==
            IF n = 0 THEN <<>> ELSE IF n \in K THEN Append(prefix[n - 1], s[n]) ELSE prefix[n - 1]
    IN  prefix[Len(s)]

DropAudit(a) == [a EXCEPT !.audit = At(@, Supported(a))]

TrimBaselines(a) ==
    LET trimmed == [rid \in DOMAIN a.baselines |->
                        [a.baselines[rid] EXCEPT
                            !.verifiedLogin = @ /\ a.records[rid].signup = "verified_login"]]
    IN  [a EXCEPT !.baselines = Restrict(trimmed, {rid \in DOMAIN trimmed : trimmed[rid] # NoBaseline})]

\* Mutant: deleted records are looked for before the grants on them go.
CompactRecordsFirst(a) ==
    TrimBaselines(DropAudit(DropTasks(DropDeliveries(DropGrants(DropRecords(FoldReceipts(a)))))))

Compact(a) ==
    TrimBaselines(DropAudit(DropTasks(DropRecords(DropDeliveries(DropGrants(FoldReceipts(a)))))))

-----------------------------------------------------------------------------
(* validate(): nothing that fails it is ever published or opened.          *)

ValidTasks(a) ==
    /\ \A t \in Values(a.tasks) : ApprovalValid(t, 0)
    /\ a.revokedTasks \subseteq DOMAIN a.tasks

ValidRecord(a, r) ==
    /\ r.task \in DOMAIN a.tasks
    /\ LET t == a.tasks[r.task] IN
        /\ t.site = r.site /\ t.principal = r.createdBy
        /\ "secret_write" \in t.permissions
        /\ r.secretVersion <= r.revision
        /\ IF r.deleted THEN r.fields = {}
           ELSE r.fields \subseteq t.fields /\ KindAdmits(r.kind, r.fields)

\* A grant lies within its issuer's task, and an agent's within its share
\* bounds on a record it created itself.
ValidGrant(a, g) ==
    LET t == a.tasks[g.issuerTask]
        r == a.records[g.record]
        spec == g.spec
    IN  /\ g.record \in DOMAIN a.records /\ g.issuerTask \in DOMAIN a.tasks
        /\ t.site = r.site /\ g.version <= r.secretVersion
        /\ r.deleted => g.revoked
        /\ spec.fields # {} /\ spec.permissions # {} /\ "access_grant" \notin spec.permissions
        /\ spec.fields \subseteq t.fields /\ spec.permissions \subseteq t.permissions
        /\ spec.destinations \subseteq t.destinations /\ spec.expiresAt <= t.expiresAt
        /\ "secret_use" \in spec.permissions => spec.destinations # {}
        /\ r.deleted \/ spec.fields \subseteq r.fields
        /\ ~g.adminIssued =>
            /\ t.share # None /\ t.principal = r.createdBy /\ g.issuerTask = r.task
            /\ "access_grant" \in t.permissions
            /\ spec.followActive => t.share.allowFollowActive
            /\ spec.recipient \in t.share.recipients /\ spec.fields \subseteq t.share.fields
            /\ spec.permissions \subseteq t.share.permissions
            /\ spec.destinations \subseteq t.share.destinations
            /\ spec.expiresAt <= t.share.expiresAt

ValidReceipt(a, key) ==
    LET c == a.requests[key]
        r == a.records[c.record]
    IN  /\ key.task \in DOMAIN a.tasks /\ c.record \in DOMAIN a.records
        /\ key.principal = a.tasks[key.task].principal /\ a.tasks[key.task].site = r.site
        /\ c.revision > Baseline(a, c.record).through /\ c.revision <= r.revision
        /\ \A l \in Receipts(a, c.record) : a.requests[l].revision = c.revision => l = key
        /\ CASE c.kind = "create" -> r.task = key.task /\ r.createdBy = key.principal /\ c.revision = 1
             [] c.kind = "share" -> /\ c.grant \in DOMAIN a.grants
                                    /\ a.grants[c.grant].record = c.record
                                    /\ a.grants[c.grant].issuerTask = key.task
             [] c.kind = "revoke" -> /\ c.grant \in DOMAIN a.grants
                                     /\ a.grants[c.grant].record = c.record
                                     /\ a.grants[c.grant].revoked
             [] c.kind = "delete" -> r.deleted
             [] OTHER -> TRUE

ValidBaseline(a, rid) ==
    LET base == a.baselines[rid] IN
    /\ rid \in DOMAIN a.records
    /\ base.through <= a.records[rid].revision
    /\ base.through = 0 => base.secretVersion = 0 /\ ~base.deletePruned /\ base.prunedGrants = {}
    /\ base.through > 0 => base.secretVersion >= 1
    /\ base.verifiedLogin => a.records[rid].signup = "verified_login"
    /\ \A g \in base.prunedGrants :
        /\ g \in DOMAIN a.grants /\ a.grants[g].record = rid
        /\ \A c \in Values(a.requests) : c.kind = "share" => c.grant # g

\* Baseline and receipts account for every revision and every version.
ValidAccounting(a, rid) ==
    LET r == a.records[rid]
        base == Baseline(a, rid)
        receipts == {a.requests[k] : k \in Receipts(a, rid)}
        patches == {c \in receipts : c.kind = "patch"}
        deletes == {c \in receipts : c.kind = "delete"}
        creates == {c \in receipts : c.kind = "create"}
    IN  /\ IF r.deleted
           THEN base.deletePruned # (deletes # {})
           ELSE deletes = {} /\ ~base.deletePruned
        /\ {c.revision : c \in receipts} = base.through + 1 .. r.revision
        /\ creates # {} <=> base.through = 0
        /\ r.secretVersion = (IF base.through = 0 THEN 1 ELSE base.secretVersion) + Cardinality(patches)

\* Every grant has its share receipt, or is listed as pruned.
ValidGrantAccounting(a) ==
    DOMAIN a.grants =
        {c.grant : c \in {d \in Values(a.requests) : d.kind = "share"}}
            \cup UNION {base.prunedGrants : base \in Values(a.baselines)}

ValidDelivery(a, id) ==
    LET d == a.deliveries[id]
        t == a.tasks[d.task]
        r == a.records[d.record]
    IN  /\ d.task \in DOMAIN a.tasks /\ d.record \in DOMAIN a.records
        /\ t.site = r.site /\ d.version <= r.secretVersion
        /\ d.fields # {} /\ d.fields \subseteq t.fields
        /\ "secret_use" \in t.permissions /\ d.destination \in t.destinations
        /\ d.key.task = d.task /\ d.key.principal = t.principal
        /\ d.key \notin DOMAIN a.requests
        /\ d.dispatched \/ d.status = "rejected"
        /\ d.action # "use" => r.kind = "login" /\ {"username", "password"} \subseteq d.fields
        /\ \A e \in DOMAIN a.deliveries \ {id} :
            /\ a.deliveries[e].key # d.key
            /\ ~(SealsRegister(d) /\ SealsRegister(a.deliveries[e]) /\ a.deliveries[e].record = d.record)

ValidSignup(a, rid) ==
    a.records[rid].signup = "verified_login" =>
        \/ Baseline(a, rid).verifiedLogin
        \/ \E d \in Values(a.deliveries) : d.record = rid /\ SealsLogin(a, d)

ValidEvent(a, e) ==
    /\ EventSupported(a, e)
    /\ a.tasks[e.task].site = a.records[e.record].site
    /\ e.at <= a.lastTime

WithinLimits(a) ==
    \A n \in HotSizes(a) \cup {Len(a.audit), Cardinality(DOMAIN a.baselines)} : n <= Limit

Validate(a) ==
    /\ a.clockFrozen => a.lastTime # 0
    /\ WithinLimits(a)
    /\ ValidTasks(a)
    /\ \A r \in Values(a.records) : ValidRecord(a, r)
    /\ \A g \in Values(a.grants) : ValidGrant(a, g)
    /\ \A key \in DOMAIN a.requests : ValidReceipt(a, key)
    /\ \A rid \in DOMAIN a.baselines : ValidBaseline(a, rid)
    /\ \A rid \in DOMAIN a.records : ValidAccounting(a, rid) /\ ValidSignup(a, rid)
    /\ ValidGrantAccounting(a)
    /\ \A id \in DOMAIN a.deliveries : ValidDelivery(a, id)
    /\ \A i \in DOMAIN a.audit : ValidEvent(a, a.audit[i])

-----------------------------------------------------------------------------
(* transition(): recovery accepts an interrupted publication only if the   *)
(* new image follows from the old one.                                     *)

TaskFollows(old, next, tid) ==
    IF tid \in DOMAIN next.tasks
    THEN /\ next.tasks[tid] = old.tasks[tid]
         /\ tid \in old.revokedTasks => tid \in next.revokedTasks
    ELSE /\ old.tasks[tid].expiresAt <= next.lastTime \/ tid \in old.revokedTasks
         /\ ~Referenced(next, tid)

RecordFollows(old, next, rid) ==
    LET r == old.records[rid]
        n == next.records[rid]
    IN  IF rid \in DOMAIN next.records
        THEN /\ r.createdBy = n.createdBy /\ r.task = n.task /\ r.site = n.site /\ r.kind = n.kind
             /\ r.revision <= n.revision /\ r.secretVersion <= n.secretVersion
             /\ r.deleted => n.deleted
             /\ r.restored = n.restored
             /\ r.revision = n.revision =>
                    r.secretVersion = n.secretVersion /\ r.deleted = n.deleted /\ r.fields = n.fields
        ELSE /\ r.deleted
             /\ \A g \in Values(next.grants) : g.record # rid
             /\ \A d \in Values(next.deliveries) : d.record # rid
             /\ Receipts(next, rid) = {}

GrantFollows(old, next, gid) ==
    LET g == old.grants[gid] IN
    IF gid \in DOMAIN next.grants
    THEN next.grants[gid] \in {g, [g EXCEPT !.revoked = TRUE]}
    ELSE /\ g.revoked \/ g.spec.expiresAt <= next.lastTime
         /\ \A c \in Values(next.requests) : c.grant # gid

ReceiptFollows(old, next, key) ==
    LET c == old.requests[key] IN
    IF key \in DOMAIN next.requests
    THEN next.requests[key] = c
    ELSE \/ /\ c.revision <= Baseline(next, c.record).through
            /\ c.record \in DOMAIN old.records
            /\ Baseline(next, c.record).through <= old.records[c.record].revision
         \/ c.record \notin DOMAIN next.records /\ old.records[c.record].deleted

\* Mutant: the outcome of a delivery is refused as a changed attempt.
DeliveryFollowsSame(old, next, id) ==
    IF id \in DOMAIN next.deliveries
    THEN next.deliveries[id] = old.deliveries[id]
    ELSE old.deliveries[id].status # None

DeliveryFollows(old, next, id) ==
    LET d == old.deliveries[id] IN
    IF id \in DOMAIN next.deliveries
    THEN LET n == next.deliveries[id] IN
         IF d.status = None THEN \A f \in DOMAIN d \ {"status", "dispatched"} : n[f] = d[f] ELSE n = d
    ELSE /\ d.status # None
         /\ SealsRegister(d) /\ d.record \in DOMAIN next.records
                => Baseline(next, d.record).registrationDispatched
         /\ d.record \in DOMAIN next.records /\ SealsLogin(next, d)
                => ValidSignup(next, d.record)

Transition(old, next) ==
    /\ next.generation = old.generation + 1
    /\ DOMAIN old.tasks # {} => DOMAIN next.tasks # {}
    /\ \A tid \in DOMAIN old.tasks : TaskFollows(old, next, tid)
    /\ \A rid \in DOMAIN old.records : RecordFollows(old, next, rid)
    /\ \A gid \in DOMAIN old.grants : GrantFollows(old, next, gid)
    /\ \A key \in DOMAIN old.requests : ReceiptFollows(old, next, key)
    /\ \A id \in DOMAIN old.deliveries : DeliveryFollows(old, next, id)

-----------------------------------------------------------------------------
(* What recovery and restore make of an image: no authority, no unfinished *)
(* delivery, and nothing claimed about an attempt that may have happened.  *)

Unfinished(a) == \E d \in Values(a.deliveries) : d.status = None

\* Mutant: recovery revokes grants, but not tasks.
ResolveKeepingTasks(a) ==
    [a EXCEPT
        !.grants = [g \in DOMAIN @ |-> [@[g] EXCEPT !.revoked = TRUE]],
        !.deliveries = [d \in DOMAIN @ |-> [@[d] EXCEPT !.status = IF @ = None THEN "unknown" ELSE @]],
        !.generation = @ + 1]

\* Mutant: recovery takes an unfinished attempt for one that never left.
ResolveUndispatched(a) ==
    [a EXCEPT
        !.revokedTasks = DOMAIN a.tasks,
        !.deliveries = [d \in DOMAIN @ |->
            IF @[d].status = None THEN [@[d] EXCEPT !.status = "unknown", !.dispatched = FALSE] ELSE @[d]],
        !.generation = @ + 1]

Resolve(a) ==
    LET unresolved == {d.record : d \in {e \in Values(a.deliveries) : e.status = None /\ e.action # "use"}}
    IN  [a EXCEPT
            !.revokedTasks = DOMAIN a.tasks,
            !.grants = [g \in DOMAIN a.grants |-> [a.grants[g] EXCEPT !.revoked = TRUE]],
            !.deliveries = [d \in DOMAIN a.deliveries |->
                [a.deliveries[d] EXCEPT !.status = IF @ = None THEN "unknown" ELSE @]],
            !.records = [rid \in DOMAIN a.records |->
                [a.records[rid] EXCEPT !.signup = IF rid \in unresolved THEN "unknown" ELSE @]],
            !.generation = @ + 1]

Sanitize(a, now) == [Resolve(a) EXCEPT !.clockFrozen = FALSE, !.lastTime = now]

\* Mutant: a restored copy keeps the authority of its backup.
PrepareRestoredLive(a, now) ==
    [a EXCEPT !.records = [rid \in DOMAIN @ |-> [@[rid] EXCEPT !.restored = TRUE]],
              !.generation = @ + 1, !.lastTime = EffectiveTime(a, now)]

PrepareRestored(a, now) ==
    LET b == Resolve(a) IN
    [b EXCEPT !.records = [rid \in DOMAIN b.records |-> [b.records[rid] EXCEPT !.restored = TRUE]],
              !.lastTime = EffectiveTime(a, now)]

=============================================================================
