------------------------------- MODULE Policy -------------------------------
(***************************************************************************)
(* The policy core of one vault, agent/mod.rs `Application`, as operators  *)
(* on a value a of that structure: the trusted clock, task approvals,      *)
(* grants, the authorization of reads and mutations, and what a mutation   *)
(* does.  Module Vault turns them into steps.                              *)
(*                                                                         *)
(* One owner and one workspace (approve_task binds a vault to them); site  *)
(* stands for service and origin; the values of a record are the set of    *)
(* its fields, and a change of content shows as a version.  Every refused  *)
(* operation leaves the same value behind, so the kinds of error are not   *)
(* told apart.                                                             *)
(***************************************************************************)
EXTENDS Naturals, Sequences, FiniteSets, TLC, Functions

CONSTANTS
    None,                \* an absent optional value
    ClockSkewTolerance,  \* CLOCK_SKEW_TOLERANCE
    AuditCap,            \* events kept by audit()
    Limit                \* capacity of each collection

ASSUME PolicyConstants ==
    /\ ClockSkewTolerance \in Nat
    /\ AuditCap \in Nat \ {0}
    /\ Limit \in Nat \ {0} /\ AuditCap <= Limit

Field == {"label", "username", "password", "api_key"}
SecretFields == {"password", "api_key"}
Permission == {"metadata_read", "secret_use", "secret_read", "secret_write",
               "access_grant", "entry_delete"}

ChangesCredential(fields) == fields \cap (SecretFields \cup {"username"}) # {}

EmptyMap == [x \in {} |-> None]

\* Application::default() with the first generation; last_time None is 0.
NewApplication ==
    [tasks |-> EmptyMap, records |-> EmptyMap, grants |-> EmptyMap, requests |-> EmptyMap,
     deliveries |-> EmptyMap, baselines |-> EmptyMap, revokedTasks |-> {}, audit |-> <<>>,
     lastTime |-> 0, clockFrozen |-> FALSE, generation |-> 1]

\* The values of a map, and the map with an entry.
Values(m) == {m[k] : k \in DOMAIN m}

Inserted(m, key, value) == [k \in DOMAIN m \cup {key} |-> IF k = key THEN value ELSE m[k]]

-----------------------------------------------------------------------------
(* The trusted clock.                                                      *)

ClockAccepts(a, now) ==
    ~a.clockFrozen /\ (now >= a.lastTime \/ a.lastTime - now <= ClockSkewTolerance)

\* effective_time: the high-water mark, unless time moved past it.
EffectiveTime(a, now) == IF now > a.lastTime THEN now ELSE a.lastTime

\* Mutant: the high-water mark follows the clock backwards.
ClockFollowing(a, now) ==
    IF ClockAccepts(a, now) THEN [a EXCEPT !.lastTime = now] ELSE [a EXCEPT !.clockFrozen = TRUE]

Clock(a, now) ==
    IF ClockAccepts(a, now)
    THEN [a EXCEPT !.lastTime = EffectiveTime(a, now)]
    ELSE [a EXCEPT !.clockFrozen = TRUE]

Audit(a, event) ==
    [a EXCEPT !.audit = Append(IF Len(@) = AuditCap THEN Tail(@) ELSE @, event)]

-----------------------------------------------------------------------------
(* Task approvals.                                                         *)

ShareBoundsValid(t, now) ==
    LET bounds == t.share IN
    /\ bounds.recipients # {}
    /\ bounds.fields \subseteq t.fields
    /\ bounds.permissions \subseteq t.permissions \ {"access_grant"}
    /\ bounds.destinations \subseteq t.destinations
    /\ bounds.expiresAt <= t.expiresAt
    /\ bounds.expiresAt > now

ApprovalValid(t, now) ==
    /\ t.expiresAt > now
    /\ t.fields # {} /\ t.permissions # {}
    /\ t.share # None => ShareBoundsValid(t, now)

MayApprove(a, ctx, id, t, now) ==
    /\ ctx.admin
    /\ ApprovalValid(t, now)
    /\ id \notin DOMAIN a.tasks
    /\ Cardinality(DOMAIN a.tasks) < Limit

ApproveTask(a, id, t) == [a EXCEPT !.tasks = Inserted(@, id, t)]

MayRevokeTask(a, ctx, id) == ctx.admin /\ id \in DOMAIN a.tasks

RevokeTask(a, id) == [a EXCEPT !.revokedTasks = @ \cup {id}]

\* task(): the approval is this principal's, unexpired, not revoked, and the
\* session that asks has not reached its deadline.
TaskAdmits(a, ctx, id, now) ==
    /\ id \in DOMAIN a.tasks
    /\ a.tasks[id].principal = ctx.principal
    /\ now < a.tasks[id].expiresAt
    /\ id \notin a.revokedTasks
    /\ now < ctx.deadline

-----------------------------------------------------------------------------
(* can(): the task bounds every access; within it the creating task may do *)
(* anything, anyone else needs a live grant.                               *)

\* Mutant: a revoked issuer's grants stay usable.
IssuerUnexpired(a, g, now) ==
    g.issuerTask \in DOMAIN a.tasks /\ now < a.tasks[g.issuerTask].expiresAt

\* A grant lives no longer than the task that issued it.
IssuerAlive(a, g, now) ==
    /\ g.issuerTask \notin a.revokedTasks
    /\ g.issuerTask \in DOMAIN a.tasks /\ now < a.tasks[g.issuerTask].expiresAt

GrantAdmits(a, g, ctx, rid, permission, fields, destinations, now) ==
    /\ g.record = rid
    /\ ~g.revoked
    /\ now < g.spec.expiresAt
    /\ IF g.spec.followActive THEN a.records[rid].secretVersion >= g.version
                              ELSE a.records[rid].secretVersion = g.version
    /\ IssuerAlive(a, g, now)
    /\ g.spec.recipient = ctx.principal
    /\ permission \in g.spec.permissions
    /\ fields \subseteq g.spec.fields
    /\ destinations \subseteq g.spec.destinations

Can(a, ctx, tid, rid, permission, fields, destinations, now) ==
    LET t == a.tasks[tid]
        r == a.records[rid]
    IN  /\ r.site = t.site
        /\ permission \in t.permissions
        /\ fields \subseteq t.fields
        /\ destinations \subseteq t.destinations
        /\ \/ r.createdBy = ctx.principal /\ r.task = tid
           \/ \E g \in Values(a.grants) :
                GrantAdmits(a, g, ctx, rid, permission, fields, destinations, now)

LiveRecord(a, rid) == rid \in DOMAIN a.records /\ ~a.records[rid].deleted

\* select(): every read and use of stored values goes through it.
Select(a, ctx, tid, rid, fields, permission, destinations, now) ==
    /\ fields # {}
    /\ permission = "metadata_read" => fields \cap SecretFields = {}
    /\ TaskAdmits(a, ctx, tid, now)
    /\ LiveRecord(a, rid)
    /\ Can(a, ctx, tid, rid, permission, fields, destinations, now)
    /\ fields \subseteq a.records[rid].fields

-----------------------------------------------------------------------------
(* authorize(), one predicate per mutation.                                *)

KindAdmits(kind, fields) ==
    \/ kind = "login" /\ "password" \in fields /\ "api_key" \notin fields
    \/ kind = "api_key" /\ "api_key" \in fields /\ "password" \notin fields

\* Create, and Generate with the fields of generation_fields.
MayCreate(a, tid, op) ==
    /\ op.fields # {} /\ op.fields \subseteq a.tasks[tid].fields
    /\ "secret_write" \in a.tasks[tid].permissions
    /\ KindAdmits(op.kind, op.fields)

MayPatch(a, ctx, tid, op, now) ==
    /\ op.fields # {}
    /\ Can(a, ctx, tid, op.record, "secret_write", op.fields, {}, now)
    /\ a.records[op.record].kind = "login" => "api_key" \notin op.fields
    /\ a.records[op.record].kind = "api_key" => "password" \notin op.fields

MayDelete(a, ctx, tid, op, now) ==
    ctx.admin \/ Can(a, ctx, tid, op.record, "entry_delete", a.records[op.record].fields, {}, now)

GrantWellFormed(a, op, now) ==
    LET spec == op.grant IN
    /\ spec.fields # {} /\ spec.permissions # {}
    /\ spec.expiresAt > now
    /\ "access_grant" \notin spec.permissions
    /\ spec.fields \subseteq a.records[op.record].fields
    /\ "secret_use" \in spec.permissions => spec.destinations # {}

\* An agent delegates at most what its share bounds and its own access allow.
AgentMayShare(a, ctx, tid, op, now) ==
    LET spec == op.grant
        bounds == a.tasks[tid].share
    IN  /\ bounds # None
        /\ spec.followActive => bounds.allowFollowActive
        /\ spec.recipient \in bounds.recipients
        /\ spec.fields \subseteq bounds.fields
        /\ spec.permissions \subseteq bounds.permissions
        /\ spec.destinations \subseteq bounds.destinations
        /\ spec.expiresAt <= bounds.expiresAt
        /\ \A permission \in spec.permissions \cup {"access_grant"} :
            Can(a, ctx, tid, op.record, permission, spec.fields, {}, now)

\* Mutant: the human's grant is not bound to the scope of its task.
AdminMayShareAnywhere(a, tid, op) ==
    LET spec == op.grant
        t == a.tasks[tid]
    IN  /\ spec.fields \subseteq t.fields
        /\ spec.permissions \subseteq t.permissions
        /\ spec.destinations \subseteq t.destinations
        /\ spec.expiresAt <= t.expiresAt

AdminMayShare(a, tid, op) ==
    LET spec == op.grant
        t == a.tasks[tid]
    IN  /\ a.records[op.record].site = t.site
        /\ spec.fields \subseteq t.fields
        /\ spec.permissions \subseteq t.permissions
        /\ spec.destinations \subseteq t.destinations
        /\ spec.expiresAt <= t.expiresAt

MayShare(a, ctx, tid, op, now) ==
    /\ GrantWellFormed(a, op, now)
    /\ IF ctx.admin THEN AdminMayShare(a, tid, op) ELSE AgentMayShare(a, ctx, tid, op, now)

MayRevoke(a, ctx, tid, op, now) ==
    /\ op.grant \in DOMAIN a.grants
    /\ a.grants[op.grant].record = op.record
    /\ \/ ctx.admin
       \/ Can(a, ctx, tid, op.record, "access_grant", a.grants[op.grant].spec.fields, {}, now)

\* An agent's report never claims a verified login.
MayReport(a, ctx, tid, op, now) ==
    op.state # "verified_login" /\ Can(a, ctx, tid, op.record, "secret_write", {}, {}, now)

\* A deleted record permits only the retry of its deletion.
Authorize(a, ctx, tid, op, now, retry) ==
    IF op.op = "create"
    THEN MayCreate(a, tid, op)
    ELSE /\ op.record \in DOMAIN a.records
         /\ ~a.records[op.record].deleted \/ (retry /\ op.op = "delete")
         /\ CASE op.op = "patch" -> MayPatch(a, ctx, tid, op, now)
              [] op.op = "delete" -> MayDelete(a, ctx, tid, op, now)
              [] op.op = "share" -> MayShare(a, ctx, tid, op, now)
              [] op.op = "revoke" -> MayRevoke(a, ctx, tid, op, now)
              [] op.op = "report" -> MayReport(a, ctx, tid, op, now)
         /\ retry \/ a.records[op.record].revision = op.expected

-----------------------------------------------------------------------------
(* mutate().                                                               *)

RequestKey(ctx, tid, request) == [principal |-> ctx.principal, task |-> tid, id |-> request]

\* Checks that come before the cache: policy applies to a retry as well, and an
\* identifier used by a delivery is never a mutation's.
MutationAdmitted(a, ctx, tid, request, op, now) ==
    /\ TaskAdmits(a, ctx, tid, now)
    /\ Authorize(a, ctx, tid, op, now, TRUE)
    /\ \A d \in Values(a.deliveries) : d.key # RequestKey(ctx, tid, request)

\* A new identifier does new work, on the revision it names, within capacity.
Performable(a, ctx, tid, key, op, now) ==
    /\ key \notin DOMAIN a.requests
    /\ Authorize(a, ctx, tid, op, now, FALSE)
    /\ Cardinality(DOMAIN a.requests) < Limit
    /\ op.op = "create" => Cardinality(DOMAIN a.records) < Limit
    /\ op.op = "share" => Cardinality(DOMAIN a.grants) < Limit

CachedKind(op) ==
    IF op.op = "patch" /\ ~ChangesCredential(op.fields) THEN "metadata_patch" ELSE op.op

NewRecord(a, ctx, tid, op) ==
    [createdBy |-> ctx.principal, task |-> tid, site |-> a.tasks[tid].site, kind |-> op.kind,
     revision |-> 1, secretVersion |-> 1, fields |-> op.fields, signup |-> "pending",
     deleted |-> FALSE, restored |-> FALSE]

PatchedRecord(r, op) ==
    IF ChangesCredential(op.fields)
    THEN [r EXCEPT !.fields = @ \cup op.fields, !.secretVersion = @ + 1, !.signup = "pending"]
    ELSE [r EXCEPT !.fields = @ \cup op.fields]

\* The record after the operation; every mutation of a record is a revision.
MutatedRecord(r, op) ==
    [(CASE op.op = "patch" -> PatchedRecord(r, op)
        [] op.op = "delete" -> [r EXCEPT !.deleted = TRUE, !.fields = {}]
        [] op.op = "report" -> [r EXCEPT !.signup = op.state]
        [] OTHER -> r) EXCEPT !.revision = @ + 1]

\* Mutant: deleting a record leaves its grants.
MutatedGrantsKept(a, ctx, tid, op, fresh) ==
    CASE op.op = "share" ->
            Inserted(a.grants, fresh, [record |-> op.record, spec |-> op.grant, revoked |-> FALSE,
                                       version |-> a.records[op.record].secretVersion,
                                       issuerTask |-> tid, adminIssued |-> ctx.admin])
      [] op.op = "revoke" -> [a.grants EXCEPT ![op.grant].revoked = TRUE]
      [] OTHER -> a.grants

\* Deleting a record revokes all its grants.
MutatedGrants(a, ctx, tid, op, fresh) ==
    CASE op.op = "share" ->
            Inserted(a.grants, fresh, [record |-> op.record, spec |-> op.grant, revoked |-> FALSE,
                                       version |-> a.records[op.record].secretVersion,
                                       issuerTask |-> tid, adminIssued |-> ctx.admin])
      [] op.op = "revoke" -> [a.grants EXCEPT ![op.grant].revoked = TRUE]
      [] op.op = "delete" -> [g \in DOMAIN a.grants |->
            IF a.grants[g].record = op.record THEN [a.grants[g] EXCEPT !.revoked = TRUE] ELSE a.grants[g]]
      [] OTHER -> a.grants

\* The record a mutation is about; fresh is the new identifier it may draw.
Subject(op, fresh) == IF op.op = "create" THEN fresh ELSE op.record

GrantOf(op, fresh) ==
    CASE op.op = "share" -> fresh [] op.op = "revoke" -> op.grant [] OTHER -> None

Mutate(a, ctx, tid, request, op, now, fresh) ==
    LET rid == Subject(op, fresh)
        records == IF op.op = "create"
                   THEN Inserted(a.records, fresh, NewRecord(a, ctx, tid, op))
                   ELSE [a.records EXCEPT ![rid] = MutatedRecord(@, op)]
        receipt == [fingerprint |-> op, record |-> rid, revision |-> records[rid].revision,
                    grant |-> GrantOf(op, fresh), kind |-> CachedKind(op), at |-> now]
    IN  Audit([a EXCEPT !.records = records,
                        !.grants = MutatedGrants(a, ctx, tid, op, fresh),
                        !.requests = Inserted(@, RequestKey(ctx, tid, request), receipt)],
              [task |-> tid, record |-> rid, request |-> request, at |-> now])

\* A successful read is remembered in the audit stream only.
Read(a, tid, rid, now) == Audit(a, [task |-> tid, record |-> rid, request |-> None, at |-> now])

=============================================================================
