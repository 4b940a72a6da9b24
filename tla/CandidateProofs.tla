--------------------------- MODULE CandidateProofs ---------------------------
(***************************************************************************)
(* Proofs that every call stages what validate() accepts: what the vault   *)
(* holds passes it, each operation of the core keeps that, and so do       *)
(* compaction, restart, recovery and restore.  On it rest the proofs that  *)
(* recovery accepts every publication, and that access appears only by     *)
(* consent.                                                                *)
(***************************************************************************)
EXTENDS ValidityProofs

-----------------------------------------------------------------------------
(* What the vault holds between two calls.                                 *)

Clean(a) == Good(a) /\ \A i \in DOMAIN a.audit : EventSupported(a, a.audit[i])

LEMMA CleanIsValid ==
    ASSUME NEW a, Clean(a)
    PROVE  Validate(a)
BY SoundIsValid DEF Clean

LEMMA ValidIsClean ==
    ASSUME NEW a, Whole(a), Lasting(a), Validate(a)
    PROVE  Clean(a)
<1>1. Good(a) /\ \A i \in DOMAIN a.audit : ValidEvent(a, a.audit[i])
  BY ValidIsSound
<1>2. \A i \in DOMAIN a.audit : EventSupported(a, a.audit[i])
  BY <1>1 DEF ValidEvent
<1> QED BY <1>1, <1>2 DEF Clean

LEMMA CompactIsClean ==
    ASSUME NEW a, Good(a)
    PROVE  Clean(Compact(a))
BY CompactSettled DEF Clean, Settled

-----------------------------------------------------------------------------
(* A mutation of a live record, but for its event: the record rid gets its *)
(* next revision, the receipt c is filed under key.                        *)

MutationKinds == {"patch", "metadata_patch", "report", "delete", "share", "revoke"}

RevisedRecord(r, s, c) ==
    /\ DOMAIN s = RecordFields
    /\ s.createdBy = r.createdBy /\ s.task = r.task /\ s.site = r.site /\ s.kind = r.kind
    /\ s.revision = r.revision + 1
    /\ s.secretVersion = r.secretVersion + (IF c.kind = "patch" THEN 1 ELSE 0)
    /\ s.deleted = (c.kind = "delete")
    /\ s.signup # "verified_login"

\* The record rid of b keeps within the task of its creator.
RevisedFields(a, b, rid) ==
    LET r == a.records[rid]
        s == b.records[rid]
    IN  IF s.deleted THEN s.fields = {}
        ELSE /\ r.fields \subseteq s.fields
             /\ s.fields \subseteq a.tasks[r.task].fields /\ KindAdmits(s.kind, s.fields)

RevisedGrants(a, b, rid, key, c) ==
    /\ DOMAIN b.grants = DOMAIN a.grants \cup (IF c.kind = "share" THEN {c.grant} ELSE {})
    /\ \A g \in DOMAIN a.grants :
        /\ b.grants[g] = a.grants[g] \/ b.grants[g] = [a.grants[g] EXCEPT !.revoked = TRUE]
        /\ b.records[rid].deleted /\ a.grants[g].record = rid => b.grants[g].revoked
    /\ c.kind = "share" =>
        LET g == b.grants[c.grant] IN
        /\ c.grant \notin DOMAIN a.grants /\ Cardinality(DOMAIN a.grants) < Limit
        /\ DOMAIN g = GrantFields /\ g.version \in Nat /\ g.spec.expiresAt \in Nat
        /\ g.record = rid /\ g.issuerTask = key.task /\ ValidGrant(b, g)
    /\ c.kind = "revoke" =>
        c.grant \in DOMAIN a.grants /\ a.grants[c.grant].record = rid /\ b.grants[c.grant].revoked

Revision(a, b, rid, key, c) ==
    /\ b = [f \in AppFields |-> b[f]]
    /\ b.tasks = a.tasks /\ b.revokedTasks = a.revokedTasks /\ b.deliveries = a.deliveries
    /\ b.baselines = a.baselines /\ b.audit = a.audit
    /\ b.lastTime = a.lastTime /\ b.clockFrozen = a.clockFrozen
    /\ rid \in DOMAIN a.records /\ ~a.records[rid].deleted
    /\ DOMAIN b.records = DOMAIN a.records
    /\ \A x \in DOMAIN a.records \ {rid} : b.records[x] = a.records[x]
    /\ RevisedRecord(a.records[rid], b.records[rid], c) /\ RevisedFields(a, b, rid)
    /\ RevisedGrants(a, b, rid, key, c)
    /\ key \notin DOMAIN a.requests /\ Cardinality(DOMAIN a.requests) < Limit
    /\ DOMAIN b.requests = DOMAIN a.requests \cup {key} /\ b.requests[key] = c
    /\ \A k \in DOMAIN a.requests : b.requests[k] = a.requests[k]
    /\ c.record = rid /\ c.revision = a.records[rid].revision + 1 /\ c.at \in Nat
    /\ c.kind \in MutationKinds
    /\ key.task \in DOMAIN a.tasks /\ key.principal = a.tasks[key.task].principal
    /\ a.tasks[key.task].site = a.records[rid].site
    /\ \A d \in DOMAIN a.deliveries : a.deliveries[d].key # key

LEMMA RevisionWhole ==
    ASSUME NEW a, NEW b, NEW rid, NEW key, NEW c, Clean(a), Revision(a, b, rid, key, c)
    PROVE  Whole(b)
<1>1. Whole(a) /\ Formed(a)
  BY DEF Clean, Good, Whole
<1>2. \A x \in DOMAIN b.records :
        /\ DOMAIN b.records[x] = RecordFields /\ b.records[x].revision \in Nat
        /\ b.records[x].secretVersion \in Nat /\ b.records[x].deleted \in BOOLEAN
  <2>1. \A x \in DOMAIN a.records :
            /\ DOMAIN a.records[x] = RecordFields /\ a.records[x].revision \in Nat
            /\ a.records[x].secretVersion \in Nat /\ a.records[x].deleted \in BOOLEAN
    BY <1>1 DEF Whole, Formed
  <2>2. /\ DOMAIN b.records[rid] = RecordFields
        /\ b.records[rid].revision = a.records[rid].revision + 1
        /\ b.records[rid].secretVersion = a.records[rid].secretVersion + (IF c.kind = "patch" THEN 1 ELSE 0)
        /\ b.records[rid].deleted = (c.kind = "delete")
        /\ rid \in DOMAIN a.records /\ DOMAIN b.records = DOMAIN a.records
        /\ \A x \in DOMAIN a.records \ {rid} : b.records[x] = a.records[x]
    BY DEF Revision, RevisedRecord
  <2>3. b.records[rid].revision \in Nat /\ b.records[rid].secretVersion \in Nat /\ b.records[rid].deleted \in BOOLEAN
    BY <2>1, <2>2
  <2> QED BY <2>1, <2>2, <2>3
<1>3. \A g \in DOMAIN b.grants :
        DOMAIN b.grants[g] = GrantFields /\ b.grants[g].version \in Nat /\ b.grants[g].spec.expiresAt \in Nat
  <2> SUFFICES ASSUME NEW g \in DOMAIN b.grants
               PROVE  /\ DOMAIN b.grants[g] = GrantFields /\ b.grants[g].version \in Nat
                      /\ b.grants[g].spec.expiresAt \in Nat
    OBVIOUS
  <2>1. CASE g \in DOMAIN a.grants
    <3>1. DOMAIN a.grants[g] = GrantFields /\ a.grants[g].version \in Nat /\ a.grants[g].spec.expiresAt \in Nat
      BY <1>1, <2>1 DEF Whole, Formed
    <3>2. b.grants[g] = a.grants[g] \/ b.grants[g] = [a.grants[g] EXCEPT !.revoked = TRUE]
      BY <2>1 DEF Revision, RevisedGrants
    <3> QED BY <3>1, <3>2 DEF GrantFields
  <2>2. CASE g \notin DOMAIN a.grants
    BY <2>2 DEF Revision, RevisedGrants
  <2> QED BY <2>1, <2>2
<1>4. IsFiniteSet(DOMAIN b.grants) /\ IsFiniteSet(DOMAIN b.requests)
  <2>1. IsFiniteSet(DOMAIN a.grants) /\ IsFiniteSet(DOMAIN a.requests)
    BY <1>1 DEF Whole
  <2>2. IsFiniteSet(DOMAIN a.requests \cup {key}) /\ IsFiniteSet(DOMAIN a.grants \cup {c.grant})
    BY <2>1, FS_AddElement
  <2>3. DOMAIN b.grants = DOMAIN a.grants \/ DOMAIN b.grants = DOMAIN a.grants \cup {c.grant}
    BY DEF Revision, RevisedGrants
  <2> QED BY <2>1, <2>2, <2>3 DEF Revision
<1>5. \A k \in DOMAIN b.requests : b.requests[k].at \in Nat /\ b.requests[k].revision \in Nat
  <2>1. c.at \in Nat /\ c.revision \in Nat
    BY <1>1, SMTT(30) DEF Formed, Revision
  <2> QED BY <1>1, <2>1 DEF Whole, Formed, Revision
<1>6. Formed(b)
  BY <1>1, <1>2, <1>3, <1>5 DEF Formed, Revision
<1> QED BY <1>1, <1>2, <1>3, <1>4, <1>5, <1>6 DEF Whole, Revision

\* The receipts of each record, before and after.
LEMMA RevisionReceipts ==
    ASSUME NEW a, NEW b, NEW rid, NEW key, NEW c, Clean(a), Revision(a, b, rid, key, c)
    PROVE  /\ \A x : Baseline(b, x) = Baseline(a, x)
           /\ \A x, k : k \in Receipts(b, x) <=> k \in Receipts(a, x) \/ (k = key /\ x = rid)
           /\ \A x, kind : (x # rid \/ c.kind # kind) => OfKind(b, x, kind) = OfKind(a, x, kind)
           /\ OfKind(b, rid, c.kind) = OfKind(a, rid, c.kind) \cup {key}
<1>1. \A x : Baseline(b, x) = Baseline(a, x)
  BY DEF Revision, Baseline
<1>2. \A x, k : k \in Receipts(b, x) <=> k \in Receipts(a, x) \/ (k = key /\ x = rid)
  BY DEF Revision, Receipts
<1>3. \A x, kind, k : k \in OfKind(b, x, kind)
                    <=> k \in OfKind(a, x, kind) \/ (k = key /\ x = rid /\ c.kind = kind)
  BY <1>2 DEF Revision, Receipts, OfKind
<1>4. ASSUME NEW x, NEW kind, x # rid \/ c.kind # kind
      PROVE  OfKind(b, x, kind) = OfKind(a, x, kind)
  <2>1. OfKind(b, x, kind) \subseteq OfKind(a, x, kind) /\ OfKind(a, x, kind) \subseteq OfKind(b, x, kind)
    BY <1>3, <1>4
  <2> QED BY <2>1
<1>5. OfKind(b, rid, c.kind) = OfKind(a, rid, c.kind) \cup {key}
  <2>1. /\ OfKind(b, rid, c.kind) \subseteq OfKind(a, rid, c.kind) \cup {key}
        /\ OfKind(a, rid, c.kind) \cup {key} \subseteq OfKind(b, rid, c.kind)
    BY <1>3
  <2> QED BY <2>1
<1> QED BY <1>1, <1>2, <1>4, <1>5

LEMMA RevisionRecords ==
    ASSUME NEW a, NEW b, NEW rid, NEW key, NEW c, Clean(a), Revision(a, b, rid, key, c),
           NEW x \in DOMAIN b.records
    PROVE  ValidRecord(b, b.records[x])
<1>1. x \in DOMAIN a.records /\ ValidRecord(a, a.records[x])
  BY DEF Clean, Good, Sound, Revision
<1>2. CASE x # rid
  <2>1. b.records[x] = a.records[x] /\ b.tasks = a.tasks
    BY <1>1, <1>2 DEF Revision
  <2> QED BY <1>1, <2>1 DEF ValidRecord
<1>3. CASE x = rid
  <2> DEFINE r == a.records[rid]
             s == b.records[rid]
  <2>1. /\ s.createdBy = r.createdBy /\ s.task = r.task /\ s.site = r.site /\ s.kind = r.kind
        /\ s.revision = r.revision + 1
        /\ s.secretVersion = r.secretVersion + (IF c.kind = "patch" THEN 1 ELSE 0)
        /\ b.tasks = a.tasks
    BY DEF Revision, RevisedRecord
  <2>2. IF s.deleted THEN s.fields = {}
        ELSE s.fields \subseteq a.tasks[r.task].fields /\ KindAdmits(s.kind, s.fields)
    BY DEF Revision, RevisedFields
  <2>3. r.revision \in Nat /\ r.secretVersion \in Nat
    BY <1>1, <1>3 DEF Clean, Good, Whole, Formed
  <2>4. /\ r.task \in DOMAIN a.tasks /\ a.tasks[r.task].site = r.site /\ a.tasks[r.task].principal = r.createdBy
        /\ "secret_write" \in a.tasks[r.task].permissions /\ r.secretVersion <= r.revision
    BY <1>1, <1>3 DEF ValidRecord
  <2> HIDE DEF r, s
  <2>5. ValidRecord(b, s)
    <3>1. s.secretVersion <= s.revision
      BY <2>1, <2>3, <2>4
    <3> QED BY <2>1, <2>2, <2>4, <3>1 DEF ValidRecord
  <2> QED BY <1>3, <2>5 DEF s
<1> QED BY <1>2, <1>3

LEMMA RevisionGrants ==
    ASSUME NEW a, NEW b, NEW rid, NEW key, NEW c, Clean(a), Revision(a, b, rid, key, c),
           NEW x \in DOMAIN b.grants
    PROVE  ValidGrant(b, b.grants[x])
<1>1. CASE x \in DOMAIN a.grants
  <2> DEFINE g == a.grants[x]
             h == b.grants[x]
             r == a.records[g.record]
             s == b.records[g.record]
  <2>1. ValidGrant(a, g) /\ DOMAIN g = GrantFields
    BY <1>1 DEF Clean, Good, Sound, Whole, Formed
  <2>2. /\ h = g \/ h = [g EXCEPT !.revoked = TRUE]
        /\ b.records[rid].deleted /\ g.record = rid => h.revoked
    BY <1>1 DEF Revision, RevisedGrants
  <2>3. g.record \in DOMAIN a.records /\ r.secretVersion \in Nat /\ g.version \in Nat
    BY <1>1, <2>1 DEF ValidGrant, Clean, Good, Whole
  <2>4. /\ s.createdBy = r.createdBy /\ s.task = r.task /\ s.site = r.site
        /\ s.secretVersion \in Nat /\ r.secretVersion <= s.secretVersion
        /\ s.deleted => (r.deleted \/ g.record = rid)
        /\ s.deleted \/ r.fields \subseteq s.fields
        /\ s.deleted = r.deleted \/ g.record = rid
        /\ r.deleted => s.deleted
    <3>1. CASE g.record # rid
      <4>1. s = r
        BY <2>3, <3>1 DEF Revision
      <4> QED BY <2>3, <3>1, <4>1
    <3>2. CASE g.record = rid
      <4>1. RevisedRecord(r, s, c) /\ RevisedFields(a, b, g.record) /\ ~r.deleted
        BY <3>2 DEF Revision
      <4>2. s.deleted \in BOOLEAN /\ s.secretVersion \in Nat /\ r.secretVersion <= s.secretVersion
        <5>1. /\ s.deleted = (c.kind = "delete")
              /\ s.secretVersion = r.secretVersion + (IF c.kind = "patch" THEN 1 ELSE 0)
          BY <4>1, Zenon DEF RevisedRecord
        <5>2. s.deleted \in BOOLEAN
          BY <5>1, Zenon
        <5> HIDE DEF r, s
        <5> QED BY <2>3, <5>1, <5>2
      <4> QED BY <2>3, <3>2, <4>1, <4>2 DEF RevisedRecord, RevisedFields
    <3> QED BY <3>1, <3>2
  <2>5. /\ h.record = g.record /\ h.spec = g.spec /\ h.version = g.version /\ h.issuerTask = g.issuerTask
        /\ h.adminIssued = g.adminIssued /\ (g.revoked => h.revoked)
    BY <2>1, <2>2 DEF GrantFields
  <2>6. b.tasks = a.tasks /\ DOMAIN b.records = DOMAIN a.records
    BY DEF Revision
  <2>7. h.version <= s.secretVersion
    <3>1. g.version <= r.secretVersion
      BY <2>1 DEF ValidGrant
    <3> HIDE DEF g, h, r, s
    <3> QED BY <2>3, <2>4, <2>5, <3>1
  <2>8. s.deleted => h.revoked
    BY <2>1, <2>2, <2>4, <2>5 DEF ValidGrant
  <2>9. s.deleted \/ h.spec.fields \subseteq s.fields
    BY <2>1, <2>4, <2>5 DEF ValidGrant
  <2> HIDE DEF g, h, r, s
  <2>10. ValidGrant(b, h)
    BY <2>1, <2>3, <2>4, <2>5, <2>6, <2>7, <2>8, <2>9, ZenonT(40) DEF ValidGrant, r, s
  <2> QED BY <2>10 DEF h
<1>2. CASE x \notin DOMAIN a.grants
  BY <1>2 DEF Revision, RevisedGrants
<1> QED BY <1>1, <1>2

LEMMA RevisionIssued ==
    ASSUME NEW a, NEW b, NEW rid, NEW key, NEW c, Clean(a), Revision(a, b, rid, key, c),
           NEW x \in DOMAIN b.requests
    PROVE  ValidReceipt(b, x)
<1>1. /\ \A y : Baseline(b, y) = Baseline(a, y)
      /\ \A y, k : k \in Receipts(b, y) <=> k \in Receipts(a, y) \/ (k = key /\ y = rid)
  BY RevisionReceipts
<1>2. Sound(a) /\ Whole(a)
  BY DEF Clean, Good
<1>3. rid \in DOMAIN a.records /\ a.records[rid].revision \in Nat
  BY <1>2 DEF Revision, Whole, Formed
<1>4. \A l \in Receipts(a, rid) : a.requests[l].revision \in Nat /\ a.requests[l].revision <= a.records[rid].revision
  <2> SUFFICES ASSUME NEW l \in Receipts(a, rid)
               PROVE  a.requests[l].revision \in Nat /\ a.requests[l].revision <= a.records[rid].revision
    OBVIOUS
  <2>1. l \in DOMAIN a.requests /\ a.requests[l].record = rid
    BY DEF Receipts
  <2>2. ValidReceipt(a, l)
    BY <1>2, <2>1 DEF Sound
  <2> QED BY <1>2, <2>1, <2>2 DEF ValidReceipt, Whole
<1>5. \A l \in DOMAIN a.requests : b.requests[l] = a.requests[l]
  BY DEF Revision
<1>6. b.requests[key] = c /\ c.record = rid /\ c.revision = a.records[rid].revision + 1
  BY DEF Revision
<1>7. CASE x \in DOMAIN a.requests
  <2> DEFINE k == a.requests[x]
             r == a.records[k.record]
             s == b.records[k.record]
  <2>1. ValidReceipt(a, x) /\ b.requests[x] = k /\ k.revision \in Nat
    BY <1>2, <1>5, <1>7 DEF Sound, Whole
  <2>2. k.record \in DOMAIN a.records /\ r.revision \in Nat
    BY <1>2, <2>1 DEF ValidReceipt, Whole, Formed
  <2>3. /\ s.createdBy = r.createdBy /\ s.task = r.task /\ s.site = r.site
        /\ s.revision \in Nat /\ r.revision <= s.revision /\ (r.deleted => s.deleted)
    <3>1. CASE k.record # rid
      <4>1. s = r
        BY <2>2, <3>1 DEF Revision
      <4> QED BY <2>2, <4>1
    <3>2. CASE k.record = rid
      BY <2>2, <3>2 DEF Revision, RevisedRecord
    <3> QED BY <3>1, <3>2
  <2>4. ASSUME NEW l \in Receipts(b, k.record), b.requests[l].revision = k.revision PROVE l = x
    <3>1. CASE l \in Receipts(a, k.record)
      <4>1. b.requests[l] = a.requests[l]
        BY <1>5, <3>1 DEF Receipts
      <4> QED BY <2>1, <2>4, <3>1, <4>1 DEF ValidReceipt
    <3>2. CASE l = key /\ k.record = rid
      <4>1. x \in Receipts(a, rid)
        BY <1>7, <3>2 DEF Receipts
      <4>2. k.revision <= a.records[rid].revision
        BY <1>4, <4>1
      <4>3. k.revision = a.records[rid].revision + 1
        BY <1>6, <2>4, <3>2
      <4> QED BY <1>3, <2>1, <4>2, <4>3
    <3> QED BY <1>1, <2>4, <3>1, <3>2
  <2>5. ASSUME NEW g \in DOMAIN a.grants
        PROVE  /\ g \in DOMAIN b.grants /\ b.grants[g].record = a.grants[g].record
               /\ b.grants[g].issuerTask = a.grants[g].issuerTask
               /\ a.grants[g].revoked => b.grants[g].revoked
    <3>1. /\ DOMAIN a.grants[g] = GrantFields
          /\ b.grants[g] = a.grants[g] \/ b.grants[g] = [a.grants[g] EXCEPT !.revoked = TRUE]
          /\ g \in DOMAIN b.grants
      BY <1>2 DEF Revision, RevisedGrants, Whole, Formed
    <3> QED BY <3>1 DEF GrantFields
  <2>6. b.tasks = a.tasks /\ DOMAIN b.records = DOMAIN a.records
    BY DEF Revision
  <2>7. k.revision <= s.revision
    <3>1. k.revision <= r.revision
      BY <2>1, Zenon DEF ValidReceipt, k, r
    <3> HIDE DEF k, r, s
    <3> QED BY <2>1, <2>2, <2>3, <3>1
  <2>8. CASE k.kind = "create"
    BY <1>1, <2>1, <2>3, <2>4, <2>6, <2>7, <2>8 DEF ValidReceipt
  <2>9. CASE k.kind = "share"
    <3>1. k.grant \in DOMAIN a.grants /\ a.grants[k.grant].record = k.record /\ a.grants[k.grant].issuerTask = x.task
      BY <2>1, <2>9 DEF ValidReceipt
    <3>2. k.grant \in DOMAIN b.grants /\ b.grants[k.grant].record = k.record /\ b.grants[k.grant].issuerTask = x.task
      BY <2>5, <3>1
    <3> QED BY <1>1, <2>1, <2>3, <2>4, <2>6, <2>7, <2>9, <3>2, ZenonT(40) DEF ValidReceipt
  <2>10. CASE k.kind = "revoke"
    <3>1. k.grant \in DOMAIN a.grants /\ a.grants[k.grant].record = k.record /\ a.grants[k.grant].revoked
      BY <2>1, <2>10 DEF ValidReceipt
    <3>2. k.grant \in DOMAIN b.grants /\ b.grants[k.grant].record = k.record /\ b.grants[k.grant].revoked
      BY <2>5, <3>1
    <3> QED BY <1>1, <2>1, <2>3, <2>4, <2>6, <2>7, <2>10, <3>2, ZenonT(40) DEF ValidReceipt
  <2>11. CASE k.kind = "delete"
    BY <1>1, <2>1, <2>3, <2>4, <2>6, <2>7, <2>11 DEF ValidReceipt
  <2>12. CASE k.kind \notin {"create", "share", "revoke", "delete"}
    BY <1>1, <2>1, <2>3, <2>4, <2>6, <2>7, <2>12, ZenonT(40) DEF ValidReceipt
  <2> QED BY <2>8, <2>9, <2>10, <2>11, <2>12
<1>8. CASE x \notin DOMAIN a.requests
  <2>1. x = key
    BY <1>8 DEF Revision
  <2>2. /\ key.task \in DOMAIN b.tasks /\ rid \in DOMAIN b.records
        /\ key.principal = b.tasks[key.task].principal /\ b.tasks[key.task].site = b.records[rid].site
        /\ b.records[rid].revision = c.revision /\ c.kind \in MutationKinds
    BY DEF Revision, RevisedRecord
  <2>3. c.revision > Baseline(b, rid).through /\ c.revision <= b.records[rid].revision
    <3>1. Baseline(a, rid).through \in Nat /\ Baseline(a, rid).through <= a.records[rid].revision
      <4>1. CASE rid \in DOMAIN a.baselines
        BY <1>2, <4>1, BaselineWhole DEF Sound, SoundBaseline, Baseline
      <4>2. CASE rid \notin DOMAIN a.baselines
        BY <1>3, <4>2 DEF Baseline, NoBaseline
      <4> QED BY <4>1, <4>2
    <3> QED BY <1>1, <1>3, <1>6, <2>2, <3>1
  <2>4. ASSUME NEW l \in Receipts(b, rid), b.requests[l].revision = c.revision PROVE l = key
    <3>1. CASE l \in Receipts(a, rid)
      <4>1. b.requests[l] = a.requests[l]
        BY <1>5, <3>1 DEF Receipts
      <4>2. a.requests[l].revision \in Nat /\ a.requests[l].revision <= a.records[rid].revision
        BY <1>4, <3>1
      <4> QED BY <1>3, <1>6, <2>4, <4>1, <4>2
    <3> QED BY <1>1, <2>4, <3>1
  <2>5. CASE c.kind = "share"
    <3>1. c.grant \in DOMAIN b.grants /\ b.grants[c.grant].record = rid /\ b.grants[c.grant].issuerTask = key.task
      BY <2>5 DEF Revision, RevisedGrants
    <3> QED BY <1>6, <2>1, <2>2, <2>3, <2>4, <2>5, <3>1 DEF ValidReceipt
  <2>6. CASE c.kind = "revoke"
    <3>1. /\ c.grant \in DOMAIN a.grants /\ a.grants[c.grant].record = rid /\ b.grants[c.grant].revoked
          /\ b.grants[c.grant] = a.grants[c.grant] \/ b.grants[c.grant] = [a.grants[c.grant] EXCEPT !.revoked = TRUE]
          /\ c.grant \in DOMAIN b.grants
      BY <2>6 DEF Revision, RevisedGrants
    <3>2. DOMAIN a.grants[c.grant] = GrantFields
      BY <1>2, <3>1 DEF Whole, Formed
    <3>3. b.grants[c.grant].record = rid
      BY <3>1, <3>2 DEF GrantFields
    <3> QED BY <1>6, <2>1, <2>2, <2>3, <2>4, <2>6, <3>1, <3>3 DEF ValidReceipt
  <2>7. CASE c.kind = "delete"
    <3>1. b.records[rid].deleted
      BY <2>7 DEF Revision, RevisedRecord
    <3> QED BY <1>6, <2>1, <2>2, <2>3, <2>4, <2>7, <3>1 DEF ValidReceipt
  <2>8. CASE c.kind \notin {"share", "revoke", "delete"}
    BY <1>6, <2>1, <2>2, <2>3, <2>4, <2>8 DEF ValidReceipt, MutationKinds
  <2> QED BY <2>5, <2>6, <2>7, <2>8
<1> QED BY <1>7, <1>8

LEMMA RevisionCounts ==
    ASSUME NEW a, NEW b, NEW rid, NEW key, NEW c, Clean(a), Revision(a, b, rid, key, c),
           NEW x \in DOMAIN b.records
    PROVE  SoundCount(b, x)
<1>1. /\ \A y : Baseline(b, y) = Baseline(a, y)
      /\ \A y, k : k \in Receipts(b, y) <=> k \in Receipts(a, y) \/ (k = key /\ y = rid)
      /\ \A y, kind : (y # rid \/ c.kind # kind) => OfKind(b, y, kind) = OfKind(a, y, kind)
      /\ OfKind(b, rid, c.kind) = OfKind(a, rid, c.kind) \cup {key}
  BY RevisionReceipts
<1>2. /\ Whole(a) /\ x \in DOMAIN a.records /\ SoundCount(a, x)
      /\ Baseline(a, x).through \in Nat /\ Baseline(a, x).deletePruned \in BOOLEAN
      /\ Baseline(a, x).secretVersion \in Nat
  BY BaselineWhole DEF Clean, Good, Sound, Revision
<1>3. \A l \in DOMAIN a.requests : b.requests[l] = a.requests[l]
  BY DEF Revision
<1>4. b.requests[key] = c /\ key \notin DOMAIN a.requests
  BY DEF Revision
<1>5. CASE x # rid
  <2>1. b.records[x] = a.records[x]
    BY <1>2, <1>5 DEF Revision
  <2>2. \A kind : OfKind(b, x, kind) = OfKind(a, x, kind)
    BY <1>1, <1>5
  <2>3. \A k \in Receipts(a, x) : k \in Receipts(b, x) /\ b.requests[k] = a.requests[k]
    BY <1>1, <1>3 DEF Receipts
  <2> QED BY <1>1, <1>2, <2>1, <2>2, <2>3 DEF SoundCount
<1>6. CASE x = rid
  <2> DEFINE r == a.records[x]
             s == b.records[x]
             base == Baseline(a, x)
  <2>1. /\ s.revision = r.revision + 1
        /\ s.secretVersion = r.secretVersion + (IF c.kind = "patch" THEN 1 ELSE 0)
        /\ s.deleted = (c.kind = "delete") /\ ~r.deleted
        /\ c.revision = r.revision + 1 /\ c.kind \in MutationKinds
    BY <1>6 DEF Revision, RevisedRecord
  <2>2. r.revision \in Nat /\ r.secretVersion \in Nat
    BY <1>2 DEF Whole, Formed
  <2>3. /\ OfKind(a, x, "delete") = {} /\ ~base.deletePruned
        /\ \A n \in base.through + 1 .. r.revision : \E k \in Receipts(a, x) : a.requests[k].revision = n
        /\ OfKind(a, x, "create") # {} <=> base.through = 0
        /\ r.secretVersion = (IF base.through = 0 THEN 1 ELSE base.secretVersion)
                                + Cardinality(OfKind(a, x, "patch"))
    BY <1>2, <2>1 DEF SoundCount
  <2>4. \A n \in base.through + 1 .. s.revision : \E k \in Receipts(b, x) : b.requests[k].revision = n
    <3> SUFFICES ASSUME NEW n \in base.through + 1 .. s.revision
                 PROVE  \E k \in Receipts(b, x) : b.requests[k].revision = n
      OBVIOUS
    <3>1. CASE n = r.revision + 1
      BY <1>1, <1>4, <1>6, <2>1, <3>1
    <3>2. CASE n # r.revision + 1
      <4>1. n \in base.through + 1 .. r.revision
        BY <1>2, <2>1, <2>2, <3>2
      <4>2. PICK k \in Receipts(a, x) : a.requests[k].revision = n
        BY <2>3, <4>1
      <4>3. k \in Receipts(b, x) /\ b.requests[k] = a.requests[k]
        BY <1>1, <1>3, <4>2 DEF Receipts
      <4> QED BY <4>2, <4>3
    <3> QED BY <3>1, <3>2
  <2>5. OfKind(b, x, "create") = OfKind(a, x, "create")
    BY <1>1, <2>1 DEF MutationKinds
  <2>6. OfKind(b, x, "delete") # {} <=> c.kind = "delete"
    BY <1>1, <1>6, <2>3
  <2>7. s.secretVersion = (IF base.through = 0 THEN 1 ELSE base.secretVersion)
                            + Cardinality(OfKind(b, x, "patch"))
    <3>1. IsFiniteSet(OfKind(a, x, "patch")) /\ key \notin OfKind(a, x, "patch")
      <4>1. OfKind(a, x, "patch") \subseteq DOMAIN a.requests
        BY DEF OfKind, Receipts
      <4> QED BY <1>2, <1>4, <4>1, FS_Subset DEF Whole
    <3>2. Cardinality(OfKind(a, x, "patch")) \in Nat
      BY <3>1, FS_CardinalityType
    <3>3. CASE c.kind = "patch"
      <4>1. OfKind(b, x, "patch") = OfKind(a, x, "patch") \cup {key}
        BY <1>1, <1>6, <3>3
      <4>2. Cardinality(OfKind(b, x, "patch")) = Cardinality(OfKind(a, x, "patch")) + 1
        BY <3>1, <4>1, FS_AddElement
      <4> QED BY <1>2, <2>1, <2>3, <3>2, <3>3, <4>2
    <3>4. CASE c.kind # "patch"
      <4>1. OfKind(b, x, "patch") = OfKind(a, x, "patch")
        BY <1>1, <3>4
      <4> QED BY <1>2, <2>1, <2>2, <2>3, <3>4, <4>1
    <3> QED BY <3>3, <3>4
  <2>8. Baseline(b, x) = base
    BY <1>1
  <2> HIDE DEF base, r
  <2> QED BY <2>1, <2>3, <2>4, <2>5, <2>6, <2>7, <2>8 DEF SoundCount
<1> QED BY <1>5, <1>6

LEMMA RevisionSound ==
    ASSUME NEW a, NEW b, NEW rid, NEW key, NEW c, Clean(a), Revision(a, b, rid, key, c)
    PROVE  Sound(b)
<1>1. Sound(a) /\ Whole(a)
  BY DEF Clean, Good
<1>2. /\ b.tasks = a.tasks /\ b.revokedTasks = a.revokedTasks /\ b.deliveries = a.deliveries
      /\ b.baselines = a.baselines /\ DOMAIN b.records = DOMAIN a.records
      /\ b.requests[key] = c /\ DOMAIN b.requests = DOMAIN a.requests \cup {key}
      /\ \A k \in DOMAIN a.requests : b.requests[k] = a.requests[k]
  BY DEF Revision
<1>3. \A x \in DOMAIN a.records :
        /\ b.records[x].site = a.records[x].site /\ b.records[x].kind = a.records[x].kind
        /\ a.records[x].revision <= b.records[x].revision
        /\ a.records[x].secretVersion <= b.records[x].secretVersion
        /\ b.records[x].secretVersion \in Nat /\ b.records[x].revision \in Nat
  <2> SUFFICES ASSUME NEW x \in DOMAIN a.records
               PROVE  /\ b.records[x].site = a.records[x].site /\ b.records[x].kind = a.records[x].kind
                      /\ a.records[x].revision <= b.records[x].revision
                      /\ a.records[x].secretVersion <= b.records[x].secretVersion
                      /\ b.records[x].secretVersion \in Nat /\ b.records[x].revision \in Nat
    OBVIOUS
  <2>1. a.records[x].revision \in Nat /\ a.records[x].secretVersion \in Nat
    BY <1>1 DEF Whole, Formed
  <2>2. CASE x # rid
    BY <2>1, <2>2 DEF Revision
  <2>3. CASE x = rid
    BY <2>1, <2>3 DEF Revision, RevisedRecord
  <2> QED BY <2>2, <2>3
<1>4. \A g \in DOMAIN a.grants : g \in DOMAIN b.grants /\ b.grants[g].record = a.grants[g].record
  <2> SUFFICES ASSUME NEW g \in DOMAIN a.grants
               PROVE  g \in DOMAIN b.grants /\ b.grants[g].record = a.grants[g].record
    OBVIOUS
  <2>1. /\ DOMAIN a.grants[g] = GrantFields
        /\ b.grants[g] = a.grants[g] \/ b.grants[g] = [a.grants[g] EXCEPT !.revoked = TRUE]
        /\ g \in DOMAIN b.grants
    BY <1>1 DEF Revision, RevisedGrants, Whole, Formed
  <2> QED BY <2>1 DEF GrantFields
<1>5. ASSUME NEW x \in DOMAIN b.baselines PROVE SoundBaseline(b, x)
  <2> DEFINE base == a.baselines[x]
  <2>1. SoundBaseline(a, x) /\ b.baselines[x] = base /\ base.through \in Nat
    BY <1>1, <1>2 DEF Sound, Whole
  <2>2. x \in DOMAIN a.records /\ a.records[x].revision \in Nat /\ base.through <= b.records[x].revision
    <3>1. x \in DOMAIN a.records /\ base.through <= a.records[x].revision
      BY <2>1 DEF SoundBaseline
    <3>2. a.records[x].revision \in Nat
      BY <1>1, <3>1 DEF Whole, Formed
    <3> QED BY <1>3, <2>1, <3>1, <3>2
  <2>3. ASSUME NEW g \in base.prunedGrants
        PROVE  /\ g \in DOMAIN b.grants /\ b.grants[g].record = x
               /\ \A k \in DOMAIN b.requests : b.requests[k].kind = "share" => b.requests[k].grant # g
    <3>1. /\ g \in DOMAIN a.grants /\ a.grants[g].record = x
          /\ \A k \in DOMAIN a.requests : a.requests[k].kind = "share" => a.requests[k].grant # g
      BY <2>1 DEF SoundBaseline
    <3>2. c.kind = "share" => c.grant # g
      BY <3>1 DEF Revision, RevisedGrants
    <3> QED BY <1>2, <1>4, <3>1, <3>2
  <2> HIDE DEF base
  <2> QED BY <1>2, <2>1, <2>2, <2>3 DEF SoundBaseline, base
<1>6. ASSUME NEW g \in DOMAIN b.grants PROVE Listed(b, g)
  <2>1. CASE g \in DOMAIN a.grants
    BY <1>1, <1>2, <2>1 DEF Sound, Listed
  <2>2. CASE g \notin DOMAIN a.grants
    <3>1. c.kind = "share" /\ g = c.grant
      BY <2>2 DEF Revision, RevisedGrants
    <3> QED BY <1>2, <3>1 DEF Listed
  <2> QED BY <2>1, <2>2
<1>7. ASSUME NEW id \in DOMAIN b.deliveries PROVE ValidDelivery(b, id)
  <2> DEFINE d == a.deliveries[id]
  <2>1. ValidDelivery(a, id) /\ b.deliveries[id] = d /\ d.version \in Nat /\ d.record \in DOMAIN a.records
        /\ a.records[d.record].secretVersion \in Nat /\ d.key # key
    BY <1>1, <1>2 DEF Sound, Whole, ValidDelivery, Revision
  <2>2. d.version <= b.records[d.record].secretVersion
    <3>1. d.version <= a.records[d.record].secretVersion
      BY <2>1 DEF ValidDelivery
    <3>2. /\ a.records[d.record].secretVersion <= b.records[d.record].secretVersion
          /\ b.records[d.record].secretVersion \in Nat
      BY <1>3, <2>1
    <3> HIDE DEF d
    <3> QED BY <2>1, <3>1, <3>2
  <2>3. d.key \notin DOMAIN b.requests
    BY <1>2, <2>1 DEF ValidDelivery
  <2>4. b.records[d.record].site = a.records[d.record].site /\ b.records[d.record].kind = a.records[d.record].kind
    BY <1>3, <2>1
  <2> HIDE DEF d
  <2> QED BY <1>2, <2>1, <2>2, <2>3, <2>4 DEF ValidDelivery, d
<1>8. /\ \A tid \in DOMAIN b.tasks : ApprovalValid(b.tasks[tid], 0)
      /\ b.revokedTasks \subseteq DOMAIN b.tasks
  BY <1>1, <1>2 DEF Sound
<1> QED BY <1>5, <1>6, <1>7, <1>8, RevisionRecords, RevisionGrants, RevisionIssued, RevisionCounts DEF Sound

LEMMA RevisionClean ==
    ASSUME NEW a, NEW b, NEW rid, NEW key, NEW c, Clean(a), Revision(a, b, rid, key, c)
    PROVE  Clean(b)
<1>1. Whole(b) /\ Sound(b)
  BY RevisionWhole, RevisionSound
<1>2. /\ Whole(a) /\ Sound(a) /\ Lasting(a) /\ Sized(a) /\ Dated(a)
      /\ a.clockFrozen => a.lastTime # 0
      /\ \A i \in DOMAIN a.audit : EventSupported(a, a.audit[i])
  BY DEF Clean, Good
<1>3. /\ b.tasks = a.tasks /\ b.deliveries = a.deliveries /\ b.audit = a.audit
      /\ b.lastTime = a.lastTime /\ b.clockFrozen = a.clockFrozen /\ DOMAIN b.records = DOMAIN a.records
      /\ b.requests[key] = c /\ DOMAIN b.requests = DOMAIN a.requests \cup {key} /\ key \notin DOMAIN a.requests
      /\ \A k \in DOMAIN a.requests : b.requests[k] = a.requests[k]
      /\ rid \in DOMAIN a.records /\ ~a.records[rid].deleted /\ c.record = rid
      /\ \A x \in DOMAIN a.records \ {rid} : b.records[x] = a.records[x]
      /\ b.records[rid].site = a.records[rid].site /\ b.records[rid].signup # "verified_login"
      /\ c.revision = b.records[rid].revision
  BY DEF Revision, RevisedRecord
<1>4. Lasting(b)
  <2>1. ASSUME NEW k \in DOMAIN b.requests, b.requests[k].kind = "delete"
        PROVE  b.requests[k].revision = b.records[b.requests[k].record].revision
    <3>1. CASE k = key
      BY <1>3, <3>1
    <3>2. CASE k \in DOMAIN a.requests
      <4>1. /\ a.requests[k].kind = "delete" /\ ValidReceipt(a, k)
            /\ a.requests[k].revision = a.records[a.requests[k].record].revision
        BY <1>2, <1>3, <2>1, <3>2 DEF Lasting, Sound
      <4>2. a.records[a.requests[k].record].deleted /\ a.requests[k].record \in DOMAIN a.records
        BY <4>1 DEF ValidReceipt
      <4> QED BY <1>3, <3>2, <4>1, <4>2
    <3> QED BY <1>3, <3>1, <3>2
  <2>2. ASSUME NEW k \in DOMAIN b.requests, NEW l \in DOMAIN b.requests,
               b.requests[k].kind = "share", b.requests[l].kind = "share", b.requests[k].grant = b.requests[l].grant
        PROVE  k = l
    <3>1. \A m \in DOMAIN a.requests : a.requests[m].kind = "share" => a.requests[m].grant \in DOMAIN a.grants
      <4> SUFFICES ASSUME NEW m \in DOMAIN a.requests, a.requests[m].kind = "share"
                   PROVE  a.requests[m].grant \in DOMAIN a.grants
        OBVIOUS
      <4>1. ValidReceipt(a, m)
        BY <1>2 DEF Sound
      <4> QED BY <4>1 DEF ValidReceipt
    <3>2. c.kind = "share" => c.grant \notin DOMAIN a.grants
      BY DEF Revision, RevisedGrants
    <3>3. CASE k \in DOMAIN a.requests /\ l \in DOMAIN a.requests
      BY <1>2, <1>3, <2>2, <3>3 DEF Lasting
    <3> QED BY <1>3, <2>2, <3>1, <3>2, <3>3
  <2>3. \A x \in DOMAIN b.records : b.records[x].signup # "verified_login"
    BY <1>2, <1>3 DEF Lasting
  <2> QED BY <2>1, <2>2, <2>3 DEF Lasting
<1>5. Sized(b)
  <2>1. Cardinality(DOMAIN b.requests) <= Limit
    <3>1. IsFiniteSet(DOMAIN a.requests) /\ Cardinality(DOMAIN a.requests) < Limit
      BY <1>2 DEF Whole, Revision
    <3>2. Cardinality(DOMAIN b.requests) = Cardinality(DOMAIN a.requests) + 1
      BY <1>3, <3>1, FS_AddElement
    <3> QED BY <3>1, <3>2, FS_CardinalityType, PolicyConstants
  <2>2. Cardinality(DOMAIN b.grants) <= Limit
    <3>1. CASE c.kind # "share"
      <4>1. DOMAIN b.grants = DOMAIN a.grants
        BY <3>1 DEF Revision, RevisedGrants
      <4> QED BY <1>2, <4>1 DEF Sized
    <3>2. CASE c.kind = "share"
      <4>1. /\ DOMAIN b.grants = DOMAIN a.grants \cup {c.grant} /\ c.grant \notin DOMAIN a.grants
            /\ Cardinality(DOMAIN a.grants) < Limit
        BY <3>2 DEF Revision, RevisedGrants
      <4>2. IsFiniteSet(DOMAIN a.grants)
        BY <1>2 DEF Whole
      <4>3. Cardinality(DOMAIN b.grants) = Cardinality(DOMAIN a.grants) + 1
        BY <4>1, <4>2, FS_AddElement
      <4> QED BY <4>1, <4>2, <4>3, FS_CardinalityType, PolicyConstants
    <3> QED BY <3>1, <3>2
  <2> QED BY <1>2, <1>3, <2>1, <2>2 DEF Sized
<1>6. Dated(b)
  <2>1. \A x \in DOMAIN a.records : b.records[x].site = a.records[x].site
    BY <1>3
  <2> QED BY <1>2, <1>3, <2>1 DEF Dated
<1>7. \A i \in DOMAIN b.audit : EventSupported(b, b.audit[i])
  <2> SUFFICES ASSUME NEW i \in DOMAIN b.audit PROVE EventSupported(b, b.audit[i])
    OBVIOUS
  <2>1. EventSupported(a, b.audit[i])
    BY <1>2, <1>3
  <2> QED BY <1>3, <2>1 DEF EventSupported
<1> QED BY <1>1, <1>2, <1>3, <1>4, <1>5, <1>6, <1>7 DEF Clean, Good

-----------------------------------------------------------------------------
(* What changes little: the clock, the generation, the audit stream, the   *)
(* approvals.                                                              *)

\* What validate() says of the collections does not depend on the rest.
LEMMA LikeSound ==
    ASSUME NEW a, NEW b, Sound(a), Lasting(a), Sized(a), Like(a, b)
    PROVE  Sound(b) /\ Lasting(b) /\ Sized(b)
<1>1. \A x : Receipts(b, x) = Receipts(a, x) /\ Baseline(b, x) = Baseline(a, x)
  BY DEF Receipts, Baseline, Like
<1>2. /\ \A x \in DOMAIN b.records : ValidRecord(b, b.records[x])
      /\ \A g \in DOMAIN b.grants : ValidGrant(b, b.grants[g])
      /\ \A id \in DOMAIN b.deliveries : ValidDelivery(b, id)
      /\ \A g \in DOMAIN b.grants : Listed(b, g)
      /\ \A x \in DOMAIN b.baselines : SoundBaseline(b, x)
  <2>1. ASSUME NEW x \in DOMAIN b.records PROVE ValidRecord(b, b.records[x])
    <3>1. ValidRecord(a, b.records[x])
      BY DEF Sound, Like
    <3> QED BY <3>1 DEF ValidRecord, Like
  <2>2. ASSUME NEW g \in DOMAIN b.grants PROVE ValidGrant(b, b.grants[g])
    <3>1. ValidGrant(a, b.grants[g])
      BY DEF Sound, Like
    <3> QED BY <3>1 DEF ValidGrant, Like
  <2>3. ASSUME NEW id \in DOMAIN b.deliveries PROVE ValidDelivery(b, id)
    <3>1. ValidDelivery(a, id)
      BY DEF Sound, Like
    <3> QED BY <3>1 DEF ValidDelivery, Like
  <2>4. \A g \in DOMAIN b.grants : Listed(b, g)
    BY DEF Sound, Listed, Like
  <2>5. ASSUME NEW x \in DOMAIN b.baselines PROVE SoundBaseline(b, x)
    <3>1. SoundBaseline(a, x)
      BY DEF Sound, Like
    <3> QED BY <3>1 DEF SoundBaseline, Like
  <2> QED BY <2>1, <2>2, <2>3, <2>4, <2>5
<1>3. \A key \in DOMAIN b.requests : ValidReceipt(b, key)
  <2> SUFFICES ASSUME NEW key \in DOMAIN b.requests PROVE ValidReceipt(b, key)
    OBVIOUS
  <2>1. ValidReceipt(a, key)
    BY DEF Sound, Like
  <2> QED BY <1>1, <2>1 DEF ValidReceipt, Like
<1>4. \A x \in DOMAIN b.records : SoundCount(b, x)
  <2>1. \A x, kind : OfKind(b, x, kind) = OfKind(a, x, kind)
    BY <1>1 DEF OfKind, Like
  <2> QED BY <1>1, <2>1 DEF Sound, SoundCount, Like
<1>5. Sound(b)
  BY <1>2, <1>3, <1>4 DEF Sound, Like
<1> QED BY <1>5 DEF Lasting, Sized, Like

LEMMA TimedClean ==
    ASSUME NEW a, NEW b, Clean(a), Like(a, b), b = [f \in AppFields |-> b[f]], b.audit = a.audit,
           b.lastTime \in Nat, a.lastTime <= b.lastTime, b.clockFrozen \in BOOLEAN,
           b.clockFrozen => b.lastTime # 0
    PROVE  Clean(b)
<1>1. /\ Whole(a) /\ Formed(a) /\ Sound(a) /\ Lasting(a) /\ Sized(a) /\ Dated(a)
      /\ \A i \in DOMAIN a.audit : EventSupported(a, a.audit[i])
  BY DEF Clean, Good, Whole
<1>2. Formed(b)
  BY <1>1 DEF Formed, Like
<1>3. Whole(b)
  BY <1>1, <1>2 DEF Whole, Like
<1>9. Sound(b) /\ Lasting(b) /\ Sized(b)
  BY <1>1, LikeSound
<1>10. Dated(b)
  <2> SUFFICES ASSUME NEW i \in DOMAIN a.audit PROVE a.audit[i].at <= b.lastTime
    BY <1>1 DEF Dated, Like
  <2>1. a.audit[i].at <= a.lastTime /\ a.audit[i].at \in Nat /\ a.lastTime \in Nat
    <3>1. a.audit \in Seq(Events)
      BY <1>1 DEF Whole
    <3>2. a.audit[i] \in Events
      BY <3>1
    <3> QED BY <1>1, <3>2 DEF Dated, Events, Formed
  <2> QED BY <2>1
<1>11. \A i \in DOMAIN b.audit : EventSupported(b, b.audit[i])
  BY <1>1 DEF EventSupported, Like
<1> QED BY <1>3, <1>9, <1>10, <1>11 DEF Clean, Good

LEMMA PublishedClean ==
    ASSUME NEW a, Clean(a), NEW n
    PROVE  Clean([a EXCEPT !.generation = n])
<1> DEFINE b == [a EXCEPT !.generation = n]
<1>1. /\ a = [f \in AppFields |-> a[f]] /\ a.lastTime \in Nat /\ a.clockFrozen \in BOOLEAN
      /\ a.clockFrozen => a.lastTime # 0
  BY DEF Clean, Good, Whole, Formed
<1>2. /\ Like(a, b) /\ b = [f \in AppFields |-> b[f]] /\ b.audit = a.audit
      /\ b.lastTime = a.lastTime /\ b.clockFrozen = a.clockFrozen
  BY <1>1 DEF Like, AppFields
<1> HIDE DEF b
<1>3. Clean(b)
  BY <1>1, <1>2, TimedClean
<1> QED BY <1>3 DEF b

LEMMA LaterClean ==
    ASSUME NEW a, Clean(a), NEW n \in Nat, a.lastTime <= n
    PROVE  Clean([a EXCEPT !.lastTime = n])
<1> DEFINE b == [a EXCEPT !.lastTime = n]
<1>1. /\ a = [f \in AppFields |-> a[f]] /\ a.lastTime \in Nat /\ a.clockFrozen \in BOOLEAN
      /\ a.clockFrozen => a.lastTime # 0
  BY DEF Clean, Good, Whole, Formed
<1>2. /\ Like(a, b) /\ b = [f \in AppFields |-> b[f]] /\ b.audit = a.audit
      /\ b.lastTime = n /\ b.clockFrozen = a.clockFrozen
  BY <1>1 DEF Like, AppFields
<1> HIDE DEF b
<1>3. b.clockFrozen => b.lastTime # 0
  BY <1>1, <1>2
<1>4. Clean(b)
  BY <1>1, <1>2, <1>3, TimedClean
<1> QED BY <1>4 DEF b

LEMMA ClockClean ==
    ASSUME NEW a, Clean(a), NEW n \in Nat
    PROVE  Clean(Clock(a, n))
<1>1. a.lastTime \in Nat /\ a.clockFrozen \in BOOLEAN /\ a = [f \in AppFields |-> a[f]]
      /\ (a.clockFrozen => a.lastTime # 0)
  BY DEF Clean, Good, Whole, Formed
<1>2. CASE ClockAccepts(a, n)
  <2>1. EffectiveTime(a, n) \in Nat /\ a.lastTime <= EffectiveTime(a, n)
    BY <1>1 DEF EffectiveTime
  <2> QED BY <1>2, <2>1, LaterClean DEF Clock
<1>3. CASE ~ClockAccepts(a, n)
  <2> DEFINE b == [a EXCEPT !.clockFrozen = TRUE]
  <2>1. a.lastTime # 0
    <3>1. a.clockFrozen \/ ~(n >= a.lastTime)
      BY <1>3 DEF ClockAccepts
    <3> QED BY <1>1, <3>1
  <2>2. /\ Like(a, b) /\ b = [f \in AppFields |-> b[f]] /\ b.audit = a.audit
        /\ b.lastTime = a.lastTime /\ b.clockFrozen = TRUE
    BY <1>1 DEF Like, AppFields
  <2>3. Clock(a, n) = b
    BY <1>3 DEF Clock
  <2> HIDE DEF b
  <2>4. a.lastTime <= a.lastTime
    BY <1>1
  <2>5. b.lastTime \in Nat /\ a.lastTime <= b.lastTime /\ (b.clockFrozen => b.lastTime # 0)
    BY <1>1, <2>1, <2>2, <2>4, Zenon
  <2>6. b.clockFrozen \in BOOLEAN
    BY <2>2, Zenon
  <2>7. Clean(b)
    BY <2>2, <2>5, <2>6, TimedClean
  <2> QED BY <2>3, <2>7
<1> QED BY <1>2, <1>3

LEMMA AuditClean ==
    ASSUME NEW a, Clean(a), NEW e \in Events, EventSupported(a, e),
           a.tasks[e.task].site = a.records[e.record].site, e.at <= a.lastTime
    PROVE  Clean(Audit(a, e))
<1> DEFINE b == Audit(a, e)
           kept == IF Len(a.audit) = AuditCap THEN Tail(a.audit) ELSE a.audit
<1>1. /\ Whole(a) /\ Formed(a) /\ Sound(a) /\ Lasting(a) /\ Sized(a) /\ Dated(a)
      /\ \A i \in DOMAIN a.audit : EventSupported(a, a.audit[i])
      /\ a.clockFrozen => a.lastTime # 0
  BY DEF Clean, Good, Whole
<1>2. b = [a EXCEPT !.audit = Append(kept, e)]
  BY DEF Audit
<1>3. a.audit \in Seq(Events) /\ Len(a.audit) <= AuditCap /\ AuditCap \in Nat \ {0}
  BY <1>1, PolicyConstants DEF Whole
<1>4. /\ kept \in Seq(Events) /\ Len(kept) \in Nat /\ Len(kept) + 1 <= AuditCap
      /\ \A i \in DOMAIN kept : \E j \in DOMAIN a.audit : kept[i] = a.audit[j]
  <2> HIDE DEF Events
  <2>1. CASE Len(a.audit) = AuditCap
    <3>1. kept = Tail(a.audit) /\ a.audit # <<>>
      BY <1>3, <2>1
    <3>2. kept \in Seq(Events) /\ Len(kept) = Len(a.audit) - 1
      <4> HIDE DEF kept
      <4>1. \A s \in Seq(Events) : s # <<>> => Tail(s) \in Seq(Events) /\ Len(Tail(s)) = Len(s) - 1
        OBVIOUS
      <4> QED BY <1>3, <3>1, <4>1
    <3>3. \A i \in DOMAIN kept : i + 1 \in DOMAIN a.audit /\ kept[i] = a.audit[i + 1]
      BY <1>3, <3>1, <3>2
    <3> QED BY <1>3, <2>1, <3>2, <3>3
  <2>2. CASE Len(a.audit) # AuditCap
    <3>1. kept = a.audit
      BY <2>2
    <3> QED BY <1>3, <2>2, <3>1
  <2> QED BY <2>1, <2>2
<1> HIDE DEF kept, b
<1>5. /\ b = [f \in AppFields |-> b[f]] /\ Like(a, b) /\ b.audit = Append(kept, e)
      /\ b.lastTime = a.lastTime /\ b.clockFrozen = a.clockFrozen
  BY <1>1, <1>2 DEF Formed, Like, AppFields
<1>6. /\ b.audit \in Seq(Events) /\ Len(b.audit) <= AuditCap
      /\ \A i \in DOMAIN b.audit : b.audit[i] = e \/ \E j \in DOMAIN a.audit : b.audit[i] = a.audit[j]
  <2> HIDE DEF Events
  <2>1. b.audit \in Seq(Events) /\ Len(b.audit) = Len(kept) + 1
    <3>1. kept \in Seq(Events) /\ e \in Events /\ b.audit = Append(kept, e)
      BY <1>4, <1>5
    <3> QED BY <3>1
  <2>2. \A i \in DOMAIN b.audit : b.audit[i] = e \/ (i \in DOMAIN kept /\ b.audit[i] = kept[i])
    BY <1>4, <1>5, <2>1
  <2> QED BY <1>4, <2>1, <2>2
<1>7. /\ \A i \in DOMAIN b.audit : EventSupported(a, b.audit[i])
      /\ \A i \in DOMAIN b.audit :
            /\ b.audit[i].at <= a.lastTime
            /\ a.tasks[b.audit[i].task].site = a.records[b.audit[i].record].site
  <2>1. \A j \in DOMAIN a.audit :
            /\ a.audit[j].at <= a.lastTime
            /\ a.tasks[a.audit[j].task].site = a.records[a.audit[j].record].site
    BY <1>1 DEF Dated, EventSupported
  <2> QED BY <1>1, <1>6, <2>1
<1>9. Whole(b) /\ Sound(b) /\ Lasting(b) /\ Sized(b)
  <2>1. Formed(b)
    BY <1>1, <1>5 DEF Formed, Like
  <2>2. Whole(b)
    BY <1>1, <1>5, <1>6, <2>1 DEF Whole, Like
  <2> QED BY <1>1, <1>5, <2>2, LikeSound
<1>10. Dated(b) /\ \A i \in DOMAIN b.audit : EventSupported(b, b.audit[i])
  BY <1>5, <1>7 DEF Dated, EventSupported, Like
<1>11. Clean(b)
  BY <1>1, <1>5, <1>9, <1>10 DEF Clean, Good
<1> QED BY <1>11 DEF b

-----------------------------------------------------------------------------
(* The approvals of the supervisor.                                        *)

\* The times of a task, which validate() does not look at twice.
Bounded(t) == t.expiresAt \in Nat /\ (t.share # None => t.share.expiresAt \in Nat)

\* n is m with one entry more.
Extends(m, n, key, value) ==
    /\ DOMAIN n = DOMAIN m \cup {key} /\ n[key] = value
    /\ \A k \in DOMAIN m : n[k] = m[k]

LEMMA InsertedIs ==
    ASSUME NEW m, NEW key, NEW value, key \notin DOMAIN m
    PROVE  Extends(m, Inserted(m, key, value), key, value)
BY DEF Inserted, Extends

LEMMA ApproveClean ==
    ASSUME NEW a, Clean(a), NEW ctx, NEW id, NEW t, NEW at \in Nat,
           MayApprove(a, ctx, id, t, at), Bounded(t)
    PROVE  Clean(ApproveTask(a, id, t))
<1> DEFINE b == ApproveTask(a, id, t)
           tasks == Inserted(a.tasks, id, t)
<1>1. /\ Whole(a) /\ Formed(a) /\ Sound(a) /\ Lasting(a) /\ Sized(a) /\ Dated(a)
      /\ \A i \in DOMAIN a.audit : EventSupported(a, a.audit[i])
      /\ a.clockFrozen => a.lastTime # 0
  BY DEF Clean, Good, Whole
<1>2. b = [a EXCEPT !.tasks = tasks]
  BY DEF ApproveTask
<1>0. t.expiresAt \in Nat
  BY DEF Bounded
<1>3. id \notin DOMAIN a.tasks /\ ApprovalValid(t, at) /\ Cardinality(DOMAIN a.tasks) < Limit
  BY DEF MayApprove
<1>4. /\ DOMAIN tasks = DOMAIN a.tasks \cup {id} /\ tasks[id] = t
      /\ \A u \in DOMAIN a.tasks : tasks[u] = a.tasks[u]
  <2>1. Extends(a.tasks, tasks, id, t)
    BY <1>3, InsertedIs
  <2> QED BY <2>1 DEF Extends
<1> HIDE DEF b, tasks
<1>5. /\ b = [f \in AppFields |-> b[f]] /\ b.lastTime = a.lastTime /\ b.clockFrozen = a.clockFrozen
      /\ b.tasks = tasks /\ b.records = a.records /\ b.grants = a.grants /\ b.requests = a.requests
      /\ b.deliveries = a.deliveries /\ b.baselines = a.baselines /\ b.revokedTasks = a.revokedTasks
      /\ b.audit = a.audit
  BY <1>1, <1>2 DEF Formed, AppFields
<1>6. /\ IsFiniteSet(DOMAIN b.tasks) /\ Cardinality(DOMAIN b.tasks) <= Limit
  <2>1. IsFiniteSet(DOMAIN a.tasks)
    BY <1>1 DEF Formed
  <2>2. IsFiniteSet(DOMAIN b.tasks) /\ Cardinality(DOMAIN b.tasks) = Cardinality(DOMAIN a.tasks) + 1
    BY <1>3, <1>4, <1>5, <2>1, FS_AddElement
  <2>3. Cardinality(DOMAIN a.tasks) \in Nat /\ Limit \in Nat
    BY <2>1, FS_CardinalityType, PolicyConstants
  <2> QED BY <1>3, <2>2, <2>3
<1>7. \A u \in DOMAIN a.tasks : u \in DOMAIN b.tasks /\ b.tasks[u] = a.tasks[u]
  BY <1>4, <1>5
<1>8. Formed(b)
  <2>1. \A u \in DOMAIN b.tasks : b.tasks[u].expiresAt \in Nat
    BY <1>0, <1>1, <1>4, <1>5 DEF Formed
  <2> QED BY <1>1, <1>5, <1>6, <2>1 DEF Formed
<1>9. Whole(b)
  BY <1>1, <1>5, <1>8 DEF Whole
<1>10. \A x : Receipts(b, x) = Receipts(a, x) /\ Baseline(b, x) = Baseline(a, x)
  BY <1>5 DEF Receipts, Baseline
<1>11. ApprovalValid(t, 0)
  <2>1. \A n \in Nat : n > at => n > 0
    OBVIOUS
  <2>2. t.expiresAt > 0 /\ t.fields # {} /\ t.permissions # {}
    BY <1>0, <1>3, <2>1 DEF ApprovalValid
  <2>3. t.share # None => ShareBoundsValid(t, 0)
    BY <1>3, <2>1 DEF ApprovalValid, ShareBoundsValid, Bounded
  <2> QED BY <2>2, <2>3 DEF ApprovalValid
<1>12. Sound(b)
  <2>1. \A u \in DOMAIN b.tasks : ApprovalValid(b.tasks[u], 0)
    BY <1>1, <1>4, <1>5, <1>11 DEF Sound
  <2>2. b.revokedTasks \subseteq DOMAIN b.tasks
    BY <1>1, <1>4, <1>5 DEF Sound
  <2>3. ASSUME NEW x \in DOMAIN b.records PROVE ValidRecord(b, b.records[x])
    <3>1. ValidRecord(a, b.records[x])
      BY <1>1, <1>5 DEF Sound
    <3> QED BY <1>7, <3>1 DEF ValidRecord
  <2>4. ASSUME NEW g \in DOMAIN b.grants PROVE ValidGrant(b, b.grants[g])
    <3>1. ValidGrant(a, b.grants[g])
      BY <1>1, <1>5 DEF Sound
    <3>2. b.grants[g].issuerTask \in DOMAIN a.tasks
      BY <3>1 DEF ValidGrant
    <3> QED BY <1>5, <1>7, <3>1, <3>2 DEF ValidGrant
  <2>5. ASSUME NEW key \in DOMAIN b.requests PROVE ValidReceipt(b, key)
    <3>1. ValidReceipt(a, key)
      BY <1>1, <1>5 DEF Sound
    <3> QED BY <1>5, <1>7, <1>10, <3>1 DEF ValidReceipt
  <2>6. ASSUME NEW x \in DOMAIN b.baselines PROVE SoundBaseline(b, x)
    <3>1. SoundBaseline(a, x)
      BY <1>1, <1>5 DEF Sound
    <3> QED BY <1>5, <3>1 DEF SoundBaseline
  <2>7. ASSUME NEW x \in DOMAIN b.records PROVE SoundCount(b, x)
    <3>1. SoundCount(a, x)
      BY <1>1, <1>5 DEF Sound
    <3>2. \A kind : OfKind(b, x, kind) = OfKind(a, x, kind)
      BY <1>5, <1>10 DEF OfKind
    <3> QED BY <1>5, <1>10, <3>1, <3>2 DEF SoundCount
  <2>8. \A g \in DOMAIN b.grants : Listed(b, g)
    BY <1>1, <1>5 DEF Sound, Listed
  <2>9. ASSUME NEW d \in DOMAIN b.deliveries PROVE ValidDelivery(b, d)
    <3>1. ValidDelivery(a, d)
      BY <1>1, <1>5 DEF Sound
    <3>2. a.deliveries[d].task \in DOMAIN a.tasks
      BY <3>1 DEF ValidDelivery
    <3> QED BY <1>5, <1>7, <3>1, <3>2 DEF ValidDelivery
  <2> QED BY <2>1, <2>2, <2>3, <2>4, <2>5, <2>6, <2>7, <2>8, <2>9 DEF Sound
<1>13. Lasting(b) /\ Sized(b)
  BY <1>1, <1>5, <1>6 DEF Lasting, Sized
<1>14. \A i \in DOMAIN b.audit : EventSupported(b, b.audit[i])
  <2> SUFFICES ASSUME NEW i \in DOMAIN b.audit PROVE EventSupported(b, b.audit[i])
    OBVIOUS
  <2>1. EventSupported(a, b.audit[i])
    BY <1>1, <1>5
  <2> QED BY <1>5, <1>7, <2>1 DEF EventSupported
<1>15. Dated(b)
  <2> SUFFICES ASSUME NEW i \in DOMAIN b.audit
               PROVE  /\ b.audit[i].at <= b.lastTime
                      /\ b.tasks[b.audit[i].task].site = b.records[b.audit[i].record].site
    BY DEF Dated
  <2>1. EventSupported(a, b.audit[i])
    BY <1>1, <1>5
  <2>2. b.audit[i].task \in DOMAIN a.tasks /\ b.audit[i].record \in DOMAIN a.records
    BY <2>1 DEF EventSupported
  <2>3. /\ a.audit[i].at <= a.lastTime
        /\ a.tasks[a.audit[i].task].site = a.records[a.audit[i].record].site
    BY <1>1, <1>5, <2>2 DEF Dated
  <2> QED BY <1>5, <1>7, <2>2, <2>3
<1>16. Clean(b)
  BY <1>1, <1>5, <1>9, <1>12, <1>13, <1>14, <1>15 DEF Clean, Good
<1> QED BY <1>16 DEF b

LEMMA RevokeClean ==
    ASSUME NEW a, Clean(a), NEW id \in DOMAIN a.tasks
    PROVE  Clean(RevokeTask(a, id))
<1> DEFINE b == RevokeTask(a, id)
<1>1. /\ Whole(a) /\ Formed(a) /\ Sound(a) /\ Lasting(a) /\ Sized(a) /\ Dated(a)
      /\ \A i \in DOMAIN a.audit : EventSupported(a, a.audit[i])
      /\ a.clockFrozen => a.lastTime # 0
  BY DEF Clean, Good, Whole
<1>2. /\ b = [f \in AppFields |-> b[f]] /\ b.lastTime = a.lastTime /\ b.clockFrozen = a.clockFrozen
      /\ b.tasks = a.tasks /\ b.records = a.records /\ b.grants = a.grants /\ b.requests = a.requests
      /\ b.deliveries = a.deliveries /\ b.baselines = a.baselines /\ b.revokedTasks = a.revokedTasks \cup {id}
      /\ b.audit = a.audit
  BY <1>1 DEF RevokeTask, Formed, AppFields
<1> HIDE DEF b
<1>3. Formed(b)
  BY <1>1, <1>2 DEF Formed
<1>4. Whole(b)
  BY <1>1, <1>2, <1>3 DEF Whole
<1>5. \A x : Receipts(b, x) = Receipts(a, x) /\ Baseline(b, x) = Baseline(a, x)
  BY <1>2 DEF Receipts, Baseline
<1>6. Sound(b)
  <2>2. b.revokedTasks \subseteq DOMAIN b.tasks /\ \A u \in DOMAIN b.tasks : ApprovalValid(b.tasks[u], 0)
    BY <1>1, <1>2 DEF Sound
  <2>3. ASSUME NEW x \in DOMAIN b.records PROVE ValidRecord(b, b.records[x])
    <3>1. ValidRecord(a, b.records[x])
      BY <1>1, <1>2 DEF Sound
    <3> QED BY <1>2, <3>1 DEF ValidRecord
  <2>4. ASSUME NEW g \in DOMAIN b.grants PROVE ValidGrant(b, b.grants[g])
    <3>1. ValidGrant(a, b.grants[g])
      BY <1>1, <1>2 DEF Sound
    <3> QED BY <1>2, <3>1 DEF ValidGrant
  <2>5. ASSUME NEW key \in DOMAIN b.requests PROVE ValidReceipt(b, key)
    <3>1. ValidReceipt(a, key)
      BY <1>1, <1>2 DEF Sound
    <3> QED BY <1>2, <1>5, <3>1 DEF ValidReceipt
  <2>6. ASSUME NEW x \in DOMAIN b.baselines PROVE SoundBaseline(b, x)
    <3>1. SoundBaseline(a, x)
      BY <1>1, <1>2 DEF Sound
    <3> QED BY <1>2, <3>1 DEF SoundBaseline
  <2>7. ASSUME NEW x \in DOMAIN b.records PROVE SoundCount(b, x)
    <3>1. SoundCount(a, x)
      BY <1>1, <1>2 DEF Sound
    <3>2. \A kind : OfKind(b, x, kind) = OfKind(a, x, kind)
      BY <1>2, <1>5 DEF OfKind
    <3> QED BY <1>2, <1>5, <3>1, <3>2, SMTT(30) DEF SoundCount
  <2>8. \A g \in DOMAIN b.grants : Listed(b, g)
    BY <1>1, <1>2 DEF Sound, Listed
  <2>9. ASSUME NEW d \in DOMAIN b.deliveries PROVE ValidDelivery(b, d)
    <3>1. ValidDelivery(a, d)
      BY <1>1, <1>2 DEF Sound
    <3> QED BY <1>2, <3>1 DEF ValidDelivery
  <2> QED BY <2>2, <2>3, <2>4, <2>5, <2>6, <2>7, <2>8, <2>9 DEF Sound
<1>7. Lasting(b) /\ Sized(b) /\ Dated(b)
  BY <1>1, <1>2, ZenonT(60) DEF Lasting, Sized, Dated
<1>8. \A i \in DOMAIN b.audit : EventSupported(b, b.audit[i])
  <2> SUFFICES ASSUME NEW i \in DOMAIN b.audit PROVE EventSupported(b, b.audit[i])
    OBVIOUS
  <2>1. EventSupported(a, b.audit[i])
    BY <1>1, <1>2
  <2> QED BY <1>2, <2>1 DEF EventSupported
<1>9. Clean(b)
  BY <1>1, <1>2, <1>4, <1>6, <1>7, <1>8 DEF Clean, Good
<1> QED BY <1>9 DEF b

-----------------------------------------------------------------------------
(* Mutations of a record that exists.                                      *)

\* A mutation but for its event.
Changed(a, ctx, tid, request, op, at, new) ==
    LET rid == Subject(op, new)
        records == IF op.op = "create"
                   THEN Inserted(a.records, new, NewRecord(a, ctx, tid, op))
                   ELSE [a.records EXCEPT ![rid] = MutatedRecord(@, op)]
        receipt == [fingerprint |-> op, record |-> rid, revision |-> records[rid].revision,
                    grant |-> GrantOf(op, new), kind |-> CachedKind(op), at |-> at]
    IN  [a EXCEPT !.records = records,
                  !.grants = MutatedGrants(a, ctx, tid, op, new),
                  !.requests = Inserted(@, RequestKey(ctx, tid, request), receipt)]

LEMMA MutateIs ==
    ASSUME NEW a, NEW ctx, NEW tid, NEW request, NEW op, NEW at, NEW new
    PROVE  Mutate(a, ctx, tid, request, op, at, new) =
                Audit(Changed(a, ctx, tid, request, op, at, new),
                      [task |-> tid, record |-> Subject(op, new), request |-> request, at |-> at])
BY DEF Mutate, Changed

\* The receipt of a mutation.
ReceiptOf(c, op, new, revision, at) ==
    /\ c.record = Subject(op, new) /\ c.revision = revision /\ c.grant = GrantOf(op, new)
    /\ c.kind = CachedKind(op) /\ c.at = at

LEMMA ChangedIs ==
    ASSUME NEW a, Formed(a), NEW ctx, NEW tid, NEW request, NEW op, NEW at, NEW new,
           RequestKey(ctx, tid, request) \notin DOMAIN a.requests,
           op.op # "create", op.record \in DOMAIN a.records
    PROVE  LET b == Changed(a, ctx, tid, request, op, at, new)
               key == RequestKey(ctx, tid, request)
               s == MutatedRecord(a.records[op.record], op)
           IN  /\ b = [f \in AppFields |-> b[f]]
               /\ b.tasks = a.tasks /\ b.revokedTasks = a.revokedTasks /\ b.deliveries = a.deliveries
               /\ b.baselines = a.baselines /\ b.audit = a.audit
               /\ b.lastTime = a.lastTime /\ b.clockFrozen = a.clockFrozen
               /\ b.records = [a.records EXCEPT ![op.record] = s]
               /\ b.grants = MutatedGrants(a, ctx, tid, op, new)
               /\ Extends(a.requests, b.requests, key, b.requests[key])
               /\ ReceiptOf(b.requests[key], op, new, s.revision, at)
<1> DEFINE b == Changed(a, ctx, tid, request, op, at, new)
           key == RequestKey(ctx, tid, request)
           rid == op.record
           s == MutatedRecord(a.records[rid], op)
           records == [a.records EXCEPT ![rid] = s]
           grants == MutatedGrants(a, ctx, tid, op, new)
           receipt == [fingerprint |-> op, record |-> rid, revision |-> s.revision,
                       grant |-> GrantOf(op, new), kind |-> CachedKind(op), at |-> at]
           requests == Inserted(a.requests, key, receipt)
<1>1. Subject(op, new) = rid
  BY DEF Subject
<1>2. b = [a EXCEPT !.records = records, !.grants = grants, !.requests = requests]
  <2> HIDE DEF s, grants
  <2>1. [a.records EXCEPT ![rid] = MutatedRecord(@, op)] = records
    BY DEF s
  <2>2. records[rid].revision = s.revision
    OBVIOUS
  <2> HIDE DEF records
  <2> QED BY <1>1, <2>1, <2>2 DEF Changed, grants
<1>3. Extends(a.requests, requests, key, receipt)
  BY InsertedIs
<1>4. ReceiptOf(receipt, op, new, s.revision, at)
  BY <1>1 DEF ReceiptOf
<1> HIDE DEF b, key, s, records, grants, receipt, requests
<1>5. /\ b = [f \in AppFields |-> b[f]]
      /\ b.tasks = a.tasks /\ b.revokedTasks = a.revokedTasks /\ b.deliveries = a.deliveries
      /\ b.baselines = a.baselines /\ b.audit = a.audit
      /\ b.lastTime = a.lastTime /\ b.clockFrozen = a.clockFrozen
      /\ b.records = records /\ b.grants = grants /\ b.requests = requests
  BY <1>2 DEF Formed, AppFields
<1>6. b.requests[key] = receipt
  BY <1>3, <1>5 DEF Extends
<1> QED BY <1>3, <1>4, <1>5, <1>6 DEF b, key, s, records, grants

LEMMA MutatedRecordIs ==
    ASSUME NEW r, NEW op, DOMAIN r = RecordFields, r.signup # "verified_login",
           op.op \in {"patch", "delete", "report", "share", "revoke"}, ~r.deleted,
           r.deleted \in BOOLEAN, r.secretVersion \in Nat,
           op.op = "report" => op.state # "verified_login"
    PROVE  LET s == MutatedRecord(r, op) IN
           /\ DOMAIN s = RecordFields
           /\ s.createdBy = r.createdBy /\ s.task = r.task /\ s.site = r.site /\ s.kind = r.kind
           /\ s.revision = r.revision + 1
           /\ s.secretVersion = r.secretVersion + (IF CachedKind(op) = "patch" THEN 1 ELSE 0)
           /\ s.deleted = (op.op = "delete")
           /\ s.signup # "verified_login"
           /\ s.fields = CASE op.op = "patch" -> r.fields \cup op.fields
                           [] op.op = "delete" -> {}
                           [] OTHER -> r.fields
<1> DEFINE q == CASE op.op = "patch" -> PatchedRecord(r, op)
                  [] op.op = "delete" -> [r EXCEPT !.deleted = TRUE, !.fields = {}]
                  [] op.op = "report" -> [r EXCEPT !.signup = op.state]
                  [] OTHER -> r
           Is(s, n) ==
               /\ DOMAIN s = RecordFields
               /\ s.createdBy = r.createdBy /\ s.task = r.task /\ s.site = r.site /\ s.kind = r.kind
               /\ s.revision = n
               /\ s.secretVersion = r.secretVersion + (IF CachedKind(op) = "patch" THEN 1 ELSE 0)
               /\ s.deleted = (op.op = "delete")
               /\ s.signup # "verified_login"
               /\ s.fields = CASE op.op = "patch" -> r.fields \cup op.fields
                               [] op.op = "delete" -> {}
                               [] OTHER -> r.fields
<1>1. MutatedRecord(r, op) = [q EXCEPT !.revision = @ + 1]
  BY DEF MutatedRecord
<1>2. Is(q, r.revision)
  <2>1. CASE op.op = "patch" /\ ChangesCredential(op.fields)
    <3>1. q = [r EXCEPT !.fields = r.fields \cup op.fields, !.secretVersion = r.secretVersion + 1,
                        !.signup = "pending"]
      BY <2>1 DEF PatchedRecord
    <3>2. CachedKind(op) = "patch"
      BY <2>1 DEF CachedKind
    <3> HIDE DEF q
    <3> QED BY <2>1, <3>1, <3>2 DEF RecordFields
  <2>2. CASE op.op = "patch" /\ ~ChangesCredential(op.fields)
    <3>1. q = [r EXCEPT !.fields = r.fields \cup op.fields]
      BY <2>2 DEF PatchedRecord
    <3>2. CachedKind(op) = "metadata_patch"
      BY <2>2 DEF CachedKind
    <3> HIDE DEF q
    <3> QED BY <2>2, <3>1, <3>2 DEF RecordFields
  <2>3. CASE op.op = "delete"
    <3>1. q = [r EXCEPT !.deleted = TRUE, !.fields = {}]
      BY <2>3
    <3>2. CachedKind(op) = "delete"
      BY <2>3 DEF CachedKind
    <3> HIDE DEF q
    <3>3. /\ DOMAIN q = RecordFields
          /\ q.createdBy = r.createdBy /\ q.task = r.task /\ q.site = r.site /\ q.kind = r.kind
          /\ q.revision = r.revision /\ q.secretVersion = r.secretVersion
          /\ q.deleted = TRUE /\ q.signup = r.signup /\ q.fields = {}
      BY <3>1 DEF RecordFields
    <3>4. q.deleted = (op.op = "delete")
      BY <2>3, <3>3
    <3> QED BY <2>3, <3>2, <3>3, <3>4
  <2>4. CASE op.op = "report"
    <3>1. q = [r EXCEPT !.signup = op.state]
      BY <2>4
    <3>2. CachedKind(op) = "report"
      BY <2>4 DEF CachedKind
    <3> HIDE DEF q
    <3> QED BY <2>4, <3>1, <3>2 DEF RecordFields
  <2>5. CASE op.op \in {"share", "revoke"}
    <3>1. q = r
      BY <2>5
    <3>2. CachedKind(op) # "patch"
      BY <2>5 DEF CachedKind
    <3>3. r.deleted = (op.op = "delete") /\ r.secretVersion = r.secretVersion + 0
      BY <2>5
    <3>4. r.fields = CASE op.op = "patch" -> r.fields \cup op.fields
                       [] op.op = "delete" -> {}
                       [] OTHER -> r.fields
      BY <2>5
    <3> HIDE DEF q
    <3> QED BY <3>1, <3>2, <3>3, <3>4
  <2> QED BY <2>1, <2>2, <2>3, <2>4, <2>5
<1> HIDE DEF q
<1>3. Is(MutatedRecord(r, op), r.revision + 1)
  BY <1>1, <1>2 DEF RecordFields
<1> QED BY <1>3

MutatedKinds == {"patch", "delete", "report", "share", "revoke"}

LEMMA AuthorizedIs ==
    ASSUME NEW a, NEW ctx, NEW tid, NEW op, NEW at, op.op \in MutatedKinds,
           Authorize(a, ctx, tid, op, at, FALSE)
    PROVE  /\ op.record \in DOMAIN a.records /\ ~a.records[op.record].deleted
           /\ op.op = "patch" => MayPatch(a, ctx, tid, op, at)
           /\ op.op = "delete" => MayDelete(a, ctx, tid, op, at)
           /\ op.op = "share" => MayShare(a, ctx, tid, op, at)
           /\ op.op = "revoke" => MayRevoke(a, ctx, tid, op, at)
           /\ op.op = "report" => MayReport(a, ctx, tid, op, at)
BY DEF Authorize, MutatedKinds

\* Access is the creating task's own, or within a grant on the record.
OwnOrGranted(a, ctx, tid, rid, permission, fields) ==
    /\ a.records[rid].site = a.tasks[tid].site /\ permission \in a.tasks[tid].permissions
    /\ fields \subseteq a.tasks[tid].fields
    /\ \/ a.records[rid].createdBy = ctx.principal /\ a.records[rid].task = tid
       \/ fields \subseteq a.records[rid].fields /\ permission # "access_grant"

LEMMA CanIs ==
    ASSUME NEW a, Sound(a), NEW ctx, NEW tid, NEW rid \in DOMAIN a.records, ~a.records[rid].deleted,
           NEW permission, NEW fields, NEW destinations, NEW at,
           Can(a, ctx, tid, rid, permission, fields, destinations, at)
    PROVE  OwnOrGranted(a, ctx, tid, rid, permission, fields)
<1> DEFINE t == a.tasks[tid]
           r == a.records[rid]
<1>1. r.site = t.site /\ permission \in t.permissions /\ fields \subseteq t.fields
  BY DEF Can
<1>2. ASSUME ~(r.createdBy = ctx.principal /\ r.task = tid)
      PROVE  fields \subseteq r.fields /\ permission # "access_grant"
  <2>1. PICK g \in DOMAIN a.grants : GrantAdmits(a, a.grants[g], ctx, rid, permission, fields, destinations, at)
    BY <1>2 DEF Can, Values
  <2>2. ValidGrant(a, a.grants[g])
    BY DEF Sound
  <2>3. a.grants[g].record = rid /\ permission \in a.grants[g].spec.permissions /\ fields \subseteq a.grants[g].spec.fields
    BY <2>1 DEF GrantAdmits
  <2>4. a.grants[g].spec.fields \subseteq r.fields /\ "access_grant" \notin a.grants[g].spec.permissions
    BY <2>2, <2>3 DEF ValidGrant
  <2> QED BY <2>3, <2>4
<1> QED BY <1>1, <1>2 DEF OwnOrGranted

LEMMA PatchedFields ==
    ASSUME NEW a, Sound(a), NEW ctx, NEW tid, NEW op, NEW at, op.record \in DOMAIN a.records,
           ~a.records[op.record].deleted, MayPatch(a, ctx, tid, op, at)
    PROVE  LET r == a.records[op.record] IN
           /\ r.fields \cup op.fields \subseteq a.tasks[r.task].fields
           /\ KindAdmits(r.kind, r.fields \cup op.fields)
<1> DEFINE r == a.records[op.record]
<1>1. /\ Can(a, ctx, tid, op.record, "secret_write", op.fields, {}, at)
      /\ r.kind = "login" => "api_key" \notin op.fields
      /\ r.kind = "api_key" => "password" \notin op.fields
  BY DEF MayPatch
<1>2. r.fields \subseteq a.tasks[r.task].fields /\ KindAdmits(r.kind, r.fields)
  BY DEF Sound, ValidRecord
<1>3. op.fields \subseteq a.tasks[tid].fields /\ (r.task = tid \/ op.fields \subseteq r.fields)
  <2>1. OwnOrGranted(a, ctx, tid, op.record, "secret_write", op.fields)
    BY <1>1, CanIs
  <2> QED BY <2>1 DEF OwnOrGranted
<1>4. r.fields \cup op.fields \subseteq a.tasks[r.task].fields
  BY <1>2, <1>3
<1>5. KindAdmits(r.kind, r.fields \cup op.fields)
  BY <1>1, <1>2 DEF KindAdmits
<1> QED BY <1>4, <1>5

\* The grant a share issues.
Issued(a, ctx, tid, op) ==
    [record |-> op.record, spec |-> op.grant, revoked |-> FALSE,
     version |-> a.records[op.record].secretVersion, issuerTask |-> tid, adminIssued |-> ctx.admin]

LEMMA IssuedIsValid ==
    ASSUME NEW a, Clean(a), \A u \in DOMAIN a.tasks : Bounded(a.tasks[u]),
           NEW ctx, NEW tid \in DOMAIN a.tasks, a.tasks[tid].principal = ctx.principal,
           NEW op, NEW at, op.record \in DOMAIN a.records, ~a.records[op.record].deleted,
           op.grant.expiresAt \in Nat, MayShare(a, ctx, tid, op, at)
    PROVE  ValidGrant(a, Issued(a, ctx, tid, op)) /\ a.tasks[tid].site = a.records[op.record].site
<1> DEFINE g == Issued(a, ctx, tid, op)
           t == a.tasks[tid]
           r == a.records[op.record]
           spec == op.grant
<1>1. /\ g.record = op.record /\ g.spec = spec /\ g.version = r.secretVersion
      /\ g.issuerTask = tid /\ g.adminIssued = ctx.admin /\ g.revoked = FALSE
  BY DEF Issued
<1>2. Sound(a) /\ r.secretVersion \in Nat
  BY DEF Clean, Good, Whole
<1>3. /\ spec.fields # {} /\ spec.permissions # {} /\ "access_grant" \notin spec.permissions
      /\ spec.fields \subseteq r.fields /\ ("secret_use" \in spec.permissions => spec.destinations # {})
  BY DEF MayShare, GrantWellFormed
<1>4. t.expiresAt \in Nat /\ (t.share # None => t.share.expiresAt \in Nat) /\ spec.expiresAt \in Nat
  BY DEF Bounded
<1>5. t.share # None => ShareBoundsValid(t, 0)
  BY <1>2 DEF Sound, ApprovalValid
<1> HIDE DEF g
<1>6. CASE ctx.admin
  <2>1. /\ r.site = t.site /\ spec.fields \subseteq t.fields /\ spec.permissions \subseteq t.permissions
        /\ spec.destinations \subseteq t.destinations /\ spec.expiresAt <= t.expiresAt
    BY <1>6 DEF MayShare, AdminMayShare
  <2>2. r.secretVersion <= r.secretVersion
    BY <1>2
  <2>3. ValidGrant(a, g)
    BY <1>1, <1>3, <1>6, <2>1, <2>2 DEF ValidGrant
  <2> QED BY <2>1, <2>3 DEF g
<1>7. CASE ~ctx.admin
  <2>1. AgentMayShare(a, ctx, tid, op, at)
    BY <1>7 DEF MayShare
  <2>2. /\ t.share # None /\ (spec.followActive => t.share.allowFollowActive)
        /\ spec.recipient \in t.share.recipients /\ spec.fields \subseteq t.share.fields
        /\ spec.permissions \subseteq t.share.permissions
        /\ spec.destinations \subseteq t.share.destinations /\ spec.expiresAt <= t.share.expiresAt
        /\ \A p \in spec.permissions \cup {"access_grant"} : Can(a, ctx, tid, op.record, p, spec.fields, {}, at)
    BY <2>1 DEF AgentMayShare
  <2>3. /\ r.site = t.site /\ "access_grant" \in t.permissions /\ spec.fields \subseteq t.fields
        /\ r.createdBy = ctx.principal /\ r.task = tid
    <3>1. Can(a, ctx, tid, op.record, "access_grant", spec.fields, {}, at)
      BY <2>2
    <3>2. OwnOrGranted(a, ctx, tid, op.record, "access_grant", spec.fields)
      BY <1>2, <3>1, CanIs
    <3> QED BY <3>2 DEF OwnOrGranted
  <2>4. spec.permissions \subseteq t.permissions
    <3> SUFFICES ASSUME NEW p \in spec.permissions PROVE p \in t.permissions
      OBVIOUS
    <3>1. Can(a, ctx, tid, op.record, p, spec.fields, {}, at)
      BY <2>2
    <3> QED BY <3>1 DEF Can
  <2>5. spec.destinations \subseteq t.destinations /\ t.share.expiresAt <= t.expiresAt
    BY <1>5, <2>2 DEF ShareBoundsValid
  <2>6. spec.expiresAt <= t.expiresAt /\ r.secretVersion <= r.secretVersion
    <3> DEFINE x == spec.expiresAt
               y == t.share.expiresAt
               z == t.expiresAt
    <3>1. x \in Nat /\ y \in Nat /\ z \in Nat /\ x <= y /\ y <= z
      BY <1>4, <2>2, <2>5
    <3>2. r.secretVersion <= r.secretVersion
      BY <1>2
    <3> HIDE DEF x, y, z
    <3>3. x <= z
      BY <3>1
    <3> QED BY <3>2, <3>3 DEF x, z
  <2>7. ValidGrant(a, g)
    BY <1>1, <1>3, <1>7, <2>2, <2>3, <2>4, <2>5, <2>6 DEF ValidGrant
  <2> QED BY <2>3, <2>7 DEF g
<1> QED BY <1>6, <1>7

LEMMA KindIs ==
    ASSUME NEW op, op.op \in MutatedKinds
    PROVE  /\ CachedKind(op) \in MutationKinds
           /\ (CachedKind(op) = "share" <=> op.op = "share") /\ (CachedKind(op) = "revoke" <=> op.op = "revoke")
           /\ (CachedKind(op) = "delete" <=> op.op = "delete")
BY DEF CachedKind, MutatedKinds, MutationKinds

\* A record that stays alive with its fields keeps its grants within them.
LEMMA GrantStaysValid ==
    ASSUME NEW a, NEW b, NEW g, NEW rid \in DOMAIN a.records, ValidGrant(a, g), b.tasks = a.tasks,
           DOMAIN b.records = DOMAIN a.records, \A x \in DOMAIN a.records \ {rid} : b.records[x] = a.records[x],
           b.records[rid] = [a.records[rid] EXCEPT !.revision = @ + 1],
           DOMAIN a.records[rid] = RecordFields
    PROVE  ValidGrant(b, g)
<1>1. g.record \in DOMAIN a.records
  BY DEF ValidGrant
<1>2. LET r == a.records[g.record]
          s == b.records[g.record]
      IN  s.site = r.site /\ s.secretVersion = r.secretVersion /\ s.deleted = r.deleted
          /\ s.fields = r.fields /\ s.createdBy = r.createdBy /\ s.task = r.task
  <2>1. CASE g.record = rid
    BY <2>1 DEF RecordFields
  <2>2. CASE g.record # rid
    BY <1>1, <2>2
  <2> QED BY <2>1, <2>2
<1> QED BY <1>1, <1>2 DEF ValidGrant

LEMMA ChangedGrants ==
    ASSUME NEW a, Clean(a), \A u \in DOMAIN a.tasks : Bounded(a.tasks[u]),
           NEW b, NEW ctx, NEW tid \in DOMAIN a.tasks, a.tasks[tid].principal = ctx.principal,
           NEW request, NEW op, NEW at, NEW new, NEW revision, op.op \in MutatedKinds,
           Authorize(a, ctx, tid, op, at, FALSE),
           op.op = "share" => /\ Cardinality(DOMAIN a.grants) < Limit /\ op.grant.expiresAt \in Nat
                              /\ new \notin DOMAIN a.grants,
           b.tasks = a.tasks, DOMAIN b.records = DOMAIN a.records,
           \A x \in DOMAIN a.records \ {op.record} : b.records[x] = a.records[x],
           b.records[op.record] = MutatedRecord(a.records[op.record], op),
           b.records[op.record].deleted = (op.op = "delete"),
           b.grants = MutatedGrants(a, ctx, tid, op, new),
           NEW c, ReceiptOf(c, op, new, revision, at)
    PROVE  RevisedGrants(a, b, op.record, RequestKey(ctx, tid, request), c)
<1> DEFINE rid == op.record
           key == RequestKey(ctx, tid, request)
           Kept(g) ==
               /\ b.grants[g] = a.grants[g] \/ b.grants[g] = [a.grants[g] EXCEPT !.revoked = TRUE]
               /\ b.records[rid].deleted /\ a.grants[g].record = rid => b.grants[g].revoked
<1>1. /\ rid \in DOMAIN a.records /\ ~a.records[rid].deleted
      /\ op.op = "share" => MayShare(a, ctx, tid, op, at)
      /\ op.op = "revoke" => MayRevoke(a, ctx, tid, op, at)
  BY AuthorizedIs
<1>2. /\ (c.kind = "share" <=> op.op = "share") /\ (c.kind = "revoke" <=> op.op = "revoke")
      /\ (b.records[rid].deleted <=> op.op = "delete") /\ key.task = tid
  BY KindIs DEF ReceiptOf, RequestKey
<1>3. /\ \A g \in DOMAIN a.grants : DOMAIN a.grants[g] = GrantFields
      /\ DOMAIN a.records[rid] = RecordFields /\ a.records[rid].secretVersion \in Nat
  BY <1>1 DEF Clean, Good, Whole, Formed
<1> HIDE DEF key
<1>4. CASE op.op = "share"
  <2> DEFINE g == Issued(a, ctx, tid, op)
  <2>1. c.grant = new /\ c.kind = "share" /\ c.kind # "revoke" /\ ~b.records[rid].deleted
    BY <1>2, <1>4 DEF ReceiptOf, GrantOf
  <2>2. b.grants = Inserted(a.grants, new, g)
    BY <1>4 DEF MutatedGrants, Issued
  <2>3. ValidGrant(a, g)
    BY <1>1, <1>4, IssuedIsValid
  <2>4. b.records[rid] = [a.records[rid] EXCEPT !.revision = @ + 1]
    BY <1>4 DEF MutatedRecord
  <2>5. ValidGrant(b, g)
    BY <1>1, <1>3, <2>3, <2>4, GrantStaysValid
  <2>6. DOMAIN g = GrantFields /\ g.version \in Nat /\ g.spec.expiresAt \in Nat /\ g.record = rid
        /\ g.issuerTask = tid
    BY <1>3, <1>4 DEF Issued, GrantFields
  <2> HIDE DEF g
  <2>7. Extends(a.grants, b.grants, new, g)
    BY <1>4, <2>2, InsertedIs
  <2>8. /\ DOMAIN b.grants = DOMAIN a.grants \cup {new} /\ b.grants[new] = g
        /\ \A x \in DOMAIN a.grants : b.grants[x] = a.grants[x]
    BY <2>7 DEF Extends
  <2>9. \A x \in DOMAIN a.grants : Kept(x)
    BY <2>1, <2>8
  <2>10. DOMAIN b.grants = DOMAIN a.grants \cup (IF c.kind = "share" THEN {c.grant} ELSE {})
    BY <2>1, <2>8
  <2>11. b.grants[c.grant] = g /\ c.grant \notin DOMAIN a.grants /\ Cardinality(DOMAIN a.grants) < Limit
    BY <1>4, <2>1, <2>8
  <2>12. LET h == b.grants[c.grant] IN
         /\ DOMAIN h = GrantFields /\ h.version \in Nat /\ h.spec.expiresAt \in Nat
         /\ h.record = rid /\ h.issuerTask = key.task /\ ValidGrant(b, h)
    BY <1>2, <2>5, <2>6, <2>11
  <2>13. ~(c.kind = "revoke")
    BY <2>1
  <2> QED BY <2>9, <2>10, <2>11, <2>12, <2>13 DEF RevisedGrants, key
<1>5. CASE op.op = "revoke"
  <2>1. c.grant = op.grant /\ c.kind = "revoke" /\ c.kind # "share" /\ ~b.records[rid].deleted
    BY <1>2, <1>5 DEF ReceiptOf, GrantOf
  <2>2. op.grant \in DOMAIN a.grants /\ a.grants[op.grant].record = rid
    BY <1>1, <1>5 DEF MayRevoke
  <2>3. b.grants = [a.grants EXCEPT ![op.grant].revoked = TRUE]
    BY <1>5 DEF MutatedGrants
  <2>4. \A x \in DOMAIN a.grants : Kept(x)
    BY <2>1, <2>3
  <2>5. b.grants[op.grant].revoked = TRUE /\ DOMAIN b.grants = DOMAIN a.grants
    BY <1>3, <2>2, <2>3 DEF GrantFields
  <2> QED BY <2>1, <2>2, <2>4, <2>5 DEF RevisedGrants
<1>6. CASE op.op = "delete"
  <2>1. c.kind # "revoke" /\ c.kind # "share"
    BY <1>2, <1>6
  <2>2. b.grants = [g \in DOMAIN a.grants |->
            IF a.grants[g].record = rid THEN [a.grants[g] EXCEPT !.revoked = TRUE] ELSE a.grants[g]]
    BY <1>6 DEF MutatedGrants
  <2>3. \A x \in DOMAIN a.grants : Kept(x)
    BY <1>3, <2>2 DEF GrantFields
  <2>4. DOMAIN b.grants = DOMAIN a.grants
    BY <2>2
  <2> QED BY <2>1, <2>3, <2>4 DEF RevisedGrants
<1>7. CASE op.op \in {"patch", "report"}
  <2>1. c.kind # "revoke" /\ c.kind # "share" /\ ~b.records[rid].deleted
    BY <1>2, <1>7
  <2>2. b.grants = a.grants
    BY <1>7 DEF MutatedGrants
  <2> QED BY <2>1, <2>2 DEF RevisedGrants
<1> QED BY <1>4, <1>5, <1>6, <1>7 DEF MutatedKinds

\* What a mutation starts from: the caller's own task, a new identifier, room.
Admissible(a, ctx, tid, request, op, at, new) ==
    LET key == RequestKey(ctx, tid, request) IN
    /\ tid \in DOMAIN a.tasks /\ a.tasks[tid].principal = ctx.principal
    /\ key \notin DOMAIN a.requests /\ Cardinality(DOMAIN a.requests) < Limit
    /\ \A d \in DOMAIN a.deliveries : a.deliveries[d].key # key
    /\ Authorize(a, ctx, tid, op, at, FALSE)
    /\ op.op = "create" => Cardinality(DOMAIN a.records) < Limit /\ new \notin DOMAIN a.records /\ new \in Nat
    /\ op.op = "share" => /\ Cardinality(DOMAIN a.grants) < Limit /\ op.grant.expiresAt \in Nat
                          /\ new \notin DOMAIN a.grants

LEMMA ChangedRevises ==
    ASSUME NEW a, Clean(a), \A u \in DOMAIN a.tasks : Bounded(a.tasks[u]),
           NEW ctx, NEW tid, NEW request, NEW op, NEW at \in Nat, NEW new, op.op \in MutatedKinds,
           Admissible(a, ctx, tid, request, op, at, new),
           a.tasks[tid].site = a.records[op.record].site
    PROVE  LET b == Changed(a, ctx, tid, request, op, at, new)
               key == RequestKey(ctx, tid, request)
           IN  Revision(a, b, op.record, key, b.requests[key])
<1> DEFINE b == Changed(a, ctx, tid, request, op, at, new)
           key == RequestKey(ctx, tid, request)
           rid == op.record
           r == a.records[rid]
           s == MutatedRecord(r, op)
           c == b.requests[key]
<1>1. /\ tid \in DOMAIN a.tasks /\ a.tasks[tid].principal = ctx.principal
      /\ key \notin DOMAIN a.requests /\ Cardinality(DOMAIN a.requests) < Limit
      /\ \A d \in DOMAIN a.deliveries : a.deliveries[d].key # key
      /\ Authorize(a, ctx, tid, op, at, FALSE)
      /\ op.op = "share" => /\ Cardinality(DOMAIN a.grants) < Limit /\ op.grant.expiresAt \in Nat
                            /\ new \notin DOMAIN a.grants
  BY DEF Admissible
<1>2. /\ rid \in DOMAIN a.records /\ ~r.deleted
      /\ op.op = "patch" => MayPatch(a, ctx, tid, op, at)
      /\ op.op = "report" => op.state # "verified_login"
  <2>1. /\ rid \in DOMAIN a.records /\ ~r.deleted
        /\ op.op = "patch" => MayPatch(a, ctx, tid, op, at)
        /\ op.op = "report" => MayReport(a, ctx, tid, op, at)
    BY <1>1, AuthorizedIs
  <2> QED BY <2>1 DEF MayReport
<1>3. /\ Formed(a) /\ Sound(a) /\ DOMAIN r = RecordFields /\ r.signup # "verified_login"
      /\ r.deleted \in BOOLEAN /\ r.secretVersion \in Nat /\ ValidRecord(a, r)
  BY <1>2 DEF Clean, Good, Whole, Formed, Lasting, Sound
<1>4. op.op # "create" /\ op.op \in {"patch", "delete", "report", "share", "revoke"}
  BY DEF MutatedKinds
<1>5. /\ b = [f \in AppFields |-> b[f]]
      /\ b.tasks = a.tasks /\ b.revokedTasks = a.revokedTasks /\ b.deliveries = a.deliveries
      /\ b.baselines = a.baselines /\ b.audit = a.audit
      /\ b.lastTime = a.lastTime /\ b.clockFrozen = a.clockFrozen
      /\ b.records = [a.records EXCEPT ![rid] = s]
      /\ b.grants = MutatedGrants(a, ctx, tid, op, new)
      /\ Extends(a.requests, b.requests, key, c)
      /\ ReceiptOf(c, op, new, s.revision, at)
  BY <1>1, <1>2, <1>3, <1>4, ChangedIs
<1>6. /\ DOMAIN s = RecordFields
      /\ s.createdBy = r.createdBy /\ s.task = r.task /\ s.site = r.site /\ s.kind = r.kind
      /\ s.revision = r.revision + 1
      /\ s.secretVersion = r.secretVersion + (IF CachedKind(op) = "patch" THEN 1 ELSE 0)
      /\ s.deleted = (op.op = "delete")
      /\ s.signup # "verified_login"
      /\ s.fields = CASE op.op = "patch" -> r.fields \cup op.fields
                      [] op.op = "delete" -> {}
                      [] OTHER -> r.fields
  BY <1>2, <1>3, <1>4, MutatedRecordIs
<1>7. key.task = tid /\ key.principal = ctx.principal
  BY DEF RequestKey
<1>8. op.op = "patch" => /\ r.fields \cup op.fields \subseteq a.tasks[r.task].fields
                         /\ KindAdmits(r.kind, r.fields \cup op.fields)
  BY <1>2, <1>3, PatchedFields
<1> HIDE DEF b, key, s, c
<1>9. /\ DOMAIN b.records = DOMAIN a.records /\ b.records[rid] = s
      /\ \A x \in DOMAIN a.records \ {rid} : b.records[x] = a.records[x]
  BY <1>2, <1>5
<1>10. CachedKind(op) \in MutationKinds /\ (CachedKind(op) = "delete" <=> op.op = "delete")
  BY KindIs
<1>11. /\ c.record = rid /\ c.revision = r.revision + 1 /\ c.at \in Nat /\ c.kind = CachedKind(op)
  BY <1>4, <1>5, <1>6 DEF ReceiptOf, Subject
<1>12. RevisedRecord(r, s, c)
  <2>1. s.deleted = (c.kind = "delete")
    BY <1>6, <1>10, <1>11
  <2> QED BY <1>6, <1>11, <2>1 DEF RevisedRecord
<1>13. RevisedFields(a, b, rid)
  <2>1. r.fields \subseteq a.tasks[r.task].fields /\ KindAdmits(r.kind, r.fields)
    BY <1>2, <1>3 DEF ValidRecord
  <2>2. CASE op.op = "delete"
    BY <1>6, <1>9, <2>2 DEF RevisedFields
  <2>3. CASE op.op = "patch"
    <3>1. s.fields = r.fields \cup op.fields /\ ~s.deleted
      BY <1>6, <2>3
    <3> QED BY <1>6, <1>8, <1>9, <2>3, <3>1 DEF RevisedFields
  <2>4. CASE op.op \notin {"patch", "delete"}
    <3>1. s.fields = r.fields /\ ~s.deleted
      BY <1>6, <2>4
    <3> QED BY <1>6, <1>9, <2>1, <3>1 DEF RevisedFields
  <2> QED BY <2>2, <2>3, <2>4
<1>14. RevisedGrants(a, b, rid, key, c)
  <2>1. b.records[rid] = MutatedRecord(a.records[rid], op) /\ b.records[rid].deleted = (op.op = "delete")
    BY <1>6, <1>9 DEF s
  <2> QED BY <1>1, <1>5, <1>9, <2>1, ChangedGrants DEF key
<1>15. DOMAIN b.requests = DOMAIN a.requests \cup {key} /\ \A k \in DOMAIN a.requests : b.requests[k] = a.requests[k]
  BY <1>5 DEF Extends
<1>16. Revision(a, b, rid, key, c)
  BY <1>1, <1>2, <1>5, <1>7, <1>9, <1>10, <1>11, <1>12, <1>13, <1>14, <1>15 DEF Revision, c
<1> QED BY <1>16 DEF b, key, c

LEMMA ChangedClean ==
    ASSUME NEW a, Clean(a), \A u \in DOMAIN a.tasks : Bounded(a.tasks[u]),
           NEW ctx, NEW tid \in {approval.id : approval \in Approvals}, NEW request \in Requests, NEW op,
           NEW at \in Nat, NEW new, op.op \in MutatedKinds, at <= a.lastTime, op.record \in Nat,
           Admissible(a, ctx, tid, request, op, at, new),
           a.tasks[tid].site = a.records[op.record].site
    PROVE  Clean(Mutate(a, ctx, tid, request, op, at, new))
<1> DEFINE b == Changed(a, ctx, tid, request, op, at, new)
           key == RequestKey(ctx, tid, request)
           e == [task |-> tid, record |-> op.record, request |-> request, at |-> at]
<1>1. Revision(a, b, op.record, key, b.requests[key])
  BY ChangedRevises
<1>2. Mutate(a, ctx, tid, request, op, at, new) = Audit(b, e)
  BY MutateIs DEF Subject, MutatedKinds
<1>3. /\ e \in Events /\ e.task = tid /\ e.record = op.record /\ e.request = request /\ e.at = at
  BY DEF Events
<1>4. key = [principal |-> a.tasks[tid].principal, task |-> tid, id |-> request]
  BY DEF Admissible, RequestKey
<1> HIDE DEF b, e
<1>5. Clean(b)
  BY <1>1, RevisionClean
<1>6. /\ b.tasks = a.tasks /\ b.lastTime = a.lastTime /\ DOMAIN b.records = DOMAIN a.records
      /\ op.record \in DOMAIN a.records /\ b.records[op.record].site = a.records[op.record].site
      /\ key \in DOMAIN b.requests /\ b.requests[key].record = op.record
  BY <1>1 DEF Revision, RevisedRecord
<1>7. EventSupported(b, e)
  BY <1>3, <1>4, <1>6 DEF EventSupported, Admissible
<1>8. Clean(Audit(b, e))
  BY <1>3, <1>5, <1>6, <1>7, AuditClean
<1> QED BY <1>2, <1>8

-----------------------------------------------------------------------------
(* Creations.                                                              *)

\* A creation but for its event: the record rid is new.
Creation(a, b, rid, key, c) ==
    /\ b = [f \in AppFields |-> b[f]]
    /\ b.tasks = a.tasks /\ b.revokedTasks = a.revokedTasks /\ b.deliveries = a.deliveries
    /\ b.baselines = a.baselines /\ b.audit = a.audit /\ b.grants = a.grants
    /\ b.lastTime = a.lastTime /\ b.clockFrozen = a.clockFrozen
    /\ rid \notin DOMAIN a.records /\ Cardinality(DOMAIN a.records) < Limit
    /\ Extends(a.records, b.records, rid, b.records[rid])
    /\ LET r == b.records[rid] IN
        /\ DOMAIN r = RecordFields /\ r.createdBy = key.principal /\ r.task = key.task
        /\ r.revision = 1 /\ r.secretVersion = 1 /\ r.deleted = FALSE /\ r.signup # "verified_login"
        /\ r.site = a.tasks[key.task].site /\ "secret_write" \in a.tasks[key.task].permissions
        /\ r.fields \subseteq a.tasks[key.task].fields /\ KindAdmits(r.kind, r.fields)
    /\ key \notin DOMAIN a.requests /\ Cardinality(DOMAIN a.requests) < Limit
    /\ Extends(a.requests, b.requests, key, c)
    /\ c.record = rid /\ c.revision = 1 /\ c.at \in Nat /\ c.kind = "create"
    /\ key.task \in DOMAIN a.tasks /\ key.principal = a.tasks[key.task].principal
    /\ \A d \in DOMAIN a.deliveries : a.deliveries[d].key # key

LEMMA CreationIs ==
    ASSUME NEW a, Formed(a), NEW ctx, NEW tid, NEW request, NEW op, NEW at \in Nat, NEW new, op.op = "create",
           Admissible(a, ctx, tid, request, op, at, new)
    PROVE  LET b == Changed(a, ctx, tid, request, op, at, new)
               key == RequestKey(ctx, tid, request)
           IN  Creation(a, b, new, key, b.requests[key])
<1> DEFINE b == Changed(a, ctx, tid, request, op, at, new)
           key == RequestKey(ctx, tid, request)
           r == NewRecord(a, ctx, tid, op)
           records == Inserted(a.records, new, r)
           receipt == [fingerprint |-> op, record |-> new, revision |-> records[new].revision,
                       grant |-> GrantOf(op, new), kind |-> CachedKind(op), at |-> at]
           requests == Inserted(a.requests, key, receipt)
           c == b.requests[key]
<1>1. Subject(op, new) = new /\ MutatedGrants(a, ctx, tid, op, new) = a.grants /\ CachedKind(op) = "create"
  BY DEF Subject, MutatedGrants, CachedKind
<1>2. b = [a EXCEPT !.records = records, !.grants = a.grants, !.requests = requests]
  <2> HIDE DEF r
  <2> QED BY <1>1 DEF Changed, r
<1>3. /\ tid \in DOMAIN a.tasks /\ a.tasks[tid].principal = ctx.principal
      /\ key \notin DOMAIN a.requests /\ Cardinality(DOMAIN a.requests) < Limit
      /\ \A d \in DOMAIN a.deliveries : a.deliveries[d].key # key
      /\ MayCreate(a, tid, op)
      /\ Cardinality(DOMAIN a.records) < Limit /\ new \notin DOMAIN a.records
  BY DEF Admissible, Authorize
<1>4. Extends(a.records, records, new, r) /\ Extends(a.requests, requests, key, receipt)
  BY <1>3, InsertedIs
<1>5. /\ DOMAIN r = RecordFields /\ r.createdBy = ctx.principal /\ r.task = tid
      /\ r.revision = 1 /\ r.secretVersion = 1 /\ r.deleted = FALSE /\ r.signup # "verified_login"
      /\ r.site = a.tasks[tid].site /\ r.fields = op.fields /\ r.kind = op.kind
  BY DEF NewRecord, RecordFields
<1>6. receipt.record = new /\ receipt.revision = records[new].revision /\ receipt.at = at /\ receipt.kind = "create"
  BY <1>1
<1>7. key.task = tid /\ key.principal = ctx.principal
  BY DEF RequestKey
<1> HIDE DEF b, key, r, receipt, records, requests
<1>8. /\ b = [f \in AppFields |-> b[f]]
      /\ b.tasks = a.tasks /\ b.revokedTasks = a.revokedTasks /\ b.deliveries = a.deliveries
      /\ b.baselines = a.baselines /\ b.audit = a.audit /\ b.grants = a.grants
      /\ b.lastTime = a.lastTime /\ b.clockFrozen = a.clockFrozen
      /\ b.records = records /\ b.requests = requests
  BY <1>2 DEF Formed, AppFields
<1>9. b.records[new] = r /\ c = receipt
  BY <1>4, <1>8 DEF Extends
<1>10. Extends(a.records, b.records, new, b.records[new]) /\ Extends(a.requests, b.requests, key, c)
  BY <1>4, <1>8, <1>9
<1>11. /\ "secret_write" \in a.tasks[tid].permissions /\ r.fields \subseteq a.tasks[tid].fields
       /\ KindAdmits(r.kind, r.fields)
  BY <1>3, <1>5 DEF MayCreate
<1>12. c.revision = 1 /\ c.record = new /\ c.at \in Nat /\ c.kind = "create"
  BY <1>5, <1>6, <1>8, <1>9
<1> HIDE DEF c
<1>13. LET q == b.records[new] IN
       /\ DOMAIN q = RecordFields /\ q.createdBy = key.principal /\ q.task = key.task
       /\ q.revision = 1 /\ q.secretVersion = 1 /\ q.deleted = FALSE /\ q.signup # "verified_login"
       /\ q.site = a.tasks[key.task].site /\ "secret_write" \in a.tasks[key.task].permissions
       /\ q.fields \subseteq a.tasks[key.task].fields /\ KindAdmits(q.kind, q.fields)
  BY <1>5, <1>7, <1>9, <1>11
<1>14. Creation(a, b, new, key, c)
  BY <1>3, <1>7, <1>8, <1>10, <1>12, <1>13 DEF Creation
<1> QED BY <1>14 DEF b, key, c

LEMMA CreationWhole ==
    ASSUME NEW a, NEW b, NEW rid, NEW key, NEW c, Clean(a), Creation(a, b, rid, key, c)
    PROVE  Whole(b) /\ Lasting(b) /\ Sized(b)
<1>1. Whole(a) /\ Formed(a) /\ Sound(a) /\ Lasting(a) /\ Sized(a)
  BY DEF Clean, Good, Whole
<1>2. /\ b = [f \in AppFields |-> b[f]]
      /\ b.tasks = a.tasks /\ b.revokedTasks = a.revokedTasks /\ b.deliveries = a.deliveries
      /\ b.baselines = a.baselines /\ b.audit = a.audit /\ b.grants = a.grants
      /\ b.lastTime = a.lastTime /\ b.clockFrozen = a.clockFrozen
  BY DEF Creation
<1>3. /\ DOMAIN b.records = DOMAIN a.records \cup {rid} /\ rid \notin DOMAIN a.records
      /\ \A x \in DOMAIN a.records : b.records[x] = a.records[x]
      /\ DOMAIN b.records[rid] = RecordFields /\ b.records[rid].revision = 1 /\ b.records[rid].secretVersion = 1
      /\ b.records[rid].deleted = FALSE /\ b.records[rid].signup # "verified_login"
  BY DEF Creation, Extends
<1>4. /\ DOMAIN b.requests = DOMAIN a.requests \cup {key} /\ key \notin DOMAIN a.requests /\ b.requests[key] = c
      /\ \A k \in DOMAIN a.requests : b.requests[k] = a.requests[k]
      /\ c.record = rid /\ c.revision = 1 /\ c.at \in Nat /\ c.kind = "create"
  BY DEF Creation, Extends
<1>5. \A x \in DOMAIN b.records :
        /\ DOMAIN b.records[x] = RecordFields /\ b.records[x].revision \in Nat
        /\ b.records[x].secretVersion \in Nat /\ b.records[x].deleted \in BOOLEAN
        /\ b.records[x].signup # "verified_login"
  <2> SUFFICES ASSUME NEW x \in DOMAIN b.records
               PROVE  /\ DOMAIN b.records[x] = RecordFields /\ b.records[x].revision \in Nat
                      /\ b.records[x].secretVersion \in Nat /\ b.records[x].deleted \in BOOLEAN
                      /\ b.records[x].signup # "verified_login"
    OBVIOUS
  <2>1. CASE x = rid
    <3>1. b.records[rid].deleted \in BOOLEAN
      BY <1>3, Zenon
    <3>2. b.records[rid].revision \in Nat /\ b.records[rid].secretVersion \in Nat
      BY <1>3
    <3> QED BY <1>3, <2>1, <3>1, <3>2
  <2>2. CASE x \in DOMAIN a.records
    BY <1>1, <1>3, <2>2 DEF Whole, Formed, Lasting
  <2> QED BY <1>3, <2>1, <2>2
<1>6. \A k \in DOMAIN b.requests : b.requests[k].at \in Nat /\ b.requests[k].revision \in Nat
  <2>1. \A k \in DOMAIN a.requests : a.requests[k].at \in Nat /\ a.requests[k].revision \in Nat
    BY <1>1 DEF Whole, Formed
  <2> QED BY <1>4, <2>1
<1>7. Formed(b)
  BY <1>1, <1>2, <1>5, <1>6 DEF Formed
<1>8. /\ IsFiniteSet(DOMAIN b.records) /\ IsFiniteSet(DOMAIN b.requests)
      /\ Cardinality(DOMAIN b.records) <= Limit /\ Cardinality(DOMAIN b.requests) <= Limit
  <2>1. IsFiniteSet(DOMAIN a.records) /\ IsFiniteSet(DOMAIN a.requests)
    BY <1>1 DEF Whole
  <2>2. IsFiniteSet(DOMAIN b.records) /\ Cardinality(DOMAIN b.records) = Cardinality(DOMAIN a.records) + 1
    BY <1>3, <2>1, FS_AddElement
  <2>3. IsFiniteSet(DOMAIN b.requests) /\ Cardinality(DOMAIN b.requests) = Cardinality(DOMAIN a.requests) + 1
    BY <1>4, <2>1, FS_AddElement
  <2>4. Cardinality(DOMAIN a.records) \in Nat /\ Cardinality(DOMAIN a.requests) \in Nat /\ Limit \in Nat
    BY <2>1, FS_CardinalityType, PolicyConstants
  <2>5. Cardinality(DOMAIN a.records) < Limit /\ Cardinality(DOMAIN a.requests) < Limit
    BY DEF Creation
  <2> QED BY <2>2, <2>3, <2>4, <2>5
<1>9. Whole(b)
  <2>1. \A x \in DOMAIN b.records : b.records[x].secretVersion \in Nat /\ b.records[x].deleted \in BOOLEAN
    BY <1>5
  <2> QED BY <1>1, <1>2, <1>6, <1>7, <1>8, <2>1 DEF Whole
<1>10. Sized(b)
  BY <1>1, <1>2, <1>8 DEF Sized
<1>11. Lasting(b)
  <2>1. \A k \in DOMAIN a.requests : a.requests[k].record \in DOMAIN a.records
    BY <1>1 DEF Sound, ValidReceipt
  <2>2. ASSUME NEW k \in DOMAIN b.requests, b.requests[k].kind \in {"delete", "share"} PROVE k \in DOMAIN a.requests
    BY <1>4, <2>2
  <2>3. \A k \in DOMAIN b.requests : b.requests[k].kind = "delete" =>
            b.requests[k].revision = b.records[b.requests[k].record].revision
    BY <1>1, <1>3, <1>4, <2>1, <2>2 DEF Lasting
  <2>4. \A k, l \in DOMAIN b.requests :
            b.requests[k].kind = "share" /\ b.requests[l].kind = "share" /\ b.requests[k].grant = b.requests[l].grant
                => k = l
    BY <1>1, <1>4, <2>2 DEF Lasting
  <2> QED BY <1>5, <2>3, <2>4 DEF Lasting
<1> QED BY <1>9, <1>10, <1>11

LEMMA CreationSound ==
    ASSUME NEW a, NEW b, NEW rid, NEW key, NEW c, Clean(a), Creation(a, b, rid, key, c)
    PROVE  Sound(b)
<1>1. Sound(a) /\ Whole(a)
  BY DEF Clean, Good
<1>2. /\ b.tasks = a.tasks /\ b.revokedTasks = a.revokedTasks /\ b.deliveries = a.deliveries
      /\ b.baselines = a.baselines /\ b.grants = a.grants
      /\ rid \notin DOMAIN a.records /\ key \notin DOMAIN a.requests
      /\ DOMAIN b.records = DOMAIN a.records \cup {rid}
      /\ \A x \in DOMAIN a.records : b.records[x] = a.records[x]
      /\ b.requests[key] = c /\ DOMAIN b.requests = DOMAIN a.requests \cup {key}
      /\ \A k \in DOMAIN a.requests : b.requests[k] = a.requests[k]
      /\ c.record = rid /\ c.revision = 1 /\ c.kind = "create"
      /\ key.task \in DOMAIN a.tasks /\ key.principal = a.tasks[key.task].principal
  BY DEF Creation, Extends
<1>3. LET r == b.records[rid] IN
      /\ r.createdBy = key.principal /\ r.task = key.task
      /\ r.revision = 1 /\ r.secretVersion = 1 /\ r.deleted = FALSE
      /\ r.site = a.tasks[key.task].site /\ "secret_write" \in a.tasks[key.task].permissions
      /\ r.fields \subseteq a.tasks[key.task].fields /\ KindAdmits(r.kind, r.fields)
  BY DEF Creation
<1>4. \A k \in DOMAIN a.requests : a.requests[k].record \in DOMAIN a.records
  BY <1>1 DEF Sound, ValidReceipt
<1>5. /\ \A y : Baseline(b, y) = Baseline(a, y)
      /\ Baseline(b, rid) = NoBaseline
      /\ \A x \in DOMAIN a.records : Receipts(b, x) = Receipts(a, x)
      /\ Receipts(b, rid) = {key}
  <2>1. rid \notin DOMAIN a.baselines
    BY <1>1, <1>2 DEF Sound, SoundBaseline
  <2>2. \A y : Baseline(b, y) = Baseline(a, y)
    BY <1>2 DEF Baseline
  <2>3. Baseline(b, rid) = NoBaseline
    BY <1>2, <2>1 DEF Baseline
  <2>4. ASSUME NEW x \in DOMAIN a.records, NEW k PROVE k \in Receipts(b, x) <=> k \in Receipts(a, x)
    BY <1>2 DEF Receipts
  <2>5. ASSUME NEW k PROVE k \in Receipts(b, rid) <=> k = key
    BY <1>2, <1>4 DEF Receipts
  <2> QED BY <2>2, <2>3, <2>4, <2>5
<1>6. ASSUME NEW x \in DOMAIN b.records PROVE ValidRecord(b, b.records[x])
  <2>1. CASE x = rid
    <3>1. 1 <= 1
      OBVIOUS
    <3>2. LET r == b.records[rid] IN
          /\ r.task \in DOMAIN b.tasks /\ b.tasks[r.task].site = r.site /\ b.tasks[r.task].principal = r.createdBy
          /\ "secret_write" \in b.tasks[r.task].permissions /\ r.secretVersion <= r.revision
          /\ ~r.deleted /\ r.fields \subseteq b.tasks[r.task].fields /\ KindAdmits(r.kind, r.fields)
      BY <1>2, <1>3, <3>1
    <3> QED BY <2>1, <3>2 DEF ValidRecord
  <2>2. CASE x \in DOMAIN a.records
    <3>1. ValidRecord(a, b.records[x])
      BY <1>1, <1>2, <2>2 DEF Sound
    <3> QED BY <1>2, <3>1 DEF ValidRecord
  <2> QED BY <1>2, <2>1, <2>2
<1>7. ASSUME NEW g \in DOMAIN b.grants PROVE ValidGrant(b, b.grants[g])
  <2>1. ValidGrant(a, b.grants[g])
    BY <1>1, <1>2 DEF Sound
  <2>2. b.grants[g].record \in DOMAIN a.records
    BY <2>1 DEF ValidGrant
  <2> QED BY <1>2, <2>1, <2>2 DEF ValidGrant
<1>8. ASSUME NEW x \in DOMAIN b.requests PROVE ValidReceipt(b, x)
  <2>1. CASE x = key
    <3>1. c.revision > Baseline(b, rid).through /\ c.revision <= b.records[rid].revision
      <4>1. 1 > 0 /\ 1 <= 1
        OBVIOUS
      <4> QED BY <1>2, <1>3, <1>5, <4>1 DEF NoBaseline
    <3>2. /\ key.task \in DOMAIN b.tasks /\ rid \in DOMAIN b.records
          /\ key.principal = b.tasks[key.task].principal /\ b.tasks[key.task].site = b.records[rid].site
          /\ b.records[rid].task = key.task /\ b.records[rid].createdBy = key.principal
      BY <1>2, <1>3
    <3>3. \A l \in Receipts(b, rid) : l = key
      BY <1>5
    <3> QED BY <1>2, <2>1, <3>1, <3>2, <3>3 DEF ValidReceipt
  <2>2. CASE x \in DOMAIN a.requests
    <3> DEFINE k == a.requests[x]
    <3>1. ValidReceipt(a, x) /\ b.requests[x] = k /\ k.record \in DOMAIN a.records
      BY <1>1, <1>2, <1>4, <2>2 DEF Sound
    <3>2. /\ b.records[k.record] = a.records[k.record] /\ k.record \in DOMAIN b.records
          /\ Receipts(b, k.record) = Receipts(a, k.record) /\ Baseline(b, k.record) = Baseline(a, k.record)
      BY <1>2, <1>5, <3>1
    <3>3. \A l \in Receipts(a, k.record) : b.requests[l] = a.requests[l]
      BY <1>2 DEF Receipts
    <3> QED BY <1>2, <3>1, <3>2, <3>3, ZenonT(60) DEF ValidReceipt
  <2> QED BY <1>2, <2>1, <2>2
<1>9. ASSUME NEW x \in DOMAIN b.baselines PROVE SoundBaseline(b, x)
  <2>1. SoundBaseline(a, x) /\ x \in DOMAIN a.records
    BY <1>1, <1>2 DEF Sound, SoundBaseline
  <2>2. \A k \in DOMAIN b.requests : b.requests[k].kind = "share" => k \in DOMAIN a.requests /\ b.requests[k] = a.requests[k]
    BY <1>2
  <2> QED BY <1>2, <2>1, <2>2 DEF SoundBaseline
<1>10. ASSUME NEW x \in DOMAIN b.records PROVE SoundCount(b, x)
  <2>1. CASE x = rid
    <3>1. OfKind(b, rid, "create") = {key} /\ OfKind(b, rid, "delete") = {} /\ OfKind(b, rid, "patch") = {}
      BY <1>2, <1>5 DEF OfKind
    <3>2. Cardinality(OfKind(b, rid, "patch")) = 0
      BY <3>1, FS_EmptySet
    <3>3. \A n \in 0 + 1 .. 1 : \E k \in Receipts(b, rid) : b.requests[k].revision = n
      BY <1>2, <1>5
    <3>4. /\ Baseline(b, rid).through = 0 /\ Baseline(b, rid).deletePruned = FALSE
      BY <1>5 DEF NoBaseline
    <3>5. b.records[rid].secretVersion = 1 + Cardinality(OfKind(b, rid, "patch"))
      BY <1>3, <3>2
    <3> QED BY <1>3, <2>1, <3>1, <3>3, <3>4, <3>5 DEF SoundCount
  <2>2. CASE x \in DOMAIN a.records
    <3>1. SoundCount(a, x) /\ b.records[x] = a.records[x] /\ Receipts(b, x) = Receipts(a, x)
          /\ Baseline(b, x) = Baseline(a, x)
      BY <1>1, <1>2, <1>5, <2>2 DEF Sound
    <3>2. \A l \in Receipts(a, x) : b.requests[l] = a.requests[l]
      BY <1>2 DEF Receipts
    <3>3. \A kind : OfKind(b, x, kind) = OfKind(a, x, kind)
      BY <3>1, <3>2 DEF OfKind
    <3> QED BY <3>1, <3>2, <3>3 DEF SoundCount
  <2> QED BY <1>2, <2>1, <2>2
<1>11. ASSUME NEW g \in DOMAIN b.grants PROVE Listed(b, g)
  <2>1. Listed(a, g)
    BY <1>1, <1>2 DEF Sound
  <2>2. CASE \E k \in DOMAIN a.requests : a.requests[k].kind = "share" /\ a.requests[k].grant = g
    BY <1>2, <2>2 DEF Listed
  <2>3. CASE \E x \in DOMAIN a.baselines : g \in a.baselines[x].prunedGrants
    BY <1>2, <2>3 DEF Listed
  <2> QED BY <2>1, <2>2, <2>3 DEF Listed
<1>12. ASSUME NEW id \in DOMAIN b.deliveries PROVE ValidDelivery(b, id)
  <2> DEFINE d == a.deliveries[id]
  <2>1. ValidDelivery(a, id) /\ b.deliveries[id] = d
    BY <1>1, <1>2 DEF Sound
  <2>2. d.record \in DOMAIN a.records /\ d.key \notin DOMAIN a.requests
    BY <2>1 DEF ValidDelivery
  <2>3. d.key \notin DOMAIN b.requests
    BY <1>2, <2>2 DEF Creation
  <2>4. d.record \in DOMAIN b.records /\ b.records[d.record] = a.records[d.record]
    BY <1>2, <2>2
  <2> HIDE DEF d
  <2> QED BY <1>2, <2>1, <2>3, <2>4, ZenonT(40) DEF ValidDelivery, d
<1>13. /\ \A tid \in DOMAIN b.tasks : ApprovalValid(b.tasks[tid], 0)
       /\ b.revokedTasks \subseteq DOMAIN b.tasks
  BY <1>1, <1>2 DEF Sound
<1> QED BY <1>6, <1>7, <1>8, <1>9, <1>10, <1>11, <1>12, <1>13 DEF Sound

LEMMA CreationClean ==
    ASSUME NEW a, NEW b, NEW rid, NEW key, NEW c, Clean(a), Creation(a, b, rid, key, c)
    PROVE  Clean(b)
<1>1. Whole(b) /\ Lasting(b) /\ Sized(b) /\ Sound(b)
  BY CreationWhole, CreationSound
<1>2. /\ \A i \in DOMAIN a.audit : EventSupported(a, a.audit[i])
      /\ Dated(a) /\ (a.clockFrozen => a.lastTime # 0)
  BY DEF Clean, Good
<1>3. /\ b.tasks = a.tasks /\ b.audit = a.audit /\ b.lastTime = a.lastTime /\ b.clockFrozen = a.clockFrozen
      /\ \A x \in DOMAIN a.records : x \in DOMAIN b.records /\ b.records[x] = a.records[x]
      /\ \A k \in DOMAIN a.requests : k \in DOMAIN b.requests /\ b.requests[k] = a.requests[k]
  BY DEF Creation, Extends
<1>4. \A i \in DOMAIN b.audit : EventSupported(b, b.audit[i])
  <2> SUFFICES ASSUME NEW i \in DOMAIN b.audit PROVE EventSupported(b, b.audit[i])
    OBVIOUS
  <2>1. EventSupported(a, b.audit[i])
    BY <1>2, <1>3
  <2> QED BY <1>3, <2>1 DEF EventSupported
<1>5. Dated(b)
  <2> SUFFICES ASSUME NEW i \in DOMAIN b.audit
               PROVE  /\ b.audit[i].at <= b.lastTime
                      /\ b.tasks[b.audit[i].task].site = b.records[b.audit[i].record].site
    BY DEF Dated
  <2>1. EventSupported(a, a.audit[i])
    BY <1>2, <1>3
  <2>2. a.audit[i].task \in DOMAIN a.tasks /\ a.audit[i].record \in DOMAIN a.records
    BY <2>1 DEF EventSupported
  <2>3. a.audit[i].at <= a.lastTime /\ a.tasks[a.audit[i].task].site = a.records[a.audit[i].record].site
    BY <1>2, <1>3, <2>2 DEF Dated
  <2> QED BY <1>3, <2>2, <2>3
<1> QED BY <1>1, <1>2, <1>3, <1>4, <1>5 DEF Clean, Good

LEMMA CreatedClean ==
    ASSUME NEW a, Clean(a),
           NEW ctx, NEW tid \in {approval.id : approval \in Approvals}, NEW request \in Requests, NEW op,
           NEW at \in Nat, NEW new, op.op = "create", at <= a.lastTime,
           Admissible(a, ctx, tid, request, op, at, new)
    PROVE  Clean(Mutate(a, ctx, tid, request, op, at, new))
<1> DEFINE b == Changed(a, ctx, tid, request, op, at, new)
           key == RequestKey(ctx, tid, request)
           e == [task |-> tid, record |-> new, request |-> request, at |-> at]
           c == b.requests[key]
<1>1. Creation(a, b, new, key, c)
  <2>1. Formed(a)
    BY DEF Clean, Good, Whole
  <2> QED BY <2>1, CreationIs
<1>2. Mutate(a, ctx, tid, request, op, at, new) = Audit(b, e)
  BY MutateIs DEF Subject
<1>3. new \in Nat
  BY DEF Admissible
<1>4. /\ e \in Events /\ e.task = tid /\ e.record = new /\ e.request = request /\ e.at = at
  BY <1>3 DEF Events
<1>5. key = [principal |-> a.tasks[tid].principal, task |-> tid, id |-> request] /\ tid \in DOMAIN a.tasks
      /\ key.task = tid
  BY DEF Admissible, RequestKey
<1> HIDE DEF b, e, c
<1>6. Clean(b)
  BY <1>1, CreationClean
<1> HIDE DEF key
<1>7. /\ b.tasks = a.tasks /\ b.lastTime = a.lastTime /\ new \in DOMAIN b.records
      /\ b.records[new].site = a.tasks[key.task].site
      /\ key \in DOMAIN b.requests /\ b.requests[key].record = new
  BY <1>1 DEF Creation, Extends
<1>8. EventSupported(b, e)
  BY <1>4, <1>5, <1>7 DEF EventSupported
<1>9. b.tasks[e.task].site = b.records[e.record].site /\ e.at <= b.lastTime
  BY <1>4, <1>5, <1>7
<1>10. Clean(Audit(b, e))
  BY <1>4, <1>6, <1>8, <1>9, AuditClean
<1> QED BY <1>2, <1>10

LEMMA ReadClean ==
    ASSUME NEW a, Clean(a), NEW tid \in {approval.id : approval \in Approvals}, NEW rid \in Nat, NEW at \in Nat,
           tid \in DOMAIN a.tasks, rid \in DOMAIN a.records, a.tasks[tid].site = a.records[rid].site,
           at <= a.lastTime
    PROVE  Clean(Read(a, tid, rid, at))
<1> DEFINE e == [task |-> tid, record |-> rid, request |-> None, at |-> at]
<1>1. /\ e \in Events /\ e.task = tid /\ e.record = rid /\ e.request = None /\ e.at = at
  BY DEF Events
<1>2. Read(a, tid, rid, at) = Audit(a, e)
  BY DEF Read
<1> HIDE DEF e
<1>3. EventSupported(a, e)
  BY <1>1 DEF EventSupported
<1>4. Clean(Audit(a, e))
  BY <1>1, <1>3, AuditClean
<1> QED BY <1>2, <1>4

-----------------------------------------------------------------------------
(* Deliveries, their outcomes, and what recovery makes of them.            *)

\* b is a with other outcomes and less authority.
Settles(a, b) ==
    /\ b = [f \in AppFields |-> b[f]]
    /\ b.tasks = a.tasks /\ b.revokedTasks \subseteq DOMAIN a.tasks
    /\ b.requests = a.requests /\ b.baselines = a.baselines /\ b.audit = a.audit
    /\ b.lastTime = a.lastTime /\ b.clockFrozen = a.clockFrozen
    /\ DOMAIN b.records = DOMAIN a.records
    /\ \A x \in DOMAIN a.records :
        LET r == a.records[x]
            s == b.records[x]
        IN  /\ DOMAIN s = RecordFields
            /\ s.createdBy = r.createdBy /\ s.task = r.task /\ s.site = r.site /\ s.kind = r.kind
            /\ s.revision = r.revision /\ s.secretVersion = r.secretVersion /\ s.deleted = r.deleted
            /\ s.fields = r.fields /\ s.signup # "verified_login"
    /\ DOMAIN b.grants = DOMAIN a.grants
    /\ \A g \in DOMAIN a.grants :
        b.grants[g] = a.grants[g] \/ b.grants[g] = [a.grants[g] EXCEPT !.revoked = TRUE]

\* The deliveries of b are in order.
Delivers(b) ==
    /\ IsFiniteSet(DOMAIN b.deliveries) /\ Cardinality(DOMAIN b.deliveries) <= Limit
    /\ \A id \in DOMAIN b.deliveries :
        /\ DOMAIN b.deliveries[id] = AttemptFields
        /\ b.deliveries[id].at \in Nat /\ b.deliveries[id].version \in Nat
        /\ ValidDelivery(b, id)

LEMMA SettlesGrants ==
    ASSUME NEW a, NEW b, Clean(a), Settles(a, b), NEW g \in DOMAIN a.grants
    PROVE  LET n == b.grants[g]
               o == a.grants[g]
           IN  /\ DOMAIN n = GrantFields /\ n.record = o.record /\ n.spec = o.spec /\ n.version = o.version
               /\ n.issuerTask = o.issuerTask /\ n.adminIssued = o.adminIssued /\ (o.revoked => n.revoked)
<1>1. DOMAIN a.grants[g] = GrantFields
  BY DEF Clean, Good, Whole, Formed
<1>2. b.grants[g] = a.grants[g] \/ b.grants[g] = [a.grants[g] EXCEPT !.revoked = TRUE]
  BY DEF Settles
<1> QED BY <1>1, <1>2 DEF GrantFields

LEMMA SettlesClean ==
    ASSUME NEW a, NEW b, Clean(a), Settles(a, b), Delivers(b)
    PROVE  Clean(b)
<1>1. /\ Whole(a) /\ Formed(a) /\ Sound(a) /\ Lasting(a) /\ Sized(a) /\ Dated(a)
      /\ \A i \in DOMAIN a.audit : EventSupported(a, a.audit[i])
      /\ a.clockFrozen => a.lastTime # 0
  BY DEF Clean, Good, Whole
<1>2. /\ b = [f \in AppFields |-> b[f]]
      /\ b.tasks = a.tasks /\ b.revokedTasks \subseteq DOMAIN a.tasks
      /\ b.requests = a.requests /\ b.baselines = a.baselines /\ b.audit = a.audit
      /\ b.lastTime = a.lastTime /\ b.clockFrozen = a.clockFrozen
      /\ DOMAIN b.records = DOMAIN a.records /\ DOMAIN b.grants = DOMAIN a.grants
  BY DEF Settles
<1>3. \A x \in DOMAIN a.records :
        LET r == a.records[x]
            s == b.records[x]
        IN  /\ DOMAIN s = RecordFields
            /\ s.createdBy = r.createdBy /\ s.task = r.task /\ s.site = r.site /\ s.kind = r.kind
            /\ s.revision = r.revision /\ s.secretVersion = r.secretVersion /\ s.deleted = r.deleted
            /\ s.fields = r.fields /\ s.signup # "verified_login"
  BY DEF Settles
<1>4. /\ IsFiniteSet(DOMAIN b.deliveries) /\ Cardinality(DOMAIN b.deliveries) <= Limit
      /\ \A id \in DOMAIN b.deliveries :
            /\ DOMAIN b.deliveries[id] = AttemptFields
            /\ b.deliveries[id].at \in Nat /\ b.deliveries[id].version \in Nat
      /\ \A id \in DOMAIN b.deliveries : ValidDelivery(b, id)
  BY DEF Delivers
<1>5. ASSUME NEW g \in DOMAIN a.grants
      PROVE  LET n == b.grants[g]
                 o == a.grants[g]
             IN  /\ DOMAIN n = GrantFields /\ n.record = o.record /\ n.spec = o.spec /\ n.version = o.version
                 /\ n.issuerTask = o.issuerTask /\ n.adminIssued = o.adminIssued /\ (o.revoked => n.revoked)
  BY SettlesGrants
<1>6. Formed(b)
  <2>1. \A x \in DOMAIN b.records : DOMAIN b.records[x] = RecordFields /\ b.records[x].revision \in Nat
    BY <1>1, <1>2, <1>3 DEF Formed
  <2>2. \A g \in DOMAIN b.grants : DOMAIN b.grants[g] = GrantFields
    BY <1>2, <1>5
  <2> QED BY <1>1, <1>2, <1>4, <2>1, <2>2 DEF Formed
<1>7. Whole(b)
  <2>1. \A x \in DOMAIN b.records : b.records[x].secretVersion \in Nat /\ b.records[x].deleted \in BOOLEAN
    BY <1>1, <1>2, <1>3 DEF Whole
  <2>2. \A g \in DOMAIN b.grants : b.grants[g].version \in Nat /\ b.grants[g].spec.expiresAt \in Nat
    BY <1>1, <1>2, <1>5 DEF Whole
  <2> QED BY <1>1, <1>2, <1>4, <1>6, <2>1, <2>2 DEF Whole
<1>8. \A x : Receipts(b, x) = Receipts(a, x) /\ Baseline(b, x) = Baseline(a, x)
  BY <1>2 DEF Receipts, Baseline
<1>9. ASSUME NEW x \in DOMAIN b.records PROVE ValidRecord(b, b.records[x])
  <2>1. ValidRecord(a, a.records[x])
    BY <1>1, <1>2 DEF Sound
  <2> QED BY <1>2, <1>3, <2>1 DEF ValidRecord
<1>10. ASSUME NEW g \in DOMAIN b.grants PROVE ValidGrant(b, b.grants[g])
  <2> DEFINE n == b.grants[g]
             o == a.grants[g]
  <2>1. ValidGrant(a, o)
    BY <1>1, <1>2 DEF Sound
  <2>2. /\ n.record = o.record /\ n.spec = o.spec /\ n.version = o.version
        /\ n.issuerTask = o.issuerTask /\ n.adminIssued = o.adminIssued /\ (o.revoked => n.revoked)
    BY <1>2, <1>5
  <2>3. o.record \in DOMAIN a.records
    BY <2>1 DEF ValidGrant
  <2> DEFINE r == a.records[o.record]
             s == b.records[o.record]
  <2>4. /\ s.createdBy = r.createdBy /\ s.task = r.task /\ s.site = r.site /\ s.deleted = r.deleted
        /\ s.secretVersion = r.secretVersion /\ s.fields = r.fields
    BY <1>3, <2>3
  <2> HIDE DEF n, o, r, s
  <2>5. /\ b.tasks = a.tasks /\ DOMAIN b.records = DOMAIN a.records
    BY <1>2
  <2>6. ValidGrant(b, n)
    BY <2>1, <2>2, <2>4, <2>5, ZenonT(60) DEF ValidGrant, r, s
  <2> QED BY <2>6 DEF n
<1>11. ASSUME NEW x \in DOMAIN b.requests PROVE ValidReceipt(b, x)
  <2> DEFINE c == a.requests[x]
             r == a.records[c.record]
             s == b.records[c.record]
  <2>1. ValidReceipt(a, x) /\ b.requests[x] = c
    BY <1>1, <1>2 DEF Sound
  <2>2. c.record \in DOMAIN a.records
    BY <2>1 DEF ValidReceipt
  <2>3. /\ s.createdBy = r.createdBy /\ s.task = r.task /\ s.site = r.site /\ s.revision = r.revision
        /\ s.deleted = r.deleted
    BY <1>3, <2>2
  <2>4. \A g \in DOMAIN a.grants : /\ g \in DOMAIN b.grants /\ b.grants[g].record = a.grants[g].record
                                   /\ b.grants[g].issuerTask = a.grants[g].issuerTask
                                   /\ a.grants[g].revoked => b.grants[g].revoked
    BY <1>2, <1>5
  <2> HIDE DEF c, r, s
  <2>5. /\ x.task \in DOMAIN b.tasks /\ c.record \in DOMAIN b.records
        /\ x.principal = b.tasks[x.task].principal /\ b.tasks[x.task].site = s.site
        /\ c.revision > Baseline(b, c.record).through /\ c.revision <= s.revision
        /\ \A l \in Receipts(b, c.record) : b.requests[l].revision = c.revision => l = x
    BY <1>2, <1>8, <2>1, <2>3 DEF ValidReceipt, c, r
  <2>6. CASE c.kind = "create"
    <3>1. s.task = x.task /\ s.createdBy = x.principal /\ c.revision = 1
      BY <2>1, <2>3, <2>6 DEF ValidReceipt, c, r
    <3> QED BY <2>1, <2>5, <2>6, <3>1 DEF ValidReceipt, s
  <2>7. CASE c.kind = "share"
    <3>1. /\ c.grant \in DOMAIN a.grants /\ a.grants[c.grant].record = c.record
          /\ a.grants[c.grant].issuerTask = x.task
      BY <2>1, <2>7 DEF ValidReceipt, c, r
    <3>2. /\ c.grant \in DOMAIN b.grants /\ b.grants[c.grant].record = c.record
          /\ b.grants[c.grant].issuerTask = x.task
      BY <2>4, <3>1
    <3> QED BY <2>1, <2>5, <2>7, <3>2 DEF ValidReceipt, s
  <2>8. CASE c.kind = "revoke"
    <3>1. /\ c.grant \in DOMAIN a.grants /\ a.grants[c.grant].record = c.record
          /\ a.grants[c.grant].revoked
      BY <2>1, <2>8 DEF ValidReceipt, c, r
    <3>2. /\ c.grant \in DOMAIN b.grants /\ b.grants[c.grant].record = c.record
          /\ b.grants[c.grant].revoked
      BY <2>4, <3>1
    <3> QED BY <2>1, <2>5, <2>8, <3>2 DEF ValidReceipt, s
  <2>9. CASE c.kind = "delete"
    <3>1. s.deleted
      BY <2>1, <2>3, <2>9 DEF ValidReceipt, c, r
    <3> QED BY <2>1, <2>5, <2>9, <3>1 DEF ValidReceipt, s
  <2>10. CASE c.kind \notin {"create", "share", "revoke", "delete"}
    BY <2>1, <2>5, <2>10 DEF ValidReceipt, s
  <2> QED BY <2>6, <2>7, <2>8, <2>9, <2>10
<1>12. ASSUME NEW x \in DOMAIN b.baselines PROVE SoundBaseline(b, x)
  <2>1. SoundBaseline(a, x)
    BY <1>1, <1>2 DEF Sound
  <2>2. x \in DOMAIN a.records /\ b.records[x].revision = a.records[x].revision
    BY <1>3, <2>1 DEF SoundBaseline
  <2>3. \A g \in DOMAIN a.grants : b.grants[g].record = a.grants[g].record
    BY <1>5
  <2> QED BY <1>2, <2>1, <2>2, <2>3 DEF SoundBaseline
<1>13. ASSUME NEW x \in DOMAIN b.records PROVE SoundCount(b, x)
  <2>1. SoundCount(a, x)
    BY <1>1, <1>2 DEF Sound
  <2>2. \A kind : OfKind(b, x, kind) = OfKind(a, x, kind)
    BY <1>2, <1>8 DEF OfKind
  <2> DEFINE r == a.records[x]
             s == b.records[x]
  <2>3. s.revision = r.revision /\ s.secretVersion = r.secretVersion /\ s.deleted = r.deleted
    BY <1>2, <1>3
  <2>4. Receipts(b, x) = Receipts(a, x) /\ Baseline(b, x) = Baseline(a, x) /\ b.requests = a.requests
    BY <1>2, <1>8
  <2> HIDE DEF r, s
  <2> QED BY <2>1, <2>2, <2>3, <2>4 DEF SoundCount, r, s
<1>14. \A g \in DOMAIN b.grants : Listed(b, g)
  BY <1>1, <1>2 DEF Sound, Listed
<1>15. Sound(b)
  <2>1. \A tid \in DOMAIN b.tasks : ApprovalValid(b.tasks[tid], 0)
    BY <1>1, <1>2 DEF Sound
  <2> QED BY <1>2, <1>4, <1>9, <1>10, <1>11, <1>12, <1>13, <1>14, <2>1 DEF Sound
<1>16. Lasting(b)
  <2>1. \A k \in DOMAIN a.requests : a.requests[k].record \in DOMAIN a.records
    BY <1>1 DEF Sound, ValidReceipt
  <2>2. \A k \in DOMAIN a.requests : b.records[a.requests[k].record].revision = a.records[a.requests[k].record].revision
    BY <1>3, <2>1
  <2>3. \A k \in DOMAIN b.requests : b.requests[k].kind = "delete" =>
            b.requests[k].revision = b.records[b.requests[k].record].revision
    BY <1>1, <1>2, <2>2 DEF Lasting
  <2>4. \A k, l \in DOMAIN b.requests :
            b.requests[k].kind = "share" /\ b.requests[l].kind = "share" /\ b.requests[k].grant = b.requests[l].grant
                => k = l
    BY <1>1, <1>2 DEF Lasting
  <2>5. \A x \in DOMAIN b.records : b.records[x].signup # "verified_login"
    BY <1>2, <1>3
  <2> QED BY <2>3, <2>4, <2>5 DEF Lasting
<1>17. Sized(b)
  BY <1>1, <1>2, <1>4 DEF Sized
<1>18. Dated(b)
  <2>1. \A x \in DOMAIN a.records : b.records[x].site = a.records[x].site
    BY <1>3
  <2>2. b.tasks = a.tasks /\ b.audit = a.audit /\ b.lastTime = a.lastTime /\ DOMAIN b.records = DOMAIN a.records
    BY <1>2
  <2> SUFFICES ASSUME NEW i \in DOMAIN a.audit
               PROVE  LET e == a.audit[i] IN
                      /\ e.at <= a.lastTime
                      /\ e.task \in DOMAIN a.tasks /\ e.record \in DOMAIN a.records =>
                            a.tasks[e.task].site = b.records[e.record].site
    BY <2>2, Zenon DEF Dated
  <2> DEFINE e == a.audit[i]
  <2>3. /\ e.at <= a.lastTime
        /\ e.task \in DOMAIN a.tasks /\ e.record \in DOMAIN a.records =>
                a.tasks[e.task].site = a.records[e.record].site
    BY <1>1, Zenon DEF Dated
  <2> HIDE DEF e
  <2>4. /\ e.at <= a.lastTime
        /\ e.task \in DOMAIN a.tasks /\ e.record \in DOMAIN a.records =>
                a.tasks[e.task].site = b.records[e.record].site
    BY <2>1, <2>3, Zenon
  <2> QED BY <2>4, Zenon DEF e
<1>19. \A i \in DOMAIN b.audit : EventSupported(b, b.audit[i])
  BY <1>1, <1>2 DEF EventSupported
<1> QED BY <1>1, <1>2, <1>7, <1>15, <1>16, <1>17, <1>18, <1>19 DEF Clean, Good

\* An attempt with another outcome, dispatched only if it was.
Outcome(o, n) ==
    /\ DOMAIN n = AttemptFields
    /\ n.task = o.task /\ n.record = o.record /\ n.version = o.version /\ n.destination = o.destination
    /\ n.fields = o.fields /\ n.key = o.key /\ n.action = o.action /\ n.at = o.at
    /\ (n.dispatched => o.dispatched) /\ (n.dispatched \/ n.status = "rejected")

\* What a delivery needs of the rest is unchanged when others are settled.
LEMMA SettledDelivery ==
    ASSUME NEW a, NEW b, Clean(a), Settles(a, b), NEW id \in DOMAIN a.deliveries, NEW n,
           Outcome(a.deliveries[id], n)
    PROVE  /\ n.task \in DOMAIN b.tasks /\ n.record \in DOMAIN b.records
           /\ b.tasks[n.task].site = b.records[n.record].site /\ n.version <= b.records[n.record].secretVersion
           /\ n.fields # {} /\ n.fields \subseteq b.tasks[n.task].fields
           /\ "secret_use" \in b.tasks[n.task].permissions /\ n.destination \in b.tasks[n.task].destinations
           /\ n.key.task = n.task /\ n.key.principal = b.tasks[n.task].principal
           /\ n.key \notin DOMAIN b.requests
           /\ n.action # "use" =>
                b.records[n.record].kind = "login" /\ {"username", "password"} \subseteq n.fields
           /\ n.dispatched \/ n.status = "rejected"
           /\ n.at \in Nat /\ n.version \in Nat /\ DOMAIN n = AttemptFields
<1> DEFINE o == a.deliveries[id]
           r == a.records[o.record]
           s == b.records[o.record]
<1>1. ValidDelivery(a, id) /\ o.at \in Nat /\ o.version \in Nat
  BY DEF Clean, Good, Sound, Whole, Formed
<1>2. o.record \in DOMAIN a.records
  BY <1>1 DEF ValidDelivery
<1>3. s.site = r.site /\ s.secretVersion = r.secretVersion /\ s.kind = r.kind
  BY <1>2 DEF Settles
<1>4. b.tasks = a.tasks /\ b.requests = a.requests /\ DOMAIN b.records = DOMAIN a.records
  BY DEF Settles
<1>5. /\ o.task \in DOMAIN a.tasks
      /\ a.tasks[o.task].site = r.site /\ o.version <= r.secretVersion
      /\ o.fields # {} /\ o.fields \subseteq a.tasks[o.task].fields
      /\ "secret_use" \in a.tasks[o.task].permissions /\ o.destination \in a.tasks[o.task].destinations
      /\ o.key.task = o.task /\ o.key.principal = a.tasks[o.task].principal
      /\ o.key \notin DOMAIN a.requests
      /\ o.action # "use" => r.kind = "login" /\ {"username", "password"} \subseteq o.fields
  BY <1>1 DEF ValidDelivery
<1>6. Outcome(o, n)
  OBVIOUS
<1> HIDE DEF o, r
<1> QED BY <1>1, <1>2, <1>3, <1>4, <1>5, <1>6 DEF Outcome

LEMMA OutcomeClean ==
    ASSUME NEW a, NEW b, Clean(a), Settles(a, b), DOMAIN b.deliveries = DOMAIN a.deliveries,
           \A id \in DOMAIN a.deliveries : Outcome(a.deliveries[id], b.deliveries[id])
    PROVE  Clean(b)
<1>1. IsFiniteSet(DOMAIN b.deliveries) /\ Cardinality(DOMAIN b.deliveries) <= Limit
  BY DEF Clean, Good, Whole, Sized
<1>2. ASSUME NEW id \in DOMAIN b.deliveries
      PROVE  /\ DOMAIN b.deliveries[id] = AttemptFields
             /\ b.deliveries[id].at \in Nat /\ b.deliveries[id].version \in Nat
             /\ ValidDelivery(b, id)
  <2> DEFINE n == b.deliveries[id]
  <2>1. Outcome(a.deliveries[id], n)
    OBVIOUS
  <2>2. /\ n.task \in DOMAIN b.tasks /\ n.record \in DOMAIN b.records
        /\ b.tasks[n.task].site = b.records[n.record].site /\ n.version <= b.records[n.record].secretVersion
        /\ n.fields # {} /\ n.fields \subseteq b.tasks[n.task].fields
        /\ "secret_use" \in b.tasks[n.task].permissions /\ n.destination \in b.tasks[n.task].destinations
        /\ n.key.task = n.task /\ n.key.principal = b.tasks[n.task].principal
        /\ n.key \notin DOMAIN b.requests
        /\ n.action # "use" =>
             b.records[n.record].kind = "login" /\ {"username", "password"} \subseteq n.fields
        /\ n.dispatched \/ n.status = "rejected"
        /\ n.at \in Nat /\ n.version \in Nat /\ DOMAIN n = AttemptFields
    BY <2>1, SettledDelivery
  <2>3. ValidDelivery(a, id)
    BY DEF Clean, Good, Sound
  <2>4. ASSUME NEW e \in DOMAIN b.deliveries \ {id}
        PROVE  /\ b.deliveries[e].key # n.key
               /\ ~(SealsRegister(n) /\ SealsRegister(b.deliveries[e]) /\ b.deliveries[e].record = n.record)
    <3>1. Outcome(a.deliveries[e], b.deliveries[e])
      OBVIOUS
    <3>2. /\ a.deliveries[e].key # a.deliveries[id].key
          /\ ~(SealsRegister(a.deliveries[id]) /\ SealsRegister(a.deliveries[e])
                /\ a.deliveries[e].record = a.deliveries[id].record)
      BY <2>3 DEF ValidDelivery
    <3> HIDE DEF n
    <3> QED BY <2>1, <3>1, <3>2 DEF Outcome, SealsRegister
  <2> QED BY <2>2, <2>4 DEF ValidDelivery
<1>3. Delivers(b)
  BY <1>1, <1>2 DEF Delivers
<1> QED BY <1>3, SettlesClean

\* An attempt to register a record, or to use it, that select() admitted.
LEMMA IntendClean ==
    ASSUME NEW a, Clean(a), NEW ctx, NEW tid, NEW rid, NEW request, NEW use, NEW at \in Nat,
           fresh \notin DOMAIN a.deliveries, UseAdmitted(a, ctx, tid, rid, use, at),
           UseIsNew(a, RequestKey(ctx, tid, request), rid, use)
    PROVE  Clean(Intend(a, ctx, tid, rid, request, use, at))
<1> DEFINE b == Intend(a, ctx, tid, rid, request, use, at)
           d == [task |-> tid, record |-> rid, version |-> a.records[rid].secretVersion,
                 destination |-> use.destination, fields |-> use.fields, status |-> None,
                 key |-> RequestKey(ctx, tid, request), action |-> use.action,
                 dispatched |-> TRUE, at |-> at]
           deliveries == Inserted(a.deliveries, fresh, d)
           c == [a EXCEPT !.deliveries = deliveries]
<1>1. /\ Whole(a) /\ Formed(a) /\ Sound(a) /\ Lasting(a) /\ Sized(a)
  BY DEF Clean, Good, Whole
<1>2. b = IF use.action = "register" THEN SetSignup(c, rid, "submitted") ELSE c
  BY DEF Intend
<1>3. /\ DOMAIN d = AttemptFields /\ d.task = tid /\ d.record = rid /\ d.version = a.records[rid].secretVersion
      /\ d.destination = use.destination /\ d.fields = use.fields /\ d.key = RequestKey(ctx, tid, request)
      /\ d.action = use.action /\ d.dispatched = TRUE /\ d.at = at
  BY DEF AttemptFields
<1> HIDE DEF d
<1>4. Extends(a.deliveries, deliveries, fresh, d)
  BY InsertedIs
<1> HIDE DEF deliveries
<1>5. /\ c = [f \in AppFields |-> c[f]] /\ c.lastTime = a.lastTime /\ c.clockFrozen = a.clockFrozen
      /\ c.tasks = a.tasks /\ c.records = a.records /\ c.grants = a.grants /\ c.requests = a.requests
      /\ c.deliveries = deliveries /\ c.baselines = a.baselines /\ c.revokedTasks = a.revokedTasks
      /\ c.audit = a.audit
  BY <1>1 DEF Formed, AppFields
<1> HIDE DEF c, b
<1>6. /\ b = [f \in AppFields |-> b[f]] /\ b.lastTime = a.lastTime /\ b.clockFrozen = a.clockFrozen
      /\ b.tasks = a.tasks /\ b.grants = a.grants /\ b.requests = a.requests
      /\ b.deliveries = deliveries /\ b.baselines = a.baselines /\ b.revokedTasks = a.revokedTasks
      /\ b.audit = a.audit
      /\ (b.records = a.records \/ b.records = [a.records EXCEPT ![rid].signup = "submitted"])
  <2>1. CASE use.action = "register"
    <3>1. b = [c EXCEPT !.records[rid].signup = "submitted"]
      BY <1>2, <2>1 DEF SetSignup
    <3> QED BY <1>5, <3>1 DEF AppFields
  <2>2. CASE use.action # "register"
    <3>1. b = c
      BY <1>2, <2>2
    <3> QED BY <1>5, <3>1
  <2> QED BY <2>1, <2>2
<1>7. \A x \in DOMAIN a.records : DOMAIN a.records[x] = RecordFields /\ a.records[x].signup # "verified_login"
  BY <1>1 DEF Formed, Lasting
<1>8. Settles(a, b)
  <2>1. /\ DOMAIN b.records = DOMAIN a.records
        /\ \A x \in DOMAIN a.records :
            LET r == a.records[x]
                s == b.records[x]
            IN  /\ DOMAIN s = RecordFields
                /\ s.createdBy = r.createdBy /\ s.task = r.task /\ s.site = r.site /\ s.kind = r.kind
                /\ s.revision = r.revision /\ s.secretVersion = r.secretVersion /\ s.deleted = r.deleted
                /\ s.fields = r.fields /\ s.signup # "verified_login"
    BY <1>6, <1>7 DEF RecordFields
  <2>2. b.revokedTasks \subseteq DOMAIN a.tasks
    BY <1>1, <1>6 DEF Sound
  <2> QED BY <1>6, <2>1, <2>2 DEF Settles
<1>9. /\ DOMAIN b.deliveries = DOMAIN a.deliveries \cup {fresh} /\ b.deliveries[fresh] = d
      /\ \A id \in DOMAIN a.deliveries : b.deliveries[id] = a.deliveries[id]
  BY <1>4, <1>6 DEF Extends
<1>10. IsFiniteSet(DOMAIN b.deliveries) /\ Cardinality(DOMAIN b.deliveries) <= Limit
  <2>1. IsFiniteSet(DOMAIN a.deliveries) /\ Cardinality(DOMAIN a.deliveries) < Limit
    BY <1>1 DEF Whole, UseIsNew
  <2>2. IsFiniteSet(DOMAIN b.deliveries) /\ Cardinality(DOMAIN b.deliveries) = Cardinality(DOMAIN a.deliveries) + 1
    BY <1>9, <2>1, FS_AddElement
  <2>3. Cardinality(DOMAIN a.deliveries) \in Nat /\ Limit \in Nat
    BY <2>1, FS_CardinalityType, PolicyConstants
  <2> QED BY <2>1, <2>2, <2>3
<1>11. /\ \A e \in DOMAIN a.deliveries : a.deliveries[e].key # d.key
       /\ d.action = "register" =>
            \A e \in DOMAIN a.deliveries : ~(SealsRegister(a.deliveries[e]) /\ a.deliveries[e].record = rid)
       /\ d.key \notin DOMAIN a.requests
  <2>1. \A e \in DOMAIN a.deliveries : a.deliveries[e].key # d.key
    BY <1>3 DEF UseIsNew, Values
  <2>2. d.action = "register" =>
            \A e \in DOMAIN a.deliveries : ~(SealsRegister(a.deliveries[e]) /\ a.deliveries[e].record = rid)
    BY <1>3 DEF UseIsNew, RegistrationSealed, Values
  <2> QED BY <1>3, <2>1, <2>2 DEF UseIsNew
<1>12. ASSUME NEW id \in DOMAIN a.deliveries
       PROVE  /\ DOMAIN b.deliveries[id] = AttemptFields
              /\ b.deliveries[id].at \in Nat /\ b.deliveries[id].version \in Nat
              /\ ValidDelivery(b, id)
  <2> DEFINE n == a.deliveries[id]
  <2>1. ValidDelivery(a, id) /\ DOMAIN n = AttemptFields
    BY <1>1 DEF Sound, Formed
  <2>2. Outcome(n, n)
    BY <2>1 DEF Outcome, ValidDelivery
  <2>3. /\ n.task \in DOMAIN b.tasks /\ n.record \in DOMAIN b.records
        /\ b.tasks[n.task].site = b.records[n.record].site /\ n.version <= b.records[n.record].secretVersion
        /\ n.fields # {} /\ n.fields \subseteq b.tasks[n.task].fields
        /\ "secret_use" \in b.tasks[n.task].permissions /\ n.destination \in b.tasks[n.task].destinations
        /\ n.key.task = n.task /\ n.key.principal = b.tasks[n.task].principal
        /\ n.key \notin DOMAIN b.requests
        /\ n.action # "use" =>
             b.records[n.record].kind = "login" /\ {"username", "password"} \subseteq n.fields
        /\ n.dispatched \/ n.status = "rejected"
        /\ n.at \in Nat /\ n.version \in Nat /\ DOMAIN n = AttemptFields
    BY <1>8, <2>2, SettledDelivery
  <2>4. ASSUME NEW e \in DOMAIN b.deliveries \ {id}
        PROVE  /\ b.deliveries[e].key # n.key
               /\ ~(SealsRegister(n) /\ SealsRegister(b.deliveries[e]) /\ b.deliveries[e].record = n.record)
    <3>1. CASE e = fresh
      BY <1>3, <1>9, <1>11, <3>1 DEF SealsRegister
    <3>2. CASE e # fresh
      <4>1. e \in DOMAIN a.deliveries \ {id} /\ b.deliveries[e] = a.deliveries[e]
        BY <1>9, <3>2
      <4> QED BY <2>1, <4>1 DEF ValidDelivery
    <3> QED BY <3>1, <3>2
  <2>5. b.deliveries[id] = n
    BY <1>9
  <2> HIDE DEF n
  <2> QED BY <2>3, <2>4, <2>5 DEF ValidDelivery
<1>13. /\ DOMAIN d = AttemptFields /\ d.at \in Nat /\ d.version \in Nat /\ ValidDelivery(b, fresh)
  <2> DEFINE t == a.tasks[tid]
             r == a.records[rid]
             s == b.records[rid]
  <2>1. /\ use.fields # {} /\ tid \in DOMAIN a.tasks /\ t.principal = ctx.principal
        /\ rid \in DOMAIN a.records /\ ~r.deleted
        /\ Can(a, ctx, tid, rid, "secret_use", use.fields, {use.destination}, at)
        /\ use.action # "use" => r.kind = "login" /\ {"username", "password"} \subseteq use.fields
    BY DEF UseAdmitted, Select, TaskAdmits, LiveRecord
  <2>2. /\ r.site = t.site /\ "secret_use" \in t.permissions /\ use.fields \subseteq t.fields
        /\ use.destination \in t.destinations
    BY <2>1 DEF Can
  <2>3. r.secretVersion \in Nat
    BY <1>1, <2>1 DEF Whole
  <2>4. s.site = r.site /\ s.secretVersion = r.secretVersion /\ s.kind = r.kind
        /\ DOMAIN b.records = DOMAIN a.records
    BY <1>8, <2>1 DEF Settles
  <2>5. d.key.task = tid /\ d.key.principal = ctx.principal
    BY <1>3 DEF RequestKey
  <2>6. \A e \in DOMAIN b.deliveries \ {fresh} :
            /\ b.deliveries[e].key # d.key
            /\ ~(SealsRegister(d) /\ SealsRegister(b.deliveries[e]) /\ b.deliveries[e].record = d.record)
    BY <1>3, <1>9, <1>11 DEF SealsRegister
  <2>7. d.version <= s.secretVersion
    BY <1>3, <2>3, <2>4
  <2>8. b.tasks = a.tasks /\ b.requests = a.requests /\ b.deliveries[fresh] = d
    BY <1>6, <1>9
  <2> HIDE DEF s, r
  <2>9. ValidDelivery(b, fresh)
    BY <1>3, <1>11, <2>1, <2>2, <2>4, <2>5, <2>6, <2>7, <2>8 DEF ValidDelivery, s
  <2> QED BY <1>3, <2>3, <2>9 DEF r
<1>14. Delivers(b)
  <2>1. ASSUME NEW id \in DOMAIN b.deliveries
        PROVE  /\ DOMAIN b.deliveries[id] = AttemptFields
               /\ b.deliveries[id].at \in Nat /\ b.deliveries[id].version \in Nat
               /\ ValidDelivery(b, id)
    <3>1. CASE id = fresh
      BY <1>9, <1>13, <3>1
    <3>2. CASE id # fresh
      BY <1>9, <1>12, <3>2
    <3> QED BY <3>1, <3>2
  <2> QED BY <1>10, <2>1 DEF Delivers
<1>15. Clean(b)
  BY <1>8, <1>14, SettlesClean
<1> QED BY <1>15 DEF b

\* b has for rid another signup, or the same.
Signs(a, b, rid, state) ==
    \/ b.records = a.records
    \/ b.records = [a.records EXCEPT ![rid].signup = state] /\ state # "verified_login"

\* Only what is known of a record's signup is new, and no login is verified.
LEMMA SignupSettles ==
    ASSUME NEW a, NEW b, Clean(a), b = [f \in AppFields |-> b[f]], NEW rid, NEW state,
           Signs(a, b, rid, state), b.lastTime = a.lastTime, b.clockFrozen = a.clockFrozen, b.tasks = a.tasks, b.grants = a.grants,
           b.requests = a.requests, b.baselines = a.baselines, b.revokedTasks = a.revokedTasks, b.audit = a.audit
    PROVE  Settles(a, b)
<1>1. /\ Whole(a) /\ Formed(a) /\ Sound(a) /\ Lasting(a)
  BY DEF Clean, Good, Whole
<1>2. \A x \in DOMAIN a.records : DOMAIN a.records[x] = RecordFields /\ a.records[x].signup # "verified_login"
  BY <1>1 DEF Formed, Lasting
<1>3. /\ DOMAIN b.records = DOMAIN a.records
      /\ \A x \in DOMAIN a.records :
          LET r == a.records[x]
              s == b.records[x]
          IN  /\ DOMAIN s = RecordFields
              /\ s.createdBy = r.createdBy /\ s.task = r.task /\ s.site = r.site /\ s.kind = r.kind
              /\ s.revision = r.revision /\ s.secretVersion = r.secretVersion /\ s.deleted = r.deleted
              /\ s.fields = r.fields /\ s.signup # "verified_login"
  BY <1>2 DEF RecordFields, Signs
<1>4. b.revokedTasks \subseteq DOMAIN a.tasks
  BY <1>1 DEF Sound
<1> QED BY <1>3, <1>4 DEF Settles

LEMMA OutcomeStays ==
    ASSUME NEW a, Clean(a), NEW id \in DOMAIN a.deliveries
    PROVE  Outcome(a.deliveries[id], a.deliveries[id])
<1>1. ValidDelivery(a, id) /\ DOMAIN a.deliveries[id] = AttemptFields
  BY DEF Clean, Good, Sound, Whole, Formed
<1> QED BY <1>1 DEF Outcome, ValidDelivery

\* A refused handoff.
Refused(a, id) == [a EXCEPT !.deliveries[id].dispatched = FALSE, !.deliveries[id].status = "rejected"]

LEMMA RefusedClean ==
    ASSUME NEW a, Clean(a), NEW id, NEW rid, NEW c,
           c = Refused(a, id) \/ c = SetSignup(Refused(a, id), rid, "pending")
    PROVE  Clean(c) /\ c.lastTime = a.lastTime /\ c.tasks = a.tasks /\ c.grants = a.grants
<1> DEFINE b == Refused(a, id)
<1>1. Formed(a) /\ \A d \in DOMAIN a.deliveries : DOMAIN a.deliveries[d] = AttemptFields
  BY DEF Clean, Good, Whole, Formed
<1>2. /\ b = [f \in AppFields |-> b[f]] /\ b.lastTime = a.lastTime /\ b.clockFrozen = a.clockFrozen
      /\ b.tasks = a.tasks /\ b.grants = a.grants /\ b.requests = a.requests
      /\ b.records = a.records /\ b.baselines = a.baselines /\ b.revokedTasks = a.revokedTasks
      /\ b.audit = a.audit
      /\ b.deliveries = [a.deliveries EXCEPT ![id].dispatched = FALSE, ![id].status = "rejected"]
  BY <1>1, ZenonT(40) DEF Refused, Formed, AppFields
<1> HIDE DEF b
<1>3. /\ c = [f \in AppFields |-> c[f]] /\ c.lastTime = a.lastTime /\ c.clockFrozen = a.clockFrozen
      /\ c.tasks = a.tasks /\ c.grants = a.grants /\ c.requests = a.requests
      /\ c.baselines = a.baselines /\ c.revokedTasks = a.revokedTasks
      /\ c.audit = a.audit /\ c.deliveries = b.deliveries
      /\ (c.records = a.records \/ c.records = [a.records EXCEPT ![rid].signup = "pending"])
  <2>1. CASE c = b
    BY <1>2, <2>1
  <2>2. CASE c = SetSignup(b, rid, "pending")
    <3>1. c = [b EXCEPT !.records[rid].signup = "pending"]
      BY <2>2 DEF SetSignup
    <3> QED BY <1>2, <3>1 DEF AppFields
  <2>3. c = b \/ c = SetSignup(b, rid, "pending")
    BY Zenon DEF b
  <2> QED BY <2>1, <2>2, <2>3
<1>4. Settles(a, c)
  <2>1. Signs(a, c, rid, "pending")
    BY <1>3 DEF Signs
  <2> QED BY <1>3, <2>1, SignupSettles
<1>5. ASSUME NEW d \in DOMAIN a.deliveries PROVE Outcome(a.deliveries[d], c.deliveries[d])
  <2>1. CASE d = id
    <3>1. /\ DOMAIN a.deliveries[d] = AttemptFields
          /\ c.deliveries[d] = [a.deliveries[d] EXCEPT !.dispatched = FALSE, !.status = "rejected"]
      BY <1>1, <1>2, <1>3, <2>1, ZenonT(40)
    <3> QED BY <3>1 DEF AttemptFields, Outcome
  <2>2. CASE d # id
    <3>1. c.deliveries[d] = a.deliveries[d]
      BY <1>2, <1>3, <2>2
    <3> QED BY <3>1, OutcomeStays
  <2> QED BY <2>1, <2>2
<1>6. DOMAIN c.deliveries = DOMAIN a.deliveries
  BY <1>2, <1>3
<1>7. Clean(c)
  BY <1>4, <1>5, <1>6, OutcomeClean
<1> QED BY <1>3, <1>7

\* What came of a use: the attempt stays dispatched.
LEMMA CompletedClean ==
    ASSUME NEW a, Clean(a), NEW id \in DOMAIN a.deliveries, a.deliveries[id].dispatched,
           NEW rid, NEW status, NEW signup, signup # "verified_login"
    PROVE  LET c == Completed(a, id, status, rid, signup) IN
           Clean(c) /\ c.lastTime = a.lastTime /\ c.tasks = a.tasks /\ c.grants = a.grants
<1> DEFINE c == Completed(a, id, status, rid, signup)
<1>1. Formed(a) /\ \A d \in DOMAIN a.deliveries : DOMAIN a.deliveries[d] = AttemptFields
  BY DEF Clean, Good, Whole, Formed
<1>2. /\ c = [f \in AppFields |-> c[f]] /\ c.lastTime = a.lastTime /\ c.clockFrozen = a.clockFrozen
      /\ c.tasks = a.tasks /\ c.grants = a.grants /\ c.requests = a.requests
      /\ c.baselines = a.baselines /\ c.revokedTasks = a.revokedTasks
      /\ c.audit = a.audit
      /\ c.records = [a.records EXCEPT ![rid].signup = signup]
      /\ c.deliveries = [a.deliveries EXCEPT ![id].status = status]
  BY <1>1 DEF Formed, AppFields, Completed
<1> HIDE DEF c
<1>3. Settles(a, c)
  <2>1. Signs(a, c, rid, signup)
    BY <1>2 DEF Signs
  <2> QED BY <1>2, <2>1, SignupSettles
<1>4. ASSUME NEW d \in DOMAIN a.deliveries PROVE Outcome(a.deliveries[d], c.deliveries[d])
  <2>1. CASE d = id
    <3>1. /\ DOMAIN a.deliveries[d] = AttemptFields /\ a.deliveries[d].dispatched
          /\ c.deliveries[d] = [a.deliveries[d] EXCEPT !.status = status]
      BY <1>1, <1>2, <2>1
    <3> QED BY <3>1 DEF AttemptFields, Outcome
  <2>2. CASE d # id
    <3>1. c.deliveries[d] = a.deliveries[d]
      BY <1>2, <2>2
    <3> QED BY <3>1, OutcomeStays
  <2> QED BY <2>1, <2>2
<1>5. DOMAIN c.deliveries = DOMAIN a.deliveries
  BY <1>2
<1>6. Clean(c)
  BY <1>3, <1>4, <1>5, OutcomeClean
<1> QED BY <1>2, <1>6 DEF c

\* Recovery settles every attempt that was not, and takes all authority back.
LEMMA ResolveClean ==
    ASSUME NEW a, Clean(a)
    PROVE  LET b == Resolve(a) IN
           /\ Clean(b) /\ b.lastTime = a.lastTime /\ b.clockFrozen = a.clockFrozen
           /\ b = [f \in AppFields |-> b[f]] /\ b.tasks = a.tasks
           /\ DOMAIN b.records = DOMAIN a.records /\ DOMAIN b.grants = DOMAIN a.grants
<1> DEFINE b == Resolve(a)
           unresolved == {d.record : d \in {e \in Values(a.deliveries) : e.status = None /\ e.action # "use"}}
           grants == [g \in DOMAIN a.grants |-> [a.grants[g] EXCEPT !.revoked = TRUE]]
           deliveries == [d \in DOMAIN a.deliveries |->
                             [a.deliveries[d] EXCEPT !.status = IF @ = None THEN "unknown" ELSE @]]
           records == [rid \in DOMAIN a.records |->
                          [a.records[rid] EXCEPT !.signup = IF rid \in unresolved THEN "unknown" ELSE @]]
<1>1. b = [a EXCEPT !.revokedTasks = DOMAIN a.tasks, !.grants = grants, !.deliveries = deliveries,
                    !.records = records, !.generation = @ + 1]
  BY DEF Resolve
<1>2. /\ \A d \in DOMAIN a.deliveries : DOMAIN a.deliveries[d] = AttemptFields
      /\ \A r \in DOMAIN a.records : DOMAIN a.records[r] = RecordFields /\ a.records[r].signup # "verified_login"
      /\ Formed(a)
  BY DEF Clean, Good, Whole, Formed, Lasting
<1> HIDE DEF unresolved
<1>3. /\ DOMAIN records = DOMAIN a.records
      /\ \A x \in DOMAIN a.records :
          LET r == a.records[x]
              s == records[x]
          IN  /\ DOMAIN s = RecordFields
              /\ s.createdBy = r.createdBy /\ s.task = r.task /\ s.site = r.site /\ s.kind = r.kind
              /\ s.revision = r.revision /\ s.secretVersion = r.secretVersion /\ s.deleted = r.deleted
              /\ s.fields = r.fields /\ s.signup # "verified_login"
  BY <1>2 DEF RecordFields
<1>4. /\ DOMAIN grants = DOMAIN a.grants
      /\ \A g \in DOMAIN a.grants : grants[g] = [a.grants[g] EXCEPT !.revoked = TRUE]
  OBVIOUS
<1>5. \A d \in DOMAIN a.deliveries :
        deliveries[d] = [a.deliveries[d] EXCEPT !.status = IF a.deliveries[d].status = None THEN "unknown"
                                                            ELSE a.deliveries[d].status]
  OBVIOUS
<1>6. DOMAIN deliveries = DOMAIN a.deliveries
  OBVIOUS
<1> HIDE DEF b, grants, deliveries, records
<1>7. /\ b = [f \in AppFields |-> b[f]] /\ b.lastTime = a.lastTime /\ b.clockFrozen = a.clockFrozen
      /\ b.tasks = a.tasks /\ b.grants = grants /\ b.requests = a.requests /\ b.records = records
      /\ b.deliveries = deliveries /\ b.baselines = a.baselines /\ b.revokedTasks = DOMAIN a.tasks
      /\ b.audit = a.audit
  BY <1>1, <1>2 DEF Formed, AppFields
<1>8. ASSUME NEW d \in DOMAIN a.deliveries PROVE Outcome(a.deliveries[d], b.deliveries[d])
  <2> DEFINE o == a.deliveries[d]
             n == b.deliveries[d]
  <2>1. DOMAIN o = AttemptFields /\ Outcome(o, o)
    BY <1>2, OutcomeStays
  <2>2. n = [o EXCEPT !.status = IF o.status = None THEN "unknown" ELSE o.status]
    BY <1>5, <1>7
  <2>3. "rejected" # None
    BY VaultConstants DEF Statuses
  <2> HIDE DEF o, n
  <2>4. CASE o.status = None
    <3>1. o.dispatched
      BY <2>1, <2>3, <2>4 DEF Outcome
    <3>2. n = [o EXCEPT !.status = "unknown"]
      BY <2>2, <2>4
    <3> QED BY <2>1, <3>1, <3>2 DEF Outcome, AttemptFields, o, n
  <2>5. CASE o.status # None
    <3>1. n = [o EXCEPT !.status = o.status]
      BY <2>2, <2>5
    <3> QED BY <2>1, <3>1 DEF Outcome, AttemptFields, o, n
  <2> QED BY <2>4, <2>5
<1>9. Settles(a, b)
  <2>1. b.revokedTasks \subseteq DOMAIN a.tasks
    BY <1>7
  <2> QED BY <1>3, <1>4, <1>7, <2>1 DEF Settles
<1>10. Clean(b)
  BY <1>6, <1>7, <1>8, <1>9, OutcomeClean
<1> QED BY <1>3, <1>4, <1>7, <1>10 DEF b

\* What recovery publishes, when the clock did not step back meanwhile.
LEMMA SanitizeClean ==
    ASSUME NEW a, Clean(a), NEW n \in Nat, a.lastTime <= n
    PROVE  Clean(Sanitize(a, n))
<1> DEFINE b == Resolve(a)
           c == Sanitize(a, n)
<1>1. Clean(b) /\ b.lastTime = a.lastTime /\ b = [f \in AppFields |-> b[f]]
  BY ResolveClean
<1>2. c = [b EXCEPT !.clockFrozen = FALSE, !.lastTime = n]
  BY DEF Sanitize
<1> HIDE DEF b, c
<1>3. /\ Like(b, c) /\ c = [f \in AppFields |-> c[f]] /\ c.audit = b.audit
      /\ c.lastTime = n /\ c.clockFrozen = FALSE
  BY <1>1, <1>2 DEF Like, AppFields
<1>4. c.lastTime \in Nat /\ b.lastTime <= c.lastTime
  BY <1>1, <1>3
<1>5. c.clockFrozen \in BOOLEAN /\ (c.clockFrozen => c.lastTime # 0)
  BY <1>3, Zenon
<1>6. Clean(c)
  BY <1>1, <1>3, <1>4, <1>5, TimedClean
<1> QED BY <1>6 DEF c

\* It is whole at any time, and then valid only if it is clean.
LEMMA SanitizeWhole ==
    ASSUME NEW a, Clean(a), NEW n \in Nat
    PROVE  Whole(Sanitize(a, n)) /\ Lasting(Sanitize(a, n))
<1> DEFINE b == Resolve(a)
           c == Sanitize(a, n)
<1>1. Clean(b) /\ b.lastTime = a.lastTime /\ b = [f \in AppFields |-> b[f]]
  BY ResolveClean
<1>2. c = [b EXCEPT !.clockFrozen = FALSE, !.lastTime = n]
  BY DEF Sanitize
<1> HIDE DEF b, c
<1>3. /\ Like(b, c) /\ c = [f \in AppFields |-> c[f]] /\ c.audit = b.audit
      /\ c.lastTime = n /\ c.clockFrozen = FALSE
  BY <1>1, <1>2 DEF Like, AppFields
<1>4. Whole(b) /\ Formed(b) /\ Sound(b) /\ Lasting(b) /\ Sized(b)
  BY <1>1 DEF Clean, Good, Whole
<1>5. Lasting(c)
  BY <1>3, <1>4, LikeSound
<1>6. Formed(c)
  BY <1>3, <1>4 DEF Formed, Like
<1>7. c.clockFrozen \in BOOLEAN
  BY <1>3, Zenon
<1>8. Whole(c)
  BY <1>3, <1>4, <1>6, <1>7 DEF Whole, Like
<1> QED BY <1>5, <1>8 DEF c

\* What a restore publishes.
LEMMA RestoredClean ==
    ASSUME NEW a, Clean(a), NEW n \in Nat
    PROVE  Clean(PrepareRestored(a, n))
<1> DEFINE b == Resolve(a)
           records == [rid \in DOMAIN b.records |-> [b.records[rid] EXCEPT !.restored = TRUE]]
           c == [b EXCEPT !.records = records]
           d == PrepareRestored(a, n)
<1>1. Clean(b) /\ b.lastTime = a.lastTime /\ b.clockFrozen = a.clockFrozen /\ b = [f \in AppFields |-> b[f]]
  BY ResolveClean
<1>2. d = [b EXCEPT !.records = records, !.lastTime = EffectiveTime(a, n)]
  BY DEF PrepareRestored
<1>3. /\ a.lastTime \in Nat /\ EffectiveTime(a, n) \in Nat /\ a.lastTime <= EffectiveTime(a, n)
      /\ a.clockFrozen \in BOOLEAN /\ (a.clockFrozen => a.lastTime # 0)
  BY DEF Clean, Good, Whole, Formed, EffectiveTime
<1> HIDE DEF b
<1>4. /\ b.revokedTasks \subseteq DOMAIN b.tasks
      /\ \A x \in DOMAIN b.records : DOMAIN b.records[x] = RecordFields /\ b.records[x].signup # "verified_login"
  BY <1>1 DEF Clean, Good, Whole, Formed, Sound, Lasting
<1>5. /\ DOMAIN records = DOMAIN b.records
      /\ \A x \in DOMAIN b.records :
          LET r == b.records[x]
              s == records[x]
          IN  /\ DOMAIN s = RecordFields
              /\ s.createdBy = r.createdBy /\ s.task = r.task /\ s.site = r.site /\ s.kind = r.kind
              /\ s.revision = r.revision /\ s.secretVersion = r.secretVersion /\ s.deleted = r.deleted
              /\ s.fields = r.fields /\ s.signup # "verified_login"
  BY <1>4 DEF RecordFields
<1> HIDE DEF records
<1>6. /\ c = [f \in AppFields |-> c[f]] /\ c.lastTime = b.lastTime /\ c.clockFrozen = b.clockFrozen
      /\ c.tasks = b.tasks /\ c.grants = b.grants /\ c.requests = b.requests /\ c.records = records
      /\ c.baselines = b.baselines /\ c.revokedTasks = b.revokedTasks
      /\ c.audit = b.audit /\ c.deliveries = b.deliveries
  BY <1>1 DEF AppFields
<1>7. d = [c EXCEPT !.lastTime = EffectiveTime(a, n)]
  BY <1>1, <1>2 DEF AppFields
<1> HIDE DEF c, d
<1>8. Settles(b, c)
  BY <1>4, <1>5, <1>6 DEF Settles
<1>9. \A id \in DOMAIN b.deliveries : Outcome(b.deliveries[id], c.deliveries[id])
  BY <1>1, <1>6, OutcomeStays
<1>10. Clean(c)
  BY <1>1, <1>6, <1>8, <1>9, OutcomeClean
<1>11. c.lastTime <= EffectiveTime(a, n)
  BY <1>1, <1>3, <1>6
<1>12. Clean(d)
  BY <1>3, <1>7, <1>10, <1>11, LaterClean
<1> QED BY <1>12 DEF d

-----------------------------------------------------------------------------
(* The calls.                                                              *)

\* An operation the agents may ask for names a live record, or creates one.
LEMMA OperationIs ==
    ASSUME NEW op \in Mutations
    PROVE  \/ op.op = "create"
           \/ /\ op.op \in MutatedKinds /\ op.record \in DOMAIN app.records
              /\ op.op = "share" => op.grant \in Specs
<1>1. CASE op \in Creations
  BY <1>1, VaultConstants
<1>2. ASSUME NEW rid \in DOMAIN app.records, op \in OperationsOn(rid)
      PROVE  /\ op.op \in MutatedKinds /\ op.record \in DOMAIN app.records
             /\ op.op = "share" => op.grant \in Specs
  BY <1>2 DEF OperationsOn, MutatedKinds
<1> QED BY <1>1, <1>2 DEF Mutations

\* Tasks are as the supervisor issued them, and grants were drawn.
Sourced(a, n) ==
    /\ \A u \in DOMAIN a.tasks : \E v \in Approvals : a.tasks[u] = v.task
    /\ \A g \in DOMAIN a.grants : g \in Nat /\ g < n

\* What was handed over was handed over by the time the owner has seen.
Handed == flight # None /\ flight.handed => sent.at \in Nat /\ sent.at <= app.lastTime

CleanInv ==
    /\ Clean(app) /\ Clean(disk) /\ Sourced(app, fresh)
    /\ backup # None => Clean(backup) /\ Sourced(backup, fresh)
    /\ Handed

LEMMA SourcedIsBounded ==
    ASSUME NEW a, NEW n, Sourced(a, n)
    PROVE  \A u \in DOMAIN a.tasks : Bounded(a.tasks[u])
<1> SUFFICES ASSUME NEW u \in DOMAIN a.tasks PROVE Bounded(a.tasks[u])
  OBVIOUS
<1>1. PICK v \in Approvals : a.tasks[u] = v.task
  BY DEF Sourced
<1>2. v.task.expiresAt \in Nat /\ (v.task.share # None => v.task.share.expiresAt \in Nat)
  BY VaultConstants
<1> QED BY <1>1, <1>2 DEF Bounded

LEMMA SourcedLater ==
    ASSUME NEW a, NEW n \in Nat, NEW m \in Nat, Sourced(a, n), n <= m
    PROVE  Sourced(a, m)
BY DEF Sourced

LEMMA SourcedPart ==
    ASSUME NEW a, NEW b, NEW n, Sourced(a, n), Part(b.tasks, a.tasks), DOMAIN b.grants \subseteq DOMAIN a.grants
    PROVE  Sourced(b, n)
BY DEF Sourced, Part

LEMMA StagedClean ==
    ASSUME NEW a, NEW n, Clean(a), Sourced(a, n)
    PROVE  LET b == IF ShouldCompact(a) THEN Compact(a) ELSE a IN
           /\ Clean(b) /\ Sourced(b, n) /\ b.lastTime = a.lastTime /\ b.clockFrozen = a.clockFrozen
           /\ \A d \in DOMAIN a.deliveries : a.deliveries[d].status = None =>
                d \in DOMAIN b.deliveries /\ b.deliveries[d] = a.deliveries[d]
<1>1. CASE ShouldCompact(a)
  <2> DEFINE b == Compact(a)
  <2>1. Good(a) /\ Formed(a)
    BY DEF Clean, Good, Whole
  <2>2. Clean(b) /\ Drops(a, b)
    BY <2>1, CompactIsClean, CompactDrops
  <2> HIDE DEF b
  <2>3. Sourced(b, n)
    BY <2>2, SourcedPart DEF Drops, Part
  <2>4. \A d \in DOMAIN a.deliveries : a.deliveries[d].status = None =>
            d \in DOMAIN b.deliveries /\ b.deliveries[d] = a.deliveries[d]
    BY <2>2 DEF Drops, Part
  <2>5. b.lastTime = a.lastTime /\ b.clockFrozen = a.clockFrozen
    BY <2>2 DEF Drops
  <2> QED BY <1>1, <2>2, <2>3, <2>4, <2>5 DEF b
<1>2. CASE ~ShouldCompact(a)
  BY <1>2
<1> QED BY <1>1, <1>2

LEMMA ClockSourced ==
    ASSUME NEW a, NEW m, NEW n, Sourced(a, n), Formed(a)
    PROVE  Sourced(Clock(a, m), n) /\ Like(a, Clock(a, m))
<1>1. Like(a, Clock(a, m))
  BY DEF Clock, Like, Formed, AppFields
<1>2. Sourced(Clock(a, m), n)
  BY <1>1 DEF Sourced, Like
<1> QED BY <1>1, <1>2

LEMMA ClockedClean ==
    ASSUME VaultInv, CleanInv
    PROVE  /\ Clean(Clocked) /\ Sourced(Clocked, fresh) /\ fresh \in Nat /\ Effective \in Nat
           /\ \A u \in DOMAIN Clocked.tasks : Bounded(Clocked.tasks[u])
           /\ ClockAccepts(app, now) => Clocked.lastTime = Effective
<1>1. Clean(app) /\ Sourced(app, fresh) /\ now \in Nat /\ fresh \in Nat
  BY DEF VaultInv, CleanInv, Shape
<1> DEFINE a == Staged
<1>2. Clean(a) /\ Sourced(a, fresh)
  BY <1>1, StagedClean DEF Staged
<1> HIDE DEF a
<1>3. Clean(Clock(a, now)) /\ Sourced(Clock(a, now), fresh)
  BY <1>1, <1>2, ClockClean, ClockSourced DEF Clean, Good, Whole
<1>4. Clean(Clocked) /\ Sourced(Clocked, fresh)
  BY <1>3 DEF Clocked, a
<1>5. \A u \in DOMAIN Clocked.tasks : Bounded(Clocked.tasks[u])
  BY <1>4, SourcedIsBounded
<1>6. Effective \in Nat /\ (ClockAccepts(app, now) => Clocked.lastTime = Effective)
  BY ClockedKeeps DEF VaultInv
<1> QED BY <1>1, <1>4, <1>5, <1>6

\* A publication keeps the vault clean when the candidate is, and refuses it
\* as invalid only when it is not.
LEMMA CommitClean ==
    ASSUME VaultInv, CleanInv, NEW c, Formed(c), app.lastTime <= c.lastTime, Commit(c),
           Validate(c) => Clean(c), Sourced(c, fresh'), fresh' \in Nat, fresh <= fresh', backup' = backup
    PROVE  /\ Clean(app') /\ Clean(disk') /\ Sourced(app', fresh')
           /\ (backup' # None => Clean(backup') /\ Sourced(backup', fresh'))
           /\ app.lastTime <= app'.lastTime
           /\ (Clean(c) => last' # "invalid")
<1>1. /\ Clean(app) /\ Clean(disk) /\ Sourced(app, fresh) /\ fresh \in Nat
      /\ app.lastTime \in Nat /\ c.lastTime \in Nat
  BY DEF CleanInv, VaultInv, Shape, Formed
<1>2. backup' # None => Clean(backup') /\ Sourced(backup', fresh')
  BY <1>1, SourcedLater DEF CleanInv
<1>3. Sourced(app, fresh')
  BY <1>1, SourcedLater
<1>4. CASE last' = "invalid" /\ UNCHANGED <<app, disk>> /\ ~Validate(c)
  <2>1. ~Clean(c)
    BY <1>4, CleanIsValid
  <2> QED BY <1>1, <1>2, <1>3, <1>4, <2>1
<1>5. CASE /\ app' = [app EXCEPT !.lastTime = c.lastTime]
           /\ last' = "memory" /\ UNCHANGED disk
  <2>1. Clean(app')
    BY <1>1, <1>5, LaterClean
  <2>2. Like(app, app') /\ app'.lastTime = c.lastTime
    BY <1>5 DEF VaultInv, Shape, Formed, Like, AppFields
  <2>3. Sourced(app', fresh')
    BY <1>3, <2>2 DEF Sourced, Like
  <2> QED BY <1>1, <1>2, <1>5, <2>1, <2>2, <2>3
<1>6. CASE /\ Validate(c)
           /\ app' = Publishable(c) /\ disk' = Publishable(c)
           /\ last' = "published"
  <2>1. Clean(Publishable(c))
    BY <1>6, PublishedClean DEF Publishable
  <2>2. Like(c, app') /\ app'.lastTime = c.lastTime
    BY <1>6 DEF Publishable, Formed, Like, AppFields
  <2>3. Sourced(app', fresh')
    BY <2>2 DEF Sourced, Like
  <2> QED BY <1>1, <1>2, <1>6, <2>1, <2>2, <2>3
<1> QED BY <1>4, <1>5, <1>6 DEF Commit

LEMMA CallClean ==
    ASSUME VaultInv, CleanInv, NEW c, NEW T, NEW N, Stages(c, T, N), Validate(c) => Clean(c),
           Sourced(c, fresh'), fresh' \in Nat, fresh <= fresh', backup' = backup,
           flight' # None => ~flight'.handed
    PROVE  CleanInv' /\ (Clean(c) => last' # "invalid")
<1>1. Formed(c) /\ app.lastTime <= c.lastTime /\ Commit(c)
  BY DEF Stages
<1>2. /\ Clean(app') /\ Clean(disk') /\ Sourced(app', fresh')
      /\ (backup' # None => Clean(backup') /\ Sourced(backup', fresh'))
      /\ (Clean(c) => last' # "invalid")
  BY <1>1, CommitClean
<1>3. Handed'
  BY DEF Handed
<1>4. CleanInv'
  BY <1>2, <1>3 DEF CleanInv, Sourced
<1> QED BY <1>2, <1>4

LEMMA ObserveKeepsClean ==
    ASSUME VaultInv, CleanInv, Observe
    PROVE  CleanInv' /\ last' # "invalid"
<1>1. /\ Stages(Clocked, {}, {}) /\ Clean(Clocked) /\ Sourced(Clocked, fresh) /\ fresh \in Nat
  BY ObserveStages, ClockedClean
<1>2. flight' = None /\ fresh' = fresh /\ backup' = backup
  BY DEF Observe, Idle
<1> QED BY <1>1, <1>2, CallClean

LEMMA ApproveKeepsClean ==
    ASSUME VaultInv, CleanInv, NEW ctx, NEW approval \in Approvals, Approve(ctx, approval.id, approval.task)
    PROVE  CleanInv' /\ last' # "invalid"
<1> DEFINE c == ApproveTask(Clocked, approval.id, approval.task)
           t == approval.task
<1>1. /\ Clean(Clocked) /\ Sourced(Clocked, fresh) /\ fresh \in Nat /\ Effective \in Nat
  BY ClockedClean
<1>2. MayApprove(Clocked, ctx, approval.id, t, Effective) /\ flight' = None /\ fresh' = fresh /\ backup' = backup
  BY DEF Approve, Idle
<1>3. Bounded(t)
  BY VaultConstants DEF Bounded
<1>4. Clean(c)
  BY <1>1, <1>2, <1>3, ApproveClean
<1>5. Stages(c, {approval.id}, {})
  BY ApproveStages
<1>6. Sourced(c, fresh)
  <2>1. Formed(Clocked)
    BY <1>1 DEF Clean, Good, Whole
  <2>2. c.tasks = Inserted(Clocked.tasks, approval.id, t) /\ c.grants = Clocked.grants
    BY <2>1 DEF ApproveTask, Formed, AppFields
  <2>3. Extends(Clocked.tasks, c.tasks, approval.id, t)
    BY <1>2, <2>2, InsertedIs DEF MayApprove
  <2> HIDE DEF c
  <2> QED BY <1>1, <2>2, <2>3 DEF Sourced, Extends
<1> HIDE DEF c
<1> QED BY <1>1, <1>2, <1>4, <1>5, <1>6, CallClean

LEMMA RevokeKeepsClean ==
    ASSUME VaultInv, CleanInv, NEW ctx, NEW tid, Revoke(ctx, tid)
    PROVE  CleanInv' /\ last' # "invalid"
<1> DEFINE c == RevokeTask(Clocked, tid)
<1>1. /\ Clean(Clocked) /\ Sourced(Clocked, fresh) /\ fresh \in Nat
  BY ClockedClean
<1>2. tid \in DOMAIN Clocked.tasks /\ flight' = None /\ fresh' = fresh /\ backup' = backup
  BY DEF Revoke, MayRevokeTask, Idle, history
<1>3. Clean(c)
  BY <1>1, <1>2, RevokeClean
<1>4. Stages(c, {}, {})
  BY RevokeStages
<1>5. Sourced(c, fresh)
  <2>1. Formed(Clocked)
    BY <1>1 DEF Clean, Good, Whole
  <2>2. c.tasks = Clocked.tasks /\ c.grants = Clocked.grants
    BY <2>1 DEF RevokeTask, Formed, AppFields
  <2> HIDE DEF c
  <2> QED BY <1>1, <2>2 DEF Sourced
<1> HIDE DEF c
<1> QED BY <1>1, <1>2, <1>3, <1>4, <1>5, CallClean

LEMMA ReadKeepsClean ==
    ASSUME VaultInv, CleanInv, NEW ctx, NEW tid \in DOMAIN app.tasks, NEW rid \in DOMAIN app.records, NEW read,
           ReadStep(Clocked, ctx, tid, rid, read)
    PROVE  CleanInv' /\ last' # "invalid"
<1> DEFINE c == Read(Clocked, tid, rid, Effective)
<1>1. /\ Clean(Clocked) /\ Sourced(Clocked, fresh) /\ fresh \in Nat /\ Effective \in Nat
      /\ ClockAccepts(app, now) => Clocked.lastTime = Effective
  BY ClockedClean
<1>2. /\ ClockAccepts(app, now) /\ flight' = None /\ fresh' = fresh /\ backup' = backup
      /\ Select(Clocked, ctx, tid, rid, read.fields, read.permission, {}, Effective)
  BY DEF ReadStep, Idle, history
<1>3. /\ tid \in DOMAIN Clocked.tasks /\ rid \in DOMAIN Clocked.records
      /\ Clocked.tasks[tid].site = Clocked.records[rid].site
  BY <1>2 DEF Select, TaskAdmits, LiveRecord, Can
<1>4. tid \in {approval.id : approval \in Approvals} /\ rid \in Nat
  BY DEF VaultInv, Known
<1>5. Effective <= Clocked.lastTime
  BY <1>1, <1>2
<1>6. Clean(c)
  BY <1>1, <1>3, <1>4, <1>5, ReadClean
<1>7. Stages(c, {}, {})
  BY ReadStages
<1>8. Sourced(c, fresh)
  <2>1. Formed(Clocked)
    BY <1>1 DEF Clean, Good, Whole
  <2>2. c.tasks = Clocked.tasks /\ c.grants = Clocked.grants
    BY <2>1 DEF Read, Audit, Formed, AppFields
  <2> HIDE DEF c
  <2> QED BY <1>1, <2>2 DEF Sourced
<1> HIDE DEF c
<1> QED BY <1>1, <1>2, <1>6, <1>7, <1>8, CallClean

\* What a mutation was admitted with.
LEMMA MutateAdmits ==
    ASSUME VaultInv, CleanInv, NEW ctx, NEW tid \in DOMAIN app.tasks, NEW request, NEW op \in Mutations,
           MutateStep(Clocked, ctx, tid, request, op)
    PROVE  /\ Admissible(Clocked, ctx, tid, request, op, Effective, fresh)
           /\ tid \in {approval.id : approval \in Approvals}
           /\ Effective \in Nat /\ Effective <= Clocked.lastTime
           /\ op.op = "create" \/ (op.op \in MutatedKinds /\ op.record \in Nat /\ op.record \in DOMAIN Clocked.records)
<1> DEFINE a == Clocked
           key == RequestKey(ctx, tid, request)
<1>1. /\ Clean(a) /\ Sourced(a, fresh) /\ fresh \in Nat /\ Effective \in Nat
      /\ ClockAccepts(app, now) => a.lastTime = Effective
  BY ClockedClean
<1>2. ClockAccepts(app, now) /\ MutationAdmitted(a, ctx, tid, request, op, Effective)
      /\ Performable(a, ctx, tid, key, op, Effective)
  BY DEF MutateStep
<1>3. tid \in {approval.id : approval \in Approvals} /\ Known(app)
  BY DEF VaultInv, Known
<1>4. fresh \notin DOMAIN a.grants
  BY <1>1 DEF Sourced
<1>5. fresh \notin DOMAIN a.records
  <2>1. \A r \in DOMAIN a.records : RecordCarried(app, a, r, {})
    BY ClockedReady DEF Keeps, Carries
  <2>2. \A r \in DOMAIN a.records : r \in DOMAIN app.records
    BY <2>1 DEF RecordCarried
  <2> QED BY <1>1, <1>3, <2>2 DEF Known
<1> HIDE DEF a
<1>6. \/ op.op = "create"
      \/ /\ op.op \in MutatedKinds /\ op.record \in DOMAIN app.records
         /\ op.op = "share" => op.grant \in Specs
  BY OperationIs
<1>7. tid \in DOMAIN a.tasks /\ a.tasks[tid].principal = ctx.principal
  BY <1>2 DEF MutationAdmitted, TaskAdmits
<1>8. \A d \in DOMAIN a.deliveries : a.deliveries[d].key # key
  BY <1>2 DEF MutationAdmitted, Values
<1>9. /\ key \notin DOMAIN a.requests /\ Cardinality(DOMAIN a.requests) < Limit
      /\ Authorize(a, ctx, tid, op, Effective, FALSE)
      /\ op.op = "create" => Cardinality(DOMAIN a.records) < Limit
      /\ op.op = "share" => Cardinality(DOMAIN a.grants) < Limit
  BY <1>2 DEF Performable
<1>10. op.op = "share" => op.grant.expiresAt \in Nat
  BY <1>6, VaultConstants
<1>11. op.op \in MutatedKinds => op.record \in DOMAIN a.records
  BY <1>9, AuthorizedIs
<1>12. Admissible(a, ctx, tid, request, op, Effective, fresh)
  BY <1>1, <1>4, <1>5, <1>7, <1>8, <1>9, <1>10 DEF Admissible
<1>13. op.op = "create" \/ (op.op \in MutatedKinds /\ op.record \in Nat /\ op.record \in DOMAIN a.records)
  BY <1>3, <1>6, <1>11 DEF Known
<1> HIDE DEF key
<1>14. Effective \in Nat /\ Effective <= a.lastTime
  BY <1>1, <1>2
<1> QED BY <1>3, <1>12, <1>13, <1>14 DEF a

\* The receipt of a mutation is valid only within one scope.
LEMMA ValidWithinScope ==
    ASSUME NEW a, Formed(a), NEW ctx, NEW tid, NEW request, NEW op, NEW at, NEW new,
           RequestKey(ctx, tid, request) \notin DOMAIN a.requests,
           op.op \in MutatedKinds, op.record \in DOMAIN a.records, ~a.records[op.record].deleted,
           Validate(Mutate(a, ctx, tid, request, op, at, new))
    PROVE  a.tasks[tid].site = a.records[op.record].site
<1> DEFINE b == Changed(a, ctx, tid, request, op, at, new)
           c == Mutate(a, ctx, tid, request, op, at, new)
           key == RequestKey(ctx, tid, request)
           r == a.records[op.record]
           s == MutatedRecord(r, op)
<1>1. op.op # "create" /\ Subject(op, new) = op.record
  BY DEF MutatedKinds, Subject
<1>2. /\ b = [f \in AppFields |-> b[f]] /\ b.tasks = a.tasks
      /\ b.records = [a.records EXCEPT ![op.record] = s]
      /\ Extends(a.requests, b.requests, key, b.requests[key])
      /\ ReceiptOf(b.requests[key], op, new, s.revision, at)
  BY <1>1, ChangedIs
<1>3. s.site = r.site
  <2>1. DOMAIN r = RecordFields
    BY DEF Formed
  <2> HIDE DEF r
  <2> QED BY <2>1 DEF MutatedRecord, PatchedRecord, RecordFields, MutatedKinds
<1>4. c.tasks = b.tasks /\ c.records = b.records /\ c.requests = b.requests
  <2>1. c = [b EXCEPT !.audit = c.audit]
    BY <1>2, MutateIs DEF Audit, AppFields
  <2> HIDE DEF b, c
  <2> QED BY <1>2, <2>1 DEF AppFields
<1>5. key.task = tid
  BY DEF RequestKey
<1>6. Validate(c)
  OBVIOUS
<1> HIDE DEF b, c, key, s
<1>7. key \in DOMAIN c.requests /\ c.requests[key].record = op.record
  BY <1>1, <1>2, <1>4 DEF Extends, ReceiptOf
<1>8. ValidReceipt(c, key)
  BY <1>6, <1>7 DEF Validate
<1>9. c.tasks[tid].site = c.records[op.record].site
  BY <1>5, <1>7, <1>8 DEF ValidReceipt
<1>10. c.records[op.record] = s
  BY <1>2, <1>4
<1> QED BY <1>2, <1>3, <1>4, <1>9, <1>10

\* A human's deletions and revocations are the mutations that authorize()
\* does not compare with the scope of the task.
LEMMA ScopeIsCompared ==
    ASSUME NEW a, Clean(a), \A u \in DOMAIN a.tasks : Bounded(a.tasks[u]), NEW ctx, NEW tid, NEW request, NEW op,
           NEW at, NEW new, op.op \in MutatedKinds, Admissible(a, ctx, tid, request, op, at, new)
    PROVE  /\ op.record \in DOMAIN a.records /\ ~a.records[op.record].deleted
           /\ \/ a.tasks[tid].site = a.records[op.record].site
              \/ ctx.admin /\ op.op \in {"delete", "revoke"}
<1>1. /\ Authorize(a, ctx, tid, op, at, FALSE) /\ tid \in DOMAIN a.tasks
      /\ a.tasks[tid].principal = ctx.principal
      /\ op.op = "share" => op.grant.expiresAt \in Nat
  BY DEF Admissible
<1>2. /\ op.record \in DOMAIN a.records /\ ~a.records[op.record].deleted
      /\ op.op = "patch" => MayPatch(a, ctx, tid, op, at)
      /\ op.op = "delete" => MayDelete(a, ctx, tid, op, at)
      /\ op.op = "share" => MayShare(a, ctx, tid, op, at)
      /\ op.op = "revoke" => MayRevoke(a, ctx, tid, op, at)
      /\ op.op = "report" => MayReport(a, ctx, tid, op, at)
  BY <1>1, AuthorizedIs
<1>3. CASE op.op = "patch"
  BY <1>2, <1>3 DEF MayPatch, Can
<1>4. CASE op.op = "delete"
  BY <1>2, <1>4 DEF MayDelete, Can
<1>5. CASE op.op = "share"
  BY <1>1, <1>2, <1>5, IssuedIsValid
<1>6. CASE op.op = "revoke"
  BY <1>2, <1>6 DEF MayRevoke, Can
<1>7. CASE op.op = "report"
  BY <1>2, <1>7 DEF MayReport, Can
<1> QED BY <1>2, <1>3, <1>4, <1>5, <1>6, <1>7 DEF MutatedKinds

\* A mutation issues the grant it shares, and no other.
LEMMA MutateSourced ==
    ASSUME NEW a, Formed(a), NEW n \in Nat, NEW m \in Nat, Sourced(a, n), NEW ctx, NEW tid, NEW request, NEW op,
           NEW at, n <= m, op.op = "share" => n < m
    PROVE  Sourced(Mutate(a, ctx, tid, request, op, at, n), m)
<1> DEFINE c == Mutate(a, ctx, tid, request, op, at, n)
           b == Changed(a, ctx, tid, request, op, at, n)
           grants == MutatedGrants(a, ctx, tid, op, n)
<1>1. b.tasks = a.tasks /\ b.grants = grants /\ b = [f \in AppFields |-> b[f]]
  <2>1. PICK records, requests : b = [a EXCEPT !.records = records, !.grants = grants, !.requests = requests]
    BY Zenon DEF Changed
  <2> HIDE DEF b, grants
  <2> QED BY <2>1 DEF Formed, AppFields
<1>2. c.tasks = b.tasks /\ c.grants = b.grants
  <2>1. c = [b EXCEPT !.audit = c.audit]
    BY <1>1, MutateIs DEF Audit, AppFields
  <2> HIDE DEF b, c
  <2> QED BY <1>1, <2>1 DEF AppFields
<1>3. DOMAIN grants \subseteq DOMAIN a.grants \/ (op.op = "share" /\ DOMAIN grants = DOMAIN a.grants \cup {n})
  BY DEF MutatedGrants, Inserted
<1> HIDE DEF b, c, grants
<1>4. \A g \in DOMAIN c.grants : g \in Nat /\ g < m
  BY <1>1, <1>2, <1>3 DEF Sourced
<1>5. Sourced(c, m)
  BY <1>1, <1>2, <1>4 DEF Sourced
<1> QED BY <1>5 DEF c

\* Every mutation but a straying one stages what validate() accepts.
LEMMA MutateKeepsClean ==
    ASSUME VaultInv, CleanInv, NEW ctx \in Contexts, NEW tid \in DOMAIN app.tasks, NEW request \in Requests,
           NEW op \in Mutations, MutateStep(Clocked, ctx, tid, request, op)
    PROVE  CleanInv' /\ (last' # "invalid" \/ Strays(ctx, tid, op))
<1> DEFINE a == Clocked
           c == Mutate(a, ctx, tid, request, op, Effective, fresh)
<1>1. /\ Clean(a) /\ Formed(a) /\ Sourced(a, fresh) /\ fresh \in Nat
      /\ \A u \in DOMAIN a.tasks : Bounded(a.tasks[u])
  BY ClockedClean DEF Clean, Good, Whole
<1>2. /\ Admissible(a, ctx, tid, request, op, Effective, fresh)
      /\ tid \in {approval.id : approval \in Approvals}
      /\ Effective \in Nat /\ Effective <= a.lastTime
      /\ op.op = "create" \/ (op.op \in MutatedKinds /\ op.record \in Nat /\ op.record \in DOMAIN a.records)
  BY MutateAdmits
<1>3. /\ fresh' = IF op.op \in {"create", "share"} THEN fresh + 1 ELSE fresh
      /\ flight' = None /\ backup' = backup
  BY DEF MutateStep, Idle
<1>4. fresh' \in Nat /\ fresh <= fresh' /\ (op.op = "share" => fresh < fresh')
  BY <1>1, <1>3
<1>5. Stages(c, {}, Drawn(op, fresh))
  BY MutateFacts
<1> HIDE DEF a
<1>6. Sourced(c, fresh')
  BY <1>1, <1>4, MutateSourced
<1>7. CASE op.op = "create"
  <2>1. Clean(c)
    BY <1>1, <1>2, <1>7, CreatedClean
  <2> HIDE DEF c
  <2> QED BY <1>3, <1>4, <1>5, <1>6, <2>1, CallClean
<1>8. CASE op.op \in MutatedKinds /\ a.tasks[tid].site = a.records[op.record].site
  <2>1. Clean(c)
    BY <1>1, <1>2, <1>8, ChangedClean DEF MutatedKinds
  <2> HIDE DEF c
  <2> QED BY <1>3, <1>4, <1>5, <1>6, <2>1, CallClean
<1>9. CASE op.op \in MutatedKinds /\ a.tasks[tid].site # a.records[op.record].site
  <2>1. /\ op.record \in DOMAIN a.records /\ ~a.records[op.record].deleted
        /\ ctx.admin /\ op.op \in {"delete", "revoke"}
    BY <1>1, <1>2, <1>9, ScopeIsCompared
  <2>2. RequestKey(ctx, tid, request) \notin DOMAIN a.requests
    BY <1>2 DEF Admissible
  <2>3. ~Validate(c)
    BY <1>1, <1>9, <2>1, <2>2, ValidWithinScope
  <2>4. Strays(ctx, tid, op)
    BY <1>9, <2>1 DEF Strays, a
  <2> HIDE DEF c
  <2>5. CleanInv'
    BY <1>3, <1>4, <1>5, <1>6, <2>3, CallClean
  <2> QED BY <2>4, <2>5
<1> QED BY <1>2, <1>7, <1>8, <1>9

-----------------------------------------------------------------------------
(* Private uses.                                                           *)

\* The owner loop admits plain uses and registrations from agents.
NoLogin == \A use \in Uses : use.action # "login"

LEMMA IntendSourced ==
    ASSUME NEW a, Formed(a), NEW n, Sourced(a, n), NEW ctx, NEW tid, NEW rid, NEW request, NEW use, NEW at
    PROVE  Sourced(Intend(a, ctx, tid, rid, request, use, at), n)
<1> DEFINE b == Intend(a, ctx, tid, rid, request, use, at)
<1>1. PICK deliveries : b = IF use.action = "register" THEN SetSignup([a EXCEPT !.deliveries = deliveries], rid, "submitted")
                            ELSE [a EXCEPT !.deliveries = deliveries]
  BY Zenon DEF Intend
<1> HIDE DEF b
<1>2. b.tasks = a.tasks /\ b.grants = a.grants
  BY <1>1 DEF SetSignup, Formed, AppFields
<1>3. Sourced(b, n)
  BY <1>2 DEF Sourced
<1> QED BY <1>3 DEF b

LEMMA PrepareKeepsClean ==
    ASSUME VaultInv, CleanInv, NEW ctx \in Contexts, NEW tid, NEW rid, NEW request, NEW use \in Uses,
           Prepare(Clocked, ctx, tid, rid, request, use)
    PROVE  CleanInv' /\ last' # "invalid"
<1> DEFINE a == Clocked
           c == Intend(a, ctx, tid, rid, request, use, Effective)
<1>1. /\ Clean(a) /\ Formed(a) /\ Sourced(a, fresh) /\ fresh \in Nat /\ Effective \in Nat
      /\ fresh \notin DOMAIN a.deliveries
  BY ClockedClean, ClockedReady DEF Clean, Good, Whole
<1>2. Stages(c, {}, {fresh})
  BY PrepareFacts
<1>3. /\ UseAdmitted(a, ctx, tid, rid, use, Effective)
      /\ UseIsNew(a, RequestKey(ctx, tid, request), rid, use)
      /\ backup' = backup /\ flight = None
  BY DEF Prepare, Idle, history
<1> HIDE DEF a
<1>4. Clean(c) /\ Sourced(c, fresh)
  BY <1>1, <1>3, IntendClean, IntendSourced
<1>5. /\ fresh' = fresh \/ fresh' = fresh + 1
      /\ flight' # None => ~flight'.handed
  BY <1>3 DEF Prepare
<1> HIDE DEF c
<1>6. fresh' \in Nat /\ fresh <= fresh'
  BY <1>1, <1>5
<1>7. Sourced(c, fresh')
  BY <1>1, <1>4, <1>6, SourcedLater
<1> QED BY <1>2, <1>3, <1>4, <1>5, <1>6, <1>7, CallClean

LEMMA HandoffKeepsClean ==
    ASSUME VaultInv, CleanInv, Handoff
    PROVE  CleanInv' /\ last' = last
<1> DEFINE at == EffectiveTime(app, now)
<1>1. Clean(app) /\ Clean(disk) /\ Sourced(app, fresh) /\ Formed(app) /\ now \in Nat
  BY DEF CleanInv, VaultInv, Shape
<1>2. /\ app' = Clock(app, now) /\ UNCHANGED <<disk, fresh, backup, last>> /\ ClockAccepts(app, now)
      /\ sent'.at = at
  BY DEF Handoff, HandoffAllowed
<1>3. Clean(app') /\ Sourced(app', fresh)
  BY <1>1, <1>2, ClockClean, ClockSourced
<1>4. app'.lastTime = at /\ at \in Nat /\ at <= at
  BY <1>1, <1>2 DEF Clock, EffectiveTime, Formed, AppFields
<1> HIDE DEF at
<1>5. Handed'
  BY <1>2, <1>4 DEF Handed
<1>6. backup' # None => Clean(backup') /\ Sourced(backup', fresh')
  BY <1>2 DEF CleanInv
<1>7. Sourced(app', fresh') /\ Clean(disk')
  BY <1>1, <1>2, <1>3
<1> QED BY <1>2, <1>3, <1>5, <1>6, <1>7 DEF CleanInv, Sourced

\* The end of a private use.
LEMMA FinishClean ==
    ASSUME VaultInv, CleanInv, NEW c, Clean(c), Sourced(c, fresh), app.lastTime <= c.lastTime, Finish(c),
           UNCHANGED <<fresh, backup>>
    PROVE  CleanInv' /\ last' # "invalid"
<1>1. Formed(c) /\ fresh \in Nat /\ fresh <= fresh
  BY DEF Clean, Good, Whole, VaultInv, Shape
<1>2. /\ Clean(app') /\ Clean(disk') /\ Sourced(app', fresh')
      /\ (backup' # None => Clean(backup') /\ Sourced(backup', fresh'))
      /\ last' # "invalid"
  BY <1>1, CommitClean DEF Finish
<1>3. Handed'
  BY DEF Finish, Handed
<1> QED BY <1>2, <1>3 DEF CleanInv, Sourced

LEMMA RefuseKeepsClean ==
    ASSUME VaultInv, CleanInv, Refuse
    PROVE  CleanInv' /\ last' # "invalid"
<1> DEFINE a == Clock(app, now)
           e == IF ShouldCompact(a) THEN Compact(a) ELSE a
           b == Refused(e, flight.id)
           c == IF flight.use.action = "register" THEN SetSignup(b, flight.record, "pending") ELSE b
<1>1. /\ Clean(app) /\ Sourced(app, fresh) /\ Formed(app) /\ now \in Nat /\ app.lastTime \in Nat
  BY DEF CleanInv, VaultInv, Shape, Formed
<1>2. Finish(c) /\ UNCHANGED <<fresh, backup>>
  BY DEF Refuse, Refused, history
<1>3. Clean(a) /\ Sourced(a, fresh) /\ app.lastTime <= a.lastTime
  BY <1>1, ClockClean, ClockSourced, ClockKeeps
<1> HIDE DEF a
<1>4. Clean(e) /\ Sourced(e, fresh) /\ e.lastTime = a.lastTime
  BY <1>3, StagedClean
<1> HIDE DEF e
<1>5. Clean(c) /\ c.lastTime = e.lastTime /\ c.tasks = e.tasks /\ c.grants = e.grants
  <2>1. c = b \/ c = SetSignup(b, flight.record, "pending")
    BY Zenon
  <2> HIDE DEF c
  <2> QED BY <1>4, <2>1, RefusedClean
<1> HIDE DEF b, c
<1>6. Sourced(c, fresh)
  BY <1>4, <1>5 DEF Sourced
<1>7. app.lastTime <= c.lastTime
  BY <1>3, <1>4, <1>5
<1> QED BY <1>2, <1>5, <1>6, <1>7, FinishClean

LEMMA CompleteKeepsClean ==
    ASSUME VaultInv, CleanInv, NoLogin, NEW status \in Statuses, Complete(status)
    PROVE  CleanInv' /\ last' # "invalid"
<1> DEFINE a == Staged
           signup == SignupAfter(flight.use.action, status, a.records[flight.record].signup)
           e == [task |-> flight.task, record |-> flight.record, request |-> None, at |-> sent.at]
           b == Completed(a, flight.id, status, flight.record, signup)
           c == Audit(b, e)
<1>1. /\ Clean(app) /\ Sourced(app, fresh) /\ app.lastTime \in Nat
  BY DEF CleanInv, VaultInv, Shape, Formed
<1>2. /\ flight # None /\ flight \in Flights
      /\ flight.id \in DOMAIN app.deliveries
      /\ app.deliveries[flight.id].task = flight.task /\ app.deliveries[flight.id].record = flight.record
      /\ app.deliveries[flight.id].status = None /\ app.deliveries[flight.id].dispatched
  BY DEF Complete, VaultInv, InFlight
<1>3. /\ Clean(a) /\ Sourced(a, fresh) /\ a.lastTime = app.lastTime
      /\ flight.id \in DOMAIN a.deliveries /\ a.deliveries[flight.id] = app.deliveries[flight.id]
  BY <1>1, <1>2, StagedClean DEF Staged
<1>4. Finish(c) /\ UNCHANGED <<fresh, backup>>
  <2>1. /\ Finish(Audit([Staged EXCEPT !.deliveries[flight.id].status = status,
                            !.records[flight.record].signup = SignupAfter(flight.use.action, status, @)], e))
        /\ UNCHANGED <<fresh, backup>>
    BY DEF Complete, history
  <2> HIDE DEF e
  <2>2. b = [Staged EXCEPT !.deliveries[flight.id].status = status,
                            !.records[flight.record].signup = SignupAfter(flight.use.action, status, @)]
    BY <1>3 DEF Clean, Good, Whole, Formed, AppFields, Completed
  <2> HIDE DEF b
  <2> QED BY <2>1, <2>2
<1> HIDE DEF a
<1>5. /\ Formed(a) /\ ValidDelivery(a, flight.id)
      /\ \A rid \in DOMAIN a.records : a.records[rid].signup # "verified_login"
  BY <1>3 DEF Clean, Good, Whole, Sound, Lasting
<1>6. /\ flight.task \in DOMAIN a.tasks /\ flight.record \in DOMAIN a.records
      /\ a.tasks[flight.task].site = a.records[flight.record].site
  BY <1>2, <1>3, <1>5 DEF ValidDelivery
<1>7. signup # "verified_login"
  <2>1. flight.use.action # "login"
    BY <1>2 DEF NoLogin, Flights
  <2>2. status # "verified_login"
    BY DEF Statuses
  <2>3. a.records[flight.record].signup # "verified_login"
    BY <1>5, <1>6
  <2> QED BY <2>1, <2>2, <2>3 DEF SignupAfter
<1> HIDE DEF signup
<1>8. /\ Clean(b) /\ b.lastTime = a.lastTime /\ b.tasks = a.tasks /\ b.grants = a.grants
      /\ b.records = [a.records EXCEPT ![flight.record].signup = signup]
  <2>1. Clean(a) /\ flight.id \in DOMAIN a.deliveries /\ a.deliveries[flight.id].dispatched
    BY <1>2, <1>3
  <2>2. Clean(b) /\ b.lastTime = a.lastTime /\ b.tasks = a.tasks /\ b.grants = a.grants
    BY <1>7, <2>1, CompletedClean
  <2>3. b.records = [a.records EXCEPT ![flight.record].signup = signup]
    BY <1>5, <1>6 DEF Completed, Formed, AppFields
  <2> QED BY <2>2, <2>3
<1> HIDE DEF b
<1>9. sent.at \in Nat /\ sent.at <= app.lastTime
  BY <1>2 DEF CleanInv, Handed, Complete
<1>10. e \in Events /\ e.task = flight.task /\ e.record = flight.record /\ e.request = None /\ e.at = sent.at
  BY <1>2, <1>9 DEF Events, Flights
<1> HIDE DEF e
<1>11. /\ flight.record \in DOMAIN b.records
       /\ b.records[flight.record].site = a.records[flight.record].site
  BY <1>5, <1>6, <1>8 DEF Formed, RecordFields
<1>12. EventSupported(b, e)
  BY <1>6, <1>8, <1>10, <1>11 DEF EventSupported
<1>13. b.tasks[e.task].site = b.records[e.record].site /\ e.at <= b.lastTime
  BY <1>3, <1>6, <1>8, <1>9, <1>10, <1>11
<1>14. Clean(c)
  BY <1>8, <1>10, <1>12, <1>13, AuditClean
<1>15. c.lastTime = b.lastTime /\ c.tasks = b.tasks /\ c.grants = b.grants
  BY <1>8 DEF Audit, Clean, Good, Whole, Formed, AppFields
<1> HIDE DEF c
<1>16. Sourced(c, fresh)
  BY <1>3, <1>8, <1>15 DEF Sourced
<1>17. app.lastTime <= c.lastTime
  BY <1>1, <1>3, <1>8, <1>15
<1> QED BY <1>4, <1>14, <1>16, <1>17, FinishClean

-----------------------------------------------------------------------------
(* Restart, recovery, backup and restore.                                  *)

\* The owner's value becomes one that was made of what was already held.
LEMMA RenewedClean ==
    ASSUME VaultInv, CleanInv, app' = disk', Clean(disk'), Sourced(disk', fresh), UNCHANGED <<fresh, backup>>,
           flight' = None
    PROVE  CleanInv'
<1>1. backup' # None => Clean(backup') /\ Sourced(backup', fresh')
  BY DEF CleanInv
<1>2. Handed'
  BY DEF Handed
<1>3. Clean(app') /\ Clean(disk') /\ Sourced(app', fresh')
  OBVIOUS
<1> QED BY <1>1, <1>2, <1>3 DEF CleanInv, Sourced

LEMMA ReloadKeepsClean ==
    ASSUME VaultInv, CleanInv, Crash \/ Open
    PROVE  CleanInv' /\ last' = last
<1>1. app' = disk /\ disk' = disk /\ UNCHANGED <<fresh, backup, last>> /\ flight' = None
  BY DEF Crash, Open, history, VaultInv, Down
<1>2. Clean(disk) /\ Sourced(disk, fresh)
  <2>1. Like(app, disk)
    BY AgreeIsLike DEF VaultInv
  <2> QED BY <2>1 DEF CleanInv, Sourced, Like
<1>3. app' = disk' /\ Clean(disk') /\ Sourced(disk', fresh)
  BY <1>1, <1>2
<1> QED BY <1>1, <1>3, RenewedClean

\* What recovery and restore make of an image is sourced like the image.
LEMMA ResolvedSourced ==
    ASSUME NEW a, Clean(a), NEW n, Sourced(a, n), NEW m, NEW c, c = Sanitize(a, m) \/ c = PrepareRestored(a, m)
    PROVE  Sourced(c, n)
<1> DEFINE b == Resolve(a)
<1>1. b = [f \in AppFields |-> b[f]] /\ b.tasks = a.tasks /\ DOMAIN b.grants = DOMAIN a.grants
  BY ResolveClean
<1>2. PICK records, time, frozen :
        c = [b EXCEPT !.clockFrozen = frozen, !.lastTime = time] \/ c = [b EXCEPT !.records = records, !.lastTime = time]
  BY Zenon DEF Sanitize, PrepareRestored
<1> HIDE DEF b
<1>3. c.tasks = b.tasks /\ c.grants = b.grants
  BY <1>1, <1>2 DEF AppFields
<1> QED BY <1>1, <1>3 DEF Sourced

LEMMA RecoverKeepsClean ==
    ASSUME VaultInv, CleanInv, Recover
    PROVE  CleanInv' /\ last' # "invalid"
<1>1. /\ app' = disk' /\ disk' = Sanitize(disk, now) /\ Validate(Sanitize(disk, now))
      /\ UNCHANGED <<fresh, backup>> /\ flight' = None /\ last' = "recovered"
  BY DEF Recover, VaultInv, Down
<1>2. Clean(disk) /\ Sourced(disk, fresh) /\ now \in Nat
  <2>1. Like(app, disk)
    BY AgreeIsLike DEF VaultInv
  <2> QED BY <2>1 DEF CleanInv, Sourced, Like, VaultInv, Shape
<1>3. Clean(disk')
  BY <1>1, <1>2, SanitizeWhole, ValidIsClean
<1>4. Sourced(disk', fresh)
  BY <1>1, <1>2, ResolvedSourced
<1> QED BY <1>1, <1>3, <1>4, RenewedClean

LEMMA RestoreKeepsClean ==
    ASSUME VaultInv, CleanInv, Restore
    PROVE  CleanInv' /\ last' # "invalid"
<1>1. /\ app' = disk' /\ disk' = PrepareRestored(backup, now) /\ backup # None
      /\ UNCHANGED <<fresh, backup>> /\ flight' = None /\ last' = "restored"
  BY DEF Restore, VaultInv, Down
<1>2. Clean(backup) /\ Sourced(backup, fresh) /\ now \in Nat
  BY <1>1 DEF CleanInv, VaultInv, Shape
<1>3. Clean(disk')
  BY <1>1, <1>2, RestoredClean
<1>4. Sourced(disk', fresh)
  BY <1>1, <1>2, ResolvedSourced
<1> QED BY <1>1, <1>3, <1>4, RenewedClean

LEMMA StillKeepsClean ==
    ASSUME VaultInv, CleanInv, ExportBackup \/ Tick \/ StepBack \/ UNCHANGED vars
    PROVE  CleanInv' /\ last' = last
<1>1. /\ UNCHANGED <<app, disk, flight, last, fresh, sent>>
      /\ backup' = backup \/ backup' = app
  BY DEF ExportBackup, Tick, StepBack, owner, history, vars
<1>2. Handed'
  BY <1>1 DEF CleanInv, Handed
<1>3. backup' # None => Clean(backup') /\ Sourced(backup', fresh')
  BY <1>1 DEF CleanInv
<1>4. Clean(app') /\ Clean(disk') /\ Sourced(app', fresh')
  BY <1>1 DEF CleanInv
<1> QED BY <1>1, <1>2, <1>3, <1>4 DEF CleanInv, Sourced

LEMMA InitClean == Init => CleanInv
<1> SUFFICES ASSUME Init PROVE CleanInv
  OBVIOUS
<1> DEFINE a == NewApplication
<1>1. app = a /\ disk = a /\ backup = None /\ flight = None
  BY DEF Init
<1>2. /\ a = [f \in AppFields |-> a[f]] /\ a.lastTime = 0 /\ a.clockFrozen = FALSE
      /\ DOMAIN a.tasks = {} /\ DOMAIN a.records = {} /\ DOMAIN a.grants = {} /\ DOMAIN a.requests = {}
      /\ DOMAIN a.deliveries = {} /\ DOMAIN a.baselines = {} /\ a.revokedTasks = {} /\ a.audit = <<>>
  BY DEF NewApplication, EmptyMap, AppFields
<1>3. IsFiniteSet({}) /\ Cardinality({}) = 0
  BY FS_EmptySet
<1>4. Limit \in Nat /\ AuditCap \in Nat
  BY PolicyConstants
<1>5. a.clockFrozen \in BOOLEAN /\ ~a.clockFrozen
  BY <1>2, Zenon
<1>6. Formed(a)
  BY InitVault, <1>1 DEF VaultInv, Shape
<1> HIDE DEF a
<1>7. Len(a.audit) = 0 /\ a.audit \in Seq(Events) /\ DOMAIN a.audit = {}
  <2>1. Len(<<>>) = 0 /\ <<>> \in Seq(Events) /\ DOMAIN <<>> = {}
    OBVIOUS
  <2> QED BY <1>2, <2>1, Zenon
<1>8. Whole(a)
  <2>1. Len(a.audit) <= AuditCap
    BY <1>4, <1>7
  <2>2. /\ IsFiniteSet(DOMAIN a.records) /\ IsFiniteSet(DOMAIN a.grants)
        /\ IsFiniteSet(DOMAIN a.requests) /\ IsFiniteSet(DOMAIN a.deliveries)
    BY <1>2, <1>3
  <2>3. /\ \A rid \in DOMAIN a.records : FALSE
        /\ \A g \in DOMAIN a.grants : FALSE
        /\ \A rid \in DOMAIN a.baselines : FALSE
        /\ \A key \in DOMAIN a.requests : FALSE
        /\ \A d \in DOMAIN a.deliveries : FALSE
    BY <1>2
  <2> QED BY <1>5, <1>6, <1>7, <2>1, <2>2, <2>3, Zenon DEF Whole
<1>9. Lasting(a) /\ Sized(a) /\ Dated(a)
  <2>1. Cardinality({}) <= Limit
    BY <1>3, <1>4
  <2>2. Sized(a)
    BY <1>2, <2>1, Zenon DEF Sized
  <2> QED BY <1>2, <1>7, <2>2 DEF Lasting, Dated
<1>10. Sound(a)
  BY <1>2 DEF Sound
<1>11. Clean(a)
  BY <1>5, <1>7, <1>8, <1>9, <1>10 DEF Clean, Good
<1>12. Sourced(a, fresh)
  BY <1>2 DEF Sourced
<1> QED BY <1>1, <1>11, <1>12 DEF CleanInv, Handed

\* Every step keeps the store clean and stages what validate() accepts, but for a
\* straying one.
LEMMA NextClean ==
    ASSUME VaultInv, CleanInv, NoLogin, [Next]_vars
    PROVE  CleanInv' /\ (last' # "invalid" \/ last' = last \/ StrayingStep)
<1>1. CASE Supervise
  BY <1>1, ApproveKeepsClean, RevokeKeepsClean DEF Supervise
<1>2. CASE Agent
  <2>1. CASE Observe
    BY <2>1, ObserveKeepsClean
  <2>2. ASSUME NEW ctx \in Contexts, NEW tid \in TasksOf(ctx), NEW op \in Mutations, NEW request \in Requests,
               MutateStep(Clocked, ctx, tid, request, op)
        PROVE  CleanInv' /\ (last' # "invalid" \/ StrayingStep)
    <3>1. tid \in DOMAIN app.tasks
      BY DEF TasksOf
    <3>2. CleanInv' /\ (last' # "invalid" \/ Strays(ctx, tid, op))
      BY <2>2, <3>1, MutateKeepsClean
    <3> QED BY <2>2, <3>2 DEF StrayingStep
  <2>3. ASSUME NEW ctx \in Contexts, NEW tid \in TasksOf(ctx), NEW rid \in DOMAIN app.records, NEW read \in Reads,
               ReadStep(Clocked, ctx, tid, rid, read)
        PROVE  CleanInv' /\ last' # "invalid"
    <3>1. tid \in DOMAIN app.tasks
      BY DEF TasksOf
    <3> QED BY <2>3, <3>1, ReadKeepsClean
  <2>4. ASSUME NEW ctx \in Contexts, NEW tid \in TasksOf(ctx), NEW rid \in DOMAIN app.records,
               NEW request \in Requests, NEW use \in Uses, Prepare(Clocked, ctx, tid, rid, request, use)
        PROVE  CleanInv' /\ last' # "invalid"
    BY <2>4, PrepareKeepsClean
  <2> QED BY <1>2, <2>1, <2>2, <2>3, <2>4 DEF Agent
<1>3. CASE Delivery
  BY <1>3, HandoffKeepsClean, RefuseKeepsClean, CompleteKeepsClean DEF Delivery
<1>4. CASE Crash \/ Open \/ Recover \/ Restore
  BY <1>4, ReloadKeepsClean, RecoverKeepsClean, RestoreKeepsClean
<1>5. CASE ExportBackup \/ Tick \/ StepBack \/ UNCHANGED vars
  BY <1>5, StillKeepsClean
<1> QED BY <1>1, <1>2, <1>3, <1>4, <1>5 DEF Next

-----------------------------------------------------------------------------
(* What holds always.  The owner loop admits plain uses and registrations  *)
(* from agents, never a login.                                             *)

\* storage.rs, agent/snapshot.rs: what the owner, the disk and a backup hold
\* passes validate(), and every revision, version, grant and credential use in
\* it is accounted for, at any time.
THEOREM StoreStaysClean == NoLogin => (Spec => []CleanInv)
<1> SUFFICES ASSUME NoLogin PROVE Spec => []CleanInv
  OBVIOUS
<1>1. VaultInv /\ CleanInv /\ [Next]_vars => CleanInv'
  BY NextClean
<1> QED BY VaultInvariant, InitClean, <1>1, PTL DEF Spec

\* snapshot.rs:281-389: one compaction is enough in every reachable state: a
\* second one finds nothing to drop, and what the first leaves can be published.
THEOREM CompactionsSettle == NoLogin => (Spec => []CompactionSettles)
<1> SUFFICES ASSUME NoLogin PROVE Spec => []CompactionSettles
  OBVIOUS
<1>1. CleanInv => CompactionSettles
  BY CompactSettles DEF CleanInv, Clean, CompactionSettles
<1> QED BY StoreStaysClean, <1>1, PTL

\* recovery.rs:110-124: recovery can settle every unfinished delivery the store
\* may hold, once the trusted clock is past what the store has seen.
THEOREM UnfinishedCanBeRecovered == NoLogin => (Spec => []UnfinishedIsRecoverable)
<1> SUFFICES ASSUME NoLogin PROVE Spec => []UnfinishedIsRecoverable
  OBVIOUS
<1>1. ASSUME VaultInv, CleanInv PROVE UnfinishedIsRecoverable
  <2> DEFINE n == EffectiveTime(disk, now)
  <2>1. Clean(disk) /\ disk.lastTime \in Nat /\ now \in Nat
    BY <1>1 DEF CleanInv, VaultInv, Shape, Formed
  <2>2. n \in Nat /\ disk.lastTime <= n
    BY <2>1 DEF EffectiveTime
  <2> HIDE DEF n
  <2>3. Validate(Sanitize(disk, n))
    BY <2>1, <2>2, SanitizeClean, CleanIsValid
  <2> QED BY <2>3 DEF n, UnfinishedIsRecoverable
<1> QED BY VaultInvariant, StoreStaysClean, <1>1, PTL

\* mod.rs:498-767, workflow.rs:5-92, snapshot.rs:95-389: the only admitted call
\* whose candidate validate() then refuses is a human's deletion or revocation
\* of what was created under another service or origin: authorize() leaves the
\* scope to can(), which it does not ask for a human, and validate() compares it.
THEOREM StrayingOnlyIsRefused == NoLogin => (Spec => OnlyStrayingIsRefused)
<1> SUFFICES ASSUME NoLogin PROVE Spec => OnlyStrayingIsRefused
  OBVIOUS
<1>1. VaultInv /\ CleanInv /\ [Next]_vars => [last' = "invalid" => last = "invalid" \/ StrayingStep]_vars
  BY NextClean
<1> QED BY VaultInvariant, StoreStaysClean, <1>1, PTL DEF Spec, OnlyStrayingIsRefused

\* A human's tasks are for the scope of all the others.
HumansInScope ==
    \A ctx \in Contexts, v, w \in Approvals :
        ctx.admin /\ v.task.principal = ctx.principal => v.task.site = w.task.site

LEMMA NoneStrays ==
    ASSUME VaultInv, CleanInv, HumansInScope
    PROVE  ~StrayingStep
<1> SUFFICES ASSUME NEW ctx \in Contexts, NEW tid \in TasksOf(ctx), NEW op \in Mutations, NEW request \in Requests,
                    MutateStep(Clocked, ctx, tid, request, op), Strays(ctx, tid, op)
             PROVE  FALSE
  BY DEF StrayingStep
<1> DEFINE a == Clocked
<1>1. Clean(a) /\ Sourced(a, fresh)
  BY ClockedClean
<1>2. /\ tid \in DOMAIN a.tasks /\ a.tasks[tid].principal = ctx.principal
      /\ op.op = "create" \/ op.record \in DOMAIN a.records
  <2>1. tid \in DOMAIN app.tasks
    BY DEF TasksOf
  <2>2. /\ Admissible(a, ctx, tid, request, op, Effective, fresh)
        /\ op.op = "create" \/ op.record \in DOMAIN a.records
    BY <2>1, MutateAdmits
  <2> HIDE DEF a
  <2> QED BY <2>2 DEF Admissible
<1>3. ctx.admin /\ op.op # "create" /\ a.tasks[tid].site # a.records[op.record].site
  BY DEF Strays
<1> HIDE DEF a
<1> DEFINE u == a.records[op.record].task
<1>4. u \in DOMAIN a.tasks /\ a.tasks[u].site = a.records[op.record].site
  <2>1. ValidRecord(a, a.records[op.record])
    BY <1>1, <1>2, <1>3 DEF Clean, Good, Sound
  <2> QED BY <2>1 DEF ValidRecord
<1>5. PICK v \in Approvals : a.tasks[tid] = v.task
  BY <1>1, <1>2 DEF Sourced
<1>6. PICK w \in Approvals : a.tasks[u] = w.task
  BY <1>1, <1>4 DEF Sourced
<1>7. v.task.site = w.task.site
  BY <1>2, <1>3, <1>5 DEF HumansInScope
<1> QED BY <1>3, <1>4, <1>5, <1>6, <1>7

\* mod.rs:498-767, workflow.rs:5-92, snapshot.rs:95-389: no admitted call,
\* compaction included, stages a value that validate() then refuses to publish.
THEOREM CandidatesAreValid == NoLogin /\ HumansInScope => (Spec => []CandidatesValid)
<1> SUFFICES ASSUME NoLogin, HumansInScope PROVE Spec => []CandidatesValid
  OBVIOUS
<1>1. Init => CandidatesValid
  BY DEF Init, CandidatesValid
<1>2. VaultInv /\ CleanInv /\ CandidatesValid /\ [Next]_vars => CandidatesValid'
  BY NextClean, NoneStrays DEF CandidatesValid
<1> QED BY VaultInvariant, StoreStaysClean, <1>1, <1>2, PTL DEF Spec

-----------------------------------------------------------------------------
(* What compaction leaves out, and what the next image still says of it.   *)

Expired(a, m, g) == a.grants[g].revoked \/ a.grants[g].spec.expiresAt <= m.lastTime

Attested(m, d) ==
    SealsRegister(d) /\ d.record \in DOMAIN m.records => Baseline(m, d.record).registrationDispatched

Covered(m, c) == c.record \in DOMAIN m.records => c.revision <= Baseline(m, c.record).through

Thinned(a, m) ==
    /\ Part(m.tasks, a.tasks) /\ Part(m.records, a.records) /\ Part(m.grants, a.grants)
    /\ Part(m.requests, a.requests) /\ Part(m.deliveries, a.deliveries)
    /\ a.revokedTasks \cap DOMAIN m.tasks \subseteq m.revokedTasks
    /\ DOMAIN a.tasks # {} => DOMAIN m.tasks # {}
    /\ \A t \in DOMAIN a.tasks \ DOMAIN m.tasks : t \in a.revokedTasks \/ a.tasks[t].expiresAt <= m.lastTime
    /\ \A r \in DOMAIN a.records \ DOMAIN m.records : a.records[r].deleted
    /\ \A g \in DOMAIN a.grants \ DOMAIN m.grants :
        Expired(a, m, g) /\ \A k \in DOMAIN m.requests : m.requests[k].grant # g
    /\ \A k \in DOMAIN a.requests \ DOMAIN m.requests : Covered(m, a.requests[k])
    /\ \A d \in DOMAIN a.deliveries \ DOMAIN m.deliveries :
        a.deliveries[d].status # None /\ Attested(m, a.deliveries[d])
    /\ \A r \in DOMAIN m.records : Baseline(m, r).through <= m.records[r].revision
    /\ a.lastTime <= m.lastTime

LEMMA GrantsOmit ==
    ASSUME NEW a, Formed(a)
    PROVE  \A g \in DOMAIN a.grants \ DOMAIN DropGrants(a).grants :
                Expired(a, a, g) /\ \A k \in DOMAIN a.requests : a.requests[k].grant # g
<1> DEFINE b == DropGrants(a)
           dropped == {g \in DOMAIN a.grants :
                        /\ a.grants[g].revoked \/ a.grants[g].spec.expiresAt <= a.lastTime
                        /\ \A cached \in Values(a.requests) : cached.grant # g}
           left == DOMAIN a.grants \ dropped
           grants == Restrict(a.grants, left)
           bases == [rid \in DOMAIN a.baselines |-> [a.baselines[rid] EXCEPT !.prunedGrants = @ \ dropped]]
<1>1. b = [a EXCEPT !.grants = grants, !.baselines = bases]
  BY DEF DropGrants
<1>2. \A g \in DOMAIN a.grants : g \notin left =>
        Expired(a, a, g) /\ \A k \in DOMAIN a.requests : a.requests[k].grant # g
  BY DEF Values, Expired
<1>3. left \in SUBSET DOMAIN a.grants
  OBVIOUS
<1> HIDE DEF b, left, bases
<1>4. DOMAIN grants = left
  BY <1>3, RestrictIs
<1> HIDE DEF grants
<1>5. b.grants = grants
  BY <1>1 DEF Formed, AppFields
<1> QED BY <1>2, <1>4, <1>5 DEF b

LEMMA RecordsOmit ==
    ASSUME NEW a, Formed(a)
    PROVE  \A r \in DOMAIN a.records \ DOMAIN DropRecords(a).records : a.records[r].deleted
<1> DEFINE b == DropRecords(a)
           kept == {rid \in DOMAIN a.records :
                    \/ ~a.records[rid].deleted
                    \/ \E g \in Values(a.grants) : g.record = rid
                    \/ \E d \in Values(a.deliveries) : d.record = rid
                    \/ Receipts(a, rid) # {}}
           records == Restrict(a.records, kept)
           bases == Restrict(a.baselines, kept)
<1>1. b = [a EXCEPT !.records = records, !.baselines = bases]
  BY DEF DropRecords
<1>2. \A r \in DOMAIN a.records : r \notin kept => a.records[r].deleted
  OBVIOUS
<1>3. kept \in SUBSET DOMAIN a.records
  OBVIOUS
<1> HIDE DEF b, kept, bases
<1>4. DOMAIN records = kept
  BY <1>3, RestrictIs
<1> HIDE DEF records
<1>5. b.records = records
  BY <1>1 DEF Formed, AppFields
<1> QED BY <1>2, <1>4, <1>5 DEF b

LEMMA TasksOmit ==
    ASSUME NEW a, Formed(a)
    PROVE  LET b == DropTasks(a) IN
           /\ DOMAIN a.tasks # {} => DOMAIN b.tasks # {}
           /\ \A t \in DOMAIN a.tasks \ DOMAIN b.tasks : t \in a.revokedTasks \/ a.tasks[t].expiresAt <= a.lastTime
<1> DEFINE b == DropTasks(a)
           dead == Dead(a)
           latest == CHOOSE tid \in dead : \A u \in dead : a.tasks[u].expiresAt <= a.tasks[tid].expiresAt
           kept == IF dead = DOMAIN a.tasks /\ dead # {} THEN {latest} ELSE DOMAIN a.tasks \ dead
           tasks == Restrict(a.tasks, kept)
<1>1. b = [a EXCEPT !.tasks = tasks, !.revokedTasks = a.revokedTasks \cap kept]
  BY DEF DropTasks, Dead
<1>2. /\ dead \subseteq DOMAIN a.tasks
      /\ \A t \in dead : t \in a.revokedTasks \/ a.tasks[t].expiresAt <= a.lastTime
  BY DEF Dead
<1> HIDE DEF b, dead
<1>3. dead # {} => latest \in dead
  <2> SUFFICES ASSUME dead # {} PROVE latest \in dead
    OBVIOUS
  <2>1. IsFiniteSet(dead) /\ \A tid \in dead : a.tasks[tid].expiresAt \in Nat
    BY <1>2, FS_Subset DEF Formed
  <2>2. \E tid \in dead : \A u \in dead : a.tasks[u].expiresAt <= a.tasks[tid].expiresAt
    BY <2>1, LatestExists
  <2> QED BY <2>2
<1> HIDE DEF latest
<1>4. kept \in SUBSET DOMAIN a.tasks /\ (DOMAIN a.tasks # {} => kept # {})
      /\ \A t \in DOMAIN a.tasks : t \notin kept => t \in dead
  BY <1>2, <1>3
<1> HIDE DEF kept
<1>5. DOMAIN tasks = kept
  BY <1>4, RestrictIs
<1> HIDE DEF tasks
<1>6. b.tasks = tasks
  BY <1>1 DEF Formed, AppFields
<1> QED BY <1>2, <1>4, <1>5, <1>6 DEF b

\* A pass of compaction leaves out only what is over, and says so of the rest.
LEMMA CompactOmits ==
    ASSUME NEW a, Good(a)
    PROVE  LET h == Compact(a) IN
           /\ DOMAIN a.tasks # {} => DOMAIN h.tasks # {}
           /\ \A t \in DOMAIN a.tasks \ DOMAIN h.tasks : t \in a.revokedTasks \/ a.tasks[t].expiresAt <= a.lastTime
           /\ \A r \in DOMAIN a.records \ DOMAIN h.records : a.records[r].deleted
           /\ \A g \in DOMAIN a.grants \ DOMAIN h.grants :
                Expired(a, a, g) /\ \A k \in DOMAIN h.requests : h.requests[k].grant # g
<1> DEFINE b == FoldReceipts(a)
           c == DropGrants(b)
           d == DropDeliveries(c)
           e == DropRecords(d)
           f == DropTasks(e)
           g == DropAudit(f)
           h == TrimBaselines(g)
<1>0. Compact(a) = h
  BY DEF Compact
<1> HIDE DEF b, c, d, e, f, g, h
<1>1. Good(b) /\ DOMAIN b.baselines = DOMAIN b.records
  BY FoldGood DEF b
<1>2. /\ b.lastTime = a.lastTime
      /\ b.tasks = a.tasks /\ b.records = a.records /\ b.grants = a.grants
      /\ b.revokedTasks = a.revokedTasks
  BY FoldFrame DEF b, Good, Whole
<1>3. /\ Thins(b, c) /\ Good(c) /\ DOMAIN c.baselines = DOMAIN c.records
      /\ c.tasks = b.tasks /\ c.records = b.records /\ c.requests = b.requests /\ c.revokedTasks = b.revokedTasks
  BY <1>1, GrantsThin DEF c
<1>4. /\ Thins(c, d) /\ Good(d) /\ DOMAIN d.baselines = DOMAIN d.records
      /\ d.tasks = c.tasks /\ d.records = c.records /\ d.grants = c.grants /\ d.requests = c.requests
      /\ d.revokedTasks = c.revokedTasks
  BY <1>3, DeliveriesThin DEF d
<1>5. /\ Thins(d, e) /\ Good(e) /\ DOMAIN e.baselines = DOMAIN e.records
      /\ e.tasks = d.tasks /\ e.grants = d.grants /\ e.requests = d.requests /\ e.revokedTasks = d.revokedTasks
  BY <1>4, RecordsThin DEF e
<1>6. /\ Good(f) /\ f.records = e.records /\ f.grants = e.grants /\ f.requests = e.requests
  BY <1>5, TasksThin DEF f
<1>7. /\ Good(g) /\ g.tasks = f.tasks /\ g.records = f.records /\ g.grants = f.grants /\ g.requests = f.requests
  BY <1>6, AuditThin DEF g
<1>8. /\ h.tasks = g.tasks /\ h.records = g.records /\ h.grants = g.grants /\ h.requests = g.requests
  BY <1>7, TrimThin DEF h
<1>9. d.lastTime = a.lastTime /\ e.lastTime = a.lastTime
  BY <1>2, <1>3, <1>4, <1>5 DEF Thins
<1>10. /\ DOMAIN e.tasks # {} => DOMAIN f.tasks # {}
       /\ \A t \in DOMAIN e.tasks \ DOMAIN f.tasks : t \in e.revokedTasks \/ e.tasks[t].expiresAt <= e.lastTime
  BY <1>5, TasksOmit DEF f, Good, Whole
<1>11. \A r \in DOMAIN d.records \ DOMAIN e.records : d.records[r].deleted
  BY <1>4, RecordsOmit DEF e, Good, Whole
<1>12. \A x \in DOMAIN b.grants \ DOMAIN c.grants :
            Expired(b, b, x) /\ \A k \in DOMAIN b.requests : b.requests[k].grant # x
  BY <1>1, GrantsOmit DEF c, Good, Whole
<1>13. e.tasks = a.tasks /\ e.revokedTasks = a.revokedTasks /\ d.records = a.records
       /\ h.tasks = f.tasks /\ h.records = e.records /\ h.grants = c.grants /\ h.requests = b.requests
  BY <1>2, <1>3, <1>4, <1>5, <1>6, <1>7, <1>8
<1>14. \A x \in DOMAIN a.grants \ DOMAIN h.grants :
            Expired(a, a, x) /\ \A k \in DOMAIN h.requests : h.requests[k].grant # x
  BY <1>2, <1>12, <1>13 DEF Expired
<1> QED BY <1>0, <1>9, <1>10, <1>11, <1>13, <1>14

\* A receipt that was folded is below the baseline of its record: the
\* revisions above it still have receipts of their own.
LEMMA FoldedAreCovered ==
    ASSUME NEW a, NEW h, Good(a), Good(h), Part(h.requests, a.requests), Part(h.records, a.records),
           NEW k \in DOMAIN a.requests \ DOMAIN h.requests
    PROVE  Covered(h, a.requests[k])
<1> DEFINE c == a.requests[k]
           rid == c.record
<1> SUFFICES ASSUME rid \in DOMAIN h.records, ~(c.revision <= Baseline(h, rid).through) PROVE FALSE
  BY DEF Covered
<1>1. /\ c.revision \in Nat /\ c.revision <= a.records[rid].revision
      /\ \A l \in Receipts(a, rid) : a.requests[l].revision = c.revision => l = k
  BY DEF Good, Whole, Sound, ValidReceipt
<1>2. a.records[rid] = h.records[rid] /\ h.records[rid].revision \in Nat
  BY DEF Part, Good, Whole, Formed
<1>3. Baseline(h, rid).through \in Nat
  BY BaselineWhole DEF Good
<1>4. c.revision \in Baseline(h, rid).through + 1 .. h.records[rid].revision
  BY <1>1, <1>2, <1>3
<1>5. PICK l \in Receipts(h, rid) : h.requests[l].revision = c.revision
  <2>1. SoundCount(h, rid)
    BY DEF Good, Sound
  <2> QED BY <1>4, <2>1 DEF SoundCount
<1>6. l \in Receipts(a, rid) /\ a.requests[l].revision = c.revision /\ l \in DOMAIN h.requests
  BY <1>5 DEF Receipts, Part
<1> QED BY <1>1, <1>6

\* A registration whose attempt was dropped stays sealed by the baseline: no
\* other attempt seals it.
LEMMA DroppedAreAttested ==
    ASSUME NEW a, NEW h, Good(a), Drops(a, h), NEW d \in DOMAIN a.deliveries \ DOMAIN h.deliveries
    PROVE  a.deliveries[d].status # None /\ Attested(h, a.deliveries[d])
<1> DEFINE o == a.deliveries[d]
           rid == o.record
<1>1. o.status # None
  BY DEF Drops
<1>2. SUFFICES ASSUME SealsRegister(o), rid \in DOMAIN h.records
               PROVE  Baseline(h, rid).registrationDispatched
  BY <1>1 DEF Attested
<1>3. RegistrationSealed(a, rid)
  BY <1>2 DEF RegistrationSealed, Values
<1>4. RegistrationSealed(h, rid)
  BY <1>2, <1>3 DEF Drops
<1>5. ASSUME NEW x \in DOMAIN h.deliveries, h.deliveries[x].record = rid, SealsRegister(h.deliveries[x])
      PROVE  FALSE
  <2>1. x \in DOMAIN a.deliveries \ {d} /\ a.deliveries[x] = h.deliveries[x]
    BY DEF Drops, Part
  <2>2. ValidDelivery(a, d)
    BY DEF Good, Sound
  <2> QED BY <1>2, <1>5, <2>1, <2>2 DEF ValidDelivery
<1> QED BY <1>4, <1>5 DEF RegistrationSealed, Values

LEMMA CompactThinned ==
    ASSUME NEW a, Good(a)
    PROVE  Thinned(a, Compact(a))
<1> DEFINE h == Compact(a)
<1>1. Good(h) /\ Drops(a, h)
  BY CompactIsClean, CompactDrops DEF Clean, Good, Whole
<1>2. /\ DOMAIN a.tasks # {} => DOMAIN h.tasks # {}
      /\ \A t \in DOMAIN a.tasks \ DOMAIN h.tasks : t \in a.revokedTasks \/ a.tasks[t].expiresAt <= a.lastTime
      /\ \A r \in DOMAIN a.records \ DOMAIN h.records : a.records[r].deleted
      /\ \A g \in DOMAIN a.grants \ DOMAIN h.grants :
            Expired(a, a, g) /\ \A k \in DOMAIN h.requests : h.requests[k].grant # g
  BY CompactOmits
<1> HIDE DEF h
<1>3. /\ Part(h.tasks, a.tasks) /\ Part(h.records, a.records) /\ Part(h.grants, a.grants)
      /\ Part(h.requests, a.requests) /\ Part(h.deliveries, a.deliveries)
      /\ a.revokedTasks \cap DOMAIN h.tasks \subseteq h.revokedTasks
      /\ h.lastTime = a.lastTime /\ h.clockFrozen = a.clockFrozen
  BY <1>1 DEF Drops
<1>4. \A k \in DOMAIN a.requests \ DOMAIN h.requests : Covered(h, a.requests[k])
  BY <1>1, <1>3, FoldedAreCovered
<1>5. \A d \in DOMAIN a.deliveries \ DOMAIN h.deliveries :
        a.deliveries[d].status # None /\ Attested(h, a.deliveries[d])
  BY <1>1, DroppedAreAttested
<1>6. ASSUME NEW r \in DOMAIN h.records PROVE Baseline(h, r).through <= h.records[r].revision
  <2>0. h.records[r].revision \in Nat
    BY <1>1 DEF Good, Whole, Formed
  <2>1. CASE r \in DOMAIN h.baselines
    <3>1. SoundBaseline(h, r) /\ Baseline(h, r) = h.baselines[r]
      BY <1>1, <2>1 DEF Good, Sound, Baseline
    <3> QED BY <3>1 DEF SoundBaseline
  <2>2. CASE r \notin DOMAIN h.baselines
    BY <2>0, <2>2 DEF Baseline, NoBaseline
  <2> QED BY <2>1, <2>2
<1>7. \A g \in DOMAIN a.grants \ DOMAIN h.grants :
            Expired(a, h, g) /\ \A k \in DOMAIN h.requests : h.requests[k].grant # g
  BY <1>2, <1>3 DEF Expired
<1>8. a.lastTime <= h.lastTime
  BY <1>3 DEF Good, Whole, Formed
<1>9. Thinned(a, h)
  BY <1>2, <1>3, <1>4, <1>5, <1>6, <1>7, <1>8 DEF Thinned
<1> QED BY <1>9 DEF h

LEMMA StagedThinned ==
    ASSUME NEW a, Good(a)
    PROVE  LET b == IF ShouldCompact(a) THEN Compact(a) ELSE a IN Thinned(a, b) /\ Good(b)
<1>1. Thinned(a, Compact(a)) /\ Good(Compact(a))
  BY CompactThinned, CompactIsClean DEF Clean
<1>2. ASSUME NEW r \in DOMAIN a.records PROVE Baseline(a, r).through <= a.records[r].revision
  <2>0. a.records[r].revision \in Nat
    BY DEF Good, Whole, Formed
  <2>1. CASE r \in DOMAIN a.baselines
    <3>1. SoundBaseline(a, r) /\ Baseline(a, r) = a.baselines[r]
      BY <2>1 DEF Good, Sound, Baseline
    <3> QED BY <3>1 DEF SoundBaseline
  <2>2. CASE r \notin DOMAIN a.baselines
    BY <2>0, <2>2 DEF Baseline, NoBaseline
  <2> QED BY <2>1, <2>2
<1>3. a.lastTime <= a.lastTime
  BY DEF Good, Whole, Formed
<1>4. Thinned(a, a)
  BY <1>2, <1>3 DEF Thinned, Part
<1> QED BY <1>1, <1>4

LEMMA ThinnedLater ==
    ASSUME NEW a, NEW m, NEW n, Whole(a), Whole(m), Whole(n), Thinned(a, m), Like(m, n), m.lastTime <= n.lastTime
    PROVE  Thinned(a, n)
<1>1. a.lastTime \in Nat /\ m.lastTime \in Nat /\ n.lastTime \in Nat
  BY DEF Whole, Formed
<1>2. \A t \in DOMAIN a.tasks \ DOMAIN n.tasks : t \in a.revokedTasks \/ a.tasks[t].expiresAt <= n.lastTime
  <2>1. \A t \in DOMAIN a.tasks : a.tasks[t].expiresAt \in Nat
    BY DEF Whole, Formed
  <2> QED BY <1>1, <2>1 DEF Thinned, Like
<1>3. \A g \in DOMAIN a.grants \ DOMAIN n.grants :
        Expired(a, n, g) /\ \A k \in DOMAIN n.requests : n.requests[k].grant # g
  <2>1. \A g \in DOMAIN a.grants : a.grants[g].spec.expiresAt \in Nat
    BY DEF Whole
  <2> QED BY <1>1, <2>1 DEF Thinned, Like, Expired
<1>4. \A r : Baseline(n, r) = Baseline(m, r)
  BY DEF Like, Baseline
<1>5. /\ \A k \in DOMAIN a.requests \ DOMAIN n.requests : Covered(n, a.requests[k])
      /\ \A r \in DOMAIN n.records : Baseline(n, r).through <= n.records[r].revision
  BY <1>4 DEF Thinned, Like, Covered
<1>6. \A d \in DOMAIN a.deliveries \ DOMAIN n.deliveries :
        a.deliveries[d].status # None /\ Attested(n, a.deliveries[d])
  BY <1>4 DEF Thinned, Like, Attested
<1>7. a.lastTime <= n.lastTime
  BY <1>1 DEF Thinned
<1>8. /\ Part(n.tasks, a.tasks) /\ Part(n.records, a.records) /\ Part(n.grants, a.grants)
      /\ Part(n.requests, a.requests) /\ Part(n.deliveries, a.deliveries)
      /\ a.revokedTasks \cap DOMAIN n.tasks \subseteq n.revokedTasks
      /\ DOMAIN a.tasks # {} => DOMAIN n.tasks # {}
      /\ \A r \in DOMAIN a.records \ DOMAIN n.records : a.records[r].deleted
  BY DEF Thinned, Like
<1> QED BY <1>2, <1>3, <1>5, <1>6, <1>7, <1>8 DEF Thinned

LEMMA ThinnedBefore ==
    ASSUME NEW z, NEW a, NEW m, Whole(z), Whole(a), Whole(m), Like(z, a), z.lastTime <= a.lastTime, Thinned(a, m)
    PROVE  Thinned(z, m)
<1>1. z.lastTime <= m.lastTime
  <2>1. z.lastTime \in Nat /\ a.lastTime \in Nat /\ m.lastTime \in Nat
    BY Zenon DEF Whole, Formed
  <2>2. a.lastTime <= m.lastTime
    BY Zenon DEF Thinned
  <2> QED BY <2>1, <2>2
<1>2. /\ z.tasks = a.tasks /\ z.records = a.records /\ z.grants = a.grants /\ z.requests = a.requests
      /\ z.deliveries = a.deliveries /\ z.revokedTasks = a.revokedTasks
  BY DEF Like
<1> QED BY <1>1, <1>2 DEF Thinned, Expired

-----------------------------------------------------------------------------
(* What an operation adds to the value it is performed on; n is the        *)
(* identifier it may draw.                                                 *)

Adds(m, c, n) ==
    /\ Part(m.tasks, c.tasks) /\ m.revokedTasks \subseteq c.revokedTasks
    /\ \A r \in DOMAIN m.records : r \in DOMAIN c.records /\ RecordFollows(m, c, r)
    /\ DOMAIN c.records \subseteq DOMAIN m.records \cup {n}
    /\ \A g \in DOMAIN m.grants : g \in DOMAIN c.grants /\ GrantFollows(m, c, g)
    /\ DOMAIN c.grants \subseteq DOMAIN m.grants \cup {n}
    /\ Part(m.requests, c.requests)
    /\ \A k \in DOMAIN c.requests \ DOMAIN m.requests : c.requests[k].grant \in DOMAIN m.grants \cup {n, None}
    /\ \A d \in DOMAIN m.deliveries : d \in DOMAIN c.deliveries /\ DeliveryFollows(m, c, d)
    /\ DOMAIN c.deliveries \subseteq DOMAIN m.deliveries \cup {n}
    /\ c.baselines = m.baselines /\ m.lastTime <= c.lastTime

\* The next image follows from the last one, unless the call used an identifier
\* again that compaction had just dropped.
LEMMA AddsFollow ==
    ASSUME NEW a, NEW m, NEW c, NEW n, Clean(a), Whole(m), Thinned(a, m), Adds(m, c, n), Clean(c),
           n \notin DOMAIN a.records, n \notin DOMAIN a.grants, n \notin DOMAIN a.deliveries,
           None \notin DOMAIN a.grants, c.generation = a.generation + 1,
           \A k \in DOMAIN a.requests \cap DOMAIN c.requests : a.requests[k] = c.requests[k],
           \A t \in DOMAIN a.tasks \cap DOMAIN c.tasks : a.tasks[t] = c.tasks[t],
           \A t \in a.revokedTasks : t \notin DOMAIN c.tasks \ c.revokedTasks
    PROVE  Transition(a, c)
<1>1. /\ \A r \in DOMAIN c.records : c.records[r].task \in DOMAIN c.tasks
      /\ \A g \in DOMAIN c.grants :
            c.grants[g].record \in DOMAIN c.records /\ c.grants[g].issuerTask \in DOMAIN c.tasks
      /\ \A d \in DOMAIN c.deliveries :
            c.deliveries[d].record \in DOMAIN c.records /\ c.deliveries[d].task \in DOMAIN c.tasks
      /\ \A k \in DOMAIN c.requests : k.task \in DOMAIN c.tasks /\ c.requests[k].record \in DOMAIN c.records
  BY GoodNames DEF Clean
<1>2. /\ m.lastTime \in Nat /\ c.lastTime \in Nat /\ m.lastTime <= c.lastTime
      /\ \A t \in DOMAIN a.tasks : a.tasks[t].expiresAt \in Nat
      /\ \A g \in DOMAIN a.grants : a.grants[g].spec.expiresAt \in Nat
  BY DEF Clean, Good, Whole, Formed, Adds
<1>3. ASSUME NEW t \in DOMAIN a.tasks PROVE TaskFollows(a, c, t)
  <2>1. CASE t \in DOMAIN c.tasks
    BY <2>1 DEF TaskFollows
  <2>2. CASE t \notin DOMAIN c.tasks
    <3>1. t \notin DOMAIN m.tasks
      BY <2>2 DEF Adds, Part
    <3>2. a.tasks[t].expiresAt <= c.lastTime \/ t \in a.revokedTasks
      BY <1>2, <3>1 DEF Thinned
    <3>3. ~Referenced(c, t)
      BY <1>1, <2>2 DEF Referenced, Values
    <3> QED BY <2>2, <3>2, <3>3 DEF TaskFollows
  <2> QED BY <2>1, <2>2
<1>4. ASSUME NEW r \in DOMAIN a.records PROVE RecordFollows(a, c, r)
  <2>1. CASE r \in DOMAIN c.records
    <3>1. r \in DOMAIN m.records /\ a.records[r] = m.records[r] /\ RecordFollows(m, c, r)
      BY <2>1 DEF Adds, Thinned, Part
    <3> QED BY <2>1, <3>1 DEF RecordFollows
  <2>2. CASE r \notin DOMAIN c.records
    <3>1. r \notin DOMAIN m.records
      BY <2>2 DEF Adds
    <3>2. a.records[r].deleted
      BY <3>1 DEF Thinned
    <3> QED BY <1>1, <2>2, <3>2 DEF RecordFollows, Values, Receipts
  <2> QED BY <2>1, <2>2
<1>5. ASSUME NEW g \in DOMAIN a.grants PROVE GrantFollows(a, c, g)
  <2>1. CASE g \in DOMAIN c.grants
    <3>1. g \in DOMAIN m.grants /\ a.grants[g] = m.grants[g] /\ GrantFollows(m, c, g)
      BY <2>1 DEF Adds, Thinned, Part
    <3> QED BY <2>1, <3>1 DEF GrantFollows
  <2>2. CASE g \notin DOMAIN c.grants
    <3>1. g \notin DOMAIN m.grants
      BY <2>2 DEF Adds
    <3>2. /\ a.grants[g].revoked \/ a.grants[g].spec.expiresAt <= m.lastTime
          /\ \A k \in DOMAIN m.requests : m.requests[k].grant # g
      BY <3>1 DEF Thinned, Expired
    <3>3. \A k \in DOMAIN c.requests : c.requests[k].grant # g
      BY <3>1, <3>2 DEF Adds, Part
    <3> QED BY <1>2, <2>2, <3>2, <3>3 DEF GrantFollows, Values
  <2> QED BY <2>1, <2>2
<1>6. \A r : Baseline(c, r) = Baseline(m, r)
  BY DEF Adds, Baseline
<1>7. ASSUME NEW k \in DOMAIN a.requests PROVE ReceiptFollows(a, c, k)
  <2>1. CASE k \in DOMAIN c.requests
    BY <2>1 DEF ReceiptFollows
  <2>2. CASE k \notin DOMAIN c.requests
    <3> DEFINE r == a.requests[k].record
    <3>1. k \notin DOMAIN m.requests
      BY <2>2 DEF Adds, Part
    <3>2. Covered(m, a.requests[k])
      BY <3>1 DEF Thinned
    <3>3. r \in DOMAIN a.records
      BY GoodNames DEF Clean
    <3>4. CASE r \in DOMAIN m.records
      <4>1. a.requests[k].revision <= Baseline(m, r).through /\ Baseline(m, r).through <= m.records[r].revision
            /\ m.records[r] = a.records[r]
        BY <3>2, <3>4 DEF Covered, Thinned, Part
      <4> QED BY <1>6, <2>2, <3>3, <4>1 DEF ReceiptFollows
    <3>5. CASE r \notin DOMAIN m.records
      <4>1. a.records[r].deleted /\ r \notin DOMAIN c.records
        BY <3>3, <3>5 DEF Thinned, Adds
      <4> QED BY <2>2, <4>1 DEF ReceiptFollows
    <3> QED BY <3>4, <3>5
  <2> QED BY <2>1, <2>2
<1>8. ASSUME NEW d \in DOMAIN a.deliveries PROVE DeliveryFollows(a, c, d)
  <2>1. CASE d \in DOMAIN c.deliveries
    <3>1. d \in DOMAIN m.deliveries /\ a.deliveries[d] = m.deliveries[d] /\ DeliveryFollows(m, c, d)
      BY <2>1 DEF Adds, Thinned, Part
    <3> QED BY <2>1, <3>1 DEF DeliveryFollows
  <2>2. CASE d \notin DOMAIN c.deliveries
    <3> DEFINE o == a.deliveries[d]
    <3>1. d \notin DOMAIN m.deliveries
      BY <2>2 DEF Adds
    <3>2. o.status # None /\ Attested(m, o)
      BY <3>1 DEF Thinned
    <3>3. o.record \in DOMAIN a.records
      BY GoodNames DEF Clean
    <3>4. o.record \in DOMAIN c.records => o.record \in DOMAIN m.records
      BY <3>3 DEF Adds
    <3>5. o.record \in DOMAIN c.records => ~SealsLogin(c, o)
      BY DEF Clean, Good, Lasting, SealsLogin
    <3> HIDE DEF o
    <3>6. SealsRegister(o) /\ o.record \in DOMAIN c.records => Baseline(c, o.record).registrationDispatched
      BY <1>6, <3>2, <3>4 DEF Attested
    <3> QED BY <2>2, <3>2, <3>5, <3>6 DEF DeliveryFollows, o
  <2> QED BY <2>1, <2>2
<1>9. DOMAIN a.tasks # {} => DOMAIN c.tasks # {}
  BY DEF Thinned, Adds, Part
<1> QED BY <1>3, <1>4, <1>5, <1>7, <1>8, <1>9 DEF Transition

-----------------------------------------------------------------------------
(* What each operation adds.                                               *)

LEMMA AddsLike ==
    ASSUME NEW m, NEW c, NEW n, Whole(m), Like(m, c), m.lastTime <= c.lastTime
    PROVE  Adds(m, c, n)
<1>1. ASSUME NEW r \in DOMAIN m.records PROVE r \in DOMAIN c.records /\ RecordFollows(m, c, r)
  <2>1. m.records[r].revision \in Nat /\ m.records[r].secretVersion \in Nat
    BY DEF Whole, Formed
  <2>2. c.records = m.records
    BY DEF Like
  <2> QED BY <2>1, <2>2 DEF RecordFollows
<1>2. ASSUME NEW g \in DOMAIN m.grants PROVE g \in DOMAIN c.grants /\ GrantFollows(m, c, g)
  <2>1. c.grants = m.grants
    BY DEF Like
  <2>2. g \in DOMAIN c.grants /\ c.grants[g] = m.grants[g]
    BY <2>1
  <2> QED BY <2>2 DEF GrantFollows
<1>3. ASSUME NEW d \in DOMAIN m.deliveries PROVE d \in DOMAIN c.deliveries /\ DeliveryFollows(m, c, d)
  <2>1. d \in DOMAIN c.deliveries /\ c.deliveries[d] = m.deliveries[d]
    BY DEF Like
  <2> QED BY <2>1 DEF DeliveryFollows
<1>4. /\ c.tasks = m.tasks /\ c.requests = m.requests /\ c.revokedTasks = m.revokedTasks
      /\ c.baselines = m.baselines
      /\ DOMAIN c.records = DOMAIN m.records /\ DOMAIN c.grants = DOMAIN m.grants
      /\ DOMAIN c.deliveries = DOMAIN m.deliveries
  BY DEF Like
<1> QED BY <1>1, <1>2, <1>3, <1>4 DEF Adds, Part

LEMMA AddsThen ==
    ASSUME NEW m, NEW c, NEW e, NEW n, Adds(m, c, n), Like(c, e), c.lastTime <= e.lastTime,
           m.lastTime \in Nat, c.lastTime \in Nat, e.lastTime \in Nat
    PROVE  Adds(m, e, n)
<1>1. /\ e.tasks = c.tasks /\ e.records = c.records /\ e.grants = c.grants /\ e.requests = c.requests
      /\ e.deliveries = c.deliveries /\ e.revokedTasks = c.revokedTasks /\ e.baselines = c.baselines
  BY DEF Like
<1>2. m.lastTime <= e.lastTime
  BY DEF Adds
<1>3. ASSUME NEW r \in DOMAIN m.records PROVE r \in DOMAIN e.records /\ RecordFollows(m, e, r)
  <2>1. r \in DOMAIN c.records /\ RecordFollows(m, c, r)
    BY DEF Adds
  <2> QED BY <1>1, <2>1 DEF RecordFollows
<1>4. ASSUME NEW g \in DOMAIN m.grants PROVE g \in DOMAIN e.grants /\ GrantFollows(m, e, g)
  <2>1. g \in DOMAIN c.grants /\ GrantFollows(m, c, g)
    BY DEF Adds
  <2> QED BY <1>1, <2>1 DEF GrantFollows
<1>5. ASSUME NEW d \in DOMAIN m.deliveries PROVE d \in DOMAIN e.deliveries /\ DeliveryFollows(m, e, d)
  <2>1. d \in DOMAIN c.deliveries /\ DeliveryFollows(m, c, d)
    BY DEF Adds
  <2> QED BY <1>1, <2>1 DEF DeliveryFollows
<1> QED BY <1>1, <1>2, <1>3, <1>4, <1>5 DEF Adds

Entire(c) == c = [f \in AppFields |-> c[f]]

LEMMA AuditAdds ==
    ASSUME NEW m, NEW c, NEW n, NEW e, Formed(m), Entire(c), c.lastTime \in Nat, Adds(m, c, n)
    PROVE  Adds(m, Audit(c, e), n)
<1> DEFINE f == Audit(c, e)
<1>1. Like(c, f) /\ f.lastTime = c.lastTime
  BY DEF Audit, Entire, AppFields, Like
<1> HIDE DEF f
<1>2. m.lastTime \in Nat /\ c.lastTime \in Nat /\ f.lastTime \in Nat /\ c.lastTime <= f.lastTime
  BY <1>1 DEF Formed
<1>3. Adds(m, f, n)
  BY <1>1, <1>2, AddsThen
<1> QED BY <1>3 DEF f

LEMMA ApproveAdds ==
    ASSUME NEW m, Whole(m), NEW id, NEW t, NEW n, id \notin DOMAIN m.tasks
    PROVE  Adds(m, ApproveTask(m, id, t), n)
<1> DEFINE c == ApproveTask(m, id, t)
<1>1. Formed(m)
  BY DEF Whole
<1>2. c.tasks = Inserted(m.tasks, id, t) /\ c.records = m.records /\ c.grants = m.grants
      /\ c.requests = m.requests /\ c.deliveries = m.deliveries /\ c.revokedTasks = m.revokedTasks
      /\ c.baselines = m.baselines /\ c.lastTime = m.lastTime
  BY <1>1 DEF ApproveTask, Formed, AppFields
<1> HIDE DEF c
<1>3. Part(m.tasks, c.tasks)
  <2>1. Extends(m.tasks, c.tasks, id, t)
    BY <1>2, InsertedIs
  <2> QED BY <2>1 DEF Extends, Part
<1>4. Adds(m, m, n)
  <2>1. Like(m, m) /\ m.lastTime <= m.lastTime
    BY <1>1 DEF Like, Formed
  <2> QED BY <2>1, AddsLike
<1>5. Adds(m, c, n)
  BY <1>2, <1>3, <1>4 DEF Adds, RecordFollows, GrantFollows, DeliveryFollows
<1> QED BY <1>5 DEF c

LEMMA RevokeAdds ==
    ASSUME NEW m, Whole(m), NEW id, NEW n
    PROVE  Adds(m, RevokeTask(m, id), n)
<1> DEFINE c == RevokeTask(m, id)
<1>1. Formed(m)
  BY DEF Whole
<1>2. c.tasks = m.tasks /\ c.records = m.records /\ c.grants = m.grants
      /\ c.requests = m.requests /\ c.deliveries = m.deliveries /\ m.revokedTasks \subseteq c.revokedTasks
      /\ c.baselines = m.baselines /\ c.lastTime = m.lastTime
  BY <1>1 DEF RevokeTask, Formed, AppFields
<1> HIDE DEF c
<1>3. Adds(m, m, n)
  <2>1. Like(m, m) /\ m.lastTime <= m.lastTime
    BY <1>1 DEF Like, Formed
  <2> QED BY <2>1, AddsLike
<1>4. Adds(m, c, n)
  BY <1>2, <1>3 DEF Adds, RecordFollows, GrantFollows, DeliveryFollows
<1> QED BY <1>4 DEF c

\* Another signup is no other record.
LEMMA SignsFollow ==
    ASSUME NEW m, NEW c, NEW rid, NEW state, Whole(m), Signs(m, c, rid, state)
    PROVE  DOMAIN c.records = DOMAIN m.records /\ \A r \in DOMAIN m.records : RecordFollows(m, c, r)
<1>1. DOMAIN c.records = DOMAIN m.records
  BY DEF Signs
<1>2. ASSUME NEW r \in DOMAIN m.records PROVE RecordFollows(m, c, r)
  <2>1. /\ DOMAIN m.records[r] = RecordFields
        /\ m.records[r].revision \in Nat /\ m.records[r].secretVersion \in Nat
    BY DEF Whole, Formed
  <2>2. c.records[r] = m.records[r] \/ c.records[r] = [m.records[r] EXCEPT !.signup = state]
    BY DEF Signs
  <2> DEFINE s == c.records[r]
             o == m.records[r]
  <2>3. /\ s.createdBy = o.createdBy /\ s.task = o.task /\ s.site = o.site /\ s.kind = o.kind
        /\ s.revision = o.revision /\ s.secretVersion = o.secretVersion
        /\ s.deleted = o.deleted /\ s.restored = o.restored /\ s.fields = o.fields
    BY <2>1, <2>2 DEF RecordFields
  <2> HIDE DEF s, o
  <2>4. o.revision <= s.revision /\ o.secretVersion <= s.secretVersion
    BY <2>1, <2>3 DEF o
  <2> QED BY <1>1, <2>3, <2>4 DEF RecordFollows, s, o
<1> QED BY <1>1, <1>2

\* A step of a private use: the attempts go on, and the signup of its record.
LEMMA DeliversAdds ==
    ASSUME NEW m, NEW c, NEW n, NEW rid, NEW state, Whole(m), Signs(m, c, rid, state),
           c.tasks = m.tasks, c.grants = m.grants, c.requests = m.requests, c.baselines = m.baselines,
           c.revokedTasks = m.revokedTasks, c.lastTime = m.lastTime,
           DOMAIN c.deliveries \subseteq DOMAIN m.deliveries \cup {n},
           \A d \in DOMAIN m.deliveries : d \in DOMAIN c.deliveries /\ DeliveryFollows(m, c, d)
    PROVE  Adds(m, c, n)
<1>1. DOMAIN c.records = DOMAIN m.records /\ \A r \in DOMAIN m.records : RecordFollows(m, c, r)
  BY SignsFollow
<1>2. \A g \in DOMAIN m.grants : GrantFollows(m, c, g)
  BY DEF GrantFollows
<1>3. m.lastTime <= c.lastTime
  BY DEF Whole, Formed
<1> QED BY <1>1, <1>2, <1>3 DEF Adds, Part

LEMMA IntendAdds ==
    ASSUME NEW m, Whole(m), NEW ctx, NEW tid, NEW rid, NEW request, NEW use, NEW at, fresh \notin DOMAIN m.deliveries
    PROVE  Adds(m, Intend(m, ctx, tid, rid, request, use, at), fresh)
<1> DEFINE c == Intend(m, ctx, tid, rid, request, use, at)
           attempt == [task |-> tid, record |-> rid, version |-> m.records[rid].secretVersion,
                       destination |-> use.destination, fields |-> use.fields, status |-> None,
                       key |-> RequestKey(ctx, tid, request), action |-> use.action,
                       dispatched |-> TRUE, at |-> at]
           deliveries == Inserted(m.deliveries, fresh, attempt)
           b == [m EXCEPT !.deliveries = deliveries]
<1>1. c = IF use.action = "register" THEN SetSignup(b, rid, "submitted") ELSE b
  BY DEF Intend
<1> HIDE DEF attempt
<1>2. Extends(m.deliveries, deliveries, fresh, attempt)
  BY InsertedIs
<1> HIDE DEF deliveries, c
<1>3. /\ b.lastTime = m.lastTime /\ b.tasks = m.tasks /\ b.records = m.records /\ b.grants = m.grants
      /\ b.requests = m.requests /\ b.deliveries = deliveries /\ b.baselines = m.baselines
      /\ b.revokedTasks = m.revokedTasks /\ b = [f \in AppFields |-> b[f]]
  BY DEF Whole, Formed, AppFields
<1> HIDE DEF b
<1>4. /\ c.lastTime = m.lastTime /\ c.tasks = m.tasks /\ c.grants = m.grants
      /\ c.requests = m.requests /\ c.deliveries = deliveries /\ c.baselines = m.baselines
      /\ c.revokedTasks = m.revokedTasks
      /\ c.records = m.records \/ c.records = [m.records EXCEPT ![rid].signup = "submitted"]
  BY <1>1, <1>3 DEF SetSignup, AppFields
<1>5. Signs(m, c, rid, "submitted")
  BY <1>4 DEF Signs
<1>6. ASSUME NEW d \in DOMAIN m.deliveries PROVE d \in DOMAIN c.deliveries /\ DeliveryFollows(m, c, d)
  <2>1. d \in DOMAIN c.deliveries /\ c.deliveries[d] = m.deliveries[d]
    BY <1>2, <1>4 DEF Extends
  <2> QED BY <2>1 DEF DeliveryFollows
<1>7. DOMAIN c.deliveries \subseteq DOMAIN m.deliveries \cup {fresh}
  BY <1>2, <1>4 DEF Extends
<1>8. Adds(m, c, fresh)
  BY <1>4, <1>5, <1>6, <1>7, DeliversAdds
<1> QED BY <1>8 DEF c

LEMMA RefusedAdds ==
    ASSUME NEW m, Whole(m), NEW id, NEW rid, NEW n, NEW c, id \in DOMAIN m.deliveries, m.deliveries[id].status = None,
           c = Refused(m, id) \/ c = SetSignup(Refused(m, id), rid, "pending")
    PROVE  Adds(m, c, n)
<1> DEFINE b == Refused(m, id)
<1>1. Formed(m) /\ \A d \in DOMAIN m.deliveries : DOMAIN m.deliveries[d] = AttemptFields
  BY DEF Whole, Formed
<1>2. /\ b = [f \in AppFields |-> b[f]] /\ b.lastTime = m.lastTime
      /\ b.tasks = m.tasks /\ b.grants = m.grants /\ b.requests = m.requests
      /\ b.records = m.records /\ b.baselines = m.baselines /\ b.revokedTasks = m.revokedTasks
      /\ b.deliveries = [m.deliveries EXCEPT ![id].dispatched = FALSE, ![id].status = "rejected"]
  BY <1>1 DEF Refused, Formed, AppFields
<1> HIDE DEF b
<1>3. /\ c.lastTime = m.lastTime /\ c.tasks = m.tasks /\ c.grants = m.grants /\ c.requests = m.requests
      /\ c.baselines = m.baselines /\ c.revokedTasks = m.revokedTasks /\ c.deliveries = b.deliveries
      /\ (c.records = m.records \/ c.records = [m.records EXCEPT ![rid].signup = "pending"])
  <2>1. CASE c = b
    BY <1>2, <2>1
  <2>2. CASE c = SetSignup(b, rid, "pending")
    <3>1. c = [b EXCEPT !.records[rid].signup = "pending"]
      BY <2>2 DEF SetSignup
    <3> QED BY <1>2, <3>1 DEF AppFields
  <2>3. c = b \/ c = SetSignup(b, rid, "pending")
    BY Zenon DEF b
  <2> QED BY <2>1, <2>2, <2>3
<1>4. Signs(m, c, rid, "pending")
  BY <1>3 DEF Signs
<1>5. DOMAIN c.deliveries = DOMAIN m.deliveries
  BY <1>2, <1>3
<1>6. ASSUME NEW d \in DOMAIN m.deliveries PROVE DeliveryFollows(m, c, d)
  <2>1. CASE d = id
    <3>1. /\ DOMAIN m.deliveries[d] = AttemptFields /\ m.deliveries[d].status = None
          /\ c.deliveries[d] = [m.deliveries[d] EXCEPT !.dispatched = FALSE, !.status = "rejected"]
      BY <1>1, <1>2, <1>3, <2>1
    <3>2. \A f \in DOMAIN m.deliveries[d] \ {"status", "dispatched"} : c.deliveries[d][f] = m.deliveries[d][f]
      BY <3>1
    <3> QED BY <1>5, <3>1, <3>2 DEF DeliveryFollows
  <2>2. CASE d # id
    <3>1. c.deliveries[d] = m.deliveries[d]
      BY <1>2, <1>3, <2>2
    <3> QED BY <1>5, <3>1 DEF DeliveryFollows
  <2> QED BY <2>1, <2>2
<1> QED BY <1>3, <1>4, <1>5, <1>6, DeliversAdds

LEMMA CompletedAdds ==
    ASSUME NEW m, Whole(m), NEW id, NEW rid, NEW n, NEW status, NEW signup, id \in DOMAIN m.deliveries,
           m.deliveries[id].status = None, signup # "verified_login"
    PROVE  Adds(m, Completed(m, id, status, rid, signup), n)
<1> DEFINE c == Completed(m, id, status, rid, signup)
<1>1. Formed(m) /\ \A d \in DOMAIN m.deliveries : DOMAIN m.deliveries[d] = AttemptFields
  BY DEF Whole, Formed
<1>2. /\ c.lastTime = m.lastTime
      /\ c.tasks = m.tasks /\ c.grants = m.grants /\ c.requests = m.requests
      /\ c.baselines = m.baselines /\ c.revokedTasks = m.revokedTasks
      /\ c.records = [m.records EXCEPT ![rid].signup = signup]
      /\ c.deliveries = [m.deliveries EXCEPT ![id].status = status]
  BY <1>1 DEF Formed, AppFields, Completed
<1> HIDE DEF c
<1>3. Signs(m, c, rid, signup)
  BY <1>2 DEF Signs
<1>4. DOMAIN c.deliveries = DOMAIN m.deliveries
  BY <1>2
<1>5. ASSUME NEW d \in DOMAIN m.deliveries PROVE DeliveryFollows(m, c, d)
  <2>1. CASE d = id
    <3>1. /\ DOMAIN m.deliveries[d] = AttemptFields /\ m.deliveries[d].status = None
          /\ c.deliveries[d] = [m.deliveries[d] EXCEPT !.status = status]
      BY <1>1, <1>2, <2>1
    <3>2. \A f \in DOMAIN m.deliveries[d] \ {"status", "dispatched"} : c.deliveries[d][f] = m.deliveries[d][f]
      BY <3>1
    <3> QED BY <1>4, <3>1, <3>2 DEF DeliveryFollows
  <2>2. CASE d # id
    <3>1. c.deliveries[d] = m.deliveries[d]
      BY <1>2, <2>2
    <3> QED BY <1>4, <3>1 DEF DeliveryFollows
  <2> QED BY <2>1, <2>2
<1>6. Adds(m, c, n)
  BY <1>2, <1>3, <1>4, <1>5, DeliversAdds
<1> QED BY <1>6 DEF c

\* A mutation issues the grant it shares; other grants stay, or end.
LEMMA MutatedGrantsFollow ==
    ASSUME NEW m, NEW c, NEW ctx, NEW tid, NEW op, NEW new, c.grants = MutatedGrants(m, ctx, tid, op, new),
           op.op = "share" => new \notin DOMAIN m.grants
    PROVE  /\ DOMAIN c.grants \subseteq DOMAIN m.grants \cup {new}
           /\ \A g \in DOMAIN m.grants : g \in DOMAIN c.grants /\ GrantFollows(m, c, g)
<1>1. ASSUME NEW g \in DOMAIN m.grants
      PROVE  g \in DOMAIN c.grants /\ c.grants[g] \in {m.grants[g], [m.grants[g] EXCEPT !.revoked = TRUE]}
  <2>1. CASE op.op = "share"
    <3>1. PICK grant : c.grants = Inserted(m.grants, new, grant)
      BY <2>1, Zenon DEF MutatedGrants
    <3>2. Extends(m.grants, c.grants, new, grant)
      BY <2>1, <3>1, InsertedIs
    <3> QED BY <3>2 DEF Extends
  <2>2. CASE op.op = "revoke"
    <3>1. c.grants = [m.grants EXCEPT ![op.grant].revoked = TRUE]
      BY <2>2 DEF MutatedGrants
    <3> QED BY <3>1
  <2>3. CASE op.op = "delete"
    <3>1. c.grants = [x \in DOMAIN m.grants |->
              IF m.grants[x].record = op.record THEN [m.grants[x] EXCEPT !.revoked = TRUE] ELSE m.grants[x]]
      BY <2>3 DEF MutatedGrants
    <3> QED BY <3>1
  <2>4. CASE op.op \notin {"share", "revoke", "delete"}
    <3>1. c.grants = m.grants
      BY <2>4 DEF MutatedGrants
    <3> QED BY <3>1
  <2> QED BY <2>1, <2>2, <2>3, <2>4
<1>2. DOMAIN c.grants \subseteq DOMAIN m.grants \cup {new}
  BY DEF MutatedGrants, Inserted
<1> QED BY <1>1, <1>2 DEF GrantFollows

\* A mutation of a live record makes a revision of it.
LEMMA ChangedAdds ==
    ASSUME NEW m, Clean(m), NEW ctx, NEW tid, NEW request, NEW op, NEW at, NEW new, op.op \in MutatedKinds,
           Admissible(m, ctx, tid, request, op, at, new)
    PROVE  LET c == Changed(m, ctx, tid, request, op, at, new) IN
           Adds(m, c, new) /\ Entire(c) /\ c.lastTime = m.lastTime
<1> DEFINE c == Changed(m, ctx, tid, request, op, at, new)
           key == RequestKey(ctx, tid, request)
           rid == op.record
           r == m.records[rid]
           s == MutatedRecord(r, op)
<1>1. /\ key \notin DOMAIN m.requests /\ Authorize(m, ctx, tid, op, at, FALSE)
      /\ op.op = "share" => new \notin DOMAIN m.grants
  BY DEF Admissible
<1>2. /\ rid \in DOMAIN m.records /\ ~r.deleted
      /\ op.op = "report" => MayReport(m, ctx, tid, op, at)
      /\ op.op = "revoke" => MayRevoke(m, ctx, tid, op, at)
  BY <1>1, AuthorizedIs
<1>3. /\ Formed(m) /\ DOMAIN r = RecordFields /\ r.signup # "verified_login"
      /\ r.deleted \in BOOLEAN /\ r.secretVersion \in Nat
  BY <1>2 DEF Clean, Good, Whole, Formed, Lasting
<1>4. op.op # "create" /\ op.op \in {"patch", "delete", "report", "share", "revoke"}
  BY DEF MutatedKinds
<1>5. /\ c = [f \in AppFields |-> c[f]]
      /\ c.tasks = m.tasks /\ c.revokedTasks = m.revokedTasks /\ c.deliveries = m.deliveries
      /\ c.baselines = m.baselines /\ c.audit = m.audit
      /\ c.lastTime = m.lastTime /\ c.clockFrozen = m.clockFrozen
      /\ c.records = [m.records EXCEPT ![rid] = s]
      /\ c.grants = MutatedGrants(m, ctx, tid, op, new)
      /\ Extends(m.requests, c.requests, key, c.requests[key])
      /\ ReceiptOf(c.requests[key], op, new, s.revision, at)
  BY <1>1, <1>2, <1>3, <1>4, ChangedIs
<1>6. /\ DOMAIN s = RecordFields
      /\ s.createdBy = r.createdBy /\ s.task = r.task /\ s.site = r.site /\ s.kind = r.kind
      /\ s.revision = r.revision + 1
      /\ s.secretVersion = r.secretVersion + (IF CachedKind(op) = "patch" THEN 1 ELSE 0)
      /\ s.deleted = (op.op = "delete")
      /\ s.signup # "verified_login"
      /\ s.fields = CASE op.op = "patch" -> r.fields \cup op.fields
                      [] op.op = "delete" -> {}
                      [] OTHER -> r.fields
  <2>1. op.op = "report" => op.state # "verified_login"
    BY <1>2 DEF MayReport
  <2> QED BY <1>2, <1>3, <1>4, <2>1, MutatedRecordIs
<1>7. s.restored = r.restored
  <2> HIDE DEF r
  <2> QED BY <1>3, <1>4 DEF MutatedRecord, PatchedRecord, RecordFields
<1> HIDE DEF c, key, s
<1>0. r.revision \in Nat /\ m.lastTime \in Nat
  BY <1>2, <1>3 DEF Formed
<1>8. /\ DOMAIN c.records = DOMAIN m.records /\ c.records[rid] = s
      /\ \A x \in DOMAIN m.records \ {rid} : c.records[x] = m.records[x]
  BY <1>2, <1>5
<1>9. ASSUME NEW x \in DOMAIN m.records PROVE RecordFollows(m, c, x)
  <2>1. CASE x = rid
    <3>1. r.revision <= s.revision /\ r.secretVersion <= s.secretVersion /\ r.revision # s.revision
      BY <1>0, <1>3, <1>6
    <3> QED BY <1>2, <1>6, <1>7, <1>8, <2>1, <3>1 DEF RecordFollows
  <2>2. CASE x # rid
    <3>1. c.records[x] = m.records[x] /\ m.records[x].revision \in Nat /\ m.records[x].secretVersion \in Nat
      BY <1>8, <2>2 DEF Clean, Good, Whole, Formed
    <3> QED BY <1>8, <3>1 DEF RecordFollows
  <2> QED BY <2>1, <2>2
<1>10. /\ DOMAIN c.grants \subseteq DOMAIN m.grants \cup {new}
       /\ \A g \in DOMAIN m.grants : g \in DOMAIN c.grants /\ GrantFollows(m, c, g)
  <2>1. c.grants = MutatedGrants(m, ctx, tid, op, new)
    BY <1>5
  <2>2. op.op = "share" => new \notin DOMAIN m.grants
    BY <1>1
  <2> QED BY <2>1, <2>2, MutatedGrantsFollow, Zenon
<1>11. /\ Part(m.requests, c.requests)
       /\ \A k \in DOMAIN c.requests \ DOMAIN m.requests : k = key
  BY <1>5 DEF Extends, Part
<1>12. c.requests[key].grant \in DOMAIN m.grants \cup {new, None}
  <2>1. c.requests[key].grant = GrantOf(op, new)
    BY <1>5 DEF ReceiptOf
  <2>2. GrantOf(op, new) = new \/ GrantOf(op, new) = None \/ (op.op = "revoke" /\ GrantOf(op, new) = op.grant)
    BY DEF GrantOf
  <2> QED BY <1>2, <2>1, <2>2 DEF MayRevoke
<1>13. \A d \in DOMAIN m.deliveries : d \in DOMAIN c.deliveries /\ DeliveryFollows(m, c, d)
  BY <1>5 DEF DeliveryFollows
<1>14. Adds(m, c, new)
  BY <1>0, <1>5, <1>8, <1>9, <1>10, <1>11, <1>12, <1>13 DEF Adds, Part
<1> QED BY <1>5, <1>14 DEF c, Entire

LEMMA CreationAdds ==
    ASSUME NEW m, Clean(m), NEW c, NEW new, NEW key, NEW ctx, NEW tid, NEW request, NEW op, NEW at, op.op = "create",
           c = Changed(m, ctx, tid, request, op, at, new), key = RequestKey(ctx, tid, request),
           Creation(m, c, new, key, c.requests[key])
    PROVE  Adds(m, c, new) /\ Entire(c) /\ c.lastTime = m.lastTime
<1>0. c = [f \in AppFields |-> c[f]]
  BY DEF Creation
<1>1. /\ c.tasks = m.tasks /\ c.revokedTasks = m.revokedTasks /\ c.deliveries = m.deliveries
      /\ c.baselines = m.baselines /\ c.grants = m.grants /\ c.lastTime = m.lastTime
      /\ Extends(m.records, c.records, new, c.records[new]) /\ new \notin DOMAIN m.records
      /\ Extends(m.requests, c.requests, key, c.requests[key])
  BY DEF Creation
<1>2. ASSUME NEW x \in DOMAIN m.records PROVE x \in DOMAIN c.records /\ RecordFollows(m, c, x)
  <2>1. /\ x \in DOMAIN c.records /\ c.records[x] = m.records[x]
        /\ m.records[x].revision \in Nat /\ m.records[x].secretVersion \in Nat
    BY <1>1 DEF Extends, Clean, Good, Whole, Formed
  <2> QED BY <2>1 DEF RecordFollows
<1>3. c.requests[key].grant = None
  <2> DEFINE rid == Subject(op, new)
             rs == IF op.op = "create"
                   THEN Inserted(m.records, new, NewRecord(m, ctx, tid, op))
                   ELSE [m.records EXCEPT ![rid] = MutatedRecord(@, op)]
             receipt == [fingerprint |-> op, record |-> rid, revision |-> rs[rid].revision,
                         grant |-> GrantOf(op, new), kind |-> CachedKind(op), at |-> at]
             grants == MutatedGrants(m, ctx, tid, op, new)
  <2>0. c = [m EXCEPT !.records = rs, !.grants = grants, !.requests = Inserted(@, key, receipt)]
    BY DEF Changed
  <2>1. receipt.grant = GrantOf(op, new)
    OBVIOUS
  <2> HIDE DEF rs, receipt, grants
  <2>2. c.requests = Inserted(m.requests, key, receipt)
    BY <2>0 DEF Clean, Good, Whole, Formed, AppFields
  <2>3. c.requests[key] = receipt
    BY <2>2 DEF Inserted
  <2> QED BY <2>1, <2>3 DEF GrantOf
<1>4. \A g \in DOMAIN m.grants : GrantFollows(m, c, g)
  BY <1>1 DEF GrantFollows
<1>5. \A d \in DOMAIN m.deliveries : DeliveryFollows(m, c, d)
  BY <1>1 DEF DeliveryFollows
<1>6. Part(m.requests, c.requests) /\ \A k \in DOMAIN c.requests \ DOMAIN m.requests : c.requests[k].grant = None
  BY <1>1, <1>3 DEF Extends, Part
<1>7. DOMAIN c.records = DOMAIN m.records \cup {new} /\ m.lastTime <= c.lastTime
  BY <1>1, SMTT(30) DEF Extends, Clean, Good, Whole, Formed
<1> QED BY <1>0, <1>1, <1>2, <1>4, <1>5, <1>6, <1>7 DEF Adds, Part, Entire

LEMMA MutateAdds ==
    ASSUME NEW m, Clean(m), NEW ctx, NEW tid, NEW request, NEW op, NEW at \in Nat, NEW new,
           op.op = "create" \/ op.op \in MutatedKinds,
           Admissible(m, ctx, tid, request, op, at, new)
    PROVE  Adds(m, Mutate(m, ctx, tid, request, op, at, new), new)
<1> DEFINE c == Changed(m, ctx, tid, request, op, at, new)
           key == RequestKey(ctx, tid, request)
<1>0. Formed(m)
  BY DEF Clean, Good, Whole
<1>1. m.lastTime \in Nat
  BY <1>0 DEF Formed
<1>2. Adds(m, c, new) /\ Entire(c) /\ c.lastTime = m.lastTime
  <2>1. CASE op.op = "create"
    <3>1. Creation(m, c, new, key, c.requests[key])
      BY <1>0, <2>1, CreationIs
    <3> HIDE DEF c, key
    <3>2. c = Changed(m, ctx, tid, request, op, at, new) /\ key = RequestKey(ctx, tid, request)
      BY DEF c, key
    <3> QED BY <2>1, <3>1, <3>2, CreationAdds
  <2>2. CASE op.op \in MutatedKinds
    BY <2>2, ChangedAdds
  <2> QED BY <2>1, <2>2
<1>3. PICK e : Mutate(m, ctx, tid, request, op, at, new) = Audit(c, e)
  BY MutateIs, Zenon
<1> HIDE DEF c
<1> QED BY <1>0, <1>1, <1>2, <1>3, AuditAdds

-----------------------------------------------------------------------------
(* What a call commits: c is made of m, which compaction left of what the  *)
(* vault held.                                                             *)

IsApproved(t) == \E ctx \in Contexts, approval \in Approvals : approval.id = t /\ Approve(ctx, t, approval.task)

Commits(m, c) ==
    /\ Clean(m) /\ Thinned(app, m) /\ Adds(m, c, fresh) /\ Entire(c) /\ c.lastTime \in Nat
    /\ \A t \in DOMAIN c.tasks : TaskCarried(app, c, t) \/ (t \notin DOMAIN m.tasks /\ IsApproved(t))
    /\ app.clockFrozen => c.clockFrozen
    /\ Commit(c)

LEMMA ClockedThinned ==
    ASSUME VaultInv, CleanInv
    PROVE  Thinned(app, Clocked)
<1> DEFINE a == Staged
<1>1. Clean(app) /\ now \in Nat /\ Clean(Clocked)
  BY ClockedClean DEF VaultInv, CleanInv, Shape
<1>2. Thinned(app, a) /\ Good(a)
  BY <1>1, StagedThinned DEF Staged, Clean
<1> HIDE DEF a
<1>3. Like(a, Clock(a, now)) /\ a.lastTime <= Clock(a, now).lastTime
  BY <1>1, <1>2, ClockKeeps DEF Good, Whole
<1>4. Like(a, Clocked) /\ a.lastTime <= Clocked.lastTime
  BY <1>3 DEF Clocked, a
<1> QED BY <1>1, <1>2, <1>4, ThinnedLater DEF Clean, Good

\* A call that works on the value it compacted and clocked.
LEMMA ClockedCommits ==
    ASSUME VaultInv, CleanInv, NEW c, Adds(Clocked, c, fresh), NEW T, NEW N, Stages(c, T, N),
           \A t \in T : t \notin DOMAIN Clocked.tasks /\ IsApproved(t), app.clockFrozen => c.clockFrozen
    PROVE  \E m, d : Commits(m, d)
<1>1. Clean(Clocked) /\ Thinned(app, Clocked)
  BY ClockedClean, ClockedThinned
<1>2. Entire(c) /\ c.lastTime \in Nat /\ Commit(c)
  BY DEF Stages, Formed, Entire
<1>3. \A t \in DOMAIN c.tasks : TaskCarried(app, c, t) \/ (t \notin DOMAIN Clocked.tasks /\ IsApproved(t))
  BY DEF Stages, Carries
<1>4. Commits(Clocked, c)
  BY <1>1, <1>2, <1>3 DEF Commits
<1> QED BY <1>4

\* The end of a private use, which approves nothing.
LEMMA FinishCommits ==
    ASSUME NEW m, NEW c, Clean(m), Thinned(app, m), Adds(m, c, fresh), Entire(c), c.lastTime \in Nat,
           c.tasks = m.tasks, app.clockFrozen => c.clockFrozen, Commit(c)
    PROVE  \E d, e : Commits(d, e)
<1>1. \A t \in DOMAIN c.tasks : TaskCarried(app, c, t)
  BY DEF Thinned, Adds, Part, TaskCarried
<1>2. Commits(m, c)
  BY <1>1 DEF Commits
<1> QED BY <1>2

LEMMA AgentCommits ==
    ASSUME VaultInv, CleanInv, Agent \/ Supervise
    PROVE  \E d, e : Commits(d, e)
<1> DEFINE m == Clocked
<1>1. Clean(m) /\ Whole(m) /\ Effective \in Nat
  BY ClockedClean DEF Clean, Good
<1>2. CASE Observe
  <2>1. Like(m, m) /\ m.lastTime <= m.lastTime
    BY <1>1 DEF Like, Whole, Formed
  <2>2. Adds(m, m, fresh)
    BY <1>1, <2>1, AddsLike
  <2>3. Stages(m, {}, {}) /\ (app.clockFrozen => m.clockFrozen)
    <3>1. Staged.clockFrozen = app.clockFrozen
      BY StagedKeeps DEF Staged, VaultInv, Shape
    <3>2. Staged.clockFrozen => Clocked.clockFrozen
      BY DEF Clocked, Clock, ClockAccepts
    <3> QED BY <1>2, <3>1, <3>2, ObserveStages
  <2> HIDE DEF m
  <2>4. Adds(Clocked, m, fresh)
    BY <2>2 DEF m
  <2> QED BY <2>3, <2>4, ClockedCommits
<1>3. ASSUME NEW ctx \in Contexts, NEW approval \in Approvals, Approve(ctx, approval.id, approval.task)
      PROVE  \E d, e : Commits(d, e)
  <2> DEFINE c == ApproveTask(m, approval.id, approval.task)
  <2>1. approval.id \notin DOMAIN m.tasks
    BY <1>3 DEF Approve, MayApprove
  <2>2. Adds(m, c, fresh)
    BY <1>1, <2>1, ApproveAdds
  <2>3. Stages(c, {approval.id}, {})
    BY <1>3, ApproveStages
  <2>4. ~app.clockFrozen /\ IsApproved(approval.id)
    BY <1>3 DEF Approve, ClockAccepts, IsApproved
  <2> HIDE DEF c
  <2> QED BY <2>1, <2>2, <2>3, <2>4, ClockedCommits
<1>4. ASSUME NEW ctx \in Contexts, NEW tid \in DOMAIN app.tasks, Revoke(ctx, tid)
      PROVE  \E d, e : Commits(d, e)
  <2> DEFINE c == RevokeTask(m, tid)
  <2>1. Adds(m, c, fresh)
    BY <1>1, RevokeAdds
  <2>2. Stages(c, {}, {})
    BY <1>4, RevokeStages
  <2>3. ~app.clockFrozen
    BY <1>4 DEF Revoke, ClockAccepts
  <2> HIDE DEF c
  <2> QED BY <2>1, <2>2, <2>3, ClockedCommits
<1>5. ASSUME NEW ctx \in Contexts, NEW tid \in TasksOf(ctx), NEW op \in Mutations, NEW request \in Requests,
             MutateStep(m, ctx, tid, request, op)
      PROVE  \E d, e : Commits(d, e)
  <2> DEFINE c == Mutate(m, ctx, tid, request, op, Effective, fresh)
  <2>0. tid \in DOMAIN app.tasks
    BY DEF TasksOf
  <2>1. /\ Admissible(m, ctx, tid, request, op, Effective, fresh)
        /\ op.op = "create" \/ op.op \in MutatedKinds
    BY <1>5, <2>0, MutateAdmits
  <2>2. Stages(c, {}, Drawn(op, fresh))
    BY <1>5, <2>0, MutateFacts
  <2>3. Adds(m, c, fresh)
    BY <1>1, <2>1, MutateAdds
  <2>4. ~app.clockFrozen
    BY <1>5 DEF MutateStep, ClockAccepts
  <2> HIDE DEF c
  <2> QED BY <2>2, <2>3, <2>4, ClockedCommits
<1>6. ASSUME NEW ctx \in Contexts, NEW tid \in TasksOf(ctx), NEW rid \in DOMAIN app.records, NEW read \in Reads,
             ReadStep(m, ctx, tid, rid, read)
      PROVE  \E d, e : Commits(d, e)
  <2> DEFINE c == Read(m, tid, rid, Effective)
  <2>0. tid \in DOMAIN app.tasks
    BY DEF TasksOf
  <2>1. Stages(c, {}, {})
    BY <1>6, <2>0, ReadStages
  <2>2. Adds(m, m, fresh)
    <3>1. Like(m, m) /\ m.lastTime <= m.lastTime
      BY <1>1 DEF Like, Whole, Formed
    <3> QED BY <1>1, <3>1, AddsLike
  <2>3. Entire(m) /\ m.lastTime \in Nat /\ Formed(m)
    BY <1>1 DEF Whole, Formed, Entire
  <2> HIDE DEF m
  <2>4. Adds(m, c, fresh)
    BY <2>2, <2>3, AuditAdds DEF Read
  <2>5. ~app.clockFrozen
    BY <1>6 DEF ReadStep, ClockAccepts
  <2> HIDE DEF c
  <2> QED BY <2>1, <2>4, <2>5, ClockedCommits DEF m
<1>7. ASSUME NEW ctx \in Contexts, NEW tid \in TasksOf(ctx), NEW rid \in DOMAIN app.records,
             NEW request \in Requests, NEW use \in Uses, Prepare(m, ctx, tid, rid, request, use)
      PROVE  \E d, e : Commits(d, e)
  <2> DEFINE c == Intend(m, ctx, tid, rid, request, use, Effective)
  <2>1. fresh \notin DOMAIN m.deliveries
    BY ClockedReady
  <2>2. Stages(c, {}, {fresh})
    BY <1>7, PrepareFacts
  <2>3. Adds(m, c, fresh)
    BY <1>1, <2>1, IntendAdds
  <2>4. ~app.clockFrozen
    BY <1>7 DEF Prepare, ClockAccepts
  <2> HIDE DEF c
  <2> QED BY <2>2, <2>3, <2>4, ClockedCommits
<1>8. Agent => Observe
        \/ \E ctx \in Contexts : \E tid \in TasksOf(ctx) :
            \/ \E op \in Mutations, request \in Requests : MutateStep(m, ctx, tid, request, op)
            \/ \E rid \in DOMAIN app.records, read \in Reads : ReadStep(m, ctx, tid, rid, read)
            \/ \E rid \in DOMAIN app.records, request \in Requests, use \in Uses :
                Prepare(m, ctx, tid, rid, request, use)
  BY DEF Agent
<1> HIDE DEF m
<1> QED BY <1>2, <1>3, <1>4, <1>5, <1>6, <1>7, <1>8 DEF Supervise

LEMMA RefuseCommits ==
    ASSUME VaultInv, CleanInv, Refuse
    PROVE  \E d, e : Commits(d, e)
<1> DEFINE a == Clock(app, now)
           m == IF ShouldCompact(a) THEN Compact(a) ELSE a
           b == Refused(m, flight.id)
           c == IF flight.use.action = "register" THEN SetSignup(b, flight.record, "pending") ELSE b
<1>1. /\ Clean(app) /\ Formed(app) /\ Sourced(app, fresh) /\ now \in Nat
      /\ flight.id \in DOMAIN app.deliveries /\ app.deliveries[flight.id].status = None
  BY DEF CleanInv, VaultInv, Shape, Refuse, InFlight
<1>2. Commit(c)
  BY DEF Refuse, Refused, Finish
<1>3. Clean(a) /\ Sourced(a, fresh) /\ Like(app, a) /\ app.lastTime <= a.lastTime
  BY <1>1, ClockClean, ClockSourced, ClockKeeps
<1>4. a.deliveries = app.deliveries
  BY <1>3 DEF Like
<1> HIDE DEF a
<1>5. Clean(m) /\ flight.id \in DOMAIN m.deliveries /\ m.deliveries[flight.id].status = None
  <2>1. /\ Clean(m)
        /\ \A d \in DOMAIN a.deliveries : a.deliveries[d].status = None =>
                d \in DOMAIN m.deliveries /\ m.deliveries[d] = a.deliveries[d]
    BY <1>3, StagedClean
  <2> HIDE DEF m
  <2> QED BY <1>1, <1>4, <2>1
<1>6. Thinned(a, m)
  BY <1>3, StagedThinned DEF Clean
<1>13. app.clockFrozen => m.clockFrozen
  <2>1. m.clockFrozen = a.clockFrozen
    BY <1>3, StagedClean
  <2>2. app.clockFrozen => a.clockFrozen
    BY DEF Clock, ClockAccepts, a
  <2> QED BY <2>1, <2>2
<1> HIDE DEF m
<1>7. Whole(app) /\ Whole(a) /\ Whole(m)
  BY <1>1, <1>3, <1>5 DEF Clean, Good
<1>8. Thinned(app, m)
  BY <1>3, <1>6, <1>7, ThinnedBefore
<1>9. c = b \/ c = SetSignup(b, flight.record, "pending")
  BY Zenon
<1> HIDE DEF c
<1>10. Adds(m, c, fresh)
  BY <1>5, <1>7, <1>9, RefusedAdds
<1>11. Entire(c) /\ c.lastTime \in Nat
  <2>1. Clean(c)
    BY <1>5, <1>9, RefusedClean
  <2> QED BY <2>1 DEF Clean, Good, Whole, Formed, Entire
<1>12. c.tasks = m.tasks /\ c.clockFrozen = m.clockFrozen
  <2>1. b.tasks = m.tasks /\ b.clockFrozen = m.clockFrozen /\ b = [f \in AppFields |-> b[f]]
    <3>1. m = [f \in AppFields |-> m[f]]
      BY <1>7 DEF Whole, Formed
    <3> QED BY <3>1 DEF Refused, AppFields
  <2> HIDE DEF b
  <2> QED BY <1>9, <2>1 DEF SetSignup, AppFields
<1> QED BY <1>2, <1>5, <1>8, <1>10, <1>11, <1>12, <1>13, FinishCommits

LEMMA CompleteCommits ==
    ASSUME VaultInv, CleanInv, NoLogin, NEW status \in Statuses, Complete(status)
    PROVE  \E d, e : Commits(d, e)
<1> DEFINE m == Staged
           signup == SignupAfter(flight.use.action, status, m.records[flight.record].signup)
           e == [task |-> flight.task, record |-> flight.record, request |-> None, at |-> sent.at]
           b == Completed(m, flight.id, status, flight.record, signup)
           c == Audit(b, e)
<1>1. Clean(app) /\ Sourced(app, fresh)
  BY DEF CleanInv
<1>2. /\ flight \in Flights /\ flight.id \in DOMAIN app.deliveries
      /\ app.deliveries[flight.id].status = None /\ app.deliveries[flight.id].dispatched
      /\ app.deliveries[flight.id].record = flight.record
  BY DEF Complete, VaultInv, InFlight
<1>3. /\ Clean(m) /\ Whole(m)
      /\ flight.id \in DOMAIN m.deliveries /\ m.deliveries[flight.id] = app.deliveries[flight.id]
  BY <1>1, <1>2, StagedClean DEF Staged, Clean, Good
<1>4. Thinned(app, m) /\ m.clockFrozen = app.clockFrozen
  BY <1>1, StagedThinned, StagedClean DEF Staged, Clean
<1>5. Commit(c)
  <2>1. Commit(Audit([Staged EXCEPT !.deliveries[flight.id].status = status,
                          !.records[flight.record].signup = SignupAfter(flight.use.action, status, @)], e))
    BY DEF Complete, Finish
  <2> HIDE DEF e
  <2>2. b = [Staged EXCEPT !.deliveries[flight.id].status = status,
                           !.records[flight.record].signup = SignupAfter(flight.use.action, status, @)]
    BY <1>3 DEF Clean, Good, Whole, Formed, AppFields, Completed
  <2> HIDE DEF b
  <2> QED BY <2>1, <2>2
<1> HIDE DEF m, e
<1>6. signup # "verified_login"
  <2>1. flight.use.action # "login"
    BY <1>2 DEF NoLogin, Flights
  <2>2. status # "verified_login"
    BY DEF Statuses
  <2>3. m.records[flight.record].signup # "verified_login"
    <3>1. ValidDelivery(m, flight.id)
      BY <1>3 DEF Clean, Good, Sound
    <3> QED BY <1>2, <1>3, <3>1 DEF ValidDelivery, Clean, Good, Lasting
  <2> QED BY <2>1, <2>2, <2>3 DEF SignupAfter
<1> HIDE DEF signup
<1>7. Adds(m, b, fresh)
  BY <1>2, <1>3, <1>6, CompletedAdds
<1>8. Clean(b)
  BY <1>2, <1>3, <1>6, CompletedClean
<1>12. b.tasks = m.tasks /\ b.clockFrozen = m.clockFrozen
  BY <1>3 DEF Completed, Whole, Formed, AppFields
<1> HIDE DEF b
<1>9. Entire(b) /\ b.lastTime \in Nat /\ Formed(m)
  BY <1>3, <1>8 DEF Clean, Good, Whole, Formed, Entire
<1>10. Adds(m, c, fresh)
  BY <1>7, <1>9, AuditAdds
<1>11. Entire(c) /\ c.lastTime \in Nat /\ c.tasks = b.tasks /\ c.clockFrozen = b.clockFrozen
  BY <1>9 DEF Audit, Entire, AppFields
<1> HIDE DEF c
<1> QED BY <1>3, <1>4, <1>5, <1>10, <1>11, <1>12, FinishCommits

-----------------------------------------------------------------------------
(* What a call publishes follows from what was published before.           *)

LEMMA CallFollows ==
    ASSUME VaultInv, CleanInv, CleanInv', NEW m, NEW c, Commits(m, c), Publishes, ~ReusesPruned
    PROVE  Transition(disk, disk')
<1>0. /\ Whole(m) /\ Entire(c) /\ c.lastTime \in Nat /\ Thinned(app, m) /\ Adds(m, c, fresh) /\ Commit(c)
  BY DEF Commits, Clean, Good
<1>1. /\ Clean(app) /\ Clean(disk) /\ Clean(disk') /\ Sourced(app, fresh) /\ Known(app) /\ fresh \in Nat
      /\ Like(app, disk) /\ Like(disk, app)
  BY AgreeIsLike DEF CleanInv, VaultInv, Shape
<1>2. disk.lastTime <= app.lastTime /\ disk.generation = app.generation
  <2>1. [app EXCEPT !.lastTime = disk.lastTime] = disk /\ disk.lastTime <= app.lastTime /\ Formed(app)
    BY DEF VaultInv, Shape, Agree
  <2>2. [app EXCEPT !.lastTime = disk.lastTime].generation = app.generation
    BY <2>1 DEF Formed, AppFields
  <2> QED BY <2>1, <2>2
<1>3. disk' = Publishable(c)
  BY <1>0 DEF Commit, Publishes
<1>4. Like(c, disk') /\ disk'.lastTime = c.lastTime /\ disk'.generation = app.generation + 1
  BY <1>0, <1>3 DEF Publishable, Entire, AppFields, Like
<1>5. Adds(m, disk', fresh)
  <2>1. m.lastTime \in Nat /\ disk'.lastTime \in Nat /\ c.lastTime <= disk'.lastTime
    BY <1>0, <1>4 DEF Whole, Formed
  <2> QED BY <1>0, <1>4, <2>1, AddsThen
<1>6. Thinned(disk, m)
  BY <1>0, <1>1, <1>2, ThinnedBefore DEF Clean, Good
<1>7. fresh \notin DOMAIN disk.records /\ fresh \notin DOMAIN disk.deliveries
  BY <1>1 DEF Known, Like
<1>8. fresh \notin DOMAIN disk.grants /\ None \notin DOMAIN disk.grants
  BY <1>1, VaultConstants DEF Sourced, Like
<1>9. /\ \A k \in DOMAIN disk.requests \cap DOMAIN disk'.requests : disk.requests[k] = disk'.requests[k]
      /\ \A t \in DOMAIN disk.tasks \cap DOMAIN disk'.tasks : disk.tasks[t] = disk'.tasks[t]
      /\ \A t \in disk.revokedTasks : t \notin DOMAIN disk'.tasks \ disk'.revokedTasks
  BY DEF ReusesPruned
<1>10. disk'.generation = disk.generation + 1
  BY <1>2, <1>4
<1> QED BY <1>0, <1>1, <1>5, <1>6, <1>7, <1>8, <1>9, <1>10, AddsFollow

\* Only a call's commit publishes under that name.
LEMMA OthersPublishNot ==
    ASSUME Handoff \/ Crash \/ Open \/ Recover \/ ExportBackup \/ Restore \/ Tick \/ StepBack \/ UNCHANGED vars
    PROVE  ~Publishes
BY DEF Handoff, Crash, Open, Recover, ExportBackup, Restore, Tick, StepBack, owner, vars, Publishes

LEMMA NextFollows ==
    ASSUME VaultInv, CleanInv, NoLogin, [Next]_vars, Publishes, ~ReusesPruned
    PROVE  Transition(disk, disk')
<1>1. CleanInv'
  BY NextClean
<1>2. CASE Agent \/ Supervise
  <2>1. PICK m, c : Commits(m, c)
    BY <1>2, AgentCommits
  <2> QED BY <1>1, <2>1, CallFollows
<1>3. CASE Delivery
  <2>1. ~Handoff
    BY OthersPublishNot
  <2>2. PICK m, c : Commits(m, c)
    BY <1>3, <2>1, RefuseCommits, CompleteCommits DEF Delivery
  <2> QED BY <1>1, <2>2, CallFollows
<1>4. CASE Crash \/ Open \/ Recover \/ ExportBackup \/ Restore \/ Tick \/ StepBack \/ UNCHANGED vars
  BY <1>4, OthersPublishNot
<1> QED BY <1>2, <1>3, <1>4 DEF Next

\* recovery.rs:32-108 against mod.rs, storage/workflow.rs and snapshot.rs: were
\* the publication of any call interrupted, recovery would accept the step from
\* the published image to the next one, unless the call used an identifier again
\* that its own compaction had just pruned.
THEOREM PublicationsAreRecoverable == NoLogin => (Spec => PublicationsRecoverable)
<1> SUFFICES ASSUME NoLogin PROVE Spec => PublicationsRecoverable
  OBVIOUS
<1>1. VaultInv /\ CleanInv /\ [Next]_vars => [Publishes /\ ~ReusesPruned => Transition(disk, disk')]_vars
  BY NextFollows
<1> QED BY VaultInvariant, StoreStaysClean, <1>1, PTL DEF Spec, PublicationsRecoverable

-----------------------------------------------------------------------------
(* Who can read what.                                                      *)

\* An entry of b serves no reader that its entry in a would not.
RecordServes(a, b, r) ==
    LET o == a.records[r]
        n == b.records[r]
    IN  /\ r \in DOMAIN a.records
        /\ n.createdBy = o.createdBy /\ n.task = o.task /\ n.site = o.site /\ n.kind = o.kind
        /\ o.secretVersion <= n.secretVersion /\ (o.deleted => n.deleted)

GrantServes(a, b, g) ==
    /\ g \in DOMAIN a.grants
    /\ b.grants[g] \in {a.grants[g], [a.grants[g] EXCEPT !.revoked = TRUE]}
    /\ TaskCarried(a, b, a.grants[g].issuerTask)

ReadsSecret(a, ctx, tid, rid, t) == Select(a, ctx, tid, rid, {"password"}, "secret_read", {}, t)

\* A live record of a valid vault that is a login holds a password.
LEMMA LoginHasPassword ==
    ASSUME NEW a, Clean(a), NEW r \in DOMAIN a.records, ~a.records[r].deleted
    PROVE  a.records[r].kind = "login" <=> "password" \in a.records[r].fields
<1>1. ValidRecord(a, a.records[r])
  BY DEF Clean, Good, Sound
<1> QED BY <1>1 DEF ValidRecord, KindAdmits

\* A grant that admits a reader now admitted it before: a version it does not
\* cover was not there yet, and its issuer was alive.
LEMMA GrantAdmitted ==
    ASSUME NEW a, NEW b, Clean(a), NEW ctx, NEW rid, NEW t \in Nat, NEW u \in Nat, t <= u,
           RecordServes(a, b, rid), NEW g \in DOMAIN b.grants, GrantServes(a, b, g),
           b.records[rid].secretVersion \in Nat,
           GrantAdmits(b, b.grants[g], ctx, rid, "secret_read", {"password"}, {}, u)
    PROVE  GrantAdmits(a, a.grants[g], ctx, rid, "secret_read", {"password"}, {}, t)
<1> DEFINE o == a.grants[g]
           n == b.grants[g]
<1>1. /\ o.record = n.record /\ o.spec = n.spec /\ o.version = n.version /\ o.issuerTask = n.issuerTask
      /\ (o.revoked => n.revoked)
  <2>1. DOMAIN o = GrantFields
    BY DEF GrantServes, Clean, Good, Whole, Formed
  <2>2. n = o \/ n = [o EXCEPT !.revoked = TRUE]
    BY DEF GrantServes
  <2> HIDE DEF n, o
  <2> QED BY <2>1, <2>2 DEF GrantFields
<1>2. /\ o.spec.expiresAt \in Nat /\ o.version \in Nat /\ ValidGrant(a, o)
      /\ a.records[rid].secretVersion \in Nat
      /\ \A x \in DOMAIN a.tasks : a.tasks[x].expiresAt \in Nat
  BY DEF GrantServes, RecordServes, Clean, Good, Whole, Formed, Sound
<1>3. /\ n.record = rid /\ ~n.revoked /\ u < n.spec.expiresAt
      /\ (n.spec.followActive => b.records[rid].secretVersion >= n.version)
      /\ (~n.spec.followActive => b.records[rid].secretVersion = n.version)
      /\ IssuerAlive(b, n, u)
      /\ n.spec.recipient = ctx.principal /\ "secret_read" \in n.spec.permissions
      /\ {"password"} \subseteq n.spec.fields /\ {} \subseteq n.spec.destinations
  BY DEF GrantAdmits
<1>4. TaskCarried(a, b, o.issuerTask)
  BY DEF GrantServes
<1> HIDE DEF o, n
<1>5. o.record = rid /\ o.version <= a.records[rid].secretVersion
  BY <1>1, <1>2, <1>3 DEF ValidGrant
<1>6. a.records[rid].secretVersion <= b.records[rid].secretVersion
  BY DEF RecordServes
<1>7. /\ (o.spec.followActive => a.records[rid].secretVersion >= o.version)
      /\ (~o.spec.followActive => a.records[rid].secretVersion = o.version)
  BY <1>1, <1>2, <1>3, <1>5, <1>6
<1>8. t < o.spec.expiresAt
  BY <1>1, <1>2, <1>3
<1>9. IssuerAlive(a, o, t)
  <2>1. /\ o.issuerTask \notin b.revokedTasks /\ u < b.tasks[o.issuerTask].expiresAt
    BY <1>1, <1>3 DEF IssuerAlive
  <2>2. /\ o.issuerTask \notin a.revokedTasks /\ o.issuerTask \in DOMAIN a.tasks
        /\ u < a.tasks[o.issuerTask].expiresAt
    BY <1>4, <2>1 DEF TaskCarried
  <2> QED BY <1>2, <2>2 DEF IssuerAlive
<1> QED BY <1>1, <1>3, <1>5, <1>7, <1>8, <1>9 DEF GrantAdmits, o

\* select(): who reads a record in b read it in a, if what b says of the task,
\* of the record and of the grants on it serves no other reader.
LEMMA ReaderBefore ==
    ASSUME NEW a, NEW b, Clean(a), Clean(b), NEW ctx \in Contexts, NEW tid \in DOMAIN b.tasks,
           NEW rid \in DOMAIN b.records, NEW t \in Nat, NEW u \in Nat, t <= u,
           TaskCarried(a, b, tid), RecordServes(a, b, rid),
           \A g \in DOMAIN b.grants : b.grants[g].record = rid => GrantServes(a, b, g),
           ReadsSecret(b, ctx, tid, rid, u)
    PROVE  ReadsSecret(a, ctx, tid, rid, t)
<1> DEFINE o == a.records[rid]
           n == b.records[rid]
<1>1. /\ TaskAdmits(b, ctx, tid, u) /\ LiveRecord(b, rid) /\ "password" \in n.fields
      /\ Can(b, ctx, tid, rid, "secret_read", {"password"}, {}, u)
  BY DEF ReadsSecret, Select
<1>2. TaskAdmits(a, ctx, tid, t)
  <2>1. ctx.deadline \in Nat
    BY VaultConstants
  <2>2. tid \in DOMAIN a.tasks /\ b.tasks[tid] = a.tasks[tid] /\ tid \notin a.revokedTasks
    BY <1>1 DEF TaskCarried, TaskAdmits
  <2>3. a.tasks[tid].expiresAt \in Nat
    BY <2>2 DEF Clean, Good, Whole, Formed
  <2>4. /\ a.tasks[tid].principal = ctx.principal /\ u < a.tasks[tid].expiresAt /\ u < ctx.deadline
    BY <1>1, <2>2 DEF TaskAdmits
  <2>5. t < a.tasks[tid].expiresAt /\ t < ctx.deadline
    BY <2>1, <2>3, <2>4
  <2> QED BY <2>2, <2>4, <2>5 DEF TaskAdmits
<1>3. /\ rid \in DOMAIN a.records /\ ~o.deleted /\ ~n.deleted
      /\ n.createdBy = o.createdBy /\ n.task = o.task /\ n.site = o.site /\ n.kind = o.kind
  BY <1>1 DEF RecordServes, LiveRecord
<1>4. "password" \in o.fields
  <2>1. n.kind = "login"
    BY <1>1, <1>3, LoginHasPassword
  <2> QED BY <1>3, <2>1, LoginHasPassword
<1>5. b.tasks[tid] = a.tasks[tid] /\ n.secretVersion \in Nat
  BY DEF TaskCarried, Clean, Good, Whole
<1>6. Can(a, ctx, tid, rid, "secret_read", {"password"}, {}, t)
  <2>1. CASE n.createdBy = ctx.principal /\ n.task = tid
    BY <1>1, <1>3, <1>5, <2>1 DEF Can
  <2>2. CASE ~(n.createdBy = ctx.principal /\ n.task = tid)
    <3>1. PICK g \in DOMAIN b.grants :
            GrantAdmits(b, b.grants[g], ctx, rid, "secret_read", {"password"}, {}, u)
      BY <1>1, <2>2, Zenon DEF Can, Values
    <3>2. GrantServes(a, b, g)
      BY <3>1 DEF GrantAdmits
    <3>3. GrantAdmits(a, a.grants[g], ctx, rid, "secret_read", {"password"}, {}, t)
      BY <1>5, <3>1, <3>2, GrantAdmitted
    <3>4. a.grants[g] \in Values(a.grants)
      BY <3>2 DEF GrantServes, Values
    <3>5. /\ o.site = a.tasks[tid].site /\ "secret_read" \in a.tasks[tid].permissions
          /\ {"password"} \subseteq a.tasks[tid].fields /\ {} \subseteq a.tasks[tid].destinations
      BY <1>1, <1>3, <1>5 DEF Can
    <3> QED BY <3>3, <3>4, <3>5 DEF Can
  <2> QED BY <2>1, <2>2
<1>7. LiveRecord(a, rid) /\ {"password"} \subseteq o.fields
  BY <1>3, <1>4 DEF LiveRecord
<1> QED BY <1>2, <1>6, <1>7 DEF ReadsSecret, Select

ReadersOf(a, t) ==
    {x \in [ctx: Contexts, task: DOMAIN a.tasks, record: DOMAIN a.records] :
        ~a.clockFrozen /\ ReadsSecret(a, x.ctx, x.task, x.record, t)}

\* The same of the set of all readers.
LEMMA ReadersServed ==
    ASSUME NEW a, NEW b, Clean(a), Clean(b), NEW t \in Nat, NEW u \in Nat, t <= u,
           a.clockFrozen => b.clockFrozen, NEW x \in ReadersOf(b, u),
           TaskCarried(a, b, x.task), RecordServes(a, b, x.record),
           \A g \in DOMAIN b.grants : b.grants[g].record = x.record => GrantServes(a, b, g)
    PROVE  x \in ReadersOf(a, t)
<1>1. /\ x \in [ctx: Contexts, task: DOMAIN b.tasks, record: DOMAIN b.records]
      /\ ~b.clockFrozen /\ ReadsSecret(b, x.ctx, x.task, x.record, u)
  BY DEF ReadersOf
<1>2. x.ctx \in Contexts /\ x.task \in DOMAIN b.tasks /\ x.record \in DOMAIN b.records
  BY <1>1
<1>3. ReadsSecret(a, x.ctx, x.task, x.record, t)
  BY <1>1, <1>2, ReaderBefore
<1>4. x.task \in DOMAIN a.tasks /\ x.record \in DOMAIN a.records
  BY DEF TaskCarried, RecordServes
<1>5. x \in [ctx: Contexts, task: DOMAIN a.tasks, record: DOMAIN a.records]
  BY <1>1, <1>4
<1> QED BY <1>1, <1>3, <1>5 DEF ReadersOf

\* Time and a restart let nobody read more.
LEMMA LikeServed ==
    ASSUME NEW a, NEW b, Clean(a), Clean(b), NEW t \in Nat, NEW u \in Nat, t <= u,
           a.clockFrozen => b.clockFrozen, NEW x \in ReadersOf(b, u), Like(a, b)
    PROVE  x \in ReadersOf(a, t)
<1>1. /\ b.tasks = a.tasks /\ b.records = a.records /\ b.grants = a.grants /\ b.revokedTasks = a.revokedTasks
  BY DEF Like
<1>2. x.task \in DOMAIN b.tasks /\ x.record \in DOMAIN b.records
  BY DEF ReadersOf
<1>3. TaskCarried(a, b, x.task)
  BY <1>1, <1>2 DEF TaskCarried
<1>4. RecordServes(a, b, x.record)
  <2>1. a.records[x.record].secretVersion \in Nat
    BY <1>1, <1>2 DEF Clean, Good, Whole
  <2> QED BY <1>1, <1>2, <2>1 DEF RecordServes
<1>5. ASSUME NEW g \in DOMAIN b.grants PROVE GrantServes(a, b, g)
  <2>1. g \in DOMAIN a.grants /\ b.grants[g] = a.grants[g] /\ ValidGrant(a, a.grants[g])
    BY <1>1 DEF Clean, Good, Sound
  <2>2. TaskCarried(a, b, a.grants[g].issuerTask)
    BY <1>1, <2>1 DEF ValidGrant, TaskCarried
  <2> QED BY <2>1, <2>2 DEF GrantServes
<1> QED BY <1>3, <1>4, <1>5, ReadersServed

\* What a call commits lets nobody read more but by an approval, a creation or a
\* grant.
LEMMA AddedServed ==
    ASSUME NEW a, NEW m, NEW c, NEW n, Clean(a), Clean(m), Clean(c), Thinned(a, m), Adds(m, c, n),
           n \notin DOMAIN a.grants, n \notin DOMAIN a.records,
           NEW t \in Nat, NEW u \in Nat, t <= u, a.clockFrozen => c.clockFrozen, NEW x \in ReadersOf(c, u),
           \A k \in DOMAIN m.tasks : TaskCarried(a, c, k),
           TaskCarried(a, c, x.task), x.record \in DOMAIN a.records,
           \A g \in DOMAIN c.grants \ DOMAIN a.grants : c.grants[g].record # x.record
    PROVE  x \in ReadersOf(a, t)
<1>1. x.record \in DOMAIN c.records
  BY DEF ReadersOf
<1>2. RecordServes(a, c, x.record)
  <2>1. x.record \in DOMAIN m.records
    BY <1>1 DEF Adds
  <2>2. a.records[x.record] = m.records[x.record] /\ RecordFollows(m, c, x.record)
    BY <2>1 DEF Thinned, Part, Adds
  <2> QED BY <1>1, <2>1, <2>2 DEF RecordFollows, RecordServes
<1>3. ASSUME NEW g \in DOMAIN c.grants, c.grants[g].record = x.record PROVE GrantServes(a, c, g)
  <2>1. g \in DOMAIN a.grants
    BY <1>3
  <2>2. g \in DOMAIN m.grants
    BY <2>1 DEF Adds
  <2>3. a.grants[g] = m.grants[g] /\ GrantFollows(m, c, g) /\ ValidGrant(m, m.grants[g])
    BY <2>2 DEF Thinned, Part, Adds, Clean, Good, Sound
  <2>4. TaskCarried(a, c, a.grants[g].issuerTask)
    BY <2>3 DEF ValidGrant
  <2> QED BY <1>3, <2>1, <2>3, <2>4 DEF GrantFollows, GrantServes
<1> QED BY <1>2, <1>3, ReadersServed

Consented(x) ==
    \/ IsApproved(x.task)
    \/ x.record \notin DOMAIN app.records
    \/ \E g \in DOMAIN app'.grants \ DOMAIN app.grants : app'.grants[g].record = x.record

\* A call of mutate(), approve_task() or use_secret gives access by consent only.
LEMMA CallServes ==
    ASSUME VaultInv, CleanInv, CleanInv', NEW m, NEW c, Commits(m, c),
           NEW t \in Nat, NEW u \in Nat, t <= u, NEW x \in ReadersOf(app', u), ~Consented(x)
    PROVE  x \in ReadersOf(app, t)
<1>1. /\ Clean(app) /\ Clean(app') /\ Clean(m) /\ Whole(m) /\ Sourced(app, fresh) /\ Known(app) /\ fresh \in Nat
      /\ Formed(app)
  BY DEF CleanInv, Commits, VaultInv, Shape, Clean, Good
<1>2. /\ Entire(c) /\ c.lastTime \in Nat /\ Thinned(app, m) /\ Adds(m, c, fresh) /\ Commit(c)
      /\ app.clockFrozen => c.clockFrozen
      /\ \A k \in DOMAIN c.tasks : TaskCarried(app, c, k) \/ (k \notin DOMAIN m.tasks /\ IsApproved(k))
  BY DEF Commits
<1>3. CASE last' = "published"
  <2>1. app' = Publishable(c)
    BY <1>2, <1>3 DEF Commit
  <2>2. Like(c, app') /\ app'.lastTime = c.lastTime /\ app'.clockFrozen = c.clockFrozen
    BY <1>2, <2>1 DEF Publishable, Entire, AppFields, Like
  <2>3. Adds(m, app', fresh)
    <3>1. m.lastTime \in Nat /\ app'.lastTime \in Nat /\ c.lastTime <= app'.lastTime
      BY <1>1, <1>2, <2>2 DEF Whole, Formed
    <3> QED BY <1>2, <2>2, <3>1, AddsThen
  <2>4. fresh \notin DOMAIN app.records /\ fresh \notin DOMAIN app.grants
    BY <1>1 DEF Known, Sourced
  <2>5. \A k \in DOMAIN m.tasks : TaskCarried(app, app', k)
    BY <1>2, <2>3 DEF Thinned, Adds, Part, TaskCarried
  <2>6. TaskCarried(app, app', x.task)
    <3>1. x.task \in DOMAIN app'.tasks /\ ~IsApproved(x.task)
      BY DEF ReadersOf, Consented
    <3>2. x.task \in DOMAIN c.tasks
      BY <2>2, <3>1 DEF Like
    <3>3. TaskCarried(app, c, x.task)
      BY <1>2, <3>1, <3>2
    <3> QED BY <2>2, <3>3 DEF TaskCarried, Like
  <2>7. /\ x.record \in DOMAIN app.records
        /\ \A g \in DOMAIN app'.grants \ DOMAIN app.grants : app'.grants[g].record # x.record
    BY DEF Consented
  <2>8. app.clockFrozen => app'.clockFrozen
    BY <1>2, <2>2
  <2> QED BY <1>1, <1>2, <2>3, <2>4, <2>5, <2>6, <2>7, <2>8, AddedServed
<1>4. CASE last' # "published"
  <2>1. app' = [app EXCEPT !.lastTime = c.lastTime] \/ app' = app
    BY <1>2, <1>4, Zenon DEF Commit
  <2>2. Like(app, app') /\ app'.clockFrozen = app.clockFrozen
    BY <1>1, <2>1 DEF Formed, AppFields, Like
  <2> QED BY <1>1, <2>2, LikeServed
<1> QED BY <1>3, <1>4

\* Whoever reads after a restart, a handoff or an interval of time read before;
\* after a recovery or a restore nobody reads.
LEMMA OthersServe ==
    ASSUME VaultInv, CleanInv, CleanInv',
           Handoff \/ Crash \/ Open \/ Recover \/ ExportBackup \/ Restore \/ Tick \/ StepBack \/ UNCHANGED vars,
           NEW t \in Nat, NEW u \in Nat, t <= u, NEW x \in ReadersOf(app', u)
    PROVE  x \in ReadersOf(app, t)
<1>1. /\ Clean(app) /\ Clean(app') /\ Formed(app) /\ Formed(disk) /\ now \in Nat
      /\ (backup # None => Formed(backup))
  BY DEF CleanInv, VaultInv, Shape
<1>2. CASE Handoff
  <2>1. app' = Clock(app, now) /\ ClockAccepts(app, now)
    BY <1>2 DEF Handoff, HandoffAllowed
  <2>2. Like(app, app') /\ app'.clockFrozen = app.clockFrozen
    BY <1>1, <2>1 DEF Clock, Formed, AppFields, Like
  <2> QED BY <1>1, <2>2, LikeServed
<1>3. CASE Crash \/ Open
  <2>1. app' = disk
    BY <1>3 DEF Crash, Open
  <2>2. Like(app, disk) /\ disk.clockFrozen = app.clockFrozen
    BY <1>1 DEF VaultInv, Agree, Formed, AppFields, Like
  <2> QED BY <1>1, <2>1, <2>2, LikeServed
<1>4. CASE Recover \/ Restore
  <2>1. app'.revokedTasks = DOMAIN app'.tasks
    <3>1. CASE Recover
      <4>1. app' = Sanitize(disk, now)
        BY <3>1 DEF Recover
      <4> QED BY <1>1, <4>1, SanitizeCarries
    <3>2. CASE Restore
      <4>1. app' = PrepareRestored(backup, now) /\ backup # None
        BY <3>2 DEF Restore
      <4> QED BY <1>1, <4>1, RestoredFormed
    <3> QED BY <1>4, <3>1, <3>2
  <2>2. x.task \in DOMAIN app'.tasks /\ x.task \notin app'.revokedTasks
    BY DEF ReadersOf, ReadsSecret, Select, TaskAdmits
  <2> QED BY <2>1, <2>2
<1>5. CASE ExportBackup \/ Tick \/ StepBack \/ UNCHANGED vars
  <2>1. app' = app
    BY <1>5 DEF ExportBackup, Tick, StepBack, owner, vars
  <2>2. Like(app, app')
    BY <2>1 DEF Like
  <2> QED BY <1>1, <2>1, <2>2, LikeServed
<1> QED BY <1>2, <1>3, <1>4, <1>5

\* Every step gives access by consent only.
LEMMA NextServes ==
    ASSUME ~ClockStepsBack, NoLogin, VaultInv, ClockInv, CleanInv, [Next]_vars,
           NEW x \in Readers' \ Readers
    PROVE  Consented(x)
<1>1. CleanInv' /\ ClockInv' /\ VaultInv'
  BY NextClean, NextClock, NextVault
<1>2. now \in Nat /\ now' \in Nat /\ now <= now'
  <2>1. now \in Nat /\ now' \in Nat
    BY <1>1 DEF VaultInv, Shape
  <2>2. Supervise \/ Agent => now' = now
    BY DEF Supervise, Agent, Approve, Revoke, Observe, MutateStep, ReadStep, Prepare
  <2>3. Delivery => now' = now
    BY DEF Delivery, Handoff, Refuse, Complete
  <2>4. Crash \/ Open \/ Recover \/ ExportBackup \/ Restore \/ UNCHANGED vars => now' = now
    BY DEF Crash, Open, Recover, ExportBackup, Restore, vars
  <2>5. Tick \/ StepBack => now' = now + 1
    BY DEF Tick, StepBack
  <2> QED BY <2>1, <2>2, <2>3, <2>4, <2>5 DEF Next
<1>3. EffectiveTime(app, now) = now /\ EffectiveTime(app', now') = now'
  <2>1. app.lastTime \in Nat /\ app'.lastTime \in Nat /\ app.lastTime <= now /\ app'.lastTime <= now'
    BY <1>1 DEF VaultInv, Shape, Formed, ClockInv, Timely
  <2> QED BY <1>2, <2>1 DEF EffectiveTime
<1>4. Readers = ReadersOf(app, now) /\ Readers' = ReadersOf(app', now')
  BY <1>3 DEF Readers, ReadersOf, ReadsSecret
<1>5. x \in ReadersOf(app', now') /\ x \notin ReadersOf(app, now)
  BY <1>4
<1>6. SUFFICES ASSUME ~Consented(x) PROVE FALSE
  OBVIOUS
<1>7. ASSUME NEW m, NEW c, Commits(m, c) PROVE FALSE
  BY <1>1, <1>2, <1>5, <1>6, <1>7, CallServes
<1>8. CASE Agent \/ Supervise
  BY <1>7, <1>8, AgentCommits
<1>9. CASE Delivery /\ ~Handoff
  BY <1>7, <1>9, RefuseCommits, CompleteCommits DEF Delivery
<1>10. ASSUME Handoff \/ Crash \/ Open \/ Recover \/ ExportBackup \/ Restore \/ Tick \/ StepBack \/ UNCHANGED vars
       PROVE  FALSE
  BY <1>1, <1>2, <1>5, <1>10, OthersServe
<1> QED BY <1>8, <1>9, <1>10 DEF Next

\* mod.rs:532-571, snapshot.rs:317-379, recovery.rs: while the trusted clock never
\* steps back, whoever can read a password could before, or owes it to an
\* approval of the task, the creation of the record or a new grant on it: never to
\* a compaction, to time, to a restart, to recovery or to a restore.
THEOREM ReadersConsented == ~ClockStepsBack /\ NoLogin => (Spec => AccessOnlyByConsent)
<1> SUFFICES ASSUME ~ClockStepsBack, NoLogin PROVE Spec => AccessOnlyByConsent
  OBVIOUS
<1> DEFINE Consent(x) ==
      \/ \E ctx \in Contexts, approval \in Approvals :
          approval.id = x.task /\ Approve(ctx, x.task, approval.task)
      \/ x.record \notin DOMAIN app.records
      \/ \E g \in DOMAIN app'.grants \ DOMAIN app.grants : app'.grants[g].record = x.record
<1>1. VaultInv /\ ClockInv /\ CleanInv /\ [Next]_vars => [\A x \in Readers' \ Readers : Consent(x)]_vars
  BY NextServes DEF Consented, IsApproved
<1> QED BY VaultInvariant, WorkIsAccounted, StoreStaysClean, <1>1, PTL DEF Spec, AccessOnlyByConsent

=============================================================================
