--------------------------- MODULE ValidityProofs ---------------------------
(***************************************************************************)
(* Proofs about validate(): every call the core admits and every           *)
(* compaction stages a value that passes it, a second compaction finds     *)
(* nothing to do, and recovery settles every unfinished delivery.          *)
(***************************************************************************)
EXTENDS VaultProofs

-----------------------------------------------------------------------------
(* The sorts of what an application holds.                                 *)

Events == [task: {approval.id : approval \in Approvals}, record: Nat, request: Requests \cup {None}, at: Nat]

Whole(a) ==
    /\ Formed(a) /\ a.clockFrozen \in BOOLEAN
    /\ IsFiniteSet(DOMAIN a.records) /\ IsFiniteSet(DOMAIN a.grants)
    /\ IsFiniteSet(DOMAIN a.requests) /\ IsFiniteSet(DOMAIN a.deliveries)
    /\ \A rid \in DOMAIN a.records : a.records[rid].secretVersion \in Nat /\ a.records[rid].deleted \in BOOLEAN
    /\ \A g \in DOMAIN a.grants : a.grants[g].version \in Nat /\ a.grants[g].spec.expiresAt \in Nat
    /\ \A rid \in DOMAIN a.baselines :
        LET base == a.baselines[rid] IN
        /\ base.through \in Nat /\ base.secretVersion \in Nat
        /\ base.deletePruned \in BOOLEAN /\ base.registrationDispatched \in BOOLEAN
        /\ base.verifiedLogin \in BOOLEAN
    /\ \A key \in DOMAIN a.requests : a.requests[key].revision \in Nat
    /\ \A d \in DOMAIN a.deliveries : a.deliveries[d].version \in Nat
    /\ a.audit \in Seq(Events) /\ Len(a.audit) <= AuditCap

-----------------------------------------------------------------------------
(* What validate() says of the collections, by their keys, and what it     *)
(* does not say but every operation keeps: a deletion is a record's last   *)
(* revision, a grant is shared once, and no login was verified.            *)

OfKind(a, rid, kind) == {k \in Receipts(a, rid) : a.requests[k].kind = kind}

SoundBaseline(a, rid) ==
    LET base == a.baselines[rid] IN
    /\ rid \in DOMAIN a.records
    /\ base.through <= a.records[rid].revision
    /\ base.through = 0 => base.secretVersion = 0 /\ ~base.deletePruned /\ base.prunedGrants = {}
    /\ base.through > 0 => base.secretVersion >= 1
    /\ ~base.verifiedLogin
    /\ \A g \in base.prunedGrants :
        /\ g \in DOMAIN a.grants /\ a.grants[g].record = rid
        /\ \A k \in DOMAIN a.requests : a.requests[k].kind = "share" => a.requests[k].grant # g

SoundCount(a, rid) ==
    LET r == a.records[rid]
        base == Baseline(a, rid)
    IN  /\ r.deleted => base.deletePruned # (OfKind(a, rid, "delete") # {})
        /\ ~r.deleted => OfKind(a, rid, "delete") = {} /\ ~base.deletePruned
        /\ \A n \in base.through + 1 .. r.revision : \E k \in Receipts(a, rid) : a.requests[k].revision = n
        /\ OfKind(a, rid, "create") # {} <=> base.through = 0
        /\ r.secretVersion = (IF base.through = 0 THEN 1 ELSE base.secretVersion)
                                + Cardinality(OfKind(a, rid, "patch"))

Listed(a, g) ==
    \/ \E k \in DOMAIN a.requests : a.requests[k].kind = "share" /\ a.requests[k].grant = g
    \/ \E rid \in DOMAIN a.baselines : g \in a.baselines[rid].prunedGrants

\* An operation on a record that was deleted is refused, and a grant is new
\* when it is shared.
Lasting(a) ==
    /\ \A k \in DOMAIN a.requests :
        a.requests[k].kind = "delete" => a.requests[k].revision = a.records[a.requests[k].record].revision
    /\ \A k, l \in DOMAIN a.requests :
        a.requests[k].kind = "share" /\ a.requests[l].kind = "share" /\ a.requests[k].grant = a.requests[l].grant
            => k = l
    /\ \A rid \in DOMAIN a.records : a.records[rid].signup # "verified_login"

Sound(a) ==
    /\ \A tid \in DOMAIN a.tasks : ApprovalValid(a.tasks[tid], 0)
    /\ a.revokedTasks \subseteq DOMAIN a.tasks
    /\ \A rid \in DOMAIN a.records : ValidRecord(a, a.records[rid])
    /\ \A g \in DOMAIN a.grants : ValidGrant(a, a.grants[g])
    /\ \A key \in DOMAIN a.requests : ValidReceipt(a, key)
    /\ \A rid \in DOMAIN a.baselines : SoundBaseline(a, rid)
    /\ \A rid \in DOMAIN a.records : SoundCount(a, rid)
    /\ \A g \in DOMAIN a.grants : Listed(a, g)
    /\ \A id \in DOMAIN a.deliveries : ValidDelivery(a, id)

\* The audit stream, as far as tasks and records are still there.
Dated(a) ==
    \A i \in DOMAIN a.audit :
        LET e == a.audit[i] IN
        /\ e.at <= a.lastTime
        /\ e.task \in DOMAIN a.tasks /\ e.record \in DOMAIN a.records =>
            a.tasks[e.task].site = a.records[e.record].site

Sized(a) ==
    /\ Cardinality(DOMAIN a.tasks) <= Limit /\ Cardinality(DOMAIN a.records) <= Limit
    /\ Cardinality(DOMAIN a.grants) <= Limit /\ Cardinality(DOMAIN a.requests) <= Limit
    /\ Cardinality(DOMAIN a.deliveries) <= Limit

\* All that compaction starts from.
Good(a) ==
    /\ Whole(a) /\ Lasting(a) /\ Sound(a) /\ Sized(a) /\ Dated(a)
    /\ a.clockFrozen => a.lastTime # 0

-----------------------------------------------------------------------------
(* The two forms agree.                                                    *)

LEMMA BaselineWhole ==
    ASSUME NEW a, Whole(a), NEW rid
    PROVE  LET base == Baseline(a, rid) IN
           /\ base.through \in Nat /\ base.secretVersion \in Nat
           /\ base.deletePruned \in BOOLEAN /\ base.registrationDispatched \in BOOLEAN
           /\ base.verifiedLogin \in BOOLEAN
           /\ DOMAIN base = BaselineFields
<1>1. CASE rid \in DOMAIN a.baselines
  BY <1>1 DEF Whole, Formed, Baseline
<1>2. CASE rid \notin DOMAIN a.baselines
  BY <1>2 DEF Baseline, NoBaseline, BaselineFields
<1> QED BY <1>1, <1>2

KeysOf(f, K, kind) == {k \in K : f[k].kind = kind}

ReceiptsOf(f, K, kind) == {c \in {f[k] : k \in K} : c.kind = kind}

Top(f, K) == Max({c.revision : c \in {f[k] : k \in K}})

\* Receipts of a record differ in their revisions, so counting the receipts
\* of a kind is counting their keys.
LEMMA CountByKey ==
    ASSUME NEW a, Whole(a), \A key \in DOMAIN a.requests : ValidReceipt(a, key), NEW rid,
           NEW K \in SUBSET Receipts(a, rid), NEW kind
    PROVE  /\ Cardinality(ReceiptsOf(a.requests, K, kind)) = Cardinality(KeysOf(a.requests, K, kind))
           /\ IsFiniteSet(KeysOf(a.requests, K, kind))
<1> DEFINE L == {k \in K : a.requests[k].kind = kind}
           V == {c \in {a.requests[k] : k \in K} : c.kind = kind}
           f == [k \in L |-> a.requests[k]]
<1>1. L \subseteq DOMAIN a.requests /\ \A k \in L : k \in Receipts(a, rid) /\ a.requests[k].record = rid
  BY DEF Receipts
<1>2. IsFiniteSet(L)
  BY <1>1, FS_Subset DEF Whole
<1>3. V = {a.requests[k] : k \in L}
  OBVIOUS
<1> HIDE DEF L, V
<1>4. f \in [L -> V] /\ \A v \in V : \E k \in L : f[k] = v
  BY <1>3
<1>5. ASSUME NEW k \in L, NEW l \in L, f[k] = f[l] PROVE k = l
  <2>1. a.requests[k] = a.requests[l] /\ ValidReceipt(a, k)
    BY <1>1, <1>5
  <2> QED BY <1>1, <2>1 DEF ValidReceipt
<1> HIDE DEF f
<1>6. f \in Surjection(L, V) /\ f \in Injection(L, V)
  BY <1>4, <1>5 DEF Surjection, Injection, IsInjective
<1>7. Cardinality(V) = Cardinality(L)
  BY <1>2, <1>6, FS_Surjection
<1> QED BY <1>2, <1>7 DEF L, V, KeysOf, ReceiptsOf

LEMMA ValidIsSound ==
    ASSUME NEW a, Whole(a), Lasting(a), Validate(a)
    PROVE  Good(a) /\ \A i \in DOMAIN a.audit : ValidEvent(a, a.audit[i])
<1>1. /\ \A tid \in DOMAIN a.tasks : ApprovalValid(a.tasks[tid], 0)
      /\ a.revokedTasks \subseteq DOMAIN a.tasks
  BY DEF Validate, ValidTasks, Values
<1>2. /\ \A rid \in DOMAIN a.records : ValidRecord(a, a.records[rid])
      /\ \A g \in DOMAIN a.grants : ValidGrant(a, a.grants[g])
      /\ \A key \in DOMAIN a.requests : ValidReceipt(a, key)
      /\ \A id \in DOMAIN a.deliveries : ValidDelivery(a, id)
      /\ \A i \in DOMAIN a.audit : ValidEvent(a, a.audit[i])
      /\ a.clockFrozen => a.lastTime # 0
  BY DEF Validate, Values
<1>3. ASSUME NEW rid \in DOMAIN a.baselines PROVE SoundBaseline(a, rid)
  <2>1. ValidBaseline(a, rid)
    BY DEF Validate
  <2>2. a.records[rid].signup # "verified_login"
    BY <2>1 DEF ValidBaseline, Lasting
  <2> QED BY <2>1, <2>2 DEF ValidBaseline, SoundBaseline, Values
<1>4. ASSUME NEW rid \in DOMAIN a.records PROVE SoundCount(a, rid)
  <2> DEFINE R == {a.requests[k] : k \in Receipts(a, rid)}
  <2>1. ValidAccounting(a, rid)
    BY DEF Validate
  <2>2. \A kind : ({c \in R : c.kind = kind} # {}) <=> (OfKind(a, rid, kind) # {})
    BY DEF OfKind
  <2>3. {c.revision : c \in R} = Baseline(a, rid).through + 1 .. a.records[rid].revision
    BY <2>1 DEF ValidAccounting
  <2>4. \A n \in Baseline(a, rid).through + 1 .. a.records[rid].revision :
            \E k \in Receipts(a, rid) : a.requests[k].revision = n
    <3> SUFFICES ASSUME NEW n \in Baseline(a, rid).through + 1 .. a.records[rid].revision
                 PROVE  \E k \in Receipts(a, rid) : a.requests[k].revision = n
      OBVIOUS
    <3>1. n \in {c.revision : c \in R}
      BY <2>3, Zenon
    <3> QED BY <3>1
  <2>5. Cardinality({c \in R : c.kind = "patch"}) = Cardinality(OfKind(a, rid, "patch"))
    <3>1. Receipts(a, rid) \in SUBSET Receipts(a, rid)
      OBVIOUS
    <3>2. Cardinality(ReceiptsOf(a.requests, Receipts(a, rid), "patch"))
            = Cardinality(KeysOf(a.requests, Receipts(a, rid), "patch"))
      BY <1>2, <3>1, CountByKey
    <3> QED BY <3>2 DEF ReceiptsOf, KeysOf, OfKind
  <2>6. a.records[rid].deleted \in BOOLEAN /\ Baseline(a, rid).deletePruned \in BOOLEAN
    BY BaselineWhole DEF Whole
  <2>7. /\ IF a.records[rid].deleted
           THEN Baseline(a, rid).deletePruned # ({c \in R : c.kind = "delete"} # {})
           ELSE {c \in R : c.kind = "delete"} = {} /\ ~Baseline(a, rid).deletePruned
        /\ {c \in R : c.kind = "create"} # {} <=> Baseline(a, rid).through = 0
        /\ a.records[rid].secretVersion =
                (IF Baseline(a, rid).through = 0 THEN 1 ELSE Baseline(a, rid).secretVersion)
                    + Cardinality({c \in R : c.kind = "patch"})
    BY <2>1 DEF ValidAccounting
  <2> HIDE DEF R
  <2> QED BY <2>2, <2>4, <2>5, <2>6, <2>7 DEF SoundCount
<1>5. ASSUME NEW g \in DOMAIN a.grants PROVE Listed(a, g)
  <2>1. g \in {c.grant : c \in {d \in Values(a.requests) : d.kind = "share"}}
                \cup UNION {base.prunedGrants : base \in Values(a.baselines)}
    BY DEF Validate, ValidGrantAccounting
  <2> QED BY <2>1 DEF Listed, Values
<1>6. Sound(a)
  BY <1>1, <1>2, <1>3, <1>4, <1>5 DEF Sound
<1>7. Sized(a)
  BY DEF Sized, Validate, WithinLimits, HotSizes
<1>8. Dated(a)
  BY <1>2 DEF Dated, ValidEvent, EventSupported
<1> QED BY <1>2, <1>6, <1>7, <1>8 DEF Good

LEMMA SoundIsValid ==
    ASSUME NEW a, Good(a), \A i \in DOMAIN a.audit : EventSupported(a, a.audit[i])
    PROVE  Validate(a)
<1> USE DEF Good
<1>1. ValidTasks(a)
  BY DEF Sound, ValidTasks, Values
<1>2. /\ \A r \in Values(a.records) : ValidRecord(a, r)
      /\ \A g \in Values(a.grants) : ValidGrant(a, g)
      /\ \A key \in DOMAIN a.requests : ValidReceipt(a, key)
      /\ \A id \in DOMAIN a.deliveries : ValidDelivery(a, id)
  BY DEF Sound, Values
<1>3. \A i \in DOMAIN a.audit : ValidEvent(a, a.audit[i])
  BY DEF Dated, ValidEvent, EventSupported
<1>4. ASSUME NEW rid \in DOMAIN a.baselines PROVE ValidBaseline(a, rid)
  BY DEF Sound, SoundBaseline, ValidBaseline, Values
<1>5. ASSUME NEW rid \in DOMAIN a.records PROVE ValidAccounting(a, rid) /\ ValidSignup(a, rid)
  <2> DEFINE R == {a.requests[k] : k \in Receipts(a, rid)}
             range == Baseline(a, rid).through + 1 .. a.records[rid].revision
  <2>1. SoundCount(a, rid)
    BY DEF Sound
  <2>2. \A kind : ({c \in R : c.kind = kind} # {}) <=> (OfKind(a, rid, kind) # {})
    BY DEF OfKind
  <2>3. {c.revision : c \in R} = range
    <3>1. ASSUME NEW k \in Receipts(a, rid) PROVE a.requests[k].revision \in range
      <4>1. ValidReceipt(a, k) /\ a.requests[k].record = rid /\ a.requests[k].revision \in Nat
        BY DEF Sound, Receipts, Whole
      <4>2. a.requests[k].revision > Baseline(a, rid).through /\ a.requests[k].revision <= a.records[rid].revision
        BY <4>1 DEF ValidReceipt
      <4>3. Baseline(a, rid).through \in Nat /\ a.records[rid].revision \in Nat
        BY BaselineWhole DEF Whole, Formed
      <4> QED BY <4>1, <4>2, <4>3
    <3>2. \A n \in range : \E k \in Receipts(a, rid) : a.requests[k].revision = n
      BY <2>1 DEF SoundCount
    <3> HIDE DEF range
    <3> QED BY <3>1, <3>2
  <2>4. Cardinality({c \in R : c.kind = "patch"}) = Cardinality(OfKind(a, rid, "patch"))
    <3>1. Receipts(a, rid) \in SUBSET Receipts(a, rid)
      OBVIOUS
    <3>2. Cardinality(ReceiptsOf(a.requests, Receipts(a, rid), "patch"))
            = Cardinality(KeysOf(a.requests, Receipts(a, rid), "patch"))
      BY <1>2, <3>1, CountByKey
    <3> QED BY <3>2 DEF ReceiptsOf, KeysOf, OfKind
  <2>5. /\ IF a.records[rid].deleted
           THEN Baseline(a, rid).deletePruned # ({c \in R : c.kind = "delete"} # {})
           ELSE {c \in R : c.kind = "delete"} = {} /\ ~Baseline(a, rid).deletePruned
        /\ {c \in R : c.kind = "create"} # {} <=> Baseline(a, rid).through = 0
        /\ a.records[rid].secretVersion =
                (IF Baseline(a, rid).through = 0 THEN 1 ELSE Baseline(a, rid).secretVersion)
                    + Cardinality({c \in R : c.kind = "patch"})
    <3> HIDE DEF R
    <3>1. a.records[rid].deleted \in BOOLEAN /\ Baseline(a, rid).deletePruned \in BOOLEAN
      BY BaselineWhole DEF Whole
    <3> QED BY <2>1, <2>2, <2>4, <3>1 DEF SoundCount
  <2>6. ValidAccounting(a, rid)
    BY <2>3, <2>5 DEF ValidAccounting
  <2>7. ValidSignup(a, rid)
    BY DEF Lasting, ValidSignup
  <2> QED BY <2>6, <2>7
<1>6. ValidGrantAccounting(a)
  <2> DEFINE shared == {c.grant : c \in {d \in Values(a.requests) : d.kind = "share"}}
             pruned == UNION {base.prunedGrants : base \in Values(a.baselines)}
  <2>1. shared \subseteq DOMAIN a.grants
    BY DEF Sound, ValidReceipt, Values
  <2>2. pruned \subseteq DOMAIN a.grants
    BY DEF Sound, SoundBaseline, Values
  <2>3. DOMAIN a.grants \subseteq shared \cup pruned
    BY DEF Sound, Listed, Values
  <2> QED BY <2>1, <2>2, <2>3 DEF ValidGrantAccounting
<1>7. WithinLimits(a)
  <2>1. Len(a.audit) <= Limit
    BY PolicyConstants DEF Whole
  <2>2. Cardinality(a.revokedTasks) <= Limit
    <3>1. a.revokedTasks \subseteq DOMAIN a.tasks /\ IsFiniteSet(DOMAIN a.tasks)
      BY DEF Sound, Whole, Formed
    <3> QED BY <3>1, FS_Subset, FS_CardinalityType, PolicyConstants DEF Sized
  <2>3. Cardinality(DOMAIN a.baselines) <= Limit
    <3>1. DOMAIN a.baselines \subseteq DOMAIN a.records /\ IsFiniteSet(DOMAIN a.records)
      BY DEF Sound, SoundBaseline, Whole
    <3> QED BY <3>1, FS_Subset, FS_CardinalityType, PolicyConstants DEF Sized
  <2> QED BY <2>1, <2>2, <2>3 DEF WithinLimits, HotSizes, Sized
<1> QED BY <1>1, <1>2, <1>3, <1>4, <1>5, <1>6, <1>7 DEF Validate

-----------------------------------------------------------------------------
(* compact(), stage by stage.                                              *)

\* The greatest of the revisions of a finite set of receipts.
LEMMA MaxRevisionOf ==
    ASSUME NEW S, IsFiniteSet(S), S # {}, NEW f, \A x \in S : f[x].revision \in Nat
    PROVE  /\ \E x \in S : f[x].revision = Top(f, S)
           /\ \A x \in S : f[x].revision <= Top(f, S)
<1> DEFINE h == [x \in S |-> [expiresAt |-> f[x].revision]]
           R == {c.revision : c \in {f[x] : x \in S}}
<1>1. \A x \in S : h[x].expiresAt \in Nat /\ h[x].expiresAt = f[x].revision
  OBVIOUS
<1> HIDE DEF h
<1>2. PICK m \in S : \A y \in S : h[y].expiresAt <= h[m].expiresAt
  BY <1>1, LatestExists
<1>3. f[m].revision \in R /\ \A y \in R : f[m].revision >= y
  BY <1>1, <1>2
<1>4. Max(R) \in R /\ \A y \in R : Max(R) >= y
  BY <1>3 DEF Max
<1>5. \A y \in R : y \in Nat
  OBVIOUS
<1>6. \A x \in S : f[x].revision \in R
  OBVIOUS
<1>7. \E x \in S : f[x].revision = Max(R)
  BY <1>4
<1>8. \A x \in S : f[x].revision <= Max(R)
  <2> HIDE DEF R
  <2> QED BY <1>4, <1>5, <1>6
<1> QED BY <1>7, <1>8 DEF Top

\* What folding makes of a record's baseline.
LEMMA FoldedFacts ==
    ASSUME NEW a, Whole(a), Sound(a), NEW rid \in DOMAIN a.records
    PROVE  LET base == Baseline(a, rid)
               new == FoldedBaseline(a, rid)
               F == Folded(a, rid)
           IN  /\ DOMAIN new = BaselineFields
               /\ new.through \in Nat /\ base.through <= new.through
               /\ new.through <= a.records[rid].revision
               /\ F = {} => new = base
               /\ F # {} => new.through > base.through
               /\ F \subseteq Receipts(a, rid)
               /\ \A k \in Receipts(a, rid) : k \in F <=> a.requests[k].revision <= new.through
               /\ \A k \in Receipts(a, rid) :
                    a.requests[k].revision = new.through + 1 => ~Stale(a, a.requests[k].at)
               /\ new.registrationDispatched = base.registrationDispatched
               /\ new.verifiedLogin = base.verifiedLogin
               /\ new.deletePruned = (base.deletePruned \/ \E k \in F : a.requests[k].kind = "delete")
               /\ new.prunedGrants = base.prunedGrants
                    \cup {a.requests[k].grant : k \in {l \in F : a.requests[l].kind = "share"}}
               /\ F # {} => new.secretVersion =
                    (IF \E k \in F : a.requests[k].kind = "create" THEN 1 ELSE base.secretVersion)
                        + Cardinality({k \in F : a.requests[k].kind = "patch"})
<1> DEFINE base == Baseline(a, rid)
           new == FoldedBaseline(a, rid)
           F == Folded(a, rid)
           folded == {a.requests[k] : k \in F}
           top == Max({c.revision : c \in folded})
<1>1. /\ base.through \in Nat /\ DOMAIN base = BaselineFields /\ a.records[rid].revision \in Nat
      /\ base.deletePruned \in BOOLEAN
  BY BaselineWhole DEF Whole, Formed
<1>2. F \subseteq Receipts(a, rid)
  BY DEF Folded
<1>3. ASSUME NEW k \in Receipts(a, rid)
      PROVE  /\ k \in DOMAIN a.requests /\ a.requests[k].revision \in Nat
             /\ a.requests[k].revision > base.through /\ a.requests[k].revision <= a.records[rid].revision
             /\ \A l \in Receipts(a, rid) : a.requests[l].revision = a.requests[k].revision => l = k
  <2>1. k \in DOMAIN a.requests /\ a.requests[k].record = rid
    BY DEF Receipts
  <2> QED BY <2>1 DEF Sound, ValidReceipt, Whole
<1>4. \A k \in Receipts(a, rid) :
        k \in F <=> \A n \in base.through + 1 .. a.requests[k].revision :
                        \E l \in Receipts(a, rid) : a.requests[l].revision = n /\ Stale(a, a.requests[l].at)
  BY DEF Folded
<1>5. IsFiniteSet(F) /\ \A k \in F : a.requests[k].revision \in Nat
  <2>1. F \subseteq DOMAIN a.requests
    BY <1>2, <1>3
  <2> HIDE DEF F
  <2> QED BY <1>2, <1>3, <2>1, FS_Subset DEF Whole
<1>6. CASE F = {}
  <2>1. new = base
    BY <1>6 DEF FoldedBaseline
  <2> HIDE DEF new, F, base
  <2>2. \A k \in Receipts(a, rid) : a.requests[k].revision = base.through + 1 => ~Stale(a, a.requests[k].at)
    <3> SUFFICES ASSUME NEW k \in Receipts(a, rid), a.requests[k].revision = base.through + 1,
                        Stale(a, a.requests[k].at)
                 PROVE  FALSE
      OBVIOUS
    <3>1. \A n \in base.through + 1 .. a.requests[k].revision : n = a.requests[k].revision
      BY <1>1
    <3> QED BY <1>4, <1>6, <3>1
  <2>3. base.through <= a.records[rid].revision
    <3>1. CASE rid \in DOMAIN a.baselines
      BY <3>1 DEF Sound, SoundBaseline, base, Baseline
    <3>2. CASE rid \notin DOMAIN a.baselines
      BY <1>1, <3>2 DEF base, Baseline, NoBaseline
    <3> QED BY <3>1, <3>2
  <2>4. {a.requests[k].grant : k \in {l \in F : a.requests[l].kind = "share"}} = {}
    BY <1>6
  <2> HIDE DEF Stale
  <2>5. new.prunedGrants = base.prunedGrants
                    \cup {a.requests[k].grant : k \in {l \in F : a.requests[l].kind = "share"}}
    BY <2>1, <2>4
  <2>6. new.deletePruned = (base.deletePruned \/ \E k \in F : a.requests[k].kind = "delete")
    BY <1>1, <1>6, <2>1
  <2>7. \A k \in Receipts(a, rid) : k \in F <=> a.requests[k].revision <= new.through
    BY <1>1, <1>3, <1>6, <2>1
  <2>8. \A k \in Receipts(a, rid) : a.requests[k].revision = new.through + 1 => ~Stale(a, a.requests[k].at)
    BY <2>1, <2>2
  <2> QED BY <1>1, <1>2, <1>6, <2>1, <2>3, <2>5, <2>6, <2>7, <2>8 DEF new, F, base
<1>7. CASE F # {}
  <2> DEFINE Of(kind) == {c \in folded : c.kind = kind}
             version == (IF Of("create") # {} THEN 1 ELSE base.secretVersion) + Cardinality(Of("patch"))
             deleted == base.deletePruned \/ Of("delete") # {}
             pruned == base.prunedGrants \cup {c.grant : c \in Of("share")}
  <2>1. folded # {}
    BY <1>7
  <2>2. new = [base EXCEPT !.through = top, !.secretVersion = version, !.deletePruned = deleted,
                           !.prunedGrants = pruned]
    BY <2>1 DEF FoldedBaseline
  <2>3. (\E x \in F : a.requests[x].revision = top) /\ \A x \in F : a.requests[x].revision <= top
    <3>1. top = Top(a.requests, F)
      BY DEF Top
    <3> HIDE DEF F, top
    <3> QED BY <1>5, <1>7, <3>1, MaxRevisionOf
  <2>4. \A kind : Of(kind) # {} <=> \E k \in F : a.requests[k].kind = kind
    OBVIOUS
  <2>5. Cardinality(Of("patch")) = Cardinality({k \in F : a.requests[k].kind = "patch"})
    <3>1. \A key \in DOMAIN a.requests : ValidReceipt(a, key)
      BY DEF Sound
    <3>2. Of("patch") = ReceiptsOf(a.requests, F, "patch")
      BY DEF ReceiptsOf
    <3> HIDE DEF F, Of
    <3>3. Cardinality(ReceiptsOf(a.requests, F, "patch")) = Cardinality(KeysOf(a.requests, F, "patch"))
      BY <1>2, <3>1, CountByKey
    <3> QED BY <3>2, <3>3 DEF KeysOf
  <2>6. {c.grant : c \in Of("share")} = {a.requests[k].grant : k \in {l \in F : a.requests[l].kind = "share"}}
    OBVIOUS
  <2> HIDE DEF new, base, F, folded, top, Of
  <2>7. /\ DOMAIN new = BaselineFields /\ new.through = top
        /\ new.registrationDispatched = base.registrationDispatched
        /\ new.verifiedLogin = base.verifiedLogin
        /\ new.deletePruned = deleted /\ new.prunedGrants = pruned /\ new.secretVersion = version
    BY <1>1, <2>2 DEF BaselineFields
  <2>8. PICK m \in F : a.requests[m].revision = top
    BY <2>3
  <2>9. top \in Nat /\ top > base.through /\ top <= a.records[rid].revision
    BY <1>2, <1>3, <2>8
  <2>10. \A n \in base.through + 1 .. top :
            \E l \in Receipts(a, rid) : a.requests[l].revision = n /\ Stale(a, a.requests[l].at)
    BY <1>2, <1>4, <2>8
  <2>11. \A k \in Receipts(a, rid) : k \in F <=> a.requests[k].revision <= top
    <3>1. ASSUME NEW k \in Receipts(a, rid), a.requests[k].revision <= top PROVE k \in F
      <4>1. base.through + 1 .. a.requests[k].revision \subseteq base.through + 1 .. top
        BY <1>1, <1>3, <2>9, <3>1
      <4> QED BY <1>4, <2>10, <4>1
    <3> QED BY <2>3, <3>1
  <2>12. ASSUME NEW k \in Receipts(a, rid), a.requests[k].revision = top + 1
         PROVE  ~Stale(a, a.requests[k].at)
    <3> SUFFICES ASSUME Stale(a, a.requests[k].at) PROVE FALSE
      OBVIOUS
    <3>1. \A n \in base.through + 1 .. a.requests[k].revision : n \in base.through + 1 .. top \/ n = top + 1
      BY <1>1, <2>9, <2>12
    <3>2. k \in F
      BY <1>4, <2>10, <2>12, <3>1
    <3> QED BY <2>3, <2>9, <2>12, <3>2
  <2>13. deleted = (base.deletePruned \/ \E k \in F : a.requests[k].kind = "delete")
    BY <2>4
  <2>14. version = (IF \E k \in F : a.requests[k].kind = "create" THEN 1 ELSE base.secretVersion)
                        + Cardinality({k \in F : a.requests[k].kind = "patch"})
    BY <2>4, <2>5
  <2>15. pruned = base.prunedGrants \cup {a.requests[k].grant : k \in {l \in F : a.requests[l].kind = "share"}}
    BY <2>6
  <2> HIDE DEF version, deleted, pruned
  <2> QED BY <1>1, <1>2, <1>7, <2>7, <2>9, <2>11, <2>12, <2>13, <2>14, <2>15 DEF new, F, base
<1> QED BY <1>6, <1>7

LEMMA FoldFrame ==
    ASSUME NEW a, Formed(a)
    PROVE  LET b == FoldReceipts(a) IN
           /\ b = [f \in AppFields |-> b[f]]
           /\ b.lastTime = a.lastTime /\ b.clockFrozen = a.clockFrozen /\ b.generation = a.generation
           /\ b.tasks = a.tasks /\ b.records = a.records /\ b.grants = a.grants /\ b.audit = a.audit
           /\ b.deliveries = a.deliveries /\ b.revokedTasks = a.revokedTasks
           /\ b.baselines = [rid \in DOMAIN a.records |-> FoldedBaseline(a, rid)]
           /\ Part(b.requests, a.requests) /\ b.requests = [k \in DOMAIN b.requests |-> b.requests[k]]
           /\ DOMAIN b.requests = DOMAIN a.requests \ UNION {Folded(a, rid) : rid \in DOMAIN a.records}
<1> DEFINE b == FoldReceipts(a)
           bases == [rid \in DOMAIN a.records |-> FoldedBaseline(a, rid)]
           left == DOMAIN a.requests \ UNION {Folded(a, rid) : rid \in DOMAIN a.records}
           rest == Restrict(a.requests, left)
<1>1. b = [a EXCEPT !.baselines = bases, !.requests = rest]
  BY DEF FoldReceipts
<1>2. Part(rest, a.requests) /\ DOMAIN rest = left /\ rest = [k \in DOMAIN rest |-> rest[k]]
  <2> HIDE DEF left
  <2>1. left \subseteq DOMAIN a.requests
    BY DEF left
  <2> QED BY <2>1 DEF Part, Restrict
<1> HIDE DEF b, bases, rest, left
<1>3. /\ b = [f \in AppFields |-> b[f]]
      /\ b.lastTime = a.lastTime /\ b.clockFrozen = a.clockFrozen /\ b.generation = a.generation
      /\ b.tasks = a.tasks /\ b.records = a.records /\ b.grants = a.grants /\ b.audit = a.audit
      /\ b.deliveries = a.deliveries /\ b.revokedTasks = a.revokedTasks
      /\ b.baselines = bases /\ b.requests = rest
  BY <1>1 DEF Formed, AppFields
<1> QED BY <1>2, <1>3 DEF b, bases, left

\* What is folded is told apart from what is left by the new baseline.
LEMMA FoldLeaves ==
    ASSUME NEW a, Whole(a), Sound(a), NEW rid \in DOMAIN a.records
    PROVE  LET b == FoldReceipts(a) IN
           /\ Baseline(b, rid) = FoldedBaseline(a, rid)
           /\ Receipts(b, rid) = Receipts(a, rid) \ Folded(a, rid)
           /\ \A k \in Receipts(b, rid) : b.requests[k] = a.requests[k]
<1> DEFINE b == FoldReceipts(a)
<1>1. /\ b.baselines = [r \in DOMAIN a.records |-> FoldedBaseline(a, r)]
      /\ Part(b.requests, a.requests)
      /\ DOMAIN b.requests = DOMAIN a.requests \ UNION {Folded(a, r) : r \in DOMAIN a.records}
  BY FoldFrame DEF Whole
<1> HIDE DEF b
<1>2. Baseline(b, rid) = FoldedBaseline(a, rid)
  BY <1>1 DEF Baseline
<1>3. \A r : Folded(a, r) \subseteq Receipts(a, r)
  BY DEF Folded
<1>4. \A k \in DOMAIN b.requests : k \in DOMAIN a.requests /\ b.requests[k] = a.requests[k]
  BY <1>1 DEF Part
<1>5. \A k \in Receipts(b, rid) : k \in Receipts(a, rid) \ Folded(a, rid)
  BY <1>1, <1>4 DEF Receipts
<1>6. ASSUME NEW k \in Receipts(a, rid) \ Folded(a, rid) PROVE k \in Receipts(b, rid)
  <2>1. k \in DOMAIN a.requests /\ a.requests[k].record = rid
    BY DEF Receipts
  <2>2. \A r \in DOMAIN a.records : k \notin Folded(a, r)
    BY <1>3, <2>1 DEF Receipts
  <2>3. k \in DOMAIN b.requests
    BY <1>1, <2>1, <2>2
  <2> QED BY <1>4, <2>1, <2>3 DEF Receipts
<1>7. \A k \in Receipts(b, rid) : b.requests[k] = a.requests[k]
  BY <1>4 DEF Receipts
<1> QED BY <1>2, <1>5, <1>6, <1>7 DEF b

\* Every revision is accounted for by the receipts that are left or by the
\* new baseline.
LEMMA FoldCounts ==
    ASSUME NEW a, Whole(a), Sound(a), Lasting(a), NEW rid \in DOMAIN a.records
    PROVE  SoundCount(FoldReceipts(a), rid)
<1> DEFINE b == FoldReceipts(a)
           base == Baseline(a, rid)
           new == Baseline(b, rid)
           F == Folded(a, rid)
           A == Receipts(a, rid)
           r == a.records[rid]
<1>1. /\ new = FoldedBaseline(a, rid)
      /\ Receipts(b, rid) = A \ F
      /\ \A k \in Receipts(b, rid) : b.requests[k] = a.requests[k]
  BY FoldLeaves
<1>2. b.records = a.records
  BY FoldFrame DEF Whole
<1>3. /\ new.through \in Nat /\ base.through <= new.through /\ new.through <= r.revision
      /\ F = {} => new = base
      /\ F # {} => new.through > base.through
      /\ F \subseteq A
      /\ \A k \in A : k \in F <=> a.requests[k].revision <= new.through
      /\ new.deletePruned = (base.deletePruned \/ \E k \in F : a.requests[k].kind = "delete")
      /\ F # {} => new.secretVersion =
            (IF \E k \in F : a.requests[k].kind = "create" THEN 1 ELSE base.secretVersion)
                + Cardinality({k \in F : a.requests[k].kind = "patch"})
  BY <1>1, FoldedFacts
<1>4. SoundCount(a, rid)
  BY DEF Sound
<1>5. /\ base.through \in Nat /\ base.secretVersion \in Nat /\ base.deletePruned \in BOOLEAN
      /\ r.revision \in Nat /\ r.deleted \in BOOLEAN
  BY BaselineWhole DEF Whole, Formed
<1>6. \A k \in A : /\ k \in DOMAIN a.requests /\ a.requests[k].record = rid /\ a.requests[k].revision \in Nat
                   /\ a.requests[k].revision > base.through /\ a.requests[k].revision <= r.revision
                   /\ a.requests[k].kind = "create" => a.requests[k].revision = 1
                   /\ a.requests[k].kind = "delete" => a.requests[k].revision = r.revision
                   /\ \A l \in A : a.requests[l].revision = a.requests[k].revision => l = k
  <2> SUFFICES ASSUME NEW k \in A
               PROVE  /\ k \in DOMAIN a.requests /\ a.requests[k].record = rid /\ a.requests[k].revision \in Nat
                      /\ a.requests[k].revision > base.through /\ a.requests[k].revision <= r.revision
                      /\ a.requests[k].kind = "create" => a.requests[k].revision = 1
                      /\ a.requests[k].kind = "delete" => a.requests[k].revision = r.revision
                      /\ \A l \in A : a.requests[l].revision = a.requests[k].revision => l = k
    OBVIOUS
  <2>1. k \in DOMAIN a.requests /\ a.requests[k].record = rid
    BY DEF Receipts
  <2>2. ValidReceipt(a, k)
    BY <2>1 DEF Sound
  <2>3. a.requests[k].kind = "create" => a.requests[k].revision = 1
    BY <2>2 DEF ValidReceipt
  <2>4. a.requests[k].kind = "delete" => a.requests[k].revision = r.revision
    BY <2>1 DEF Lasting
  <2> QED BY <2>1, <2>2, <2>3, <2>4 DEF ValidReceipt, Whole
<1>7. \A kind : OfKind(a, rid, kind) = {k \in A : a.requests[k].kind = kind}
  BY DEF OfKind
<1>8. \A kind : OfKind(b, rid, kind) = {k \in A \ F : a.requests[k].kind = kind}
  BY <1>1 DEF OfKind
<1> HIDE DEF b, base, new, F, A, r
<1>9. /\ r.deleted => base.deletePruned # (\E k \in A : a.requests[k].kind = "delete")
      /\ ~r.deleted => (\A k \in A : a.requests[k].kind # "delete") /\ ~base.deletePruned
      /\ \A n \in base.through + 1 .. r.revision : \E k \in A : a.requests[k].revision = n
      /\ (\E k \in A : a.requests[k].kind = "create") <=> base.through = 0
      /\ r.secretVersion = (IF base.through = 0 THEN 1 ELSE base.secretVersion)
                                + Cardinality({k \in A : a.requests[k].kind = "patch"})
  <2>1. \A kind : OfKind(a, rid, kind) # {} <=> \E k \in A : a.requests[k].kind = kind
    BY <1>7
  <2> QED BY <1>4, <1>5, <1>7, <2>1, ZenonT(40) DEF SoundCount, A, r, base
<1>10. r.deleted => new.deletePruned # (\E k \in A \ F : a.requests[k].kind = "delete")
  <2> SUFFICES ASSUME r.deleted PROVE new.deletePruned # (\E k \in A \ F : a.requests[k].kind = "delete")
    OBVIOUS
  <2>1. \A k, l \in A : a.requests[k].kind = "delete" /\ a.requests[l].kind = "delete" => k = l
    BY <1>6
  <2>2. CASE \E k \in F : a.requests[k].kind = "delete"
    BY <1>3, <2>1, <2>2
  <2>3. CASE ~\E k \in F : a.requests[k].kind = "delete"
    BY <1>3, <1>5, <1>9, <2>3
  <2> QED BY <2>2, <2>3
<1>11. ~r.deleted => (\A k \in A \ F : a.requests[k].kind # "delete") /\ ~new.deletePruned
  BY <1>3, <1>9
<1>12. \A n \in new.through + 1 .. r.revision : \E k \in A \ F : a.requests[k].revision = n
  <2> SUFFICES ASSUME NEW n \in new.through + 1 .. r.revision PROVE \E k \in A \ F : a.requests[k].revision = n
    OBVIOUS
  <2>1. n \in base.through + 1 .. r.revision
    BY <1>3, <1>5
  <2>2. PICK k \in A : a.requests[k].revision = n
    BY <1>9, <2>1
  <2>3. ~(a.requests[k].revision <= new.through)
    BY <1>3, <1>5, <2>2
  <2> QED BY <1>3, <2>2, <2>3
<1>13. (\E k \in A \ F : a.requests[k].kind = "create") <=> new.through = 0
  <2>1. CASE F = {}
    BY <1>3, <1>9, <2>1
  <2>2. CASE F # {}
    <3>1. new.through >= 1
      BY <1>3, <1>5, <2>2
    <3>2. \A k \in A : a.requests[k].kind = "create" => a.requests[k].revision <= new.through
      BY <1>6, <3>1, <1>3
    <3> QED BY <1>3, <3>1, <3>2
  <2> QED BY <2>1, <2>2
<1>14. r.secretVersion = (IF new.through = 0 THEN 1 ELSE new.secretVersion)
                            + Cardinality({k \in A \ F : a.requests[k].kind = "patch"})
  <2> DEFINE all == {k \in A : a.requests[k].kind = "patch"}
             gone == {k \in F : a.requests[k].kind = "patch"}
             left == {k \in A \ F : a.requests[k].kind = "patch"}
  <2>1. CASE F = {}
    <3>1. left = all /\ new = base
      BY <1>3, <2>1
    <3> QED BY <1>9, <3>1
  <2>2. CASE F # {}
    <3>1. all = gone \cup left /\ gone \cap left = {}
      BY <1>3
    <3>2. all \subseteq DOMAIN a.requests /\ gone \subseteq all /\ left \subseteq all
      BY <1>3, <1>6
    <3>3. new.secretVersion = (IF \E k \in F : a.requests[k].kind = "create" THEN 1 ELSE base.secretVersion)
                                + Cardinality(gone)
      BY <1>3, <2>2
    <3>4. r.secretVersion = (IF base.through = 0 THEN 1 ELSE base.secretVersion) + Cardinality(all)
      BY <1>9
    <3> HIDE DEF all, gone, left
    <3>5. IsFiniteSet(all) /\ IsFiniteSet(gone) /\ IsFiniteSet(left)
      BY <3>2, FS_Subset DEF Whole
    <3>6. Cardinality(all) = Cardinality(gone) + Cardinality(left)
          /\ Cardinality(gone) \in Nat /\ Cardinality(left) \in Nat
      <4>1. Cardinality(gone \cup left) = Cardinality(gone) + Cardinality(left) - Cardinality(gone \cap left)
        BY <3>5, FS_Union
      <4>2. Cardinality(gone \cap left) = 0
        BY <3>1, FS_EmptySet
      <4> QED BY <3>1, <3>5, <4>1, <4>2, FS_CardinalityType
    <3>7. new.through # 0
      BY <1>3, <1>5, <2>2
    <3>8. (\E k \in F : a.requests[k].kind = "create") <=> base.through = 0
      <4>1. \A k \in A : a.requests[k].kind = "create" => k \in F
        BY <1>3, <1>5, <1>6, <2>2
      <4> QED BY <1>3, <1>9, <4>1
    <3>9. r.secretVersion = new.secretVersion + Cardinality(left)
      BY <1>5, <3>3, <3>4, <3>6, <3>8
    <3> QED BY <3>7, <3>9 DEF left
  <2> QED BY <2>1, <2>2
<1>15. \A kind : OfKind(b, rid, kind) # {} <=> \E k \in A \ F : a.requests[k].kind = kind
  BY <1>8
<1>16. new.deletePruned \in BOOLEAN
  BY <1>3, <1>5
<1>17. \A k \in A \ F : b.requests[k] = a.requests[k]
  BY <1>1
<1>18. SoundCount(b, rid)
  <2>1. /\ r.deleted => new.deletePruned # (OfKind(b, rid, "delete") # {})
        /\ ~r.deleted => OfKind(b, rid, "delete") = {} /\ ~new.deletePruned
        /\ OfKind(b, rid, "create") # {} <=> new.through = 0
    BY <1>5, <1>10, <1>11, <1>13, <1>15, <1>16
  <2>2. r.secretVersion = (IF new.through = 0 THEN 1 ELSE new.secretVersion)
                            + Cardinality(OfKind(b, rid, "patch"))
    BY <1>8, <1>14
  <2>3. \A n \in new.through + 1 .. r.revision : \E k \in Receipts(b, rid) : b.requests[k].revision = n
    BY <1>1, <1>12, <1>17
  <2> QED BY <1>2, <2>1, <2>2, <2>3 DEF SoundCount, new, r
<1> QED BY <1>18 DEF b

LEMMA FoldIsWhole ==
    ASSUME NEW a, Whole(a), Sound(a)
    PROVE  Whole(FoldReceipts(a))
<1> DEFINE b == FoldReceipts(a)
<1>1. /\ Formed(b) /\ b.records = a.records /\ b.grants = a.grants /\ b.deliveries = a.deliveries
      /\ b.audit = a.audit /\ b.clockFrozen = a.clockFrozen
      /\ b.baselines = [rid \in DOMAIN a.records |-> FoldedBaseline(a, rid)]
      /\ Part(b.requests, a.requests)
  BY FoldFrame, FoldDrops DEF Whole
<1> HIDE DEF b
<1>2. ASSUME NEW rid \in DOMAIN b.baselines
      PROVE  LET base == b.baselines[rid] IN
             /\ base.through \in Nat /\ base.secretVersion \in Nat
             /\ base.deletePruned \in BOOLEAN /\ base.registrationDispatched \in BOOLEAN
             /\ base.verifiedLogin \in BOOLEAN
  <2> DEFINE base == Baseline(a, rid)
             new == FoldedBaseline(a, rid)
             F == Folded(a, rid)
             P == {k \in F : a.requests[k].kind = "patch"}
  <2>1. rid \in DOMAIN a.records /\ b.baselines[rid] = new
    BY <1>1
  <2>2. /\ new.through \in Nat /\ F \subseteq Receipts(a, rid) /\ (F = {} => new = base)
        /\ new.registrationDispatched = base.registrationDispatched
        /\ new.verifiedLogin = base.verifiedLogin
        /\ new.deletePruned = (base.deletePruned \/ \E k \in F : a.requests[k].kind = "delete")
        /\ F # {} => new.secretVersion =
                    (IF \E k \in F : a.requests[k].kind = "create" THEN 1 ELSE base.secretVersion)
                        + Cardinality(P)
    BY <2>1, FoldedFacts
  <2>3. /\ base.through \in Nat /\ base.secretVersion \in Nat
        /\ base.deletePruned \in BOOLEAN /\ base.registrationDispatched \in BOOLEAN
        /\ base.verifiedLogin \in BOOLEAN
    BY BaselineWhole
  <2>4. Cardinality(P) \in Nat
    <3>1. P \subseteq DOMAIN a.requests
      BY <2>2 DEF Receipts
    <3> HIDE DEF P
    <3> QED BY <3>1, FS_Subset, FS_CardinalityType DEF Whole
  <2> HIDE DEF P, F, new, base
  <2>5. new.secretVersion \in Nat
    BY <2>2, <2>3, <2>4
  <2>6. new.deletePruned \in BOOLEAN
    BY <2>2, <2>3
  <2> QED BY <2>1, <2>2, <2>3, <2>5, <2>6
<1>3. IsFiniteSet(DOMAIN b.requests) /\ \A key \in DOMAIN b.requests : b.requests[key].revision \in Nat
  BY <1>1, FS_Subset DEF Whole, Part
<1> QED BY <1>1, <1>2, <1>3 DEF Whole, b

\* What the new baseline says of grants, and of the version.
LEMMA FoldBaselines ==
    ASSUME NEW a, Whole(a), Sound(a), Lasting(a), NEW rid \in DOMAIN a.records
    PROVE  SoundBaseline(FoldReceipts(a), rid)
<1> DEFINE b == FoldReceipts(a)
           base == Baseline(a, rid)
           new == FoldedBaseline(a, rid)
           F == Folded(a, rid)
<1>1. /\ b.records = a.records /\ b.grants = a.grants
      /\ b.baselines = [r \in DOMAIN a.records |-> FoldedBaseline(a, r)]
      /\ Part(b.requests, a.requests)
      /\ DOMAIN b.requests = DOMAIN a.requests \ UNION {Folded(a, r) : r \in DOMAIN a.records}
  BY FoldFrame DEF Whole
<1>2. /\ new.through \in Nat /\ new.through <= a.records[rid].revision
      /\ F = {} => new = base
      /\ F # {} => new.through > base.through
      /\ F \subseteq Receipts(a, rid)
      /\ \A k \in Receipts(a, rid) : k \in F <=> a.requests[k].revision <= new.through
      /\ new.verifiedLogin = base.verifiedLogin
      /\ new.prunedGrants = base.prunedGrants
                    \cup {a.requests[k].grant : k \in {l \in F : a.requests[l].kind = "share"}}
      /\ F # {} => new.secretVersion =
                    (IF \E k \in F : a.requests[k].kind = "create" THEN 1 ELSE base.secretVersion)
                        + Cardinality({k \in F : a.requests[k].kind = "patch"})
  BY FoldedFacts
<1>3. base.through \in Nat /\ base.secretVersion \in Nat
  BY BaselineWhole
<1>4. /\ base.through = 0 => base.secretVersion = 0 /\ ~base.deletePruned /\ base.prunedGrants = {}
      /\ base.through > 0 => base.secretVersion >= 1
      /\ ~base.verifiedLogin
      /\ \A g \in base.prunedGrants :
            /\ g \in DOMAIN a.grants /\ a.grants[g].record = rid
            /\ \A k \in DOMAIN a.requests : a.requests[k].kind = "share" => a.requests[k].grant # g
  <2>1. CASE rid \in DOMAIN a.baselines
    BY <2>1 DEF Sound, SoundBaseline, Baseline
  <2>2. CASE rid \notin DOMAIN a.baselines
    BY <2>2 DEF Baseline, NoBaseline
  <2> QED BY <2>1, <2>2
<1>5. rid \in DOMAIN b.baselines /\ b.baselines[rid] = new
  BY <1>1
<1>6. \A k \in DOMAIN b.requests : k \in DOMAIN a.requests /\ b.requests[k] = a.requests[k] /\ k \notin F
  BY <1>1 DEF Part
<1>7. Cardinality({k \in F : a.requests[k].kind = "patch"}) \in Nat
  <2> DEFINE P == {k \in F : a.requests[k].kind = "patch"}
  <2>1. P \subseteq DOMAIN a.requests
    BY <1>2 DEF Receipts
  <2> HIDE DEF P
  <2>2. Cardinality(P) \in Nat
    BY <2>1, FS_Subset, FS_CardinalityType DEF Whole
  <2> QED BY <2>2 DEF P
<1>8. SoundCount(a, rid)
  BY DEF Sound
<1>9. base.through = 0 => \E k \in Receipts(a, rid) : a.requests[k].kind = "create" /\ a.requests[k].revision = 1
  <2> SUFFICES ASSUME base.through = 0
               PROVE  \E k \in Receipts(a, rid) : a.requests[k].kind = "create" /\ a.requests[k].revision = 1
    OBVIOUS
  <2>1. PICK k \in Receipts(a, rid) : a.requests[k].kind = "create"
    BY <1>8 DEF SoundCount, OfKind
  <2>2. ValidReceipt(a, k)
    BY DEF Receipts, Sound
  <2> QED BY <2>1, <2>2 DEF ValidReceipt
<1> HIDE DEF b, base, new, F
<1>10. new.through = 0 => F = {}
  BY <1>2, <1>3
<1>11. new.through > 0 => new.secretVersion >= 1
  <2>1. CASE F = {}
    BY <1>2, <1>4, <2>1
  <2>2. CASE F # {} /\ base.through = 0
    <3>1. new.through >= 1
      BY <1>2, <1>3, <2>2
    <3>2. \E k \in F : a.requests[k].kind = "create"
      BY <1>2, <1>9, <2>2, <3>1
    <3> QED BY <1>2, <1>7, <2>2, <3>2
  <2>3. CASE F # {} /\ base.through # 0
    BY <1>2, <1>3, <1>4, <1>7, <2>3
  <2> QED BY <2>1, <2>2, <2>3
<1>12. ASSUME NEW g \in new.prunedGrants
       PROVE  /\ g \in DOMAIN b.grants /\ b.grants[g].record = rid
              /\ \A k \in DOMAIN b.requests : b.requests[k].kind = "share" => b.requests[k].grant # g
  <2>1. CASE g \in base.prunedGrants
    BY <1>1, <1>4, <1>6, <2>1
  <2>2. CASE \E k \in F : a.requests[k].kind = "share" /\ a.requests[k].grant = g
    <3>1. PICK k \in F : a.requests[k].kind = "share" /\ a.requests[k].grant = g
      BY <2>2
    <3>2. k \in DOMAIN a.requests /\ a.requests[k].record = rid
      BY <1>2 DEF Receipts
    <3>3. ValidReceipt(a, k)
      BY <3>2 DEF Sound
    <3>4. g \in DOMAIN a.grants /\ a.grants[g].record = rid
      BY <3>1, <3>2, <3>3 DEF ValidReceipt
    <3>5. ASSUME NEW l \in DOMAIN b.requests, b.requests[l].kind = "share", b.requests[l].grant = g PROVE FALSE
      <4>1. l = k
        BY <1>6, <3>1, <3>2, <3>5 DEF Lasting
      <4> QED BY <1>6, <4>1
    <3> QED BY <1>1, <3>4, <3>5
  <2> QED BY <1>2, <2>1, <2>2
<1>13. new.through = 0 => new.secretVersion = 0 /\ ~new.deletePruned /\ new.prunedGrants = {}
  BY <1>2, <1>4, <1>10
<1> QED BY <1>1, <1>2, <1>4, <1>5, <1>11, <1>12, <1>13 DEF SoundBaseline, b

LEMMA FoldGood ==
    ASSUME NEW a, Good(a)
    PROVE  LET b == FoldReceipts(a) IN
           /\ Good(b) /\ DOMAIN b.baselines = DOMAIN b.records
           /\ \A rid \in DOMAIN b.records, k \in DOMAIN b.requests :
                b.requests[k].record = rid /\ b.requests[k].revision = Baseline(b, rid).through + 1
                    => ~Stale(b, b.requests[k].at)
<1> DEFINE b == FoldReceipts(a)
<1>1. Whole(a) /\ Sound(a) /\ Lasting(a) /\ Sized(a) /\ Dated(a) /\ (a.clockFrozen => a.lastTime # 0)
  BY DEF Good
<1>2. Whole(b)
  BY <1>1, FoldIsWhole
<1>3. /\ b.lastTime = a.lastTime /\ b.clockFrozen = a.clockFrozen
      /\ b.tasks = a.tasks /\ b.records = a.records /\ b.grants = a.grants /\ b.audit = a.audit
      /\ b.deliveries = a.deliveries /\ b.revokedTasks = a.revokedTasks
      /\ b.baselines = [rid \in DOMAIN a.records |-> FoldedBaseline(a, rid)]
      /\ Part(b.requests, a.requests)
      /\ DOMAIN b.requests = DOMAIN a.requests \ UNION {Folded(a, rid) : rid \in DOMAIN a.records}
  BY <1>1, FoldFrame DEF Whole
<1>4. \A rid \in DOMAIN a.records : SoundBaseline(b, rid) /\ SoundCount(b, rid)
  BY <1>1, FoldBaselines, FoldCounts
<1>5. \A rid \in DOMAIN a.records :
        /\ Baseline(b, rid) = FoldedBaseline(a, rid)
        /\ Receipts(b, rid) = Receipts(a, rid) \ Folded(a, rid)
        /\ \A k \in Receipts(b, rid) : b.requests[k] = a.requests[k]
  BY <1>1, FoldLeaves
<1> HIDE DEF b
<1>6. \A k \in DOMAIN b.requests : k \in DOMAIN a.requests /\ b.requests[k] = a.requests[k]
  BY <1>3 DEF Part
<1>7. Lasting(b)
  <2>1. \A k \in DOMAIN b.requests :
            b.requests[k].kind = "delete" => b.requests[k].revision = b.records[b.requests[k].record].revision
    BY <1>1, <1>3, <1>6 DEF Lasting
  <2>2. \A k, l \in DOMAIN b.requests :
            b.requests[k].kind = "share" /\ b.requests[l].kind = "share" /\ b.requests[k].grant = b.requests[l].grant
                => k = l
    BY <1>1, <1>6 DEF Lasting
  <2> QED BY <1>1, <1>3, <2>1, <2>2 DEF Lasting
<1>8. ASSUME NEW key \in DOMAIN b.requests
      PROVE  /\ ValidReceipt(b, key)
             /\ b.requests[key].revision = Baseline(b, b.requests[key].record).through + 1
                    => ~Stale(b, b.requests[key].at)
  <2> DEFINE rid == a.requests[key].record
  <2>1. key \in DOMAIN a.requests /\ b.requests[key] = a.requests[key] /\ ValidReceipt(a, key)
    BY <1>1, <1>6 DEF Sound
  <2>2. rid \in DOMAIN a.records
    BY <2>1 DEF ValidReceipt
  <2>3. key \in Receipts(b, rid) /\ key \in Receipts(a, rid) /\ key \notin Folded(a, rid)
    <3>1. key \in Receipts(b, rid)
      BY <2>1 DEF Receipts
    <3> HIDE DEF rid
    <3> QED BY <1>5, <2>2, <3>1
  <2>4. /\ FoldedBaseline(a, rid).through \in Nat
        /\ \A k \in Receipts(a, rid) : k \in Folded(a, rid) <=> a.requests[k].revision <= FoldedBaseline(a, rid).through
        /\ \A k \in Receipts(a, rid) :
                a.requests[k].revision = FoldedBaseline(a, rid).through + 1 => ~Stale(a, a.requests[k].at)
    BY <1>1, <2>2, FoldedFacts
  <2>5. Baseline(b, rid) = FoldedBaseline(a, rid) /\ Receipts(b, rid) \subseteq Receipts(a, rid)
    BY <1>5, <2>2
  <2>6. a.requests[key].revision \in Nat
    BY <1>1, <2>1 DEF Whole
  <2>7. a.requests[key].revision > Baseline(b, rid).through
    BY <2>3, <2>4, <2>5, <2>6
  <2>8. \A l \in Receipts(b, rid) : b.requests[l].revision = b.requests[key].revision => l = key
    <3>1. \A l \in Receipts(a, rid) : a.requests[l].revision = a.requests[key].revision => l = key
      BY <2>1 DEF ValidReceipt
    <3> HIDE DEF rid
    <3> QED BY <1>5, <2>1, <2>2, <2>5, <3>1
  <2>9. ValidReceipt(b, key)
    BY <1>3, <2>1, <2>7, <2>8 DEF ValidReceipt
  <2>10. a.requests[key].revision = Baseline(b, rid).through + 1 => ~Stale(b, a.requests[key].at)
    BY <1>3, <2>3, <2>4, <2>5 DEF Stale
  <2> QED BY <2>1, <2>9, <2>10
<1>9. ASSUME NEW g \in DOMAIN b.grants PROVE Listed(b, g)
  <2>1. Listed(a, g)
    BY <1>1, <1>3 DEF Sound
  <2>2. CASE \E k \in DOMAIN a.requests : a.requests[k].kind = "share" /\ a.requests[k].grant = g
    <3>1. PICK k \in DOMAIN a.requests : a.requests[k].kind = "share" /\ a.requests[k].grant = g
      BY <2>2
    <3>2. CASE k \in DOMAIN b.requests
      BY <1>6, <3>1, <3>2 DEF Listed
    <3>3. CASE k \notin DOMAIN b.requests
      <4>1. PICK rid \in DOMAIN a.records : k \in Folded(a, rid)
        BY <1>3, <3>3
      <4>2. a.requests[k].grant \in {a.requests[l].grant : l \in {m \in Folded(a, rid) : a.requests[m].kind = "share"}}
        BY <3>1, <4>1
      <4>3. g \in FoldedBaseline(a, rid).prunedGrants
        BY <1>1, <3>1, <4>2, FoldedFacts, ZenonT(40)
      <4> QED BY <1>3, <4>3 DEF Listed
    <3> QED BY <3>2, <3>3
  <2>3. CASE \E rid \in DOMAIN a.baselines : g \in a.baselines[rid].prunedGrants
    <3>1. PICK rid \in DOMAIN a.baselines : g \in a.baselines[rid].prunedGrants
      BY <2>3
    <3>2. rid \in DOMAIN a.records
      BY <1>1 DEF Sound, SoundBaseline
    <3>3. g \in FoldedBaseline(a, rid).prunedGrants
      <4>1. g \in Baseline(a, rid).prunedGrants
        BY <3>1 DEF Baseline
      <4> QED BY <1>1, <3>2, <4>1, FoldedFacts
    <3> QED BY <1>3, <3>2, <3>3 DEF Listed
  <2> QED BY <2>1, <2>2, <2>3 DEF Listed
<1>10. Sound(b)
  <2>1. \A rid \in DOMAIN b.records : ValidRecord(b, b.records[rid])
    BY <1>1, <1>3 DEF Sound, ValidRecord
  <2>2. \A g \in DOMAIN b.grants : ValidGrant(b, b.grants[g])
    <3>1. \A g \in DOMAIN a.grants : ValidGrant(a, a.grants[g])
      BY <1>1 DEF Sound
    <3> SUFFICES ASSUME NEW g \in DOMAIN b.grants PROVE ValidGrant(b, b.grants[g])
      OBVIOUS
    <3>2. ValidGrant(a, b.grants[g])
      BY <1>3, <3>1
    <3> QED BY <1>3, <3>2 DEF ValidGrant
  <2>3. \A id \in DOMAIN b.deliveries : ValidDelivery(b, id)
    <3> SUFFICES ASSUME NEW id \in DOMAIN b.deliveries PROVE ValidDelivery(b, id)
      OBVIOUS
    <3>1. ValidDelivery(a, id)
      BY <1>1, <1>3 DEF Sound
    <3>2. b.deliveries[id].key \notin DOMAIN b.requests
      BY <1>3, <1>6, <3>1 DEF ValidDelivery
    <3> QED BY <1>3, <3>1, <3>2 DEF ValidDelivery
  <2> QED BY <1>1, <1>3, <1>4, <1>8, <1>9, <2>1, <2>2, <2>3 DEF Sound
<1>11. Sized(b) /\ Dated(b)
  <2>1. Cardinality(DOMAIN b.requests) <= Limit
    <3>1. DOMAIN b.requests \subseteq DOMAIN a.requests /\ IsFiniteSet(DOMAIN a.requests)
      BY <1>1, <1>6 DEF Whole
    <3> QED BY <1>1, <3>1, FS_Subset, FS_CardinalityType, PolicyConstants DEF Sized
  <2> QED BY <1>1, <1>3, <2>1 DEF Sized, Dated
<1>12. Good(b)
  BY <1>1, <1>2, <1>3, <1>7, <1>10, <1>11 DEF Good
<1>13. DOMAIN b.baselines = DOMAIN b.records
  BY <1>3
<1> QED BY <1>8, <1>12, <1>13 DEF b

\* What the later stages may do: leave things out that nothing left names.
Thins(a, b) ==
    /\ b.lastTime = a.lastTime /\ b.clockFrozen = a.clockFrozen /\ b.requests = a.requests
    /\ Part(b.tasks, a.tasks) /\ Part(b.records, a.records) /\ Part(b.grants, a.grants)
    /\ Part(b.deliveries, a.deliveries)
    /\ b.revokedTasks \subseteq DOMAIN b.tasks
    /\ \A rid \in DOMAIN b.records : b.records[rid].task \in DOMAIN b.tasks
    /\ \A g \in DOMAIN b.grants :
        b.grants[g].record \in DOMAIN b.records /\ b.grants[g].issuerTask \in DOMAIN b.tasks
    /\ \A d \in DOMAIN b.deliveries :
        b.deliveries[d].record \in DOMAIN b.records /\ b.deliveries[d].task \in DOMAIN b.tasks
    /\ \A k \in DOMAIN b.requests :
        /\ k.task \in DOMAIN b.tasks /\ b.requests[k].record \in DOMAIN b.records
        /\ b.requests[k].kind \in {"share", "revoke"} => b.requests[k].grant \in DOMAIN b.grants
    /\ DOMAIN b.baselines \subseteq DOMAIN b.records
    /\ \A rid \in DOMAIN b.records :
        LET old == Baseline(a, rid)
            new == Baseline(b, rid)
        IN  /\ new.through = old.through /\ new.secretVersion = old.secretVersion
            /\ new.deletePruned = old.deletePruned /\ new.prunedGrants = old.prunedGrants \cap DOMAIN b.grants
            /\ new.registrationDispatched \in BOOLEAN /\ new.verifiedLogin = FALSE
    /\ b.audit \in Seq(Events) /\ Len(b.audit) <= Len(a.audit)
    /\ \A i \in DOMAIN b.audit : \E j \in DOMAIN a.audit : b.audit[i] = a.audit[j]

\* A record that is kept was there, and its baseline reaches as far as before.
LEMMA ThinsThrough ==
    ASSUME NEW a, NEW b, Thins(a, b), NEW rid \in DOMAIN b.records
    PROVE  rid \in DOMAIN a.records /\ Baseline(b, rid).through = Baseline(a, rid).through
BY Zenon DEF Thins, Part

LEMMA ThinsSound ==
    ASSUME NEW a, Good(a), NEW b, Whole(b), Thins(a, b)
    PROVE  Sound(b)
<1>1. Whole(a) /\ Sound(a)
  BY DEF Good
<1>2. /\ \A t \in DOMAIN b.tasks : t \in DOMAIN a.tasks /\ b.tasks[t] = a.tasks[t]
      /\ \A r \in DOMAIN b.records : r \in DOMAIN a.records /\ b.records[r] = a.records[r]
      /\ \A g \in DOMAIN b.grants : g \in DOMAIN a.grants /\ b.grants[g] = a.grants[g]
      /\ \A d \in DOMAIN b.deliveries : d \in DOMAIN a.deliveries /\ b.deliveries[d] = a.deliveries[d]
      /\ b.requests = a.requests /\ b.revokedTasks \subseteq DOMAIN b.tasks
      /\ DOMAIN b.baselines \subseteq DOMAIN b.records
  BY DEF Thins, Part
<1>3. /\ \A rid \in DOMAIN b.records : b.records[rid].task \in DOMAIN b.tasks
      /\ \A g \in DOMAIN b.grants :
            b.grants[g].record \in DOMAIN b.records /\ b.grants[g].issuerTask \in DOMAIN b.tasks
      /\ \A d \in DOMAIN b.deliveries :
            b.deliveries[d].record \in DOMAIN b.records /\ b.deliveries[d].task \in DOMAIN b.tasks
      /\ \A k \in DOMAIN b.requests :
            /\ k.task \in DOMAIN b.tasks /\ b.requests[k].record \in DOMAIN b.records
            /\ b.requests[k].kind \in {"share", "revoke"} => b.requests[k].grant \in DOMAIN b.grants
  BY DEF Thins
<1>4. \A rid \in DOMAIN b.records :
        LET old == Baseline(a, rid)
            new == Baseline(b, rid)
        IN  /\ new.through = old.through /\ new.secretVersion = old.secretVersion
            /\ new.deletePruned = old.deletePruned /\ new.prunedGrants = old.prunedGrants \cap DOMAIN b.grants
            /\ new.verifiedLogin = FALSE
  BY DEF Thins
<1>5. \A rid : Receipts(b, rid) = Receipts(a, rid)
  BY <1>2 DEF Receipts
<1>6. ASSUME NEW rid \in DOMAIN b.records PROVE ValidRecord(b, b.records[rid])
  <2>1. ValidRecord(a, b.records[rid])
    BY <1>1, <1>2 DEF Sound
  <2> QED BY <1>2, <1>3, <2>1 DEF ValidRecord
<1>7. ASSUME NEW g \in DOMAIN b.grants PROVE ValidGrant(b, b.grants[g])
  <2> DEFINE e == b.grants[g]
  <2>1. ValidGrant(a, e)
    BY <1>1, <1>2 DEF Sound
  <2>2. /\ e.record \in DOMAIN b.records /\ e.issuerTask \in DOMAIN b.tasks
        /\ a.records[e.record] = b.records[e.record] /\ a.tasks[e.issuerTask] = b.tasks[e.issuerTask]
    BY <1>2, <1>3
  <2> HIDE DEF e
  <2>3. ValidGrant(b, e)
    BY <2>1, <2>2 DEF ValidGrant
  <2> QED BY <2>3 DEF e
<1>8. ASSUME NEW key \in DOMAIN b.requests PROVE ValidReceipt(b, key)
  <2> DEFINE c == b.requests[key]
  <2>1. ValidReceipt(a, key) /\ a.requests[key] = c
    BY <1>1, <1>2 DEF Sound
  <2>2. /\ c.record \in DOMAIN b.records /\ key.task \in DOMAIN b.tasks
        /\ a.records[c.record] = b.records[c.record] /\ a.tasks[key.task] = b.tasks[key.task]
        /\ Baseline(b, c.record).through = Baseline(a, c.record).through
        /\ c.kind \in {"share", "revoke"} => c.grant \in DOMAIN b.grants /\ a.grants[c.grant] = b.grants[c.grant]
    BY <1>2, <1>3, <1>4
  <2>3. \A l \in Receipts(b, c.record) : b.requests[l].revision = c.revision => l = key
    BY <1>2, <1>5, <2>1 DEF ValidReceipt
  <2> HIDE DEF c
  <2>4. b.requests[key] = c
    BY DEF c
  <2> QED BY <2>1, <2>2, <2>3, <2>4 DEF ValidReceipt
<1>9. ASSUME NEW rid \in DOMAIN b.baselines PROVE SoundBaseline(b, rid)
  <2> DEFINE old == Baseline(a, rid)
             new == Baseline(b, rid)
  <2>1. rid \in DOMAIN b.records /\ rid \in DOMAIN a.records /\ b.records[rid] = a.records[rid]
    BY <1>2
  <2>2. /\ old.through \in Nat /\ a.records[rid].revision \in Nat
    BY <1>1, <2>1, BaselineWhole DEF Whole, Formed
  <2>3. /\ old.through <= a.records[rid].revision
        /\ old.through = 0 => old.secretVersion = 0 /\ ~old.deletePruned /\ old.prunedGrants = {}
        /\ old.through > 0 => old.secretVersion >= 1
        /\ \A g \in old.prunedGrants :
            /\ g \in DOMAIN a.grants /\ a.grants[g].record = rid
            /\ \A k \in DOMAIN a.requests : a.requests[k].kind = "share" => a.requests[k].grant # g
    <3>1. CASE rid \in DOMAIN a.baselines
      BY <1>1, <3>1 DEF Sound, SoundBaseline, Baseline
    <3>2. CASE rid \notin DOMAIN a.baselines
      BY <2>2, <3>2 DEF Baseline, NoBaseline
    <3> QED BY <3>1, <3>2
  <2>4. /\ new.through = old.through /\ new.secretVersion = old.secretVersion
        /\ new.deletePruned = old.deletePruned /\ new.prunedGrants = old.prunedGrants \cap DOMAIN b.grants
        /\ new.verifiedLogin = FALSE
    BY <1>4, <2>1
  <2>5. b.baselines[rid] = new
    BY DEF Baseline
  <2> HIDE DEF old, new
  <2> QED BY <1>2, <2>1, <2>3, <2>4, <2>5 DEF SoundBaseline
<1>10. ASSUME NEW rid \in DOMAIN b.records PROVE SoundCount(b, rid)
  <2>1. SoundCount(a, rid) /\ a.records[rid] = b.records[rid]
    BY <1>1, <1>2 DEF Sound
  <2>2. \A kind : OfKind(b, rid, kind) = OfKind(a, rid, kind)
    BY <1>2, <1>5 DEF OfKind
  <2>3. /\ Baseline(b, rid).through = Baseline(a, rid).through
        /\ Baseline(b, rid).secretVersion = Baseline(a, rid).secretVersion
        /\ Baseline(b, rid).deletePruned = Baseline(a, rid).deletePruned
    BY <1>4
  <2> QED BY <1>2, <1>5, <2>1, <2>2, <2>3 DEF SoundCount
<1>11. ASSUME NEW g \in DOMAIN b.grants PROVE Listed(b, g)
  <2>1. Listed(a, g) /\ a.grants[g] = b.grants[g]
    BY <1>1, <1>2 DEF Sound
  <2>2. CASE \E k \in DOMAIN a.requests : a.requests[k].kind = "share" /\ a.requests[k].grant = g
    BY <1>2, <2>2 DEF Listed
  <2>3. ASSUME NEW rid \in DOMAIN a.baselines, g \in a.baselines[rid].prunedGrants PROVE Listed(b, g)
    <3>1. a.grants[g].record = rid
      BY <1>1, <2>3 DEF Sound, SoundBaseline
    <3>2. rid \in DOMAIN b.records
      BY <1>3, <2>1, <3>1
    <3>3. g \in Baseline(b, rid).prunedGrants
      BY <1>4, <2>3, <3>2 DEF Baseline
    <3>4. rid \in DOMAIN b.baselines
      BY <3>3 DEF Baseline, NoBaseline
    <3> QED BY <3>3, <3>4 DEF Listed, Baseline
  <2> QED BY <2>1, <2>2, <2>3 DEF Listed
<1>12. ASSUME NEW id \in DOMAIN b.deliveries PROVE ValidDelivery(b, id)
  <2>1. ValidDelivery(a, id) /\ id \in DOMAIN a.deliveries /\ a.deliveries[id] = b.deliveries[id]
    BY <1>1, <1>2 DEF Sound
  <2>2. /\ b.deliveries[id].record \in DOMAIN b.records /\ b.deliveries[id].task \in DOMAIN b.tasks
        /\ a.records[b.deliveries[id].record] = b.records[b.deliveries[id].record]
        /\ a.tasks[b.deliveries[id].task] = b.tasks[b.deliveries[id].task]
    BY <1>2, <1>3
  <2> QED BY <1>2, <2>1, <2>2, ZenonT(40) DEF ValidDelivery
<1>13. \A tid \in DOMAIN b.tasks : ApprovalValid(b.tasks[tid], 0)
  BY <1>1, <1>2 DEF Sound
<1> QED BY <1>2, <1>6, <1>7, <1>8, <1>9, <1>10, <1>11, <1>12, <1>13 DEF Sound

LEMMA ThinsGood ==
    ASSUME NEW a, Good(a), NEW b, Formed(b), Thins(a, b)
    PROVE  Good(b)
<1>1. Whole(a) /\ Sound(a) /\ Lasting(a) /\ Sized(a) /\ Dated(a) /\ (a.clockFrozen => a.lastTime # 0)
  BY DEF Good
<1>2. /\ b.lastTime = a.lastTime /\ b.clockFrozen = a.clockFrozen
      /\ \A t \in DOMAIN b.tasks : t \in DOMAIN a.tasks /\ b.tasks[t] = a.tasks[t]
      /\ \A r \in DOMAIN b.records : r \in DOMAIN a.records /\ b.records[r] = a.records[r]
      /\ \A g \in DOMAIN b.grants : g \in DOMAIN a.grants /\ b.grants[g] = a.grants[g]
      /\ \A d \in DOMAIN b.deliveries : d \in DOMAIN a.deliveries /\ b.deliveries[d] = a.deliveries[d]
      /\ b.requests = a.requests /\ DOMAIN b.baselines \subseteq DOMAIN b.records
      /\ b.audit \in Seq(Events) /\ Len(b.audit) <= Len(a.audit)
      /\ \A i \in DOMAIN b.audit : \E j \in DOMAIN a.audit : b.audit[i] = a.audit[j]
  BY DEF Thins, Part
<1>3. /\ IsFiniteSet(DOMAIN b.tasks) /\ Cardinality(DOMAIN b.tasks) <= Limit
      /\ IsFiniteSet(DOMAIN b.records) /\ Cardinality(DOMAIN b.records) <= Limit
      /\ IsFiniteSet(DOMAIN b.grants) /\ Cardinality(DOMAIN b.grants) <= Limit
      /\ IsFiniteSet(DOMAIN b.deliveries) /\ Cardinality(DOMAIN b.deliveries) <= Limit
  <2>1. ASSUME NEW S, NEW T, IsFiniteSet(T), S \subseteq T, Cardinality(T) <= Limit
        PROVE  IsFiniteSet(S) /\ Cardinality(S) <= Limit
    BY <2>1, FS_Subset, FS_CardinalityType, PolicyConstants
  <2>2. /\ IsFiniteSet(DOMAIN a.tasks) /\ IsFiniteSet(DOMAIN a.records)
        /\ IsFiniteSet(DOMAIN a.grants) /\ IsFiniteSet(DOMAIN a.deliveries)
    BY <1>1 DEF Whole, Formed
  <2>3. /\ DOMAIN b.tasks \subseteq DOMAIN a.tasks /\ DOMAIN b.records \subseteq DOMAIN a.records
        /\ DOMAIN b.grants \subseteq DOMAIN a.grants /\ DOMAIN b.deliveries \subseteq DOMAIN a.deliveries
    BY <1>2
  <2> QED BY <1>1, <2>1, <2>2, <2>3 DEF Sized
<1>4. ASSUME NEW rid \in DOMAIN b.baselines
      PROVE  LET base == b.baselines[rid] IN
             /\ base.through \in Nat /\ base.secretVersion \in Nat
             /\ base.deletePruned \in BOOLEAN /\ base.registrationDispatched \in BOOLEAN
             /\ base.verifiedLogin \in BOOLEAN
  <2>1. rid \in DOMAIN b.records
    BY <1>2
  <2>2. /\ Baseline(b, rid).through = Baseline(a, rid).through
        /\ Baseline(b, rid).secretVersion = Baseline(a, rid).secretVersion
        /\ Baseline(b, rid).deletePruned = Baseline(a, rid).deletePruned
        /\ Baseline(b, rid).registrationDispatched \in BOOLEAN /\ Baseline(b, rid).verifiedLogin = FALSE
    BY <2>1 DEF Thins
  <2>3. /\ Baseline(a, rid).through \in Nat /\ Baseline(a, rid).secretVersion \in Nat
        /\ Baseline(a, rid).deletePruned \in BOOLEAN
    BY <1>1, BaselineWhole
  <2>4. Baseline(b, rid) = b.baselines[rid]
    BY DEF Baseline
  <2> QED BY <2>2, <2>3, <2>4
<1>5. Len(b.audit) <= AuditCap
  <2>1. Len(a.audit) \in Nat /\ Len(b.audit) \in Nat /\ AuditCap \in Nat /\ Len(a.audit) <= AuditCap
    BY <1>1, <1>2, PolicyConstants DEF Whole
  <2> QED BY <1>2, <2>1
<1>6. Whole(b)
  BY <1>1, <1>2, <1>3, <1>4, <1>5 DEF Whole
<1>7. Lasting(b)
  <2>1. \A k \in DOMAIN b.requests :
            b.requests[k].kind = "delete" => b.requests[k].revision = b.records[b.requests[k].record].revision
    <3> SUFFICES ASSUME NEW k \in DOMAIN b.requests, b.requests[k].kind = "delete"
                 PROVE  b.requests[k].revision = b.records[b.requests[k].record].revision
      OBVIOUS
    <3>1. b.requests[k].record \in DOMAIN b.records
      BY DEF Thins
    <3> QED BY <1>1, <1>2, <3>1 DEF Lasting
  <2> QED BY <1>1, <1>2, <2>1 DEF Lasting
<1>8. Sound(b)
  BY <1>6, ThinsSound
<1>9. Dated(b)
  <2> SUFFICES ASSUME NEW i \in DOMAIN b.audit
               PROVE  LET e == b.audit[i] IN
                      /\ e.at <= b.lastTime
                      /\ e.task \in DOMAIN b.tasks /\ e.record \in DOMAIN b.records =>
                            b.tasks[e.task].site = b.records[e.record].site
    BY DEF Dated
  <2>1. PICK j \in DOMAIN a.audit : b.audit[i] = a.audit[j]
    BY <1>2
  <2> QED BY <1>1, <1>2, <2>1 DEF Dated
<1>10. Sized(b)
  BY <1>1, <1>2, <1>3 DEF Sized
<1> QED BY <1>1, <1>2, <1>6, <1>7, <1>8, <1>9, <1>10 DEF Good

\* A map is the function of its entries.
Mapped(m) == m = [k \in DOMAIN m |-> m[k]]

LEMMA RestrictIs ==
    ASSUME NEW m, NEW S \in SUBSET DOMAIN m
    PROVE  /\ Part(Restrict(m, S), m) /\ DOMAIN Restrict(m, S) = S /\ Mapped(Restrict(m, S))
           /\ \A k \in S : Restrict(m, S)[k] = m[k]
BY DEF Restrict, Part, Mapped

\* Nothing restricted to all of it.
LEMMA RestrictAll ==
    ASSUME NEW m, Mapped(m)
    PROVE  Restrict(m, DOMAIN m) = m
BY DEF Restrict, Mapped

\* A good application names only what it holds.
LEMMA GoodNames ==
    ASSUME NEW a, Good(a)
    PROVE  /\ a.revokedTasks \subseteq DOMAIN a.tasks
           /\ \A rid \in DOMAIN a.records : a.records[rid].task \in DOMAIN a.tasks
           /\ \A g \in DOMAIN a.grants :
                a.grants[g].record \in DOMAIN a.records /\ a.grants[g].issuerTask \in DOMAIN a.tasks
           /\ \A d \in DOMAIN a.deliveries :
                a.deliveries[d].record \in DOMAIN a.records /\ a.deliveries[d].task \in DOMAIN a.tasks
           /\ \A k \in DOMAIN a.requests :
                /\ k.task \in DOMAIN a.tasks /\ a.requests[k].record \in DOMAIN a.records
                /\ a.requests[k].kind \in {"share", "revoke"} => a.requests[k].grant \in DOMAIN a.grants
           /\ DOMAIN a.baselines \subseteq DOMAIN a.records
           /\ a.audit \in Seq(Events) /\ Len(a.audit) \in Nat
           /\ \A rid : /\ Baseline(a, rid).registrationDispatched \in BOOLEAN
                       /\ Baseline(a, rid).verifiedLogin = FALSE
                       /\ \A g \in Baseline(a, rid).prunedGrants : g \in DOMAIN a.grants
<1>1. Whole(a) /\ Sound(a)
  BY DEF Good
<1>2. \A k \in DOMAIN a.requests :
         /\ k.task \in DOMAIN a.tasks /\ a.requests[k].record \in DOMAIN a.records
         /\ a.requests[k].kind \in {"share", "revoke"} => a.requests[k].grant \in DOMAIN a.grants
  <2> SUFFICES ASSUME NEW k \in DOMAIN a.requests
               PROVE  /\ k.task \in DOMAIN a.tasks /\ a.requests[k].record \in DOMAIN a.records
                      /\ a.requests[k].kind \in {"share", "revoke"} => a.requests[k].grant \in DOMAIN a.grants
    OBVIOUS
  <2>1. ValidReceipt(a, k)
    BY <1>1 DEF Sound
  <2> QED BY <2>1 DEF ValidReceipt
<1>3. ASSUME NEW rid
      PROVE  /\ Baseline(a, rid).registrationDispatched \in BOOLEAN
             /\ Baseline(a, rid).verifiedLogin = FALSE
             /\ \A g \in Baseline(a, rid).prunedGrants : g \in DOMAIN a.grants
  <2>1. Baseline(a, rid).registrationDispatched \in BOOLEAN /\ Baseline(a, rid).verifiedLogin \in BOOLEAN
    BY <1>1, BaselineWhole
  <2>2. CASE rid \in DOMAIN a.baselines
    BY <1>1, <2>1, <2>2 DEF Sound, SoundBaseline, Baseline
  <2>3. CASE rid \notin DOMAIN a.baselines
    BY <2>3 DEF Baseline, NoBaseline
  <2> QED BY <2>1, <2>2, <2>3
<1>4. /\ \A rid \in DOMAIN a.records : a.records[rid].task \in DOMAIN a.tasks
      /\ \A g \in DOMAIN a.grants :
                a.grants[g].record \in DOMAIN a.records /\ a.grants[g].issuerTask \in DOMAIN a.tasks
      /\ \A d \in DOMAIN a.deliveries :
                a.deliveries[d].record \in DOMAIN a.records /\ a.deliveries[d].task \in DOMAIN a.tasks
  BY <1>1 DEF Sound, ValidRecord, ValidGrant, ValidDelivery
<1>5. DOMAIN a.baselines \subseteq DOMAIN a.records
  BY <1>1 DEF Sound, SoundBaseline
<1>6. a.audit \in Seq(Events) /\ Len(a.audit) \in Nat
  <2>1. a.audit \in Seq(Events)
    BY <1>1 DEF Whole
  <2> HIDE DEF Events
  <2> QED BY <2>1
<1> QED BY <1>1, <1>2, <1>3, <1>4, <1>5, <1>6 DEF Sound

LEMMA GrantsThin ==
    ASSUME NEW a, Good(a), DOMAIN a.baselines = DOMAIN a.records
    PROVE  LET b == DropGrants(a) IN
           /\ Thins(a, b) /\ Good(b) /\ DOMAIN b.baselines = DOMAIN b.records
           /\ b.tasks = a.tasks /\ b.records = a.records /\ b.deliveries = a.deliveries
           /\ b.requests = a.requests /\ b.revokedTasks = a.revokedTasks
           /\ Mapped(b.grants)
           /\ \A g \in DOMAIN b.grants :
                \/ ~b.grants[g].revoked /\ ~(b.grants[g].spec.expiresAt <= b.lastTime)
                \/ \E k \in DOMAIN b.requests : b.requests[k].grant = g
<1> DEFINE b == DropGrants(a)
           dropped == {g \in DOMAIN a.grants :
                        /\ a.grants[g].revoked \/ a.grants[g].spec.expiresAt <= a.lastTime
                        /\ \A cached \in Values(a.requests) : cached.grant # g}
           left == DOMAIN a.grants \ dropped
           grants == Restrict(a.grants, left)
           bases == [rid \in DOMAIN a.baselines |-> [a.baselines[rid] EXCEPT !.prunedGrants = @ \ dropped]]
<1>1. b = [a EXCEPT !.grants = grants, !.baselines = bases]
  BY DEF DropGrants
<1>2. Whole(a) /\ Formed(a)
  BY DEF Good, Whole
<1>3. \A g \in left :
        \/ ~a.grants[g].revoked /\ ~(a.grants[g].spec.expiresAt <= a.lastTime)
        \/ \E k \in DOMAIN a.requests : a.requests[k].grant = g
  BY DEF Values
<1>4. \A k \in DOMAIN a.requests : a.requests[k].grant \in DOMAIN a.grants => a.requests[k].grant \in left
  BY DEF Values
<1>5. left \in SUBSET DOMAIN a.grants /\ \A g \in DOMAIN a.grants : g \notin dropped <=> g \in left
  OBVIOUS
<1>6. \A rid \in DOMAIN a.baselines :
        LET old == a.baselines[rid]
            new == bases[rid]
        IN  /\ new.through = old.through /\ new.secretVersion = old.secretVersion
            /\ new.deletePruned = old.deletePruned /\ new.prunedGrants = old.prunedGrants \ dropped
            /\ new.registrationDispatched = old.registrationDispatched
            /\ new.verifiedLogin = old.verifiedLogin
  BY <1>2 DEF Formed, BaselineFields
<1>7. DOMAIN bases = DOMAIN a.baselines
  OBVIOUS
<1> HIDE DEF b, dropped, left, bases
<1>8. Part(grants, a.grants) /\ DOMAIN grants = left /\ Mapped(grants) /\ \A g \in left : grants[g] = a.grants[g]
  BY <1>5, RestrictIs
<1> HIDE DEF grants
<1>9. /\ b.lastTime = a.lastTime /\ b.clockFrozen = a.clockFrozen
      /\ b.tasks = a.tasks /\ b.records = a.records /\ b.grants = grants
      /\ b.deliveries = a.deliveries /\ b.revokedTasks = a.revokedTasks
      /\ b.baselines = bases /\ b.requests = a.requests /\ b.audit = a.audit
  BY <1>1, <1>2 DEF Formed, AppFields
<1>10. /\ a.revokedTasks \subseteq DOMAIN a.tasks
       /\ \A rid \in DOMAIN a.records : a.records[rid].task \in DOMAIN a.tasks
       /\ \A g \in DOMAIN a.grants :
                a.grants[g].record \in DOMAIN a.records /\ a.grants[g].issuerTask \in DOMAIN a.tasks
       /\ \A d \in DOMAIN a.deliveries :
                a.deliveries[d].record \in DOMAIN a.records /\ a.deliveries[d].task \in DOMAIN a.tasks
       /\ \A k \in DOMAIN a.requests :
                /\ k.task \in DOMAIN a.tasks /\ a.requests[k].record \in DOMAIN a.records
                /\ a.requests[k].kind \in {"share", "revoke"} => a.requests[k].grant \in DOMAIN a.grants
       /\ a.audit \in Seq(Events) /\ Len(a.audit) \in Nat
  BY GoodNames
<1>11. ASSUME NEW rid \in DOMAIN b.records
       PROVE  LET old == Baseline(a, rid)
                  new == Baseline(b, rid)
              IN  /\ new.through = old.through /\ new.secretVersion = old.secretVersion
                  /\ new.deletePruned = old.deletePruned
                  /\ new.prunedGrants = old.prunedGrants \cap DOMAIN b.grants
                  /\ new.registrationDispatched \in BOOLEAN /\ new.verifiedLogin = FALSE
  <2>1. rid \in DOMAIN a.baselines /\ Baseline(a, rid) = a.baselines[rid] /\ Baseline(b, rid) = bases[rid]
    BY <1>7, <1>9 DEF Baseline
  <2>2. /\ Baseline(a, rid).registrationDispatched \in BOOLEAN
        /\ Baseline(a, rid).verifiedLogin = FALSE
        /\ \A g \in Baseline(a, rid).prunedGrants : g \in DOMAIN a.grants
    BY GoodNames
  <2>3. a.baselines[rid].prunedGrants \ dropped = a.baselines[rid].prunedGrants \cap DOMAIN b.grants
    BY <1>5, <1>8, <1>9, <2>1, <2>2
  <2> QED BY <1>6, <2>1, <2>2, <2>3
<1>12. \A k \in DOMAIN b.requests : b.requests[k].kind \in {"share", "revoke"} => b.requests[k].grant \in DOMAIN b.grants
  BY <1>4, <1>8, <1>9, <1>10
<1>13. Part(b.tasks, a.tasks) /\ Part(b.records, a.records) /\ Part(b.deliveries, a.deliveries)
  BY <1>9 DEF Part
<1>14. \A i \in DOMAIN b.audit : \E j \in DOMAIN a.audit : b.audit[i] = a.audit[j]
  BY <1>9
<1>15. Thins(a, b)
  <2>1. /\ \A g \in DOMAIN b.grants :
            b.grants[g].record \in DOMAIN b.records /\ b.grants[g].issuerTask \in DOMAIN b.tasks
    BY <1>5, <1>8, <1>9, <1>10
  <2>2. DOMAIN b.baselines \subseteq DOMAIN b.records
    BY <1>7, <1>9
  <2>3. Len(b.audit) <= Len(a.audit)
    BY <1>9, <1>10
  <2> QED BY <1>8, <1>9, <1>10, <1>11, <1>12, <1>13, <1>14, <2>1, <2>2, <2>3 DEF Thins
<1>16. Good(b)
  <2>1. Formed(b)
    BY <1>2, GrantsDrop DEF b
  <2> QED BY <1>15, <2>1, ThinsGood
<1>17. \A g \in DOMAIN b.grants :
          \/ ~b.grants[g].revoked /\ ~(b.grants[g].spec.expiresAt <= b.lastTime)
          \/ \E k \in DOMAIN b.requests : b.requests[k].grant = g
  BY <1>3, <1>8, <1>9
<1>18. DOMAIN b.baselines = DOMAIN b.records
  BY <1>7, <1>9
<1> QED BY <1>8, <1>9, <1>15, <1>16, <1>17, <1>18 DEF b

LEMMA DeliveriesThin ==
    ASSUME NEW a, Good(a), DOMAIN a.baselines = DOMAIN a.records
    PROVE  LET b == DropDeliveries(a) IN
           /\ Thins(a, b) /\ Good(b) /\ DOMAIN b.baselines = DOMAIN b.records
           /\ b.tasks = a.tasks /\ b.records = a.records /\ b.grants = a.grants
           /\ b.requests = a.requests /\ b.revokedTasks = a.revokedTasks
           /\ Mapped(b.deliveries)
           /\ \A d \in DOMAIN b.deliveries :
                ~(b.deliveries[d].status # None /\ Stale(b, b.deliveries[d].at))
<1> DEFINE b == DropDeliveries(a)
           dropped == {d \in DOMAIN a.deliveries : a.deliveries[d].status # None /\ Stale(a, a.deliveries[d].at)}
           left == DOMAIN a.deliveries \ dropped
           kept == Restrict(a.deliveries, left)
           Of(rid) == {d \in Values(Restrict(a.deliveries, dropped)) : d.record = rid}
           bases == [rid \in DOMAIN a.baselines |-> [a.baselines[rid] EXCEPT
                      !.registrationDispatched = @ \/ \E d \in Of(rid) : SealsRegister(d),
                      !.verifiedLogin = @ \/ \E d \in Of(rid) : SealsLogin(a, d)]]
<1>1. b = [a EXCEPT !.deliveries = kept, !.baselines = bases]
  BY DEF DropDeliveries
<1>2. Whole(a) /\ Formed(a) /\ Lasting(a) /\ Sound(a)
  BY DEF Good, Whole
<1>3. left \in SUBSET DOMAIN a.deliveries /\ dropped \in SUBSET DOMAIN a.deliveries
      /\ \A d \in left : ~(a.deliveries[d].status # None /\ Stale(a, a.deliveries[d].at))
  OBVIOUS
<1>4. \A rid : ~\E d \in Of(rid) : SealsLogin(a, d)
  <2> SUFFICES ASSUME NEW rid, NEW d \in Of(rid), SealsLogin(a, d) PROVE FALSE
    OBVIOUS
  <2>1. PICK x \in dropped : d = a.deliveries[x]
    BY DEF Values, Restrict
  <2>2. d.record \in DOMAIN a.records
    BY <1>2, <2>1 DEF Sound, ValidDelivery
  <2> QED BY <1>2, <2>2 DEF SealsLogin, Lasting
<1> HIDE DEF b, dropped, left, Of
<1>5. \A rid \in DOMAIN a.baselines :
        LET old == a.baselines[rid]
            new == bases[rid]
        IN  /\ new.through = old.through /\ new.secretVersion = old.secretVersion
            /\ new.deletePruned = old.deletePruned /\ new.prunedGrants = old.prunedGrants
            /\ new.registrationDispatched = (old.registrationDispatched \/ \E d \in Of(rid) : SealsRegister(d))
            /\ new.verifiedLogin = (old.verifiedLogin \/ \E d \in Of(rid) : SealsLogin(a, d))
  BY <1>2 DEF Formed, BaselineFields
<1>6. DOMAIN bases = DOMAIN a.baselines
  OBVIOUS
<1> HIDE DEF bases
<1>7. Part(kept, a.deliveries) /\ DOMAIN kept = left /\ Mapped(kept) /\ \A d \in left : kept[d] = a.deliveries[d]
  BY <1>3, RestrictIs
<1> HIDE DEF kept
<1>8. /\ b.lastTime = a.lastTime /\ b.clockFrozen = a.clockFrozen
      /\ b.tasks = a.tasks /\ b.records = a.records /\ b.grants = a.grants
      /\ b.deliveries = kept /\ b.revokedTasks = a.revokedTasks
      /\ b.baselines = bases /\ b.requests = a.requests /\ b.audit = a.audit
  BY <1>1, <1>2 DEF Formed, AppFields
<1>9. /\ a.revokedTasks \subseteq DOMAIN a.tasks
      /\ \A rid \in DOMAIN a.records : a.records[rid].task \in DOMAIN a.tasks
      /\ \A g \in DOMAIN a.grants :
                a.grants[g].record \in DOMAIN a.records /\ a.grants[g].issuerTask \in DOMAIN a.tasks
      /\ \A d \in DOMAIN a.deliveries :
                a.deliveries[d].record \in DOMAIN a.records /\ a.deliveries[d].task \in DOMAIN a.tasks
      /\ \A k \in DOMAIN a.requests :
                /\ k.task \in DOMAIN a.tasks /\ a.requests[k].record \in DOMAIN a.records
                /\ a.requests[k].kind \in {"share", "revoke"} => a.requests[k].grant \in DOMAIN a.grants
      /\ a.audit \in Seq(Events) /\ Len(a.audit) \in Nat
  BY GoodNames
<1>10. ASSUME NEW rid \in DOMAIN b.records
       PROVE  LET old == Baseline(a, rid)
                  new == Baseline(b, rid)
              IN  /\ new.through = old.through /\ new.secretVersion = old.secretVersion
                  /\ new.deletePruned = old.deletePruned
                  /\ new.prunedGrants = old.prunedGrants \cap DOMAIN b.grants
                  /\ new.registrationDispatched \in BOOLEAN /\ new.verifiedLogin = FALSE
  <2>1. rid \in DOMAIN a.baselines /\ Baseline(a, rid) = a.baselines[rid] /\ Baseline(b, rid) = bases[rid]
    BY <1>6, <1>8 DEF Baseline
  <2>2. /\ Baseline(a, rid).registrationDispatched \in BOOLEAN
        /\ Baseline(a, rid).verifiedLogin = FALSE
        /\ \A g \in Baseline(a, rid).prunedGrants : g \in DOMAIN a.grants
    BY GoodNames
  <2>3. a.baselines[rid].prunedGrants = a.baselines[rid].prunedGrants \cap DOMAIN b.grants
    BY <1>8, <2>1, <2>2
  <2>4. bases[rid].verifiedLogin = FALSE
    BY <1>4, <1>5, <2>1, <2>2
  <2>5. bases[rid].registrationDispatched \in BOOLEAN
    BY <1>5, <2>1, <2>2
  <2> QED BY <1>5, <2>1, <2>2, <2>3, <2>4, <2>5
<1>11. Part(b.tasks, a.tasks) /\ Part(b.records, a.records) /\ Part(b.grants, a.grants)
  BY <1>8 DEF Part
<1>12. Thins(a, b)
  <2>1. \A d \in DOMAIN b.deliveries :
            b.deliveries[d].record \in DOMAIN b.records /\ b.deliveries[d].task \in DOMAIN b.tasks
    BY <1>3, <1>7, <1>8, <1>9
  <2>2. DOMAIN b.baselines \subseteq DOMAIN b.records
    BY <1>6, <1>8
  <2>3. Len(b.audit) <= Len(a.audit) /\ \A i \in DOMAIN b.audit : \E j \in DOMAIN a.audit : b.audit[i] = a.audit[j]
    BY <1>8, <1>9
  <2> QED BY <1>7, <1>8, <1>9, <1>10, <1>11, <2>1, <2>2, <2>3 DEF Thins
<1>13. Good(b)
  <2>1. Formed(b)
    BY <1>2, DeliveriesDrop DEF b
  <2> QED BY <1>12, <2>1, ThinsGood
<1>14. \A d \in DOMAIN b.deliveries : ~(b.deliveries[d].status # None /\ Stale(b, b.deliveries[d].at))
  BY <1>3, <1>7, <1>8 DEF Stale
<1>15. DOMAIN b.baselines = DOMAIN b.records
  BY <1>6, <1>8
<1> QED BY <1>7, <1>8, <1>12, <1>13, <1>14, <1>15 DEF b

-----------------------------------------------------------------------------
(* The elements of a sequence at chosen places.                            *)

LEMMA SetInduction ==
    ASSUME NEW S, 0 \in S, \A n \in Nat : n \in S => n + 1 \in S
    PROVE  Nat \subseteq S
<1> SUFFICES ASSUME Nat \ S # {} PROVE FALSE
  OBVIOUS
<1>1. \E x \in Nat \ S : \A y \in Nat \ S : <<y, x>> \notin Less
  BY WFMin, LessIsWellFounded
<1>2. PICK x \in Nat \ S : \A y \in Nat \ S : <<y, x>> \notin Less
  BY <1>1
<1>3. \A y \in Nat \ S : ~(y < x)
  BY <1>2 DEF Less
<1>4. x - 1 \in Nat /\ x - 1 < x /\ (x - 1) + 1 = x
  <2>1. x # 0
    OBVIOUS
  <2> QED BY <2>1
<1>5. x - 1 \in S
  BY <1>3, <1>4
<1> QED BY <1>4, <1>5

\* What one more place adds.
Chosen(g, s, K, i) == IF i = 0 THEN <<>> ELSE IF i \in K THEN Append(g[i - 1], s[i]) ELSE g[i - 1]

LEMMA PrefixesExist ==
    ASSUME NEW S, NEW s \in Seq(S), NEW K
    PROVE  \E g : g = [i \in 0 .. Len(s) |-> Chosen(g, s, K, i)]
<1> DEFINE T == {n \in Nat : n <= Len(s) => \E g : g = [i \in 0 .. n |-> Chosen(g, s, K, i)]}
<1>1. 0 \in T
  <2> DEFINE g == [i \in 0 .. 0 |-> <<>>]
  <2>1. \A i \in 0 .. 0 : Chosen(g, s, K, i) = <<>>
    BY DEF Chosen
  <2>2. g = [i \in 0 .. 0 |-> Chosen(g, s, K, i)]
    BY <2>1
  <2> HIDE DEF g
  <2> QED BY <2>2
<1>2. ASSUME NEW n \in Nat, n \in T PROVE n + 1 \in T
  <2> SUFFICES ASSUME n + 1 <= Len(s) PROVE \E g : g = [i \in 0 .. n + 1 |-> Chosen(g, s, K, i)]
    OBVIOUS
  <2>1. n <= Len(s)
    OBVIOUS
  <2>2. PICK g : g = [i \in 0 .. n |-> Chosen(g, s, K, i)]
    BY <1>2, <2>1
  <2> DEFINE x == Chosen(g, s, K, n + 1)
             h == [i \in 0 .. n + 1 |-> IF i = n + 1 THEN x ELSE g[i]]
  <2>3. h[n + 1] = x /\ \A i \in 0 .. n : h[i] = g[i]
    OBVIOUS
  <2>4. ASSUME NEW i \in 0 .. n + 1 PROVE h[i] = Chosen(h, s, K, i)
    <3> HIDE DEF h
    <3>1. CASE i = n + 1
      BY <2>3, <3>1 DEF Chosen
    <3>2. CASE i \in 0 .. n
      <4>1. i # 0 => i - 1 \in 0 .. n
        BY <3>2
      <4>2. g[i] = Chosen(g, s, K, i)
        BY <2>2, <3>2
      <4> QED BY <2>3, <3>2, <4>1, <4>2 DEF Chosen
    <3> QED BY <3>1, <3>2
  <2>5. h = [i \in 0 .. n + 1 |-> h[i]]
    OBVIOUS
  <2> HIDE DEF h
  <2>6. h = [i \in 0 .. n + 1 |-> Chosen(h, s, K, i)]
    BY <2>4, <2>5
  <2> QED BY <2>6
<1> HIDE DEF T
<1>3. Nat \subseteq T
  BY <1>1, <1>2, SetInduction
<1> QED BY <1>3 DEF T

\* t holds, of the first n elements of s, those at the places of K.
Selects(t, s, K, n, S) ==
    /\ t \in Seq(S) /\ Len(t) <= n
    /\ \A i \in DOMAIN t : \E j \in DOMAIN s : j \in K /\ t[i] = s[j]
    /\ (\A j \in 1 .. n : j \in K) => Len(t) = n /\ \A i \in 1 .. n : t[i] = s[i]

LEMMA AtIs ==
    ASSUME NEW S, NEW s \in Seq(S), NEW K
    PROVE  /\ At(s, K) \in Seq(S) /\ Len(At(s, K)) <= Len(s)
           /\ \A i \in DOMAIN At(s, K) : \E j \in DOMAIN s : j \in K /\ At(s, K)[i] = s[j]
           /\ (\A j \in DOMAIN s : j \in K) => At(s, K) = s
<1> DEFINE Is(f) == f = [n \in 0 .. Len(s) |->
                    IF n = 0 THEN <<>> ELSE IF n \in K THEN Append(f[n - 1], s[n]) ELSE f[n - 1]]
           g == CHOOSE f : Is(f)
           T == {n \in Nat : n <= Len(s) => Selects(g[n], s, K, n, S)}
<1>1. At(s, K) = g[Len(s)]
  BY DEF At
<1>2. Is(g)
  <2>1. \E f : Is(f)
    BY PrefixesExist DEF Chosen
  <2> HIDE DEF Is
  <2> QED BY <2>1
<1> HIDE DEF g
<1>3. \A n \in 0 .. Len(s) : g[n] = IF n = 0 THEN <<>> ELSE IF n \in K THEN Append(g[n - 1], s[n]) ELSE g[n - 1]
  BY <1>2
<1> HIDE DEF Is
<1>4. 0 \in T
  <2>1. g[0] = <<>>
    BY <1>3
  <2>2. Selects(<<>>, s, K, 0, S)
    BY DEF Selects
  <2> QED BY <2>1, <2>2
<1>5. ASSUME NEW n \in Nat, n \in T PROVE n + 1 \in T
  <2> SUFFICES ASSUME n + 1 <= Len(s) PROVE Selects(g[n + 1], s, K, n + 1, S)
    OBVIOUS
  <2>1. n <= Len(s) /\ n + 1 \in 0 .. Len(s) /\ (n + 1) - 1 = n /\ n + 1 # 0 /\ n + 1 \in DOMAIN s
    OBVIOUS
  <2> DEFINE t == g[n]
             u == g[n + 1]
  <2>2. Selects(t, s, K, n, S)
    BY <1>5, <2>1
  <2>3. u = IF n + 1 \in K THEN Append(t, s[n + 1]) ELSE t
    BY <1>3, <2>1
  <2>4. s[n + 1] \in S
    BY <2>1
  <2> HIDE DEF t, u
  <2>5. t \in Seq(S) /\ Len(t) \in Nat /\ Len(t) <= n
    BY <2>2 DEF Selects
  <2>6. CASE n + 1 \in K
    <3>1. /\ u \in Seq(S) /\ Len(u) = Len(t) + 1 /\ u[Len(t) + 1] = s[n + 1]
          /\ \A i \in 1 .. Len(t) : u[i] = t[i]
      BY <2>3, <2>4, <2>5, <2>6
    <3>2. \A i \in DOMAIN u : i = Len(t) + 1 \/ i \in 1 .. Len(t)
      BY <2>5, <3>1
    <3>3. ASSUME NEW i \in DOMAIN u PROVE \E j \in DOMAIN s : j \in K /\ u[i] = s[j]
      <4>1. CASE i = Len(t) + 1
        BY <2>1, <2>6, <3>1, <4>1
      <4>2. CASE i \in 1 .. Len(t)
        <5>1. i \in DOMAIN t
          BY <2>5, <4>2
        <5> QED BY <2>2, <3>1, <4>2, <5>1 DEF Selects
      <4> QED BY <3>2, <4>1, <4>2
    <3>4. ASSUME \A j \in 1 .. n + 1 : j \in K PROVE Len(u) = n + 1 /\ \A i \in 1 .. n + 1 : u[i] = s[i]
      <4>1. \A j \in 1 .. n : j \in 1 .. n + 1
        OBVIOUS
      <4>2. Len(t) = n /\ \A i \in 1 .. n : t[i] = s[i]
        BY <2>2, <3>4, <4>1 DEF Selects
      <4>3. \A i \in 1 .. n + 1 : i = n + 1 \/ i \in 1 .. n
        OBVIOUS
      <4> QED BY <3>1, <4>2, <4>3
    <3>5. Len(u) <= n + 1
      BY <2>5, <3>1
    <3> QED BY <3>1, <3>3, <3>4, <3>5 DEF Selects, u
  <2>7. CASE n + 1 \notin K
    <3>1. u = t /\ Len(u) <= n + 1
      BY <2>3, <2>5, <2>7
    <3>2. ~\A j \in 1 .. n + 1 : j \in K
      BY <2>7
    <3> QED BY <2>2, <3>1, <3>2 DEF Selects, u
  <2> QED BY <2>6, <2>7
<1> HIDE DEF T
<1>6. Nat \subseteq T
  BY <1>4, <1>5, SetInduction
<1>7. Len(s) \in Nat
  OBVIOUS
<1> DEFINE t == At(s, K)
<1>8. Selects(t, s, K, Len(s), S)
  BY <1>1, <1>6, <1>7 DEF T
<1> HIDE DEF t
<1>9. (\A j \in DOMAIN s : j \in K) => t = s
  <2> SUFFICES ASSUME \A j \in DOMAIN s : j \in K PROVE t = s
    OBVIOUS
  <2>1. t \in Seq(S) /\ Len(t) = Len(s) /\ \A i \in 1 .. Len(s) : t[i] = s[i]
    BY <1>8 DEF Selects
  <2> QED BY <2>1
<1> QED BY <1>8, <1>9 DEF Selects, t

-----------------------------------------------------------------------------
(* The stages that leave out records, tasks, events and baselines.         *)

\* Something other than a record still names it.
Named(a, rid) ==
    \/ ~a.records[rid].deleted
    \/ \E g \in DOMAIN a.grants : a.grants[g].record = rid
    \/ \E d \in DOMAIN a.deliveries : a.deliveries[d].record = rid
    \/ \E k \in DOMAIN a.requests : a.requests[k].record = rid

LEMMA RecordsThin ==
    ASSUME NEW a, Good(a), DOMAIN a.baselines = DOMAIN a.records
    PROVE  LET b == DropRecords(a) IN
           /\ Thins(a, b) /\ Good(b) /\ DOMAIN b.baselines = DOMAIN b.records
           /\ b.tasks = a.tasks /\ b.grants = a.grants /\ b.deliveries = a.deliveries
           /\ b.requests = a.requests /\ b.revokedTasks = a.revokedTasks
           /\ Mapped(b.records)
           /\ \A rid \in DOMAIN b.records : Named(b, rid)
<1> DEFINE b == DropRecords(a)
           kept == {rid \in DOMAIN a.records :
                    \/ ~a.records[rid].deleted
                    \/ \E g \in Values(a.grants) : g.record = rid
                    \/ \E d \in Values(a.deliveries) : d.record = rid
                    \/ Receipts(a, rid) # {}}
           records == Restrict(a.records, kept)
           bases == Restrict(a.baselines, kept)
<1>1. b = [a EXCEPT !.records = records, !.baselines = bases]
  BY DEF DropRecords
<1>2. Whole(a) /\ Formed(a)
  BY DEF Good, Whole
<1>3. kept \in SUBSET DOMAIN a.records /\ kept \in SUBSET DOMAIN a.baselines
  OBVIOUS
<1>4. \A rid \in DOMAIN a.records : rid \in kept <=> Named(a, rid)
  BY DEF Values, Receipts, Named
<1> HIDE DEF b, kept
<1>5. /\ Part(records, a.records) /\ DOMAIN records = kept /\ Mapped(records)
      /\ \A rid \in kept : records[rid] = a.records[rid]
      /\ DOMAIN bases = kept /\ \A rid \in kept : bases[rid] = a.baselines[rid]
  BY <1>3, RestrictIs
<1> HIDE DEF records, bases
<1>6. /\ b.lastTime = a.lastTime /\ b.clockFrozen = a.clockFrozen
      /\ b.tasks = a.tasks /\ b.records = records /\ b.grants = a.grants
      /\ b.deliveries = a.deliveries /\ b.revokedTasks = a.revokedTasks
      /\ b.baselines = bases /\ b.requests = a.requests /\ b.audit = a.audit
  BY <1>1, <1>2 DEF Formed, AppFields
<1>7. /\ a.revokedTasks \subseteq DOMAIN a.tasks
      /\ \A rid \in DOMAIN a.records : a.records[rid].task \in DOMAIN a.tasks
      /\ \A g \in DOMAIN a.grants :
                a.grants[g].record \in DOMAIN a.records /\ a.grants[g].issuerTask \in DOMAIN a.tasks
      /\ \A d \in DOMAIN a.deliveries :
                a.deliveries[d].record \in DOMAIN a.records /\ a.deliveries[d].task \in DOMAIN a.tasks
      /\ \A k \in DOMAIN a.requests :
                /\ k.task \in DOMAIN a.tasks /\ a.requests[k].record \in DOMAIN a.records
                /\ a.requests[k].kind \in {"share", "revoke"} => a.requests[k].grant \in DOMAIN a.grants
      /\ a.audit \in Seq(Events) /\ Len(a.audit) \in Nat
  BY GoodNames
<1>8. ASSUME NEW rid \in DOMAIN b.records
      PROVE  LET old == Baseline(a, rid)
                 new == Baseline(b, rid)
             IN  /\ new.through = old.through /\ new.secretVersion = old.secretVersion
                 /\ new.deletePruned = old.deletePruned
                 /\ new.prunedGrants = old.prunedGrants \cap DOMAIN b.grants
                 /\ new.registrationDispatched \in BOOLEAN /\ new.verifiedLogin = FALSE
  <2>1. Baseline(b, rid) = Baseline(a, rid)
    BY <1>3, <1>5, <1>6 DEF Baseline
  <2>2. /\ Baseline(a, rid).registrationDispatched \in BOOLEAN
        /\ Baseline(a, rid).verifiedLogin = FALSE
        /\ \A g \in Baseline(a, rid).prunedGrants : g \in DOMAIN a.grants
    BY GoodNames
  <2>3. Baseline(a, rid).prunedGrants = Baseline(a, rid).prunedGrants \cap DOMAIN b.grants
    BY <1>6, <2>2
  <2> QED BY <2>1, <2>2, <2>3
<1>9. Part(b.tasks, a.tasks) /\ Part(b.records, a.records) /\ Part(b.grants, a.grants)
      /\ Part(b.deliveries, a.deliveries)
  BY <1>5, <1>6 DEF Part
<1>10. /\ \A g \in DOMAIN a.grants : a.grants[g].record \in kept
       /\ \A d \in DOMAIN a.deliveries : a.deliveries[d].record \in kept
       /\ \A k \in DOMAIN a.requests : a.requests[k].record \in kept
  BY <1>4, <1>7 DEF Named
<1>11. Thins(a, b)
  <2>1. \A rid \in DOMAIN b.records : b.records[rid].task \in DOMAIN b.tasks
    BY <1>3, <1>5, <1>6, <1>7
  <2>2. /\ \A d \in DOMAIN b.deliveries :
            b.deliveries[d].record \in DOMAIN b.records /\ b.deliveries[d].task \in DOMAIN b.tasks
        /\ \A g \in DOMAIN b.grants :
            b.grants[g].record \in DOMAIN b.records /\ b.grants[g].issuerTask \in DOMAIN b.tasks
    BY <1>5, <1>6, <1>7, <1>10
  <2>3. DOMAIN b.baselines \subseteq DOMAIN b.records
    BY <1>5, <1>6
  <2>4. Len(b.audit) <= Len(a.audit) /\ \A i \in DOMAIN b.audit : \E j \in DOMAIN a.audit : b.audit[i] = a.audit[j]
    BY <1>6, <1>7
  <2>5. \A k \in DOMAIN b.requests :
            /\ k.task \in DOMAIN b.tasks /\ b.requests[k].record \in DOMAIN b.records
            /\ b.requests[k].kind \in {"share", "revoke"} => b.requests[k].grant \in DOMAIN b.grants
    BY <1>5, <1>6, <1>7, <1>10
  <2> QED BY <1>6, <1>7, <1>8, <1>9, <2>1, <2>2, <2>3, <2>4, <2>5 DEF Thins
<1>12. Good(b)
  <2>1. Formed(b)
    BY <1>2, RecordsDrop DEF b
  <2> QED BY <1>11, <2>1, ThinsGood
<1>13. \A rid \in DOMAIN b.records : Named(b, rid)
  BY <1>3, <1>4, <1>5, <1>6 DEF Named
<1>14. DOMAIN b.baselines = DOMAIN b.records
  BY <1>5, <1>6
<1> QED BY <1>5, <1>6, <1>11, <1>12, <1>13, <1>14 DEF b

Dead(a) ==
    {tid \in DOMAIN a.tasks :
        /\ ~Referenced(a, tid)
        /\ tid \in a.revokedTasks \/ a.tasks[tid].expiresAt <= a.lastTime}

LEMMA TasksThin ==
    ASSUME NEW a, Good(a), DOMAIN a.baselines = DOMAIN a.records
    PROVE  LET b == DropTasks(a) IN
           /\ Thins(a, b) /\ Good(b) /\ b.baselines = a.baselines
           /\ b.records = a.records /\ b.grants = a.grants /\ b.deliveries = a.deliveries
           /\ b.requests = a.requests
           /\ Mapped(b.tasks)
           /\ Dead(b) = {} \/ \E tid : DOMAIN b.tasks = {tid}
<1> DEFINE b == DropTasks(a)
           dead == Dead(a)
           latest == CHOOSE tid \in dead : \A u \in dead : a.tasks[u].expiresAt <= a.tasks[tid].expiresAt
           kept == IF dead = DOMAIN a.tasks /\ dead # {} THEN {latest} ELSE DOMAIN a.tasks \ dead
           tasks == Restrict(a.tasks, kept)
<1>1. b = [a EXCEPT !.tasks = tasks, !.revokedTasks = a.revokedTasks \cap kept]
  BY DEF DropTasks, Dead
<1>2. Whole(a) /\ Formed(a)
  BY DEF Good, Whole
<1>3. dead \subseteq DOMAIN a.tasks /\ \A tid \in dead : ~Referenced(a, tid)
  BY DEF Dead
<1> HIDE DEF b, dead
<1>4. dead # {} => latest \in dead
  <2> SUFFICES ASSUME dead # {} PROVE latest \in dead
    OBVIOUS
  <2>1. IsFiniteSet(dead) /\ \A tid \in dead : a.tasks[tid].expiresAt \in Nat
    BY <1>2, <1>3, FS_Subset DEF Formed
  <2>2. \E tid \in dead : \A u \in dead : a.tasks[u].expiresAt <= a.tasks[tid].expiresAt
    BY <2>1, LatestExists
  <2> QED BY <2>2
<1> HIDE DEF latest
<1>5. kept \in SUBSET DOMAIN a.tasks
  BY <1>3, <1>4
<1>6. \A tid \in DOMAIN a.tasks : Referenced(a, tid) => tid \in kept
  BY <1>3
<1>7. kept = DOMAIN a.tasks \ dead \/ \E tid : kept = {tid}
  OBVIOUS
<1> HIDE DEF kept
<1>8. Part(tasks, a.tasks) /\ DOMAIN tasks = kept /\ Mapped(tasks) /\ \A tid \in kept : tasks[tid] = a.tasks[tid]
  BY <1>5, RestrictIs
<1> HIDE DEF tasks
<1>9. /\ b.lastTime = a.lastTime /\ b.clockFrozen = a.clockFrozen
      /\ b.tasks = tasks /\ b.records = a.records /\ b.grants = a.grants
      /\ b.deliveries = a.deliveries /\ b.revokedTasks = a.revokedTasks \cap kept
      /\ b.baselines = a.baselines /\ b.requests = a.requests /\ b.audit = a.audit
  BY <1>1, <1>2 DEF Formed, AppFields
<1>10. /\ a.revokedTasks \subseteq DOMAIN a.tasks
       /\ \A rid \in DOMAIN a.records : a.records[rid].task \in DOMAIN a.tasks
       /\ \A g \in DOMAIN a.grants :
                a.grants[g].record \in DOMAIN a.records /\ a.grants[g].issuerTask \in DOMAIN a.tasks
       /\ \A d \in DOMAIN a.deliveries :
                a.deliveries[d].record \in DOMAIN a.records /\ a.deliveries[d].task \in DOMAIN a.tasks
       /\ \A k \in DOMAIN a.requests :
                /\ k.task \in DOMAIN a.tasks /\ a.requests[k].record \in DOMAIN a.records
                /\ a.requests[k].kind \in {"share", "revoke"} => a.requests[k].grant \in DOMAIN a.grants
       /\ a.audit \in Seq(Events) /\ Len(a.audit) \in Nat
  BY GoodNames
<1>11. /\ \A rid \in DOMAIN a.records : a.records[rid].task \in kept
       /\ \A g \in DOMAIN a.grants : a.grants[g].issuerTask \in kept
       /\ \A d \in DOMAIN a.deliveries : a.deliveries[d].task \in kept
       /\ \A k \in DOMAIN a.requests : k.task \in kept
  BY <1>6, <1>10 DEF Referenced, Values
<1>12. ASSUME NEW rid \in DOMAIN b.records
       PROVE  LET old == Baseline(a, rid)
                  new == Baseline(b, rid)
              IN  /\ new.through = old.through /\ new.secretVersion = old.secretVersion
                  /\ new.deletePruned = old.deletePruned
                  /\ new.prunedGrants = old.prunedGrants \cap DOMAIN b.grants
                  /\ new.registrationDispatched \in BOOLEAN /\ new.verifiedLogin = FALSE
  <2>1. Baseline(b, rid) = Baseline(a, rid)
    BY <1>9 DEF Baseline
  <2>2. /\ Baseline(a, rid).registrationDispatched \in BOOLEAN
        /\ Baseline(a, rid).verifiedLogin = FALSE
        /\ \A g \in Baseline(a, rid).prunedGrants : g \in DOMAIN a.grants
    BY GoodNames
  <2>3. Baseline(a, rid).prunedGrants = Baseline(a, rid).prunedGrants \cap DOMAIN b.grants
    BY <1>9, <2>2
  <2> QED BY <2>1, <2>2, <2>3
<1>13. Part(b.tasks, a.tasks) /\ Part(b.records, a.records) /\ Part(b.grants, a.grants)
       /\ Part(b.deliveries, a.deliveries)
  BY <1>8, <1>9 DEF Part
<1>14. Thins(a, b)
  <2>1. \A rid \in DOMAIN b.records : b.records[rid].task \in DOMAIN b.tasks
    BY <1>8, <1>9, <1>11
  <2>2. /\ \A d \in DOMAIN b.deliveries :
            b.deliveries[d].record \in DOMAIN b.records /\ b.deliveries[d].task \in DOMAIN b.tasks
        /\ \A g \in DOMAIN b.grants :
            b.grants[g].record \in DOMAIN b.records /\ b.grants[g].issuerTask \in DOMAIN b.tasks
    BY <1>8, <1>9, <1>10, <1>11
  <2>3. DOMAIN b.baselines \subseteq DOMAIN b.records /\ b.revokedTasks \subseteq DOMAIN b.tasks
    BY <1>8, <1>9
  <2>4. Len(b.audit) <= Len(a.audit) /\ \A i \in DOMAIN b.audit : \E j \in DOMAIN a.audit : b.audit[i] = a.audit[j]
    BY <1>9, <1>10
  <2>5. \A k \in DOMAIN b.requests :
            /\ k.task \in DOMAIN b.tasks /\ b.requests[k].record \in DOMAIN b.records
            /\ b.requests[k].kind \in {"share", "revoke"} => b.requests[k].grant \in DOMAIN b.grants
    BY <1>8, <1>9, <1>10, <1>11
  <2> QED BY <1>9, <1>10, <1>12, <1>13, <2>1, <2>2, <2>3, <2>4, <2>5 DEF Thins
<1>15. Good(b)
  <2>1. Formed(b)
    BY <1>2, TasksDrop DEF b
  <2> QED BY <1>14, <2>1, ThinsGood
<1>16. Dead(b) = {} \/ \E tid : DOMAIN b.tasks = {tid}
  <2>1. CASE \E tid : kept = {tid}
    BY <1>8, <1>9, <2>1
  <2>2. CASE kept = DOMAIN a.tasks \ dead
    <3>1. \A tid : Referenced(b, tid) = Referenced(a, tid)
      BY <1>9 DEF Referenced
    <3>2. ASSUME NEW tid \in Dead(b) PROVE FALSE
      <4>1. tid \in kept /\ ~Referenced(a, tid) /\ (tid \in a.revokedTasks \/ a.tasks[tid].expiresAt <= a.lastTime)
        BY <1>8, <1>9, <3>1, <3>2 DEF Dead
      <4>2. tid \in dead
        BY <1>5, <4>1 DEF dead, Dead
      <4> QED BY <2>2, <4>1, <4>2
    <3> QED BY <3>2
  <2> QED BY <1>7, <2>1, <2>2
<1> QED BY <1>8, <1>9, <1>14, <1>15, <1>16 DEF b

LEMMA AuditThin ==
    ASSUME NEW a, Good(a)
    PROVE  LET b == DropAudit(a) IN
           /\ Thins(a, b) /\ Good(b)
           /\ b.tasks = a.tasks /\ b.records = a.records /\ b.grants = a.grants
           /\ b.deliveries = a.deliveries /\ b.requests = a.requests /\ b.baselines = a.baselines
           /\ b.revokedTasks = a.revokedTasks /\ b.lastTime = a.lastTime
           /\ \A i \in DOMAIN b.audit : EventSupported(b, b.audit[i])
<1> DEFINE b == DropAudit(a)
           K == Supported(a)
           events == At(a.audit, K)
<1>1. b = [a EXCEPT !.audit = events]
  BY DEF DropAudit
<1>2. Whole(a) /\ Formed(a)
  BY DEF Good, Whole
<1>3. /\ a.revokedTasks \subseteq DOMAIN a.tasks
      /\ \A rid \in DOMAIN a.records : a.records[rid].task \in DOMAIN a.tasks
      /\ \A g \in DOMAIN a.grants :
                a.grants[g].record \in DOMAIN a.records /\ a.grants[g].issuerTask \in DOMAIN a.tasks
      /\ \A d \in DOMAIN a.deliveries :
                a.deliveries[d].record \in DOMAIN a.records /\ a.deliveries[d].task \in DOMAIN a.tasks
      /\ \A k \in DOMAIN a.requests :
                /\ k.task \in DOMAIN a.tasks /\ a.requests[k].record \in DOMAIN a.records
                /\ a.requests[k].kind \in {"share", "revoke"} => a.requests[k].grant \in DOMAIN a.grants
      /\ DOMAIN a.baselines \subseteq DOMAIN a.records
      /\ a.audit \in Seq(Events) /\ Len(a.audit) \in Nat
  BY GoodNames
<1> HIDE DEF b
<1>4. /\ events \in Seq(Events) /\ Len(events) <= Len(a.audit)
      /\ \A i \in DOMAIN events : \E j \in DOMAIN a.audit : j \in K /\ events[i] = a.audit[j]
  BY <1>3, AtIs
<1> HIDE DEF events
<1>5. /\ b.lastTime = a.lastTime /\ b.clockFrozen = a.clockFrozen
      /\ b.tasks = a.tasks /\ b.records = a.records /\ b.grants = a.grants
      /\ b.deliveries = a.deliveries /\ b.revokedTasks = a.revokedTasks
      /\ b.baselines = a.baselines /\ b.requests = a.requests /\ b.audit = events
  BY <1>1, <1>2 DEF Formed, AppFields
<1>6. ASSUME NEW rid \in DOMAIN b.records
      PROVE  LET old == Baseline(a, rid)
                 new == Baseline(b, rid)
             IN  /\ new.through = old.through /\ new.secretVersion = old.secretVersion
                 /\ new.deletePruned = old.deletePruned
                 /\ new.prunedGrants = old.prunedGrants \cap DOMAIN b.grants
                 /\ new.registrationDispatched \in BOOLEAN /\ new.verifiedLogin = FALSE
  <2>1. Baseline(b, rid) = Baseline(a, rid)
    BY <1>5 DEF Baseline
  <2>2. /\ Baseline(a, rid).registrationDispatched \in BOOLEAN
        /\ Baseline(a, rid).verifiedLogin = FALSE
        /\ \A g \in Baseline(a, rid).prunedGrants : g \in DOMAIN a.grants
    BY GoodNames
  <2>3. Baseline(a, rid).prunedGrants = Baseline(a, rid).prunedGrants \cap DOMAIN b.grants
    BY <1>5, <2>2
  <2> QED BY <2>1, <2>2, <2>3
<1>7. Part(b.tasks, a.tasks) /\ Part(b.records, a.records) /\ Part(b.grants, a.grants)
      /\ Part(b.deliveries, a.deliveries)
  BY <1>5 DEF Part
<1>8. Thins(a, b)
  <2>1. \A i \in DOMAIN b.audit : \E j \in DOMAIN a.audit : b.audit[i] = a.audit[j]
    BY <1>4, <1>5
  <2> QED BY <1>3, <1>4, <1>5, <1>6, <1>7, <2>1 DEF Thins
<1>9. Good(b)
  <2>1. Formed(b)
    BY <1>1, <1>2, AuditDrops
  <2> QED BY <1>8, <2>1, ThinsGood
<1>10. \A i \in DOMAIN b.audit : EventSupported(b, b.audit[i])
  <2> SUFFICES ASSUME NEW i \in DOMAIN b.audit PROVE EventSupported(b, b.audit[i])
    OBVIOUS
  <2>1. PICK j \in DOMAIN a.audit : j \in K /\ b.audit[i] = a.audit[j]
    BY <1>4, <1>5
  <2>2. EventSupported(a, b.audit[i])
    BY <2>1 DEF Supported
  <2> QED BY <1>5, <2>2 DEF EventSupported
<1> QED BY <1>5, <1>8, <1>9, <1>10 DEF b

LEMMA TrimThin ==
    ASSUME NEW a, Good(a)
    PROVE  LET b == TrimBaselines(a) IN
           /\ Thins(a, b) /\ Good(b)
           /\ b.tasks = a.tasks /\ b.records = a.records /\ b.grants = a.grants
           /\ b.deliveries = a.deliveries /\ b.requests = a.requests /\ b.audit = a.audit
           /\ b.revokedTasks = a.revokedTasks /\ b.lastTime = a.lastTime
           /\ Mapped(b.baselines)
           /\ \A rid \in DOMAIN b.baselines : Mapped(b.baselines[rid]) /\ b.baselines[rid] # NoBaseline
<1> DEFINE b == TrimBaselines(a)
           trimmed == [rid \in DOMAIN a.baselines |->
                          [a.baselines[rid] EXCEPT
                              !.verifiedLogin = @ /\ a.records[rid].signup = "verified_login"]]
           kept == {rid \in DOMAIN trimmed : trimmed[rid] # NoBaseline}
           bases == Restrict(trimmed, kept)
<1>1. b = [a EXCEPT !.baselines = bases]
  BY DEF TrimBaselines
<1>2. Whole(a) /\ Formed(a) /\ Lasting(a)
  BY DEF Good, Whole
<1>3. /\ a.revokedTasks \subseteq DOMAIN a.tasks
      /\ \A rid \in DOMAIN a.records : a.records[rid].task \in DOMAIN a.tasks
      /\ \A g \in DOMAIN a.grants :
                a.grants[g].record \in DOMAIN a.records /\ a.grants[g].issuerTask \in DOMAIN a.tasks
      /\ \A d \in DOMAIN a.deliveries :
                a.deliveries[d].record \in DOMAIN a.records /\ a.deliveries[d].task \in DOMAIN a.tasks
      /\ \A k \in DOMAIN a.requests :
                /\ k.task \in DOMAIN a.tasks /\ a.requests[k].record \in DOMAIN a.records
                /\ a.requests[k].kind \in {"share", "revoke"} => a.requests[k].grant \in DOMAIN a.grants
      /\ DOMAIN a.baselines \subseteq DOMAIN a.records
      /\ a.audit \in Seq(Events) /\ Len(a.audit) \in Nat
  BY GoodNames
<1>4. \A rid \in DOMAIN a.baselines :
        LET old == a.baselines[rid]
            new == trimmed[rid]
        IN  /\ Mapped(new) /\ DOMAIN new = BaselineFields
            /\ new.through = old.through /\ new.secretVersion = old.secretVersion
            /\ new.deletePruned = old.deletePruned /\ new.prunedGrants = old.prunedGrants
            /\ new.registrationDispatched = old.registrationDispatched
            /\ new.verifiedLogin = (old.verifiedLogin /\ a.records[rid].signup = "verified_login")
  BY <1>2 DEF Formed, BaselineFields, Mapped
<1>5. DOMAIN trimmed = DOMAIN a.baselines
  OBVIOUS
<1>6. \A rid \in DOMAIN a.baselines : trimmed[rid].verifiedLogin = FALSE
  <2> SUFFICES ASSUME NEW rid \in DOMAIN a.baselines PROVE trimmed[rid].verifiedLogin = FALSE
    OBVIOUS
  <2>1. ~(a.records[rid].signup = "verified_login")
    BY <1>2, <1>3 DEF Lasting
  <2>2. trimmed[rid].verifiedLogin = (a.baselines[rid].verifiedLogin /\ a.records[rid].signup = "verified_login")
    BY <1>4
  <2> HIDE DEF trimmed
  <2> QED BY <2>1, <2>2
<1> HIDE DEF b, trimmed
<1>7. kept \in SUBSET DOMAIN trimmed
  OBVIOUS
<1>8. \A rid \in DOMAIN trimmed : rid \notin kept => trimmed[rid] = NoBaseline
  OBVIOUS
<1>9. \A rid \in kept : trimmed[rid] # NoBaseline
  OBVIOUS
<1> HIDE DEF kept
<1>10. DOMAIN bases = kept /\ Mapped(bases) /\ \A rid \in kept : bases[rid] = trimmed[rid]
  BY <1>7, RestrictIs
<1> HIDE DEF bases
<1>11. /\ b.lastTime = a.lastTime /\ b.clockFrozen = a.clockFrozen
       /\ b.tasks = a.tasks /\ b.records = a.records /\ b.grants = a.grants
       /\ b.deliveries = a.deliveries /\ b.revokedTasks = a.revokedTasks
       /\ b.baselines = bases /\ b.requests = a.requests /\ b.audit = a.audit
  BY <1>1, <1>2 DEF Formed, AppFields
<1>12. ASSUME NEW rid \in DOMAIN b.records
       PROVE  LET old == Baseline(a, rid)
                  new == Baseline(b, rid)
              IN  /\ new.through = old.through /\ new.secretVersion = old.secretVersion
                  /\ new.deletePruned = old.deletePruned
                  /\ new.prunedGrants = old.prunedGrants \cap DOMAIN b.grants
                  /\ new.registrationDispatched \in BOOLEAN /\ new.verifiedLogin = FALSE
  <2>1. /\ Baseline(a, rid).registrationDispatched \in BOOLEAN
        /\ Baseline(a, rid).verifiedLogin = FALSE
        /\ \A g \in Baseline(a, rid).prunedGrants : g \in DOMAIN a.grants
    BY GoodNames
  <2>2. Baseline(a, rid).prunedGrants = Baseline(a, rid).prunedGrants \cap DOMAIN b.grants
    BY <1>11, <2>1
  <2>3. CASE rid \in DOMAIN a.baselines
    <3>1. Baseline(b, rid) = trimmed[rid]
      BY <1>5, <1>7, <1>8, <1>10, <1>11, <2>3 DEF Baseline
    <3>2. Baseline(a, rid) = a.baselines[rid]
      BY <2>3 DEF Baseline
    <3> QED BY <1>4, <1>6, <2>1, <2>2, <2>3, <3>1, <3>2
  <2>4. CASE rid \notin DOMAIN a.baselines
    <3>1. Baseline(b, rid) = Baseline(a, rid)
      BY <1>5, <1>7, <1>10, <1>11, <2>4 DEF Baseline
    <3> QED BY <2>1, <2>2, <3>1
  <2> QED BY <2>3, <2>4
<1>13. Part(b.tasks, a.tasks) /\ Part(b.records, a.records) /\ Part(b.grants, a.grants)
       /\ Part(b.deliveries, a.deliveries)
  BY <1>11 DEF Part
<1>14. Thins(a, b)
  <2>1. Len(b.audit) <= Len(a.audit) /\ \A i \in DOMAIN b.audit : \E j \in DOMAIN a.audit : b.audit[i] = a.audit[j]
    BY <1>3, <1>11
  <2>2. DOMAIN b.baselines \subseteq DOMAIN b.records
    BY <1>3, <1>5, <1>7, <1>10, <1>11
  <2> QED BY <1>3, <1>11, <1>12, <1>13, <2>1, <2>2 DEF Thins
<1>15. Good(b)
  <2>1. Formed(b)
    BY <1>2, TrimDrops DEF b
  <2> QED BY <1>14, <2>1, ThinsGood
<1>16. \A rid \in DOMAIN b.baselines : Mapped(b.baselines[rid]) /\ b.baselines[rid] # NoBaseline
  BY <1>4, <1>5, <1>7, <1>9, <1>10, <1>11
<1> QED BY <1>10, <1>11, <1>14, <1>15, <1>16 DEF b

-----------------------------------------------------------------------------
(* What compaction leaves, a second compaction leaves as it is.            *)

Settled(a) ==
    /\ Good(a)
    /\ \A i \in DOMAIN a.audit : EventSupported(a, a.audit[i])
    /\ Mapped(a.tasks) /\ Mapped(a.records) /\ Mapped(a.grants) /\ Mapped(a.requests)
    /\ Mapped(a.deliveries) /\ Mapped(a.baselines)
    /\ \A rid \in DOMAIN a.baselines : Mapped(a.baselines[rid]) /\ a.baselines[rid] # NoBaseline
    /\ \A k \in DOMAIN a.requests :
        a.requests[k].revision = Baseline(a, a.requests[k].record).through + 1 => ~Stale(a, a.requests[k].at)
    /\ \A g \in DOMAIN a.grants :
        \/ ~a.grants[g].revoked /\ ~(a.grants[g].spec.expiresAt <= a.lastTime)
        \/ \E k \in DOMAIN a.requests : a.requests[k].grant = g
    /\ \A d \in DOMAIN a.deliveries : ~(a.deliveries[d].status # None /\ Stale(a, a.deliveries[d].at))
    /\ \A rid \in DOMAIN a.records : Named(a, rid)
    /\ Dead(a) = {} \/ \E tid : DOMAIN a.tasks = {tid}

LEMMA CompactSettled ==
    ASSUME NEW a, Good(a)
    PROVE  Settled(Compact(a))
<1> DEFINE b == FoldReceipts(a)
           c == DropGrants(b)
           d == DropDeliveries(c)
           e == DropRecords(d)
           f == DropTasks(e)
           g == DropAudit(f)
           h == TrimBaselines(g)
<1>0. Compact(a) = h
  BY DEF Compact
<1> HIDE DEF b, c, d, e, f, g, h
<1>1. /\ Good(b) /\ DOMAIN b.baselines = DOMAIN b.records
      /\ \A rid \in DOMAIN b.records, k \in DOMAIN b.requests :
            b.requests[k].record = rid /\ b.requests[k].revision = Baseline(b, rid).through + 1
                => ~Stale(b, b.requests[k].at)
  BY FoldGood DEF b
<1>2. Mapped(b.requests)
  <2>1. Formed(a)
    BY DEF Good, Whole
  <2> QED BY <2>1, FoldFrame DEF Mapped, b
<1>3. /\ Thins(b, c) /\ Good(c) /\ DOMAIN c.baselines = DOMAIN c.records
      /\ c.requests = b.requests
      /\ Mapped(c.grants)
      /\ \A x \in DOMAIN c.grants :
            \/ ~c.grants[x].revoked /\ ~(c.grants[x].spec.expiresAt <= c.lastTime)
            \/ \E k \in DOMAIN c.requests : c.requests[k].grant = x
  BY <1>1, GrantsThin DEF c
<1>4. /\ Thins(c, d) /\ Good(d) /\ DOMAIN d.baselines = DOMAIN d.records
      /\ d.grants = c.grants /\ d.requests = c.requests
      /\ Mapped(d.deliveries)
      /\ \A x \in DOMAIN d.deliveries : ~(d.deliveries[x].status # None /\ Stale(d, d.deliveries[x].at))
  BY <1>3, DeliveriesThin DEF d
<1>5. /\ Thins(d, e) /\ Good(e) /\ DOMAIN e.baselines = DOMAIN e.records
      /\ e.grants = d.grants /\ e.requests = d.requests /\ e.deliveries = d.deliveries
      /\ Mapped(e.records)
      /\ \A rid \in DOMAIN e.records : Named(e, rid)
  BY <1>4, RecordsThin DEF e
<1>6. /\ Thins(e, f) /\ Good(f)
      /\ f.records = e.records /\ f.grants = e.grants /\ f.deliveries = e.deliveries /\ f.requests = e.requests
      /\ Mapped(f.tasks)
      /\ Dead(f) = {} \/ \E tid : DOMAIN f.tasks = {tid}
  BY <1>5, TasksThin DEF f
<1>7. /\ Thins(f, g) /\ Good(g)
      /\ g.tasks = f.tasks /\ g.records = f.records /\ g.grants = f.grants
      /\ g.deliveries = f.deliveries /\ g.requests = f.requests /\ g.revokedTasks = f.revokedTasks
      /\ \A i \in DOMAIN g.audit : EventSupported(g, g.audit[i])
  BY <1>6, AuditThin DEF g
<1>8. /\ Thins(g, h) /\ Good(h)
      /\ h.tasks = g.tasks /\ h.records = g.records /\ h.grants = g.grants
      /\ h.deliveries = g.deliveries /\ h.requests = g.requests /\ h.audit = g.audit
      /\ h.revokedTasks = g.revokedTasks
      /\ Mapped(h.baselines)
      /\ \A rid \in DOMAIN h.baselines : Mapped(h.baselines[rid]) /\ h.baselines[rid] # NoBaseline
  BY <1>7, TrimThin DEF h
<1>9. c.lastTime = b.lastTime /\ d.lastTime = b.lastTime /\ e.lastTime = b.lastTime
      /\ f.lastTime = b.lastTime /\ g.lastTime = b.lastTime /\ h.lastTime = b.lastTime
  <2>1. c.lastTime = b.lastTime
    BY <1>3 DEF Thins
  <2>2. d.lastTime = c.lastTime
    BY <1>4 DEF Thins
  <2>3. e.lastTime = d.lastTime
    BY <1>5 DEF Thins
  <2>4. f.lastTime = e.lastTime
    BY <1>6 DEF Thins
  <2>5. g.lastTime = f.lastTime
    BY <1>7 DEF Thins
  <2>6. h.lastTime = g.lastTime
    BY <1>8 DEF Thins
  <2> QED BY <2>1, <2>2, <2>3, <2>4, <2>5, <2>6
<1>10. /\ h.tasks = f.tasks /\ h.records = e.records /\ h.grants = c.grants
       /\ h.deliveries = d.deliveries /\ h.requests = b.requests /\ h.revokedTasks = f.revokedTasks
  BY <1>3, <1>4, <1>5, <1>6, <1>7, <1>8
<1>11. \A rid \in DOMAIN h.records : rid \in DOMAIN b.records /\ Baseline(h, rid).through = Baseline(b, rid).through
  <2> SUFFICES ASSUME NEW rid \in DOMAIN h.records
               PROVE  rid \in DOMAIN b.records /\ Baseline(h, rid).through = Baseline(b, rid).through
    OBVIOUS
  <2>1. Baseline(h, rid).through = Baseline(g, rid).through /\ rid \in DOMAIN g.records
    BY <1>8, ThinsThrough
  <2>2. Baseline(g, rid).through = Baseline(f, rid).through /\ rid \in DOMAIN f.records
    BY <1>7, <2>1, ThinsThrough
  <2>3. Baseline(f, rid).through = Baseline(e, rid).through /\ rid \in DOMAIN e.records
    BY <1>6, <2>2, ThinsThrough
  <2>4. Baseline(e, rid).through = Baseline(d, rid).through /\ rid \in DOMAIN d.records
    BY <1>5, <2>3, ThinsThrough
  <2>5. Baseline(d, rid).through = Baseline(c, rid).through /\ rid \in DOMAIN c.records
    BY <1>4, <2>4, ThinsThrough
  <2>6. Baseline(c, rid).through = Baseline(b, rid).through /\ rid \in DOMAIN b.records
    BY <1>3, <2>5, ThinsThrough
  <2> QED BY <2>1, <2>2, <2>3, <2>4, <2>5, <2>6
<1>12. \A i \in DOMAIN h.audit : EventSupported(h, h.audit[i])
  BY <1>7, <1>8 DEF EventSupported
<1>13. \A k \in DOMAIN h.requests :
        h.requests[k].revision = Baseline(h, h.requests[k].record).through + 1 => ~Stale(h, h.requests[k].at)
  <2>1. \A k \in DOMAIN h.requests : h.requests[k].record \in DOMAIN h.records
    BY <1>8, GoodNames
  <2> QED BY <1>1, <1>9, <1>10, <1>11, <2>1 DEF Stale
<1>14. \A x \in DOMAIN h.grants :
        \/ ~h.grants[x].revoked /\ ~(h.grants[x].spec.expiresAt <= h.lastTime)
        \/ \E k \in DOMAIN h.requests : h.requests[k].grant = x
  BY <1>3, <1>9, <1>10
<1>15. \A x \in DOMAIN h.deliveries : ~(h.deliveries[x].status # None /\ Stale(h, h.deliveries[x].at))
  BY <1>4, <1>9, <1>10 DEF Stale
<1>16. \A rid \in DOMAIN h.records : Named(h, rid)
  <2>1. e.grants = h.grants /\ e.deliveries = h.deliveries /\ e.requests = h.requests
    BY <1>3, <1>4, <1>5, <1>10
  <2> QED BY <1>5, <1>10, <2>1 DEF Named
<1>17. Dead(h) = {} \/ \E tid : DOMAIN h.tasks = {tid}
  <2>1. /\ h.records = f.records /\ h.grants = f.grants /\ h.deliveries = f.deliveries
        /\ h.requests = f.requests
    BY <1>7, <1>8
  <2>2. \A tid : Referenced(h, tid) = Referenced(f, tid)
    BY <2>1 DEF Referenced
  <2>3. Dead(h) = Dead(f)
    BY <1>9, <1>10, <2>2 DEF Dead
  <2> QED BY <1>6, <1>10, <2>3
<1>18. Mapped(h.tasks) /\ Mapped(h.records) /\ Mapped(h.grants) /\ Mapped(h.requests) /\ Mapped(h.deliveries)
  BY <1>2, <1>3, <1>4, <1>5, <1>6, <1>10
<1>19. Settled(h)
  BY <1>8, <1>12, <1>13, <1>14, <1>15, <1>16, <1>17, <1>18 DEF Settled
<1> QED BY <1>0, <1>19

\* Folding, with nothing to fold, writes every baseline out.
Full(h) == [h EXCEPT !.baselines = [rid \in DOMAIN h.records |-> Baseline(h, rid)]]

LEMMA NothingFolds ==
    ASSUME NEW h, Settled(h), NEW rid \in DOMAIN h.records
    PROVE  Folded(h, rid) = {} /\ FoldedBaseline(h, rid) = Baseline(h, rid)
<1>1. Whole(h) /\ Sound(h)
  BY DEF Settled, Good
<1>2. ASSUME NEW k \in Folded(h, rid) PROVE FALSE
  <2>1. k \in Receipts(h, rid)
        /\ \A n \in Baseline(h, rid).through + 1 .. h.requests[k].revision :
             \E l \in Receipts(h, rid) : h.requests[l].revision = n /\ Stale(h, h.requests[l].at)
    BY <1>2 DEF Folded
  <2>2. k \in DOMAIN h.requests /\ h.requests[k].record = rid
    BY <2>1 DEF Receipts
  <2>3. ValidReceipt(h, k) /\ h.requests[k].revision \in Nat /\ Baseline(h, rid).through \in Nat
    BY <1>1, <2>2, BaselineWhole DEF Sound, Whole
  <2>4. h.requests[k].revision > Baseline(h, rid).through
    BY <2>2, <2>3 DEF ValidReceipt
  <2>5. Baseline(h, rid).through + 1 \in Baseline(h, rid).through + 1 .. h.requests[k].revision
    BY <2>3, <2>4
  <2>6. PICK l \in Receipts(h, rid) :
          h.requests[l].revision = Baseline(h, rid).through + 1 /\ Stale(h, h.requests[l].at)
    BY <2>1, <2>5
  <2> QED BY <2>6 DEF Settled, Receipts
<1>3. Folded(h, rid) = {}
  BY <1>2
<1> QED BY <1>1, <1>3, FoldedFacts

LEMMA FullIs ==
    ASSUME NEW h, Settled(h)
    PROVE  LET e == Full(h) IN
           /\ e = [f \in AppFields |-> e[f]] /\ h = [f \in AppFields |-> h[f]]
           /\ e.tasks = h.tasks /\ e.records = h.records /\ e.grants = h.grants
           /\ e.requests = h.requests /\ e.deliveries = h.deliveries /\ e.revokedTasks = h.revokedTasks
           /\ e.audit = h.audit /\ e.lastTime = h.lastTime /\ e.clockFrozen = h.clockFrozen
           /\ e.generation = h.generation
           /\ Mapped(e.baselines) /\ DOMAIN e.baselines = DOMAIN h.records
           /\ \A rid \in DOMAIN h.records :
                /\ e.baselines[rid] = Baseline(h, rid) /\ Mapped(Baseline(h, rid))
                /\ Baseline(h, rid).registrationDispatched \in BOOLEAN
                /\ Baseline(h, rid).verifiedLogin = FALSE
                /\ DOMAIN Baseline(h, rid) = BaselineFields
<1>1. Formed(h) /\ Whole(h)
  BY DEF Settled, Good, Whole
<1>2. \A rid : /\ Baseline(h, rid).registrationDispatched \in BOOLEAN
               /\ Baseline(h, rid).verifiedLogin = FALSE
               /\ DOMAIN Baseline(h, rid) = BaselineFields
  BY <1>1, GoodNames, BaselineFormed DEF Settled
<1>3. \A rid : Mapped(Baseline(h, rid))
  <2>1. Mapped(NoBaseline)
    BY DEF Mapped, NoBaseline
  <2> QED BY <2>1 DEF Baseline, Settled
<1> QED BY <1>1, <1>2, <1>3 DEF Formed, AppFields, Full, Mapped

\* Two applications with the same fields are the same.
LEMMA SameFields ==
    ASSUME NEW a, NEW b, a = [f \in AppFields |-> a[f]], b = [f \in AppFields |-> b[f]],
           a.tasks = b.tasks, a.records = b.records, a.grants = b.grants, a.requests = b.requests,
           a.deliveries = b.deliveries, a.baselines = b.baselines, a.revokedTasks = b.revokedTasks,
           a.audit = b.audit, a.lastTime = b.lastTime, a.clockFrozen = b.clockFrozen,
           a.generation = b.generation
    PROVE  a = b
<1>1. \A f \in AppFields : a[f] = b[f]
  BY DEF AppFields
<1>2. [f \in AppFields |-> a[f]] = [f \in AppFields |-> b[f]]
  BY <1>1
<1> QED BY <1>2

LEMMA FoldStays ==
    ASSUME NEW h, Settled(h)
    PROVE  FoldReceipts(h) = Full(h)
<1> DEFINE bases == [rid \in DOMAIN h.records |-> FoldedBaseline(h, rid)]
           full == [rid \in DOMAIN h.records |-> Baseline(h, rid)]
           rest == Restrict(h.requests, DOMAIN h.requests \ UNION {Folded(h, rid) : rid \in DOMAIN h.records})
<1>1. bases = full
  BY NothingFolds
<1>2. UNION {Folded(h, rid) : rid \in DOMAIN h.records} = {}
  BY NothingFolds
<1>3. DOMAIN h.requests \ UNION {Folded(h, rid) : rid \in DOMAIN h.records} = DOMAIN h.requests
  BY <1>2
<1>4. rest = h.requests
  BY <1>3, RestrictAll DEF Settled
<1>5. FoldReceipts(h) = [h EXCEPT !.baselines = bases, !.requests = rest]
  BY DEF FoldReceipts
<1> HIDE DEF bases, rest, full
<1>6. h = [f \in AppFields |-> h[f]]
  BY FullIs
<1>7. [h EXCEPT !.baselines = full, !.requests = h.requests] = [h EXCEPT !.baselines = full]
  BY <1>6 DEF AppFields
<1> QED BY <1>1, <1>4, <1>5, <1>7 DEF Full, full

LEMMA GrantsStay ==
    ASSUME NEW h, Settled(h)
    PROVE  DropGrants(Full(h)) = Full(h)
<1> DEFINE e == Full(h)
           dropped == {g \in DOMAIN e.grants :
                        /\ e.grants[g].revoked \/ e.grants[g].spec.expiresAt <= e.lastTime
                        /\ \A cached \in Values(e.requests) : cached.grant # g}
           bases == [rid \in DOMAIN e.baselines |-> [e.baselines[rid] EXCEPT !.prunedGrants = @ \ dropped]]
           grants == Restrict(e.grants, DOMAIN e.grants \ dropped)
<1>1. /\ e = [f \in AppFields |-> e[f]]
      /\ e.grants = h.grants /\ e.requests = h.requests /\ e.lastTime = h.lastTime
      /\ Mapped(e.baselines) /\ DOMAIN e.baselines = DOMAIN h.records
      /\ \A rid \in DOMAIN h.records :
            e.baselines[rid] = Baseline(h, rid) /\ Mapped(Baseline(h, rid))
            /\ DOMAIN Baseline(h, rid) = BaselineFields
  BY FullIs
<1>2. DropGrants(e) = [e EXCEPT !.grants = grants, !.baselines = bases]
  BY DEF DropGrants
<1> HIDE DEF e
<1>3. dropped = {}
  BY <1>1, SMTT(30) DEF Settled, Values
<1> HIDE DEF dropped
<1>4. grants = e.grants
  <2>1. DOMAIN e.grants \ dropped = DOMAIN e.grants
    BY <1>3
  <2>2. Mapped(e.grants)
    BY <1>1 DEF Settled
  <2> QED BY <2>1, <2>2, RestrictAll
<1>5. ASSUME NEW r, Mapped(r) PROVE [r EXCEPT !.prunedGrants = @ \ {}] = r
  BY <1>5 DEF Mapped
<1>6. \A rid \in DOMAIN e.baselines : bases[rid] = e.baselines[rid]
  BY <1>1, <1>3, <1>5
<1>7. bases = e.baselines
  <2>1. bases = [rid \in DOMAIN e.baselines |-> bases[rid]]
    OBVIOUS
  <2>2. [rid \in DOMAIN e.baselines |-> bases[rid]] = [rid \in DOMAIN e.baselines |-> e.baselines[rid]]
    BY <1>6
  <2> HIDE DEF bases
  <2> QED BY <1>1, <2>1, <2>2 DEF Mapped
<1>8. [e EXCEPT !.grants = e.grants, !.baselines = e.baselines] = e
  BY <1>1 DEF AppFields
<1> QED BY <1>2, <1>4, <1>7, <1>8 DEF e

LEMMA DeliveriesStay ==
    ASSUME NEW h, Settled(h)
    PROVE  DropDeliveries(Full(h)) = Full(h)
<1> DEFINE e == Full(h)
           dropped == {d \in DOMAIN e.deliveries : e.deliveries[d].status # None /\ Stale(e, e.deliveries[d].at)}
           Of(rid) == {d \in Values(Restrict(e.deliveries, dropped)) : d.record = rid}
           left == Restrict(e.deliveries, DOMAIN e.deliveries \ dropped)
           Registers(rid) == \E d \in Of(rid) : SealsRegister(d)
           LogsIn(rid) == \E d \in Of(rid) : SealsLogin(e, d)
           bases == [rid \in DOMAIN e.baselines |-> [e.baselines[rid] EXCEPT
                      !.registrationDispatched = @ \/ Registers(rid),
                      !.verifiedLogin = @ \/ LogsIn(rid)]]
<1>1. /\ e = [f \in AppFields |-> e[f]]
      /\ e.deliveries = h.deliveries /\ e.lastTime = h.lastTime
      /\ Mapped(e.baselines) /\ DOMAIN e.baselines = DOMAIN h.records
      /\ \A rid \in DOMAIN h.records :
            /\ e.baselines[rid] = Baseline(h, rid) /\ Mapped(Baseline(h, rid))
            /\ Baseline(h, rid).registrationDispatched \in BOOLEAN
            /\ Baseline(h, rid).verifiedLogin = FALSE
            /\ DOMAIN Baseline(h, rid) = BaselineFields
  BY FullIs
<1>2. DropDeliveries(e) = [e EXCEPT !.deliveries = left, !.baselines = bases]
  BY DEF DropDeliveries
<1> HIDE DEF e
<1>3. dropped = {}
  BY <1>1 DEF Settled, Stale
<1>4. left = e.deliveries
  <2>1. DOMAIN e.deliveries \ dropped = DOMAIN e.deliveries
    BY <1>3
  <2>2. Mapped(e.deliveries)
    BY <1>1 DEF Settled
  <2> HIDE DEF dropped
  <2> QED BY <2>1, <2>2, RestrictAll
<1>5. \A rid : Of(rid) = {}
  <2>1. Values(Restrict(e.deliveries, {})) = {}
    BY DEF Values, Restrict
  <2> HIDE DEF dropped
  <2> QED BY <1>3, <2>1
<1> HIDE DEF Of, left, dropped
<1>6. \A rid : Registers(rid) = FALSE /\ LogsIn(rid) = FALSE
  BY <1>5
<1> HIDE DEF Registers, LogsIn
<1>10. ASSUME NEW r, Mapped(r), r.registrationDispatched \in BOOLEAN, r.verifiedLogin \in BOOLEAN,
              NEW x, x = FALSE, NEW y, y = FALSE
       PROVE  [r EXCEPT !.registrationDispatched = @ \/ x, !.verifiedLogin = @ \/ y] = r
  <2>1. (r.registrationDispatched \/ x) = r.registrationDispatched /\ (r.verifiedLogin \/ y) = r.verifiedLogin
    BY <1>10
  <2>2. [r EXCEPT !.registrationDispatched = r.registrationDispatched, !.verifiedLogin = r.verifiedLogin] = r
    BY <1>10 DEF Mapped
  <2> QED BY <2>1, <2>2
<1>7. \A rid \in DOMAIN e.baselines : bases[rid] = e.baselines[rid]
  <2> SUFFICES ASSUME NEW rid \in DOMAIN e.baselines PROVE bases[rid] = e.baselines[rid]
    OBVIOUS
  <2> DEFINE r == e.baselines[rid]
             x == Registers(rid)
             y == LogsIn(rid)
  <2>1. bases[rid] = [r EXCEPT !.registrationDispatched = @ \/ x, !.verifiedLogin = @ \/ y]
    OBVIOUS
  <2>2. Mapped(r) /\ r.registrationDispatched \in BOOLEAN /\ r.verifiedLogin \in BOOLEAN /\ x = FALSE /\ y = FALSE
    BY <1>1, <1>6
  <2> HIDE DEF r, x, y, bases
  <2>3. [r EXCEPT !.registrationDispatched = @ \/ x, !.verifiedLogin = @ \/ y] = r
    BY <1>10, <2>2
  <2> QED BY <2>1, <2>3 DEF r
<1>8. bases = e.baselines
  <2>1. bases = [rid \in DOMAIN e.baselines |-> bases[rid]]
    OBVIOUS
  <2>2. [rid \in DOMAIN e.baselines |-> bases[rid]] = [rid \in DOMAIN e.baselines |-> e.baselines[rid]]
    BY <1>7
  <2> HIDE DEF bases
  <2> QED BY <1>1, <2>1, <2>2 DEF Mapped
<1>9. [e EXCEPT !.deliveries = e.deliveries, !.baselines = e.baselines] = e
  BY <1>1 DEF AppFields
<1> QED BY <1>2, <1>4, <1>8, <1>9 DEF e

LEMMA RecordsStay ==
    ASSUME NEW h, Settled(h)
    PROVE  DropRecords(Full(h)) = Full(h)
<1> DEFINE e == Full(h)
           kept == {rid \in DOMAIN e.records :
                    \/ ~e.records[rid].deleted
                    \/ \E g \in Values(e.grants) : g.record = rid
                    \/ \E d \in Values(e.deliveries) : d.record = rid
                    \/ Receipts(e, rid) # {}}
<1>1. /\ e = [f \in AppFields |-> e[f]] /\ e.records = h.records
      /\ e.deliveries = h.deliveries /\ e.grants = h.grants /\ e.requests = h.requests
      /\ Mapped(e.baselines) /\ DOMAIN e.baselines = DOMAIN h.records
  BY FullIs
<1>2. DropRecords(e) = [e EXCEPT !.records = Restrict(e.records, kept), !.baselines = Restrict(e.baselines, kept)]
  BY DEF DropRecords
<1> HIDE DEF e
<1>3. kept = DOMAIN e.records
  <2> SUFFICES ASSUME NEW rid \in DOMAIN e.records PROVE rid \in kept
    OBVIOUS
  <2>1. Named(h, rid)
    BY <1>1 DEF Settled
  <2> QED BY <1>1, <2>1 DEF Named, Values, Receipts
<1>4. Restrict(e.records, kept) = e.records /\ Restrict(e.baselines, kept) = e.baselines
  <2>1. Mapped(e.records) /\ DOMAIN e.baselines = DOMAIN e.records
    BY <1>1 DEF Settled
  <2> HIDE DEF kept
  <2> QED BY <1>1, <1>3, <2>1, RestrictAll
<1>5. [e EXCEPT !.records = e.records, !.baselines = e.baselines] = e
  BY <1>1 DEF AppFields
<1> QED BY <1>2, <1>4, <1>5 DEF e

LEMMA TasksStay ==
    ASSUME NEW h, Settled(h)
    PROVE  DropTasks(Full(h)) = Full(h)
<1> DEFINE e == Full(h)
           dead == {tid \in DOMAIN e.tasks :
                        /\ ~Referenced(e, tid)
                        /\ tid \in e.revokedTasks \/ e.tasks[tid].expiresAt <= e.lastTime}
           latest == CHOOSE tid \in dead : \A u \in dead : e.tasks[u].expiresAt <= e.tasks[tid].expiresAt
           kept == IF dead = DOMAIN e.tasks /\ dead # {} THEN {latest} ELSE DOMAIN e.tasks \ dead
<1>1. /\ e = [f \in AppFields |-> e[f]] /\ e.records = h.records /\ e.tasks = h.tasks
      /\ e.deliveries = h.deliveries /\ e.grants = h.grants /\ e.requests = h.requests
      /\ e.revokedTasks = h.revokedTasks /\ e.lastTime = h.lastTime
  BY FullIs
<1>2. DropTasks(e) = [e EXCEPT !.tasks = Restrict(e.tasks, kept), !.revokedTasks = e.revokedTasks \cap kept]
  BY DEF DropTasks
<1> HIDE DEF e
<1>3. dead = Dead(h)
  BY <1>1 DEF Dead, Referenced
<1>4. /\ Mapped(h.tasks) /\ h.revokedTasks \subseteq DOMAIN h.tasks
      /\ Dead(h) = {} \/ \E tid : DOMAIN h.tasks = {tid}
      /\ IsFiniteSet(DOMAIN h.tasks) /\ \A tid \in DOMAIN h.tasks : h.tasks[tid].expiresAt \in Nat
  BY GoodNames DEF Settled, Good, Whole, Formed
<1>5. dead \subseteq DOMAIN e.tasks
  OBVIOUS
<1> HIDE DEF dead
<1>6. kept = DOMAIN e.tasks
  <2>1. CASE dead = {}
    BY <2>1
  <2>2. CASE dead # {}
    <3>1. PICK tid : DOMAIN e.tasks = {tid}
      BY <1>1, <1>3, <1>4, <2>2
    <3>2. dead = {tid}
      BY <1>5, <2>2, <3>1
    <3>3. e.tasks[tid].expiresAt \in Nat
      BY <1>1, <1>4, <3>1
    <3>4. \E t \in dead : \A u \in dead : e.tasks[u].expiresAt <= e.tasks[t].expiresAt
      BY <3>2, <3>3
    <3>5. latest \in dead
      BY <3>4
    <3> HIDE DEF latest
    <3> QED BY <3>1, <3>2, <3>5
  <2> QED BY <2>1, <2>2
<1> HIDE DEF kept
<1>7. Restrict(e.tasks, kept) = e.tasks /\ e.revokedTasks \cap kept = e.revokedTasks
  BY <1>1, <1>4, <1>6, RestrictAll
<1>8. [e EXCEPT !.tasks = e.tasks, !.revokedTasks = e.revokedTasks] = e
  BY <1>1 DEF AppFields
<1> QED BY <1>2, <1>7, <1>8 DEF e

LEMMA AuditStays ==
    ASSUME NEW h, Settled(h)
    PROVE  DropAudit(Full(h)) = Full(h)
<1> DEFINE e == Full(h)
           K == Supported(e)
<1>1. /\ e = [f \in AppFields |-> e[f]] /\ e.records = h.records /\ e.tasks = h.tasks
      /\ e.requests = h.requests /\ e.audit = h.audit
  BY FullIs
<1>2. DropAudit(e) = [e EXCEPT !.audit = At(e.audit, K)]
  BY DEF DropAudit
<1> HIDE DEF e
<1>3. \A j \in DOMAIN e.audit : j \in K
  <2> SUFFICES ASSUME NEW j \in DOMAIN e.audit PROVE EventSupported(e, e.audit[j])
    BY DEF Supported
  <2>1. EventSupported(h, h.audit[j])
    BY <1>1 DEF Settled
  <2> QED BY <1>1, <2>1 DEF EventSupported
<1> HIDE DEF K
<1>4. e.audit \in Seq(Events)
  BY <1>1 DEF Settled, Good, Whole
<1>5. At(e.audit, K) = e.audit
  BY <1>3, <1>4, AtIs
<1>6. [e EXCEPT !.audit = e.audit] = e
  BY <1>1 DEF AppFields
<1> QED BY <1>2, <1>5, <1>6 DEF e

\* Trimming takes the written baselines that say nothing away again.
LEMMA TrimUndoes ==
    ASSUME NEW h, Settled(h)
    PROVE  TrimBaselines(Full(h)) = h
<1> DEFINE e == Full(h)
           trimmed == [rid \in DOMAIN e.baselines |->
                          [e.baselines[rid] EXCEPT
                              !.verifiedLogin = @ /\ e.records[rid].signup = "verified_login"]]
           kept == {rid \in DOMAIN trimmed : trimmed[rid] # NoBaseline}
           bases == Restrict(trimmed, kept)
<1>1. /\ e = [f \in AppFields |-> e[f]] /\ h = [f \in AppFields |-> h[f]]
      /\ e.tasks = h.tasks /\ e.records = h.records /\ e.grants = h.grants
      /\ e.requests = h.requests /\ e.deliveries = h.deliveries /\ e.revokedTasks = h.revokedTasks
      /\ e.audit = h.audit /\ e.lastTime = h.lastTime /\ e.clockFrozen = h.clockFrozen
      /\ e.generation = h.generation
      /\ DOMAIN e.baselines = DOMAIN h.records
      /\ \A rid \in DOMAIN h.records :
            /\ e.baselines[rid] = Baseline(h, rid) /\ Mapped(Baseline(h, rid))
            /\ Baseline(h, rid).verifiedLogin = FALSE
  BY FullIs
<1>2. TrimBaselines(e) = [e EXCEPT !.baselines = bases]
  BY DEF TrimBaselines
<1> HIDE DEF e
<1>3. ASSUME NEW r, Mapped(r), r.verifiedLogin = FALSE, NEW c
      PROVE  [r EXCEPT !.verifiedLogin = @ /\ c] = r
  <2>1. (r.verifiedLogin /\ c) = r.verifiedLogin
    BY <1>3
  <2>2. [r EXCEPT !.verifiedLogin = r.verifiedLogin] = r
    BY <1>3 DEF Mapped
  <2> QED BY <2>1, <2>2
<1>4. \A rid \in DOMAIN h.records : trimmed[rid] = Baseline(h, rid)
  <2> SUFFICES ASSUME NEW rid \in DOMAIN h.records PROVE trimmed[rid] = Baseline(h, rid)
    OBVIOUS
  <2> DEFINE r == Baseline(h, rid)
             c == e.records[rid].signup = "verified_login"
  <2>1. trimmed[rid] = [r EXCEPT !.verifiedLogin = @ /\ c]
    BY <1>1
  <2>2. Mapped(r) /\ r.verifiedLogin = FALSE
    BY <1>1
  <2> HIDE DEF r, c, trimmed
  <2>3. [r EXCEPT !.verifiedLogin = @ /\ c] = r
    BY <1>3, <2>2
  <2> QED BY <2>1, <2>3 DEF r
<1>5. DOMAIN trimmed = DOMAIN h.records
  BY <1>1
<1> HIDE DEF trimmed
<1>6. kept = DOMAIN h.baselines
  <2>1. DOMAIN h.baselines \subseteq DOMAIN h.records
    BY GoodNames DEF Settled
  <2> QED BY <1>4, <1>5, <2>1 DEF Settled, Baseline
<1>7. DOMAIN bases = kept /\ Mapped(bases) /\ \A rid \in kept : bases[rid] = trimmed[rid]
  <2>1. kept \in SUBSET DOMAIN trimmed
    OBVIOUS
  <2> HIDE DEF kept
  <2> QED BY <2>1, RestrictIs
<1> HIDE DEF bases, kept
<1>8. \A rid \in DOMAIN h.baselines : bases[rid] = h.baselines[rid]
  <2>1. DOMAIN h.baselines \subseteq DOMAIN h.records
    BY GoodNames DEF Settled
  <2> QED BY <1>4, <1>6, <1>7, <2>1 DEF Baseline
<1>9. bases = h.baselines
  <2>1. [rid \in DOMAIN h.baselines |-> bases[rid]] = [rid \in DOMAIN h.baselines |-> h.baselines[rid]]
    BY <1>8
  <2> QED BY <1>6, <1>7, <2>1 DEF Mapped, Settled
<1> DEFINE b == [e EXCEPT !.baselines = h.baselines]
<1>10. /\ b = [f \in AppFields |-> b[f]]
       /\ b.tasks = h.tasks /\ b.records = h.records /\ b.grants = h.grants
       /\ b.requests = h.requests /\ b.deliveries = h.deliveries /\ b.revokedTasks = h.revokedTasks
       /\ b.audit = h.audit /\ b.lastTime = h.lastTime /\ b.clockFrozen = h.clockFrozen
       /\ b.generation = h.generation /\ b.baselines = h.baselines
  BY <1>1 DEF AppFields
<1> HIDE DEF b
<1>11. b = h
  BY <1>1, <1>10, SameFields
<1> QED BY <1>2, <1>9, <1>11 DEF b, e

LEMMA SettledStays ==
    ASSUME NEW h, Settled(h)
    PROVE  Compact(h) = h
BY FoldStays, GrantsStay, DeliveriesStay, RecordsStay, TasksStay, AuditStays, TrimUndoes DEF Compact

\* One compaction of a good application is enough, and can be published.
LEMMA CompactSettles ==
    ASSUME NEW a, Good(a)
    PROVE  Compact(Compact(a)) = Compact(a) /\ Validate(Compact(a))
<1>1. Settled(Compact(a))
  BY CompactSettled
<1>2. Compact(Compact(a)) = Compact(a)
  BY <1>1, SettledStays
<1>3. Validate(Compact(a))
  BY <1>1, SoundIsValid DEF Settled
<1> QED BY <1>2, <1>3

=============================================================================
