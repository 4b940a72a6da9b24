----------------------------- MODULE VaultProofs -----------------------------
(***************************************************************************)
(* Proofs about the durable vault, for any callers, approvals, operations, *)
(* limits and intervals: memory and disk, what recovery renews, who may    *)
(* delegate, and what leaves the process once.                             *)
(***************************************************************************)
EXTENDS Vault, FiniteSetTheorems, WellFoundedInduction, TLAPS

-----------------------------------------------------------------------------
(* A finite set has a latest element, by induction over its size.          *)

Less == {ss \in Nat \X Nat : ss[1] < ss[2]}

LEMMA LessIsWellFounded == IsWellFoundedOn(Less, Nat)
BY NatLessThanWellFounded DEF OpToRel, Less

LEMMA LatestExists ==
    ASSUME NEW S, IsFiniteSet(S), S # {}, NEW f, \A x \in S : f[x].expiresAt \in Nat
    PROVE  \E m \in S : \A y \in S : f[y].expiresAt <= f[m].expiresAt
<1> DEFINE Lacks(T) == T # {} /\ \A m \in T : \E y \in T : ~(f[y].expiresAt <= f[m].expiresAt)
           Sizes == {n \in Nat : \E T \in SUBSET S : Lacks(T) /\ Cardinality(T) = n}
<1> SUFFICES ASSUME Lacks(S) PROVE FALSE
  OBVIOUS
<1>1. Cardinality(S) \in Sizes
  BY FS_CardinalityType
<1>2. \E n \in Sizes : \A k \in Sizes : <<k, n>> \notin Less
  BY <1>1, WFMin, LessIsWellFounded
<1>3. PICK n \in Sizes : \A k \in Sizes : ~(k < n)
  BY <1>2 DEF Less
<1>4. PICK T \in SUBSET S : Lacks(T) /\ Cardinality(T) = n
  BY <1>3
<1>5. PICK x \in T : TRUE
  BY <1>4
<1>6. IsFiniteSet(T \ {x}) /\ Cardinality(T \ {x}) = n - 1 /\ n \in Nat
  BY <1>4, FS_Subset, FS_RemoveElement
<1>7. n # 0 /\ Cardinality(T \ {x}) \in Nat
  BY <1>4, <1>6, FS_CardinalityType, FS_EmptySet, FS_Subset
<1>8. ~Lacks(T \ {x})
  <2>1. Cardinality(T \ {x}) < n
    BY <1>6
  <2>2. Cardinality(T \ {x}) \notin Sizes
    <3> HIDE DEF Sizes
    <3> QED BY <1>3, <2>1
  <2> QED BY <1>7, <2>2
<1>9. CASE T \ {x} = {}
  BY <1>4, <1>5, <1>9
<1>10. CASE T \ {x} # {}
  <2>1. PICK m \in T \ {x} : \A y \in T \ {x} : f[y].expiresAt <= f[m].expiresAt
    BY <1>8, <1>10
  <2>2. f[m].expiresAt \in Nat /\ f[x].expiresAt \in Nat /\ \A y \in T : f[y].expiresAt \in Nat
    OBVIOUS
  <2>3. \A y \in T : y = x \/ y \in T \ {x}
    OBVIOUS
  <2>4. CASE f[x].expiresAt <= f[m].expiresAt
    BY <1>4, <2>1, <2>3, <2>4
  <2>5. CASE f[m].expiresAt <= f[x].expiresAt
    <3>1. \A y \in T : f[y].expiresAt <= f[x].expiresAt
      BY <2>1, <2>2, <2>3, <2>5
    <3> QED BY <1>4, <1>5, <3>1
  <2> QED BY <2>2, <2>4, <2>5
<1> QED BY <1>9, <1>10

-----------------------------------------------------------------------------
(* The shape of an application.                                            *)

AppFields == {"tasks", "records", "grants", "requests", "deliveries", "baselines", "revokedTasks", "audit",
              "lastTime", "clockFrozen", "generation"}

RecordFields == {"createdBy", "task", "site", "kind", "revision", "secretVersion", "fields", "signup",
                 "deleted", "restored"}

GrantFields == {"record", "spec", "revoked", "version", "issuerTask", "adminIssued"}

AttemptFields == {"task", "record", "version", "destination", "fields", "status", "key", "action",
                  "dispatched", "at"}

BaselineFields == {"through", "secretVersion", "deletePruned", "prunedGrants", "registrationDispatched",
                   "verifiedLogin"}

Formed(a) ==
    /\ a = [f \in AppFields |-> a[f]]
    /\ a.lastTime \in Nat
    /\ IsFiniteSet(DOMAIN a.tasks) /\ \A tid \in DOMAIN a.tasks : a.tasks[tid].expiresAt \in Nat
    /\ \A rid \in DOMAIN a.records : DOMAIN a.records[rid] = RecordFields /\ a.records[rid].revision \in Nat
    /\ \A g \in DOMAIN a.grants : DOMAIN a.grants[g] = GrantFields
    /\ \A d \in DOMAIN a.deliveries : DOMAIN a.deliveries[d] = AttemptFields /\ a.deliveries[d].at \in Nat
    /\ \A rid \in DOMAIN a.baselines : DOMAIN a.baselines[rid] = BaselineFields
    /\ \A key \in DOMAIN a.requests : a.requests[key].at \in Nat

\* n has a part of the entries of m.
Part(n, m) == DOMAIN n \subseteq DOMAIN m /\ \A k \in DOMAIN n : n[k] = m[k]

-----------------------------------------------------------------------------
(* What compaction may drop.                                               *)

Drops(a, b) ==
    /\ b.lastTime = a.lastTime /\ b.clockFrozen = a.clockFrozen /\ b.generation = a.generation
    /\ Part(b.tasks, a.tasks) /\ Part(b.records, a.records) /\ Part(b.grants, a.grants)
    /\ Part(b.requests, a.requests) /\ Part(b.deliveries, a.deliveries)
    /\ b.revokedTasks \subseteq a.revokedTasks /\ a.revokedTasks \cap DOMAIN b.tasks \subseteq b.revokedTasks
    /\ \A d \in DOMAIN a.deliveries \ DOMAIN b.deliveries :
        a.deliveries[d].status # None /\ Stale(a, a.deliveries[d].at)
    /\ \A rid \in DOMAIN b.records : RegistrationSealed(a, rid) => RegistrationSealed(b, rid)
    /\ \A g \in DOMAIN b.grants :
        b.grants[g].issuerTask \in DOMAIN a.tasks => b.grants[g].issuerTask \in DOMAIN b.tasks

LEMMA DropsTransitive ==
    ASSUME NEW a, NEW b, NEW c, Drops(a, b), Drops(b, c)
    PROVE  Drops(a, c)
<1>1. \A d \in DOMAIN a.deliveries \ DOMAIN c.deliveries :
        a.deliveries[d].status # None /\ Stale(a, a.deliveries[d].at)
  BY DEF Drops, Part, Stale
<1>2. \A rid \in DOMAIN c.records : RegistrationSealed(a, rid) => RegistrationSealed(c, rid)
  BY DEF Drops, Part
<1>3. \A g \in DOMAIN c.grants :
        c.grants[g].issuerTask \in DOMAIN a.tasks => c.grants[g].issuerTask \in DOMAIN c.tasks
  BY DEF Drops, Part
<1>4. c.revokedTasks \subseteq a.revokedTasks /\ a.revokedTasks \cap DOMAIN c.tasks \subseteq c.revokedTasks
  BY DEF Drops, Part
<1> QED BY <1>1, <1>2, <1>3, <1>4 DEF Drops, Part

\* What a stage leaves alone it leaves as it was.
LEMMA Same ==
    ASSUME NEW a, NEW b, Formed(a), Formed(b),
           b.lastTime = a.lastTime, b.clockFrozen = a.clockFrozen, b.generation = a.generation,
           b.tasks = a.tasks, b.records = a.records, b.grants = a.grants,
           b.deliveries = a.deliveries, b.revokedTasks = a.revokedTasks, Part(b.requests, a.requests),
           \A rid \in DOMAIN b.records : Baseline(a, rid).registrationDispatched
                                            => Baseline(b, rid).registrationDispatched
    PROVE  Drops(a, b)
BY DEF Drops, Part, RegistrationSealed

LEMMA BaselineFormed ==
    ASSUME NEW a, NEW rid, Formed(a)
    PROVE  DOMAIN Baseline(a, rid) = BaselineFields
BY DEF Formed, Baseline, NoBaseline, BaselineFields

LEMMA FoldedBaselineFormed ==
    ASSUME NEW a, NEW rid, Formed(a)
    PROVE  /\ DOMAIN FoldedBaseline(a, rid) = BaselineFields
           /\ FoldedBaseline(a, rid).registrationDispatched = Baseline(a, rid).registrationDispatched
<1>1. DOMAIN Baseline(a, rid) = BaselineFields
  BY BaselineFormed
<1> DEFINE base == Baseline(a, rid)
<1> HIDE DEF base
<1>2. ASSUME NEW x, NEW y, NEW z, NEW w
      PROVE  LET b == [base EXCEPT !.through = x, !.secretVersion = y, !.deletePruned = z, !.prunedGrants = w]
             IN  DOMAIN b = DOMAIN base
                 /\ (DOMAIN base = BaselineFields => b.registrationDispatched = base.registrationDispatched)
  BY DEF BaselineFields
<1> QED BY <1>1, <1>2 DEF FoldedBaseline, base

LEMMA FoldDrops ==
    ASSUME NEW a, Formed(a)
    PROVE  LET b == FoldReceipts(a) IN
           /\ Formed(b) /\ Drops(a, b) /\ b.records = a.records
           /\ DOMAIN b.baselines = DOMAIN a.records
           /\ DOMAIN b.requests = DOMAIN a.requests \ UNION {Folded(a, rid) : rid \in DOMAIN a.records}
<1> DEFINE b == FoldReceipts(a)
           bases == [rid \in DOMAIN a.records |-> FoldedBaseline(a, rid)]
           rest == Restrict(a.requests, DOMAIN a.requests \ UNION {Folded(a, rid) : rid \in DOMAIN a.records})
<1>1. b = [a EXCEPT !.baselines = bases, !.requests = rest]
  BY DEF FoldReceipts
<1>2. Part(rest, a.requests)
      /\ DOMAIN rest = DOMAIN a.requests \ UNION {Folded(a, rid) : rid \in DOMAIN a.records}
  BY DEF Part, Restrict
<1>3. /\ DOMAIN bases = DOMAIN a.records
      /\ \A rid \in DOMAIN a.records :
            DOMAIN bases[rid] = BaselineFields
            /\ bases[rid].registrationDispatched = Baseline(a, rid).registrationDispatched
  BY FoldedBaselineFormed
<1> HIDE DEF b, bases, rest
<1>4. /\ b = [f \in AppFields |-> b[f]]
      /\ b.lastTime = a.lastTime /\ b.clockFrozen = a.clockFrozen /\ b.generation = a.generation
      /\ b.tasks = a.tasks /\ b.records = a.records /\ b.grants = a.grants
      /\ b.deliveries = a.deliveries /\ b.revokedTasks = a.revokedTasks
      /\ b.baselines = bases /\ b.requests = rest
  BY <1>1 DEF Formed, AppFields
<1>5. Formed(b)
  BY <1>2, <1>3, <1>4 DEF Formed, Part
<1>6. \A rid \in DOMAIN b.records : Baseline(a, rid).registrationDispatched
                                      => Baseline(b, rid).registrationDispatched
  BY <1>3, <1>4 DEF Baseline
<1>7. Drops(a, b)
  BY <1>2, <1>4, <1>5, <1>6, Same
<1> QED BY <1>2, <1>3, <1>4, <1>5, <1>7 DEF b

LEMMA GrantsDrop ==
    ASSUME NEW a, Formed(a)
    PROVE  LET b == DropGrants(a) IN
           /\ Formed(b) /\ Drops(a, b) /\ b.requests = a.requests /\ b.records = a.records
           /\ DOMAIN b.baselines = DOMAIN a.baselines
<1> DEFINE b == DropGrants(a)
<1>1. PICK dropped : b = [a EXCEPT !.grants = Restrict(@, DOMAIN @ \ dropped),
                  !.baselines = [rid \in DOMAIN a.baselines |->
                      [a.baselines[rid] EXCEPT !.prunedGrants = @ \ dropped]]]
  BY DEF DropGrants
<1> DEFINE grants == Restrict(a.grants, DOMAIN a.grants \ dropped)
           bases == [rid \in DOMAIN a.baselines |-> [a.baselines[rid] EXCEPT !.prunedGrants = @ \ dropped]]
<1>2. b = [a EXCEPT !.grants = grants, !.baselines = bases]
  BY <1>1
<1>3. Part(grants, a.grants)
  BY DEF Part, Restrict
<1>4. /\ DOMAIN bases = DOMAIN a.baselines
      /\ \A rid \in DOMAIN a.baselines :
            DOMAIN bases[rid] = BaselineFields
            /\ bases[rid].registrationDispatched = a.baselines[rid].registrationDispatched
  BY DEF Formed, BaselineFields
<1> HIDE DEF b, bases, grants
<1>5. /\ b = [f \in AppFields |-> b[f]]
      /\ b.lastTime = a.lastTime /\ b.clockFrozen = a.clockFrozen /\ b.generation = a.generation
      /\ b.tasks = a.tasks /\ b.records = a.records /\ b.grants = grants
      /\ b.deliveries = a.deliveries /\ b.revokedTasks = a.revokedTasks
      /\ b.baselines = bases /\ b.requests = a.requests
  BY <1>2 DEF Formed, AppFields
<1>6. Formed(b)
  BY <1>3, <1>4, <1>5 DEF Formed, Part
<1>7. \A rid \in DOMAIN b.records : RegistrationSealed(a, rid) => RegistrationSealed(b, rid)
  BY <1>4, <1>5 DEF RegistrationSealed, Baseline
<1>8. Drops(a, b)
  BY <1>3, <1>5, <1>7 DEF Drops, Part
<1> QED BY <1>4, <1>5, <1>6, <1>8 DEF b

LEMMA DeliveriesDrop ==
    ASSUME NEW a, Formed(a), DOMAIN a.baselines = DOMAIN a.records
    PROVE  LET b == DropDeliveries(a) IN
           /\ Formed(b) /\ Drops(a, b) /\ b.requests = a.requests /\ b.records = a.records
           /\ DOMAIN b.baselines = DOMAIN a.baselines
<1> DEFINE b == DropDeliveries(a)
           dropped == {d \in DOMAIN a.deliveries : a.deliveries[d].status # None /\ Stale(a, a.deliveries[d].at)}
           Of(rid) == {d \in Values(Restrict(a.deliveries, dropped)) : d.record = rid}
           left == Restrict(a.deliveries, DOMAIN a.deliveries \ dropped)
           bases == [rid \in DOMAIN a.baselines |-> [a.baselines[rid] EXCEPT
                      !.registrationDispatched = @ \/ \E d \in Of(rid) : SealsRegister(d),
                      !.verifiedLogin = @ \/ \E d \in Of(rid) : SealsLogin(a, d)]]
<1>1. b = [a EXCEPT !.deliveries = left, !.baselines = bases]
  BY DEF DropDeliveries
<1>2. Part(left, a.deliveries) /\ DOMAIN left = DOMAIN a.deliveries \ dropped
  BY DEF Part, Restrict
<1>3. /\ DOMAIN bases = DOMAIN a.baselines
      /\ \A rid \in DOMAIN a.baselines :
            /\ DOMAIN bases[rid] = BaselineFields
            /\ bases[rid].registrationDispatched =
                 (a.baselines[rid].registrationDispatched \/ \E d \in Of(rid) : SealsRegister(d))
  BY DEF Formed, BaselineFields
<1>4. \A d \in DOMAIN a.deliveries \ DOMAIN left :
         /\ a.deliveries[d].status # None /\ Stale(a, a.deliveries[d].at)
         /\ a.deliveries[d] \in Of(a.deliveries[d].record)
  BY <1>2 DEF Values, Restrict
<1> HIDE DEF b, left, bases, Of, dropped
<1>5. /\ b = [f \in AppFields |-> b[f]]
      /\ b.lastTime = a.lastTime /\ b.clockFrozen = a.clockFrozen /\ b.generation = a.generation
      /\ b.tasks = a.tasks /\ b.records = a.records /\ b.grants = a.grants
      /\ b.deliveries = left /\ b.revokedTasks = a.revokedTasks
      /\ b.baselines = bases /\ b.requests = a.requests
  BY <1>1 DEF Formed, AppFields
<1>6. Formed(b)
  BY <1>2, <1>3, <1>5 DEF Formed, Part
<1>7. ASSUME NEW rid \in DOMAIN b.records, RegistrationSealed(a, rid)
      PROVE  RegistrationSealed(b, rid)
  <2>1. rid \in DOMAIN a.baselines /\ Baseline(a, rid) = a.baselines[rid] /\ Baseline(b, rid) = bases[rid]
    BY <1>3, <1>5 DEF Baseline
  <2>2. CASE Baseline(a, rid).registrationDispatched
    BY <1>3, <2>1, <2>2 DEF RegistrationSealed
  <2>3. CASE \E d \in Values(a.deliveries) : d.record = rid /\ SealsRegister(d)
    <3>1. PICK d \in DOMAIN a.deliveries : a.deliveries[d].record = rid /\ SealsRegister(a.deliveries[d])
      BY <2>3 DEF Values
    <3>2. CASE d \in DOMAIN left
      BY <1>2, <1>5, <3>1, <3>2 DEF RegistrationSealed, Values, Part
    <3>3. CASE d \notin DOMAIN left
      BY <1>3, <1>4, <2>1, <3>1, <3>3 DEF RegistrationSealed
    <3> QED BY <3>2, <3>3
  <2> QED BY <1>7, <2>2, <2>3 DEF RegistrationSealed
<1>8. Drops(a, b)
  BY <1>2, <1>4, <1>5, <1>7 DEF Drops, Part
<1> QED BY <1>3, <1>5, <1>6, <1>8 DEF b

LEMMA RecordsDrop ==
    ASSUME NEW a, Formed(a), DOMAIN a.baselines = DOMAIN a.records
    PROVE  LET b == DropRecords(a) IN
           /\ Formed(b) /\ Drops(a, b) /\ b.requests = a.requests
           /\ DOMAIN b.baselines = DOMAIN b.records
<1> DEFINE b == DropRecords(a)
<1>1. PICK kept : kept \subseteq DOMAIN a.records
                  /\ b = [a EXCEPT !.records = Restrict(@, kept), !.baselines = Restrict(@, kept)]
  BY DEF DropRecords
<1> DEFINE records == Restrict(a.records, kept)
           bases == Restrict(a.baselines, kept)
<1>2. b = [a EXCEPT !.records = records, !.baselines = bases]
  BY <1>1
<1>3. Part(records, a.records) /\ Part(bases, a.baselines) /\ DOMAIN records = kept /\ DOMAIN bases = kept
  BY <1>1 DEF Part, Restrict
<1> HIDE DEF b, records, bases
<1>4. /\ b = [f \in AppFields |-> b[f]]
      /\ b.lastTime = a.lastTime /\ b.clockFrozen = a.clockFrozen /\ b.generation = a.generation
      /\ b.tasks = a.tasks /\ b.records = records /\ b.grants = a.grants
      /\ b.deliveries = a.deliveries /\ b.revokedTasks = a.revokedTasks
      /\ b.baselines = bases /\ b.requests = a.requests
  BY <1>2 DEF Formed, AppFields
<1>5. Formed(b)
  BY <1>3, <1>4 DEF Formed, Part
<1>6. \A rid \in DOMAIN b.records : RegistrationSealed(a, rid) => RegistrationSealed(b, rid)
  BY <1>3, <1>4 DEF RegistrationSealed, Baseline, Part
<1>7. Drops(a, b)
  BY <1>3, <1>4, <1>6 DEF Drops, Part
<1> QED BY <1>3, <1>4, <1>5, <1>7 DEF b

LEMMA TasksDrop ==
    ASSUME NEW a, Formed(a)
    PROVE  LET b == DropTasks(a) IN
           /\ Formed(b) /\ Drops(a, b) /\ b.requests = a.requests
           /\ b.records = a.records /\ b.baselines = a.baselines
<1> DEFINE b == DropTasks(a)
           dead == {tid \in DOMAIN a.tasks :
                        /\ ~Referenced(a, tid)
                        /\ tid \in a.revokedTasks \/ a.tasks[tid].expiresAt <= a.lastTime}
           latest == CHOOSE tid \in dead : \A u \in dead : a.tasks[u].expiresAt <= a.tasks[tid].expiresAt
           kept == IF dead = DOMAIN a.tasks /\ dead # {} THEN {latest} ELSE DOMAIN a.tasks \ dead
           tasks == Restrict(a.tasks, kept)
<1>0. kept \subseteq DOMAIN a.tasks
  <2>1. CASE dead = {}
    BY <2>1
  <2>2. CASE dead # {}
    <3>1. dead \subseteq DOMAIN a.tasks
      OBVIOUS
    <3>2. IsFiniteSet(dead) /\ \A tid \in dead : a.tasks[tid].expiresAt \in Nat
      BY <3>1, FS_Subset DEF Formed
    <3> HIDE DEF dead
    <3>3. \E tid \in dead : \A u \in dead : a.tasks[u].expiresAt <= a.tasks[tid].expiresAt
      BY <2>2, <3>2, LatestExists
    <3>4. latest \in dead
      BY <3>3
    <3> HIDE DEF latest
    <3> QED BY <3>1, <3>4
  <2> QED BY <2>1, <2>2
<1>1. b = [a EXCEPT !.tasks = tasks, !.revokedTasks = a.revokedTasks \cap kept]
  BY DEF DropTasks
<1>2. DOMAIN tasks = kept /\ Part(tasks, a.tasks) /\ IsFiniteSet(DOMAIN tasks)
  <2> HIDE DEF kept
  <2> QED BY <1>0, FS_Subset DEF Part, Restrict, Formed
<1>3. ASSUME NEW g \in DOMAIN a.grants, a.grants[g].issuerTask \in DOMAIN a.tasks
      PROVE  a.grants[g].issuerTask \in kept
  <2>1. a.grants[g].issuerTask \in DOMAIN a.tasks \ dead
    BY <1>3 DEF Referenced, Values
  <2> HIDE DEF dead
  <2> QED BY <2>1
<1> HIDE DEF b, kept, tasks
<1>4. /\ b = [f \in AppFields |-> b[f]]
      /\ b.lastTime = a.lastTime /\ b.clockFrozen = a.clockFrozen /\ b.generation = a.generation
      /\ b.tasks = tasks /\ b.records = a.records /\ b.grants = a.grants
      /\ b.deliveries = a.deliveries /\ b.revokedTasks = a.revokedTasks \cap kept
      /\ b.baselines = a.baselines /\ b.requests = a.requests
  BY <1>1 DEF Formed, AppFields
<1>5. Formed(b)
  BY <1>2, <1>4 DEF Formed, Part
<1>6. \A rid \in DOMAIN b.records : RegistrationSealed(a, rid) => RegistrationSealed(b, rid)
  BY <1>4 DEF RegistrationSealed, Baseline
<1>7. b.revokedTasks \subseteq a.revokedTasks /\ a.revokedTasks \cap DOMAIN b.tasks \subseteq b.revokedTasks
  BY <1>2, <1>4
<1>8. \A g \in DOMAIN b.grants :
        b.grants[g].issuerTask \in DOMAIN a.tasks => b.grants[g].issuerTask \in DOMAIN b.tasks
  BY <1>2, <1>3, <1>4
<1>9. Drops(a, b)
  BY <1>2, <1>4, <1>6, <1>7, <1>8 DEF Drops, Part
<1> QED BY <1>4, <1>5, <1>9 DEF b

LEMMA AuditDrops ==
    ASSUME NEW a, Formed(a), NEW events
    PROVE  LET b == [a EXCEPT !.audit = events] IN
           /\ Formed(b) /\ Drops(a, b) /\ b.requests = a.requests
           /\ b.records = a.records /\ b.baselines = a.baselines /\ b.tasks = a.tasks
           /\ b.grants = a.grants /\ b.deliveries = a.deliveries /\ b.revokedTasks = a.revokedTasks
<1> DEFINE b == [a EXCEPT !.audit = events]
<1>1. /\ b = [f \in AppFields |-> b[f]]
      /\ b.lastTime = a.lastTime /\ b.clockFrozen = a.clockFrozen /\ b.generation = a.generation
      /\ b.tasks = a.tasks /\ b.records = a.records /\ b.grants = a.grants
      /\ b.deliveries = a.deliveries /\ b.revokedTasks = a.revokedTasks
      /\ b.baselines = a.baselines /\ b.requests = a.requests
  BY DEF Formed, AppFields
<1> HIDE DEF b
<1>2. Formed(b)
  BY <1>1 DEF Formed
<1>3. Drops(a, b)
  BY <1>1, <1>2, Same DEF Part, Baseline
<1> QED BY <1>1, <1>2, <1>3 DEF b

LEMMA TrimDrops ==
    ASSUME NEW a, Formed(a)
    PROVE  LET b == TrimBaselines(a) IN
           /\ Formed(b) /\ Drops(a, b) /\ b.requests = a.requests /\ b.records = a.records /\ b.tasks = a.tasks
           /\ b.grants = a.grants /\ b.deliveries = a.deliveries /\ b.revokedTasks = a.revokedTasks
<1> DEFINE b == TrimBaselines(a)
           trimmed == [rid \in DOMAIN a.baselines |->
                          [a.baselines[rid] EXCEPT
                              !.verifiedLogin = @ /\ a.records[rid].signup = "verified_login"]]
           bases == Restrict(trimmed, {rid \in DOMAIN trimmed : trimmed[rid] # NoBaseline})
<1>1. b = [a EXCEPT !.baselines = bases]
  BY DEF TrimBaselines
<1>2. /\ DOMAIN trimmed = DOMAIN a.baselines
      /\ \A rid \in DOMAIN a.baselines :
            DOMAIN trimmed[rid] = BaselineFields
            /\ trimmed[rid].registrationDispatched = a.baselines[rid].registrationDispatched
  BY DEF Formed, BaselineFields
<1> HIDE DEF trimmed
<1>3. /\ DOMAIN bases = {rid \in DOMAIN trimmed : trimmed[rid] # NoBaseline}
      /\ \A rid \in DOMAIN bases : bases[rid] = trimmed[rid]
  BY DEF Restrict
<1> HIDE DEF b, bases
<1>4. /\ b = [f \in AppFields |-> b[f]]
      /\ b.lastTime = a.lastTime /\ b.clockFrozen = a.clockFrozen /\ b.generation = a.generation
      /\ b.tasks = a.tasks /\ b.records = a.records /\ b.grants = a.grants
      /\ b.deliveries = a.deliveries /\ b.revokedTasks = a.revokedTasks
      /\ b.baselines = bases /\ b.requests = a.requests
  BY <1>1 DEF Formed, AppFields
<1>5. Formed(b)
  BY <1>2, <1>3, <1>4 DEF Formed
<1>6. ~NoBaseline.registrationDispatched
  BY DEF NoBaseline
<1>7. \A rid \in DOMAIN b.records : Baseline(a, rid).registrationDispatched
                                      => Baseline(b, rid).registrationDispatched
  BY <1>2, <1>3, <1>4, <1>6 DEF Baseline
<1>8. Drops(a, b)
  BY <1>4, <1>5, <1>7, Same DEF Part
<1> QED BY <1>4, <1>5, <1>8 DEF b

LEMMA CompactDrops ==
    ASSUME NEW a, Formed(a)
    PROVE  /\ Formed(Compact(a)) /\ Drops(a, Compact(a))
           /\ DOMAIN Compact(a).requests =
                DOMAIN a.requests \ UNION {Folded(a, rid) : rid \in DOMAIN a.records}
<1> DEFINE b == FoldReceipts(a)
           c == DropGrants(b)
           d == DropDeliveries(c)
           e == DropRecords(d)
           f == DropTasks(e)
           g == DropAudit(f)
           h == TrimBaselines(g)
           left == DOMAIN a.requests \ UNION {Folded(a, rid) : rid \in DOMAIN a.records}
<1>0. Compact(a) = h
  BY DEF Compact
<1>1. Formed(b) /\ Drops(a, b) /\ DOMAIN b.baselines = DOMAIN b.records /\ DOMAIN b.requests = left
  BY FoldDrops DEF Drops
<1> HIDE DEF b, left
<1>2. /\ Formed(c) /\ Drops(b, c) /\ c.requests = b.requests
      /\ DOMAIN c.baselines = DOMAIN c.records
  BY <1>1, GrantsDrop
<1> HIDE DEF c
<1>3. Formed(d) /\ Drops(c, d) /\ d.requests = c.requests /\ DOMAIN d.baselines = DOMAIN d.records
  BY <1>2, DeliveriesDrop
<1> HIDE DEF d
<1>4. Formed(e) /\ Drops(d, e) /\ e.requests = d.requests
  BY <1>3, RecordsDrop
<1> HIDE DEF e
<1>5. Formed(f) /\ Drops(e, f) /\ f.requests = e.requests
  BY <1>4, TasksDrop
<1> HIDE DEF f
<1>6. Formed(g) /\ Drops(f, g) /\ g.requests = f.requests
  <2>1. PICK events : g = [f EXCEPT !.audit = events]
    BY DEF DropAudit
  <2> HIDE DEF g
  <2> QED BY <1>5, <2>1, AuditDrops
<1> HIDE DEF g
<1>7. Formed(h) /\ Drops(g, h) /\ h.requests = g.requests
  BY <1>6, TrimDrops
<1> HIDE DEF h
<1>8. Drops(a, d)
  <2>1. Drops(a, c)
    BY <1>1, <1>2, DropsTransitive
  <2> QED BY <1>3, <2>1, DropsTransitive
<1>9. Drops(a, f)
  <2>1. Drops(a, e)
    BY <1>4, <1>8, DropsTransitive
  <2> QED BY <1>5, <2>1, DropsTransitive
<1>10. Drops(a, h)
  <2>1. Drops(a, g)
    BY <1>6, <1>9, DropsTransitive
  <2> QED BY <1>7, <2>1, DropsTransitive
<1>11. DOMAIN h.requests = left
  BY <1>1, <1>2, <1>3, <1>4, <1>5, <1>6, <1>7
<1> QED BY <1>0, <1>7, <1>10, <1>11 DEF left

-----------------------------------------------------------------------------
(* What validate() established of everything that was published.           *)

Checked(a) ==
    /\ \A g \in DOMAIN a.grants :
        /\ a.grants[g].record \in DOMAIN a.records /\ a.grants[g].issuerTask \in DOMAIN a.tasks
        /\ ~a.grants[g].adminIssued => a.grants[g].issuerTask = a.records[a.grants[g].record].task
        /\ a.records[a.grants[g].record].deleted => a.grants[g].revoked
    /\ \A rid \in DOMAIN a.records :
        \A n \in Baseline(a, rid).through + 1 .. a.records[rid].revision :
            \E l \in Receipts(a, rid) : a.requests[l].revision = n
    /\ \A k \in DOMAIN a.requests :
        LET c == a.requests[k] IN
        /\ c.record \in DOMAIN a.records
        /\ c.revision \in Baseline(a, c.record).through + 1 .. a.records[c.record].revision
        /\ \A l \in Receipts(a, c.record) : a.requests[l].revision = c.revision => l = k

LEMMA ValidIsChecked ==
    ASSUME NEW a, Validate(a)
    PROVE  Checked(a)
<1>1. \A g \in DOMAIN a.grants : ValidGrant(a, a.grants[g])
  BY DEF Validate, Values
<1>2. ASSUME NEW k \in DOMAIN a.requests
      PROVE  LET c == a.requests[k] IN
             /\ c.record \in DOMAIN a.records
             /\ c.revision \in Baseline(a, c.record).through + 1 .. a.records[c.record].revision
             /\ \A l \in Receipts(a, c.record) : a.requests[l].revision = c.revision => l = k
  <2> DEFINE rid == a.requests[k].record
  <2>1. ValidReceipt(a, k)
    BY DEF Validate
  <2>2. rid \in DOMAIN a.records
        /\ \A l \in Receipts(a, rid) : a.requests[l].revision = a.requests[k].revision => l = k
    BY <2>1 DEF ValidReceipt
  <2>3. ValidAccounting(a, rid)
    BY <2>2 DEF Validate
  <2>4. {c.revision : c \in {a.requests[l] : l \in Receipts(a, rid)}}
            = Baseline(a, rid).through + 1 .. a.records[rid].revision
    BY <2>3 DEF ValidAccounting
  <2>5. k \in Receipts(a, rid)
    BY DEF Receipts
  <2> HIDE DEF rid
  <2>6. a.requests[k].revision \in {c.revision : c \in {a.requests[l] : l \in Receipts(a, rid)}}
    BY <2>5
  <2>7. a.requests[k].revision \in Baseline(a, rid).through + 1 .. a.records[rid].revision
    BY <2>4, <2>6, Zenon
  <2> QED BY <2>2, <2>7 DEF rid
<1>3. ASSUME NEW rid \in DOMAIN a.records, NEW n \in Baseline(a, rid).through + 1 .. a.records[rid].revision
      PROVE  \E l \in Receipts(a, rid) : a.requests[l].revision = n
  <2>1. {c.revision : c \in {a.requests[l] : l \in Receipts(a, rid)}}
            = Baseline(a, rid).through + 1 .. a.records[rid].revision
    BY DEF Validate, ValidAccounting
  <2>2. n \in {c.revision : c \in {a.requests[l] : l \in Receipts(a, rid)}}
    BY <2>1, Zenon
  <2> QED BY <2>2
<1> QED BY <1>1, <1>2, <1>3 DEF Checked, ValidGrant

\* Only receipts outside of their window are folded: the prefix that a receipt
\* extends ends with the receipt itself.
LEMMA FoldedAreStale ==
    ASSUME NEW a, Checked(a), NEW rid, NEW k \in Folded(a, rid)
    PROVE  Stale(a, a.requests[k].at)
<1> DEFINE c == a.requests[k]
<1>1. k \in DOMAIN a.requests /\ c.record = rid
  BY DEF Folded, Receipts
<1>2. /\ c.revision \in Baseline(a, rid).through + 1 .. a.records[rid].revision
      /\ \A l \in Receipts(a, rid) : a.requests[l].revision = c.revision => l = k
  BY <1>1 DEF Checked
<1>3. c.revision \in Baseline(a, rid).through + 1 .. c.revision
  BY <1>2
<1>4. \E l \in Receipts(a, rid) : a.requests[l].revision = c.revision /\ Stale(a, a.requests[l].at)
  BY <1>3 DEF Folded
<1> QED BY <1>2, <1>4

-----------------------------------------------------------------------------
(* What compaction leaves once every retry window has passed.              *)

Over(a, g) == g.revoked \/ g.spec.expiresAt <= a.lastTime

Ended(a, tid) == tid \in a.revokedTasks \/ a.tasks[tid].expiresAt <= a.lastTime

\* Receipts follow each other without a gap, so the stale prefix is all of them.
LEMMA EveryReceiptFolds ==
    ASSUME NEW a, Formed(a), Checked(a), Outdated(a)
    PROVE  DOMAIN a.requests \subseteq UNION {Folded(a, rid) : rid \in DOMAIN a.records}
<1> SUFFICES ASSUME NEW k \in DOMAIN a.requests
             PROVE  \E rid \in DOMAIN a.records : k \in Folded(a, rid)
  OBVIOUS
<1> DEFINE rid == a.requests[k].record
           top == a.requests[k].revision
<1>1. /\ rid \in DOMAIN a.records /\ a.records[rid].revision \in Nat
      /\ top \in Baseline(a, rid).through + 1 .. a.records[rid].revision
  BY DEF Checked, Formed
<1>2. k \in Receipts(a, rid)
  BY DEF Receipts
<1> HIDE DEF rid, top
<1>3. ASSUME NEW n \in Baseline(a, rid).through + 1 .. top
      PROVE  \E l \in Receipts(a, rid) : a.requests[l].revision = n /\ Stale(a, a.requests[l].at)
  <2>1. n \in Baseline(a, rid).through + 1 .. a.records[rid].revision
    BY <1>1
  <2>2. PICK l \in Receipts(a, rid) : a.requests[l].revision = n
    BY <1>1, <2>1 DEF Checked
  <2>3. Stale(a, a.requests[l].at)
    BY DEF Outdated, Values, Receipts
  <2> QED BY <2>2, <2>3
<1>4. k \in Folded(a, rid)
  BY <1>2, <1>3 DEF Folded, top
<1> QED BY <1>1, <1>4

LEMMA GrantsFreed ==
    ASSUME NEW a, Formed(a), DOMAIN a.requests = {}
    PROVE  \A g \in DOMAIN DropGrants(a).grants : ~Over(a, DropGrants(a).grants[g])
<1> DEFINE dropped == {g \in DOMAIN a.grants :
                          /\ a.grants[g].revoked \/ a.grants[g].spec.expiresAt <= a.lastTime
                          /\ \A cached \in Values(a.requests) : cached.grant # g}
           grants == Restrict(a.grants, DOMAIN a.grants \ dropped)
<1>1. DropGrants(a).grants = grants
  BY DEF DropGrants, Formed, AppFields
<1>2. \A g \in DOMAIN grants : g \in DOMAIN a.grants \ dropped /\ grants[g] = a.grants[g]
  BY DEF Restrict
<1>3. \A g \in DOMAIN a.grants \ dropped : ~Over(a, a.grants[g])
  BY DEF Over, Values
<1> HIDE DEF dropped, grants
<1> QED BY <1>1, <1>2, <1>3

LEMMA DeliveriesFreed ==
    ASSUME NEW a, Formed(a), \A d \in DOMAIN a.deliveries : a.deliveries[d].status # None /\ Stale(a, a.deliveries[d].at)
    PROVE  DOMAIN DropDeliveries(a).deliveries = {}
<1> DEFINE dropped == {d \in DOMAIN a.deliveries : a.deliveries[d].status # None /\ Stale(a, a.deliveries[d].at)}
           left == Restrict(a.deliveries, DOMAIN a.deliveries \ dropped)
<1>1. DropDeliveries(a).deliveries = left
  BY DEF DropDeliveries, Formed, AppFields
<1>2. DOMAIN left = {}
  BY DEF Restrict
<1> QED BY <1>1, <1>2

LEMMA RecordsFreed ==
    ASSUME NEW a, Formed(a), DOMAIN a.requests = {}, DOMAIN a.deliveries = {},
           \A g \in DOMAIN a.grants : ~a.records[a.grants[g].record].deleted
    PROVE  \A rid \in DOMAIN DropRecords(a).records : ~DropRecords(a).records[rid].deleted
<1> DEFINE kept == {rid \in DOMAIN a.records :
                      \/ ~a.records[rid].deleted
                      \/ \E g \in Values(a.grants) : g.record = rid
                      \/ \E d \in Values(a.deliveries) : d.record = rid
                      \/ Receipts(a, rid) # {}}
           records == Restrict(a.records, kept)
<1>1. DropRecords(a).records = records
  BY DEF DropRecords, Formed, AppFields
<1>2. \A rid \in DOMAIN records : rid \in kept /\ records[rid] = a.records[rid]
  BY DEF Restrict
<1>3. \A rid \in kept : ~a.records[rid].deleted
  BY DEF Values, Receipts
<1> HIDE DEF kept, records
<1> QED BY <1>1, <1>2, <1>3

\* The tasks that ended and that nothing names: the one kept for the vault's
\* binding, or none.
LEMMA TasksFreed ==
    ASSUME NEW a, Formed(a)
    PROVE  LET b == DropTasks(a) IN
           Cardinality({tid \in DOMAIN b.tasks : Ended(b, tid) /\ ~Referenced(b, tid)}) <= 1
<1> DEFINE b == DropTasks(a)
           dead == {tid \in DOMAIN a.tasks :
                        /\ ~Referenced(a, tid)
                        /\ tid \in a.revokedTasks \/ a.tasks[tid].expiresAt <= a.lastTime}
           latest == CHOOSE tid \in dead : \A u \in dead : a.tasks[u].expiresAt <= a.tasks[tid].expiresAt
           kept == IF dead = DOMAIN a.tasks /\ dead # {} THEN {latest} ELSE DOMAIN a.tasks \ dead
           tasks == Restrict(a.tasks, kept)
           idle == {tid \in DOMAIN b.tasks : Ended(b, tid) /\ ~Referenced(b, tid)}
<1>1. b = [a EXCEPT !.tasks = tasks, !.revokedTasks = a.revokedTasks \cap kept]
  BY DEF DropTasks
<1>2. DOMAIN tasks \subseteq kept /\ \A tid \in DOMAIN tasks : tasks[tid] = a.tasks[tid]
  <2> HIDE DEF kept
  <2> QED BY DEF Restrict
<1>3. dead = DOMAIN a.tasks /\ dead # {} => kept = {latest}
  OBVIOUS
<1>4. ~(dead = DOMAIN a.tasks /\ dead # {}) => kept = DOMAIN a.tasks \ dead
  OBVIOUS
<1>5. \A tid \in DOMAIN a.tasks : ~Referenced(a, tid) /\ Ended(a, tid) => tid \in dead
  BY DEF Ended
<1> HIDE DEF b, kept, tasks, dead, latest
<1>6. /\ b.lastTime = a.lastTime /\ b.tasks = tasks /\ b.records = a.records /\ b.grants = a.grants
      /\ b.deliveries = a.deliveries /\ b.requests = a.requests /\ b.revokedTasks = a.revokedTasks \cap kept
  BY <1>1 DEF Formed, AppFields
<1>7. \A tid \in DOMAIN b.tasks : /\ Referenced(b, tid) <=> Referenced(a, tid)
                                  /\ Ended(b, tid) => Ended(a, tid)
  BY <1>2, <1>6 DEF Referenced, Ended
<1>8. idle \subseteq kept
  BY <1>2, <1>6
<1>9. CASE dead = DOMAIN a.tasks /\ dead # {}
  <2>1. idle \subseteq {latest}
    BY <1>3, <1>8, <1>9
  <2> HIDE DEF idle
  <2>2. Cardinality(idle) <= Cardinality({latest}) /\ Cardinality({latest}) = 1
    BY <2>1, FS_Singleton, FS_Subset
  <2> QED BY <2>2 DEF idle, b
<1>10. CASE ~(dead = DOMAIN a.tasks /\ dead # {})
  <2>1. idle = {}
    BY <1>2, <1>4, <1>5, <1>6, <1>7, <1>8, <1>10
  <2> QED BY <2>1, FS_EmptySet DEF b
<1> QED BY <1>9, <1>10

LEMMA CompactFrees ==
    ASSUME NEW a, Formed(a), Checked(a), Outdated(a)
    PROVE  LET h == Compact(a) IN
           /\ DOMAIN h.requests = {} /\ DOMAIN h.deliveries = {}
           /\ \A g \in DOMAIN h.grants : ~Over(h, h.grants[g])
           /\ \A rid \in DOMAIN h.records : ~h.records[rid].deleted
           /\ Cardinality({tid \in DOMAIN h.tasks : Ended(h, tid) /\ ~Referenced(h, tid)}) <= 1
<1> DEFINE b == FoldReceipts(a)
           c == DropGrants(b)
           d == DropDeliveries(c)
           e == DropRecords(d)
           f == DropTasks(e)
           g == DropAudit(f)
           h == TrimBaselines(g)
<1>0. Compact(a) = h
  BY DEF Compact
<1>1. /\ Formed(b) /\ Drops(a, b) /\ b.records = a.records /\ DOMAIN b.requests = {}
      /\ DOMAIN b.baselines = DOMAIN b.records
  BY FoldDrops, EveryReceiptFolds
<1> HIDE DEF b
<1>2. /\ Formed(c) /\ Drops(b, c) /\ c.requests = b.requests /\ c.records = b.records
      /\ DOMAIN c.baselines = DOMAIN c.records
      /\ \A i \in DOMAIN c.grants : ~Over(b, c.grants[i])
  BY <1>1, GrantsDrop, GrantsFreed
<1> HIDE DEF c
<1>3. Drops(a, c) /\ c.lastTime = a.lastTime
  BY <1>1, <1>2, DropsTransitive DEF Drops
<1>4. \A i \in DOMAIN c.deliveries : c.deliveries[i].status # None /\ Stale(c, c.deliveries[i].at)
  <2>1. Part(c.deliveries, a.deliveries)
    BY <1>3 DEF Drops
  <2> QED BY <1>3, <2>1 DEF Part, Outdated, Values, Stale
<1>5. /\ Formed(d) /\ Drops(c, d) /\ d.requests = c.requests /\ d.records = c.records
      /\ DOMAIN d.baselines = DOMAIN d.records /\ DOMAIN d.deliveries = {}
  BY <1>2, <1>4, DeliveriesDrop, DeliveriesFreed
<1> HIDE DEF d
<1>6. Drops(a, d) /\ \A i \in DOMAIN d.grants : ~Over(a, d.grants[i])
  <2>1. Drops(a, d)
    BY <1>3, <1>5, DropsTransitive
  <2>2. Part(d.grants, c.grants) /\ b.lastTime = a.lastTime
    BY <1>1, <1>5 DEF Drops
  <2> QED BY <1>2, <2>1, <2>2 DEF Part, Over
<1>7. \A i \in DOMAIN d.grants : ~d.records[d.grants[i].record].deleted
  <2>1. Part(d.grants, a.grants)
    BY <1>6 DEF Drops
  <2>2. d.records = a.records
    BY <1>1, <1>2, <1>5
  <2> QED BY <1>6, <2>1, <2>2 DEF Part, Over, Checked
<1>8. Formed(e) /\ Drops(d, e) /\ e.requests = d.requests /\ \A rid \in DOMAIN e.records : ~e.records[rid].deleted
  BY <1>1, <1>2, <1>5, <1>7, RecordsDrop, RecordsFreed
<1> HIDE DEF e
<1>9. /\ Formed(f) /\ Drops(e, f) /\ f.requests = e.requests /\ f.records = e.records
      /\ Cardinality({tid \in DOMAIN f.tasks : Ended(f, tid) /\ ~Referenced(f, tid)}) <= 1
  BY <1>8, TasksDrop, TasksFreed
<1> HIDE DEF f
<1>10. /\ Formed(g) /\ Drops(f, g) /\ g.requests = f.requests /\ g.records = f.records /\ g.tasks = f.tasks
       /\ g.grants = f.grants /\ g.deliveries = f.deliveries /\ g.revokedTasks = f.revokedTasks
  <2>1. PICK events : g = [f EXCEPT !.audit = events]
    BY DEF DropAudit
  <2> HIDE DEF g
  <2> QED BY <1>9, <2>1, AuditDrops
<1> HIDE DEF g
<1>11. /\ Drops(g, h) /\ h.requests = g.requests /\ h.records = g.records /\ h.tasks = g.tasks
       /\ h.grants = g.grants /\ h.deliveries = g.deliveries /\ h.revokedTasks = g.revokedTasks
  BY <1>10, TrimDrops
<1> HIDE DEF h
<1>12. h.lastTime = f.lastTime /\ f.lastTime = a.lastTime
  BY <1>6, <1>8, <1>9, <1>10, <1>11 DEF Drops
<1>13. DOMAIN h.requests = {} /\ DOMAIN h.deliveries = {}
  <2>1. DOMAIN f.deliveries \subseteq DOMAIN d.deliveries
    BY <1>8, <1>9 DEF Drops, Part
  <2> QED BY <1>1, <1>2, <1>5, <1>8, <1>9, <1>10, <1>11, <2>1
<1>14. \A i \in DOMAIN h.grants : ~Over(h, h.grants[i])
  <2>1. \A i \in DOMAIN f.grants : i \in DOMAIN d.grants /\ f.grants[i] = d.grants[i]
    BY <1>8, <1>9 DEF Drops, Part
  <2> QED BY <1>6, <1>10, <1>11, <1>12, <2>1 DEF Over
<1>15. \A rid \in DOMAIN h.records : ~h.records[rid].deleted
  BY <1>8, <1>9, <1>10, <1>11
<1>16. {tid \in DOMAIN h.tasks : Ended(h, tid) /\ ~Referenced(h, tid)}
          = {tid \in DOMAIN f.tasks : Ended(f, tid) /\ ~Referenced(f, tid)}
  BY <1>10, <1>11, <1>12 DEF Ended, Referenced
<1> QED BY <1>0, <1>9, <1>13, <1>14, <1>15, <1>16

-----------------------------------------------------------------------------
(* What any step makes of what the vault holds: T are the tasks it approves, *)
(* N the identifiers it draws, S the deliveries it settles.                *)

TaskCarried(a, b, t) ==
    t \in DOMAIN a.tasks /\ b.tasks[t] = a.tasks[t] /\ (t \in a.revokedTasks => t \in b.revokedTasks)

GrantCarried(a, b, g) ==
    LET tid == a.grants[g].issuerTask IN
    /\ g \in DOMAIN a.grants
    /\ b.grants[g].issuerTask = tid /\ b.grants[g].adminIssued = a.grants[g].adminIssued
    /\ tid \in DOMAIN a.tasks => tid \in DOMAIN b.tasks /\ b.tasks[tid] = a.tasks[tid]

\* A human's grant was issued under a human's task.
GrantVouched(b, g) ==
    b.grants[g].adminIssued =>
        \E ctx \in Contexts : ctx.admin /\ ctx.principal = b.tasks[b.grants[g].issuerTask].principal

Registering(a, r, S) ==
    \E d \in S : d \in DOMAIN a.deliveries /\ a.deliveries[d].record = r /\ SealsRegister(a.deliveries[d])

RecordCarried(a, b, r, S) ==
    /\ r \in DOMAIN a.records /\ b.records[r].restored = a.records[r].restored
    /\ RegistrationSealed(a, r) => RegistrationSealed(b, r) \/ Registering(a, r, S)

AttemptCarried(a, b, d, S) ==
    IF d \in DOMAIN b.deliveries
    THEN LET n == b.deliveries[d]
             o == a.deliveries[d]
         IN  /\ n.task = o.task /\ n.record = o.record /\ n.key = o.key /\ n.action = o.action /\ n.at = o.at
             /\ d \notin S => n.dispatched = o.dispatched
    ELSE a.deliveries[d].at + RetryWindow <= b.lastTime

ReceiptCarried(a, b, k) ==
    \/ k \in DOMAIN b.requests /\ b.requests[k].at = a.requests[k].at
        /\ b.requests[k].fingerprint = a.requests[k].fingerprint
    \/ a.requests[k].at + RetryWindow <= b.lastTime

Carries(a, b, T, N, S) ==
    /\ \A t \in DOMAIN b.tasks : TaskCarried(a, b, t) \/ t \in T
    /\ \A g \in DOMAIN b.grants : GrantCarried(a, b, g) \/ GrantVouched(b, g)
    /\ \A r \in DOMAIN b.records : RecordCarried(a, b, r, S) \/ r \in N
    /\ DOMAIN b.deliveries \subseteq DOMAIN a.deliveries \cup N
    /\ \A d \in DOMAIN a.deliveries : AttemptCarried(a, b, d, S)
    /\ \A k \in DOMAIN a.requests : ReceiptCarried(a, b, k)

\* b has nothing that a has not.
Keeps(a, b) == Carries(a, b, {}, {}, {}) /\ \A g \in DOMAIN b.grants : GrantCarried(a, b, g)

Like(a, b) ==
    /\ b.tasks = a.tasks /\ b.records = a.records /\ b.grants = a.grants /\ b.requests = a.requests
    /\ b.deliveries = a.deliveries /\ b.baselines = a.baselines /\ b.revokedTasks = a.revokedTasks

LEMMA LikeKeeps ==
    ASSUME NEW a, NEW b, Like(a, b)
    PROVE  Keeps(a, b)
BY DEF Like, Keeps, Carries, TaskCarried, GrantCarried, RecordCarried, AttemptCarried, ReceiptCarried,
       RegistrationSealed, Baseline

LEMMA LikeChecked ==
    ASSUME NEW a, NEW b, Like(a, b), Checked(a)
    PROVE  Checked(b)
BY DEF Like, Checked, Baseline, Receipts

LEMMA LikeBoth ==
    ASSUME NEW a, NEW b, NEW c, Like(a, b), Like(b, c)
    PROVE  Like(a, c) /\ Like(b, a)
BY DEF Like

LEMMA CompactKeeps ==
    ASSUME NEW a, Formed(a), Checked(a)
    PROVE  Keeps(a, Compact(a))
<1> DEFINE b == Compact(a)
<1>1. Formed(b) /\ Drops(a, b)
  BY CompactDrops
<1>2. DOMAIN b.requests = DOMAIN a.requests \ UNION {Folded(a, rid) : rid \in DOMAIN a.records}
  BY CompactDrops
<1> HIDE DEF b
<1>3. \A t \in DOMAIN b.tasks : TaskCarried(a, b, t)
  BY <1>1 DEF Drops, Part, TaskCarried
<1>4. \A g \in DOMAIN b.grants : GrantCarried(a, b, g)
  BY <1>1 DEF Drops, Part, GrantCarried
<1>5. \A r \in DOMAIN b.records : RecordCarried(a, b, r, {})
  BY <1>1 DEF Drops, Part, RecordCarried
<1>6. \A d \in DOMAIN a.deliveries : AttemptCarried(a, b, d, {})
  BY <1>1, SnapshotConstants DEF Drops, Part, AttemptCarried, Stale, Formed
<1>7. ASSUME NEW k \in DOMAIN a.requests PROVE ReceiptCarried(a, b, k)
  <2>1. CASE k \in DOMAIN b.requests
    BY <1>1, <2>1 DEF Drops, Part, ReceiptCarried
  <2>2. CASE k \notin DOMAIN b.requests
    <3>1. PICK rid \in DOMAIN a.records : k \in Folded(a, rid)
      BY <1>2, <2>2
    <3>2. Stale(a, a.requests[k].at)
      BY <3>1, FoldedAreStale
    <3> QED BY <1>1, <3>2, SnapshotConstants DEF Drops, ReceiptCarried, Stale, Formed
  <2> QED BY <2>1, <2>2
<1>8. DOMAIN b.deliveries \subseteq DOMAIN a.deliveries
  BY <1>1 DEF Drops, Part
<1> QED BY <1>3, <1>4, <1>5, <1>6, <1>7, <1>8 DEF Keeps, Carries, b

LEMMA KeepsThenCarries ==
    ASSUME NEW a, NEW b, NEW c, NEW T, NEW N, NEW S, Formed(a), Formed(b), Formed(c), b.lastTime <= c.lastTime,
           Keeps(a, b), Carries(b, c, T, N, S), \A d \in DOMAIN a.deliveries : d \notin N
    PROVE  Carries(a, c, T, N, S)
<1>1. ASSUME NEW t \in DOMAIN c.tasks PROVE TaskCarried(a, c, t) \/ t \in T
  BY DEF Keeps, Carries, TaskCarried
<1>2. ASSUME NEW g \in DOMAIN c.grants PROVE GrantCarried(a, c, g) \/ GrantVouched(c, g)
  <2>1. CASE GrantVouched(c, g)
    BY <2>1
  <2>2. CASE GrantCarried(b, c, g) /\ ~GrantVouched(c, g)
    <3>1. GrantCarried(a, b, g)
      BY <2>2 DEF Keeps, GrantCarried
    <3> QED BY <2>2, <3>1 DEF GrantCarried
  <2> QED BY <2>1, <2>2 DEF Carries
<1>3. ASSUME NEW r \in DOMAIN c.records PROVE RecordCarried(a, c, r, S) \/ r \in N
  <2> SUFFICES ASSUME r \notin N PROVE RecordCarried(a, c, r, S)
    OBVIOUS
  <2>1. RecordCarried(b, c, r, S) /\ RecordCarried(a, b, r, {})
    BY DEF Keeps, Carries, RecordCarried
  <2>2. Registering(b, r, S) => Registering(a, r, S)
    BY DEF Keeps, Carries, AttemptCarried, Registering, SealsRegister
  <2> QED BY <2>1, <2>2 DEF RecordCarried, Registering
<1>4. DOMAIN c.deliveries \subseteq DOMAIN a.deliveries \cup N
  BY DEF Keeps, Carries
<1>5. ASSUME NEW d \in DOMAIN a.deliveries PROVE AttemptCarried(a, c, d, S)
  <2>1. a.deliveries[d].at \in Nat /\ b.lastTime \in Nat /\ c.lastTime \in Nat
    BY DEF Formed
  <2>2. AttemptCarried(a, b, d, {})
    BY DEF Keeps, Carries
  <2>3. d \in DOMAIN b.deliveries => AttemptCarried(b, c, d, S)
    BY DEF Carries
  <2>4. CASE d \in DOMAIN b.deliveries
    BY <2>2, <2>3, <2>4 DEF AttemptCarried
  <2>5. CASE d \notin DOMAIN b.deliveries
    <3>1. d \notin DOMAIN c.deliveries
      BY <2>5 DEF Carries
    <3>2. a.deliveries[d].at + RetryWindow <= c.lastTime
      BY <2>1, <2>2, <2>5, SnapshotConstants DEF AttemptCarried
    <3> QED BY <3>1, <3>2 DEF AttemptCarried
  <2> QED BY <2>4, <2>5
<1>6. ASSUME NEW k \in DOMAIN a.requests PROVE ReceiptCarried(a, c, k)
  <2>1. a.requests[k].at \in Nat /\ b.lastTime \in Nat /\ c.lastTime \in Nat
    BY DEF Formed
  <2>2. ReceiptCarried(a, b, k)
    BY DEF Keeps, Carries
  <2>3. k \in DOMAIN b.requests => ReceiptCarried(b, c, k)
    BY DEF Carries
  <2>4. CASE a.requests[k].at + RetryWindow <= b.lastTime
    <3>1. a.requests[k].at + RetryWindow <= c.lastTime
      BY <2>1, <2>4, SnapshotConstants
    <3> QED BY <3>1 DEF ReceiptCarried
  <2>5. CASE ~(a.requests[k].at + RetryWindow <= b.lastTime)
    BY <2>2, <2>3, <2>5 DEF ReceiptCarried
  <2> QED BY <2>4, <2>5
<1> QED BY <1>1, <1>2, <1>3, <1>4, <1>5, <1>6 DEF Carries

LEMMA KeepsTransitive ==
    ASSUME NEW a, NEW b, NEW c, Formed(a), Formed(b), Formed(c), b.lastTime <= c.lastTime,
           Keeps(a, b), Keeps(b, c)
    PROVE  Keeps(a, c)
<1>1. Carries(a, c, {}, {}, {})
  BY KeepsThenCarries DEF Keeps
<1>2. \A g \in DOMAIN c.grants : GrantCarried(a, c, g)
  BY DEF Keeps, GrantCarried
<1> QED BY <1>1, <1>2 DEF Keeps

-----------------------------------------------------------------------------
(* The operations of the policy core, on a value of the right shape.       *)

LEMMA ClockKeeps ==
    ASSUME NEW a, Formed(a), NEW n \in Nat
    PROVE  LET b == Clock(a, n) IN
           /\ Formed(b) /\ Like(a, b) /\ a.lastTime <= b.lastTime
           /\ EffectiveTime(a, n) \in Nat /\ a.lastTime <= EffectiveTime(a, n)
           /\ a.lastTime <= n => EffectiveTime(a, n) = n /\ b.lastTime <= n
           /\ ClockAccepts(a, n) => b = [a EXCEPT !.lastTime = EffectiveTime(a, n)]
                                    /\ b.lastTime = EffectiveTime(a, n)
<1> DEFINE at == EffectiveTime(a, n)
<1>1. at \in Nat /\ a.lastTime <= at /\ a.lastTime \in Nat /\ (a.lastTime <= n => at = n)
  BY DEF Formed, EffectiveTime
<1> HIDE DEF at
<1>2. ASSUME NEW b, b = [a EXCEPT !.lastTime = at]
      PROVE  Formed(b) /\ Like(a, b) /\ b.lastTime = at
  BY <1>1, <1>2 DEF Formed, Like, AppFields
<1>3. ASSUME NEW b, b = [a EXCEPT !.clockFrozen = TRUE]
      PROVE  Formed(b) /\ Like(a, b) /\ b.lastTime = a.lastTime
  BY <1>1, <1>3 DEF Formed, Like, AppFields
<1>4. CASE ClockAccepts(a, n)
  BY <1>1, <1>2, <1>4 DEF Clock, at
<1>5. CASE ~ClockAccepts(a, n)
  BY <1>1, <1>3, <1>5 DEF Clock, at
<1> QED BY <1>4, <1>5

LEMMA AuditKeeps ==
    ASSUME NEW a, Formed(a), NEW event
    PROVE  Formed(Audit(a, event)) /\ Like(a, Audit(a, event)) /\ Audit(a, event).lastTime = a.lastTime
<1>1. PICK events : Audit(a, event) = [a EXCEPT !.audit = events]
  BY DEF Audit
<1> QED BY <1>1 DEF Formed, Like, AppFields

LEMMA ApproveCarries ==
    ASSUME NEW a, Formed(a), NEW id, NEW t, t.expiresAt \in Nat, id \notin DOMAIN a.tasks
    PROVE  LET b == ApproveTask(a, id, t) IN
           Formed(b) /\ Carries(a, b, {id}, {}, {}) /\ b.lastTime = a.lastTime
<1> DEFINE b == ApproveTask(a, id, t)
           tasks == Inserted(a.tasks, id, t)
<1>1. b = [a EXCEPT !.tasks = tasks]
  BY DEF ApproveTask
<1>2. /\ DOMAIN tasks = DOMAIN a.tasks \cup {id} /\ tasks[id] = t
      /\ \A u \in DOMAIN a.tasks : tasks[u] = a.tasks[u]
  BY DEF Inserted
<1> HIDE DEF b, tasks
<1>3. IsFiniteSet(DOMAIN tasks)
  <2>1. IsFiniteSet(DOMAIN a.tasks)
    BY DEF Formed
  <2>2. IsFiniteSet(DOMAIN a.tasks \cup {id})
    BY <2>1, FS_AddElement
  <2> QED BY <1>2, <2>2, Zenon
<1>4. /\ b = [f \in AppFields |-> b[f]] /\ b.lastTime = a.lastTime
      /\ b.tasks = tasks /\ b.records = a.records /\ b.grants = a.grants /\ b.requests = a.requests
      /\ b.deliveries = a.deliveries /\ b.baselines = a.baselines /\ b.revokedTasks = a.revokedTasks
  BY <1>1 DEF Formed, AppFields
<1>5. Formed(b)
  BY <1>2, <1>3, <1>4 DEF Formed
<1>6. Carries(a, b, {id}, {}, {})
  BY <1>2, <1>4 DEF Carries, TaskCarried, GrantCarried, RecordCarried, AttemptCarried, ReceiptCarried,
                    RegistrationSealed, Baseline
<1> QED BY <1>4, <1>5, <1>6 DEF b

LEMMA RevokeCarries ==
    ASSUME NEW a, Formed(a), NEW id
    PROVE  LET b == RevokeTask(a, id) IN
           Formed(b) /\ Carries(a, b, {}, {}, {}) /\ b.lastTime = a.lastTime
<1> DEFINE b == RevokeTask(a, id)
<1>1. /\ b = [f \in AppFields |-> b[f]] /\ b.lastTime = a.lastTime
      /\ b.tasks = a.tasks /\ b.records = a.records /\ b.grants = a.grants /\ b.requests = a.requests
      /\ b.deliveries = a.deliveries /\ b.baselines = a.baselines /\ b.revokedTasks = a.revokedTasks \cup {id}
  BY DEF RevokeTask, Formed, AppFields
<1> HIDE DEF b
<1>2. Formed(b)
  BY <1>1 DEF Formed
<1>3. Carries(a, b, {}, {}, {})
  BY <1>1 DEF Carries, TaskCarried, GrantCarried, RecordCarried, AttemptCarried, ReceiptCarried,
              RegistrationSealed, Baseline
<1> QED BY <1>1, <1>2, <1>3 DEF b

LEMMA MutatedRecordFormed ==
    ASSUME NEW r, NEW op, DOMAIN r = RecordFields, r.revision \in Nat
    PROVE  /\ DOMAIN MutatedRecord(r, op) = RecordFields /\ MutatedRecord(r, op).restored = r.restored
           /\ MutatedRecord(r, op).revision \in Nat
<1>1. /\ DOMAIN PatchedRecord(r, op) = RecordFields /\ PatchedRecord(r, op).restored = r.restored
      /\ PatchedRecord(r, op).revision = r.revision
  BY DEF PatchedRecord, RecordFields
<1> DEFINE q == CASE op.op = "patch" -> PatchedRecord(r, op)
                  [] op.op = "delete" -> [r EXCEPT !.deleted = TRUE, !.fields = {}]
                  [] op.op = "report" -> [r EXCEPT !.signup = op.state]
                  [] OTHER -> r
<1>2. DOMAIN q = RecordFields /\ q.restored = r.restored /\ q.revision = r.revision
  <2>1. CASE op.op = "patch"
    BY <1>1, <2>1
  <2>2. CASE op.op = "delete"
    BY <2>2 DEF RecordFields
  <2>3. CASE op.op = "report"
    BY <2>3 DEF RecordFields
  <2>4. CASE op.op \notin {"patch", "delete", "report"}
    BY <2>4
  <2> QED BY <2>1, <2>2, <2>3, <2>4
<1>3. MutatedRecord(r, op) = [q EXCEPT !.revision = @ + 1]
  BY DEF MutatedRecord
<1> HIDE DEF q
<1> QED BY <1>2, <1>3 DEF RecordFields

LEMMA MutatedGrantsFormed ==
    ASSUME NEW a, NEW ctx, NEW tid, NEW op, NEW new, Formed(a)
    PROVE  LET grants == MutatedGrants(a, ctx, tid, op, new) IN
           \A g \in DOMAIN grants :
                /\ DOMAIN grants[g] = GrantFields
                /\ \/ /\ g \in DOMAIN a.grants
                      /\ grants[g].issuerTask = a.grants[g].issuerTask
                      /\ grants[g].adminIssued = a.grants[g].adminIssued
                   \/ grants[g].issuerTask = tid /\ grants[g].adminIssued = ctx.admin
<1> DEFINE grants == MutatedGrants(a, ctx, tid, op, new)
           issued == [record |-> op.record, spec |-> op.grant, revoked |-> FALSE,
                      version |-> a.records[op.record].secretVersion,
                      issuerTask |-> tid, adminIssued |-> ctx.admin]
<1>1. \A g \in DOMAIN a.grants : DOMAIN a.grants[g] = GrantFields
  BY DEF Formed
<1>2. DOMAIN issued = GrantFields /\ issued.issuerTask = tid /\ issued.adminIssued = ctx.admin
  BY DEF GrantFields
<1>3. CASE op.op = "share"
  <2>1. grants = Inserted(a.grants, new, issued)
    BY <1>3 DEF MutatedGrants
  <2> HIDE DEF grants, issued
  <2> QED BY <1>1, <1>2, <2>1 DEF Inserted, grants
<1>4. CASE op.op = "revoke"
  <2>1. grants = [a.grants EXCEPT ![op.grant].revoked = TRUE]
    BY <1>4 DEF MutatedGrants
  <2> HIDE DEF grants
  <2> QED BY <1>1, <2>1 DEF GrantFields, grants
<1>5. CASE op.op = "delete"
  <2>1. grants = [g \in DOMAIN a.grants |->
            IF a.grants[g].record = op.record THEN [a.grants[g] EXCEPT !.revoked = TRUE] ELSE a.grants[g]]
    BY <1>5 DEF MutatedGrants
  <2> HIDE DEF grants
  <2> QED BY <1>1, <2>1 DEF GrantFields, grants
<1>6. CASE op.op \notin {"share", "revoke", "delete"}
  <2>1. grants = a.grants
    BY <1>6 DEF MutatedGrants
  <2> HIDE DEF grants
  <2> QED BY <1>1, <2>1 DEF grants
<1> QED BY <1>3, <1>4, <1>5, <1>6

Drawn(op, new) == IF op.op = "create" THEN {new} ELSE {}

LEMMA MutateCarries ==
    ASSUME NEW a, NEW ctx \in Contexts, NEW tid, NEW request, NEW op, NEW at \in Nat, NEW new, Formed(a),
           RequestKey(ctx, tid, request) \notin DOMAIN a.requests,
           tid \in DOMAIN a.tasks, a.tasks[tid].principal = ctx.principal
    PROVE  LET b == Mutate(a, ctx, tid, request, op, at, new)
               key == RequestKey(ctx, tid, request)
           IN  /\ Formed(b) /\ Carries(a, b, {}, Drawn(op, new), {}) /\ b.lastTime = a.lastTime
               /\ key \in DOMAIN b.requests
               /\ b.requests[key].at = at /\ b.requests[key].fingerprint = op
<1> DEFINE b == Mutate(a, ctx, tid, request, op, at, new)
           key == RequestKey(ctx, tid, request)
           rid == Subject(op, new)
           records == IF op.op = "create"
                      THEN Inserted(a.records, new, NewRecord(a, ctx, tid, op))
                      ELSE [a.records EXCEPT ![rid] = MutatedRecord(@, op)]
           grants == MutatedGrants(a, ctx, tid, op, new)
           receipt == [fingerprint |-> op, record |-> rid, revision |-> records[rid].revision,
                       grant |-> GrantOf(op, new), kind |-> CachedKind(op), at |-> at]
           requests == Inserted(a.requests, key, receipt)
           d == [a EXCEPT !.records = records, !.grants = grants, !.requests = requests]
<1>1. PICK event : b = Audit(d, event)
  BY DEF Mutate
<1>2. \A r \in DOMAIN records :
         /\ DOMAIN records[r] = RecordFields /\ records[r].revision \in Nat
         /\ r \in Drawn(op, new) \/ (r \in DOMAIN a.records /\ records[r].restored = a.records[r].restored)
  <2>1. \A r \in DOMAIN a.records : DOMAIN a.records[r] = RecordFields /\ a.records[r].revision \in Nat
    BY DEF Formed
  <2>2. CASE op.op = "create"
    <3>1. DOMAIN NewRecord(a, ctx, tid, op) = RecordFields /\ NewRecord(a, ctx, tid, op).revision \in Nat
      BY DEF NewRecord, RecordFields
    <3> QED BY <2>1, <2>2, <3>1 DEF Inserted, Drawn
  <2>3. CASE op.op # "create"
    <3>1. \A r \in DOMAIN a.records :
             /\ DOMAIN MutatedRecord(a.records[r], op) = RecordFields
             /\ MutatedRecord(a.records[r], op).restored = a.records[r].restored
             /\ MutatedRecord(a.records[r], op).revision \in Nat
      BY <2>1, MutatedRecordFormed
    <3> QED BY <2>1, <2>3, <3>1
  <2> QED BY <2>2, <2>3
<1>3. \A g \in DOMAIN grants :
         /\ DOMAIN grants[g] = GrantFields
         /\ \/ /\ g \in DOMAIN a.grants
               /\ grants[g].issuerTask = a.grants[g].issuerTask
               /\ grants[g].adminIssued = a.grants[g].adminIssued
            \/ grants[g].issuerTask = tid /\ grants[g].adminIssued = ctx.admin
  BY MutatedGrantsFormed
<1>4. receipt.at = at /\ receipt.fingerprint = op
  OBVIOUS
<1> HIDE DEF receipt, records, grants
<1>5. /\ DOMAIN requests = DOMAIN a.requests \cup {key} /\ requests[key] = receipt
      /\ \A k \in DOMAIN a.requests : requests[k] = a.requests[k]
  BY DEF Inserted
<1> HIDE DEF requests, d, b, key
<1>6. /\ d = [f \in AppFields |-> d[f]] /\ d.lastTime = a.lastTime
      /\ d.tasks = a.tasks /\ d.records = records /\ d.grants = grants /\ d.requests = requests
      /\ d.deliveries = a.deliveries /\ d.baselines = a.baselines /\ d.revokedTasks = a.revokedTasks
  BY DEF Formed, AppFields, d
<1>7. Formed(d)
  BY <1>2, <1>3, <1>4, <1>5, <1>6 DEF Formed
<1>8. Formed(b) /\ Like(d, b) /\ b.lastTime = d.lastTime
  BY <1>1, <1>7, AuditKeeps
<1>9. \A g \in DOMAIN b.grants : GrantCarried(a, b, g) \/ GrantVouched(b, g)
  BY <1>3, <1>6, <1>8 DEF Like, GrantCarried, GrantVouched
<1>10. \A r \in DOMAIN b.records : RecordCarried(a, b, r, {}) \/ r \in Drawn(op, new)
  BY <1>2, <1>6, <1>8 DEF Like, RecordCarried, RegistrationSealed, Baseline
<1>11. Carries(a, b, {}, Drawn(op, new), {})
  BY <1>5, <1>6, <1>8, <1>9, <1>10 DEF Carries, Like, TaskCarried, AttemptCarried, ReceiptCarried
<1> QED BY <1>4, <1>5, <1>6, <1>8, <1>11 DEF Like, b, key

\* b is a with other outcomes: signups, statuses, revocations.
Rewrites(a, b, S) ==
    /\ b = [f \in AppFields |-> b[f]]
    /\ b.tasks = a.tasks /\ a.revokedTasks \cap DOMAIN a.tasks \subseteq b.revokedTasks
    /\ b.requests = a.requests /\ b.baselines = a.baselines
    /\ DOMAIN b.records = DOMAIN a.records
    /\ \A r \in DOMAIN a.records :
        /\ DOMAIN b.records[r] = RecordFields
        /\ b.records[r].restored = a.records[r].restored /\ b.records[r].revision = a.records[r].revision
    /\ DOMAIN b.grants = DOMAIN a.grants
    /\ \A g \in DOMAIN a.grants :
        /\ DOMAIN b.grants[g] = GrantFields
        /\ b.grants[g].issuerTask = a.grants[g].issuerTask /\ b.grants[g].adminIssued = a.grants[g].adminIssued
    /\ DOMAIN b.deliveries = DOMAIN a.deliveries
    /\ \A d \in DOMAIN a.deliveries :
        /\ DOMAIN b.deliveries[d] = AttemptFields
        /\ AttemptCarried(a, b, d, S)

LEMMA RewritesCarries ==
    ASSUME NEW a, NEW b, NEW S, Formed(a), Rewrites(a, b, S), b.lastTime \in Nat
    PROVE  Formed(b) /\ Carries(a, b, {}, {}, S)
<1>1. \A d \in DOMAIN a.deliveries : b.deliveries[d].at = a.deliveries[d].at
  BY DEF Rewrites, AttemptCarried
<1>2. Formed(b)
  BY <1>1 DEF Rewrites, Formed
<1>3. \A t \in DOMAIN b.tasks : TaskCarried(a, b, t)
  BY DEF Rewrites, TaskCarried
<1>4. \A g \in DOMAIN b.grants : GrantCarried(a, b, g)
  BY DEF Rewrites, GrantCarried
<1>5. ASSUME NEW r \in DOMAIN b.records PROVE RecordCarried(a, b, r, S)
  <2>1. r \in DOMAIN a.records /\ b.records[r].restored = a.records[r].restored
    BY DEF Rewrites
  <2>2. ASSUME RegistrationSealed(a, r) PROVE RegistrationSealed(b, r) \/ Registering(a, r, S)
    <3>1. CASE Baseline(a, r).registrationDispatched
      BY <3>1 DEF Rewrites, RegistrationSealed, Baseline
    <3>2. CASE ~Baseline(a, r).registrationDispatched
      <4>1. PICK d \in DOMAIN a.deliveries : a.deliveries[d].record = r /\ SealsRegister(a.deliveries[d])
        BY <2>2, <3>2 DEF RegistrationSealed, Values
      <4>2. CASE d \in S
        BY <4>1, <4>2 DEF Registering
      <4>3. CASE d \notin S
        <5>1. d \in DOMAIN b.deliveries /\ b.deliveries[d].record = r /\ SealsRegister(b.deliveries[d])
          BY <4>1, <4>3 DEF Rewrites, AttemptCarried, SealsRegister
        <5> QED BY <5>1 DEF RegistrationSealed, Values
      <4> QED BY <4>2, <4>3
    <3> QED BY <3>1, <3>2
  <2> QED BY <2>1, <2>2 DEF RecordCarried
<1>6. Carries(a, b, {}, {}, S)
  BY <1>3, <1>4, <1>5 DEF Carries, Rewrites, ReceiptCarried
<1> QED BY <1>2, <1>6

LEMMA SignupKeeps ==
    ASSUME NEW a, NEW rid, NEW state, Formed(a)
    PROVE  LET b == SetSignup(a, rid, state) IN
           /\ Formed(b) /\ Keeps(a, b) /\ Rewrites(a, b, {}) /\ b.lastTime = a.lastTime
           /\ b.deliveries = a.deliveries /\ DOMAIN b.records = DOMAIN a.records
<1> DEFINE b == SetSignup(a, rid, state)
<1>1. /\ b = [f \in AppFields |-> b[f]] /\ b.lastTime = a.lastTime
      /\ b.tasks = a.tasks /\ b.grants = a.grants /\ b.requests = a.requests
      /\ b.deliveries = a.deliveries /\ b.baselines = a.baselines /\ b.revokedTasks = a.revokedTasks
      /\ b.records = [a.records EXCEPT ![rid].signup = state]
  BY DEF SetSignup, Formed, AppFields
<1> HIDE DEF b
<1>2. \A r \in DOMAIN a.records : DOMAIN a.records[r] = RecordFields
  BY DEF Formed
<1>3. /\ DOMAIN b.records = DOMAIN a.records
      /\ \A r \in DOMAIN a.records :
            /\ DOMAIN b.records[r] = RecordFields
            /\ b.records[r].restored = a.records[r].restored /\ b.records[r].revision = a.records[r].revision
  BY <1>1, <1>2 DEF RecordFields
<1>4. Rewrites(a, b, {})
  BY <1>1, <1>3 DEF Rewrites, AttemptCarried, Formed
<1>5. Formed(b) /\ Carries(a, b, {}, {}, {})
  BY <1>1, <1>4, RewritesCarries DEF Formed
<1>6. \A g \in DOMAIN b.grants : GrantCarried(a, b, g)
  BY <1>1 DEF GrantCarried
<1> QED BY <1>1, <1>3, <1>4, <1>5, <1>6 DEF Keeps, b

Intended(d, ctx, tid, rid, request, use, at) ==
    /\ d.task = tid /\ d.record = rid /\ d.status = None /\ d.action = use.action
    /\ d.dispatched = TRUE /\ d.at = at /\ d.key = RequestKey(ctx, tid, request)

LEMMA IntendCarries ==
    ASSUME NEW a, NEW ctx, NEW tid, NEW rid, NEW request, NEW use, NEW at \in Nat, Formed(a),
           fresh \notin DOMAIN a.deliveries
    PROVE  LET b == Intend(a, ctx, tid, rid, request, use, at) IN
           /\ Formed(b) /\ Carries(a, b, {}, {fresh}, {}) /\ b.lastTime = a.lastTime
           /\ fresh \in DOMAIN b.deliveries
           /\ Intended(b.deliveries[fresh], ctx, tid, rid, request, use, at)
           /\ DOMAIN b.records = DOMAIN a.records
<1> DEFINE b == Intend(a, ctx, tid, rid, request, use, at)
           attempt == [task |-> tid, record |-> rid, version |-> a.records[rid].secretVersion,
                       destination |-> use.destination, fields |-> use.fields, status |-> None,
                       key |-> RequestKey(ctx, tid, request), action |-> use.action,
                       dispatched |-> TRUE, at |-> at]
           deliveries == Inserted(a.deliveries, fresh, attempt)
           c == [a EXCEPT !.deliveries = deliveries]
<1>1. b = IF use.action = "register" THEN SetSignup(c, rid, "submitted") ELSE c
  BY DEF Intend
<1>2. DOMAIN attempt = AttemptFields /\ Intended(attempt, ctx, tid, rid, request, use, at)
  BY DEF AttemptFields, Intended
<1> HIDE DEF attempt
<1>3. /\ DOMAIN deliveries = DOMAIN a.deliveries \cup {fresh} /\ deliveries[fresh] = attempt
      /\ \A d \in DOMAIN a.deliveries : deliveries[d] = a.deliveries[d]
  BY DEF Inserted
<1> HIDE DEF b, c, deliveries
<1>4. /\ c = [f \in AppFields |-> c[f]] /\ c.lastTime = a.lastTime
      /\ c.tasks = a.tasks /\ c.records = a.records /\ c.grants = a.grants /\ c.requests = a.requests
      /\ c.deliveries = deliveries /\ c.baselines = a.baselines /\ c.revokedTasks = a.revokedTasks
  BY DEF Formed, AppFields, c
<1>5. Formed(c)
  <2>1. \A d \in DOMAIN deliveries : DOMAIN deliveries[d] = AttemptFields /\ deliveries[d].at \in Nat
    BY <1>2, <1>3 DEF Formed, Intended
  <2> QED BY <1>4, <2>1 DEF Formed
<1>6. \A r \in DOMAIN c.records : RegistrationSealed(a, r) => RegistrationSealed(c, r)
  BY <1>3, <1>4 DEF RegistrationSealed, Baseline, Values
<1>7. \A r \in DOMAIN c.records : RecordCarried(a, c, r, {})
  BY <1>4, <1>6 DEF RecordCarried
<1>8. Carries(a, c, {}, {fresh}, {})
  BY <1>3, <1>4, <1>7 DEF Carries, TaskCarried, GrantCarried, AttemptCarried, ReceiptCarried
<1>9. CASE use.action # "register"
  <2>1. b = c
    BY <1>1, <1>9
  <2> QED BY <1>2, <1>3, <1>4, <1>5, <1>8, <2>1 DEF b
<1>10. CASE use.action = "register"
  <2>1. b = SetSignup(c, rid, "submitted")
    BY <1>1, <1>10
  <2>2. /\ Formed(b) /\ Keeps(c, b) /\ b.lastTime = c.lastTime
        /\ b.deliveries = c.deliveries /\ DOMAIN b.records = DOMAIN c.records
    BY <1>5, <2>1, SignupKeeps
  <2>3. Carries(a, b, {}, {fresh}, {})
    <3>1. \A t \in DOMAIN b.tasks : TaskCarried(a, b, t)
      BY <1>4, <2>2 DEF Keeps, Carries, TaskCarried
    <3>2. \A g \in DOMAIN b.grants : GrantCarried(a, b, g)
      BY <1>4, <2>2 DEF Keeps, GrantCarried
    <3>3. \A r \in DOMAIN b.records : RecordCarried(a, b, r, {})
      BY <1>4, <1>6, <2>2 DEF Keeps, Carries, RecordCarried, Registering
    <3>4. \A d \in DOMAIN a.deliveries : AttemptCarried(a, b, d, {})
      BY <1>3, <1>4, <2>2 DEF AttemptCarried
    <3>5. \A k \in DOMAIN a.requests : ReceiptCarried(a, b, k)
      BY <1>4, <2>2 DEF Keeps, Carries, ReceiptCarried
    <3> QED BY <1>3, <1>4, <2>2, <3>1, <3>2, <3>3, <3>4, <3>5 DEF Carries
  <2> QED BY <1>2, <1>3, <1>4, <2>2, <2>3 DEF b
<1> QED BY <1>9, <1>10

LEMMA RewritesTwice ==
    ASSUME NEW a, NEW b, NEW c, NEW S, Rewrites(a, b, S), Rewrites(b, c, {})
    PROVE  Rewrites(a, c, S)
<1>1. ASSUME NEW d \in DOMAIN a.deliveries
      PROVE  DOMAIN c.deliveries[d] = AttemptFields /\ AttemptCarried(a, c, d, S)
  BY SMTT(30) DEF Rewrites, AttemptCarried
<1>2. a.revokedTasks \cap DOMAIN a.tasks \subseteq c.revokedTasks
  BY DEF Rewrites
<1> QED BY <1>1, <1>2 DEF Rewrites

LEMMA RefusedCarries ==
    ASSUME NEW a, NEW id, Formed(a)
    PROVE  LET b == [a EXCEPT !.deliveries[id].dispatched = FALSE, !.deliveries[id].status = "rejected"]
           IN  Formed(b) /\ Rewrites(a, b, {id}) /\ b.lastTime = a.lastTime
<1> DEFINE b == [a EXCEPT !.deliveries[id].dispatched = FALSE, !.deliveries[id].status = "rejected"]
<1>1. /\ b = [f \in AppFields |-> b[f]] /\ b.lastTime = a.lastTime
      /\ b.tasks = a.tasks /\ b.grants = a.grants /\ b.requests = a.requests
      /\ b.records = a.records /\ b.baselines = a.baselines /\ b.revokedTasks = a.revokedTasks
      /\ b.deliveries = [a.deliveries EXCEPT ![id].dispatched = FALSE, ![id].status = "rejected"]
  BY DEF Formed, AppFields
<1> HIDE DEF b
<1>2. \A d \in DOMAIN a.deliveries : DOMAIN a.deliveries[d] = AttemptFields
  BY DEF Formed
<1>3. /\ DOMAIN b.deliveries = DOMAIN a.deliveries
      /\ \A d \in DOMAIN a.deliveries :
            DOMAIN b.deliveries[d] = AttemptFields /\ AttemptCarried(a, b, d, {id})
  BY <1>1, <1>2 DEF AttemptFields, AttemptCarried
<1>4. Rewrites(a, b, {id}) /\ b.lastTime \in Nat
  BY <1>1, <1>3 DEF Rewrites, Formed
<1>5. Formed(b)
  BY <1>4, RewritesCarries
<1> QED BY <1>1, <1>4, <1>5 DEF b

Completed(a, id, status, rid, signup) ==
    [a EXCEPT !.deliveries[id].status = status, !.records[rid].signup = signup]

LEMMA CompletedCarries ==
    ASSUME NEW a, NEW id, NEW rid, NEW signup, NEW status, Formed(a)
    PROVE  LET b == Completed(a, id, status, rid, signup)
           IN  Formed(b) /\ Carries(a, b, {}, {}, {}) /\ b.lastTime = a.lastTime
<1> DEFINE b == Completed(a, id, status, rid, signup)
<1>1. /\ b = [f \in AppFields |-> b[f]] /\ b.lastTime = a.lastTime
      /\ b.tasks = a.tasks /\ b.grants = a.grants /\ b.requests = a.requests
      /\ b.baselines = a.baselines /\ b.revokedTasks = a.revokedTasks
      /\ b.records = [a.records EXCEPT ![rid].signup = signup]
      /\ b.deliveries = [a.deliveries EXCEPT ![id].status = status]
  BY DEF Formed, AppFields, Completed
<1> HIDE DEF b
<1>2. /\ \A d \in DOMAIN a.deliveries : DOMAIN a.deliveries[d] = AttemptFields
      /\ \A r \in DOMAIN a.records : DOMAIN a.records[r] = RecordFields
  BY DEF Formed
<1>3. /\ DOMAIN b.deliveries = DOMAIN a.deliveries
      /\ \A d \in DOMAIN a.deliveries :
            DOMAIN b.deliveries[d] = AttemptFields /\ AttemptCarried(a, b, d, {})
  BY <1>1, <1>2 DEF AttemptFields, AttemptCarried
<1>4. /\ DOMAIN b.records = DOMAIN a.records
      /\ \A r \in DOMAIN a.records :
            /\ DOMAIN b.records[r] = RecordFields
            /\ b.records[r].restored = a.records[r].restored /\ b.records[r].revision = a.records[r].revision
  BY <1>1, <1>2 DEF RecordFields
<1>5. Rewrites(a, b, {}) /\ b.lastTime \in Nat
  BY <1>1, <1>3, <1>4 DEF Rewrites, Formed
<1>6. Formed(b) /\ Carries(a, b, {}, {}, {})
  BY <1>5, RewritesCarries
<1> QED BY <1>1, <1>6 DEF b

LEMMA ResolveRewrites ==
    ASSUME NEW a, Formed(a)
    PROVE  LET b == Resolve(a) IN
           Rewrites(a, b, {}) /\ b.lastTime = a.lastTime /\ b.revokedTasks = DOMAIN a.tasks
<1> DEFINE b == Resolve(a)
           unresolved == {d.record : d \in {e \in Values(a.deliveries) : e.status = None /\ e.action # "use"}}
           grants == [g \in DOMAIN a.grants |-> [a.grants[g] EXCEPT !.revoked = TRUE]]
           deliveries == [d \in DOMAIN a.deliveries |->
                             [a.deliveries[d] EXCEPT !.status = IF @ = None THEN "unknown" ELSE @]]
           records == [rid \in DOMAIN a.records |->
                          [a.records[rid] EXCEPT !.signup = IF rid \in unresolved THEN "unknown" ELSE @]]
<1>1. b = [a EXCEPT !.revokedTasks = DOMAIN a.tasks, !.grants = grants, !.deliveries = deliveries,
                    !.records = records, !.generation = @ + 1]
  BY DEF Resolve
<1>2. /\ \A d \in DOMAIN a.deliveries : DOMAIN a.deliveries[d] = AttemptFields
      /\ \A r \in DOMAIN a.records : DOMAIN a.records[r] = RecordFields
      /\ \A g \in DOMAIN a.grants : DOMAIN a.grants[g] = GrantFields
  BY DEF Formed
<1> HIDE DEF unresolved
<1>3. /\ DOMAIN records = DOMAIN a.records
      /\ \A r \in DOMAIN a.records :
            /\ DOMAIN records[r] = RecordFields
            /\ records[r].restored = a.records[r].restored /\ records[r].revision = a.records[r].revision
  BY <1>2 DEF RecordFields
<1>4. /\ DOMAIN grants = DOMAIN a.grants
      /\ \A g \in DOMAIN a.grants :
            /\ DOMAIN grants[g] = GrantFields
            /\ grants[g].issuerTask = a.grants[g].issuerTask /\ grants[g].adminIssued = a.grants[g].adminIssued
  BY <1>2 DEF GrantFields
<1>5. /\ DOMAIN deliveries = DOMAIN a.deliveries
      /\ \A d \in DOMAIN a.deliveries :
            LET n == deliveries[d]
                o == a.deliveries[d]
            IN  /\ DOMAIN n = AttemptFields
                /\ n.task = o.task /\ n.record = o.record /\ n.key = o.key /\ n.action = o.action /\ n.at = o.at
                /\ n.dispatched = o.dispatched
  BY <1>2 DEF AttemptFields
<1> HIDE DEF b, grants, deliveries, records
<1>6. /\ b = [f \in AppFields |-> b[f]] /\ b.lastTime = a.lastTime
      /\ b.tasks = a.tasks /\ b.grants = grants /\ b.requests = a.requests /\ b.records = records
      /\ b.deliveries = deliveries /\ b.baselines = a.baselines /\ b.revokedTasks = DOMAIN a.tasks
  BY <1>1 DEF Formed, AppFields
<1>7. \A d \in DOMAIN a.deliveries : DOMAIN b.deliveries[d] = AttemptFields /\ AttemptCarried(a, b, d, {})
  BY <1>5, <1>6 DEF AttemptCarried
<1>8. a.revokedTasks \cap DOMAIN a.tasks \subseteq b.revokedTasks
  BY <1>6
<1> QED BY <1>3, <1>4, <1>5, <1>6, <1>7, <1>8 DEF Rewrites, b

LEMMA SanitizeCarries ==
    ASSUME NEW a, NEW n \in Nat, Formed(a)
    PROVE  LET b == Sanitize(a, n) IN
           /\ Formed(b) /\ Carries(a, b, {}, {}, {}) /\ b.lastTime = n
           /\ b.requests = a.requests /\ b.revokedTasks = DOMAIN b.tasks
<1> DEFINE b == Sanitize(a, n)
           c == Resolve(a)
<1>1. Rewrites(a, c, {}) /\ c.lastTime = a.lastTime /\ c.revokedTasks = DOMAIN a.tasks
  BY ResolveRewrites
<1>2. b = [c EXCEPT !.clockFrozen = FALSE, !.lastTime = n]
  BY DEF Sanitize
<1> HIDE DEF b, c
<1>3. /\ b = [f \in AppFields |-> b[f]] /\ b.lastTime = n
      /\ b.tasks = c.tasks /\ b.records = c.records /\ b.grants = c.grants /\ b.requests = c.requests
      /\ b.deliveries = c.deliveries /\ b.baselines = c.baselines /\ b.revokedTasks = c.revokedTasks
  BY <1>1, <1>2 DEF Rewrites, AppFields
<1>4. \A d \in DOMAIN a.deliveries : AttemptCarried(a, b, d, {})
  BY <1>1, <1>3, ZenonT(40) DEF Rewrites, AttemptCarried
<1>5. Rewrites(a, b, {})
  BY <1>1, <1>3, <1>4, ZenonT(40) DEF Rewrites
<1> QED BY <1>1, <1>3, <1>5, RewritesCarries DEF b, Rewrites

LEMMA RestoredFormed ==
    ASSUME NEW a, NEW n \in Nat, Formed(a)
    PROVE  LET b == PrepareRestored(a, n) IN
           /\ Formed(b) /\ b.lastTime = EffectiveTime(a, n) /\ b.revokedTasks = DOMAIN b.tasks
           /\ b.tasks = a.tasks /\ DOMAIN b.records = DOMAIN a.records /\ DOMAIN b.deliveries = DOMAIN a.deliveries
           /\ \A r \in DOMAIN b.records : b.records[r].restored
           /\ DOMAIN b.grants = DOMAIN a.grants
           /\ \A g \in DOMAIN b.grants : b.grants[g].issuerTask = a.grants[g].issuerTask
                                         /\ b.grants[g].adminIssued = a.grants[g].adminIssued
<1> DEFINE b == PrepareRestored(a, n)
           c == Resolve(a)
           records == [rid \in DOMAIN c.records |-> [c.records[rid] EXCEPT !.restored = TRUE]]
<1>1. Rewrites(a, c, {}) /\ c.lastTime = a.lastTime /\ c.revokedTasks = DOMAIN a.tasks
  BY ResolveRewrites
<1>2. b = [c EXCEPT !.records = records, !.lastTime = EffectiveTime(a, n)]
  BY DEF PrepareRestored
<1> HIDE DEF c
<1>3. /\ DOMAIN records = DOMAIN c.records
      /\ \A r \in DOMAIN c.records : /\ DOMAIN records[r] = RecordFields /\ records[r].restored = TRUE
                                     /\ records[r].revision = c.records[r].revision
  BY <1>1 DEF RecordFields, Rewrites
<1> HIDE DEF b, records
<1>4. /\ b = [f \in AppFields |-> b[f]] /\ b.lastTime = EffectiveTime(a, n)
      /\ b.tasks = c.tasks /\ b.records = records /\ b.grants = c.grants /\ b.requests = c.requests
      /\ b.deliveries = c.deliveries /\ b.baselines = c.baselines /\ b.revokedTasks = c.revokedTasks
  BY <1>1, <1>2 DEF Rewrites, AppFields
<1>5. Formed(c) /\ EffectiveTime(a, n) \in Nat
  <2>1. c.lastTime \in Nat /\ EffectiveTime(a, n) \in Nat
    BY <1>1 DEF Formed, EffectiveTime
  <2> QED BY <1>1, <2>1, RewritesCarries
<1>6. Formed(b)
  BY <1>3, <1>4, <1>5 DEF Formed
<1>7. /\ b.tasks = a.tasks /\ b.revokedTasks = DOMAIN b.tasks
      /\ DOMAIN b.records = DOMAIN a.records /\ DOMAIN b.deliveries = DOMAIN a.deliveries
      /\ DOMAIN b.grants = DOMAIN a.grants
  BY <1>1, <1>3, <1>4 DEF Rewrites
<1>8. \A r \in DOMAIN b.records : b.records[r].restored
  BY <1>3, <1>4
<1>9. \A g \in DOMAIN b.grants : b.grants[g].issuerTask = a.grants[g].issuerTask
                                  /\ b.grants[g].adminIssued = a.grants[g].adminIssued
  BY <1>1, <1>4 DEF Rewrites
<1> HIDE DEF b
<1> QED BY <1>4, <1>6, <1>7, <1>8, <1>9 DEF b

-----------------------------------------------------------------------------
(* The invariant of the vault.                                             *)

Shape ==
    /\ Formed(app) /\ Formed(disk) /\ (backup # None => Formed(backup))
    /\ now \in Nat /\ fresh \in Nat

\* The owner's memory is the published image, but for the clock.
Agree == [app EXCEPT !.lastTime = disk.lastTime] = disk /\ disk.lastTime <= app.lastTime

Memory == Idle => app.lastTime = 0 \/ app.lastTime < disk.lastTime + ClockPersistInterval

\* An owner that ended in the middle of a call left an unfinished delivery.
Down == ~up => flight = None /\ (app = disk \/ Unfinished(disk))

\* Identifiers are drawn once, and tasks are the supervisor's.
Known(a) ==
    /\ \A i \in DOMAIN a.records \cup DOMAIN a.deliveries : i \in Nat /\ i < fresh
    /\ \A t \in DOMAIN a.tasks : t \in {approval.id : approval \in Approvals}

Vouched(a) == \A g \in DOMAIN a.grants : GrantVouched(a, g)

Flights == [id: Nat, ctx: Contexts, task: {approval.id : approval \in Approvals}, record: Nat,
            use: Uses, handed: BOOLEAN]

\* The call under way is on disk as an unfinished, dispatched attempt.
InFlight ==
    flight # None =>
        LET d == app.deliveries[flight.id] IN
        /\ up /\ flight \in Flights
        /\ flight.id \in DOMAIN app.deliveries /\ flight.record \in DOMAIN app.records
        /\ d.task = flight.task /\ d.record = flight.record /\ d.action = flight.use.action
        /\ d.status = None /\ d.dispatched

Renewed == \A t \in DOMAIN app.tasks : t \in app.revokedTasks \/ t \in renewed

\* A registered record that still exists is sealed, or a restored copy.
Registered ==
    /\ registered \in Seq(Nat)
    /\ \A i \in DOMAIN registered :
        /\ registered[i] < fresh
        /\ registered[i] \in DOMAIN app.records =>
            app.records[registered[i]].restored \/ RegistrationSealed(app, registered[i])

\* The record that is about to be registered never was.
RegistersAnew ==
    flight # None /\ ~flight.handed /\ flight.use.action = "register" =>
        \A i \in DOMAIN registered : registered[i] # flight.record

\* What was sent before is not what is about to be sent.
SentBefore ==
    sent # None =>
        /\ sent.id \in Nat /\ sent.id < fresh
        /\ flight # None /\ ~flight.handed => sent.id # flight.id

VaultInv ==
    /\ Shape /\ Agree /\ Memory /\ Down /\ Checked(app)
    /\ Known(app) /\ (backup # None => Known(backup))
    /\ Vouched(app) /\ (backup # None => Vouched(backup))
    /\ InFlight /\ Renewed /\ Registered /\ RegistersAnew /\ SentBefore
    /\ RegisterOnce /\ DispatchBeforeExpiry

-----------------------------------------------------------------------------
(* The invariant while the trusted clock never steps back.                 *)

Timely == app.lastTime <= now /\ (backup # None => backup.lastTime <= now)

Receipted(w) ==
    w.key \in DOMAIN app.requests /\ app.requests[w.key].at = w.at /\ app.requests[w.key].fingerprint = w.op

Attempted(w) ==
    w.op = None /\ \E d \in DOMAIN app.deliveries : app.deliveries[d].key = w.key /\ app.deliveries[d].at = w.at

\* Work has its receipt or its delivery until its retry window has passed.
Accounted(w) ==
    w.at \in Nat /\ (Receipted(w) \/ Attempted(w) \/ w.at + RetryWindow <= disk.lastTime)

Outlived(key, at) == \A w \in work : w.key = key => w.at + RetryWindow <= at

FlightIsNew ==
    flight # None /\ ~flight.handed =>
        Outlived(app.deliveries[flight.id].key, app.deliveries[flight.id].at)

SentKept ==
    sent # None =>
        /\ sent.preparedAt \in Nat
        /\ \/ /\ sent.id \in DOMAIN app.deliveries /\ app.deliveries[sent.id].dispatched
              /\ app.deliveries[sent.id].at = sent.preparedAt
           \/ sent.preparedAt + RetryWindow <= disk.lastTime

ClockInv ==
    /\ Timely /\ (\A w \in work : Accounted(w)) /\ FlightIsNew /\ SentKept /\ AtMostOncePerWindow

-----------------------------------------------------------------------------
(* Staging and committing.                                                 *)

LEMMA StagedKeeps ==
    ASSUME NEW a, Formed(a), Checked(a)
    PROVE  LET b == IF ShouldCompact(a) THEN Compact(a) ELSE a IN
           /\ Formed(b) /\ Keeps(a, b) /\ b.lastTime = a.lastTime /\ b.clockFrozen = a.clockFrozen
<1>1. CASE ShouldCompact(a)
  <2>1. Formed(Compact(a)) /\ Drops(a, Compact(a))
    BY CompactDrops
  <2>2. Keeps(a, Compact(a))
    BY CompactKeeps
  <2> QED BY <1>1, <2>1, <2>2 DEF Drops
<1>2. CASE ~ShouldCompact(a)
  BY <1>2, LikeKeeps DEF Like
<1> QED BY <1>1, <1>2

LEMMA ClockedKeeps ==
    ASSUME Shape, Checked(app)
    PROVE  /\ Formed(Clocked) /\ Keeps(app, Clocked) /\ app.lastTime <= Clocked.lastTime
           /\ Effective \in Nat /\ app.lastTime <= Effective
           /\ ClockAccepts(app, now) => Clocked.lastTime = Effective
           /\ app.lastTime <= now => Clocked.lastTime <= now
<1> DEFINE a == Staged
<1>1. Formed(app) /\ now \in Nat
  BY DEF Shape
<1>2. Formed(a) /\ Keeps(app, a) /\ a.lastTime = app.lastTime /\ a.clockFrozen = app.clockFrozen
  BY <1>1, StagedKeeps DEF Staged
<1> HIDE DEF a
<1>3. /\ Formed(Clocked) /\ Like(a, Clocked) /\ a.lastTime <= Clocked.lastTime
      /\ EffectiveTime(a, now) \in Nat /\ a.lastTime <= EffectiveTime(a, now)
      /\ a.lastTime <= now => Clocked.lastTime <= now
      /\ ClockAccepts(a, now) => Clocked.lastTime = EffectiveTime(a, now)
  BY <1>1, <1>2, ClockKeeps DEF Clocked, a
<1>4. EffectiveTime(a, now) = Effective /\ (ClockAccepts(a, now) <=> ClockAccepts(app, now))
  BY <1>2 DEF EffectiveTime, Effective, ClockAccepts
<1>5. Keeps(a, Clocked)
  BY <1>3, LikeKeeps
<1>6. Keeps(app, Clocked)
  BY <1>1, <1>2, <1>3, <1>5, KeepsTransitive
<1> QED BY <1>2, <1>3, <1>4, <1>6

LEMMA AgreeIsLike ==
    ASSUME Shape, Agree
    PROVE  Like(app, disk) /\ Like(disk, app) /\ (app.lastTime = disk.lastTime => app = disk)
BY DEF Shape, Agree, Formed, AppFields, Like

LEMMA CommitCases ==
    ASSUME Shape, Agree, NEW c, Formed(c), app.lastTime <= c.lastTime, Commit(c)
    PROVE  /\ Formed(app') /\ Formed(disk') /\ Agree' /\ app.lastTime <= app'.lastTime
           /\ \/ /\ last' = "published" /\ app' = disk' /\ Like(c, app') /\ app'.lastTime = c.lastTime
                 /\ Checked(app') /\ app'.lastTime < disk'.lastTime + ClockPersistInterval
              \/ /\ last' = "memory" /\ disk' = disk /\ Like(app, app')
                 /\ app'.lastTime = 0 \/ app'.lastTime < disk'.lastTime + ClockPersistInterval
                 /\ app'.lastTime = c.lastTime
              \/ last' = "invalid" /\ disk' = disk /\ app' = app
<1>0. app.lastTime \in Nat /\ disk.lastTime \in Nat /\ c.lastTime \in Nat /\ Formed(app) /\ Formed(disk)
  BY DEF Shape, Formed
<1>1. CASE last' = "invalid" /\ UNCHANGED <<app, disk>>
  BY <1>0, <1>1 DEF Agree
<1>2. CASE /\ ~ClockDue(c)
           /\ app' = [app EXCEPT !.lastTime = c.lastTime]
           /\ last' = "memory" /\ UNCHANGED disk
  <2>1. Formed(app') /\ Like(app, app') /\ app'.lastTime = c.lastTime
    BY <1>0, <1>2 DEF Formed, Like, AppFields
  <2>2. [app' EXCEPT !.lastTime = disk.lastTime] = [app EXCEPT !.lastTime = disk.lastTime]
    BY <1>0, <1>2 DEF Formed, AppFields
  <2>3. Agree'
    BY <1>0, <1>2, <2>1, <2>2 DEF Agree
  <2>4. app'.lastTime = 0 \/ app'.lastTime < disk'.lastTime + ClockPersistInterval
    BY <1>0, <1>2, <2>1, VaultConstants DEF ClockDue
  <2> QED BY <1>0, <1>2, <2>1, <2>3, <2>4
<1>3. CASE /\ Validate(c)
           /\ app' = Publishable(c) /\ disk' = Publishable(c)
           /\ last' = "published"
  <2>1. Formed(app') /\ Like(c, app') /\ app'.lastTime = c.lastTime
    BY <1>0, <1>3 DEF Publishable, Formed, Like, AppFields
  <2>2. Checked(app')
    BY <1>3, <2>1, ValidIsChecked, LikeChecked
  <2>3. [app' EXCEPT !.lastTime = app'.lastTime] = app'
    BY <2>1 DEF Formed, AppFields
  <2>4. app'.lastTime \in Nat /\ app' = disk'
    BY <1>0, <1>3, <2>1
  <2>5. Agree'
    BY <2>3, <2>4 DEF Agree
  <2>6. app'.lastTime < disk'.lastTime + ClockPersistInterval
    BY <2>4, VaultConstants
  <2> QED BY <1>3, <2>1, <2>2, <2>4, <2>5, <2>6
<1> QED BY <1>1, <1>2, <1>3 DEF Commit

LEMMA VouchedCarried ==
    ASSUME NEW a, NEW b, NEW T, NEW N, NEW S, Checked(a), Vouched(a), Carries(a, b, T, N, S)
    PROVE  Vouched(b)
<1> SUFFICES ASSUME NEW g \in DOMAIN b.grants, GrantCarried(a, b, g) PROVE GrantVouched(b, g)
  BY DEF Carries, Vouched
<1>1. g \in DOMAIN a.grants /\ a.grants[g].issuerTask \in DOMAIN a.tasks /\ GrantVouched(a, g)
  BY DEF GrantCarried, Checked, Vouched
<1> QED BY <1>1 DEF GrantCarried, GrantVouched

\* What a step that carries the vault's content keeps of the invariant.
LEMMA Inherits ==
    ASSUME VaultInv, NEW T, NEW N, NEW S, Carries(app, app', T, N, S),
           \A t \in T : t \in renewed' /\ t \in {approval.id : approval \in Approvals},
           fresh' \in Nat, fresh <= fresh', \A n \in N : n \in Nat /\ fresh <= n /\ n < fresh',
           \A d \in S : flight # None /\ ~flight.handed /\ d = flight.id,
           registered' = registered, backup' = backup
    PROVE  /\ Known(app)' /\ (backup # None => Known(backup))'
           /\ Vouched(app)' /\ (backup # None => Vouched(backup))'
           /\ ((\A t \in renewed : t \in renewed') => Renewed') /\ Registered' /\ RegisterOnce'
<1> USE DEF VaultInv
<1>1. fresh \in Nat
  BY DEF Shape
<1>2. \A i : i \in Nat /\ i < fresh => i < fresh'
  BY <1>1
<1>3. Known(app)'
  <2>1. ASSUME NEW i \in DOMAIN app'.records \cup DOMAIN app'.deliveries PROVE i \in Nat /\ i < fresh'
    <3>1. i \in DOMAIN app.records \cup DOMAIN app.deliveries \/ i \in N
      BY DEF Carries, RecordCarried
    <3> QED BY <1>2, <3>1 DEF Known
  <2>2. \A t \in DOMAIN app'.tasks : t \in {approval.id : approval \in Approvals}
    BY DEF Carries, TaskCarried, Known
  <2> QED BY <2>1, <2>2 DEF Known
<1>4. (backup # None => Known(backup))'
  BY <1>2 DEF Known
<1>5. Vouched(app)'
  <2>1. Vouched(app')
    BY VouchedCarried
  <2> QED BY <2>1 DEF Vouched
<1>6. (backup # None => Vouched(backup))'
  BY DEF Vouched
<1>7. (\A t \in renewed : t \in renewed') => Renewed'
  BY DEF Carries, TaskCarried, Renewed
<1>8. ASSUME NEW i \in DOMAIN registered, registered[i] \in DOMAIN app'.records
      PROVE  app'.records[registered[i]].restored \/ RegistrationSealed(app', registered[i])
  <2> DEFINE r == registered[i]
  <2>1. r \in Nat /\ r < fresh
    BY DEF Registered
  <2>2. r \notin N
    BY <1>1, <2>1
  <2>3. RecordCarried(app, app', r, S)
    BY <1>8, <2>2 DEF Carries
  <2>4. app.records[r].restored \/ RegistrationSealed(app, r)
    BY <2>3 DEF Registered, RecordCarried
  <2>5. ~Registering(app, r, S)
    BY DEF Registering, SealsRegister, InFlight, RegistersAnew
  <2> HIDE DEF r
  <2>6. app'.records[r].restored \/ RegistrationSealed(app', r)
    BY <2>3, <2>4, <2>5 DEF RecordCarried
  <2> QED BY <2>6 DEF r
<1>9. Registered'
  <2>1. registered' \in Seq(Nat) /\ \A i \in DOMAIN registered' : registered'[i] < fresh'
    BY <1>2 DEF Registered
  <2>2. \A i \in DOMAIN registered' : registered'[i] \in DOMAIN app'.records =>
            app'.records[registered'[i]].restored \/ RegistrationSealed(app', registered'[i])
    BY <1>8
  <2> QED BY <2>1, <2>2 DEF Registered, RegistrationSealed, Baseline
<1>10. RegisterOnce'
  BY DEF RegisterOnce
<1> QED BY <1>3, <1>4, <1>5, <1>6, <1>7, <1>9, <1>10

\* A call that publishes once, or only observes the clock.
LEMMA CallKeeps ==
    ASSUME VaultInv, Idle, NEW c, Formed(c), app.lastTime <= c.lastTime, Commit(c),
           NEW T, NEW N, Carries(app, c, T, N, {}),
           last' = "published" => \A t \in T : t \in renewed' /\ t \in {approval.id : approval \in Approvals},
           \A t \in renewed : t \in renewed',
           fresh' \in Nat, fresh <= fresh',
           last' = "published" => \A n \in N : n \in Nat /\ fresh <= n /\ n < fresh',
           UNCHANGED <<now, up, registered, sent, backup>>
    PROVE  /\ Shape' /\ Agree' /\ Memory' /\ Checked(app)'
           /\ Known(app)' /\ (backup # None => Known(backup))'
           /\ Vouched(app)' /\ (backup # None => Vouched(backup))'
           /\ Renewed' /\ Registered' /\ RegisterOnce' /\ DispatchBeforeExpiry'
<1>1. Shape /\ Agree /\ Checked(app)
  BY DEF VaultInv
<1>2. /\ Formed(app') /\ Formed(disk') /\ Agree' /\ app.lastTime <= app'.lastTime
      /\ \/ /\ last' = "published" /\ app' = disk' /\ Like(c, app') /\ app'.lastTime = c.lastTime
            /\ Checked(app') /\ app'.lastTime < disk'.lastTime + ClockPersistInterval
         \/ /\ last' = "memory" /\ disk' = disk /\ Like(app, app')
            /\ app'.lastTime = 0 \/ app'.lastTime < disk'.lastTime + ClockPersistInterval
            /\ app'.lastTime = c.lastTime
         \/ last' = "invalid" /\ disk' = disk /\ app' = app
  BY <1>1, CommitCases
<1>3. Shape'
  BY <1>1, <1>2 DEF Shape
<1>4. Memory'
  BY <1>2 DEF Memory, VaultInv, Idle
<1>5. Checked(app')
  BY <1>1, <1>2, LikeChecked
<1>6. DispatchBeforeExpiry'
  BY DEF VaultInv, DispatchBeforeExpiry
<1>7. CASE last' = "published"
  <2>1. Carries(app, app', T, N, {})
    BY <1>2, <1>7 DEF Like, Carries, TaskCarried, GrantCarried, GrantVouched, RecordCarried, AttemptCarried,
                      ReceiptCarried, RegistrationSealed, Baseline
  <2> QED BY <1>2, <1>3, <1>4, <1>5, <1>6, <1>7, <2>1, Inherits
<1>8. CASE last' # "published"
  <2>1. Carries(app, app', {}, {}, {})
    BY <1>2, <1>8, LikeKeeps DEF Keeps, Like
  <2> QED BY <1>2, <1>3, <1>4, <1>5, <1>6, <2>1, Inherits
<1> QED BY <1>7, <1>8

LEMMA CallPreserves ==
    ASSUME VaultInv, Idle, NEW c, Formed(c), app.lastTime <= c.lastTime, Commit(c),
           NEW T, NEW N, Carries(app, c, T, N, {}),
           last' = "published" => \A t \in T : t \in renewed' /\ t \in {approval.id : approval \in Approvals},
           \A t \in renewed : t \in renewed',
           fresh' \in Nat, fresh <= fresh',
           last' = "published" => \A n \in N : n \in Nat /\ fresh <= n /\ n < fresh',
           UNCHANGED <<now, up, flight, registered, sent, backup>>
    PROVE  VaultInv'
<1>1. /\ Shape' /\ Agree' /\ Memory' /\ Checked(app)'
      /\ Known(app)' /\ (backup # None => Known(backup))'
      /\ Vouched(app)' /\ (backup # None => Vouched(backup))'
      /\ Renewed' /\ Registered' /\ RegisterOnce' /\ DispatchBeforeExpiry'
  BY CallKeeps
<1>2. up' /\ flight' = None
  BY DEF Idle
<1>3. Down' /\ InFlight' /\ RegistersAnew'
  BY <1>2 DEF Down, InFlight, RegistersAnew
<1>4. SentBefore'
  <2>1. fresh \in Nat /\ SentBefore
    BY DEF VaultInv, Shape
  <2> QED BY <1>2, <2>1 DEF SentBefore
<1> QED BY <1>1, <1>3, <1>4 DEF VaultInv

LEMMA ClockedReady ==
    ASSUME VaultInv
    PROVE  /\ Formed(app) /\ Formed(Clocked) /\ Keeps(app, Clocked) /\ app.lastTime <= Clocked.lastTime
           /\ Effective \in Nat /\ fresh \in Nat
           /\ \A d \in DOMAIN app.deliveries : d # fresh
           /\ \A d \in DOMAIN Clocked.deliveries : d # fresh
<1>1. Shape /\ Checked(app)
  BY DEF VaultInv
<1>2. \A d \in DOMAIN app.deliveries : d # fresh
  BY <1>1 DEF VaultInv, Known, Shape
<1>3. Formed(Clocked) /\ Keeps(app, Clocked) /\ app.lastTime <= Clocked.lastTime /\ Effective \in Nat
  BY <1>1, ClockedKeeps
<1> QED BY <1>1, <1>2, <1>3 DEF Shape, Keeps, Carries

\* An operation on the clocked value, as a step from the owner's value.
LEMMA ClockedThen ==
    ASSUME VaultInv, NEW c, NEW T, NEW N, Formed(c), Clocked.lastTime <= c.lastTime,
           Carries(Clocked, c, T, N, {}), N \subseteq {fresh}
    PROVE  Carries(app, c, T, N, {}) /\ app.lastTime <= c.lastTime
<1>1. /\ Formed(app) /\ Formed(Clocked) /\ Keeps(app, Clocked) /\ app.lastTime <= Clocked.lastTime
      /\ \A d \in DOMAIN app.deliveries : d # fresh
  BY ClockedReady
<1>2. \A d \in DOMAIN app.deliveries : d \notin N
  BY <1>1
<1>3. Carries(app, c, T, N, {})
  BY <1>1, <1>2, KeepsThenCarries
<1>4. app.lastTime \in Nat /\ Clocked.lastTime \in Nat /\ c.lastTime \in Nat
  BY <1>1 DEF Formed
<1>5. app.lastTime <= c.lastTime
  <2> DEFINE x == app.lastTime
             y == Clocked.lastTime
             z == c.lastTime
  <2>1. x <= y /\ y <= z /\ x \in Nat /\ y \in Nat /\ z \in Nat
    BY <1>1, <1>4
  <2> HIDE DEF x, y, z
  <2>2. x <= z
    BY <2>1
  <2> QED BY <2>2 DEF x, z
<1> QED BY <1>3, <1>5

\* The candidate of a call, as a step from the owner's value.
Stages(c, T, N) ==
    /\ Formed(c) /\ Carries(app, c, T, N, {}) /\ app.lastTime <= c.lastTime
    /\ c.lastTime = Clocked.lastTime /\ Commit(c)

LEMMA ObserveStages ==
    ASSUME VaultInv, Observe
    PROVE  Stages(Clocked, {}, {})
BY ClockedReady DEF Observe, Stages, Keeps

LEMMA ObservePreserves ==
    ASSUME VaultInv, Observe
    PROVE  VaultInv'
<1>1. fresh \in Nat
  BY ClockedReady
<1>2. Stages(Clocked, {}, {})
  BY ObserveStages
<1> QED BY <1>1, <1>2, CallPreserves DEF Observe, history, Stages

LEMMA ApproveStages ==
    ASSUME VaultInv, NEW ctx, NEW approval \in Approvals, Approve(ctx, approval.id, approval.task)
    PROVE  Stages(ApproveTask(Clocked, approval.id, approval.task), {approval.id}, {})
<1> DEFINE c == ApproveTask(Clocked, approval.id, approval.task)
<1>1. Formed(app) /\ Formed(Clocked)
  BY ClockedReady
<1>2. approval.task.expiresAt \in Nat /\ approval.id \notin DOMAIN Clocked.tasks /\ Commit(c)
  BY VaultConstants DEF Approve, MayApprove
<1>3. Formed(c) /\ Carries(Clocked, c, {approval.id}, {}, {}) /\ c.lastTime = Clocked.lastTime
  BY <1>1, <1>2, ApproveCarries
<1> HIDE DEF c
<1>4. Clocked.lastTime \in Nat /\ Clocked.lastTime <= c.lastTime
  BY <1>1, <1>3 DEF Formed
<1>5. Carries(app, c, {approval.id}, {}, {}) /\ app.lastTime <= c.lastTime
  BY <1>3, <1>4, ClockedThen
<1> QED BY <1>2, <1>3, <1>5 DEF Stages, c

LEMMA ApprovePreserves ==
    ASSUME VaultInv, NEW ctx, NEW approval \in Approvals, Approve(ctx, approval.id, approval.task)
    PROVE  VaultInv'
<1> DEFINE c == ApproveTask(Clocked, approval.id, approval.task)
<1>1. fresh \in Nat /\ Stages(c, {approval.id}, {})
  BY ClockedReady, ApproveStages
<1> HIDE DEF c
<1>2. /\ Idle /\ UNCHANGED <<now, up, flight, fresh, registered, sent, backup>>
      /\ renewed' = IF last' = "published" THEN renewed \cup {approval.id} ELSE renewed
  BY DEF Approve
<1>3. /\ \A t \in renewed : t \in renewed'
      /\ last' = "published" => \A t \in {approval.id} : t \in renewed' /\ t \in {p.id : p \in Approvals}
  BY <1>2
<1> QED BY <1>1, <1>2, <1>3, CallPreserves DEF Stages

LEMMA RevokeStages ==
    ASSUME VaultInv, NEW ctx, NEW tid, Revoke(ctx, tid)
    PROVE  Stages(RevokeTask(Clocked, tid), {}, {})
<1> DEFINE c == RevokeTask(Clocked, tid)
<1>1. Formed(app) /\ Formed(Clocked) /\ Commit(c)
  BY ClockedReady DEF Revoke
<1>2. Formed(c) /\ Carries(Clocked, c, {}, {}, {}) /\ c.lastTime = Clocked.lastTime
  BY <1>1, RevokeCarries
<1> HIDE DEF c
<1>3. Clocked.lastTime \in Nat /\ Clocked.lastTime <= c.lastTime
  BY <1>1, <1>2 DEF Formed
<1>4. Carries(app, c, {}, {}, {}) /\ app.lastTime <= c.lastTime
  BY <1>2, <1>3, ClockedThen
<1> QED BY <1>1, <1>2, <1>4 DEF Stages, c

LEMMA RevokePreserves ==
    ASSUME VaultInv, NEW ctx, NEW tid, Revoke(ctx, tid)
    PROVE  VaultInv'
<1> DEFINE c == RevokeTask(Clocked, tid)
<1>1. fresh \in Nat /\ Stages(c, {}, {})
  BY ClockedReady, RevokeStages
<1> HIDE DEF c
<1>2. Idle /\ UNCHANGED <<now, up, flight, fresh, registered, sent, backup, renewed>>
  BY DEF Revoke, history
<1> QED BY <1>1, <1>2, CallPreserves DEF Stages

LEMMA ReadStages ==
    ASSUME VaultInv, NEW ctx, NEW tid, NEW rid, NEW read, ReadStep(Clocked, ctx, tid, rid, read)
    PROVE  Stages(Read(Clocked, tid, rid, Effective), {}, {})
<1> DEFINE c == Read(Clocked, tid, rid, Effective)
<1>1. Formed(app) /\ Formed(Clocked) /\ Commit(c)
  BY ClockedReady DEF ReadStep
<1>2. Formed(c) /\ Like(Clocked, c) /\ c.lastTime = Clocked.lastTime
  BY <1>1, AuditKeeps DEF Read
<1> HIDE DEF c
<1>3. Clocked.lastTime \in Nat /\ Clocked.lastTime <= c.lastTime
  BY <1>1, <1>2 DEF Formed
<1>4. Carries(Clocked, c, {}, {}, {})
  BY <1>2, LikeKeeps DEF Keeps
<1>5. Carries(app, c, {}, {}, {}) /\ app.lastTime <= c.lastTime
  BY <1>2, <1>3, <1>4, ClockedThen
<1> QED BY <1>1, <1>2, <1>5 DEF Stages, c

LEMMA ReadPreserves ==
    ASSUME VaultInv, NEW ctx, NEW tid, NEW rid, NEW read, ReadStep(Clocked, ctx, tid, rid, read)
    PROVE  VaultInv'
<1> DEFINE c == Read(Clocked, tid, rid, Effective)
<1>1. fresh \in Nat /\ Stages(c, {}, {})
  BY ClockedReady, ReadStages
<1> HIDE DEF c
<1>2. Idle /\ UNCHANGED <<now, up, flight, fresh, registered, sent, backup, renewed>>
  BY DEF ReadStep, history
<1> QED BY <1>1, <1>2, CallPreserves DEF Stages

LEMMA MutateFacts ==
    ASSUME VaultInv, NEW ctx \in Contexts, NEW tid, NEW request, NEW op,
           MutateStep(Clocked, ctx, tid, request, op)
    PROVE  LET c == Mutate(Clocked, ctx, tid, request, op, Effective, fresh)
               key == RequestKey(ctx, tid, request)
           IN  /\ Stages(c, {}, Drawn(op, fresh))
               /\ key \in DOMAIN c.requests
               /\ c.requests[key].at = Effective /\ c.requests[key].fingerprint = op
<1> DEFINE c == Mutate(Clocked, ctx, tid, request, op, Effective, fresh)
           key == RequestKey(ctx, tid, request)
<1>1. Formed(app) /\ Formed(Clocked) /\ fresh \in Nat /\ Effective \in Nat
  BY ClockedReady
<1>2. /\ key \notin DOMAIN Clocked.requests /\ tid \in DOMAIN Clocked.tasks
      /\ Clocked.tasks[tid].principal = ctx.principal /\ Commit(c)
  BY DEF MutateStep, Performable, MutationAdmitted, TaskAdmits
<1>3. /\ Formed(c) /\ Carries(Clocked, c, {}, Drawn(op, fresh), {}) /\ c.lastTime = Clocked.lastTime
      /\ key \in DOMAIN c.requests
      /\ c.requests[key].at = Effective /\ c.requests[key].fingerprint = op
  BY <1>1, <1>2, MutateCarries
<1> HIDE DEF c
<1>4. Clocked.lastTime \in Nat /\ Clocked.lastTime <= c.lastTime
  BY <1>1, <1>3 DEF Formed
<1>5. Carries(app, c, {}, Drawn(op, fresh), {}) /\ app.lastTime <= c.lastTime
  BY <1>3, <1>4, ClockedThen DEF Drawn
<1> QED BY <1>2, <1>3, <1>5 DEF Stages, c

\* The record or grant of a mutation takes the identifier it drew.
LEMMA MutatePreserves ==
    ASSUME VaultInv, NEW ctx \in Contexts, NEW tid, NEW request, NEW op,
           MutateStep(Clocked, ctx, tid, request, op)
    PROVE  VaultInv'
<1> DEFINE c == Mutate(Clocked, ctx, tid, request, op, Effective, fresh)
<1>1. fresh \in Nat
  BY ClockedReady
<1>2. Stages(c, {}, Drawn(op, fresh))
  BY MutateFacts
<1> HIDE DEF c
<1>3. Idle /\ UNCHANGED <<now, up, flight, registered, sent, backup, renewed>>
  BY DEF MutateStep
<1>4. fresh' = IF op.op \in {"create", "share"} THEN fresh + 1 ELSE fresh
  BY DEF MutateStep
<1>5. \A n \in Drawn(op, fresh) : n \in Nat /\ fresh <= n /\ n < fresh'
  BY <1>1, <1>4 DEF Drawn
<1>6. fresh' \in Nat /\ fresh <= fresh'
  BY <1>1, <1>4
<1> QED BY <1>2, <1>3, <1>5, <1>6, CallPreserves DEF Stages

LEMMA PrepareFacts ==
    ASSUME VaultInv, NEW ctx, NEW tid, NEW rid, NEW request, NEW use,
           Prepare(Clocked, ctx, tid, rid, request, use)
    PROVE  LET c == Intend(Clocked, ctx, tid, rid, request, use, Effective)
           IN  /\ Stages(c, {}, {fresh})
               /\ fresh \in DOMAIN c.deliveries /\ rid \in DOMAIN c.records
               /\ Intended(c.deliveries[fresh], ctx, tid, rid, request, use, Effective)
<1> DEFINE c == Intend(Clocked, ctx, tid, rid, request, use, Effective)
<1>1. Formed(app) /\ Formed(Clocked) /\ fresh \in Nat /\ Effective \in Nat /\ fresh \notin DOMAIN Clocked.deliveries
  BY ClockedReady
<1>2. /\ Formed(c) /\ Carries(Clocked, c, {}, {fresh}, {}) /\ c.lastTime = Clocked.lastTime
      /\ fresh \in DOMAIN c.deliveries
      /\ Intended(c.deliveries[fresh], ctx, tid, rid, request, use, Effective)
      /\ DOMAIN c.records = DOMAIN Clocked.records
  BY <1>1, IntendCarries
<1>3. rid \in DOMAIN Clocked.records /\ Commit(c)
  BY DEF Prepare, UseAdmitted, Select, LiveRecord
<1> HIDE DEF c
<1>4. Clocked.lastTime \in Nat /\ Clocked.lastTime <= c.lastTime
  BY <1>1, <1>2 DEF Formed
<1>5. Carries(app, c, {}, {fresh}, {}) /\ app.lastTime <= c.lastTime
  BY <1>2, <1>4, ClockedThen
<1> QED BY <1>2, <1>3, <1>5 DEF Stages, c

\* A registration that is admitted and new was not dispatched before.
LEMMA NeverRegistered ==
    ASSUME VaultInv, NEW ctx, NEW tid, NEW rid, NEW request, NEW use,
           Prepare(Clocked, ctx, tid, rid, request, use), use.action = "register"
    PROVE  \A i \in DOMAIN registered : registered[i] # rid
<1>1. /\ rid \in DOMAIN Clocked.records /\ ~Clocked.records[rid].restored
      /\ ~RegistrationSealed(Clocked, rid)
  BY DEF Prepare, UseAdmitted, UseIsNew, Select, LiveRecord
<1>2. RecordCarried(app, Clocked, rid, {})
  BY <1>1, ClockedReady DEF Keeps, Carries
<1>3. rid \in DOMAIN app.records /\ ~app.records[rid].restored /\ ~RegistrationSealed(app, rid)
  BY <1>1, <1>2 DEF RecordCarried, Registering
<1> QED BY <1>3 DEF VaultInv, Registered

LEMMA PreparePreserves ==
    ASSUME VaultInv, NEW ctx \in Contexts, NEW tid, NEW rid, NEW request, NEW use \in Uses,
           Prepare(Clocked, ctx, tid, rid, request, use)
    PROVE  VaultInv'
<1> DEFINE c == Intend(Clocked, ctx, tid, rid, request, use, Effective)
<1>1. fresh \in Nat /\ Keeps(app, Clocked)
  BY ClockedReady
<1>2. /\ Formed(c) /\ Carries(app, c, {}, {fresh}, {}) /\ app.lastTime <= c.lastTime /\ Commit(c)
      /\ fresh \in DOMAIN c.deliveries /\ rid \in DOMAIN c.records
      /\ Intended(c.deliveries[fresh], ctx, tid, rid, request, use, Effective)
  BY PrepareFacts DEF Stages
<1> HIDE DEF c
<1>3. Idle /\ UNCHANGED <<now, up, registered, sent, backup, renewed>>
  BY DEF Prepare, history
<1>4. CASE last' # "published"
  <2>1. UNCHANGED <<flight, fresh>>
    BY <1>4 DEF Prepare
  <2> QED BY <1>1, <1>2, <1>3, <1>4, <2>1, CallPreserves
<1>5. CASE last' = "published"
  <2> DEFINE f == [id |-> fresh, ctx |-> ctx, task |-> tid, record |-> rid, use |-> use, handed |-> FALSE]
  <2>1. flight' = f /\ fresh' = fresh + 1
    BY <1>5 DEF Prepare
  <2>2. /\ Shape' /\ Agree' /\ Memory' /\ Checked(app)'
        /\ Known(app)' /\ (backup # None => Known(backup))'
        /\ Vouched(app)' /\ (backup # None => Vouched(backup))'
        /\ Renewed' /\ Registered' /\ RegisterOnce' /\ DispatchBeforeExpiry'
    BY <1>1, <1>2, <1>3, <2>1, CallKeeps
  <2>3. Like(c, app')
    BY <1>2, <1>5, CommitCases DEF VaultInv
  <2>4. f \in Flights
    <3>1. tid \in DOMAIN app.tasks
      BY <1>1 DEF Prepare, UseAdmitted, Select, TaskAdmits, Keeps, Carries, TaskCarried
    <3>2. rid \in Nat
      BY <1>1 DEF Prepare, UseAdmitted, Select, LiveRecord, Keeps, Carries, RecordCarried, VaultInv, Known
    <3> QED BY <1>1, <3>1, <3>2 DEF Flights, VaultInv, Known
  <2>5. f.id = fresh /\ f.task = tid /\ f.record = rid /\ f.use = use
    OBVIOUS
  <2> HIDE DEF f
  <2>6. InFlight'
    BY <1>2, <1>3, <2>1, <2>3, <2>4, <2>5 DEF InFlight, Like, Idle, Intended
  <2>7. RegistersAnew'
    BY <1>3, <2>1, <2>5, NeverRegistered DEF RegistersAnew
  <2>8. SentBefore'
    BY <1>1, <1>3, <2>1, <2>5 DEF VaultInv, SentBefore
  <2>9. Down'
    BY <1>3 DEF Down, Idle
  <2> QED BY <2>2, <2>6, <2>7, <2>8, <2>9 DEF VaultInv
<1> QED BY <1>4, <1>5

LEMMA HandoffPreserves ==
    ASSUME VaultInv, Handoff
    PROVE  VaultInv'
<1> DEFINE at == EffectiveTime(app, now)
           attempt == app.deliveries[flight.id]
<1>1. /\ up /\ flight # None /\ ~flight.handed /\ flight \in Flights
      /\ flight.id \in DOMAIN app.deliveries /\ flight.record \in DOMAIN app.records
      /\ attempt.task = flight.task /\ attempt.record = flight.record
      /\ attempt.action = flight.use.action /\ attempt.status = None /\ attempt.dispatched
  BY DEF Handoff, VaultInv, InFlight
<1>2. /\ Formed(app) /\ now \in Nat /\ fresh \in Nat /\ Shape /\ Agree /\ Checked(app)
  BY DEF VaultInv, Shape
<1>3. /\ Formed(app') /\ Like(app, app') /\ app.lastTime <= app'.lastTime
      /\ app' = [app EXCEPT !.lastTime = at] /\ app'.lastTime = at /\ at \in Nat
  BY <1>2, ClockKeeps DEF Handoff, HandoffAllowed
<1>4. UNCHANGED <<disk, now, up, gated, last, fresh, crashes, restores, backup, renewed>>
  BY DEF Handoff
<1>5. flight' = [flight EXCEPT !.handed = TRUE]
  BY DEF Handoff
<1>6. flight' \in Flights /\ flight'.handed = TRUE /\ flight'.id = flight.id /\ flight'.task = flight.task
      /\ flight'.record = flight.record /\ flight'.use = flight.use
  BY <1>1, <1>5 DEF Flights
<1>7. flight' # None
  BY <1>6, VaultConstants DEF Flights
<1>8. Shape'
  BY <1>2, <1>3, <1>4 DEF Shape
<1>9. Agree'
  <2>1. [app' EXCEPT !.lastTime = disk.lastTime] = [app EXCEPT !.lastTime = disk.lastTime]
    BY <1>2, <1>3 DEF Formed, AppFields
  <2>2. disk.lastTime \in Nat /\ app.lastTime \in Nat /\ app'.lastTime \in Nat
    BY <1>2, <1>3 DEF Shape, Formed
  <2>3. disk.lastTime <= app'.lastTime
    BY <1>2, <1>3, <2>2 DEF Agree
  <2> QED BY <1>2, <1>4, <2>1, <2>3 DEF Agree
<1>10. Memory' /\ Down'
  BY <1>1, <1>4, <1>7 DEF Memory, Down, Idle
<1>11. Checked(app')
  BY <1>2, <1>3, LikeChecked
<1>12. /\ Known(app)' /\ (backup # None => Known(backup))'
       /\ Vouched(app)' /\ (backup # None => Vouched(backup))' /\ Renewed'
  BY <1>3, <1>4 DEF VaultInv, Known, Vouched, GrantVouched, Renewed, Like
<1>13. InFlight'
  BY <1>1, <1>3, <1>4, <1>6 DEF InFlight, Like
<1>14. RegistersAnew'
  BY <1>6 DEF RegistersAnew
<1>15. sent' = [id |-> flight.id, preparedAt |-> attempt.at, at |-> at,
                deadline |-> flight.ctx.deadline, expiresAt |-> app.tasks[attempt.task].expiresAt]
  BY DEF Handoff
<1>16. SentBefore'
  <2>1. flight.id \in Nat /\ flight.id < fresh
    BY <1>1 DEF VaultInv, Known
  <2> QED BY <1>4, <1>6, <1>15, <2>1 DEF SentBefore
<1>17. DispatchBeforeExpiry'
  <2>1. at < flight.ctx.deadline /\ at < Clock(app, now).tasks[flight.task].expiresAt
    BY DEF Handoff, HandoffAllowed, Select, TaskAdmits
  <2>2. Clock(app, now).tasks = app.tasks
    BY <1>3 DEF Handoff, Like
  <2> QED BY <1>1, <1>15, <2>1, <2>2 DEF DispatchBeforeExpiry
<1>18. /\ registered \in Seq(Nat) /\ flight.record \in Nat /\ flight.record < fresh
       /\ \A i \in DOMAIN registered :
            /\ registered[i] < fresh
            /\ registered[i] \in DOMAIN app.records =>
                app.records[registered[i]].restored \/ RegistrationSealed(app, registered[i])
       /\ \A i, j \in DOMAIN registered : registered[i] = registered[j] => i = j
  BY <1>1 DEF VaultInv, Registered, RegisterOnce, Known
<1>19. /\ app'.records = app.records
       /\ \A r \in DOMAIN app.records : RegistrationSealed(app, r) => RegistrationSealed(app', r)
  BY <1>3 DEF Like, RegistrationSealed, Baseline
<1>20. CASE attempt.action # "register"
  <2>1. registered' = registered
    BY <1>20 DEF Handoff
  <2>2. Registered'
    BY <1>4, <1>18, <1>19, <2>1 DEF Registered
  <2>3. RegisterOnce'
    BY <1>18, <2>1 DEF RegisterOnce
  <2> QED BY <1>8, <1>9, <1>10, <1>11, <1>12, <1>13, <1>14, <1>16, <1>17, <2>2, <2>3 DEF VaultInv
<1>21. CASE attempt.action = "register"
  <2>1. registered' = Append(registered, flight.record)
    BY <1>1, <1>21 DEF Handoff
  <2>2. \A i \in DOMAIN registered : registered[i] # flight.record
    BY <1>1, <1>21 DEF VaultInv, RegistersAnew
  <2>3. /\ registered' \in Seq(Nat) /\ DOMAIN registered' = 1 .. Len(registered) + 1 /\ Len(registered) \in Nat
        /\ \A i \in DOMAIN registered : registered'[i] = registered[i]
        /\ registered'[Len(registered) + 1] = flight.record
        /\ \A i \in DOMAIN registered' : i \in DOMAIN registered \/ i = Len(registered) + 1
    BY <1>18, <2>1
  <2>4. RegistrationSealed(app, flight.record)
    BY <1>1, <1>21 DEF RegistrationSealed, SealsRegister, Values
  <2>5. Registered'
    BY <1>4, <1>18, <1>19, <2>3, <2>4 DEF Registered
  <2>6. RegisterOnce'
    BY <1>18, <2>2, <2>3 DEF RegisterOnce
  <2> QED BY <1>8, <1>9, <1>10, <1>11, <1>12, <1>13, <1>14, <1>16, <1>17, <2>5, <2>6 DEF VaultInv
<1> QED BY <1>20, <1>21

\* The end of a private use: it is published, or the owner ends with it.
LEMMA FinishPreserves ==
    ASSUME VaultInv, flight # None, NEW c, Formed(c), app.lastTime <= c.lastTime, Finish(c),
           NEW S, Carries(app, c, {}, {}, S), \A d \in S : ~flight.handed /\ d = flight.id,
           UNCHANGED <<now, fresh, registered, sent, backup, renewed>>
    PROVE  VaultInv'
<1>1. Shape /\ Agree /\ Checked(app) /\ fresh \in Nat
  BY DEF VaultInv, Shape
<1>2. /\ Formed(app') /\ Formed(disk') /\ Agree' /\ app.lastTime <= app'.lastTime
      /\ \/ /\ last' = "published" /\ app' = disk' /\ Like(c, app') /\ app'.lastTime = c.lastTime
            /\ Checked(app') /\ app'.lastTime < disk'.lastTime + ClockPersistInterval
         \/ /\ last' = "memory" /\ disk' = disk /\ Like(app, app')
            /\ app'.lastTime = 0 \/ app'.lastTime < disk'.lastTime + ClockPersistInterval
            /\ app'.lastTime = c.lastTime
         \/ last' = "invalid" /\ disk' = disk /\ app' = app
  BY <1>1, CommitCases DEF Finish
<1>3. up' = (last' = "published") /\ flight' = None
  BY DEF Finish
<1>4. Shape'
  BY <1>1, <1>2 DEF Shape
<1>5. Memory'
  BY <1>2, <1>3 DEF Memory, Idle
<1>6. Checked(app')
  BY <1>1, <1>2, LikeChecked
<1>7. Down'
  <2>1. Unfinished(disk)
    <3>1. flight.id \in DOMAIN disk.deliveries /\ disk.deliveries[flight.id].status = None
      BY <1>1, AgreeIsLike DEF VaultInv, InFlight, Like
    <3> QED BY <3>1 DEF Unfinished, Values
  <2>2. ~up' => disk' = disk
    BY <1>2, <1>3
  <2> QED BY <1>3, <2>1, <2>2 DEF Down
<1>8. InFlight' /\ RegistersAnew'
  BY <1>3 DEF InFlight, RegistersAnew
<1>9. SentBefore' /\ DispatchBeforeExpiry'
  BY <1>3 DEF VaultInv, SentBefore, DispatchBeforeExpiry
<1>10. /\ Known(app)' /\ (backup # None => Known(backup))'
       /\ Vouched(app)' /\ (backup # None => Vouched(backup))'
       /\ Renewed' /\ Registered' /\ RegisterOnce'
  <2>1. CASE last' = "published"
    <3>1. Carries(app, app', {}, {}, S)
      BY <1>2, <2>1 DEF Like, Carries, TaskCarried, GrantCarried, GrantVouched, RecordCarried,
                        AttemptCarried, ReceiptCarried, RegistrationSealed, Baseline
    <3> QED BY <1>1, <3>1, Inherits
  <2>2. CASE last' # "published"
    <3>1. Carries(app, app', {}, {}, {})
      BY <1>2, <2>2, LikeKeeps DEF Keeps, Like
    <3> QED BY <1>1, <3>1, Inherits
  <2> QED BY <2>1, <2>2
<1> QED BY <1>2, <1>4, <1>5, <1>6, <1>7, <1>8, <1>9, <1>10 DEF VaultInv

LEMMA RefuseFacts ==
    ASSUME VaultInv, Refuse
    PROVE  \E c : /\ Formed(c) /\ Carries(app, c, {}, {}, {flight.id}) /\ app.lastTime <= c.lastTime
                  /\ Finish(c) /\ (app.lastTime <= now => c.lastTime <= now)
<1> DEFINE a == Clock(app, now)
           e == IF ShouldCompact(a) THEN Compact(a) ELSE a
           b == [e EXCEPT !.deliveries[flight.id].dispatched = FALSE, !.deliveries[flight.id].status = "rejected"]
           c == IF flight.use.action = "register" THEN SetSignup(b, flight.record, "pending") ELSE b
<1>1. Formed(app) /\ now \in Nat /\ Checked(app)
  BY DEF VaultInv, Shape
<1>2. Formed(a) /\ Like(app, a) /\ app.lastTime <= a.lastTime /\ (app.lastTime <= now => a.lastTime <= now)
  BY <1>1, ClockKeeps
<1>3. Finish(c)
  BY DEF Refuse
<1> HIDE DEF a
<1>4. Keeps(app, a) /\ Checked(a)
  BY <1>1, <1>2, LikeKeeps, LikeChecked
<1>5. Formed(e) /\ Keeps(a, e) /\ e.lastTime = a.lastTime
  BY <1>2, <1>4, StagedKeeps
<1> HIDE DEF e
<1>6. Formed(b) /\ Rewrites(e, b, {flight.id}) /\ b.lastTime = e.lastTime
  BY <1>5, RefusedCarries
<1> HIDE DEF b
<1>7. Rewrites(e, c, {flight.id}) /\ c.lastTime = e.lastTime
  <2>1. CASE flight.use.action = "register"
    <3>1. Rewrites(b, SetSignup(b, flight.record, "pending"), {})
          /\ SetSignup(b, flight.record, "pending").lastTime = b.lastTime
      BY <1>6, SignupKeeps
    <3> QED BY <1>6, <2>1, <3>1, RewritesTwice
  <2>2. CASE flight.use.action # "register"
    BY <1>6, <2>2
  <2> QED BY <2>1, <2>2
<1> HIDE DEF c
<1>8. app.lastTime \in Nat /\ a.lastTime \in Nat /\ a.lastTime <= e.lastTime /\ e.lastTime <= c.lastTime
      /\ c.lastTime \in Nat
  BY <1>1, <1>2, <1>5, <1>7 DEF Formed
<1>9. Formed(c) /\ Carries(e, c, {}, {}, {flight.id})
  BY <1>5, <1>7, <1>8, RewritesCarries
<1>10. Keeps(app, e)
  BY <1>1, <1>2, <1>4, <1>5, <1>8, KeepsTransitive
<1>11. Carries(app, c, {}, {}, {flight.id})
  BY <1>1, <1>5, <1>8, <1>9, <1>10, KeepsThenCarries
<1>12. app.lastTime <= c.lastTime /\ (app.lastTime <= now => c.lastTime <= now)
  BY <1>2, <1>5, <1>7
<1> QED BY <1>3, <1>9, <1>11, <1>12

LEMMA RefusePreserves ==
    ASSUME VaultInv, Refuse
    PROVE  VaultInv'
<1>1. PICK c : /\ Formed(c) /\ Carries(app, c, {}, {}, {flight.id}) /\ app.lastTime <= c.lastTime
               /\ Finish(c)
  BY RefuseFacts
<1>2. flight # None /\ ~flight.handed /\ UNCHANGED <<now, fresh, registered, sent, backup, renewed>>
  BY DEF Refuse, history
<1> QED BY <1>1, <1>2, FinishPreserves

LEMMA CompleteFacts ==
    ASSUME VaultInv, NEW status, Complete(status)
    PROVE  \E c : /\ Formed(c) /\ Carries(app, c, {}, {}, {}) /\ c.lastTime = app.lastTime
                  /\ app.lastTime <= c.lastTime /\ Finish(c)
<1> DEFINE a == Staged
           b == [a EXCEPT !.deliveries[flight.id].status = status,
                          !.records[flight.record].signup = SignupAfter(flight.use.action, status, @)]
           c == Audit(b, [task |-> flight.task, record |-> flight.record, request |-> None, at |-> sent.at])
<1>1. Formed(app) /\ Checked(app)
  BY DEF VaultInv, Shape
<1>2. Formed(a) /\ Keeps(app, a) /\ a.lastTime = app.lastTime
  BY <1>1, StagedKeeps DEF Staged
<1>3. Finish(c)
  BY DEF Complete
<1> HIDE DEF a
<1>4. Formed(b) /\ Carries(a, b, {}, {}, {}) /\ b.lastTime = a.lastTime
  <2> DEFINE signup == SignupAfter(flight.use.action, status, a.records[flight.record].signup)
  <2>1. b = Completed(a, flight.id, status, flight.record, signup)
    BY <1>2 DEF Formed, AppFields, Completed
  <2> HIDE DEF b, signup
  <2> QED BY <1>2, <2>1, CompletedCarries
<1> HIDE DEF b
<1>5. Formed(c) /\ Like(b, c) /\ c.lastTime = b.lastTime
  BY <1>4, AuditKeeps
<1> HIDE DEF c
<1>6. app.lastTime \in Nat /\ c.lastTime = app.lastTime /\ a.lastTime <= c.lastTime
  BY <1>1, <1>2, <1>4, <1>5 DEF Formed
<1>7. Carries(a, c, {}, {}, {})
  BY <1>4, <1>5 DEF Like, Carries, TaskCarried, GrantCarried, GrantVouched, RecordCarried, AttemptCarried,
                    ReceiptCarried, RegistrationSealed, Baseline
<1>8. Carries(app, c, {}, {}, {})
  BY <1>1, <1>2, <1>5, <1>6, <1>7, KeepsThenCarries
<1> QED BY <1>2, <1>3, <1>5, <1>6, <1>8

LEMMA CompletePreserves ==
    ASSUME VaultInv, NEW status, Complete(status)
    PROVE  VaultInv'
<1>1. PICK c : /\ Formed(c) /\ Carries(app, c, {}, {}, {}) /\ app.lastTime <= c.lastTime /\ Finish(c)
  BY CompleteFacts
<1>2. flight # None /\ UNCHANGED <<now, fresh, registered, sent, backup, renewed>>
  BY DEF Complete, history
<1> QED BY <1>1, <1>2, FinishPreserves

-----------------------------------------------------------------------------
(* Restart, recovery, backup and restore.                                  *)

\* The owner's value becomes the published one.
LEMMA ReloadKeeps ==
    ASSUME VaultInv, app' = disk, UNCHANGED <<disk, now, fresh, registered, sent, backup, renewed>>, flight' = None
    PROVE  /\ Shape' /\ Agree' /\ Memory' /\ Checked(app)'
           /\ Known(app)' /\ (backup # None => Known(backup))'
           /\ Vouched(app)' /\ (backup # None => Vouched(backup))'
           /\ Renewed' /\ Registered' /\ RegisterOnce' /\ DispatchBeforeExpiry'
           /\ InFlight' /\ RegistersAnew' /\ SentBefore' /\ (~up' => Down')
<1>1. Shape /\ Agree /\ Checked(app) /\ fresh \in Nat /\ disk.lastTime \in Nat
  BY DEF VaultInv, Shape, Formed
<1>2. Like(app, app')
  BY <1>1, AgreeIsLike
<1>3. Shape' /\ Checked(app')
  BY <1>1, <1>2, LikeChecked DEF Shape
<1>4. Agree'
  <2>1. [disk EXCEPT !.lastTime = disk.lastTime] = disk
    BY <1>1 DEF Shape, Formed, AppFields
  <2> QED BY <1>1, <2>1 DEF Agree
<1>5. Memory'
  BY <1>1, VaultConstants DEF Memory
<1>6. Carries(app, app', {}, {}, {})
  BY <1>2, LikeKeeps DEF Keeps
<1>7. /\ Known(app)' /\ (backup # None => Known(backup))'
      /\ Vouched(app)' /\ (backup # None => Vouched(backup))'
      /\ Renewed' /\ Registered' /\ RegisterOnce'
  BY <1>1, <1>6, Inherits
<1>8. InFlight' /\ RegistersAnew' /\ SentBefore' /\ DispatchBeforeExpiry' /\ (~up' => Down')
  BY DEF VaultInv, InFlight, RegistersAnew, SentBefore, DispatchBeforeExpiry, Down
<1> QED BY <1>3, <1>4, <1>5, <1>7, <1>8

LEMMA CrashPreserves ==
    ASSUME VaultInv, Crash
    PROVE  VaultInv'
<1>1. /\ app' = disk /\ flight' = None /\ ~up'
      /\ UNCHANGED <<disk, now, fresh, registered, sent, backup, renewed>>
  BY DEF Crash, history
<1> QED BY <1>1, ReloadKeeps DEF VaultInv

LEMMA OpenPreserves ==
    ASSUME VaultInv, Open
    PROVE  VaultInv'
<1>1. /\ app' = disk /\ up' /\ UNCHANGED <<disk, now, flight, fresh, registered, sent, backup, renewed>>
  BY DEF Open, history
<1>2. flight' = None
  BY <1>1 DEF VaultInv, Down, Open
<1>3. Down'
  BY <1>1 DEF Down
<1> QED BY <1>1, <1>2, <1>3, ReloadKeeps DEF VaultInv

LEMMA RecoverPreserves ==
    ASSUME VaultInv, Recover
    PROVE  VaultInv'
<1> DEFINE b == Sanitize(disk, now)
<1>1. /\ Shape /\ Agree /\ Checked(app) /\ Formed(app) /\ Formed(disk) /\ now \in Nat /\ fresh \in Nat
      /\ disk.lastTime \in Nat
  BY DEF VaultInv, Shape, Formed
<1>2. /\ Formed(b) /\ Carries(disk, b, {}, {}, {}) /\ b.lastTime = now
      /\ b.revokedTasks = DOMAIN b.tasks
  BY <1>1, SanitizeCarries
<1>3. /\ app' = b /\ disk' = b /\ up' /\ renewed' = {} /\ Validate(b) /\ ~up
      /\ UNCHANGED <<now, flight, fresh, backup, registered, sent>>
  BY DEF Recover
<1> HIDE DEF b
<1>4. flight' = None
  BY <1>3 DEF VaultInv, Down
<1>5. Shape'
  BY <1>1, <1>2, <1>3 DEF Shape
<1>6. Agree'
  <2>1. [b EXCEPT !.lastTime = b.lastTime] = b
    BY <1>2 DEF Formed, AppFields
  <2> QED BY <1>1, <1>2, <1>3, <2>1 DEF Agree
<1>7. Memory'
  BY <1>1, <1>2, <1>3, VaultConstants DEF Memory
<1>8. Checked(app')
  BY <1>3, ValidIsChecked
<1>9. Carries(app, app', {}, {}, {})
  <2>1. Like(app, disk)
    BY <1>1, AgreeIsLike
  <2> QED BY <1>2, <1>3, <2>1 DEF Like, Carries, TaskCarried, GrantCarried, GrantVouched, RecordCarried,
              AttemptCarried, ReceiptCarried, RegistrationSealed, Baseline, Registering
<1>10. /\ Known(app)' /\ (backup # None => Known(backup))'
       /\ Vouched(app)' /\ (backup # None => Vouched(backup))' /\ Registered' /\ RegisterOnce'
  BY <1>1, <1>3, <1>9, Inherits
<1>11. Renewed'
  BY <1>2, <1>3 DEF Renewed
<1>12. Down' /\ InFlight' /\ RegistersAnew'
  BY <1>3, <1>4 DEF Down, InFlight, RegistersAnew
<1>13. SentBefore' /\ DispatchBeforeExpiry'
  BY <1>3, <1>4 DEF VaultInv, SentBefore, DispatchBeforeExpiry
<1> QED BY <1>5, <1>6, <1>7, <1>8, <1>10, <1>11, <1>12, <1>13 DEF VaultInv

LEMMA RestorePreserves ==
    ASSUME VaultInv, Restore
    PROVE  VaultInv'
<1> DEFINE b == PrepareRestored(backup, now)
<1>1. backup # None /\ Formed(backup) /\ now \in Nat /\ fresh \in Nat /\ Known(backup) /\ Vouched(backup)
  BY DEF VaultInv, Shape, Restore
<1>2. /\ Formed(b) /\ b.revokedTasks = DOMAIN b.tasks
      /\ b.tasks = backup.tasks /\ DOMAIN b.records = DOMAIN backup.records
      /\ DOMAIN b.deliveries = DOMAIN backup.deliveries
      /\ \A r \in DOMAIN b.records : b.records[r].restored
      /\ DOMAIN b.grants = DOMAIN backup.grants
      /\ \A g \in DOMAIN b.grants : b.grants[g].issuerTask = backup.grants[g].issuerTask
                                    /\ b.grants[g].adminIssued = backup.grants[g].adminIssued
  BY <1>1, RestoredFormed
<1>3. /\ app' = b /\ disk' = b /\ up' /\ renewed' = {} /\ Validate(b) /\ ~up /\ sent' = None
      /\ UNCHANGED <<now, flight, fresh, backup, registered>>
  BY DEF Restore
<1> HIDE DEF b
<1>4. flight' = None
  BY <1>3 DEF VaultInv, Down
<1>5. Shape'
  BY <1>1, <1>2, <1>3 DEF VaultInv, Shape
<1>6. Agree'
  <2>1. [b EXCEPT !.lastTime = b.lastTime] = b /\ b.lastTime \in Nat
    BY <1>2 DEF Formed, AppFields
  <2> QED BY <1>3, <2>1 DEF Agree
<1>7. Memory'
  <2>1. b.lastTime \in Nat
    BY <1>2 DEF Formed
  <2> QED BY <1>3, <2>1, VaultConstants DEF Memory
<1>8. Checked(app')
  BY <1>3, ValidIsChecked
<1>9. Known(app)' /\ (backup # None => Known(backup))'
  BY <1>1, <1>2, <1>3 DEF Known
<1>10. Vouched(app)' /\ (backup # None => Vouched(backup))'
  BY <1>1, <1>2, <1>3 DEF Vouched, GrantVouched
<1>11. Renewed'
  BY <1>2, <1>3 DEF Renewed
<1>12. Registered'
  BY <1>2, <1>3 DEF VaultInv, Registered
<1>13. RegisterOnce'
  BY <1>3 DEF VaultInv, RegisterOnce
<1>14. Down' /\ InFlight' /\ RegistersAnew' /\ SentBefore' /\ DispatchBeforeExpiry'
  BY <1>3, <1>4 DEF Down, InFlight, RegistersAnew, SentBefore, DispatchBeforeExpiry
<1> QED BY <1>5, <1>6, <1>7, <1>8, <1>9, <1>10, <1>11, <1>12, <1>13, <1>14 DEF VaultInv

LEMMA ExportPreserves ==
    ASSUME VaultInv, ExportBackup
    PROVE  VaultInv'
<1>1. /\ backup' = app
      /\ UNCHANGED <<app, disk, now, up, flight, fresh, registered, sent, renewed>>
  BY DEF ExportBackup, history
<1> QED BY <1>1 DEF VaultInv, Shape, Agree, Memory, Idle, Down, Known, Vouched, InFlight, Renewed, Registered,
                    RegistersAnew, SentBefore, RegisterOnce, DispatchBeforeExpiry

LEMMA StillPreserves ==
    ASSUME VaultInv, now' \in Nat, UNCHANGED <<app, disk, up, flight, fresh, registered, sent, renewed, backup>>
    PROVE  VaultInv'
BY DEF VaultInv, Shape, Agree, Memory, Idle, Down, Known, Vouched, InFlight, Renewed, Registered,
       RegistersAnew, SentBefore, RegisterOnce, DispatchBeforeExpiry

LEMMA InitVault == Init => VaultInv
<1> SUFFICES ASSUME Init PROVE VaultInv
  OBVIOUS
<1> DEFINE a == NewApplication
<1>1. app = a /\ disk = a
  BY DEF Init
<1>2. /\ a = [f \in AppFields |-> a[f]] /\ a.lastTime = 0
      /\ DOMAIN a.tasks = {} /\ DOMAIN a.records = {} /\ DOMAIN a.grants = {} /\ DOMAIN a.requests = {}
      /\ DOMAIN a.deliveries = {} /\ DOMAIN a.baselines = {}
  BY DEF NewApplication, EmptyMap, AppFields
<1>3. Formed(a)
  <2>1. IsFiniteSet(DOMAIN a.tasks)
    BY <1>2, FS_EmptySet
  <2> HIDE DEF a
  <2> QED BY <1>2, <2>1 DEF Formed
<1>4. [a EXCEPT !.lastTime = a.lastTime] = a
  <2> HIDE DEF a
  <2> QED BY <1>2 DEF AppFields
<1> HIDE DEF a
<1>5. Shape /\ Agree
  BY <1>1, <1>2, <1>3, <1>4 DEF Init, Shape, Agree
<1>6. Memory /\ Down /\ InFlight /\ RegistersAnew /\ SentBefore /\ DispatchBeforeExpiry
  BY <1>1, <1>2 DEF Init, Memory, Down, InFlight, RegistersAnew, SentBefore, DispatchBeforeExpiry
<1>7. Checked(app) /\ Known(app) /\ Vouched(app) /\ Renewed
  BY <1>1, <1>2 DEF Checked, Known, Vouched, Renewed
<1>8. Registered /\ RegisterOnce /\ backup = None
  BY DEF Init, Registered, RegisterOnce
<1> QED BY <1>5, <1>6, <1>7, <1>8 DEF VaultInv

LEMMA NextVault ==
    ASSUME VaultInv, [Next]_vars
    PROVE  VaultInv'
<1>1. CASE Supervise
  BY <1>1, ApprovePreserves, RevokePreserves DEF Supervise
<1>2. CASE Agent
  <2>1. CASE Observe
    BY <2>1, ObservePreserves
  <2>2. ASSUME NEW ctx \in Contexts, NEW tid \in TasksOf(ctx), NEW op \in Mutations, NEW request \in Requests,
               MutateStep(Clocked, ctx, tid, request, op)
        PROVE  VaultInv'
    BY <2>2, MutatePreserves
  <2>3. ASSUME NEW ctx \in Contexts, NEW tid \in TasksOf(ctx), NEW rid \in DOMAIN app.records, NEW read \in Reads,
               ReadStep(Clocked, ctx, tid, rid, read)
        PROVE  VaultInv'
    BY <2>3, ReadPreserves
  <2>4. ASSUME NEW ctx \in Contexts, NEW tid \in TasksOf(ctx), NEW rid \in DOMAIN app.records,
               NEW request \in Requests, NEW use \in Uses, Prepare(Clocked, ctx, tid, rid, request, use)
        PROVE  VaultInv'
    BY <2>4, PreparePreserves
  <2> QED BY <1>2, <2>1, <2>2, <2>3, <2>4 DEF Agent
<1>3. CASE Delivery
  BY <1>3, HandoffPreserves, RefusePreserves, CompletePreserves DEF Delivery
<1>4. CASE Crash \/ Open \/ Recover \/ ExportBackup \/ Restore
  BY <1>4, CrashPreserves, OpenPreserves, RecoverPreserves, ExportPreserves, RestorePreserves
<1>5. CASE Tick \/ StepBack
  <2>1. now \in Nat
    BY DEF VaultInv, Shape
  <2>2. now' \in Nat /\ UNCHANGED <<app, disk, up, flight, fresh, registered, sent, renewed, backup>>
    BY <1>5, <2>1 DEF Tick, StepBack, owner, history
  <2> QED BY <2>2, StillPreserves
<1>6. CASE UNCHANGED vars
  <2>1. now' \in Nat /\ UNCHANGED <<app, disk, up, flight, fresh, registered, sent, renewed, backup>>
    BY <1>6 DEF vars, VaultInv, Shape
  <2> QED BY <2>1, StillPreserves
<1> QED BY <1>1, <1>2, <1>3, <1>4, <1>5, <1>6 DEF Next

-----------------------------------------------------------------------------
(* What holds always.                                                      *)

\* storage.rs and agent/: the invariant above, in every reachable state.
THEOREM VaultInvariant == Spec => []VaultInv
<1>1. VaultInv /\ [Next]_vars => VaultInv'
  BY NextVault
<1> QED BY InitVault, <1>1, PTL DEF Spec

\* storage.rs:337-368: between calls the owner's memory differs from the
\* published image only by a clock advance too small to be persisted, for any
\* persist interval and however the clock moves.
THEOREM MemoryAgreesWithDisk == Spec => []MemoryIsDisk
<1>1. VaultInv => MemoryIsDisk
  BY DEF VaultInv, Agree, Memory, MemoryIsDisk
<1> QED BY VaultInvariant, <1>1, PTL

\* workflow.rs:45-67: no secret is handed over once the task or the session that
\* asked for it has expired.
THEOREM HandoffsAreTimely == Spec => []DispatchBeforeExpiry
<1>1. VaultInv => DispatchBeforeExpiry
  BY DEF VaultInv
<1> QED BY VaultInvariant, <1>1, PTL

\* workflow.rs:31-33, snapshot.rs:327-343, backup.rs:15: a record's registration
\* reaches its destination at most once, over any number of crashes, recoveries,
\* compactions and restores.
THEOREM RegistersOnce == Spec => []RegisterOnce
<1>1. VaultInv => RegisterOnce
  BY DEF VaultInv
<1> QED BY VaultInvariant, <1>1, PTL

\* recovery.rs:110-124, backup.rs:10-26: after a recovery or a restore only
\* tasks approved since then read, and only through grants issued since then.
THEOREM AuthorityMustBeRenewed == Spec => []AuthorityIsRenewed
<1>1. ASSUME VaultInv PROVE AuthorityIsRenewed
  <2> SUFFICES ASSUME NEW x \in Readers
               PROVE  /\ x.task \in renewed
                      /\ \/ app.records[x.record].task = x.task
                         \/ \E g \in Values(app.grants) :
                              g.record = x.record /\ ~g.revoked /\ g.issuerTask \in renewed
    BY DEF AuthorityIsRenewed
  <2> DEFINE at == EffectiveTime(app, now)
  <2>1. Select(app, x.ctx, x.task, x.record, {"password"}, "secret_read", {}, at)
    BY DEF Readers
  <2>2. x.task \in DOMAIN app.tasks /\ x.task \notin app.revokedTasks
    BY <2>1 DEF Select, TaskAdmits
  <2>3. Can(app, x.ctx, x.task, x.record, "secret_read", {"password"}, {}, at)
    BY <2>1 DEF Select
  <2>4. \/ app.records[x.record].task = x.task
        \/ \E g \in Values(app.grants) :
             GrantAdmits(app, g, x.ctx, x.record, "secret_read", {"password"}, {}, at)
    BY <2>3 DEF Can
  <2>5. ASSUME NEW g \in Values(app.grants),
               GrantAdmits(app, g, x.ctx, x.record, "secret_read", {"password"}, {}, at)
        PROVE  g.record = x.record /\ ~g.revoked /\ g.issuerTask \in renewed
    BY <1>1, <2>5 DEF GrantAdmits, IssuerAlive, VaultInv, Renewed
  <2> QED BY <1>1, <2>2, <2>4, <2>5 DEF VaultInv, Renewed
<1> QED BY VaultInvariant, <1>1, PTL

\* mod.rs:558-571: who reads another's record does so while the creator's or a
\* human's task that shared it is alive, and never a deleted record.
THEOREM DelegatesNeedAnIssuer == Spec => []DelegateNeedsIssuer
<1>1. ASSUME VaultInv PROVE DelegateNeedsIssuer
  <2> DEFINE at == EffectiveTime(app, now)
  <2> SUFFICES ASSUME NEW x \in Readers, app.records[x.record].task # x.task
               PROVE  LET r == app.records[x.record] IN
                      /\ ~r.deleted
                      /\ \E tid \in DOMAIN app.tasks \ app.revokedTasks :
                            /\ at < app.tasks[tid].expiresAt
                            /\ tid = r.task \/ \E ctx \in Contexts : ctx.admin /\ ctx.principal = app.tasks[tid].principal
    BY DEF DelegateNeedsIssuer
  <2>1. Select(app, x.ctx, x.task, x.record, {"password"}, "secret_read", {}, at)
    BY DEF Readers
  <2> HIDE DEF at
  <2>2. x.record \in DOMAIN app.records /\ ~app.records[x.record].deleted
    BY <2>1 DEF Select, LiveRecord
  <2>3. Can(app, x.ctx, x.task, x.record, "secret_read", {"password"}, {}, at)
    BY <2>1 DEF Select
  <2>4. PICK g \in DOMAIN app.grants :
             GrantAdmits(app, app.grants[g], x.ctx, x.record, "secret_read", {"password"}, {}, at)
    BY <2>3 DEF Can, Values
  <2> DEFINE tid == app.grants[g].issuerTask
  <2>5. /\ app.grants[g].record = x.record
        /\ tid \in DOMAIN app.tasks \ app.revokedTasks /\ at < app.tasks[tid].expiresAt
    BY <2>4 DEF GrantAdmits, IssuerAlive
  <2>6. ~app.grants[g].adminIssued => tid = app.records[x.record].task
    BY <1>1, <2>5 DEF VaultInv, Checked
  <2>7. app.grants[g].adminIssued =>
            \E ctx \in Contexts : ctx.admin /\ ctx.principal = app.tasks[tid].principal
    BY <1>1 DEF VaultInv, Vouched, GrantVouched
  <2> HIDE DEF tid
  <2> QED BY <2>2, <2>5, <2>6, <2>7
<1> QED BY VaultInvariant, <1>1, PTL

\* README.md:15, snapshot.rs:281-379: after a quiet retry window one compaction
\* leaves no receipt, no delivery, no grant that ended, no deleted record and at
\* most one task that ended and nothing names, so that the collections can keep
\* accepting work.
THEOREM HistoryGetsFreed == Spec => []HistoryIsFreed
<1>1. ASSUME VaultInv PROVE HistoryIsFreed
  <2> SUFFICES ASSUME Outdated(app), ShouldCompact(app)
               PROVE  LET a == Staged IN
                      /\ DOMAIN a.requests = {} /\ DOMAIN a.deliveries = {}
                      /\ \A g \in Values(a.grants) : ~Over(a, g)
                      /\ \A r \in Values(a.records) : ~r.deleted
                      /\ Cardinality({tid \in DOMAIN a.tasks : Ended(a, tid) /\ ~Referenced(a, tid)}) <= 1
    BY DEF HistoryIsFreed, Over, Ended
  <2>1. Staged = Compact(app)
    BY DEF Staged
  <2>2. Formed(app) /\ Checked(app)
    BY <1>1 DEF VaultInv, Shape
  <2> QED BY <2>1, <2>2, CompactFrees DEF Values
<1> QED BY VaultInvariant, <1>1, PTL

-----------------------------------------------------------------------------
(* The high-water mark.                                                    *)

\* A call that commits leaves neither clock behind.
LEMMA CommitAdvances ==
    ASSUME VaultInv, NEW c, Formed(c), app.lastTime <= c.lastTime, Commit(c)
    PROVE  /\ app.lastTime <= app'.lastTime /\ disk.lastTime <= disk'.lastTime
           /\ app.lastTime <= now /\ c.lastTime <= now => app'.lastTime <= now
<1>1. Shape /\ Agree
  BY DEF VaultInv
<1>2. app.lastTime \in Nat /\ disk.lastTime \in Nat /\ c.lastTime \in Nat /\ disk.lastTime <= app.lastTime
  BY <1>1 DEF Shape, Formed, Agree
<1>3. /\ Formed(app') /\ Formed(disk') /\ app.lastTime <= app'.lastTime
      /\ \/ app' = disk' /\ app'.lastTime = c.lastTime
         \/ disk' = disk /\ app'.lastTime = c.lastTime
         \/ disk' = disk /\ app' = app
  BY <1>1, CommitCases
<1>4. app'.lastTime \in Nat /\ disk'.lastTime \in Nat
  BY <1>3 DEF Formed
<1> QED BY <1>2, <1>3, <1>4

\* The steps of an owner that is open, up to the end of a private use.
LEMMA OwnerAdvances ==
    ASSUME VaultInv, Supervise \/ Agent \/ Delivery
    PROVE  /\ app.lastTime <= app'.lastTime /\ disk.lastTime <= disk'.lastTime
           /\ now' = now /\ backup' = backup
           /\ app.lastTime <= now => app'.lastTime <= now
<1>1. Shape /\ Checked(app) /\ now \in Nat /\ Formed(app) /\ disk.lastTime \in Nat
  BY DEF VaultInv, Shape, Formed
<1>2. ASSUME NEW c, NEW T, NEW N, Stages(c, T, N)
      PROVE  /\ app.lastTime <= app'.lastTime /\ disk.lastTime <= disk'.lastTime
             /\ app.lastTime <= now => app'.lastTime <= now
  <2>1. app.lastTime <= now => c.lastTime <= now
    BY <1>1, <1>2, ClockedKeeps DEF Stages
  <2> QED BY <1>2, <2>1, CommitAdvances DEF Stages
<1>3. CASE Supervise
  <2>1. ASSUME NEW ctx \in Contexts, NEW approval \in Approvals, Approve(ctx, approval.id, approval.task)
        PROVE  \E c, T, N : Stages(c, T, N)
    BY <2>1, ApproveStages
  <2>2. ASSUME NEW ctx \in Contexts, NEW tid \in DOMAIN app.tasks, Revoke(ctx, tid)
        PROVE  \E c, T, N : Stages(c, T, N)
    BY <2>2, RevokeStages
  <2>3. \E c, T, N : Stages(c, T, N)
    BY <1>3, <2>1, <2>2 DEF Supervise
  <2>4. now' = now /\ backup' = backup
    BY <1>3 DEF Supervise, Approve, Revoke
  <2> QED BY <1>2, <2>3, <2>4
<1>4. CASE Agent
  <2>1. ASSUME Observe PROVE \E c, T, N : Stages(c, T, N)
    BY <2>1, ObserveStages
  <2>2. ASSUME NEW ctx \in Contexts, NEW tid, NEW op, NEW request, MutateStep(Clocked, ctx, tid, request, op)
        PROVE  \E c, T, N : Stages(c, T, N)
    BY <2>2, MutateFacts
  <2>3. ASSUME NEW ctx, NEW tid, NEW rid, NEW read, ReadStep(Clocked, ctx, tid, rid, read)
        PROVE  \E c, T, N : Stages(c, T, N)
    BY <2>3, ReadStages
  <2>4. ASSUME NEW ctx, NEW tid, NEW rid, NEW request, NEW use, Prepare(Clocked, ctx, tid, rid, request, use)
        PROVE  \E c, T, N : Stages(c, T, N)
    BY <2>4, PrepareFacts
  <2>5. \E c, T, N : Stages(c, T, N)
    BY <1>4, <2>1, <2>2, <2>3, <2>4 DEF Agent
  <2>6. now' = now /\ backup' = backup
    BY <1>4 DEF Agent, Observe, MutateStep, ReadStep, Prepare
  <2> QED BY <1>2, <2>5, <2>6
<1>5. CASE Delivery
  <2>1. CASE Handoff
    <3>1. app.lastTime <= app'.lastTime /\ (app.lastTime <= now => app'.lastTime <= now)
      BY <1>1, <2>1, ClockKeeps DEF Handoff
    <3>2. disk' = disk /\ now' = now /\ backup' = backup
      BY <2>1 DEF Handoff
    <3> QED BY <1>1, <3>1, <3>2
  <2>2. CASE Refuse
    <3>1. PICK c : Formed(c) /\ app.lastTime <= c.lastTime /\ Finish(c) /\ (app.lastTime <= now => c.lastTime <= now)
      BY <2>2, RefuseFacts
    <3>2. now' = now /\ backup' = backup
      BY <2>2 DEF Refuse
    <3> QED BY <3>1, <3>2, CommitAdvances DEF Finish
  <2>3. ASSUME NEW status \in Statuses, Complete(status)
        PROVE  /\ app.lastTime <= app'.lastTime /\ disk.lastTime <= disk'.lastTime
               /\ now' = now /\ backup' = backup
               /\ app.lastTime <= now => app'.lastTime <= now
    <3>1. PICK c : Formed(c) /\ app.lastTime <= c.lastTime /\ Finish(c) /\ c.lastTime = app.lastTime
      BY <2>3, CompleteFacts
    <3>2. now' = now /\ backup' = backup
      BY <2>3 DEF Complete
    <3> QED BY <3>1, <3>2, CommitAdvances DEF Finish
  <2> QED BY <1>5, <2>1, <2>2, <2>3 DEF Delivery
<1> QED BY <1>3, <1>4, <1>5

\* mod.rs:489-496, storage.rs:337-350: outside of human recovery and restore the
\* high-water mark goes back only by a restart, and then by less than the
\* persist interval, or leaving a delivery that only recovery settles.
THEOREM HighWaterIsKept == Spec => HighWaterKept
<1> DEFINE Reset == ~up /\ up' /\ last' \in {"recovered", "restored"}
           Restarted == up /\ ~up' /\ (app.lastTime < app'.lastTime + ClockPersistInterval \/ Unfinished(disk))
<1>1. ASSUME VaultInv, [Next]_vars PROVE app'.lastTime < app.lastTime => Reset \/ Restarted
  <2>1. Shape /\ Agree /\ app.lastTime \in Nat /\ disk.lastTime \in Nat
    BY <1>1 DEF VaultInv, Shape, Formed
  <2>2. CASE Supervise \/ Agent \/ Delivery
    <3>1. app.lastTime <= app'.lastTime /\ Formed(app')
      BY <1>1, <2>2, OwnerAdvances, NextVault DEF VaultInv, Shape
    <3> QED BY <2>1, <3>1 DEF Formed
  <2>3. CASE Crash
    <3>1. up /\ ~up' /\ app' = disk
      BY <2>3 DEF Crash
    <3>2. CASE flight = None
      BY <1>1, <2>1, <3>1, <3>2, VaultConstants DEF VaultInv, Memory, Idle
    <3>3. CASE flight # None
      <4>1. flight.id \in DOMAIN disk.deliveries /\ disk.deliveries[flight.id].status = None
        BY <1>1, <2>1, <3>3, AgreeIsLike DEF VaultInv, InFlight, Like
      <4> QED BY <3>1, <4>1 DEF Unfinished, Values
    <3> QED BY <3>2, <3>3
  <2>4. CASE Open
    BY <1>1, <2>1, <2>4 DEF Open, VaultInv, Down
  <2>5. CASE Recover \/ Restore
    BY <2>5 DEF Recover, Restore
  <2>6. CASE app' = app
    BY <2>1, <2>6
  <2>7. ExportBackup \/ Tick \/ StepBack \/ UNCHANGED vars => app' = app
    BY DEF ExportBackup, Tick, StepBack, owner, vars
  <2> QED BY <1>1, <2>2, <2>3, <2>4, <2>5, <2>6, <2>7 DEF Next
<1>2. VaultInv /\ [Next]_vars => [app'.lastTime < app.lastTime => Reset \/ Restarted]_vars
  BY <1>1
<1> QED BY VaultInvariant, <1>2, PTL DEF Spec, HighWaterKept

-----------------------------------------------------------------------------
(* What was done stays on record, while the trusted clock never steps back. *)

\* What a step of this store makes of its receipts and deliveries: S are the
\* deliveries it settles.
Moves(S) ==
    /\ Formed(app') /\ disk.lastTime <= disk'.lastTime /\ now <= now' /\ app'.lastTime <= now'
    /\ backup' # None => backup'.lastTime <= now'
    /\ \/ Like(app, app')
       \/ /\ app'.lastTime = disk'.lastTime
          /\ \A d \in DOMAIN app.deliveries : AttemptCarried(app, app', d, S)
          /\ \A k \in DOMAIN app.requests : ReceiptCarried(app, app', k)

LEMMA MovesAccount ==
    ASSUME VaultInv, ClockInv, Formed(disk'), NEW S, Moves(S), NEW w \in work
    PROVE  Accounted(w)'
<1>1. Accounted(w) /\ w.at \in Nat /\ Formed(app)
  BY DEF ClockInv, Accounted, VaultInv, Shape
<1>2. disk.lastTime \in Nat /\ disk'.lastTime \in Nat /\ disk.lastTime <= disk'.lastTime /\ RetryWindow \in Nat
  BY SnapshotConstants DEF VaultInv, Shape, Formed, Moves
<1>3. CASE w.at + RetryWindow <= disk.lastTime
  BY <1>1, <1>2, <1>3 DEF Accounted
<1>4. CASE Like(app, app')
  BY <1>1, <1>3, <1>4 DEF Accounted, Receipted, Attempted, Like
<1>5. CASE /\ app'.lastTime = disk'.lastTime
           /\ \A d \in DOMAIN app.deliveries : AttemptCarried(app, app', d, S)
           /\ \A k \in DOMAIN app.requests : ReceiptCarried(app, app', k)
  <2>1. CASE Receipted(w)
    BY <1>1, <1>5, <2>1 DEF Receipted, ReceiptCarried, Accounted
  <2>2. CASE Attempted(w)
    <3>1. PICK d \in DOMAIN app.deliveries : app.deliveries[d].key = w.key /\ app.deliveries[d].at = w.at
      BY <2>2 DEF Attempted
    <3>2. AttemptCarried(app, app', d, S)
      BY <1>5
    <3> QED BY <1>1, <1>5, <2>2, <3>1, <3>2 DEF Attempted, AttemptCarried, Accounted
  <2> QED BY <1>1, <1>3, <2>1, <2>2 DEF Accounted
<1> QED BY <1>4, <1>5 DEF Moves

LEMMA MovesKeepSent ==
    ASSUME VaultInv, ClockInv, Formed(disk'), NEW S, Moves(S), sent' = sent, sent # None,
           \A d \in S : flight # None /\ ~flight.handed /\ d = flight.id
    PROVE  SentKept'
<1> DEFINE id == sent.id
<1>1. /\ sent.preparedAt \in Nat
      /\ \/ id \in DOMAIN app.deliveries /\ app.deliveries[id].dispatched /\ app.deliveries[id].at = sent.preparedAt
         \/ sent.preparedAt + RetryWindow <= disk.lastTime
  BY DEF ClockInv, SentKept
<1>2. disk.lastTime \in Nat /\ disk'.lastTime \in Nat /\ disk.lastTime <= disk'.lastTime /\ RetryWindow \in Nat
  BY SnapshotConstants DEF VaultInv, Shape, Formed, Moves
<1>3. CASE sent.preparedAt + RetryWindow <= disk.lastTime
  BY <1>1, <1>2, <1>3 DEF SentKept
<1>4. id \notin S
  BY DEF VaultInv, SentBefore
<1> HIDE DEF id
<1>5. CASE id \in DOMAIN app.deliveries /\ app.deliveries[id].dispatched /\ app.deliveries[id].at = sent.preparedAt
  <2>1. CASE Like(app, app')
    BY <1>1, <1>5, <2>1 DEF SentKept, Like, id
  <2>2. CASE /\ app'.lastTime = disk'.lastTime
             /\ \A d \in DOMAIN app.deliveries : AttemptCarried(app, app', d, S)
    <3>1. AttemptCarried(app, app', id, S)
      BY <1>5, <2>2
    <3> QED BY <1>1, <1>4, <1>5, <2>2, <3>1 DEF AttemptCarried, SentKept, id
  <2> QED BY <2>1, <2>2 DEF Moves
<1> QED BY <1>1, <1>3, <1>5

\* A step that does no work and hands nothing over.
LEMMA MovesPreserve ==
    ASSUME VaultInv, ClockInv, Formed(disk'), NEW S, Moves(S), UNCHANGED <<work, sent>>,
           \A d \in S : flight # None /\ ~flight.handed /\ d = flight.id, FlightIsNew'
    PROVE  ClockInv'
<1>1. Timely'
  BY DEF Moves, Timely
<1>2. \A w \in work' : Accounted(w)'
  BY MovesAccount
<1>3. SentKept'
  BY MovesKeepSent DEF SentKept
<1>4. AtMostOncePerWindow'
  BY DEF ClockInv, AtMostOncePerWindow
<1> QED BY <1>1, <1>2, <1>3, <1>4 DEF ClockInv

LEMMA StagesMove ==
    ASSUME VaultInv, ClockInv, NEW c, NEW T, NEW N, Stages(c, T, N), UNCHANGED <<now, backup>>
    PROVE  /\ Moves({}) /\ Formed(disk')
           /\ last' = "published" => Like(c, app')
<1>1. Shape /\ Agree /\ Checked(app) /\ Timely /\ now \in Nat
  BY DEF VaultInv, ClockInv, Shape
<1>2. c.lastTime <= now
  BY <1>1, ClockedKeeps DEF Stages, Timely
<1>3. disk.lastTime <= disk'.lastTime /\ app'.lastTime <= now
  BY <1>1, <1>2, CommitAdvances DEF Stages, Timely
<1>4. /\ Formed(app') /\ Formed(disk')
      /\ \/ last' = "published" /\ app' = disk' /\ Like(c, app') /\ app'.lastTime = c.lastTime
         \/ last' = "memory" /\ Like(app, app')
         \/ last' = "invalid" /\ app' = app
  BY <1>1, CommitCases DEF Stages
<1>5. ASSUME last' = "published"
      PROVE  /\ app'.lastTime = disk'.lastTime
             /\ \A d \in DOMAIN app.deliveries : AttemptCarried(app, app', d, {})
             /\ \A k \in DOMAIN app.requests : ReceiptCarried(app, app', k)
  BY <1>4, <1>5 DEF Stages, Carries, Like, AttemptCarried, ReceiptCarried
<1>6. last' # "published" => Like(app, app')
  BY <1>4 DEF Like
<1>7. now <= now' /\ app'.lastTime <= now' /\ (backup' # None => backup'.lastTime <= now')
  BY <1>1, <1>3 DEF Timely
<1>8. Moves({})
  BY <1>3, <1>4, <1>5, <1>6, <1>7 DEF Moves
<1> QED BY <1>4, <1>8

\* mod.rs:664-671, workflow.rs:31-44: an identifier that is new did its last
\* work a full retry window ago.
LEMMA NewIsOutlived ==
    ASSUME VaultInv, ClockInv, ClockAccepts(app, now), NEW key, key \notin DOMAIN Clocked.requests,
           \A d \in Values(Clocked.deliveries) : d.key # key
    PROVE  Outlived(key, Effective)
<1> SUFFICES ASSUME NEW w \in work, w.key = key PROVE w.at + RetryWindow <= Effective
  BY DEF Outlived
<1>1. /\ Keeps(app, Clocked) /\ Clocked.lastTime = Effective /\ Effective \in Nat /\ app.lastTime <= Effective
      /\ app.lastTime \in Nat /\ disk.lastTime \in Nat /\ disk.lastTime <= app.lastTime
  BY ClockedKeeps DEF VaultInv, Shape, Formed, Agree
<1>2. Accounted(w) /\ w.at \in Nat /\ RetryWindow \in Nat
  BY SnapshotConstants DEF ClockInv, Accounted
<1>3. CASE Receipted(w)
  <2>1. ReceiptCarried(app, Clocked, key)
    BY <1>1, <1>3 DEF Receipted, Keeps, Carries
  <2> QED BY <1>1, <1>3, <2>1 DEF Receipted, ReceiptCarried
<1>4. CASE Attempted(w)
  <2>1. PICK d \in DOMAIN app.deliveries : app.deliveries[d].key = key /\ app.deliveries[d].at = w.at
    BY <1>4 DEF Attempted
  <2>2. AttemptCarried(app, Clocked, d, {})
    BY <1>1 DEF Keeps, Carries
  <2>3. d \in DOMAIN Clocked.deliveries => Clocked.deliveries[d].key # key
    BY DEF Values
  <2> QED BY <1>1, <2>1, <2>2, <2>3 DEF AttemptCarried
<1>5. CASE w.at + RetryWindow <= disk.lastTime
  BY <1>1, <1>2, <1>5
<1> QED BY <1>2, <1>3, <1>4, <1>5 DEF Accounted

LEMMA MutateClock ==
    ASSUME VaultInv, ClockInv, NEW ctx \in Contexts, NEW tid, NEW request, NEW op,
           MutateStep(Clocked, ctx, tid, request, op)
    PROVE  ClockInv'
<1> DEFINE c == Mutate(Clocked, ctx, tid, request, op, Effective, fresh)
           key == RequestKey(ctx, tid, request)
<1>1. /\ Stages(c, {}, Drawn(op, fresh)) /\ key \in DOMAIN c.requests
      /\ c.requests[key].at = Effective /\ c.requests[key].fingerprint = op
  BY MutateFacts
<1>2. PICK v : v = [ctx |-> ctx, key |-> key, op |-> op, at |-> Effective, n |-> fresh]
  OBVIOUS
<1>3. /\ Idle /\ UNCHANGED <<now, flight, backup, sent>>
      /\ work' = IF last' = "published" THEN work \cup {v} ELSE work
  BY <1>2 DEF MutateStep
<1>4. Outlived(key, Effective)
  BY NewIsOutlived DEF MutateStep, Performable, MutationAdmitted
<1>5. v.key = key /\ v.at = Effective /\ v.op = op
  BY <1>2
<1>6. Effective \in Nat
  BY ClockedReady
<1> HIDE DEF c, key
<1>7. Moves({}) /\ Formed(disk') /\ (last' = "published" => Like(c, app'))
  BY <1>1, <1>3, StagesMove
<1>8. FlightIsNew'
  BY <1>3 DEF FlightIsNew, Idle
<1>9. CASE last' # "published"
  BY <1>3, <1>7, <1>8, <1>9, MovesPreserve
<1>10. CASE last' = "published"
  <2>1. work' = work \cup {v}
    BY <1>3, <1>10
  <2>2. Timely'
    BY <1>7 DEF Moves, Timely
  <2>3. Accounted(v)'
    BY <1>1, <1>5, <1>6, <1>7, <1>10 DEF Accounted, Receipted, Like
  <2>4. \A w \in work' : Accounted(w)'
    BY <1>7, <2>1, <2>3, MovesAccount
  <2>5. SentKept'
    BY <1>3, <1>7, MovesKeepSent DEF SentKept
  <2>6. AtMostOncePerWindow'
    BY <1>4, <1>5, <2>1 DEF ClockInv, AtMostOncePerWindow, Outlived
  <2> QED BY <1>8, <2>2, <2>4, <2>5, <2>6 DEF ClockInv
<1> QED BY <1>9, <1>10

LEMMA PrepareClock ==
    ASSUME VaultInv, ClockInv, NEW ctx, NEW tid, NEW rid, NEW request, NEW use,
           Prepare(Clocked, ctx, tid, rid, request, use)
    PROVE  ClockInv'
<1> DEFINE c == Intend(Clocked, ctx, tid, rid, request, use, Effective)
           key == RequestKey(ctx, tid, request)
<1>1. /\ Stages(c, {}, {fresh}) /\ fresh \in DOMAIN c.deliveries
      /\ c.deliveries[fresh].key = key /\ c.deliveries[fresh].at = Effective
  <2>1. /\ Stages(c, {}, {fresh}) /\ fresh \in DOMAIN c.deliveries
        /\ Intended(c.deliveries[fresh], ctx, tid, rid, request, use, Effective)
    BY PrepareFacts
  <2> HIDE DEF c
  <2> QED BY <2>1 DEF Intended
<1>2. Idle /\ UNCHANGED <<now, backup, work, sent>>
  BY DEF Prepare, history
<1>3. Outlived(key, Effective)
  BY NewIsOutlived DEF Prepare, UseIsNew
<1> HIDE DEF c, key
<1>4. Moves({}) /\ Formed(disk') /\ (last' = "published" => Like(c, app'))
  BY <1>1, <1>2, StagesMove
<1>5. FlightIsNew'
  <2>1. CASE last' # "published"
    BY <1>2, <2>1 DEF Prepare, FlightIsNew, Idle
  <2>2. CASE last' = "published"
    <3>1. flight'.id = fresh
      BY <2>2 DEF Prepare
    <3> QED BY <1>1, <1>2, <1>3, <1>4, <2>2, <3>1 DEF FlightIsNew, Outlived, Like
  <2> QED BY <2>1, <2>2
<1> QED BY <1>2, <1>4, <1>5, MovesPreserve

LEMMA HandoffClock ==
    ASSUME VaultInv, ClockInv, Handoff
    PROVE  ClockInv'
<1> DEFINE attempt == app.deliveries[flight.id]
<1>0. PICK v : v = [ctx |-> flight.ctx, key |-> attempt.key, op |-> None, at |-> attempt.at, n |-> flight.id]
  OBVIOUS
<1>1. /\ flight # None /\ ~flight.handed /\ flight \in Flights
      /\ flight.id \in DOMAIN app.deliveries /\ attempt.dispatched
  BY DEF Handoff, VaultInv, InFlight
<1>2. /\ Formed(app) /\ Formed(disk) /\ now \in Nat /\ disk.lastTime \in Nat /\ app.lastTime <= now
      /\ (backup # None => backup.lastTime <= now)
  BY DEF VaultInv, ClockInv, Shape, Timely, Formed
<1>3. UNCHANGED <<disk, now, backup>> /\ work' = work \cup {v}
  BY <1>0 DEF Handoff
<1>4. sent'.id = flight.id /\ sent'.preparedAt = attempt.at
  BY DEF Handoff
<1>5. flight'.handed = TRUE
  BY <1>1 DEF Handoff, Flights
<1>6. Formed(app') /\ Like(app, app') /\ app'.lastTime <= now
  BY <1>2, ClockKeeps DEF Handoff
<1>7. Moves({})
  BY <1>2, <1>3, <1>6 DEF Moves
<1>8. v.key = attempt.key /\ v.at = attempt.at /\ v.op = None
  BY <1>0
<1>9. attempt.at \in Nat
  BY <1>1, <1>2 DEF Formed
<1>10. Outlived(attempt.key, attempt.at)
  BY <1>1 DEF ClockInv, FlightIsNew
<1>11. app'.deliveries = app.deliveries
  BY <1>6 DEF Like
<1>12. Accounted(v)'
  BY <1>1, <1>8, <1>9, <1>11 DEF Accounted, Attempted
<1>13. \A w \in work' : Accounted(w)'
  BY <1>2, <1>3, <1>7, <1>12, MovesAccount
<1>14. SentKept'
  BY <1>1, <1>4, <1>9, <1>11 DEF SentKept
<1>15. Timely' /\ FlightIsNew'
  BY <1>2, <1>3, <1>5, <1>6 DEF Timely, FlightIsNew
<1>16. AtMostOncePerWindow'
  BY <1>3, <1>8, <1>10 DEF ClockInv, AtMostOncePerWindow, Outlived
<1> QED BY <1>13, <1>14, <1>15, <1>16 DEF ClockInv

LEMMA FinishClock ==
    ASSUME VaultInv, ClockInv, NEW c, Formed(c), app.lastTime <= c.lastTime, c.lastTime <= now, Finish(c),
           NEW S, Carries(app, c, {}, {}, S),
           \A d \in S : flight # None /\ ~flight.handed /\ d = flight.id,
           UNCHANGED <<now, backup, work, sent>>
    PROVE  ClockInv'
<1>1. Shape /\ Agree /\ Timely /\ now \in Nat /\ Commit(c) /\ flight' = None
  BY DEF VaultInv, ClockInv, Shape, Finish
<1>2. disk.lastTime <= disk'.lastTime /\ app'.lastTime <= now
  BY <1>1, CommitAdvances DEF Timely
<1>3. /\ Formed(app') /\ Formed(disk')
      /\ \/ app' = disk' /\ Like(c, app') /\ app'.lastTime = c.lastTime
         \/ Like(app, app')
         \/ app' = app
  BY <1>1, CommitCases
<1>4. app' = disk' /\ Like(c, app') /\ app'.lastTime = c.lastTime =>
        /\ app'.lastTime = disk'.lastTime
        /\ \A d \in DOMAIN app.deliveries : AttemptCarried(app, app', d, S)
        /\ \A k \in DOMAIN app.requests : ReceiptCarried(app, app', k)
  BY DEF Carries, Like, AttemptCarried, ReceiptCarried
<1>5. app' = app => Like(app, app')
  BY DEF Like
<1>6. now <= now' /\ app'.lastTime <= now' /\ (backup' # None => backup'.lastTime <= now')
  BY <1>1, <1>2 DEF Timely
<1>7. Moves(S)
  BY <1>2, <1>3, <1>4, <1>5, <1>6 DEF Moves
<1>8. FlightIsNew'
  BY <1>1 DEF FlightIsNew
<1> QED BY <1>3, <1>7, <1>8, MovesPreserve

LEMMA ReloadClock ==
    ASSUME VaultInv, ClockInv, app' = disk, flight' = None, UNCHANGED <<disk, now, backup, work, sent>>
    PROVE  ClockInv'
<1>1. /\ Formed(disk) /\ Shape /\ Agree /\ now \in Nat /\ disk.lastTime \in Nat /\ app.lastTime \in Nat
      /\ disk.lastTime <= app.lastTime /\ app.lastTime <= now /\ (backup # None => backup.lastTime <= now)
  BY DEF VaultInv, ClockInv, Shape, Agree, Timely, Formed
<1>2. Like(app, app')
  BY <1>1, AgreeIsLike
<1>3. Moves({})
  BY <1>1, <1>2 DEF Moves
<1>4. FlightIsNew'
  BY DEF FlightIsNew
<1> QED BY <1>1, <1>3, <1>4, MovesPreserve

LEMMA RecoverClock ==
    ASSUME VaultInv, ClockInv, Recover
    PROVE  ClockInv'
<1> DEFINE b == Sanitize(disk, now)
<1>1. /\ Shape /\ Agree /\ Formed(disk) /\ now \in Nat /\ disk.lastTime \in Nat /\ app.lastTime \in Nat
      /\ disk.lastTime <= app.lastTime /\ app.lastTime <= now /\ (backup # None => backup.lastTime <= now)
  BY DEF VaultInv, ClockInv, Shape, Agree, Timely, Formed
<1>2. Formed(b) /\ Carries(disk, b, {}, {}, {}) /\ b.lastTime = now
  BY <1>1, SanitizeCarries
<1>3. app' = b /\ disk' = b /\ ~up /\ UNCHANGED <<now, flight, backup, work, sent>>
  BY DEF Recover
<1> HIDE DEF b
<1>4. Like(app, disk)
  BY <1>1, AgreeIsLike
<1>5. /\ \A d \in DOMAIN app.deliveries : AttemptCarried(app, app', d, {})
      /\ \A k \in DOMAIN app.requests : ReceiptCarried(app, app', k)
  BY <1>2, <1>3, <1>4 DEF Like, Carries, AttemptCarried, ReceiptCarried
<1>6. Moves({})
  BY <1>1, <1>2, <1>3, <1>5 DEF Moves
<1>7. FlightIsNew'
  BY <1>3 DEF VaultInv, Down, FlightIsNew
<1> QED BY <1>2, <1>3, <1>6, <1>7, MovesPreserve

LEMMA RestoreClock ==
    ASSUME VaultInv, ClockInv, Restore
    PROVE  ClockInv'
<1> DEFINE b == PrepareRestored(backup, now)
<1>1. Formed(backup) /\ now \in Nat /\ backup # None /\ backup.lastTime <= now
  BY DEF VaultInv, ClockInv, Shape, Timely, Restore
<1>2. b.lastTime = now
  BY <1>1, RestoredFormed, ClockKeeps
<1>3. app' = b /\ ~up /\ work' = {} /\ sent' = None /\ UNCHANGED <<now, flight, backup>>
  BY DEF Restore
<1> HIDE DEF b
<1>4. Timely' /\ SentKept' /\ AtMostOncePerWindow'
  BY <1>1, <1>2, <1>3 DEF Timely, SentKept, AtMostOncePerWindow
<1>5. FlightIsNew'
  BY <1>3 DEF VaultInv, Down, FlightIsNew
<1> QED BY <1>3, <1>4, <1>5 DEF ClockInv

LEMMA StillClock ==
    ASSUME VaultInv, ClockInv, now' \in Nat, now <= now', backup' = backup \/ backup' = app,
           UNCHANGED <<app, disk, flight, work, sent>>
    PROVE  ClockInv'
<1>1. /\ Formed(app) /\ Formed(disk) /\ now \in Nat /\ app.lastTime \in Nat /\ disk.lastTime \in Nat
      /\ app.lastTime <= now
      /\ (backup # None => Formed(backup) /\ backup.lastTime <= now)
  BY DEF VaultInv, ClockInv, Shape, Timely, Formed
<1>2. app.lastTime <= now'
  BY <1>1
<1>3. backup # None => backup.lastTime \in Nat /\ backup.lastTime <= now'
  BY <1>1 DEF Formed
<1>4. Moves({})
  BY <1>1, <1>2, <1>3 DEF Moves, Like
<1>5. FlightIsNew'
  BY DEF ClockInv, FlightIsNew, Outlived
<1> QED BY <1>1, <1>4, <1>5, MovesPreserve

LEMMA InitClock == Init => ClockInv
<1> SUFFICES ASSUME Init PROVE ClockInv
  OBVIOUS
<1>1. app.lastTime = 0
  BY DEF Init, NewApplication
<1> QED BY <1>1 DEF Init, ClockInv, Timely, FlightIsNew, SentKept, AtMostOncePerWindow

LEMMA NextClock ==
    ASSUME ~ClockStepsBack, VaultInv, ClockInv, [Next]_vars
    PROVE  ClockInv'
<1>1. now \in Nat /\ app.lastTime <= now
  BY DEF VaultInv, ClockInv, Shape, Timely
<1>2. ASSUME NEW c, NEW T, NEW N, Stages(c, T, N), Idle, UNCHANGED <<now, backup, flight, work, sent>>
      PROVE  ClockInv'
  <2>1. Moves({}) /\ Formed(disk')
    BY <1>2, StagesMove
  <2>2. FlightIsNew'
    BY <1>2 DEF FlightIsNew, Idle
  <2> QED BY <1>2, <2>1, <2>2, MovesPreserve
<1>3. ASSUME NEW ctx \in Contexts, NEW approval \in Approvals, Approve(ctx, approval.id, approval.task)
      PROVE  ClockInv'
  <2>1. Idle /\ UNCHANGED <<now, backup, flight, work, sent>>
    BY <1>3 DEF Approve
  <2> QED BY <1>2, <1>3, <2>1, ApproveStages
<1>4. ASSUME NEW ctx \in Contexts, NEW tid \in DOMAIN app.tasks, Revoke(ctx, tid)
      PROVE  ClockInv'
  <2>1. Idle /\ UNCHANGED <<now, backup, flight, work, sent>>
    BY <1>4 DEF Revoke, history
  <2> QED BY <1>2, <1>4, <2>1, RevokeStages
<1>5. CASE Observe
  <2>1. Idle /\ UNCHANGED <<now, backup, flight, work, sent>>
    BY <1>5 DEF Observe, history
  <2> QED BY <1>2, <1>5, <2>1, ObserveStages
<1>6. ASSUME NEW ctx, NEW tid, NEW rid, NEW read, ReadStep(Clocked, ctx, tid, rid, read)
      PROVE  ClockInv'
  <2>1. Idle /\ UNCHANGED <<now, backup, flight, work, sent>>
    BY <1>6 DEF ReadStep, history
  <2> QED BY <1>2, <1>6, <2>1, ReadStages
<1>7. CASE Agent
  BY <1>5, <1>6, <1>7, MutateClock, PrepareClock DEF Agent
<1>8. CASE Refuse
  <2>1. PICK c : /\ Formed(c) /\ Carries(app, c, {}, {}, {flight.id}) /\ app.lastTime <= c.lastTime
                 /\ Finish(c) /\ c.lastTime <= now
    BY <1>1, <1>8, RefuseFacts
  <2>2. flight # None /\ ~flight.handed /\ UNCHANGED <<now, backup, work, sent>>
    BY <1>8 DEF Refuse, history
  <2> QED BY <2>1, <2>2, FinishClock
<1>9. ASSUME NEW status, Complete(status) PROVE ClockInv'
  <2>1. PICK c : /\ Formed(c) /\ Carries(app, c, {}, {}, {}) /\ app.lastTime <= c.lastTime
                 /\ Finish(c) /\ c.lastTime <= now
    BY <1>1, <1>9, CompleteFacts
  <2>2. UNCHANGED <<now, backup, work, sent>>
    BY <1>9 DEF Complete, history
  <2> QED BY <2>1, <2>2, FinishClock
<1>10. CASE Crash \/ Open
  <2>1. app' = disk /\ UNCHANGED <<disk, now, backup, work, sent>>
    BY <1>10 DEF Crash, Open, history
  <2>2. flight' = None
    BY <1>10 DEF Crash, Open, VaultInv, Down
  <2> QED BY <2>1, <2>2, ReloadClock
<1>11. CASE ExportBackup \/ Tick \/ StepBack \/ UNCHANGED vars
  <2>1. /\ now' \in Nat /\ now <= now' /\ (backup' = backup \/ backup' = app)
        /\ UNCHANGED <<app, disk, flight, work, sent>>
    BY <1>1, <1>11 DEF ExportBackup, Tick, StepBack, owner, history, vars
  <2> QED BY <2>1, StillClock
<1> QED BY <1>3, <1>4, <1>7, <1>8, <1>9, <1>10, <1>11, HandoffClock, RecoverClock, RestoreClock
    DEF Next, Supervise, Delivery

\* storage.rs and agent/: every request that did work has its receipt or its
\* delivery until its retry window has passed, while the trusted clock never
\* steps back.
THEOREM WorkIsAccounted ==
    ASSUME ~ClockStepsBack
    PROVE  Spec => []ClockInv
<1>1. VaultInv /\ ClockInv /\ [Next]_vars => ClockInv'
  BY NextClock
<1> QED BY VaultInvariant, InitClock, <1>1, PTL DEF Spec

\* mod.rs:664-671, snapshot.rs:281-316: an identifier does work again only a
\* full retry window later, over restarts, compactions and recoveries.
THEOREM IdentifiersWorkOnce ==
    ASSUME ~ClockStepsBack
    PROVE  Spec => []AtMostOncePerWindow
<1>1. ClockInv => AtMostOncePerWindow
  BY DEF ClockInv
<1> QED BY WorkIsAccounted, <1>1, PTL

\* workflow.rs:5-71: a secret that left the process is on disk as a dispatched
\* attempt until its retry window has passed.
THEOREM DispatchesAreAccounted ==
    ASSUME ~ClockStepsBack
    PROVE  Spec => []DispatchAccounted
<1>1. ASSUME VaultInv, ClockInv PROVE DispatchAccounted
  <2>1. disk.deliveries = app.deliveries
    BY <1>1, AgreeIsLike DEF VaultInv, Like
  <2>2. disk.lastTime \in Nat /\ RetryWindow \in Nat
    BY <1>1, SnapshotConstants DEF VaultInv, Shape, Formed
  <2> QED BY <1>1, <2>1, <2>2 DEF ClockInv, SentKept, DispatchAccounted
<1> QED BY VaultInvariant, WorkIsAccounted, <1>1, PTL

\* HARNESS-BRIDGE.md:55, mod.rs:664-671: an identical retry inside the window
\* that is still authorized finds its receipt, however the vault was compacted.
THEOREM RetriesAreAnswered ==
    ASSUME ~ClockStepsBack
    PROVE  Spec => []RetriesAnswered
<1>1. ASSUME VaultInv, ClockInv PROVE RetriesAnswered
  <2> SUFFICES ASSUME NEW w \in work, w.op # None, app.lastTime < w.at + RetryWindow
               PROVE  w.key \in DOMAIN Staged.requests /\ Staged.requests[w.key].fingerprint = w.op
    BY DEF RetriesAnswered
  <2>1. /\ app.lastTime \in Nat /\ disk.lastTime \in Nat /\ disk.lastTime <= app.lastTime
        /\ RetryWindow \in Nat /\ Formed(app) /\ Checked(app)
    BY <1>1, SnapshotConstants DEF VaultInv, Shape, Formed, Agree
  <2>2. Keeps(app, Staged) /\ Staged.lastTime = app.lastTime
    BY <2>1, StagedKeeps DEF Staged
  <2>3. Receipted(w) /\ w.at \in Nat
    BY <1>1, <2>1 DEF ClockInv, Accounted, Attempted
  <2>4. ReceiptCarried(app, Staged, w.key)
    BY <2>2, <2>3 DEF Keeps, Carries, Receipted
  <2> QED BY <2>1, <2>2, <2>3, <2>4 DEF Receipted, ReceiptCarried
<1> QED BY VaultInvariant, WorkIsAccounted, <1>1, PTL
==============================================================================
