# Credman: TLA+ models, checks and proofs

Credman (`src/`) is a credential vault shared by supervised agents. One owner
process holds an encrypted store; a human approves tasks and issues sessions;
agents create, share and use credentials through it without seeing the seed.
This directory models the part that decides whether the vault is correct: what
the owner stores, what it allows, and what survives when it is interrupted.

Source paths below are relative to the repository root, which is `src/` here.

## 1. Inventory

| Component (source) | State | Operations | Model |
|---|---|---|---|
| Policy core (`src/agent/mod.rs`) | tasks, records, grants, receipts, deliveries, baselines, audit, clock high-water | approve/revoke task, mutate (create, generate, patch, share, revoke, delete, report), read, metadata | `Policy` |
| Compaction and validation (`src/agent/snapshot.rs`) | none of its own | `should_compact`, `compact`, `validate`, `clock_only_difference` | `Snapshot` |
| Durable publication (`src/agent/storage.rs`) | `state.v2`, `pending.v2`, owner lock, current image, `blocked`, `frozen` | `create`, `open`, `publish_with`, `commit`, `apply`, `rekey` | `Publication`, `Vault` |
| Explicit recovery (`src/agent/storage/recovery.rs`) | `recovery.v2` | `recover_at`, `adopt_rekeyed`, `validate_pending`, `transition`, `sanitize` | `Publication` (files), `Snapshot` (content), `Vault` |
| Private use (`src/agent/storage/workflow.rs`) | delivery attempts | `use_secret` in two publications around a handoff | `Vault` |
| Backup, restore (`src/agent/storage/backup.rs`) | an encrypted copy | `export_backup`, `restore_backup` | `Vault`, `Snapshot` |
| Sessions (`src/agent_bridge.rs`) | session table, tokens | issue, attach, revoke, expire | `Broker` |
| Owner loop (`src/agent_broker.rs`) | peers, deadlines | poll pass, admission, administration | `Broker` |
| HTTPS consumer (`src/agent_https.rs`) | curl child | prepare, deliver, drop | `HttpsChild` |
| MCP frontend (`src/agent_mcp.rs`) | protocol state, buffered lines | connect, read a line, initialize, call a tool, print | `Frontend`, `RemoteCall` |
| Framing (`src/agent_ipc.rs`) | poisoned flag | send, receive, fail, `fits_frame` | `Frontend`, `Pages` |
| Administration views (`src/agent/admin_view.rs`) | none | listings, `bounded_page` | `Pages` |
| Offline admin, CLI (`src/agent_admin.rs`, `src/cli.rs`) | none | descriptor checks around the calls above | no |
| Cryptography (`src/crypto.rs`) | none | Argon2id, AES-GCM | trusted |

How they interact: the owner loop takes one request at a time and calls
`DurableVault`; every such call is `apply(operation)`, which clones the
application, compacts the clone when due, runs the operation of the policy core
on it and hands it to `commit`, which keeps a clock-only change in memory and
validates and publishes everything else. `use_secret` is two such calls with the
delivery to the destination between them. Recovery and restore replace the image
from outside.

What is hard here, and what would be correct:

* **Publication is many system calls.** A kill, an I/O error or a power loss may
  fall between any two. Correct: nobody is served from an image in doubt, nothing
  confirmed is lost, and every interruption can be resolved.
* **Recovery is a publication as well**, interrupted and repeated; it must accept
  whatever the owner can leave behind and grant nothing.
* **Compaction rewrites history** that `validate`, `transition`, retries and
  authorization all depend on. Correct: no call ever stages an image that is
  refused, no retry inside the window is answered wrongly, no revocation is
  forgotten.
* **A delivery cannot be taken back.** Correct: what left is on disk before it
  leaves, a registration leaves once, and nothing leaves after its authority ended.
* **The clock is trusted but may step back**, and is persisted only coarsely.
* **One thread serves everybody.** Between its poll and its reply a session may be
  revoked or expire and a client may hang up, and a delivery blocks the thread.
  Correct: work stays inside its session, a token is used once, a lost client
  leaves nothing behind, the child is reaped and the owner stops in time.
* **A reply can be lost after the vault has changed.** The frontend is a process
  of its own; every wait of it has a deadline, and the owner may be slow, drop it
  or die. Correct: a lost reply is never read as a refusal, a late one never as the
  answer of the next call, a repetition does the work once, and nobody waits past
  the end of the session.
* **Collections are bounded.** Correct: one compaction frees all that the retry
  window no longer needs.
* **Listings are read by offset while agents work**, in pages cut to a frame.

## 2. Modules

| Module | Contents |
|---|---|
| `Publication` | the store directory and its owner, one action per system call that changes the directory |
| `DurableRegister` | what the store promises: one register with atomic writes |
| `PublicationProofs` | proofs about `Publication`: types, durability, nothing confirmed is lost |
| `StoreProofs` | proofs about the gates (what they carry, what recovery accepts) and that `Publication` implements `DurableRegister` |
| `Policy` | the policy core as operators on an `Application` value |
| `Snapshot` | compaction, validation, the content checks of recovery, `sanitize`, `prepare_restored` |
| `Vault` | the durable vault as a state machine over `Policy` and `Snapshot`: calls, the two phases of a private use, crash, open, recover, restore, clock |
| `VaultProofs` | proofs about `Vault`: memory and disk, delivery, identifiers, authority, compaction |
| `ValidityProofs` | proofs about `validate()` and `compact()` as operators: an image in the form the checks are used in, and what each stage makes of it |
| `CandidateProofs` | proofs about `Vault` that rest on it: no call stages what is refused, recovery accepts what is published, access appears by consent |
| `HttpsChild` | one delivery through curl: the owner's loop over pipes and timeout against a concurrent child |
| `Broker` | sessions and the owner loop, extending `HttpsChild` |
| `BrokerProofs` | proofs about the delivery inside the loop, and about the sessions |
| `RemoteCall` | what an agent may rely on when it calls a tool |
| `Frontend` | the frontends, their channels, and the owner as they see it |
| `FrontendProofs` | proofs about `Frontend`, that it implements `RemoteCall` among them |
| `Pages`, `PagesProofs` | listings page by page, and proofs about them |
| `MCPublication`, `MCVault`, `MCBroker`, `MCFrontend`, `MCPages` | instances for TLC |

`Publication` and `Vault` split the store between them. `Publication` knows
files, seeds and salts and keeps of the application only what storage decides on
(generation, unfinished deliveries, frozen clock, live authority, restored,
predecessor hash, and `data`, the number of operations applied). `Vault` knows
the whole application and takes a publication as one step; that this is sound is
what `ImplementsRegister` says of `Publication`: to whoever can open the store a
write happened entirely or not at all. The bridge between the two is
`PublicationsRecoverable`: `Publication` assumes that recovery's content check
accepts the next image of a publication (`Follows`), and `Vault` checks, and
`CandidateProofs` proves, that the real `transition()` does.

### Publication

`dir` is the directory a process sees, `pers` what the last successful directory
sync made durable; after a power loss each of the three names shows either entry,
independently (`AfterPowerLoss`). `pc` is the place of the process that holds
`owner.lock`; the lock is released when it ends, so there is at most one process.
The steps of `publish_with` are `CreateIntent`, `FillIntent`, `SyncIntent`,
`Rename`, `SyncRename`, `ClearIntent`, `SyncClear`; those of `recover_at` are
`RecoverStart`, `Adopt`, `SyncAdopt`, `PlanResumed` or `PlanWritten` and `SyncPlan`,
`Install`, `SyncInstall`, `DropIntent`, `SyncDropIntent`, `DropPlan`, `Recovered`.
The three results of `publish_with` (`NotPublished`, `Unknown`, `Durable`) update the
owner exactly as `create`, `commit`, `rekey` and `use_secret` do with them. A
rename that reports an error may have happened (`PublishFails`). An error inside
`recover_at` ends it and is the same as a kill there.

Not in it: the bytes of files other than the intent (candidate, adopted image and
plan are written under private names, synced and renamed, so they are never seen
in part), the leftover private files, and file modes and ownership.

### Policy and Snapshot

Both are pure operators on records, one per check or stage of the code, with the
source's names. The abstraction is in the data: one owner and one workspace (a
vault is bound to them by its first task), `site` for service and origin, the set
of present fields for the values of a record, the operation itself for its
fingerprint, and one kind of refusal for all errors, because a refused operation
leaves the same state whatever the error. `label` stands for label and notes.
Revision and version counters are natural numbers: the code refuses to go past
`u64::MAX`.

### Vault

`Commit` is `commit()`; every call action is `apply()` around one operation of
`Policy`: it stages (compacting if due), samples the clock, checks, and commits.
`Observe` is every call that is refused or answered from a receipt: what reaches
`commit` is then the staged value with the clock. `Prepare`, `Handoff`, `Refuse` and
`Complete` are `use_secret`; between `Prepare` and the end only time and a crash can
happen, because the owner handles one request at a time. `Handoff` samples the
clock again. A result of `commit` other than success leaves the owner frozen
(`Finish`). `Crash` ends the owner anywhere and may leave a gate; `Recover` is
`recover_at` on the content. `Restore` continues with the copy; the identifiers and
the registrations outside the store are remembered by history variables.

`last` records what the last commit did, `work`, `registered`, `sent` and `renewed` are
history variables the properties use; no action reads them except `sent` for the
time that `Complete` writes into its audit event.

### HttpsChild and Broker

`Broker` is the loop of `run()`: `Sweep`, `Poll`, then for each peer `Serve`, `Receive`,
`Handle` or `AdminHandle`, `Work` and `Reply`, then `Admit`. `at` is the place in the
loop; time passes between any two steps, so each of the loop's readings of the
clock may differ. `entries` is the session table; `digest` is true until the token
is consumed. A private use leads through `UsePrepare`, `UseHandoff` and `Deliver`,
whose steps are those of `HttpsChild`: the loop of `deliver` is split into its write,
its read and its `try_wait`, because curl may print and exit between them, and
`Drop` into closing the pipes and killing the child.

The vault answers with `Authorized`, the check of `Application::task`, or refuses for
reasons of its own; `Vault` has the rest. Tasks are approved from the start and may
be revoked. A frame is seen by the next poll and a hang up by the next poll or
reply whenever they happened, so `Send` and `Close` are taken there; a connection
shows its token only when it is admitted, so the listener's queue is a choice in
`Poll` and the token one in `Admit`. `effect`, `ended` and `attached` are history
variables. The monotonic and the wall clock are one clock; `Vault_clock` has the
steps back. Not in it: paths and permissions of the socket, `harden` and the
descriptor checks, parsing, and the end of the owner by a failed `open_fd`.

### Frontend and RemoteCall

`at` is the place of a frontend in `run()`: it connects, reads a line, and for a
tool call sends one frame, waits for one and prints what came of it. Each of
`send` and `receive` succeeds or fails at any time (`SendFails`, `ReceiveFails`: the
deadline, a hang up or a torn frame), and `Fail` poisons and shuts the channel.
A frame that was cut off is `Torn` in the socket. `buffered` counts the complete
lines in the `BufReader`: they need no wait, so that `line()` does not look at the
session's expiry before they are used up. What `dispatch` answers by itself is
`Local`, because it touches neither the protocol state nor the channel.

The owner is the part of `Broker`, `Vault` and `Publication` a frontend can tell:
`OwnerTakes`, `OwnerDecides`, `OwnerReplies`, and it may drop a connection, leave a
publication in doubt (`frozen`, `doubt`) and end anywhere; a new owner knows none
of the sessions, after recovery has decided what was in doubt. All of it happens
inside one retry window, so that `journal` only grows. A refusal may come for any
call, for the reasons modelled in `Vault`. A handoff that is no longer authorized is
a refusal too, but it leaves its attempt behind (`rejected`): a repetition of the
identifier is refused as well.

The failure of the adapter is its own verdict, `unavailable` ("interaction required"):
`prepare` fails before anything is done, but when `deliver` fails (`append_auth`,
`agent_https.rs:403`) the attempt is already published as dispatched and unknown
(`workflow.rs:73-90`, `Undelivered`), and a repetition of the identifier is answered
"ok" from it. The agent cannot tell the two apart.

`RemoteCall` states the promise: a call takes effect at most once, an identifier
once whoever repeats it, "ok" means done, and every answer but `unknown`,
`recovery` and `unavailable` settles the call. `asked`, `effects` and `answers` are the history
variables of `Frontend` that it is stated on. An answer for a known identifier is
"ok" although its effect is an earlier call's.

### Pages

`items` is the collection a listing shows, already scoped to the owner and
workspace, as identifiers and lengths; the rest of an answer takes none of the
frame. `bounded_page` is the loop of the code. The human adds the number of entries
to the offset, as the documentation says, and goes one further after a refusal.
Entries are inserted anywhere, because identifiers are random, and removed
anywhere by compaction.

## 3. Runs

All run with deadlock checking off: a bounded system that has used its faults,
generations or time may stop, and an idle vault is a legal end.

| Run | Instance | Checks |
|---|---|---|
| `Publication_power` | 2 seeds, 4 images before new calls stop, 3 faults, power loss | `TypeOK`, `ServingIsDurable`, `UngatedAuthorityIsConfirmed`, `ConfirmedNeverLost`, refinement `ImplementsRegister` |
| `Publication_kill` | 3 images, 2 faults, no power loss, fairness | `UngatedIsConfirmed`, `WholeGateIsRecoverable`, liveness `RecoveryCompletes` |
| `Vault_share` | two agents and the human, 3 request ids, 8 generations, a compaction at generation 6, tasks and grants that expire | `CandidatesValid`, `DelegateNeedsIssuer`, `AccessOnlyByConsent` |
| `Vault_retry` | one agent, and the human whose task is for another service, 2 request ids, a retry window of 2, 2 records, collections of at most 3 entries with compaction due at 2, a restart, until time 5 | `AtMostOncePerWindow`, `RetriesAnswered`, `HistoryIsFreed`, `CompactionSettles`, `OnlyStrayingIsRefused` |
| `Vault_recover` | registration, 2 tasks (one ends), a grant, 7 generations, a compaction at generation 6, a crash anywhere, a backup and a restore | `AuthorityIsRenewed`, `RegisterOnce`, `DispatchAccounted`, `UnfinishedIsRecoverable`, `PublicationsRecoverable` |
| `Vault_clock` | private use by an agent whose session ends before its task, a clock that steps back, 2 crashes | `MemoryIsDisk`, `DispatchBeforeExpiry`, `HighWaterKept` |
| `Broker_sessions` | table of one entry, 3 sessions, lifetime 3 and idle limit 2, sessions that end at 1 and 2, configuration in 2 pieces, wall timeout 1 | `TypeOK`, the action property `TokenAttachesOnce`, `AttachedHasPeer`, `PeersBounded`, `OutcomeIsTruthful`, `NoStrayChild`, `SessionsConfineWork`, liveness `OwnerStops` |
| `Frontend_calls` | 2 frontends, one request identifier and one read, 2 calls, a line buffered, one end of the owner | `AnswersTheCall`, `OneCallUnderWay`, `FrontendWindsDown`, refinement `AnswersAreSettled` |
| `Pages_list` | pages of 3, frames of 4, up to 5 entries of length 1, 2 or 5, 2 changes | `ListingComplete`, `PageIsLongest`, liveness `ListingEnds` |

What they show:

* `ServingIsDurable`: an owner that answers holds the image on disk, that image
  survives a power loss, and no gate is there.
* `UngatedIsConfirmed`, `UngatedAuthorityIsConfirmed`: a directory that opens
  without recovery holds the last confirmed image. After a power loss a directory
  may lose the gate of an interrupted *recovery* or of an initial publication with
  its image still unconfirmed; the second property says that such an image carries
  live authority or an unfinished delivery only if the image confirmed last does.
  What a recovery withdrew is therefore never back, neither when a later recovery
  is interrupted and repeated nor when a power loss undoes its installation.
* `ConfirmedNeverLost`, `ImplementsRegister`: writes are atomic and durable.
* `AuthorityIsRenewed`: recovery and restore grant nothing.
* `WholeGateIsRecoverable`, `RecoveryCompletes`, `UnfinishedIsRecoverable`,
  `PublicationsRecoverable`: what the owner may leave behind, recovery accepts.
* `CandidatesValid`: `validate()` never refuses what an admitted call, compaction
  included, has staged; a violation would make the vault refuse service.
  `OnlyStrayingIsRefused`: the same for tasks of any scopes, with one exception. A
  human who deletes a record or revokes a grant of another service or origin than
  its task's passes `authorize()` (`mod.rs:606`, `mod.rs:632`), which leaves the scope to
  `can()`, and is refused by `validate()` (`snapshot.rs:154`) for the scope of the
  receipt: as invalid storage, where a share is denied. Nothing is changed by it.
* `AtMostOncePerWindow`, `RetriesAnswered`, `RegisterOnce`, `DispatchAccounted`,
  `DispatchBeforeExpiry`: idempotence and delivery.
* `AccessOnlyByConsent`, `DelegateNeedsIssuer`: who can read a secret, and since when.
  The run of the first has neither a crash nor a restore; for those the theorem
  `ReadersConsented` (section 4) stands alone.
* `MemoryIsDisk`, `HighWaterKept`: the clock persisted coarsely.
* `SessionsConfineWork`: what the vault does for a session it does inside the
  session's life, task list and principal.
* `TokenAttachesOnce`: a connection is attached by a token that attached none before,
  while its session is in the table, neither revoked nor expired.
* `AttachedHasPeer`, `PeersBounded`: the table and the
  connections agree after every sweep. In between the owner may hold one connection
  more than the table has places: an entry that expired is replaced, and the new one
  attached, before the sweep drops the old connection.
* `OutcomeIsTruthful`, `NoStrayChild`, `OwnerStops`: a delivery reports only what the
  server said to the whole configuration, and ends. A child that is dropped with a
  part of the configuration sees the end of its input before the kill and may act on
  that part; the outcome is unknown then.
* `HistoryIsFreed`, `CompactionSettles`: a vault at its limit becomes usable again.
  After a quiet window one pass leaves no receipt, no delivery, no ended grant, no
  deleted record and at most one ended task; a second pass never finds more. The
  first call after the window may still be refused: `apply()` compacts by the time
  of the call before, and the refused call makes the new time known.
* `AnswersAreSettled`: what an agent reads of its calls is what `RemoteCall` promises,
  whatever is lost, late, cut off, repeated from another session or interrupted. In
  particular nothing that may have changed the vault is answered as a refusal, a
  delivery that failed after its attempt was committed included.
* `AnswersTheCall`, `OneCallUnderWay`: poisoning keeps a channel in step.
* `FrontendWindsDown`: no wait of a frontend is unbounded. Once its session has
  expired it always has a step and every step uses up a part of what is left, the
  buffered lines included, so that it ends whatever its owner does.
* `ListingComplete`, `PageIsLongest`, `ListingEnds`: a listing ends, and misses an
  entry that stayed only if another was removed meanwhile, which moves those behind
  it; it shows one twice only if another was added. `total` lets the human notice.

### Disagreements found

Each of these runs ends in a violation of one property that states what the
documentation says.

* `Publication_torn` (`EveryGateIsRecoverable`): `pending.v2` is created under its final
  name and filled in place. If the owner dies in between, `read_gate` refuses the
  torn pair and recovery fails for good, although `state.v2` is intact.
* `Vault_reuse` (`EveryPublicationRecoverable`): `apply()` prunes an old receipt and then
  records a new one under the same identifier in one publication. If that
  publication is interrupted, `transition()` compares the two receipts and refuses.
  The same holds for a task identifier pruned and approved again.
  `PublicationsRecoverable` is the property without this case.
* `Vault_frozen` (`FrozenClockIsRecoverable`): recovery sets the high-water mark to the
  current time; as long as an audit event is later than that, `validate()` refuses
  the recovered image. `UnfinishedIsRecoverable` is stated for a recovery at or after
  the high-water mark for this reason.

Two more disagreements were met and have no run of their own. Once compaction has
sealed a verified login in the baseline, an interrupted second login makes recovery
fail, because `sanitize` (`recovery.rs:110`) withdraws the signup and keeps the mark;
`UnfinishedIsRecoverable` fails in an instance whose `Uses` contain the action `login`.
The owner loop does not expose that action today (`validate_agent` admits `Use` only).
And the audit arm of `admin` (`agent_broker.rs:303-309`) takes 100 events without
cutting them to the frame, unlike the listings of `Pages`, so that events of long
principals are answered by a capacity error.

### Bounds

In `Publication` new calls stop at `MaxImages`; completing a call and recovering may
seal further images, so every interruption is played to its end. Three faults let
a publication, its recovery and the recovery of that recovery fail in turn. Two
seeds allow a re-key and its interruption with either seed in hand.

In `Vault` the constants of the code are scaled: a retry window of 1, 2 or 9 ticks
stands for 24 hours, a persist interval of 2 for 60 seconds, a skew tolerance of 0
or 1 for 5 seconds, an audit stream of one or two events for 10 000, a compaction
every 6 generations or never periodic for 32, so that compaction happens between
any two of the calls of a run. One record (two where receipts of several records
matter) suffices because no check relates two records except by counting.
`MaxGeneration` bounds the publications, `MaxFresh` the identifiers drawn. Request
identifiers are symmetric: they are only compared.

In `Broker` a table of one entry is full as soon as it is used, and three sessions
let two be replaced; one pass with the human, one old and one new connection is the
longest there is. Two pieces are enough for a configuration to be cut; four status
bytes fill the buffer of the code. Past its lifetime only a delivery reads the
clock, so time stops there otherwise.

In `Vault_retry` three places let a record, its share and its deletion fill the
receipts, and time 5 leaves room for two windows after one another.

In `Frontend` two frontends with one identifier are a call and its repetition from
another session; one end of the owner is enough to fall between any two steps of
a call, and one buffered line enough to be read after the expiry. Identifiers and
frontends are symmetric.

In `Pages` five entries make two pages with any cut, an entry of length 5 fits no
frame, and two changes are an insertion and a removal in either order.

### Fairness

`FairSpec` of `Publication` is used for `RecoveryCompletes` only: weak fairness of the
running process (a process that is not killed goes on), weak fairness of closing an
owner (it ends at its deadline), and strong fairness of starting recovery with
each seed: the human keeps trying; `recover_at` is explicit and nothing in the
code retries it. Faults are not fair and bounded in number.

`Spec` of `Broker` has weak fairness of the owner's steps and of the clock: the thread
runs, none of its waits is unbounded (poll 1 s, frames 5 s, `deliver` 25 ms), and a
killed child can be waited for. Clients, curl and servers have none.

`Frontend` states no fairness: `FrontendWindsDown` says step by step what a running
frontend needs in order to end (polls, frames and prints end at their deadlines:
`ready`, `read_until`, `write_until`).

`Spec` of `Pages` has weak fairness of the human's next request, which is what a
listing to the end means.

## 4. Proofs

Eight modules hold the proofs. A theorem holds for every value of the constants
that satisfies the named assumptions of its component's module (bounds are natural
numbers, `None` and `Torn` are none of the values they stand beside, tasks, grants,
share bounds and sessions have a time of expiry, the audit stream is no longer than
the collections may be, and the like), which TLC evaluates in the runs. Some
theorems have a hypothesis of their own: `~PowerLoss`, `~ClockStepsBack`, `NoLogin` and
`HumansInScope`, given below with the reason. The three inductive invariants of the
vault, the longest ones, were checked by TLC on its instances before they were
proved.

### The store: `PublicationProofs`, `StoreProofs`

For every set of seeds and every bound on images and faults, with or without power
loss:

* `TypeCorrect` (`TypeOK` and `WellFormed`): the types, which admit a torn intent, and
  what each step of the process holds: a candidate while publishing, an image while
  serving, a whole pair in the intent before it is adopted.
* `ServingDurable` (`ServingIsDurable`). `DurableInv` adds `Owner`, that the owner's
  memory is the durable image until it writes its gate and while it hands over a
  secret, and `Gates`, which gate is visible or durable at each step. The gates are
  needed because an owner returns to serving when its cleanup succeeds.
* `NothingConfirmedIsLost` (`ConfirmedNeverLost`). `KeepInv` adds `Monotone`: every image
  that may come to stand in `state.v2` (the visible and the durable one, the
  candidate, and the second image of any whole gate) holds at least the confirmed
  operations. It needs the gates because recovery installs what it reads from them.
* `LineageInv`, on which the next theorems rest, says how a pair of images
  descends: the second of an intent is the first after one operation or under a new
  key, or the first image of a vault; the second of a plan is the sanitized first
  (`GatesDescend`). An image names only a ciphertext sealed before it (`AllDated`), so
  that recovery never takes an operation for a change of key.
* `UngatedAuthority` (`UngatedAuthorityIsConfirmed`). `AuthorityInv` adds that whenever a
  power loss may leave no gate (`Bare`), both the visible and the durable image are
  `Vouched` for: what live authority and unfinished delivery they carry, the
  confirmed image carries too. It needs that the rename waits
  for a durable gate and that a gate is cleared only after the candidate is
  confirmed, which is what each sync of the directory is for.
* `StoreIsARegister` (`Spec => ImplementsRegister`): each system call, kill, I/O error,
  power loss and step of recovery is a write that puts two neighbouring values in
  doubt, a settling of the doubt, a step of serving, or a stutter of `DurableRegister`.
  `Content` adds that what recovery installs has the content already on disk.

Without power loss (`ASSUME ~PowerLoss`):

* `UngatedStore` (`UngatedIsConfirmed`) and `WholeGates` (`WholeGateIsRecoverable`).
  `AcceptanceInv` adds `StateMatches` and `PlanMatches`: `state.v2` is one of the two images
  of the gate that decides about it, and a plan starts from an image of the intent
  it reconciles, which are the comparisons `recover_at` refuses on. With power loss a
  directory may show an unconfirmed image without its gate (section 3), so the
  hypothesis is needed.

### The vault: `VaultProofs`

For any callers, approvals, operations, uses, limits and intervals, and any clock:

* `VaultInvariant` (`VaultInv`), the inductive invariant of the following. `Agree` and
  `Memory` relate memory and disk, `Down` says what a dead owner left, `Checked` what
  `validate()` established of whatever was published, `Known`, `Vouched`, `Renewed` and
  `InFlight` which tasks stand behind records, grants and the use under way,
  `Registered`, `RegistersAnew` and `SentBefore` what the history of dispatches and the
  baselines say of each other.
* `MemoryAgreesWithDisk` (`MemoryIsDisk`), `HandoffsAreTimely` (`DispatchBeforeExpiry`),
  `RegistersOnce` (`RegisterOnce`), `AuthorityMustBeRenewed` (`AuthorityIsRenewed`),
  `DelegatesNeedAnIssuer` (`DelegateNeedsIssuer`), and the action property
  `HighWaterIsKept` (`HighWaterKept`).
* `HistoryGetsFreed` (`HistoryIsFreed`): after a quiet window one compaction frees
  everything it may. It rests on `validate()`: receipts of a record without a gap are
  what lets each of them be folded into the baseline (`EveryReceiptFolds`), and only
  then grants, deliveries, records and tasks follow.

For a clock that does not step back (`ASSUME ~ClockStepsBack`):

* `IdentifiersWorkOnce` (`AtMostOncePerWindow`), `DispatchesAreAccounted`
  (`DispatchAccounted`), `RetriesAreAnswered` (`RetriesAnswered`). `ClockInv` adds that each
  piece of work has its receipt or its delivery attempt until its window is over
  (`Accounted`), that the use under way is new by then (`FlightIsNew`), and that the
  high-water mark is never ahead of the clock (`Timely`). After a larger step back
  recovery lowers that mark to the clock, and times before and after it cannot
  be compared any more: the window of such a history is not defined, hence the
  hypothesis. Crashes, recoveries and restores are included.

The argument has two layers. `Drops` says what a stage of compaction may remove, and
`CompactDrops` proves it stage by stage; `Carries` and `Keeps` say what any operation
of `Policy` or `Snapshot` makes of tasks, grants, records, deliveries and receipts. Each
operator has one lemma in these terms, so that the preservation of the invariants
argues about `Carries` and not about the operators. That a finite set of tasks has a
latest one (`LatestExists`) is shown from the least size of a counterexample.

### What is stored and what follows it: `ValidityProofs`, `CandidateProofs`

For any callers, approvals, operations, limits, intervals, any clock, and every use
but a login (`NoLogin`: no element of `Uses` has the action `login`). The owner loop
admits plain uses only (`validate_agent`), and with logins the theorems are false:
the baseline seals a verified login that `sanitize` withdraws (section 3).

* `StoreStaysClean` (`CleanInv`), the inductive invariant of the following: memory, disk
  and a backup are `Clean`, at any time. `Whole` gives the sorts of an image, `Sound` and
  `Sized` are what `validate()` demands in the form the proofs use, `Lasting` is what it
  does not demand and every operation keeps (a deletion is a record's last revision,
  a grant is shared once), and `Dated` what the audit stream says of tasks and records. That `Good` and `validate()`
  agree is `SoundIsValid` and `ValidIsSound`. `Sourced` says where tasks and grants come
  from, and `Handed` that the time of a handoff is known to the vault.
* `CandidatesAreValid` (`CandidatesValid`), under `HumansInScope`: the tasks of a human are
  for the scope of all others. `StrayingOnlyIsRefused` (the action property
  `OnlyStrayingIsRefused`) does without that hypothesis and says what is refused
  otherwise (section 3). Each operation of `Policy` keeps `Clean`: a mutation is one
  revision (`RevisionClean`), whose receipt, count of the record, grant and audit event
  must be accounted for at once.
* `CompactionsSettle` (`CompactionSettles`): each stage of `compact()` keeps an image good,
  establishes what it is there for (`Settled`) and leaves what the stages before it
  established, so that a second pass meets the identity stage by stage.
* `UnfinishedCanBeRecovered` (`UnfinishedIsRecoverable`): `sanitize()` keeps an image clean.
* `PublicationsAreRecoverable` (`PublicationsRecoverable`): `transition()` accepts the step
  from the published image to the next. `Thinned` says what compaction left out and
  what the baselines still say of it, `Adds` what an operation adds to what was left;
  both together follow (`AddsFollow`), for every operation and for the end of a use
  (`Commits`). The exception in the property is the identifier used again
  in the call that pruned it, which the run `Vault_reuse` shows.
* `ReadersConsented` (`AccessOnlyByConsent`), also for a clock that does not step back,
  since after a step back and a restart an expired task is alive again: whoever reads
  a password after a step read it before, or the step approved the task, created the
  record or issued a grant on it (`ReaderBefore`, `AddedServed`, `LikeServed`). A patch
  does not: grants never name a field the record lacks.

### The owner loop and its child: `BrokerProofs`

For any number of pieces, timeout, output of curl, tasks, table capacity, lifetime,
idle limit and messages:

* `OutcomesAreTrue` (`OutcomeIsTruthful`) and `ChildrenAreReaped` (`NoStrayChild`, and that
  no delivery is under way outside `use_secret`). `ChildInv` relates both ends of the
  pipes: the input is closed by the owner exactly when the whole configuration was
  written (`Closed`), a request curl completed was about the whole of it (`Asked`), and
  what was read is what was printed (`Progress`).
* `BrokerTypes` (`TypeOK`), `TableMatchesPeers` (`AttachedHasPeer`), `ConnectionsBounded`
  (`PeersBounded`), and the action properties `TokensAttachOnce` (`TokenAttachesOnce`) and
  `WorkIsConfined` (`SessionsConfineWork`). `SessionInv` says at every place of the loop
  that a session has one connection, which agrees with the entry as long as there is
  one (`Connected`), that an entry whose token was used has its connection (`Table`),
  that a request inside the vault is for a task of its session (`Granted`), that the
  sweep leaves no connection without its entry (`SweptInv`), and how many connections
  there may be before the next sweep (`Bounds`). The sweep renumbers the
  connections; its lemmas (`Chooses`, `Numbers`) describe the increasing enumeration it
  makes.

### The frontends: `FrontendProofs`

For any number of frontends, requests and calls and any number of owners' ends:

* `AnswerIsToTheCall` (`AnswersTheCall`) and `OneCallAtATime` (`OneCallUnderWay`).
  `ChannelInv` says of each channel that is not poisoned that at most one of its two
  directions and the owner holds a frame, that this is the call the frontend waits
  for, that nothing is on the way between two calls, and that no frontend waits on
  a poisoned one (`Lane`).
* `AnswersAreReliable` (`Spec => AnswersAreSettled`): every step implements a step of
  `RemoteCall` or a stutter. `CallInv` adds that a call is in one place (`OnePlace`), that
  the record of effects and the journal agree (`Recorded`), and that whatever verdict
  is on its way to the agent, in the owner, in the socket or in the frontend, still
  fits what has happened (`Right`): an answer that settles a call excludes that the
  call waits anywhere.

### The listings: `PagesProofs`

For any page, frame, lengths of entries and changes:

* `PagesInvariant` (`PagesInv`), the inductive invariant: unless an entry was removed,
  whatever was there from the beginning and lies before the offset was shown
  (`ShownSoFar`), a listing that ended has read to the end (`ReadToTheEnd`), and before
  the first is added entries are shown in order, each before all that are still to
  come (`InOrder`).
* `PagesAreLongest` (`PageIsLongest`), from the loop of `bounded_page` being the longest
  prefix that fits, and `ListingsAreComplete` (`ListingComplete`).

### Only model-checked

* `RecoveryCompletes`, `OwnerStops`, `ListingEnds`: liveness under fairness.
  `FrontendWindsDown` is stated with `ENABLED`. The prover reasons about neither.

## 5. Not modelled, and the plan

Not modelled: encryption (an image unseals exactly with its seed), JSON, its
strictness and the limits on its size and depth, file permissions and descriptor
hardening (`harden`, `close_unlisted`, the walk to the socket and the session file,
the output file of a backup), the binding and removal of the socket, the text of
credentials and of curl's configuration, the drawing of generated values, the counters of `status`, the command
line, the harness scripts. These are checks of a single value or descriptor, made
once before anything changes: they have no state a model would explore. The
protection against a hostile host account is outside the code's own claims.

The plan of modules, runs and theorems is carried out. What could still be added:

1. The action `login` with a baseline that forgets a login that was withdrawn, once
   the code does; `NoLogin` falls then.
2. The fields of `status` and of listed entries, and the prefix of the audit stream
   that `admin` answers with.
