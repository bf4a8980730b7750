# Verification of the Universal Setup Kernel

TLA+ models of the parts of the Universal Setup Kernel (USK) that change durable
state, checked with TLC on small instances and, for seven of the ten, proved with
TLAPS for every instance. The question throughout is what a machine looks like
when an operation is interrupted, or two operations meet, and what recovery may
then conclude. Paths below are relative to `src/`.

## 1. The system

A setup operation is planned, reviewed and applied. Applying an install means:
stage the payload in a private directory, publish it with one no-replace
directory rename, then write ownership, installed-state and audit records; a
transaction journal announces each step before it happens. Maintenance (repair,
move, uninstall) works on the installed tree effect by effect, each bracketed by
an intent and a completion record. On Windows a privileged publisher runs the
same operations for a client: a client context sends one request over a pipe to
a service started on demand, the service hands it to a private effect worker in a
kill-on-close job, and the worker's engine publishes or maintains the
installation under a lease, keeping native custody of everything it touches.

### Inventory

| part | source | durable state | operations |
| --- | --- | --- | --- |
| transaction session | `runtime/setup/transaction/usk_transaction_session.cpp`, `usk_commit_authority.cpp`, `usk_stream_entry_journal.cpp` | journal and its temporaries, staging root, target | begin, stage, stream, verify, commit, mark committed / completed, rollback, inspect, resume, replay |
| replacement session | `runtime/setup/transaction/usk_replacement_session.cpp` | phase records, live / staged / retained root | begin, retire old root, activate new root, publish state, complete, inspect |
| maintenance | `runtime/setup/lifecycle/usk_lifecycle.cpp`, `transaction/usk_maintenance_effect_journal.cpp` | effect journal, installed tree, backup bundle, records | repair, move, uninstall, recover, reconcile |
| install lifecycle | `runtime/setup/lifecycle/usk_lifecycle.cpp`, `usk_install_restart.cpp` | journal, target, records, audit chains | apply, finalize, roll back, replay, uninstall, reinstall |
| state and audit repositories | `runtime/setup/state`, `runtime/setup/audit`, `runtime/base/usk_record_io.cpp` | create-only records, chained events | write, read current, create chain, append |
| installation lease | `runtime/setup/transaction/usk_install_lease.cpp`, `runtime/platform/windows/usk_publisher_installation_lease.cpp` | ownership records, pending files, operation intents and custody | guard, prepare, acquire, fence, finish, hand off, recover |
| public lifecycle | `runtime/setup/lifecycle/usk_public_lifecycle.cpp` | setup root, plans | plan, review, apply, recovery choice |
| protected install publisher | `runtime/setup/lifecycle/usk_protected_install_publisher.cpp` | phase records, staged and published tree, reader grants | publish, recover, observe, verify |
| native maintenance context | `runtime/setup/lifecycle/usk_native_maintenance_context_internal.cpp` | custody records, native objects | apply an effect under custody, restore, recover, inspect, read records |
| publisher service and channels | `apps/daemon`, `runtime/command`, `runtime/platform/windows` | none of their own | request, start, serve, delegate to a worker, close, answer |
| publisher registration, owned retirement | `runtime/platform/windows/usk_publisher_registration.cpp`, `runtime/setup/lifecycle/usk_owned_*` | protected records, executable, SCM entry, volume security | register, provision, enroll, configure, start, submit, unregister, retire |
| kernel API, commands, CLI | `runtime/setup/kernel/usk_api.c`, `runtime/command`, `apps/cli` | none | dispatch one request |
| archive, package, streaming, target policy | `runtime/setup/package`, `verify`, `streaming`, `policy` | none | parse, verify, copy, decide |

How they interact: the install lifecycle and maintenance each drive one
transaction session and write through the two repositories; recovery reads the
journal, the effect journal, the tree and the records and nothing else; the lease
decides which worker may drive them on a publisher host; a worker's broker
observes for it what its restricted token cannot; registration decides which
executable is the service and which volume it may publish to; update is refused
until a publisher can do the replacement session's renames.

What makes them hard: a process may die between any two durable steps and
recovery may die too; a record is written in place under its final name, so a
crash can tear it and nothing may rewrite it; the portable lifecycle takes no
lock; a replay may start while the transaction it replays is still running;
users and other programs change the tree meanwhile; and what recovery expects is
derived a second time, in other code, than what apply did. `PROJECT.json` lists
these hazards at the lines where they bite, with the properties that cover them.

## 2. Modules and how they correspond to the code

`PROJECT.json` maps each definition to its lines. Definitions keep the source's
names: lower-case actions are functions of the code; capitalised ones are the
steps inside a function, between which the process can die or another can run.

**TransactionSession** — `journal[t]` is the document on disk, `mem[t]` the fields
of the live object, `pc[t]` the point its call has reached. Every persist has all
outcomes of `atomic_write_journal`: success; a throw that left the disk as it
was, one that left the temporary behind, one after the rename (disk ahead of
memory); death at any of them.
The first journal is published by link and unlink, later ones by rename. A
directory identity is the transaction that created the directory; the transition
chain is its last state, length and whether it reached `committing`. A bound
transaction is one whose spec requires `staged_child_bound_v1`, for which no
publisher is qualified. Outsiders
may put a directory at the target, remove it, or drop a file into a staging root;
they do not replace a staging root. `stage[t].foreign` says whether such a file
came before the last observation of the closure or only before the rename: the
first is never published, the second goes along, in the window that
`usk_transaction_session.cpp:1389` admits.

**ReplacementSession** — several sessions on one live root. The comparison, the
rename, the comparison after it and the record are separate steps, as in the
code. Other programs make directories and change content.

**MaintenanceTransaction** — one repair, move or uninstall with its recovery.
`orig` holds the plan, the first observations and how full the audit chain was,
`disk` the trees, `meta` the records, `hist` the effect journal. Apply takes its
decisions from the tree as it finds it; `ExpectedSlots`, `Expected` and
`Selectable` are recovery's own derivation; `reconcile` is the reconciler, which
reads at most `AuditLimit` events (256 in the code). Recovery runs alone, as
`require_authority` demands; the backend's `apply_effect` is taken to perform the
named effect on a matching object. A completed audit effect is read again within
that limit (`AuditStands`). Nested directories are left out.

**InstallLifecycle** — installs, finalizations, replays and uninstalls of one
identity over records and audit chains, without a lock. The session is seen from
outside (what its journal says); a record or an event may be torn. `streamed`,
chosen at the start, says which installs are source-bound. Timestamps are
monotone, transaction ids fresh, and one caller runs a transaction at a time. A
process may die with a journal and no staging root. Two things are coarser than
the code: reading a chain and creating its next event are one step (who loses
that race throws, a fault of the model), and so are `verify_manifest`, the choice
of the chain and the write of the installed-state record.

**InstallLease** — workers with one life each, the mutex guard, intents, the
bounded ownership history, and the two callers (install, maintenance) with their
recoveries. `derive` is `derive_install_lease_ownership`, `Valid` the
re-derivation in `latest()`, `Lineage` is `recovery_lineage`. `finish` with a hand-over is in
the lease code and in the model although no caller in the repository uses it.

**PublisherService** — the composition of client context, pipe, service process,
effect worker and engine. An attempt is one call of
`PublisherClientContext::execute`, and a retry another attempt on the same
operation. Every wait of the code has a deadline, so every wait may end early;
the engine is the durable stage its operation has reached.

**RecordReadback** — broker and effect worker reading records together. The
worker may use bytes only between two complete rounds in which the broker
reopened every object of the ledger. The rounds run on a pool of threads that
borrow a chunk from the broker's stack; events, the process-wide query claim,
drains and joins are steps of their own; the end of a thread's work (borrow,
counter, event) is one, as the broker looks at none of the three before it has
all events.

**NativeMaintenance** — one reviewed operation with two layers below
`MaintenanceTransaction`: `disk.at` says where each native object is, `recs` is
the custody, `owner` the live worker with its latches (`owner.failed`). A native
call may fail before or after its effect. `restore_custody` replays the records
against the disk. A repair replaces every owned file: the healthy files the code
only reads and holds (`repair_verification_manifest`) are not in the model.

**InstallPublication** — the engine of the protected publisher on one volume,
for the laboratory service and for the registered child. `d` is everything
durable, a phase record may be torn, and a worker reads what an earlier one left.
Digests are the values digested. A registered child reserves the publication in
its lease before it creates anything; when a predecessor of the same operation
died before it had a candidate tree, the exact original apply announces, moves
what is there to `-retained-gN` and starts again (`bootstrap_resume_required`,
`prepare_publication`). **PublicationPhases** is its abstract specification:
seven phases, one at a time, for the plan that was first; only a reviewed
publication without a candidate may be put aside, by its owner.
`PhasesInOrder` is the refinement, with the phase read off the latest evidence.

**PublisherRegistration** — the eleven control commands on one service name, by
two controllers under the control lock, interleaved with the service process,
clients that start it without the lock, and other tools. SCM keeps an entry
marked for deletion until nobody uses it (`scm_settle`). A registration that
fails between its durable intent and the `try` reports a plain refusal with the
intent left, and a failed record write may leave a temporary that nothing reads:
`RefusedLeftNothing` allows these two and nothing else.

The `MC...` modules only name model values. Mutated forms of definitions (a
dropped guard, a swapped order) stand before the definitions they vary; each
property is violated by one of them (`PROJECT.json`, "mutants").

## 3. Runs

| run | instance | what it checks |
| --- | --- | --- |
| `session_compete` | two transactions, each ordinary or bound, one file, one fault | `StreamCompletionIsTruthful`, `PublishesRecordedClosure` |
| `session_faults` | one transaction, ordinary or bound, two files, three faults | `RolledBackLeavesNothing`, `BoundIsRetained`, `OfferedActionsWork`, `PublishedGetsCompleted` |
| `maintenance` | all three operations, two files in any state of repair, two faults, one outside change, an audit chain with and without room | `RecordsAreTruthful`, `RecoveryAcceptsItsOwnWork`, `EffectsAreAuthorized`, `StartedGetsCompleted` |
| `install` | two installs, none, one or both source-bound, and an uninstall, two faults, one outside change | `RecordsAreTruthful`, `StreamInstalledIsOwn`, `OneLiveInstallation`, `PublishedGetsFinalized` |
| `replacement` | two sessions and a strict one, two foreign directories | `NothingLost`, `CrashIsClassified` |
| `lease` | three workers, one install and two maintenance operations, five records | `OneOwner`, `HistoryIsTruthful`, `HolderCanFinish` |
| `service` | two attempts of any kind on one operation, two service processes, one fault | `OutcomesAreTruthful`, `OneWorker` |
| `readback` | one record scope or object query, two query threads, one change, one fault | `BorrowedOutlivesThreads`, `TerminalMeansQuiet`, `BracketedRead`, `QueriesAreExclusive`, `ChunkDrains` |
| `native` | all three operations, two files, two faults, one outside change | `RestorationIsExact`, `JournalIsBacked`, `OneActInDoubt`, `InspectedIsExact`, `InterruptedGetsSealed` |
| `publication` | both routes, two plans, two files, two interruptions, one edit | `ReadersSeeInstallations`, `PhasesInOrder`, `ReportsAreTruthful`, `PreparedGetsInstalled` |
| `registration` | two controllers, a laboratory and a client registration, two starts, one fault, one act of another tool | `RecoveryMeansAreKept`, `RefusedLeftNothing`, `AdmittedIsHardened`, `ForeignServiceIsKept`, `InterruptedGetsCompleted` |
| `install_twice` | one install, two faults | `AuditedOnce`, which the code violates (see below) |

A property that joins several facts about one question (`RecordsAreTruthful`,
`OneOwner`, ...) names them, and the type invariant of its module with them.
Each property is stated in words above its definition. Deadlock is not checked:
a setup operation ends, and an interrupted one waits for an operator.

### Bounds

* Two transactions are needed for a replay and for a race to one target. Three
  faults let a call die, its recovery die, and the recovery of that fail once
  more. Two files let a rollback, a repair or a closure check stop half way.
* One outside change is enough to hit any window between an observation and its
  use; two faults cover a recovery that is itself recovered.
* Five lease records: an original, its recovery, a terminal record and the two
  slots at which the budget test decides. Three workers let two die.
* Two service processes let a retry meet the worker of its predecessor; two query
  threads let one hold a chunk while the other has left it. The readback's three
  objects (volume, directory, record) give a ledger in which one object occurs
  several times and that needs more than one chunk.
* Two plans let a second request meet an unfinished publication of the first, two
  attempts (`MaxAttempts`, 64 in the code) let a bootstrap start again and then
  meet its budget;
  two starts let one service process run while the next is asked for.
* An audit chain with room for one more event, and a full one: the last event
  that recovery can read, and the first it cannot.
* `MaxFaults`, `MaxEdits`, `MaxChanges`, `MaxStarts`, `MaxScopes`, `MaxPid`,
  `HistoryLimit`, `AuditLimit`, `BatchLimit`, `WorkerCount`, `MaxAttempts` and
  `MaxRev` are the only caps; `HistoryLimit`, `AuditLimit`, `BatchLimit`,
  `WorkerCount` and `MaxAttempts` are limits of the code, made small.

### Fairness

* Sessions (`Fairness` in `TransactionSession`): a failed stream records that
  recovery is required, and somebody keeps reopening an interrupted finalization
  and driving it on, as `recover_install_finalization` and `recovery.apply` do.
  Nothing is assumed of staging or commit.
* Maintenance: a running call takes its next step, and an operator retries the
  recovery. `FairSpec` writes this weak fairness out with the state predicate
  `Runnable` in place of `ENABLED`, which TLC evaluates far faster.
* Installs: a running call takes its next step, and somebody keeps asking for the
  finalization of an interrupted install. No call has a loop, and each step ends
  what enables it, so this is written as: a call is over again and again, and
  nothing stays resumable for ever.
* Readback: the broker and the pool's threads take their steps, and a native call
  returns, as the code waits for it without a bound. Nothing is assumed of the
  child.
* Native maintenance and publication: a worker that is alive goes on, and
  recovery is asked for again and again; it is possible only while no worker runs,
  hence strong fairness.
* Registration: a started command goes on, the service process ends, SCM settles,
  and the operator repeats an interrupted registration or provisioning with the
  same identity, as the code's own messages ask (strong fairness: the control lock
  is not always free).

Faults and outside changes are never fair. Each liveness property names the cases
in which the code gives up for good: a leftover journal temporary that holds the
next number, a torn record, a target that is no longer the reviewed one, a repair
of an installation whose root was missing, a full audit chain, an install whose
identity has a competitor's record by now or whose own record names a chain that
does not exist, a service entry
that is another's, an unfinished registration that was unregistered after its
executable had been granted.

### Disagreements with the documents

* `install_twice`: a finalization that died after its audit event is repeated and
  audited twice; `docs/roadmap.md:133` says that recovery finishes missing records
  idempotently.

The models show these too; they are described here and not kept as runs.

* A rollback that died after removing the staging root, plus an unrelated
  directory at the target, is offered for finalization although its commit rename
  never ran (`usk_transaction_session.cpp:1721`;
  `docs/architecture/transaction_model.md:54,59`).
* A file changed between its removal intent and the unlink is removed with the
  change (`usk_lifecycle.cpp:2914`; `spec/model/ownership.md:21` and the audit
  message at `usk_lifecycle.cpp:2981`).
* A reinstall finalized after a second uninstall of the retired identity records
  an audit generation that does not exist (`usk_install_restart.cpp:226`;
  `docs/architecture/zip_entry_replay.md:46`).

What else reading the code for the models brought to light, without a document
that says otherwise:

* Publication: a laboratory worker refuses a torn phase record, partial anchors or
  a partly staged tree for good. A registered child starts again from partial
  anchors or a snapshot, also a torn one, without a candidate, by the exact
  original apply and within 64 attempts; later torn records it refuses too, and
  one that died with a candidate and no prepared record cannot go on, because the
  sealed capture fails. A verification can pass while
  the lease of a dead finisher is still open.
* Registration: `.retired.json` is read and never written. A configuration to the
  recovery or verification mode is never undone, and register and provision refuse
  afterwards. A service started by a client between the last check of unregister
  and `DeleteService` may still publish, and the target then has no SCM entry.
  Provisioning an admitted volume once more locks and unlocks it before it
  refuses, and the remount can lose the intended device ACL.

## 4. Proofs

TLAPS proves the theorems below for every value of the constants: any sets of
transactions, files, workers or plans, and any number of faults and outside
changes. What they assume is in the named `ASSUME`s of the modules: the special
values differ from each other and from identifiers and documents, bounds are
numbers, and, where a greatest element or a closure is taken, sets are finite.
Each proof has one shape: an inductive invariant `IndInv`, which TLC confirmed on
the instance of the run first, a lemma per action, and the property as a
consequence.

**TransactionSessionProofs** — `IntentBeforeVisibility`, `RollbackIsTruthful`,
`StreamCompletion`, `StreamRetention`, `BoundRetention`, `DeletionAuthority`,
`LatchPermanence`, `ExactPublication`, `TypeCorrect`.
The safety properties speak of the journal on disk, but what the next persist
writes comes from memory, and a failed persist lets the two drift apart. `IndInv`
therefore says, per transaction, what the disk implies (`DiskGood`: for instance,
a stream journal past staging without a staging root was published), what a live
session implies about its journal (`SessionGood`: memory has every latch the disk
has), and what holds inside each call (`PointGood`: at the rename, journal and
memory are equal and the closure was just verified). It is local to a transaction
but for one fact, that a target bearing a transaction's identity was published by
it. The lemmas on `Persist` carry most of the work: they say what any of its
outcomes leaves, and each action is then a short case.

**ReplacementSessionProofs** — `ExchangeLosesNothing`, `MovesAreAnnounced`,
`OneSessionRetires`, `EveryStopIsClassified`. `IndInv` adds that a directory
nobody made is nowhere (`Unmade`), that memory and journal are at most one record
apart (`Coherent`), that a session past its check still has the old root (`Kept`;
two such sessions would hold one root in two places, against `NothingLost`), and
the three layouts an undisturbed exchange goes through with the phases possible
in each (`Layout`), which are the cases of `inspect()`.

**InstallLifecycleProofs** — `TruthfulRecords`, `StreamOwnership`,
`SingleInstallation`. Transactions share the target, the records and the chains
without a lock, so the invariant must survive the steps of others. The chains
enter it only through `said`, the set of what they say: a step adds to it and
takes nothing away, and a transaction's own part (`TxGood`: its call, its journal,
its records and its events) is then about itself (lemma `Frame`). Across
transactions there are three facts: a generation is begun by one (`OneEach`), a
chain without events is in the hands of its creator (`GenesisGood`), and the
target bears the identity of who published it (`TargetGood`). `StreamOwnership`
says more than that a recorded source-bound install was published: while nobody
changed the target and no uninstall removed a payload, what stands there is its
own tree. Contents alone would not show that, as two installs of one plan agree. For
`SingleInstallation` the invariant describes the time before any uninstall
removed a payload (`Calm`): there is one generation, and who has a journal began it
or replays, source-bound, what did. The lineage of a replay is the least set
closed under `origin` (`Lineage`), which needs no recursion. `OneContender` and
`AttemptIsAudited` ask for an event and not for the first one of the chain: with
three transactions a late finalization can put its completion into a chain
between the creation and the first event.

**InstallLeaseProofs** — `Ownership`, `HistoryTruth`, `HolderFinishes`. What a
worker read from the history when it asked still holds when it publishes, because
the guard keeps the others out; `WorkerGood` says so at each of its points. The
history is described record by record (`Ordered`, `Original`, `Finished`), and the
lemmas on appending show that earlier records keep their neighbours.

**PublisherServiceProofs** — `TruthfulOutcomes`, `SingleWorker`. The invariant
follows one request: until it is in the pipe nobody has heard of it (`Unheard`);
one process ever receives it (`Bound`); what this process may report is justified
by what its child can have done (`ReportGood`, `ChildGood`); a verdict that reached
the client is final, because the child has ended (`ClientGood`). `ServiceGood` ties
a living child to the holder of the control lock and the pipe.

**RecordReadbackBroker** and **RecordReadbackProofs** — `Borrowing`,
`QuietTerminal`, `Bracket`, `ClaimHeld`. The first module has the invariant and
the steps of the broker, its threads and the world, the second those of the child
and the theorems. The pool's part says what each thread may do while the broker is
where it is (`ThreadGood`), the stages of the stop (`StopGood`) and who holds the
query claim (`ClaimGood`); the other part gives for every moment of the
conversation the packets on the two wires and the broker's place (`Conversation`),
and what a round has established (`RoundGood`, `ReaderGood`). That the chunks of a ledger cover it (`ChunksCover`) is arithmetic;
the assignment of occurrences to threads is a fold, of which only the type of its
result is used.

**InstallPublicationProofs** — `Readers`, `Reports`, `Refinement`. `Evidence` and
`Bindings` say that the records on the volume are written in order and that each
binds the one before it; `StandsEarly` and `StandsLate` say what a worker at each
of its points knows of the volume, and `Requested` what its request fixed. For the
refinement the phase is the latest evidence on the volume: each action either
leaves all evidence alone (`Unnoticed`, most of them), adds the next piece
(`PublicationIsTold`), or is the move that puts a publication without a candidate
aside. A torn record is no evidence, and stays torn unless it is moved.

`PublishedHasIntent`, `StreamedFilesAreRetained`, `DeletionNeedsAuthority`,
`LatchIsPermanent`, `IntentBeforeMove` and `OneRetires` are proved for every
instance and no longer have a run.

Only model-checked:

* the liveness properties (`...Gets...`, `ChunkDrains`) and `OfferedActionsWork`,
  which are about fairness and `ENABLED`;
* `QueriesAreExclusive`: that no two threads get one file id, and the exact ranges
  of the plan, are facts about what a fold over the chunk computes, an induction
  over data (its conjunct `ClaimCoversHandles` is proved: `ClaimHeld`);
* the safety properties of `MaintenanceTransaction`, `NativeMaintenance` and
  `PublisherRegistration`. The first two rest on the order of effects in a sequence
  built over the files of a plan, and on two derivations of it agreeing, again an
  induction over data; of the third no proof has been attempted.

## 5. Not modelled

* Windows itself: handles, tokens, access-control lists and identities are what
  the code's comparisons yield (same or changed); the observation sources that
  only read them have no module.
* The public plan, review and apply documents and update planning: conversions of
  what the modelled calls decide. `apply_update` refuses before any effect.
* Of the protected publisher: the service-hosted route without a child, the
  fixture without a plan, `admit_current_registered_operation` and
  `with_public_roots_bound`. Of the registration: the read-only discovery of
  submit, the walk over installations and the identity of the target disk. Of
  owned retirement: the walk over object and lease histories.
* Lineages of more than two replays (the code stops at 64), and what becomes of an
  identity whose first install left only an audit chain behind.
* Archive parsing, package verification, streaming copy, target policy, JSON,
  hashing and paths: data conversions without durable state.
* The kernel's C interface, commands and the CLI.
* Assumed of the environment: the clock does not go backwards, transaction ids
  are not reused, one live session per transaction, recovery of maintenance runs
  alone.

## 6. Plan

1. Proofs: `PublisherRegistration` (an invariant per control point, as in
   `InstallPublicationProofs`), then `EffectsAreAuthorized` of maintenance from
   facts about `Expected` that do not need its order.
2. Composition: `InstallLifecycle` sees a session only through its journal, and
   `PublisherService` an engine only through its stage. Each is to be tied to the
   module below it by a refinement.
3. Pure algorithms as operators against a reference: archive budgets and ranges,
   target policy, the order of maintenance effects with nested directories.
