# A verification of Lanverse

Lanverse is a workspace for AI comics production: a Go backend (one binary, `lanverse`,
run in several roles), a Next.js client, and PostgreSQL, Kafka, Redis, Temporal and an
S3-compatible store around them. Its hard core is the part that spends money: a user
confirms a quote, the backend reserves the amount in the project's budget, a durable
Temporal workflow calls a provider that may or may not answer, and the reservation is
settled or released exactly once. Around it, media, scripts, characters and canvases are
written to object storage and PostgreSQL by requests and workers that may die between any
two steps. This directory holds TLA+ models of these parts, the TLC configurations that
check them and TLAPS proofs about them.

All paths below are relative to `src/backend/internal/` unless they start with `src/`.

- [1. Inventory](#1-inventory): the parts of the system
- [2. Plan](#2-plan): what is modelled, and in which order
- [3. Modules and code](#3-modules-and-code): how state and actions correspond
- [4. Runs](#4-runs): what TLC checks, with which bounds and fairness
- [5. Proofs](#5-proofs): what TLAPS proves, from which assumptions and how
- [6. Where code and documentation disagree](#6-where-code-and-documentation-disagree)
- [7. Observations without a run](#7-observations-without-a-run)
- [8. Not modelled](#8-not-modelled)

## 1. Inventory

The backend is split into contexts with the usual layers (`domain`, `application`,
`adapter`). A context writes only its own PostgreSQL schema; a transaction that spans two
contexts (confirmation, settlement) passes the open transaction as an argument. Facts
leave a transaction through the outbox, Kafka and an inbox; long work runs in Temporal
workflows whose activities are the contexts' application services.

| Component | State it keeps | Operations | Talks to | Modules |
|---|---|---|---|---|
| **billing** | one budget row per project, one reservation per operation, append-only ledger | reserve, settle or release, replay a settlement, change the limit | called by operation inside its transactions | `Budget` |
| **operation: quote** | quotes, confirmation receipts | price, create, confirm one or a batch, expire | billing, catalog, outbox | `Quote`, `Pricing`, `FirstOutcome` |
| **operation: workflow** | operation row, provider calls; the Temporal history | submit, poll, reconcile, resolve by hand, cancel, ingest, settle | provider queue, media ingest, billing, its batch | `Operation`, `ReservationContract` |
| **operation: batch** | batch row, launch slots; the parent's history | admit, start, pause, resume, cancel, finish | child operations, control events, catalog | `Batch` |
| **operation: Codex image path** | one dispatch claim per operation, staged objects | claim, send, stage, recover, resolve | an external CLI worker | `CodexImage` |
| **infra: outbox, inbox, maintenance; workflow starter; audit** | event rows with a published mark, one marker per consumer and event, audit rows | append, publish, consume once, sweep | every context, Kafka, Temporal | `Delivery`, `ExactlyOnce` |
| **infra: realtime** | nothing of its own (Redis streams) | publish, replay, subscribe, resync | SSE clients | `ProjectStream` |
| **media: purge, transfer** | jobs, items, objects, leases with a fence | claim, remove or copy, interrupt, cancel, reconcile | object store, Temporal | `MediaPurge`, `MediaTransfer`, `PhysicalWork` |
| **media: library** | folders, items, command receipts, purge reservations | create, rename, move, trash, restore, reserve | owners of references | `Library` |
| **media: uploads, ingest, packages** | assets, upload receipts, package jobs | upload, register a provider's result, import a package | object store, operation | `Upload`, `Ingest`, `Packages` |
| **mediatool** | render, transcription and depth jobs | claim, progress, commit, cancel, retry | external processes | `MediaExport`, `Transcription`, `Depth` |
| **script** | source heads, versions, imports, episodes, structures | write a source in two transactions, recover, import, divide, adopt | object store, Temporal | `ScriptSource`, `ScriptImport`, `ScriptReview` |
| **workspace** | projects with a lifecycle, folders, copy jobs | create, recycle, restore, move, copy | every context that copies its part | `Projects`, `ProjectCopy`; `ScriptReview` for the script's part of a copy |
| **catalog** | providers, credentials, models, prices, voices | test and set a credential, publish, enable, list | operation (admission and pricing) | `Credentials`, `ModelRegistry` |
| **identity** | accounts, sessions, login guard | log in, disable, revoke, change a role | every HTTP handler | `Identity` |
| **bible** | characters, versions, confirmations, redirects | publish, confirm, merge, split, delete | media references, project copy | `Bible` |
| **canvas** | documents, nodes, edges, command log | apply a batch of commands, copy | media references | `Canvas` |
| **prompt, platform, app** | one preferences row; wiring | compile, construct | - | - |

The sizes run from 0.8 k lines (`audit`) to 19 k (`media`); `operation` has 13 k.

What makes each part hard, and what correctness means there:

- **billing**: every write locks the budget row, except that a change of the limit
  reads and validates in one transaction and writes in another. Settlements are retried by
  Temporal after other operations moved the balance. Money is `int64`, revisions `int32`.
  Correct: no micro is lost or doubled, a replay answers what the first call answered, a
  legitimate settlement is never refused, only a settlement can overrun.
- **quote**: a confirmation races with the expiry sweep, a new price, a change of the model
  and its own repetition, and waits for the budget's lock with its decision half made.
  Correct: what is confirmed is reserved once, at a price that was still current.
- **operation workflow**: a submission is a call to a paid provider whose reply may be lost
  while the request is still under way. Activities are retried, and an attempt that outlived
  its timeout may commit after its retry answered. The user cancels, the batch parent claims
  and an administrator signals at any time. Correct: at most one execution, no reservation
  released while something may still run, an outcome that was verified.
- **operation batch**: many parents compete for launch slots of a project, a provider and a
  canvas node; children end, fail and are claimed while the parent decides on what it loaded
  earlier; signals wait in a channel that continue-as-new empties. Correct: no limit is
  exceeded, no slot leaks, the summary is exact, a cancel is heard, the queue drains.
- **delivery**: at-least-once publication by several relays, deduplication, a relay that
  stops at the first error and restarts. Correct: one effect per event, one workflow per
  operation.
- **leased jobs** (purge, transfer, mediatool, project copy, script sources and imports): a
  worker disappears between two external effects, and a fence must keep its successor and
  it apart. Correct: one process at a time, and what the job reports is what is in storage.
- **libraries, bible, canvas**: commands prepared from an older read, media purged while
  something names them, copies of histories. Correct: the structures stay sound, what is
  named is kept, a copy says the same as its source.
- **identity and catalog**: two administrators at once, answers that arrive after what they
  are about has changed. Correct: an administrator remains, a verdict belongs to its
  credential.
- **realtime**: publication before the marker, a bounded buffer, reconnections. Correct:
  every event is shown or the client is told to read everything again.

`PROJECT.json` lists forty hazards at their lines, each with the properties
that cover it and, in a note, what they except.

## 2. Plan

Modelled first is what spends money, from the inside out; then the long jobs; then the
studio around them. Proofs follow the same order.

| Step | Modules | Question | Model | Proof |
|---|---|---|---|---|
| 1 | `Budget` | is the money of a project conserved | done | done |
| 2 | `Operation`, `ReservationContract` | is one paid operation executed and settled once | done | done |
| 3 | `Batch` | do competing batches keep their limits and come to an end | done | done |
| 4 | `Quote`, `Pricing`, `FirstOutcome` | is a quote reserved once, at a price that was current | done | `Quote`, `Pricing` done |
| 5 | `Delivery`, `ExactlyOnce` | does each event take effect once, through relay restarts | done | done |
| 6 | `MediaPurge`, `MediaTransfer`, `MediaExport`, `Transcription`, `Depth`, `PhysicalWork` | one process at a time; does storage follow the jobs | done | `MediaPurge` done |
| 7 | `ProjectCopy`, `Projects`, `ScriptSource`, `ScriptImport`, `ScriptReview`, `Packages` | is content shown whole or not at all | done | `ScriptSource`, `Packages`, `Projects`, `ProjectCopy` done |
| 8 | `Upload`, `Ingest`, `Library`, `Bible`, `Canvas` | is what is named kept, is what is shown stored | done | - |
| 9 | `Identity`, `CodexImage`, `Credentials`, `ModelRegistry`, `ProjectStream` | races of administrators, paid turns, late answers, reconnections | done | `Identity`, `CodexImage` done |

How they compose. `Operation` implements `ReservationContract` (what the operation context
promises billing), and `Budget` is the other side of that contract: `Settle` there is the
transaction in which an operation becomes terminal here. `Batch` sees a child from outside,
with the statuses and the one-way moves that `Operation` has inside: `ClaimQueued` and
`SettleClaimed` of `Operation` are `ClaimChild` and `SettleChild` of `Batch`. `Quote`
implements `FirstOutcome`, and what it reserves is a `Reserve` of `Budget`; `Delivery`
implements `ExactlyOnce` and is the detailed form of the step from acceptance to start that
`Batch` takes at once. The long jobs of media, scripts and project copies implement one
requirement, `PhysicalWork`. The copy of a script is checked in `ScriptReview`, on every
history that the review can produce.

## 3. Modules and code

Common to all: a PostgreSQL transaction that locks the rows it decides on
(`FOR UPDATE`) is one action. A decision taken outside such a transaction (the two-step
budget change, the workflows' code between two activities) is a step of its own, with what
it read kept in a variable. An activity that writes is modelled with the ways it can go
wrong: its reply is lost after the commit and it runs again (`Reply`, `Replies`), or the
attempt passes its timeout, is repeated, and still commits later (`late`).

### Budget

One project's `billing.budget` row and everything settled against it
(`billing/domain/budget.go`, `billing/adapter/postgres/`).

| TLA+ | Code |
|---|---|
| `budget` | the row: limit, reserved, settled, `is_overrun`, revision |
| `reservation`, `ledger`, `fact` | the operation's reservation, its ledger entries, the settlement fact in the note of the settle entry |
| `replies` | what `SettleInTransaction` answered, to compare replays |
| `edit` | where a limit change is between its two transactions |
| `Reserve`, `Settle`, `ReplaySettlement` | `ReserveInTransaction`, `SettleInTransaction` and its replay branch |
| `ViewBudget`, `FindBudget`, `ChangeBudgetWithEvents`, `BudgetRevisionConflict` | the page a user looks at, the read and validation, the conditional write, the conflict |

The pure functions of the domain (`CanReserve`, `SettleMicros`, `Charge`, ...) are operators
with the code's overflow guards; `MaxMicros` and `MaxRevision` stand for the widths.

### Operation and ReservationContract

One generation operation on the provider path that goes through the agent queue
(`operation/adapter/workflow/workflow.go` and its activities, `operation/adapter/postgres/
workflow_transition.go`, `provider_call.go`, `app/operation_settlement.go`).

`wf` is the workflow: `pc` is the activity it waits for, the other fields are its local
variables. `op` is the row, `submits`, `queries` and `cancelCall` are the provider calls
recorded before and after each call, `provider` is what really happens outside: requests
under way, the task, how often it was executed. The workflow never reads `provider`; it only
sees answers, and a lost answer is an unknown outcome. That separation is what the
properties are about. `Transition` is one action for the table of transitions
(`Transitions`); submission, query and cancellation are begun, called and completed in three
actions each, because the record is written before the call and updated after it.
`CanFinalize` is the evidence gate that `ProviderCostInTransaction` puts before every
settlement. The administrator is `RecordManualNotExecuted` and `ReceiveResolution`, the batch
parent is `ClaimQueued`, `SettleClaimed` and `ParentSignalsCancel`.

`ReservationContract` is the promise to billing in two variables: a reservation is closed
once, and never while a paid request may have run without anybody having established what
became of it. `ContractKept` is the refinement: `reservation` is whether the status
is terminal, `exposure` is read off the provider call records.

### Batch

All confirmed batches that share providers, projects and canvas nodes
(`operation/adapter/workflow/batch.go`, `operation/adapter/postgres/workflow_batch.go`,
`workflow_batch_cancel.go`, `batch_launch.go`, and the control path through the outbox).

| TLA+ | Code |
|---|---|
| `batch` | the `operation.batch` row; `events` counts its summary events |
| `child` | the operation row with its `batch_launch` slot and whether its workflow runs |
| `settled` | the order of `finished_at`, which the failure streak is computed from |
| `parent[b]` | `BatchWorkflow`: the activity it waits for, what `LoadBatch` returned (`view`), the items left in the pass, what continue-as-new keeps (`acknowledged`, `told`) and what it loses (`started`, `watched`, the buffered signals) |
| `control` | requests accepted by `RequestWorkflowControl` that the consumer has not delivered |
| `Pass`, `Decide` | one iteration of the main loop from the loaded items to the first activity |
| `AcquireBatchLaunch`, `StartChild` | admission under the provider, project and batch locks, then `ExecuteChildWorkflow` |
| `PauseWorkflowBatch`, `ResumeWorkflowBatch` | the breaker |
| `MarkWorkflowBatchCancelRequested`, `ClaimChild`, `SettleChild`, `SignalChild`, `ReloadChild` | the cancelled pass |
| `FinishWorkflowBatch` | `FinishBatch` |
| `ChildSubmits` ... `ChildBreaks` | what `Operation` does, as seen by the parent |

A child's later statuses (submitted, unknown, reconciling, manual, ingesting) are one status
`submitted`: the parent treats them alike. The items of a pass come in any order, since the
code orders them by random identifiers. The outbox and the control consumer are one bag of
accepted requests, delivered in any order; duplicates of a delivery are covered by a second
accepted request, which has the same effect on the channel.

### Quote, FirstOutcome and Pricing

`Quote` is one price list, one model and the quotes and confirmations of one project
(`operation/adapter/postgres/create_quote*.go`, `confirm_single_quote.go`,
`confirm_batch_quote.go`, `confirmation_idempotency.go`, the expiry sweep). `call` is where
each API call is: a confirmation holds its row locks from its first check until the budget
row is locked, which may take long, so the wait is a state, and what it must look at again
afterwards is `FreshAfterBudget`. A batch confirmation is up to three transactions, with the
removals committed before the reservation. `told` is what clients heard; `FirstOutcome` is
the promise about `receipt` and `told`. `Pricing` computes quote and charge as exact
fractions, rounded up once (`operation/application/pricing.go`), next to a reference definition.

### Delivery and ExactlyOnce

The outbox relay, the consumers behind the inbox and the sweep of the workflow starter
(`infra/outbox`, `infra/inbox`, `app/relay.go`, `operation/adapter/event`). A claim with
`SKIP LOCKED`, a publication, a marker and an acknowledged offset are separate steps; a loop
that fails stops its process, which rolls back and starts again. Kafka's group
coordinator may hand a partition over while a record is served. `ExactlyOnce` is what it
implements for the audited events.

### The long jobs: MediaPurge, MediaTransfer, MediaExport, Transcription, Depth

Each module is one job with its commands (events), its workflow, the executions of its
activity and the storage (`media/application/purge*.go`, `transfer*.go`,
`media/adapter/postgres/purge_*.go`, `transfer_*.go`, `mediatool/`). `run`/`exec` is where an
execution is between two external effects; `late`, `inflight`, `writing`, `removing` are
calls to the store that were not answered and may still take effect, after a later claim too;
`native` are the requests or processes that may still run outside. `PhysicalWork` is what
they promise about the process that acts: one at a time, the next only when the last is known to have stopped,
none after the job's final result. `MCMedia` extends `MediaPurge` and instantiates the other
four; what those promise is one property, `JobsHonest` (a `PhysicalWork` of their own, what
storage holds, a cancellation that is kept).

### ProjectCopy, Projects

`ProjectCopy` is one job from the freeze of the source through its stages to a shown or a
removed target (`workspace/adapter/postgres/project_copy*.go`, `media/application/
project_copy*.go`). `Projects` is the lifecycle of projects and of one user's folders
with keyed, revision-checked commands (`project_lifecycle.go`, `project_folder*.go`) and the
work that other contexts admit under the same row lock.

### ScriptSource, ScriptImport, ScriptReview

`ScriptSource` is the frozen request, its objects and the publication of a version
(`script/adapter/postgres/source_store.go`); a request with an unknown outcome stays pending,
and its calls implement `PhysicalWork` for the project (`OneWriterAtATime`). `MCContent`
extends `ScriptSource`, `Packages`, `Projects` and `ProjectCopy` and instantiates `ScriptImport`
and `ScriptReview`.
`ScriptImport` is the file import with its workflow, its runs, the edit of a manuscript
behind its back and its controls (`import_worker.go`, `file_import.go`). `ScriptReview` is the
division of versions into episodes, their structures and the looks that name them
(`episode_split.go`, `structure*.go`); its last part freezes, checks, renames and verifies
that history for a copied project (`project_copy_history.go`). Texts are counted in lines.

### Upload, Ingest, Packages, Library

`Upload` is the local upload with previews, the transaction whose commit may not be answered
and the compensation (`media/application/upload*.go`). `Ingest` is the download, storage,
registration and review of one provider result, tried again while an earlier try may still
run (`media/application/ingest.go`). `Packages` is the import of a package under locks that
belong to a connection, with operations of the store that end unanswered or land late
(`package_store.go`, `package_import.go`). `Library` is the folder tree,
the items, the purge reservations and the owners of references
(`library_command.go`, `purge_store.go`).

### Bible, Canvas

`Bible` is one kind of entry (characters): heads, immutable versions, confirmations,
redirects, splits, pins of other owners, and the media any version ever named. Characters are
merged without a limit; the limit of a chain (`MaxChain`) bounds what a reader follows and what
a copy accepts. `Canvas` is a batch of commands applied to a document's graph
(`canvas/domain/document.go`), its rows of which none is removed, the tools that use other
nodes (`Kept`), the guard the media library asks, and the copy (`canvas/domain/project_copy.go`).

### Identity, CodexImage, Credentials, ModelRegistry, ProjectStream

`Identity` splits an administrator's command into the read it was prepared from and the
transaction under the organization's lock. `CodexImage` is the path that sends once and
cannot ask: the claim, the turn, two staged objects that are never overwritten, the receipt,
the workflow that stops waiting, the administrator. `Credentials` is one provider with tests
whose answers arrive late, twice or in another order than they were asked for. `ModelRegistry` is publication under revision checks
and a client paging through voices. `ProjectStream` is the realtime consumer, the replay
buffer and the SSE handler of one browser.


## 4. Runs

Components that share no state are checked in one run: a behaviour moves one of them, its
`subject`, and the others stay where they begin, so the run explores the union of their
state spaces and a property of a run names the components it speaks about.

| Run | Instance | Distinct states | Shows |
|---|---|---|---|
| `money` | 2 operations, 1 limit change, limits {2, 5}, quotes {0, 2, 3}, costs {0, 1, 2, 4}, widths 7; prices over 4 amounts, factors 1, 2/3, 3/2 | 359 193 | balance, ledger and alerts stay exact through replays, a racing limit change, an overrun, the last revision; prices round once |
| `operation` | a batch child: 2 submits, 2 tries of a query, 2 queries of a reconciliation, 1 late attempt; delivery of one operation by 2 processes, 2 faults | 2 943 797 | one execution, no blind release, verified outcomes, terminal for ever, the reservation contract; every event handled once |
| `live` | the same without late attempts; 1 batch of 2 children, project limit 1, streak 1, 2 controls; the audit of 1 operation by 2 relays and consumers with a crash, a repeated publication and a takeover, its start and control by 2 relays with one fault; fair | 445 485 | everything begun ends; audit rows exactly once; cancels are heard |
| `batch` | 1 batch of 3 interchangeable children, project limit 2, streak 2, a new run after 2 starts, 1 control, failing and refused children, a provider that is disabled | 2 570 128 | no slot leaks, the summary is exact |
| `batch_capacity` | 2 projects of 2 batches (1 + 2 and 2 + 1 children, results reused without a provider), of which one project's are over; two batches of one node with concurrency 1 and 2, project limit 2, provider limit 1, 1 late attempt, fair | 215 778 | no limit is exceeded; every queued child gets its turn |
| `media` | five jobs: 2 items of 2 + 0 (purge) and 1 + 2 objects (transfer), 3 commands, 2 attempts, 2 tries, 3 executions, 1 fault (purge, export) or 2 | 2 284 723 | one worker at a time; storage is what the jobs report; a cancelled job ends as cancelled |
| `content` | a copy (1 media and 1 script object, 3 commands, 3 workers, 1 fault), 2 projects and 1 folder with 2 keys, a script source (2 keys, 1 fault), an import of 2 files (2 attempts, 1 edit, 1 fault), a script of 2 versions of 3 and 2 lines, packages of 2 keys and 2 calls | 1 859 271 | content is shown whole or not at all; first outcomes are repeated; one worker at a time |
| `studio` | 2 concurrent calls confirming a batch of 2 quotes, 2 prices, 2 model versions, 2 other changes; upload, ingest, library, bible (2 characters with media, 3 with merges of chains up to 1), canvas, identity, Codex, credentials, models, stream; two of each actor, at most 5 account revisions and guesses together (`MaxEffort`; two changes after two administrators), other bounds in `MCStudio` | 2 073 869 | confirmations reserve once, fresh, and repeat their answer; what is named is kept, an administrator remains, one paid turn, late answers, gap-free streams |
| `batch_race`, `batch_rollover`, `transfer_stuck`, `stream_skip` | the smallest instance | - | violations: see section 6 |

**Why the bounds are enough.** The code's constants are 3 submits, 10 tries, 6 queries, 20
launches per project, 100 starts per run, a streak of 5, chains of 32, batches of 2000. Each
is compared with a counter only at its limit, so a small value keeps the three cases that
differ (first, further, exhausted) and reaches the last one in far fewer steps. Two
operations show every interference on a budget, since each settlement only meets the sum of
the others. Three children are the least that give a batch one running, one queued and one
settled child at once. Two batches with different concurrency on one node are the least in
which the wider one could overrun the narrower. Two calls, two users, two administrators or
two processes are the least that race; a third only repeats what the second does, because
every pair meets on one row lock. An item of two objects has a first and a last, a transfer
of two items one that a stop leaves behind. `MaxFaults` counts crashes, lost replies and
unanswered calls: one or two suffice, since a job stops at the first and the second meets
its recovery. `MaxLate = 1` lets one attempt commit at any later moment. In `batch_capacity` each limit is
once the only one that refuses: the node's and the provider's in the first project, where the
two children of the wider batch share a provider, and the project's in the second, whose
batches share no node. Tests of a credential are dated 1 or 2, so one result is older than,
newer than or as old as another. Among three characters a second merge makes a chain longer
than `MaxChain = 1`, and one character's chain stays within it. The clock of the accounts ends
before a lock of a guard does, so that a lock expires is proved (`IdentityIsHonest`) and not
in the run. Symmetry is used
for interchangeable children, calls, keys, projects and processes, only in runs without
liveness properties.

In `live` the two relays meet a crash, a repeated publication and a takeover of partitions in
the audit, whose only loop is looked at there (`Steps`), and a crash or a lost acknowledgement
(`OneFault`) in the control of an operation, which needs three more loops. It leaves
something out on purpose, and says so in its bounds: with refused inputs or
continue-as-new the two violations of section 6 would hide everything else (`MayRefuse`,
`RunStarts`); with failing child workflows, disabled providers or late pauses the code stops
a batch for good and promises nothing else (section 7).

Deadlock is not checked (`CHECK_DEADLOCK FALSE`): operations, batches, jobs and requests come
to an end, and the systems then rest.

**Fairness** is assumed in `live`, `batch_capacity` and `batch_rollover` only, and only what
the code relies on:

- the workflow (`WF(Workflow)`, `WF(Parent(b))`): Temporal resumes a workflow after any
  crash and retries its database activities without an attempt limit until they answer or
  return a non-retryable error;
- `OutboxLoop`, `Call`, `Consume`: the loops of a relay process poll for ever and the
  supervisor starts a stopped process again; `SweepStart` is strong, because a crash
  disables it and the sweep comes back every minute;
- `StartBatch`, `DeliverControl`: the starter's sweep and the consumers' retries, as above;
- `SettleClaimed`: it is the second half of a retried activity;
- `ProviderFinishes`: the provider ends what it runs (external);
- `ChildEnds`: a workflow returns once its operation is terminal.

Nothing is assumed about the users, the administrator or an attempt that is late, and
`Batch!FairSpec` does not assume that a child ever settles: it may wait for an administrator
for ever (`manual`). `QueueDrains` speaks about children that do settle, so it is checked
under `AttendedSpec`, which adds exactly that (in `batch_capacity` as `CompetingSpec`,
which begins where the batches of the other project have ended). The choice inside a fair action (which answer,
which next item, whether a reply is lost) is not fair, and a reply that is lost for ever is
excluded only because `Reply` leaves the commit behind: the retry then finds it done.

Each property of a passing run has mutants in `PROJECT.json`: plausible bugs in mapped
definitions under which TLC finds the property violated in the same run. `map` names the
definitions with the lines they model; a helper whose lines lie within those of the
definitions that use it is not listed again.


## 5. Proofs

`MoneyProofs` (`Budget` and `Pricing`), `OperationProofs`, `BatchProofs`, `QuoteProofs`,
`DeliveryProofs`, `MediaPurgeProofs`, `ContentProofs` (`ScriptSource`, `Packages`, `Projects`,
`ProjectCopy`) and `StudioProofs` (`Identity` and `CodexImage`) are checked by TLAPS to the last leaf. They hold for every value of the constants that the named assumptions admit:
`BudgetAssumption` (finitely many operations, amounts within the width),
`OperationAssumption` (positive numbers of attempts), `BatchAssumption` (finitely many
children, each with a batch; positive limits; `"none"` is not the name of a provider or
source), `QuoteAssumption` (finitely many operations, a single confirmation names one quote,
the mark of a missing receipt is no receipt), `PurgeAssumption` (a job lists an item once
and no two items share an object, which the schema's unique constraints on `(job_id,
item_id)`, `(library_id, asset_id)` and `object_key` say), `SourceAssumption` (finitely many
requests, a version has an object, `"none"` is not the name of a request),
`PricingAssumption` (prices and quantities are not negative, denominators and the block are
positive, as the parser of a price version and the usage report demand),
`PackagesAssumption` (calls are numbered, a package has some number of objects),
`ProjectsAssumption` (`"none"` and `"root"` are names of no project and no folder),
`CopyAssumption` (the objects of a target are listed in sequences, and none belongs to both the
media and the script, whose keys have prefixes of their own),
`IdentityAssumption` (finitely many accounts; a guard that locks after a positive number of
failures, for a positive time), `CodexAssumption` (the bounds are numbers) and
`DeliveryConstants` (`"none"`, `"done"` and `"expired"`, the marks of a free and of a spent
marker, are no names of processes: in the code a marker that a process holds is an open
transaction, which no name could be taken for). TLC evaluates these in every run of the
module.

| Theorem | Argument |
|---|---|
| `BudgetTypeCorrect`, `BudgetAlwaysValid` | `TypeInv`: types, `BudgetValid`, and what a limit change has read was itself valid (`EditSound`). Without the last part a change that validated an old balance could be written over a newer one |
| `BudgetConservesMoney` | sums over operations are cardinalities of sets of (operation, micro), so that one changed reservation changes the sum by the difference of two intervals (`MicrosUpdate`); the charge of an open operation is 0 |
| `BudgetSettlesWithinReservation` | the reservation is one summand of `reserved`, so the settlement neither underflows nor overflows |
| `BudgetLedgerAnswers` | `LedgerInv`: the rows of an operation are those of the transactions that wrote them (`Booked`), so they add up to its reservation, and the settlement fact that a replay reads is the one the settle row was written with; the limit is the sum of its changes (`limitDelta`), because a write whose revision is not the one it read is refused |
| `BudgetLowBalanceAnnounced`, `BudgetOverrunOnlyBySettlement`, `BudgetClosedForever` | action properties from `TypeInv`, one step per action: only a settlement above its reservation can take the balance below zero, since a reservation and a limit change look at the balance they are written to |
| `OperationTypeCorrect` | also that the attempt counter stays in range at every step that submits |
| `OperationTerminalForever` | no request in the code's table leaves a terminal status, including late ones (`LateOK`: what a late request may be) |
| `OperationExecutesOnce` | `IInv`: the first attempts were all answered "not submitted" (`AttemptsOK`), and the number of executions and requests under way is bounded by the attempt that is open, unknown or accepted (`ExecutionsOK`) |
| `OperationNoBlindRelease` | conclusive evidence means the task has ended (`EvidenceOK`), and the gate admits a settlement only with it or with no submission (`GatedRelease`) |
| `OperationOutcomeVerified` | `Outcome`: `IInv` says what ran, and `Truth` what the workflow knows of it: what its local variables say of the provider is true (`KnowsOK`), a request that outlived its timeout still says what happened when it commits (`LateTrue`), the row says no more than the provider calls (`RowOK`), and the calls fit the phase of the workflow (`CallsOK`) |
| `OperationKeepsContract` | the refinement: every step of `Operation` is a step of `ReservationContract` or leaves `reservation` and `exposure` alone. `CallExposure` follows a submission to what became of it, and a settlement is `Close` because `CanFinalize` is the contract's guard under the mapping |
| `BatchTypeCorrect` | what a parent aims at is a child of its own batch whenever it works on one (`Good`), and so is a late admission |
| `BatchSlotsHonest` | a parent about to start a child holds its slot, or the child is already settled (`StartAdmitted`): the invariant needs it because the admission and the start are two steps with a lost reply or a settlement in between |
| `BatchCapacityKept`, `BatchSourceShareKept` | a step gives a slot to one child at most, and only after the limits were read in the same step (`ActiveStep`, `RoomTaken`); for a source, a batch with a slot has its limit in `SourceLimits` of every other batch |
| `BatchSummaryExact` | a settled child never changes its status (`Changes`), so the counts taken under the finish stay true |
| `BatchClaimedNeverCalls` | only a child in `submitting` calls its provider first (`Changes`) |
| `QuoteTypeCorrect` | an instant has a current price: among finitely many effective ones there is a latest (`PriceExists`, by well-foundedness of the strict subsets of a finite set) |
| `QuoteConfirmedWhole` | `Inv`: what a confirmation selected stays quoted, and its batch open, until it holds the budget (`Locks`), since whoever else changes rows waits for the rows it holds (`LocksApart`, and what is held is locked) |
| `QuoteConfirmedWhileFresh` | only a reservation confirms (`StepConfirms`, `OtherStepsConfirmNone`), and it looks at every selected quote after the budget row was locked; the inputs are ready because the lock has kept them so since the first look |
| `QuoteAnswersFirstOutcome`, `QuoteSuccessIsRecorded`, `QuoteOncePerRequest` | the refinement of `FirstOutcome`: a call that is under way has its key to itself and the key has no outcome yet (`KeysHeld`), so storing one is `Decide`; what is rejected never carries the code of a success (`CodesMeant`) |
| `PricingTypeCorrect`, `PricingExact` | a ceiling is the least number that covers its fraction (`CeilDivIs`), so it keeps the order of fractions with one denominator (`CeilDivGrows`, `FinishGrows`); used quantities within the quoted ones have no higher exact price, unit by unit (`AmountsGrow`, with `BlocksGrow` for started blocks of characters and `SelectedIs` for the shortest length that is long enough) |
| `DeliveryTypeCorrect`, `DeliveryNothingLost` | `Written`: a record of the broker, a claimed row and an order of creation each name a row of the outbox, and a row that is marked published has its record |
| `DeliveryDeliveredOnce` | `Reading` and `Marking`: a loop whose process owns its partitions handles the record at the committed offset, and holds that record's marker from before its effect until it commits both; so a commit never passes a record without a spent marker (`NothingSkipped`), and an operation is started once (`Starting`), by the event or by the sweep |
| `DeliveryAuditNeverTwice` | the safety part of the refinement of `ExactlyOnce`: the audit row and the spent marker are one transaction (`Auditing`), so the effect of an event changes once and only after it was sent |
| `PurgeTypeCorrect` | `IInv` below: the indices of a worker stay within its items and their objects |
| `PurgeBytesFollowCatalog` | the part `ItemsOK` (an asset is hidden exactly while its item is reserved for the purge; an object whose removal was begun belongs to such an item; a purged item has a receipt for each object) and `ObjectsOK` (an object whose removal was never begun is stored and no call for it is in flight; one with a receipt is gone) |
| `PurgeOneWorkerAtATime` | the refinement of `PhysicalWork`: whoever may act is the process in the job's row (`HolderKnown`), under the attempt it was claimed with, and that row is unsettled; so a claim that found the last process ended meets no holder, and a final result leaves none |
| `SourceTypeCorrect` | `IInv` below: a base and the head are published versions, a number is at most that of the versions (`NumberOK`) |
| `SourceIsHonest` | a call that writes owns its request under `io = "running"`, and the request is pending until that call completes it (`CallOK`); what an uncancelled request has confirmed is stored (`WriteOK`), so what is published is whole; a control removes only for a cancelled request that no call has claimed (`ControlOK`) |
| `SourceOneWriterAtATime` | the refinement of `PhysicalWork`: two calls that write would own pending requests of one project, and a pending request keeps every other one out (`OneWriter`); a call that died keeps its ownership |
| `PackagesTypeCorrect`, `PackagesAreHonest` | `PackagesInv`: a call that holds the locks works for an open import (`ServiceOK`) and is the only one that does (`OneHolder`), so what it has written or removed so far is still so when it publishes or cancels; a lost connection leaves at most one operation behind, and what it may do is noted with the job (`LateOK`) before it can land |
| `ProjectsTypeCorrect`, `LibraryIsHonest` | `LibraryInv`: work runs only where the project may be written (`ProjectOK`), a copy's target is where it was put and its source not recycled (`CopyOK`), because whoever closes, moves or recycles looks at both under the project's lock; a project that is still to be created is filed nowhere, without which recycling a folder could close it; and an answer to a lasting change is the one on record (`RecordOK`), which no clock expires |
| `CopyTypeCorrect`, `CopyIsHonest` | `CopyInv`: only the job's worker is at work (`WorkerOK`), so what it has read stays so; until the copy is cancelled what is recorded as verified is stored, and an unanswered write of the media is on record as begun with its object absent (`OnRecordOK`), so that publication finds everything and a cleanup that refuses an absent object it has begun leaves nothing behind. The stage of the media ends before that of the script begins, which is why an object in hand is one or the other (`JobOK`, `Current`) |
| `CopyOneWorkerAtATime` | the refinement of `PhysicalWork`: the holder is the worker in the job's row until it has closed (`HoldersAre`); `Claim` finds none there, and only the last word of that worker or the final result empties the row |
| `IdentityTypeCorrect`, `IdentityIsHonest` | `IdentityInv`: the administrators that a command counted under the organization's lock are still there when it writes, because a second command waits for the lock (`CommandsHold`); a session whose password is gone is revoked or carries an old epoch, and epochs never go back (`SessionsFollow`); while a guard is not locked the failures it counts are exactly the guesses of the last `LockDuration`, and a lock outlasts every window with a guess before it (`GuardsCount`), so no window, wherever it starts, has more than `LockFailures` |
| `CodexTypeCorrect`, `CodexIsHonest` | `CodexInv`: only the first execution of the adapter gets past the claim (`SenderHolds`), so one turn is paid; objects are staged image first and never overwritten (`EvidenceHolds`); "not submitted" and "cancelled" are answered only by an execution that has sent nothing and never will (`AnswersHold`); and the workflow releases only after such an answer or an administrator's decision (`FlowHolds`) |

The inductive invariant of the purge cannot be split by theorem: that a receipt means the
bytes are gone needs the worker's place (`WorkerOK`: it confirms only an object it has removed
and nobody can have written again), the place needs that no second worker acts, and that needs
the job's row (`Counted`: attempts and workers come from accepted commands, so a new one is
numbered above every old one). A worker that outlived its lease is harmless only because its
writes name its fence. TLC checked it first, on two items of two and one objects.

The invariant of the sources is one for the same reason: bytes stay because nobody removes
them, a removal is safe because the call that wrote has ended, and that a control knows it has
ended (`ControlOK`: a stop is proved only of a call that returned or was never there) depends on
who owns the request. That no two versions have one number or the same sources rests on a
pending request being current (`PendingCurrent`): no other version can appear beside it. TLC
checked the invariant first, on 2 requests of 2 objects, 2 calls, 2 controls and 1 fault.

`BatchProofs` and `DeliveryProofs` prove once what any step does to one child (`Moves`), one
batch row (`Progresses`), one parent (`Walks`), or which action changes which variable
(`Frames`); each theorem is then a few lines over these.

**Only model-checked**: `CancelledMeansStopped`, `CompletedMeansSucceeded`,
`ManualReleaseVerified`, `ClaimedNeverSubmitted` and `SettlementAccepted` as formulas of
their own (the first three are parts of `OutcomeVerified`); `ParentSurvives` of `Batch` (it
does not hold in general); the long jobs of the media library other than the purge,
the import of files and the division of scripts into episodes, and the studio other than its
quotes, accounts and images of Codex. They have the same form (types, an invariant of the rows, one
lemma per action) and nothing in them is beyond the prover except what is named next.
`ShownStays` of `Packages` does not hold (section 7), so `PackagesAreHonest` speaks about
packages none of whose operations outlived the locks (`doubted`).
The liveness properties (`EverythingEnds`, with `Batch!CancelHeard` in it, `QueueDrains`, and
that an audited event is eventually handled in `AuditIsExactlyOnce`) stay with TLC: temporal
reasoning under fairness, `ENABLED`, and induction over data are out of this prover's reach.
No module uses a RECURSIVE operator.


## 6. Where code and documentation disagree

- **A child that settles by itself makes the parent of a cancelled batch fail**
  (`batch_race`). `LoadBatch` reads a child as confirmed; the child is settled without a
  provider call (its frozen inputs are refused, or a result is reused); then
  `MarkQueuedWorkflowOperationCancelling` (`operation/adapter/postgres/
  workflow_batch_cancel.go:83`) meets a status it answers with a non-retryable
  `ErrInvalidWorkflowBatch`, and `BatchWorkflow` returns it. The batch stays running, its other
  queued children are never released, and no sweep restarts it. The comment at line 16 says
  the transition "races safely with the child's move to submitting and provider-call
  recording", and a test expects the same race at the signal to be accepted.
- **A cancel that arrives during a launch pass is lost at continue-as-new**
  (`batch_rollover`). The cancel channel is read once per pass, before the launch loop; when
  the loop ends the run (`operation/adapter/workflow/batch.go:334`), a signal delivered
  meanwhile is still buffered and dropped, though its event was acknowledged. The comment at
  `operation/adapter/event/workflow_control.go:18` calls these intents durable.
- **A cancelled transfer leaves items it never looked at** (`transfer_stuck`). The cleanup of
  a cancelled transfer returns at the first item it cannot settle
  (`media/application/transfer_worker.go:165`); an item behind it whose write is not known is
  never settled, though "Cancellation cleans only unpublished rows".
- **A reconnection skips events between two copies of one event** (`stream_skip`). `Replay`
  resumes from the first entry with the browser's `Last-Event-ID`
  (`infra/realtime/adapter/redis/replay.go:24`), so that "later unique events are never
  skipped"; when the first copy has left the buffer, the first match is the second copy and
  the events between the two are not replayed.

## 7. Observations without a run

Met while modelling. The first six are stated as definitions that TLC refutes in the
module's own instance (they are in no run, because a run that expects a violation is kept
for the four above); the repository promises nothing that the others could contradict.

- `RetriesFailed` (`ScriptImport`): after a publication that failed without uncertainty, with
  one file failed and another read but not published, a retry extracts every unpublished
  file, but `RecordImportFile` refuses those outside the attempt's positions
  (`script/adapter/postgres/import_worker.go:206`), so the retry can never succeed; compare
  "Retry accepts only failed originals" (`script/adapter/http/import_handler.go:154`).
- `NotStranded` (`ScriptImport`): a worker that dies after its publication leaves a succeeded
  job with an owner of its input/output for ever, which blocks the project's script.
- `ShownStays` (`Packages`): a database connection lost during a cancellation, followed by a
  reconciliation that publishes, lets the cancellation remove published bytes
  (`media/adapter/postgres/package_store.go:463`).
- `ReservedExact` (`Library`): deleting a folder of a personal library counts the revision of
  items reserved for a purge (`library_command.go:233`); the purge can then neither finish nor
  be cancelled.
- `CopyAccepted` (`Canvas`): a canvas of more than 2000 edges is refused by the copy, whose one
  `Connect` command carries them all (`canvas/domain/project_copy.go:142`), though documents
  may hold 4000.
- `ScriptClean` (`ProjectCopy`): an unanswered, repeated script write may outlive the
  cancellation.
- **Operation and batch.** A child workflow that fails while its operation is open makes the
  parent return, with queued children neither launched nor released (`batch.go:203`). A second
  resume accepted while a batch is paused stays in the channel and lifts the next pause. A
  `PauseBatch` attempt that outlives its timeout can pause a batch again after the user's
  resume. A provider disabled between confirmation and admission makes `AcquireBatchLaunch`
  fail for good, with reservations held. A control for a workflow that failed while its row is
  live is answered NotFound at every delivery and stops the relay. A manual "succeeded"
  without output files leaves an operation in `manual`. A cancel accepted while an operation is
  `confirmed` is looked at after its submission. `RecordManualNotExecuted` has no caller in
  production code.
- **Quote and budget.** An item the sweep expires between the two transactions of a batch
  confirmation appears in no list of the answer. `expired_count` of the audit counts confirmed
  items too (`confirm_batch_quote.go:233`). A reservation that takes the balance below 20 %
  raises no alert (`LowBalanceAnnounced` names the exception).
- **Long jobs.** A removal of a cancelled transfer that was not answered
  (`media/application/transfer_worker.go:106`) may land after a reconciliation found the object
  and published its item: nothing keeps the next claim waiting for it. `PublishedComplete`
  excepts objects with an unanswered removal (`removing`). A cancel of a purge between its last removal and its finish answers
  "cancelled" and ends "partial_failed". A queued job whose workflow failed before it claimed
  can only be cancelled; a crashed worker blocks its job for ever, by design. An export in
  `cancel_requested` whose worker died stays so and counts against the limit of 2. A depth
  job whose cleanup meets one database error stays stuck.
- **Project copy.** When `StopAttempt` fails or a worker process dies, nothing can free the
  job or its source. A lost first media write can be neither published nor cancelled.
- **Script.** A source call whose process died keeps its claim for ever. A look limited to a
  whole episode dangles after a later confirmation.
- **Media.** Two live assets of one content exist after a restore. A provider that hands out
  other bytes after a partial write leaves the operation in `ingesting`. Any other library
  edit makes an open package job only cancellable. Text items are purged without asking for
  references.
- **Bible and canvas.** A merge looks at the redirects of its two characters and not at those
  that lead to them (`bible/application/identity_changes.go:13-36`), so merges one after the
  other make chains of more than the 32 redirects that readers follow and
  `project_copy_history.go:243` accepts. Such a character, like one merged into a character
  that is later deleted, is answered as corrupt history, and the project can no longer be
  copied. `BibleHonest` excepts the chains that are too long (`TooLong`) and says that nothing
  else loses a character or stops a copy. No
  `Impacts` port is wired, so deletions and merges answer "unavailable" in the deployed
  program. An asset in the trash that a canvas shows blocks the copy of its project.
- **Identity and catalog.** An account registered before the bootstrap makes it refuse for
  ever. An administrator who must change the password counts as active. A credential-test
  event whose receipt was purged is refused for ever.
- **Codex.** A receipt recorded whose answer was lost makes `CompleteProviderCall` refuse the
  later "unknown" (`operation/adapter/postgres/provider_call.go:384`), the workflow fails and
  the operation stays `submitting`. No process registers the adapter yet.
- **Realtime.** An older event may be shown again after a reconnection; `budget.updated` comes
  from two topics without a revision, so a shown balance can go back.

## 8. Not modelled

- **In the modelled components**: amounts inside `Operation` and `Batch` (money is the subject
  of `Budget` and `Quote`); texts, titles, positions and other data that no decision reads;
  the deletion of a project or batch row under a running workflow; the export of packages and
  the archive formats; locations and props of the bible, which are characters without looks.
- **Queries and request decoding** of every context, configuration and connections: pure I/O
  without state of their own.
- **Pure conversions**: document extraction (`script/adapter/extract`), prompt compilation,
  archive formats. They are sequential functions over large data.
- **The database schema** as such (its constraints are guards where they matter), the
  **client**, and the **provider agent**, which is not in this repository and appears only as
  `provider`.
