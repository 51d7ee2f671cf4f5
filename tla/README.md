# Verification of the OMP workflow server

TLA+ models of the parts of this server where several actors write the same
rows: NAS agents, HTTP requests, background workers and cron jobs. The modules
are translated from the Go source and its SQL; TLC checks them on small
instances and TLAPS proves the safety properties and the refinements for every
instance. Six models stand side by side, one per group of tables that is written
concurrently; each has an `MC` module with its TLC instances and a `Proofs`
module with its theorems.

    tlc -workers 2 -config Distribution_safety.cfg MCDistribution
    tlapm DistributionProofs.tla

`PROJECT.json` lists for each definition the source lines it models, and for
each property the run that checks it and a mutant of the code that breaks it.

## 1. Inventory

The server (`cmd/server`, `cmd/api`) is one Go process over MySQL, Redis and an
object store. `transport/` decodes requests, `service/` decides, `repo/mysql/`
writes, `workers/` and the cron entries of `cmd/server/main.go` run beside the
requests. Two generations of workflow live in it: SKUs that are audited and
distributed to NAS hosts (`policy`, `service/{sku,audit,agent,incident}.go`,
`workers/`), and V7 tasks (`service/task_*.go`, `service/audit_v7_service.go`,
`service/warehouse_*.go`).

| Component | State | Operations | Shares state with | What makes it correct |
|---|---|---|---|---|
| Distribution jobs | `distribution_jobs`, `job_attempts`, `skus.workflow_status` | PullJob, Heartbeat, AckJob, lease reaper, retry scheduler | event log, incidents | retry budget, no zombie job, Done only for delivered files, completed when the last job is |
| SKU policy | none (a table) | CanTransition | every writer of the SKU status | each writer stays inside the table |
| Event log | `sku_sequences`, `event_logs` | nextSequence, Append, ListSince, GetLatestSequence | all writers of SKU state | one stream per SKU that grows at its end in the order of time; recovery without holes |
| Event dispatcher | Redis cursor | dispatch pass | event log, websocket clients | what is read is published, an event is missed only if it commits late, order |
| V7 task core | `tasks`, `audit_handovers`, `warehouse_receipts`, `task_event_logs` | assign, claim, submit, upload, audit, handover, outsource, receive, reject, complete, close, cancel | task modules, filing, jobs | one map of the statuses, no stage skipped, receipt agrees with status, right handler, claims do not steal |
| Auto release and archive | none of their own | cron runs | tasks, receipts | ignored tasks leave the warehouse, nothing is closed that should not be |
| ERP filing | `task_details`, `task_sku_items` | TriggerFiling | close, auto release | no lost update around the ERP call |
| Task modules and pool | `task_modules`, events | ClaimCAS, Apply, blueprint rules, CloseOpenModules | task core | module states agree with the task |
| Product sync | `erp_product_sync_records` | refresh, sync requests, claim, push of base and image, push after closing, picture selection | filing, ERP, close of a task | synced means the push was taken, the last picture taken is the row's, a request is not forgotten |
| Export center | `export_jobs`, dispatches, attempts, events | create, dispatch, start, advance, download claim, read, refresh | none | job and attempts move together, a download is earned, the audit trail is true |
| Integration center | call logs, executions | the same shape as the export center | none | terminal states stay |
| Asset lifecycle | `task_assets`, `design_assets`, objects | upload of a version, preview, archive, restore, delete, cleanup | upload sessions, close of a task | files in use stay, no file without its row, lost files are found |
| SKU audit, incidents | `skus`, `audit_actions`, `incidents` | submit, audit A/B, verify, assign, resolve | SKU policy | implements the table |
| Websocket hub | in-memory connection sets | register, broadcast, unregister | event dispatcher, notifications | no send on a closed channel |
| The rest | CRUD, reads, parsing, frontend | | | see `components` in PROJECT.json |

What is hard here:

* *Read, decide, write by id.* Nearly every service method reads outside its
  transaction and its UPDATE names the row by id only. Whatever happens in
  between is overwritten. Few writes look again: `CASWorkflowStatus`,
  `PullPending` (FOR UPDATE), `ClaimPendingAssignment`, `ClaimCAS`,
  `CASUpdateStatus` and unique keys.
* *Leases and workers.* Agents die, leases run out while an ack is under way,
  and the reaper and the scheduler rewrite rows they selected earlier.
* *Two transactions per request* (PullJob, the end of AckJob), with a crash or
  a failure between them.
* *A cursor over a table with concurrent commits* (the dispatcher).
* *Jobs beside people*: the auto-release job closes tasks that a keeper, a
  clerk or the creator is working on.

The full list of hazards, with their lines, is in `PROJECT.json`.

## 2. Modules

### SkuWorkflow: the abstract specification

The map of `policy/engine.go` as a state machine over `skuStatus`: a step moves
one SKU along `allowedTransitions`. It is what the code that hard-codes its
compare-and-set pairs has to implement.

### Distribution

One step is one transaction, or one read a later transaction of the same
request relies on. `call[h]` is the request a handler is serving, so the reads
of `AckJob` (`OwnsJob`) and its writes (`AckDone`, `AckFail`) are apart, as are
`ListBySKUID` and `CompleteSKU` of tryCompleteSKU, and `PullPending` and
`AdvanceSKU` of PullJob. `reaping` and `retrying` hold what a worker pass has
selected and not yet rewritten; `MarkStale`, `MarkRetrying` and `MarkExceeded`
are the per-row transactions. Time is reduced to two facts, whether a lease
still runs and whether the next retry is due, which change at any moment.
`holder[a]` is the agent's side: unaware, working, finished with one of three
outcomes, or gone. Faults (`CallTxFails`, `WorkerTxFails`, `ServerCrash`) are
counted against `MaxFaults`. Evidence and file names are reduced to whether the
policy accepts the evidence. Events are reduced to the newest one per job and
SKU, which is what the rows have to agree with.

### EventLog and EventStream

Writers open transactions (`AppendEvent` takes the lock of the counter row and
keeps it), commit or roll back; `created_at` is the second of the insert and
`id` an arbitrary unused number, as a UUID's order is. The dispatcher reads a
batch behind its cursor (`Dispatch`), publishes row by row (`Publish`), saves
the cursor (`SaveCursor`) and may fail in between. `ListSince` and
`GetLatestSequence` are the two reads of SyncStatus.

`EventStream` is what the clients of a SKU are promised: one sequence of events
that is only extended at its end and in the order of time, a channel that
announces nothing which is not in the stream, and an answer to a client that saw
a gap which holds everything up to some length the stream had meanwhile.
Counter rows, locks, open transactions, rollbacks, batches and the cursor have
disappeared from it. The refinement mapping (`Stream`, `Entry`) reads the
committed rows of a SKU by their sequence number; it is a function only because
the numbering is dense and unique, which is therefore proved first.
`EventsAreMissedOnlyLate` says what the dispatcher adds to that: an event it
does not publish has committed after the dispatcher had read past its time.

### TaskFlow and TaskLifecycle

One design task of the normal lane. Every method is two steps: `BeginX` has all
guards of the method (authorization, status, handover, receipt) evaluated on
what it read and records the columns it will write; `CommitX` applies them to
whatever the row is by then, with the side effects of the same transaction
(module, review state, receipt, handover, milestone). `Keep` marks a column the
method does not write. The compare-and-set commits have their WHERE clause as
guard. `done` is the set of milestones in `task_event_logs`; `job` is a run of
the auto-release job in its three parts, list, load and release. Users are
given by roles and by `OrgScope`; what the authorizer grants to each is in the
guards. A filing attempt (`TriggerFiling`) ends either way at any time: Approve
and Complete start one and ignore its result.

`TaskLifecycle` is the abstract specification: the status of a task and its
warehouse receipt, one action per edge of the map people know, and nothing about
requests, roles, handlers, modules or jobs. The code has no such map: each method
hard-codes the statuses it starts from and the one it writes, and writes by id.
`ImplementsTaskLifecycle` says that, while requests commit one after the other
(`CommitsAlone`), they follow the map although the release and the archive job
write the same row between a request's read and its commit. This is where
`TakeBack` comes from: a completion or a close that was decided before the job
finished the task takes it back, and no other edge leads out of Completed and
Archived except the creator's cancel.

### ProductSync

The rows of `erp_product_sync_records` of one task. An operation (a worker pass,
a push after closing, a page) remembers in `pass[a]` the rows it has read, the
row it is at, the call it makes and the answer it got: `ClaimQueuedSyncRecords`,
`TaskClosed` and `OpenPage` read, `SyncBase` and `SyncImage` call the ERP,
`MarkBase`, `MarkImage` and `MarkWhole` write the outcome by id, `MarkLost` is a
mark whose transaction fails and `Stop` a process that ends. What an operation
remembers of a row is the columns it goes on to use.

The calls, and the pushes of `TriggerFiling`, go through the hybrid ERP client.
`UpsertProduct` says who took a push: the ERP; the local products table, which
answers for the ERP with a success when the ERP failed in a transient way
(`service/erp_bridge_remote_client.go:486`, on by default,
`config/config.go:262`; ERP_REMOTE_MODE=local always does); or nobody, which is
reported as an error. A call that reports an error may have taken effect, before
it is answered. `erp[r]` keeps who holds the SKU and the last picture that was
taken; the local client drops a picture it is given
(`service/erp_bridge_local_client.go:178`), so that one is `Dropped`.
`GetProductByID` falls back the same way (`Held`). The readback after an image
push accepts any absolute URL and never compares it with the pushed one
(`service/product_management_service.go:660`), so `SyncImage` lets it decide
between ok and retry and nothing else. The constant `Fallback` says whether the
products table may answer. Held and Shows read the ERP alone when it is FALSE.

Of time the module keeps what the SQL asks of a
row: is its last check ten minutes old (`old`), does its cooldown lie ahead
(`cooling`), has the task been edited after the row (`edited`). `overtaken` is a
history variable: the picture was changed while another operation that had read
the row was running.

### ExportJobs and ExportLifecycle

One export job with its dispatches, attempts and download handoff. A request
first reads the job (`StartJob`, `AdvanceJob`, `CreateJobDispatch`, ...), then
the latest dispatch, the latest attempt or the event list (`LookForX`,
`ListEvents`), then commits one transaction that writes by id (`CommitX`). The
roles are kept apart (operators, dispatchers, readers) so that a run can say
which of them overlap. Events are reduced to what the properties compare:
`logged`, the status named by the last lifecycle event; `won`, the attempts an
attempt_succeeded event names; `granted` and `expired`, the keys of the download
events. `ExportLifecycle` is the abstract specification: the status of a job and
the ledger of its attempts, and nothing about requests.

### AssetLifecycle

One row per version of two assets of a task, the uploaded one and the preview
derived from it; an object is named by the row it was stored for. Uploads and
renders read the current version in one step and commit in another. The cleanup
job lists its candidates with their keys (`StartRun`), removes one object per
step (`EraseObject`), marks a candidate in a transaction (`MarkCleaned`), and
loses its list when a call fails (`RunFails`); a delete request removes the
objects before its transaction decides (`CommitDelete`). Ages are order facts: a
task becomes `aged` after 365 days, a superseded row `due` after 15.
`condemned` and `late` are history variables: objects a delete request removed,
and rows created while the list of an eraser was out.

### How they relate

The modules meet at two facts, which each of them has as free steps: TaskFlow's
filing is ProductSync's `TriggerFiling`, and the close of a task is
ProductSync's `TaskClosed` and AssetLifecycle's `CloseTask`. Since those steps
are possible at any time there, every order the composition could produce is
covered. Distribution and EventLog meet at Append: Distribution's events are the
newest per row, EventLog has their numbering.

## 3. Runs

| Run | Instance | Shows |
|---|---|---|
| distribution_safety | 2 jobs of 1 SKU, 2 handlers, 2 attempts, 1 retry, batch limit 1, 1 fault | retry budget, reads that stay current, no job invisible to the reaper, Done and Completed only for delivered files, log equals rows, no lost completion |
| distribution_liveness | 1 job, 1 handler, 2 attempts, 1 retry, 1 fault | zombies are reclaimed, jobs settle; the SKU implements SkuWorkflow |
| eventlog_log | 1 SKU, 2 writers, 3 events, 2 seconds, batch of 2, 1 fault | dense numbering, recovery without holes, EventLog implements EventStream, an event is missed only if it commits late, what was read is published |
| taskflow_life | 2 designers, 2 auditors, keeper, clerk, 2 handovers, 1 request at a time, jobs beside it | TaskFlow implements TaskLifecycle, handler fits the status, handover freezes the audit, the warehouse never stalls |
| taskflow_races | 2 concurrent requests of a user with all office roles, release job, archive | no stage skipped, receipt agrees with the task |
| taskflow_claims | 2 designers and a clerk, 2 concurrent requests | a claim never takes a task from its designer |
| productsync_race | 1 row, 2 pictures, a worker, a push after closing, a page, 3 requests | synced means a push was taken; another picture than the last one the ERP took only after an overtaken operation or a push the products table answered |
| productsync_retry | 2 rows, 1 picture, a worker that may stop or lose its marks, 2 requests | filed means taken by the ERP or its local stand-in; a wanted sync is attempted or settled |
| export_race | 2 operators, a reader, 2 dispatches, 2 attempts, 3 keys | a running job keeps a running attempt; a download is earned |
| export_serial | 1 operator, 1 dispatcher, 1 reader, same bounds | ExportJobs implements ExportLifecycle; audit trail, expiry records and dispatches are right |
| asset_files | 1 task, 2 uploads, 3 versions, 3 incidents | the file in use stays, lost files are found again, no file outlives its row |
| asset_stuck | 1 task, 1 upload, 2 versions, 1 incident; violation | files of tasks closed for 365 days are not always cleaned up |

Why the bounds are enough. Two jobs and two handlers are what the races of
tryCompleteSKU and of ack against reaper need; two attempts with one retry let a
job be lost, retried and exhausted; a batch limit below the number of rows makes
the limit bite; one fault is a failure at any single point. In EventLog two
writers contend for one counter and three events straddle a batch and a second.
In TaskFlow a lost update takes two requests. taskflow_life has one request at a
time on purpose: OwnershipIsFresh, HandoverFreezesAudit and the refinement
describe the serial protocol and do not survive overlapping commits (section 6);
their theorems allow the overlaps that do no harm (section 5). taskflow_races gives one user the roles of auditor, keeper
and clerk: the guards that depend on who calls only become weaker, so no
interleaving of different users is missing from the stages; without designers
the delivery comes from the owner organisation's upload. In ProductSync one row
with two pictures and one operation of each kind is what a replaced picture and
a result that arrives late need; two rows are what the filing of a whole task
and a worker that stops half way need. Both runs have `Fallback = TRUE`, the
default, whose behaviours include those without the fallback; the theorems are for both. In ExportJobs two attempts let a job be
requeued and run again, two dispatches let one be refused and another received,
three keys let a handoff be refreshed twice; export_serial has one actor of each
kind because its properties describe what holds without overlapping commits
inside one role (section 6); here too the theorems admit any number of actors. In AssetLifecycle three versions are a source, its replacement and
a preview of either, two uploads overlap, and three incidents are a request, a
backfill and a failed call together. The safety properties are the theorems of
section 5 as well, so for them the instances are examples.

CHECK_DEADLOCK is off in Distribution, EventLog and ProductSync, whose attempts,
ids, seconds and requests are used up in the end. TaskFlow, ExportJobs and
AssetLifecycle always have a next step.

## 4. Fairness

* Distribution: weak fairness of the reaper and of the scheduler, because
  `workers.Group` ticks them as long as the process lives (a crash is followed
  by a restart); of every started request, because net/http runs each handler
  to its end; of leases and retry times, because time passes. `JobsSettle` also
  assumes agents: some agent polls again and again (strong fairness of pulling,
  since a pull is disabled while all handlers are busy), and an agent that
  works finishes or dies.
* EventLog: weak fairness of the dispatcher's own steps, its ticker.
* TaskFlow: the cron entry starts the release job every five minutes (weak
  fairness of its steps); strong fairness of the release itself, because a run
  may fail and the next one tries again, so a release that keeps being possible
  is not always the one that fails.
* ProductSync: weak fairness of the worker's steps, since its ticker fires every
  30 seconds while the process lives and a call or a transaction ends (maybe with
  an error); and of time. Nobody has to make a request, and a pass may stop at
  any step. `SyncIsAttempted` therefore promises an attempt, not a success.
* AssetLifecycle: weak fairness of the cleanup job, which cron starts every
  night (`cmd/server/main.go:548`, when ENABLE_CRON_OSS_365 is set).
* ExportJobs: none. Every step of it is somebody's request.

## 5. Proofs

All theorems are for arbitrary constants that satisfy the named assumptions of
the modules, so for any number of jobs, agents, requests, users, rows, versions
and faults. Three properties of TaskFlow, four of ExportJobs and one of EventLog
do not hold of every behaviour, because the code does not protect them. Their
theorems restrict the steps and not the constants: `[][CommitsAlone]_vars` (a
request that commits finds no other one under way),
`[][CommitsAlone(role)]_vars` (the same within one role of an export job) and
`[][~DispatchFails]_vars` (no pass of the dispatcher fails). These say what the
rest of the system has to provide, for instance by serializing the users of one
task. They are far from empty: an instance with one request satisfies the first
two by itself, any number of requests may be under way as long as those which
overlap with a commit fail, and all jobs run beside it.

*Distribution* (`DistributionProofs`). `TypeCorrect`. `RetryBudgetHolds` and
`RetryCountReadIsCurrentHolds` need each other (`BudgetInv`): a pass that trusts
an old count may go over the budget, and the count it read stays the row's
because only the pass itself increments it. The budget counts a Pending job's
unspent retry with its attempts, which is what makes it inductive.
`RunningIsReapableHolds` needs no
strengthening beyond types. `CompletionIsEarnedHolds` rests on `CallsAreSound`:
what a request in flight is about to write was earned when it checked, and
`Delivered` is stable because attempts and outcomes are never taken back. That
is why the stale ack of section 6 does no damage to the meaning of Done.
`LogAgreesWithRowsHolds` goes action by action. `RefinesSkuWorkflow`: every
step leaves the SKU alone or takes an edge of the policy table, with the
identity as refinement mapping. `NoLostCompletionHolds`: only an acknowledgement
writes Done, and its request lists the SKU's jobs after that commit, so of two
racing acknowledgements the later commit sees both. It remains that its
compare-and-set finds the SKU running: `Announced` says that an agent knows an
attempt only once the pull that made it has moved the SKU on (`LostInv`). A failed
transaction makes the property vacuous, because a crash between the
commit and the listing does lose the completion.

*EventLog* (`EventLogProofs`). `NumberingInv`: the committed rows of a SKU are
numbered `1..lastSeq`, an open transaction holds exactly the next numbers and is
the only one for its SKU, and its rows are not older than the committed ones (`LogIsSound`, `TxIsSound`).
`SequencesAreDenseHolds` and `TimeFollowsSequenceHolds` follow.
`RecoveryHasNoHoleHolds` adds `SyncIsSound`: what the first read returned is
committed, and committed numbers only grow. `EventStreamIsImplemented` is the
refinement, by simulation under `StreamInv` (numbering, sync and
`TodoIsCommitted`: a pass holds committed rows only). Its lemmas say that a
committed entry stays what it is (`EntryStays`), that only a commit changes the
stream, at its end, and that all other steps map to one action of EventStream or
to a stutter. `OnlyLateEventsAreMissed` is an action property about a cursor that
compares (created_at, id) while ids are arbitrary: a batch is everything between
the cursor and its last row, whatever the limit cut off (`BatchIsContiguous`), a
pass is ahead of the cursor it started from (`PassIsAhead`), and a pass that
ends, fails or restarts leaves nothing behind (`NothingIsDropped`).
`PublishedInOrderHolds` (no failing pass) says that a channel is sorted by
(created_at, id) without repetition (`ChannelsAreSorted`), so that two events of
a SKU change places only within one second.

*TaskFlow* (`TaskFlowProofs`). `NoStageSkipped` alone is not inductive, since a
commit writes what was decided earlier. `FlowInv` adds that a decided write
stays justified (`CallsStayJustified`, because milestones are never removed),
that a receipt was received, and that each warehouse stage has a single writer,
which also writes the receipt (`WarehouseStagesHaveOneWriter`); it yields
`StagesNeverSkipped` and `ReceiptAlwaysAgrees`. `ClaimsNeverSteal` is an action
property; it rests on `PoolClaimsAreFirst`: while the module of an assigned task
waits in the pool, no claim in flight means to write the designer.
Three more hold of any overlap and share `StoryInv`, which says of every decided
write what the event log already tells: `HistoryStaysOrdered` (the log never
tells of a stage without those before it), `AuditWaitsForSubmission` (no handler
but a designer and no handover before the first submission) and
`SettledStaysSettled` (a final task that no request under way means to reopen
stays final for good, whatever is tried on it). The last bounds the lost updates
of section 6 that bring a task back.

`OwnershipIsFreshHolds`, `HandoverFreezesAuditHolds` and
`TaskLifecycleIsImplemented` assume `CommitsAlone`, because two requests do break
them, but they let the release job, the archive job and the filing run between
the halves of a request. `SerialInv` says of the decided writes what the row
would be after them: `Lands`, that it would be owned as its status calls for, and
`HandoverFit`, that a pending handover admits only a takeover, a cancel and an
upload. The pool claim looks at the task without its module, so `PoolIsEarly` is
needed too: the module waits in the pool only while the task is being assigned,
and the compare-and-set refuses every later claim. For the refinement, `LifeInv`
says that the edge a request has decided to take is still there when it commits
(`Decided`): a status before the warehouse cannot have moved, and one in the
warehouse can only have been moved by the jobs. A request that has found no
receipt (`receive`, `reject_wh`) is then refused by the unique key of the receipt
the job has created, while Complete and Close find the task at its end with a
completed receipt, and are TakeBack. `ReceiptIsNew` says that a
task which has not been received has no receipt. `BeginDecides` establishes
`Decided`, `JobFollows` keeps it over the jobs, `CommitFollows` uses it.

*ProductSync* (`ProductSyncProofs`). What an operation remembers can be stale,
so the invariant (`IInv`) says what survives of it. `PassOK` says of an
operation under way what its answer proves: after a good base push the SKU was
taken (`Held`), after a good image push a picture was, and a remembered `synced`
is true. It adds that unless the row was overtaken, the picture remembered is the
row's and, once pushed, the last one taken (`Shows`). `PushedFacts` is what a
push does to these, whoever takes it. A step is `Mild` on a row if it takes
away neither the SKU nor its having a picture, and if a step that changes the
picture otherwise sets `overtaken`; the steps of the others are
mild, so knowledge survives them (`MildKeeps`), and every mark then writes a
status that is true whatever row it overwrites (`RowOK`). `SyncedWasTakenHolds`,
`FiledWasTakenHolds` and `SyncedPicIsCurrentHolds` follow, for both values of
`Fallback`. With it off they are about the ERP itself: a synced or filed SKU is
there, and its picture is the row's unless overtaken. With it on they say that a
push the products table answered is the only other way.

*ExportJobs* (`ExportJobsProofs`). `RunningHasItsAttemptHolds` and
`ReadyIsEarnedHolds` are for any number of overlapping requests. The invariant
says what a request knows of what it has read (`Knows`): the attempt an operator
means to close exists, a mark_ready closes some attempt, and a refresh that will
write ready back read it after an attempt had won; `won` only grows.
`AuditMatchesRowHolds` and `ImplementsLifecycle` are for operators who commit
alone and any dispatchers and readers: `Fresh` says that the
status an operator acts on is still the row's, because nobody else leaves
queued or running, and that the status a refresh writes back is the row's,
because a ready job has no next operator action. The refinement maps the
attempts to the ledger of ExportLifecycle, every commit to one of its actions
and every read to a stutter. `AttemptWasDispatchedHolds` is for dispatchers who
commit alone and any operators and readers: a dispatch an operator has found received can be
expired or marked not executed under it, but not rejected, because a rejection
under way has found its own dispatch submitted (`Sent`).
`ExpiryIsRecordedOnceHolds` is for operators and readers who commit alone: the key a
request writes back is the row's, since a refresh needs a ready job and no
operator acts on one, and the events the reader listed are all there are
(`Read`).

*AssetLifecycle* (`AssetLifecycleProofs`). The job works from a list that may
be old, so the invariant bounds what a list can have become. A row is `Spent`
when it exists and no open task has it as its source file; a spent row stays
spent, because a task takes only new rows as its source file and a closed task is
not opened again. `ListIsSound` says that every candidate and every key on the
list is spent, and that the objects of the rows a candidate's transaction will
mark are on its list of keys or came `late`; `DeleteIsSound` says the latter of a
delete request. From these follow `OpenTaskKeepsItsFileHolds`,
`MarkedRowsHaveNoFileHolds` and `CleanedIsArchivedHolds`.
`LostFileIsStillACandidateHolds` is about an order: a superseded row is a
candidate only while the row that superseded it is live, so a file that a stopped
run has removed could drop off the list if its successor were cleaned first.
`OInv` says that rows are numbered as they are created, that the current version
is the newest, that a row is superseded by a newer one of its asset, and that rows
fall due in the order in which they were superseded; `ListStaysEligible` says
that whatever a listed row supersedes is on the list as well, with a lower rank,
so the run marks it first.

Only model-checked: everything about fairness (`ZombiesAreReclaimed`,
`JobsSettle`, `ReadEventsArePublished`, `WarehouseNeverStalls`,
`SyncIsAttempted`), which the prover does not handle. Every invariant, action
property and refinement of a passing run has its theorem. The other way round,
`TimeFollowsSequence` (a part of the refinement of EventStream),
`PublishedInOrder`, `HistoryIsOrdered`, `AuditFollowsSubmission`,
`SettledTasksStaySettled` and `CleanedIsArchived` are proved and no run is spent
on them.

## 6. Disagreements between the code and what it says

One has a run, asset_stuck: the cleanup job removes the objects of a candidate,
marks it, and then ends the whole run when the row names no task module
(`service/asset_lifecycle/cleanup_job.go:96`); the mark is rolled back. Only the
backfill tool ever sets `source_task_module_id`, so the same candidate comes
first every night and the files behind it stay, while
`docs/V1_ASSET_OWNERSHIP.md:17` promises their cleanup after 365 days. Others
met while modelling, which the models show but no run is spent on:

* `AckJob` checks `current_attempt_id` on a row read before its transaction and
  then updates by job id (`service/agent.go:291`), so an ack can commit for an
  attempt the reaper has taken away; `domain/entities.go:64` says a stale ack
  must be refused. CompletionIsEarned shows that Done keeps its meaning.
* The dispatcher orders by (`created_at` in seconds, random UUID)
  (`workers/event_dispatcher.go:78`), so two events of one second may be
  published in the wrong order, although line 21 says the frontend relies on it.
  What remains is PublishedInOrder: they change places only within one second,
  as long as no pass fails.
* An event that commits after the cursor has passed its `created_at` is never
  published (`workers/event_dispatcher.go:77`); the gap recovery of SyncStatus
  finds it. EventsAreMissedOnlyLate shows that no other event is missed.
* The receipt that the auto-release job creates has no id in memory, so the
  UPDATE that should complete it matches nothing
  (`service/warehouse_auto_release_job.go:229`); the task is closed with a
  receipt that is only received, which `service/task_workflow.go:345` refuses
  for a close by hand.
* A design task the warehouse rejected has no legal next call but cancel
  (`service/task_workflow.go:424`), while `docs/phases/PHASE_AUTO_059.md:62`
  sends it back to work.
* Two operators of one export job: a cancel and a mark-ready that have both read
  running end in whichever commits last, and the attempt with it; an operator
  who commits between the read and the commit of another one also breaks the
  audit trail. A second reader can record the same expiry twice, and of two
  dispatchers one can submit while the other is pending. None of it is
  promised otherwise by the code; export_serial says what holds without it.
* A stale refresh of an expired download writes the status it read: with two
  operators it can put back a ready that was overwritten meanwhile
  (`service/export_center_service.go:616`). The branch of RefreshDownload that
  records an expiry after a refused refresh (lines 594-604) is never taken: the
  refresh is admitted exactly when the handoff is expired.
* A picture replaced while its sync is in flight is marked synced by the old
  result (`repo/mysql/product_management.go:692`): the state SyncedPicIsCurrent
  sets apart as `overtaken`.
* With the fallback on, as it is by default, a push the ERP did not answer is
  stored in the local products table and answered as a success
  (`service/erp_bridge_remote_client.go:498`): the row is marked synced, or the
  SKU filed, for a SKU the ERP may never get, since nothing pushes it again. The
  table keeps no picture, so a picture answered that way is kept nowhere, and
  the row still becomes image-synced when the readback finds any picture, a former
  one for instance (`service/product_management_service.go:660`).
  SyncedWasTaken, FiledWasTaken and SyncedPicIsCurrent set these states apart as
  the holder `local` and the picture `Dropped`.
* A delete that is refused has already removed the objects
  (`service/asset_lifecycle/delete_service.go:30`): the rows `condemned` sets
  apart.
* The reaper marks Stale a job that was acknowledged or renewed after its query
  (`workers/lease_reaper.go:96`; its comment at line 15 speaks of jobs whose
  lease has expired).
* A repeated ack writes Done or Fail over ExceededRetries, which
  `domain/enums.go:62` calls terminal (`service/agent.go:306`).
* An auditor decides on a task another auditor has claimed: the stage match
  counts as elevated scope (`service/task_action_authorizer.go:531`), while
  `docs/api/openapi.yaml:13246` describes the current handler as the one to act.
* An audit claim that commits after an approval makes the auditor the handler of
  a task in the warehouse stage (`service/audit_v7_service.go:148`), against
  `docs/phases/PHASE_AUTO_059.md:61`.
* An approval that has made its handover check commits after a handover, which
  then stays pending for ever (`service/audit_v7_service.go:192`, check at 609).
* The creator cancels a claimed task without force
  (`service/task_cancel/cancel_service.go:115`, against
  `docs/V1_MODULE_ARCHITECTURE.md:459`).
* A warehouse complete that commits after the job has closed the task takes it
  back to PendingClose (`TakeBack` of TaskLifecycle), and an approval that overlaps
  with a cancel can revive a cancelled task.

## 7. Not modelled

The customization lane, retouch and purchase tasks, managers' forced actions,
outsource Return and Review (no HTTP route) and PrepareWarehouse (its guards
exclude every status of a design task) are not in TaskFlow. The verify worker is
dead code (`RequireVerify` is constantly false). SQL isolation is taken as: a
transaction is atomic at its commit and a FOR UPDATE lock is held until then;
deadlocks inside MySQL appear as failed transactions. Read models, search,
reports, identity, Excel and AI calls, the frontend and the deployment scripts
keep no contended state.

The SKU audit of the first workflow has no caller: `TransitionStatus`
(`service/sku.go:203`) is not used, and the `/v1/audit` routes are registered as
deprecated (`transport/http.go:141`). In ProductSync the ERP's payloads and the
choice among picture candidates are arbitrary outcomes, a push takes effect
before its call is answered, and the SKUs are new to the ERP; what the ERP shows
of a picture it has taken is its own affair. In TaskFlow the release job's
cutoff on `updated_at`, its limit on candidates and the switch
ENABLE_CRON_WAREHOUSE_AUTO_RELEASE are left out, so WarehouseNeverStalls is about
a job that is switched on and reaches every task that stays long enough; in ExportJobs templates,
filters and notes; in AssetLifecycle the limit of 1000 candidates, the dry run
and further assets of a task, each of which would run the same steps. The
integration center, the other task modules, the organisation moves and the
websocket hub are contended and not modelled yet.

## 8. Plan

Done, in this order: SkuWorkflow, Distribution, EventLog and TaskFlow with their
proofs; ProductSync, ExportJobs with ExportLifecycle, and AssetLifecycle with
theirs; EventStream and TaskLifecycle with the refinements. What would come next:

1. `TaskModules`: module states under Apply, pool claim, blueprint rules and
   CloseOpenModules, composed with the task status of TaskFlow. Question: do the
   states of a task's modules agree with the task when a cancel and an action
   overlap?
2. `Filing`: read, ERP call, write of the whole detail; duplicate suppression by
   payload hash. It would replace TaskFlow's `filed` and ProductSync's
   `TriggerFiling`.
3. `IntegrationCalls`: the call log and its executions, along ExportJobs.
4. The websocket hub: connection sets, snapshots and closed channels.
5. Proofs: abstract specifications of AssetLifecycle (a file and whether anybody
   still needs it) and of ProductSync (a registration of the task in the ERP),
   along EventStream and TaskLifecycle; what brings a distribution job out of
   Done, along SettledTasksStaySettled. The question what survives of
   OwnershipIsFresh and HandoverFreezesAudit when two requests overlap is
   answered: overlapping commits break every conjunct of them, and what remains is
   HistoryIsOrdered, AuditFollowsSubmission and SettledTasksStaySettled.

New runs would use two actors, two records and one fault, like the ones above;
related questions share a run.
