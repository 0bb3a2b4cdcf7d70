# taquba-mcp in TLA+

A TLA+ development of `taquba-mcp`, the durable task backend for the `rmcp`
MCP server library. It models what the crate does between two awaits, checks
it with TLC on small instances and proves part of it with TLAPS for every
number of tasks, workers and requests. Paths below are relative to the
repository root.

## 1. Inventory

### The system

An MCP server offers tools that run as *tasks*: the client calls a tool, gets a
task id, and asks later for the status and the result. `taquba-mcp` puts each
such call into the Taquba queue (durable, in an object store), runs it on a
pool of workers in the same process, and keeps the outcome in an object store.
There is one process per store; it may stop and start again at any moment.

| Component | Code | State | Operations |
|---|---|---|---|
| Task backend, writes | `src/backend.rs` `enqueue_task`, `cancel_task`, `record_cancelled` | `in_flight`: map from task id to tool and start time, in memory | mark, enqueue, unmark, audit; peek, forget, put, audit, `queue.cancel` |
| Task backend, reads | `src/backend.rs` `snapshot_task`, `get_task_info`, `get_task_result`, `list_tasks` | none | read pointer, `in_flight`, job, blob, in this order; poll with a deadline |
| Worker loop | `src/worker.rs` `run_tool_worker`, `process_job` | the claimed job record and its cancellation token | claim, decode, mark in flight, call the tool, clear, put the result, audit, ack / dead-letter / nack |
| Worker pool | `src/worker.rs` `run_workers` | a `JoinSet` of workers and the reaper | discover tools, spawn, shut down |
| Reaper | `src/worker.rs` `run_reaper` | none | every interval: expired blobs, their pointers, old audit entries |
| Result store | `src/result_store.rs` | object `results/<task>.json` | put, get, list, delete, reap |
| Audit log | `src/audit.rs` | objects `audit/<ulid>.json` | record, reap |
| Terminal pointer | `src/pointer.rs` | KV entry `mcp:task:<task>` in the queue's store | written in the transaction of `ack_with`; read first by `snapshot_task`; deleted by the reaper |
| Queue (external) | crate `taquba` | job records, claims, leases, tokens, KV | `enqueue_with`, `claim_with_wait`, `ack_with`, `nack`, `dead_letter`, `cancel`, `get_job`, `kv_get`, `kv_delete`; expiry of leases, end of backoff |
| Transports | `src/transport.rs` | service, pool, shutdown token | start, stop, drain |
| Handler macro, builder, errors | `src/handler.rs`, `TaqubaTaskBackendBuilder` in `src/backend.rs`, `src/error.rs` | none at run time | delegation, configuration |

### How they interact

* A request and a worker meet in four places: the queue (atomic calls), the
  in-flight map (a mutex, held for one operation), the result store and the
  audit log (one object per write, last write wins). Nothing spans two of
  them but `ack_with`, which settles the job and writes the pointer at once.
* `cancel_task` reaches a running tool only through the token of the claim,
  which the queue fires. The worker reads it once, after the tool returned.
* A restart loses the in-flight map, tokens, workers and requests in progress.
  Jobs, pointers, blobs and audit entries stay. A claim of the old process is
  taken back when its lease runs out.

### What is hard here

1. The four sources of a status (pointer, in-flight entry, job, blob) are
   written one after the other, by two kinds of actors.
2. The result blob is written *before* the job is settled. Until then it is
   provisional: the job may run again and end differently.
3. `cancel_task` decides from a peek who owns the result blob, and the job may
   have moved by the time it acts.
4. Leases are never renewed, so a slow tool is run a second time while the
   first run is still going to write.
5. The worker decides from the attempts of its claimed record whether this is
   the last attempt; the queue counts on its own.
6. A panic, a crash, a failed write or a failed settlement between any two
   steps.
7. Every read of more than one source is several awaits, with writers and a
   sweep in between.
8. Retention is computed three times (the expiry, the audit cutoff, the ttl
   told to clients), in integers of two widths, from two clocks.
9. Four kinds of tasks (service, pool, workers, reaper) end on one token.

`PROJECT.json` lists these at their lines, with the properties aimed at them.

### What makes each component correct

* **Writes.** An in-flight entry is always somebody's to clear (`NoPhantom`,
  `InFlightDrains`). Nothing is on record as cancelled that nobody asked to
  cancel (`CancelledOnlyIfAsked`).
* **Worker loop.** Attempts are budgeted (`RetryBudget`); a committed outcome
  has its blob and its audit entry (`PointerBacked`, `AuditedOutcome`); a
  dead-lettered job has a blob (`DeadHasResult`); what cannot be read fails at
  once (`UnreadableFails`); every job leaves the queue (`JobsLeave`) and every
  accepted task gets an outcome (`OutcomeReached`).
* **Reads.** An answer with an outcome is final (`OutcomeSticks`), and the
  answers follow unknown → working → outcome (`LifecycleSpec`). With the reads
  taken apart into their awaits, an answer is one the task gave cause for
  during the request (`AnswerJustified`), is not taken back later
  (`AnswersStick`, `FailureStands`), comes at last (`ResultReturns`), and a
  list misses nothing that is still there (`ListComplete`).
* **Reaper.** Nothing young is deleted (`KeptForRetention`, `TtlHonored`,
  `AuditKept`), what is old goes (`OldGoes`), and a result goes with its
  pointer (`NoDangling`, `ExpiredForgotten`).
* **Transports, pool.** Shutdown ends (`ServeReturns`) and ends everything
  (`DrainedWhenOk`); what may end the pool before it is part of `PoolInv`.

## 2. Modules

| Module | Contents |
|---|---|
| `TaqubaQueue` | The queue as `src/` relies on it: job records, claims, tokens, pointers. One operator per call the code makes, one per step the queue takes alone. External: read off the call sites and the comments beside them. |
| `ResultStore` | Result blobs: `put`, `delete`, whether one is there. |
| `AuditLog` | Audit events per task: `record`. |
| `TaskBackend` | The system: `enqueue_task`, `cancel_task`, the worker loop, the queue's own steps, restarts. `Spec`, and `FairSpec` with fairness. |
| `TaskLifecycle` | Abstract specification: what a client may see of a task over time. |
| `TaskBackendProperties` | Properties of the write side, and the refinement mapping to `TaskLifecycle`. |
| `Retention` | `TaskBackend` with the sweep of `run_reaper` beside it, one action per call on a store. |
| `RetentionProperties` | What the sweep must get right beside the rest. |
| `TaskReads` | `Retention` with `get_task_info`, `get_task_result` and `list_tasks` beside it, one action per await. |
| `TaskReadsProperties` | What clients may rely on. |
| `RetentionMath` | The arithmetic of expiry, cutoff and ttl; the number of u64 values is a constant. |
| `RetentionClock` | Result blobs and audit entries in time: two clocks, the dates they leave, the reaper. Stands alone. |
| `WorkerPool` | Start and stop: the serve functions, `run_workers`, the loops of workers and reaper, the token. Stands alone. |
| `MCTaskBackend`, `MCRetention`, `MCTaskReads`, `MCRetentionClock`, `MCWorkerPool` | Constants of the instances. |
| `TaskBackendProofs`, `TaskBackendSafetyProofs`, `TaskBackendOutcomeProofs` | Theorems about `TaskBackend`, each module resting on the one before. |
| `TaskBackendRefinementProofs` | That `TaskBackend` implements `TaskLifecycle`. |
| `RetentionProofs` | Theorems about `Retention`: what holds next to the sweep. |
| `TaskReadsProofs` | Theorems about `TaskReads`: what clients may rely on. |
| `RetentionClockProofs` | Theorems about `RetentionMath` and `RetentionClock`. |
| `WorkerPoolProofs` | Theorems about `WorkerPool`. |

`TaskReads` EXTENDS `Retention`, which EXTENDS `TaskBackend`, which EXTENDS the
two stores and the queue: each adds variables, and its `Next` has the steps of
the module below with its own variables unchanged (or updated where they are
history). `RetentionClock` and `WorkerPool` are about other questions (numbers;
start and stop) and would only multiply the states of the first three.

### From code to actions

**Granularity.** Every await on shared state ends an action. What the code does
between two awaits is one action, because nothing else it could meet is shared.

| Code | Actions of `TaskBackend` |
|---|---|
| `enqueue_task` | `EnqueueMark`, then `EnqueueJob` or `EnqueueFails`; after a failure `EnqueueUnmark`, else `EnqueueRecord` |
| `run_tool_worker`: claim | `ClaimJob` |
| `process_job`: payload | `MarkInFlight` or `DecodeFails` |
| `process_job`: run | `RecordStarted`, `CallTool` (which clears the in-flight entry) |
| `process_job`: outcome | `DecideOutcome` (the token and the attempts, read for `Verdict`), `PutResult`, `RecordOutcome`, and `AckJob`, `DeadLetterJob` or `NackJob`; `SettleFails` when the settlement errs |
| `cancel_task` | `CancelPeek`; waiting: `CancelForget`, `CancelPut`, `CancelRecord`, `CancelRemove`; claimed: `CancelSignal`, `CancelLog`; else `CancelCheck`; `CancelFails` when the queue's cancel errs |
| a tool panics | `Panic` |
| lease, backoff, dropped record | `QueueExpireLease`, `QueueEndBackoff`, `QueueDropRecord` |
| the process stops and starts | `Restart` |
| `snapshot_task` | `Snapshot(t)`, a function of the state: what a read at one instant would say |

| Code | Actions of `Retention` |
|---|---|
| a blob's `expires_at_ms` passes, whatever its job is at | `ExpireBlob` |
| `run_reaper`, `ResultStore::reap`: clock and listing | `SweepWake`, `SweepGet` per blob, `SweepListed`; `SweepListFails` |
| `reap`: deletes | `SweepDelete`, `SweepDeleteFails` per blob, `SweepDeleted` |
| `run_reaper`: pointers | `SweepUnlink`, `SweepUnlinkFails` per task, `SweepUnlinked` |
| `AuditLog::reap` | `SweepAudit` |

| Code | Actions of `TaskReads` |
|---|---|
| `get_task_info` | `StartRead`, `InfoPointer`, `InfoInFlight`, `InfoJob`, `InfoBlob`, `Deliver` |
| `get_task_result` | `StartRead`, `ResultWait`, `ResultFetch`, `ResultRunning`, `ResultLookup`, `ResultDeadline` (poll again or give up), `Deliver`; `DeadlinePasses` |
| an error of any call in them | `ReadFails` |
| `list_tasks` | `StartList`, `ListMap`, `ListStore`, `ListGet` per blob, `ListDone`, `ListReturn`; `ListFails` |

| Code | Actions of `RetentionClock` |
|---|---|
| the clocks | `Tick` |
| a result is put, an audit entry recorded | `PutRecord`, `RecordEntry` |
| `ResultStore::reap` | `WakeReaper`, `ReapBlob`, `ReapBlobFails`, `ReapedResults` |
| `AuditLog::reap` | `ReapAudit`, `ReapEntry`, `ReapEntryFails`, `ReapedAudit` |

| Code | Actions of `WorkerPool` |
|---|---|
| `serve_stdio` | `StartStdio`, `StartFails`, `WaitEnds`, `WaitErrs`, `Drain` |
| `serve_streamable_http` | `StartHttp`, `Bind`, `StartFails`, `WaitEnds`, `Drain` |
| the service, or the server | `ServiceQuits`, `ServiceBreaks` |
| `main` returns | `Exit` |
| `run_workers` | `SpawnWorkers`, `FindNoTools`, `DiscoverFails`, `IdleEnds`, `JoinWorkers` |
| `run_tool_worker` | `CheckShutdown`, `ClaimStops`, `ClaimJob`, `ClaimNothing`, `ClaimErrs`, `BackoffEnds`, `ProcessPanics`, `ProcessEnds` |
| `run_reaper` | `RunReaper` |

**State.** `submit[t]`, `worker[w]` and `cancel[c]` are the program counters
and locals of the three kinds of tasks; `worker[w].attempts` is the copy the
worker took of its claimed record, which may be stale. `job`, `pointer` and
`fired` belong to the queue; `blob` and `audit` to the stores; `inFlight` is
the key set of the in-memory map. `undecodable` is the set of stored payloads
the running build cannot read. `claims`, `asked`, `confirmed` and `misread` are
history: no action reads them.

**Data.** A payload is its task. A blob is its status and whether it has
expired; the result and the error text follow the status. Retention, backoff
and lease lengths are left out: a lease or a backoff may end at any moment.
One queue stands for all tools, since each tool has its own queue and workers
and everything else is keyed by task id.

**A token belongs to a claim.** `fired` holds workers, not jobs, because a
worker has one claim at a time; `Claim` clears it, as a new claim brings a
fresh token.

**Faults** are a constant, so that an instance says what may go wrong in it:

| Fault | Meaning |
|---|---|
| `crash` | the process restarts, at any step |
| `upgrade` | a restart brings a build that cannot read some live payloads |
| `rollback` | a restart brings a build that can read them again |
| `lease` | a lease runs out under a worker still on the job |
| `panic` | a tool handler panics |
| `enqueue`, `settle`, `cancel` | that queue call fails, with no effect |
| `put`, `audit` | that write fails, with no effect; the code only logs it |
| `list`, `delete`, `unlink` | the sweep's listing, a delete of a blob, a delete of a pointer fails; the code only logs it |
| `read` | a call of a read request fails, and so does the request |

A property that a fault breaks names it with `Without({...})`; it is meant to
say exactly how far the code's promise goes. `WorkerPool` has faults of its own
(`PoolFaults`); `RetentionClock` lets every call of the reaper fail.

**Other constants.** `EnableReaper` is `enable_reaper`. With it, a blob may
expire at any moment after it was written, also one whose job is about to run
again: `expires_at_ms` and the sweep know clocks only. `AuditRetain`: `short`
lets any audit entry get old at any moment, `long` none; the runs have `long`,
the theorems both. `Retentions` and `U64Range`:
durations and the width of u64 in `RetentionClock`, where the configuration is
chosen in the initial state. `Transports`: who starts the pool, chosen in the
initial state together with `enable_reaper`.

**History.** `left` in `sweep` holds the tasks whose pointer a sweep could not
delete, `early` those whose result expired while it could still be written
again (`AtWork`); `seen` and `after` in a reader, `known` in a lister, `told` and `cut`
are history too.

**Names `Mutant_...`** are definitions with a plausible bug, each placed just
before the definition it imitates. No action uses them. They document what
the properties are able to tell apart: with the mutant in place of the
definition, the property named beside it in `PROJECT.json` is violated.

## 3. Checks

No state constraint is used: the instances are finite, because attempts are
bounded by `MaxAttempts` and an id is enqueued at most once. `faults` uses
symmetry on workers and requests, which run the same code, `listing` on tasks;
the other runs check a step or a liveness property, or need none.

| Run | Instance | Shows |
|---|---|---|
| `faults` | 1 task, 2 workers, 1 cancel, 2 attempts; all faults of the write side but `put`, `audit` | `TypeOK`, `NoPhantom`, `CancelledOnlyIfAsked`, `RetryBudget`, `PointerBacked`, `AuditedOutcome`, with two workers on one job included |
| `outcomes` | 1 task, 2 workers, 2 cancels, 2 attempts; the same but `lease` | `PointerBacked` without its exception for late workers, `OutcomeSticks`, `UnreadableFails`, and `LifecycleSpec`: the system implements `TaskLifecycle` |
| `jobs_leave` | 1 task, 1 worker, 1 cancel, 2 attempts; `crash`, `upgrade`, `rollback`, `lease`, `settle`, `put`, `audit` | `JobsLeave`, `InFlightDrains` under `FairRetentionSpec`, no sweep |
| `outcome_reached` | 1 task, 1 worker, 1 cancel, 2 attempts, the sweep; `enqueue`, `settle`, `list`, `delete`, `unlink` | `OutcomeReached`, `DeadHasResult`, `KeptForRetention`, `ExpiredForgotten` under `FairRetentionSpec`: the whole life of a result, which may expire while its job is retried or cancelled |
| `listing` | 2 tasks, 1 worker, 1 lister, 1 attempt, the sweep; `delete`, `unlink` | `NoDangling`, `ListComplete` |
| `answers` | 1 task, 1 worker, 1 cancel, 1 reader, 2 attempts, no sweep; `crash`, `settle`, `read` | `AnswerJustified`, `AnswersStick`, `FailureStands`, `ResultReturns` under `FairReadsSpec` |
| `retention_clock` | 1 blob, 1 entry, u64 of 6 values, clocks up to 4, retentions 1, 4 and 7 | `ClockInv`, `TtlHonored`, `AuditKept`, `OldGoes` under `FairClockSpec` |
| `pool` | 3 workers, every way to start, every pool fault | `PoolInv`, `DrainedWhenOk`, `ServeReturns` under `FairPoolSpec` |

**Why these bounds.** Tasks share nothing but the workers and the sweep, so one
task is enough for everything except what a worker or a sweep carries from one
to the next: the token (that no worker takes one along is not seen in `faults`
with its one task; it is part of the theorem `CancelledOnlyOnRequest`, for any
number of tasks), the error of one delete and the listing cut short by one blob
(`listing`). Two workers are needed for a lost
lease: the old worker and the new one. A third would be a second zombie; a job
with two attempts has at most two claims (`RetryBudget`), so it has nothing to
do. Two attempts give a retry and a last attempt. Two cancel requests race each
other as well as the worker. One reader is enough, since readers write nothing:
what a later request hears is compared with `told`, which has what earlier ones
heard. Blobs and entries do not meet in `RetentionClock`, so one of each does
for the numbers; that the error of one delete does not keep the rest from going
is `NoDangling` over two tasks, and no liveness property here.
1, 4 and 7 are a retention that fits, one that saturates the expiry, and one
that is cut to 1, and a clock that starts at 0 is younger than each.

**Deadlock** is checked in the passing runs. A state with nothing left to
claim is no deadlock, since another cancel request may always come in.
`panic_masks` and `pool` say `CHECK_DEADLOCK FALSE`: the first has no cancel
request, so the system really comes to rest, and in the second the process ends.

**Fairness.** `FairSpec`: weak fairness of: each submitted request after its
mark; each worker's loop; each cancel request once started; the end of a
backoff; and the end of a lease *whose worker is gone*. These are tokio's
scheduling of ready tasks, timeouts that elapse, and one assumption on code
outside the repository: a tool call returns. Not fair: clients (nobody has to
call), faults, and a lease running out under a live worker. Weak fairness is
enough: nobody but the worker itself or an expiring lease disables its
settlement, and the failing settlement is then still a step of its loop.
The fault `settle` may
fail every settlement, and `crash` may repeat for ever, as they do for real;
`JobsLeave` holds all the same since each lost claim uses up an attempt, and
`outcome_reached` leaves out the faults that do lose outcomes.
`FairRetentionSpec` adds the reaper, a task like the others, with strong fairness
of its listing and of each of its deletes: errors of an object store are transient,
so what fails in one sweep succeeds in a later one. `FairReadsSpec` (on
top of no other fairness: a read must end though nothing else moves) each
request once it has begun, and its deadline, which is a timer.
`FairClockSpec` has time pass and the reaper run, and strong fairness of each
delete, for the same reason. `FairPoolSpec`: the serve function, the pool, the reaper
and each worker run, which again takes tools to return; nobody has to close the
connection, so `ServeReturns` starts from its end.

### Disagreements between comments and code

Each is a run that violates one property, which states the comment:

| Run | The text | What happens |
|---|---|---|
| `cancel_vanishes` | `src/backend.rs:356-358`: either way the worker writes the authoritative blob | The peek saw `Claimed`; the worker nacks; `queue.cancel` now *removes* the waiting job and answers `Removed`, treated like `Requested`. Nobody writes a blob: a task with a confirmed cancellation is "not found". |
| `cancel_overwrites` | `src/backend.rs:391-394`: the worker's eventual blob overwrites this one | The peek saw `Pending`; a worker claims, completes and acks; then the `Cancelled` blob lands, for good, under a `Completed` pointer. |
| `panic_masks` | `CHANGELOG.md:31-32`: a stale in-flight entry can no longer mask a settled task | A panic ends the worker between mark and clear. The job is dead-lettered later, the entry stays, and reads say "working" until a restart. |
| `result_changes` | `src/backend.rs:308-309`: the result store is the authoritative record of task outcomes | `get_task_result` tells the blob of an attempt whose ack then fails; the task runs again and a later call tells another outcome. (A *failure* told is final: `FailureStands`.) |

### Where the promises end

What the properties leave out by a premise, by a `Without` or by an assumption
of the model is what the code does not promise:

* A worker whose lease ran out may put its `Completed` blob over the `Cancelled`
  one of the worker that settled the task (`src/worker.rs:312`, the exception
  in `PointerBacked`).
* A restart in the last attempt leaves a dead-lettered job without a result: the
  queue dead-letters it when the lease ends (`DeadHasResult` excludes `crash`
  and `lease`; in `LifecycleSpec` the task is lost).
* A blob may expire while its job is not settled: the settlement failed, or
  the process was down for longer than the retention. A sweep that listed it
  deletes what is there by then, a result just written by the next attempt or
  by a cancellation included, and its pointer (`src/result_store.rs:132-134`;
  `Overtaken` in `KeptForRetention`). Nothing else written since the sweep read
  its clock is taken: what was claimed once and never cancelled is written once.
* Such a blob can also go before its job is dead-lettered or acked: the job then
  ends without a result, or with a pointer that is set after the sweep has
  dropped it and that no later sweep looks for (the `early` in `DeadHasResult`,
  `OutcomeReached` and `NoDangling`; `src/worker.rs:497-500` takes every pointer
  to go with its blob).
* A restart between a blob's delete and its pointer's leaves the pointer, which
  no later sweep looks for (`src/worker.rs:501`; `NoDangling` excludes `crash`).
* A failure told because a build could not read the payload is final only until
  the next build can, if the dead-lettering failed: the task is then run after
  all (`FailureStands` excludes `rollback`).
* A waiting task whose cancellation runs between the reads of `get_task_result`
  (`src/backend.rs:320`) is "not found" though its blob is there; `AnswersStick`
  is about what `get_task_info` has told before.
* A tool's panic leaves its in-flight entry, which may come back over an outcome
  that was told: `AnswersStick` and `AnswerJustified` exclude `panic`.
* Where the put of a blob fails, a `get_task_info` that has passed the pointer
  finds nothing at its last read and answers "unknown", though a pointer has
  come meanwhile (`src/backend.rs:516`; `AnswerJustified` excludes `put`).
* `list_tasks` may show a task that finishes between its two reads as running
  and as finished, in that one answer (`src/backend.rs:241`).
* A retention above 2^64 ms is cut and expires early (`src/result_store.rs:146`),
  and clients are told no ttl then (`src/backend.rs:589`).
* Audit entries carry the system clock in their name and are reaped by the
  injected one (`src/audit.rs:73`): by `at_ms` they may go early when the two
  differ.
* `run_workers` "blocks until `shutdown` fires", says its doc
  (`src/worker.rs:94-95`). It returns before that in two cases: when listing the
  tools fails (`src/worker.rs:113`, `failed` in `WorkerPool`), and when every
  worker's tool has panicked and no reaper runs (`src/worker.rs:141`, a conjunct of
  `PoolInv`). Either way the server goes on without workers.
* A failed join of the stdio service, or a failed bind, returns before the token
  is fired: workers are dropped where they stand (`src/transport.rs:44`).

## 4. Proofs

From the assumptions named in the modules only. `TaskBackend`: for every set of
tasks, workers and requests, every `MaxAttempts \in Nat` and every set of faults
(`NoWorker` and `NoTask` are no worker and no task; `Faults \subseteq FaultKind`).
`Retention` and `TaskReads`: besides, for every set of readers and of listings,
with the reaper or without it, with results that expire at any moment and audit
entries of any age. Two properties of the reads, `AnswerJustified` and
`AnswersStick`, are about the reaper turned off: a sweep takes outcomes away.
`RetentionClock`: for every width of u64 from 2 values on, every set of blobs,
entries, retentions and starts; the bound on the clocks is below the last
millisecond of u64, which is when a saturated expiry comes. `WorkerPool`: for
every set of workers, none included, and every set of faults.

| Theorem | Statement |
|---|---|
| `TypeCorrect` | `Spec => []TypeOK` |
| `InFlightIsHonest` | `Spec => []NoPhantom` |
| `CancelledOnlyOnRequest` | `Spec => []CancelledOnlyIfAsked` |
| `RetriesAreBudgeted` | `Spec => []RetryBudget` |
| `OutcomesHaveResults` | `Spec => []PointerBacked` |
| `OutcomesAreAudited` | `Spec => []AuditedOutcome` |
| `OutcomesStick` | `Spec => OutcomeSticks` |
| `UnreadableAtOnce` | `Spec => UnreadableFails` |
| `ImplementsLifecycle` | `Spec => LifecycleSpec`, if `lease` is not among the faults |
| `RetentionTypeCorrect` | `RetentionSpec => []RetentionTypeOK` |
| `RetentionKeeps` | `RetentionSpec => KeptForRetention` |
| `PointersFollowBlobs` | `RetentionSpec => []NoDangling` |
| `GuaranteesOutlastSweeps` | `RetentionSpec => [](NoPhantom /\ CancelledOnlyIfAsked /\ RetryBudget)` |
| `DeadLettersHaveResults` | `RetentionSpec => DeadHasResult` |
| `NoReaperNoChange` | `RetentionSpec => Spec`, if `EnableReaper` is false |
| `ReadsImplementRetention` | `ReadsSpec => RetentionSpec` |
| `ReadsTypeCorrect` | `ReadsSpec => []ReadsTypeOK` |
| `AnswersAreJustified` | `ReadsSpec => []AnswerJustified` |
| `AnswersStay` | `ReadsSpec => []AnswersStick` |
| `FailuresAreFinal` | `ReadsSpec => []FailureStands` |
| `ListingsAreComplete` | `ReadsSpec => []ListComplete` |
| `ClockInvariant` | `ClockSpec => []ClockInv` |
| `TtlIsHonored` | `ClockSpec => TtlHonored` |
| `AuditIsKept` | `ClockSpec => AuditKept` |
| `ExpiryNotEarly` | `ExpiresAt` is no earlier than the ttl told, or the last millisecond of u64 |
| `CutoffSparesYoung` | what lies before the cutoff is older than the retention |
| `PoolInvariant` | `PoolSpec => []PoolInv` |
| `ServeDrains` | `PoolSpec => []DrainedWhenOk` |

How each invariant is made inductive:

* **Types.** `TypeOK` lets a worker in its `put` step have any task and
  outcome, and `PutResult` would then write anything into the store. `Typed`
  adds what a program counter implies: past `idle` there is a task; at `put`,
  `record` and `settle` there is an outcome of the right kind.
* **`HolderInv`.** The worker that holds the claim of a task is busy with that
  task. So a token that `cancel` fires for the holder fires for the task the
  holder works on, and a settlement that goes through settles that task.
* **`AskedInv`**, for `CancelledOnlyIfAsked`: it adds everyone who is *about
  to* record a cancellation. A request past its peek, a busy worker with a fired
  token and a worker that decided for `cancelled` all have a task in `asked`.
* **`BudgetInv`**, for `RetryBudget`: the attempts of a waiting job count its
  claims, those of a claimed job all but the last, and a busy worker's copy is
  behind its task's claims by at least one. So a worker that judges its attempt
  the last has used up the budget, also when its lease is long gone.
* **`PhantomInv`**, for `NoPhantom`: an entry whose job merely waits is there
  only until the first claim (`Fresh`), and while no cancellation has got past
  dropping it; a cancellation acts only on a job it has seen in the queue; and
  payloads turn unreadable only in a restart, which empties the map. Without
  the last one, a worker that fails to decode would leave an entry behind.

* **`ClaimInv`** is what the outcomes rest on. A worker
  keeps a copy of its claim's attempts and decides by it, and the lease may run
  out meanwhile. The invariant relates copy and job: equal while the claim is
  held, behind the job afterwards, and not at the last attempt once a pointer is
  there. So a worker that comes late never decides for `failed`, and only a
  `Completed` or a `Cancelled` blob can come over what somebody relies on. It
  also has a pointer end the job for good, and a job whose submission has not
  reached the queue free of workers and cancellations.
* **`BlobInv`** adds what the blobs say. Its first part, `BlobCore`, survives a
  sweep: a blob exists only for a job that has reached the queue, a worker past
  its put has the blob its settlement will need, and a claimed job nobody works
  on, if at its last attempt, has one. The second, `PointerBacked`, does not, and
  is kept by the single step (`Upholds`). Both take the set of tasks they are about,
  as an early expiry leaves them true of the other tasks only. `OutcomeSticks`
  follows, since without late workers nothing brings a settled task back to the
  queue or the in-flight map.
* **`UnreadInv`**, for `UnreadableFails`: a worker that has written for a task it
  cannot read has the failure in the store, or a cancellation over it. Such a
  worker has not decided anything else (`VerdictSound`), and no other worker is
  on the task (`BusyHolds`).
* **`AuditInv`** keeps the audit entries from their append to the settlement.
* **`MapInv`** ties the in-flight map to the submission. With it every action is
  one of the steps of `TaskLifecycle` or a stutter: a mark is an `Accept`, an ack
  a `Commit`, the put of a cancellation at most a `Supersede`, a restart a
  `LoseSome`, and what takes a job or an entry away at most a `Conclude`.

The invariants hold with every fault, leases that run out included; the
properties name in `Without` the faults that break them, and only the refinement
has the absence of `lease` as an assumption. `faults` and `outcomes` check the
same definitions.

Next to the sweep (`RetentionInv`), where blobs and pointers may go:

* **`Over`**: a task that is out of the queue, that no worker is on and no
  cancellation writes, stays so, and its blob and pointer stay what they are
  (`OverStays`). A blob that is expired is that of such a task or expired early
  (`ExpiryInv`), and what a sweep holds on to between its awaits is expired or
  gone, or expired early (`SweepInv`). So of the tasks that did not (`Timely`) a
  sweep takes only what is over, and the invariants of the write side, which
  for results are about `Timely` here (`BlobCore(Timely)`), do not notice
  (`LosesCore`).
* **`OnceInv`** is about the others: a task that was claimed once and that nobody
  asked to cancel has one worker, which writes one result. So when that result
  is in a sweep's hands nobody writes another, and what is deleted has expired
  after all: the race of a sweep and a write needs a second claim or a
  cancellation (`Overtaken`).
* **`AnchorInv`** is `PointerBacked` with the sweep in view, for `Timely`: a pointer
  without its blob is that of a task whose blob a sweep took, and the pointer is
  among those it has yet to delete (`gone`) or could not (`left`), unless a restart made it
  forget.
* **`DoomInv`**: behind a `failed` blob is a task that nobody can complete: its
  payload is unreadable or its job is out or at its last attempt, and whoever is
  on it has decided for `failed`. This is stable under every step and fault but
  a lost lease and a rollback (`DoomedAlways`), a restart in mid-attempt included.

And with the reads taken apart into their awaits (`ReadsInv`):

* **`InfoInv`**: a `get_task_info` under way has seen the status its task has now;
  past the in-flight map its submission is over, and at its last read the job
  has left the queue for good. At that point nobody keeps an entry of the task
  (`OutOfMap`), and a pointer means that the blob is there and says the same
  (`PointerFinished`): so each of the four reads, alone, answers with what
  `Snapshot` would answer in one piece, or with the cancellation written over it.
* **`StickInv`**: an outcome that `get_task_info` told is that of a *finished* task
  (out of queue and map, its blob written), which is stable. On such a task a
  later `get_task_info` ends at the pointer or the blob, and `get_task_result`
  never leaves its wait and its fetch empty-handed.
* **`FailureInv`**: whoever was told a failure was told of a doomed task.
* **`ListInv`**: a task that had an outcome when the call began has its blob, or a
  sweep took it for good, or its result expired early (`Lost`); and while it has
  it, it is among those the listing has still to get or has got.
* What was told is carried over from request to request by `told` alone
  (`ToldGrows`); a restart drops the requests and keeps what clients know.

`answers`, `listing` and `outcome_reached` check the same properties. The proofs
hold for faults and sizes the runs cannot afford together (several tasks, readers
and cancellations, restarts between the reads and in a sweep), and with
them the premises became what the arguments need: `ListComplete` holds across
restarts and for every task whose blob is still there, `KeptForRetention` needs
no absent fault, `AnswerJustified` needs the absence of `put` and `AnswersStick`
that of `panic` (see *Where the promises end*).

And for the modules that stand alone:

* **`ClockInv`** keeps, between the write of a date and its use some awaits
  later, that a stored expiry is the one computed at its write, that the two
  dates of an entry agree where the clocks do, and that what a sweep works
  through was old when it began: time only makes it older.
* **`PoolInv`** says what each place of the pool implies of its tasks: nothing
  lives before it is spawned, a pool that has returned has seen every task end,
  and whoever stopped without a panic has seen the token.

**Only model-checked.** Liveness under fairness is beyond the prover:
`JobsLeave`, `InFlightDrains`, `OutcomeReached`, `ExpiredForgotten`,
`ResultReturns`, `OldGoes`, `ServeReturns`. Every other property of a passing run
is a theorem. `AuditedOutcome`, `OutcomeSticks`, `UnreadableFails` and the
refinement are proved of `Spec` only: a sweep takes audit entries and outcomes
by design. None of the modules has a recursive operator.

## 5. Not modelled

* **Other tools' queues**: independent of each other.
* **Handler macro, errors, builder**: delegation, values, configuration; no
  behaviour over time.
* **Rendering**: times as RFC 3339 strings, tool results as JSON, log lines.
  A time is signed on its way there (`src/backend.rs:598`), which matters from
  the year 292,000,000 on.
* **Durations** of backoff, lease and polling: each may end at any moment.
* **Blobs that do not parse**, which listings skip: none is written.
* **The queue's internals**: `taquba` is a dependency. `TaqubaQueue` is what
  the crate relies on, not a model of its code. In particular a claim is one
  step, so that dropping `claim_with_wait` at shutdown (`src/worker.rs:199`)
  loses none.
* **A write that fails and yet took effect**: a failing call has no effect in
  the model. The code treats both alike, and for a settlement the next
  answer of the queue is that of a lost claim.
* **Clocks that go back**, and a second process on the same store.
* **A shutdown asked for from outside** the HTTP server: the code has no way
  to do so (`src/transport.rs:128`).

## 6. Plan

What the code allows has been modelled, and every safety property is proved.
What a next step would add:

* the refinement next to the sweep: `TaskLifecycle` with a step that forgets
  an outcome whose result has expired, implemented by `RetentionSpec`;
* a run that refutes what `run_workers` says of blocking until shutdown, and one
  for what `run_reaper` says of pointers that never outlive their blob (see *Where
  the promises end*), in place of a run of lesser interest;
* the step a liveness argument rests on, where it can be said without fairness:
  that a claimed job whose worker is gone can always be claimed again or ends;
* two tasks in `answers`, once a larger instance is affordable.
