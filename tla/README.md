# Formal verification of Reseolio

Reseolio is a durable job queue: a Rust server (`core/`) keeps jobs in SQLite or
Postgres and pushes them over gRPC streams to workers, which are clients built with
the Node SDK (`sdks/node`) or the Rust SDK (`sdks/rust`). This directory holds TLA+
modules that model how jobs are handed out and taken back, TLC configurations that
check them on small instances, and proofs that TLAPS checks for every value of the
constants.

    tlc -workers 2 -config MCDispatch_steady.cfg MCDispatch     # one run
    tlapm Dispatch_proofs.tla                                   # one proof module

## 1. Inventory

| Component | State | Operations | Talks to |
|---|---|---|---|
| job store (`storage/sqlite.rs`) | table `jobs`: status, attempt, scheduled_at, ... | insert, claim, commit a batch of results, reset, cancel, retry, recovery at start | called by every other part; one mutex around the connection |
| worker registry (`scheduler/registry.rs`) | `workers` (sender, names, concurrency, active jobs), `job_assignments` | register, unregister, try_assign_job, job_completed, update_worker_capabilities | one RwLock; used by the scheduler, the stream tasks and AckJob |
| scheduler (`scheduler/mod.rs`) | nothing between cycles; within one: snapshot, claimed jobs | a cycle: snapshot, claim per worker, assign, `try_send`, reset | store, registry, channels of the poll streams |
| PollJobs (`server/service.rs`) | one task and one channel (100) per stream | register at the first request, update at the later ones, unregister and reset the orphaned jobs at the end | registry, store, worker |
| AckJob and ack batch processor (`server/service.rs`) | `ack_tx` queue (10000), the current batch (100 results or 10 ms) | free the slot, queue the result, commit a batch | registry, store, completion notices |
| workers (`sdks/*/src/client.*`) | running executions, worker id | connect, run pushed jobs concurrently, ack, ack a failure when the success ack failed | PollJobs, AckJob |
| completion notices (`server/service.rs`, SDKs) | subscriber map, completion cache (60 s), pending results of the client | subscribe, notify or cache, resolve `result()` | batch processor, clients |
| enqueue (`server/service.rs`) | unique index (name, idempotency_key) | look up, insert, fetch the winner (Postgres) | store |
| several servers on Postgres (`storage/postgres.rs`) | the one table, the rows each open transaction has locked | claims with SKIP LOCKED, a batch of results statement by statement, recovery of a starting server | each other, through row locks only |
| cron scheduler and schedules (`scheduler/cron.rs`, storage) | table `schedules`: status, next_run_at | create, update, pause, resume, delete, trigger when due | store; several nodes over Postgres |
| backoff (`storage/mod.rs`) | none | delay of a retry from attempt and options, in 32-bit arithmetic | ack batch |
| startup and shutdown (`main.rs`) | none | migrate, recover stale jobs, spawn the loops, serve, stop | all |
| metrics, dashboard, generated gRPC code, query RPCs | counters, views | none that changes a job | - |

What is hard here: every component runs in a task of its own and takes its locks
one call at a time, so a scheduler cycle, streams that break, their clean-up and
acknowledgements interleave between any two awaits; an acknowledgement carries
only a job id, so one from an earlier attempt is indistinguishable from the current
one; several failures are only logged; and what the process held in memory is gone
after a crash. `PROJECT.json` lists the hazards with their lines.

What makes the components correct:

* store - a claim hands a row to one claimer; the retry budget is respected; a
  settled row stays settled;
* registry - its two maps agree, slots are neither leaked nor freed while the job
  runs, no entry names a stream that has gone;
* scheduler, streams, acks together - a RUNNING row is always in somebody's
  hands, is handed out once per attempt, and ends in a terminal status; a worker
  never runs more than it announced;
* schedules - an occurrence gets one job, not before its time, in bounded time, and
  none once the schedule is paused or deleted, on however many nodes;
* completion notices - a subscription and a completion that cross do not miss each
  other, what a caller is told was true, and every `result()` returns;
* enqueue - one job per key, however calls race, break and are repeated, and every
  call is answered;
* backoff - a failed attempt is retried after the delay its options promise, and no
  options stop the batch processor;
* several servers - together they keep what one server keeps: the budget, one
  execution per attempt, a SUCCESS that stays, a RUNNING row that somebody holds.

## 2. Modules

    Jobs -- JobStore ------------ Dispatch ---- MCDispatch
         -- Registry -----------/     `- implements JobLifecycle, the abstract promise
            JobStore ------------ Completion -- MCCompletion
            JobStore ------------ Cluster ----- MCCluster
            Enqueue ------------- Backoff ----- MCBackoff
                                  Cron -------- MCCron

    proofs: JobStore_proofs, Registry_proofs -- Dispatch_proofs -- DispatchSteady_proofs
            JobStore_proofs ------------------- Cluster_proofs
            JobStore_proofs ------------------- Completion_proofs
            Enqueue_proofs (with Backoff), Cron_proofs

* **Jobs** - the identities shared by all modules.
* **JobStore** - the `jobs` table. A row is `[status, attempt, due]`; each storage
  method that the server calls is one action, because each holds the connection's
  mutex to its end. `due` says whether `scheduled_at` has been reached, and
  `BecomeDue` is the clock. `resets` is a history variable: it counts how often
  `reset_stale_job` requeued a running attempt without looking at the budget.
  A batch of results is applied at once: an acknowledgement sets the row from the
  attempt counter, which no acknowledgement changes, so the last one in the batch
  decides what the transaction leaves. `AttemptCap` bounds the claims of a job so
  that runs are finite; it is no part of the code.
* **Registry** - `workers` and `job_assignments`; each method that writes is one
  action, because each holds the write lock to its end. A sender is represented by
  the number of its stream. `Offer.names` is the set of jobs whose function the
  worker handles; an empty `names` list in a request means every job, and is
  represented by the set of all of them.
* **Dispatch** - the composition. Variables `snap`, `target`, `hand`, `cur` are the
  local variables of `schedule_pending_jobs` between its awaits; `streams` holds,
  per poll stream, its task, its channel, whether the receiver still exists and the
  jobs the task has yet to reset; `exec` holds the executions on workers; `calls`
  the AckJob calls between `job_completed` and `ack_tx.send`; `acks` the ack
  queue. `lost` and `used` are bookkeeping of the model: the jobs whose running
  attempt the server let go of, and how often each bounded fault has happened.
* **JobLifecycle** - the abstract specification of one job, from
  `IMPLEMENTATION_STATUS.md:13` and `proto/reseolio.proto`. It does not translate
  code and is not in the map.
* **Cron** - the schedules table, its requests and the cron loop of each node.
  `setting` says which deployment a behaviour is about: SQLite with one node, whose
  mutex makes a trigger pass and a resume one step each, or Postgres with several,
  where a pass is a transaction (`TriggerSelect`, `TriggerCommit`) that holds row
  locks and a resume or update is a read and a later write (`calls`). `runs` are
  the run ids of the jobs inserted for a schedule: the unique index on
  (name, idempotency_key) speaks of them. An expression with its time zone is
  known by `NextCronTime`, the next occurrence after a time.
* **Completion** - who learns of the end of a job. `subs` and `cache` are the two maps
  of `service.rs`, `acks` the queue of the batch processor, `conn` the subscription
  stream of each client with what is on its way in both directions, `completed` the
  client's `completedResults`, `handle` what each `JobHandle` is doing. A notice has
  the status of its own result and a flag for the bytes, because `job_results_map`
  keeps one result per job. The way of a job to a worker is one step here (`Claim`);
  an execution goes on when the server takes its job back.
* **Cluster** - the servers that share one Postgres. An operation of one SQL statement
  is a step of JobStore that is enabled only while no open transaction has the row;
  `update_job_results`, which is many statements in two transactions, is a program
  counter, the results still to do and the rows written so far (`batch`). Any worker
  may report to any server. `disturbed`, `strays` and `lost` are history: the jobs
  taken from a running execution, those an operator retried with a result under way,
  and those with a result that never reached the table.
* **Enqueue** - the EnqueueJob handler of both storages, statement by statement, for
  callers that race, fail and call again. A key stands for a pair of a function's name
  and an idempotency key: both lookups and the unique index use the pair.
* **Backoff** - `calculate_backoff` on integers of `Bits` bits, on the options that
  Enqueue stored and with the attempts that claims, requeues and operators' retries
  produce. `build` chooses what an overflow does: a debug build panics, a release
  build wraps. A panic ends the batch processor (`processor`).
* **MCDispatch**, **MCCron**, **MCCompletion**, **MCCluster**, **MCBackoff** - definitions that give the constants values for TLC.

Correspondence of the actions of Dispatch (the full table is `map` in
`PROJECT.json`):

| Action | Code |
|---|---|
| `Snapshot`, `ClaimFor`, `ClaimFails`, `AssignJob`, `SendOk`, `SendFull`, `SendClosed`, `SchedReset` | `schedule_pending_jobs`, one action per await point and branch |
| `Connect`, `UpdateCapabilities`, `StreamEnds`, `CleanUp`, `TaskDone` | the task spawned by `poll_jobs` |
| `DropReceiver` | tonic drops the response stream of a call that has ended |
| `Deliver`, `Break` | `startWorkerLoop` of the client, and its `stop` |
| `AckJob`, `QueueAck`, `AckAborted` | `ack_job`, split where it awaits `ack_tx.send` |
| `AckDropped`, `AfterError` | an AckJob call that fails for `executeJob` |
| `CommitBatch`, `CommitFails` | the ack batch processor |
| `EnqueueJob`, `Cancel`, `Retry`, `Elapse` | requests, and the clock |
| `CrashRestart` | the process dies; `run_with_storage` starts it again |

of Cron:

| Action | Code |
|---|---|
| `CreateSchedule`, `PauseSchedule`, `DeleteSchedule` | the storage methods, one SQL statement each |
| `ResumeAtOnce`; `ResumeRead`, `ResumeWrite` | `resume_schedule` of SQLite; of Postgres |
| `UpdateRead`, `UpdateWrite` | `update_schedule`, on both |
| `CallFails` | the second statement of a resume or update fails |
| `TriggerAtOnce`; `TriggerSelect`, `TriggerCommit` | `trigger_due_schedules` of SQLite; of Postgres |
| `TriggerFails`, `Restart` | a pass is rolled back; the process dies and another one starts |
| `Plan`, `Wake` | `get_next_schedule_time` with the choice of the sleep; the end of the sleep |
| `Tick` | the clock |

of Completion:

| Action | Code |
|---|---|
| `Claim`, `Elapse`, `TakeBack`, `Cancel`, `Retry` | the job's life, as steps of JobStore |
| `Report` | `executeJob` acks, and the Node client tells its own listeners |
| `CommitBatch`, `CommitFails` | the ack batch processor, with its notices and `cache.retain` |
| `Expire` | sixty seconds pass for a cache entry |
| `Subscribe` | `subscribe_to_jobs`, one request |
| `Enqueue`, `Enqueued` | `enqueue` of the SDKs, at the server and when the answer arrives |
| `ResultNode`, `Poll`, `Timeout`; `ResultRust` | `JobHandle.result` of each SDK |
| `Receive`, `Break`, `Reopen` | the subscription stream of a client |
| `CrashRestart` | the maps and the queue of the server are gone |

of Cluster:

| Action | Code |
|---|---|
| `Submit`, `Cancel`, `Retry`, `Claim`, `TakeBack` | `insert_job`, `cancel_job`, `retry_job`, `claim_and_fetch_jobs`, `reset_stale_job` of `postgres.rs` |
| `Elapse` | the clock passes `scheduled_at` |
| `Report` | `ack_job` of some server |
| `TakeBatch` | the batch processor calls `update_job_results` |
| `LockSuccess`, `CommitSuccesses` | the UPDATE of the successes, row by row, on its own |
| `ReadAttempt`, `WriteFailure`, `Return` | SELECT and UPDATE per failure, and the commit |
| `AbortDeadlock`, `DbError` | Postgres aborts one of the transactions that wait for each other, however many; a statement fails |
| `Die`, `Start`, `RecoverReset`, `RecoverDead`, `Serve` | a server dies; `recover_stale_jobs`, its list and then one statement per row |

and of Enqueue and Backoff:

| Action | Code |
|---|---|
| `Enqueue`, `Again` | a call, and the same call after one that failed: neither SDK repeats it, the application does (external) |
| `LookUp` | `get_job_by_idempotency_key` |
| `Insert`, `InsertFails`; `InsertNothing`, `Fetch` | `insert_job` and the unique index; of Postgres, `ON CONFLICT DO NOTHING` and the fetch |
| `Return`, `Break` | the answer; a connection or a statement fails |
| `Start`, `Requeue`, `Bury`, `Revive` | claim, `reset_stale_job`, DEAD, `retry_job` |
| `Retry` | a failure with attempts left: `calculate_backoff` and the UPDATE, or its panic, which ends the processor |

Abstractions, by name: payloads, metrics, log lines and wake-ups are left out
(`scheduler_notify` only makes a cycle start before its ticker would); the channel of
a stream is a set, since the order in which a worker receives jobs it starts
concurrently matters to no property; which of the due rows `ORDER BY scheduled_at
LIMIT n` picks is left open; two executions of the same attempt number on the same
worker after an operator's retry are one; heartbeat stamps are left out, because
their only reader is never called; recovery at start-up is one step, since nothing
else runs yet. The server of Dispatch is a single node over SQLite. In Cron, time is
counted in seconds, as the columns do: the sleep of 100 ms ends in the same second or
in the next; a pass may compute each next time at any second up to its commit.
In Completion all streams of one client are one, and the channel of 10000 notices has
room; the steps of a Rust worker are among those of a Node worker. In Cluster the
slots and streams of Dispatch are left out, and the clean-up of a broken stream is one
step per job. In Backoff a second is 10 ms and an `i32` has 10 bits;
the jitter is a percentage, and the rounding of the `f32` product is left out, its
saturation at both ends of the width is not.

## 3. Runs

| Run | Instance | What it asks |
|---|---|---|
| `steady` | 2 jobs, 2 workers of concurrency 1 and 1..2, 2 attempts, channel of 1, one cancellation, retry, capability change and database error, no other fault; deadlock checked | `ExactlyOneCopy`, `SlotsMatchWork`, `ConcurrencyRespected`, and refinement of `JobLifecycle` |
| `faults` | 1 job, 2 workers, 2 streams, ids reused, 2 broken streams, 1 crash, database error, lost call and retry each | `TypeOK`, `RunningIsTracked`, `AttemptBudget`, `NoZombieRegistration` |
| `live` | 2 jobs, 2 workers, 1 broken stream, ids not reused, `FairSpec`; deadlock checked | `EventuallySettled`, `AssignmentsBacked` |
| `cron` | 1 schedule, expressions "every second" and "once", SQLite with 1 node and Postgres with 2, prompt or not, 4 seconds, poll interval 2; each of create, pause, resume, update, delete, failure once, in three combinations; `FairSpec`; deadlock checked | all properties of Cron below |
| `completion` | 1 job of 2 attempts, 3 clients (runs it and waits; only waits; Rust), batches of 1..2, five combinations of faults and requests, `FairSpec` | `NoForgottenSubscriber`, `ToldWasTrue`, `EveryCallReturns` |
| `cluster` | 2 servers, jobs of 2 and 1 attempts, batches of 1..2, four combinations, `FairSpec` | `SharedBudget`, `RunningIsHeld`, `OneResult`, `SuccessIsFinal`, `EveryJobEnds` |
| `enqueue` | 2 callers, 1 key or none, 3 ids, 5 sets of options, both storages, both builds, attempts up to 8, `FairSpec` | all properties of Enqueue and Backoff below |
| `reconnect`, `recovery`, `lateack` | Dispatch with one broken stream each | what documents promise and the code does not keep; see section 6 |
| `rust_result` | Completion, 1 handle of the Rust SDK, no fault | see section 6 |
| `backoff` | Backoff, 1 caller, release build | see section 6 |

Why the bounds are enough. In Dispatch two jobs and two workers are the fewest for
which a job can be acknowledged by the worker that no longer holds it and for which one
job can take another's slot; a channel of one is full as soon as a worker of
concurrency two is sent two jobs, which happens in `steady`; two streams let a worker
reconnect while its old stream is still there; batches of two hold two results of
different jobs or of one job. One job is enough in `faults`, whose properties speak of
one job at a time (jobs meet only in the capacity of a worker, which `steady` and
`live` cover). Each kind of fault happens at most once per run, streams break up to
twice; the proofs remove these bounds for the invariants they cover.

In `cron`, one schedule is enough because passes treat schedules independently, except
for the `LIMIT`, which the proofs leave arbitrary; two nodes are the fewest that can
compete for a row. Four seconds let a sleep of the whole poll interval pass after the
first occurrence, and an occurrence be due, run, written back and due again. A
*prompt* deployment finishes its work before the second is over: only there does
lateness have a bound; the other behaviours let the clock run on at any point. All six
operations at once, instead of the three combinations in `MCCron`, find nothing more
in the safety properties but are too many states for the liveness check.

In `completion`, one job is enough because both maps are keyed by the job; three
clients give a waiter that is also the worker, one that depends on notices, and one
that cannot get any. `MCCompletion` names which faults happen together: a stream that
breaks while a job is cancelled, or retried by an operator; a crash; an attempt taken
back whose run reports late, with a failed commit; a retried attempt and a timeout of
the caller. Two results of a job in one batch, an expired cache entry and a waiter that
finds the notice consumed are reached in them. `Expire` needs no bound.

In `cluster`, two servers and two jobs are what a deadlock takes; each combination in
`MCCluster` is built around one story: two jobs in two batches on both servers, a
server that dies and recovers while the other goes on, an error between the two
transactions, and an operator's retry and a cancellation with results under way.
Claims are bounded by `AttemptCap`, reports of success and retry by the budgets.

In `enqueue`, two callers are the fewest that race; a third id is left over for an
insert that should not happen. Ten bits and a second of 10 ms keep the proportions:
the default delays (one second, cap of a minute) overflow at attempt 7 instead of 23.
The options include nothing set, negative values, each strategy, a jitter above one
hundred per cent, and one so large that the range of a wrapped delay saturates.

`steady` uses the symmetry of jobs, `faults` that of workers; neither has liveness
properties. Deadlock is not checked where the modelled system may stop: in `faults`
and `reconnect` it can run out of streams, which are numbered, and in `completion`,
`rust_result`, `cluster`, `enqueue` and `backoff` every job has ended, every caller has
its answer and the budgets are used up.

### Fairness

`FairSpec` of Dispatch asks weak fairness of what tokio and the SDK keep running: the
scheduler loop, which its ticker wakes; both halves of each stream; the batch
processor; the clock; a worker that has no stream connects (`startWorkerLoop` retries
each second), starts what it receives and reports an outcome, at the latest when its
timeout fires. Faults, requests, and which outcome a job has are never forced. An
AckJob call is fair per worker and job, because a worker's executions run
independently.

In Cron each node's loop keeps running (it ends on no error), a resume or update gets
to its second statement, and time passes. In Completion jobs are claimed and reported,
the processor commits, streams carry what is sent and are opened again after a second
(`client.ts`), an enqueue is answered and `result()` polls; nobody is forced to enqueue,
to wait or to give up. In Cluster jobs are claimed while a server is up, workers report
to one that is, processors go on, and a dead server is started again; a statement that
waits for a lock is not enabled, so its fairness assumes nothing of the others. In
Enqueue the handler goes on, and a caller that got an error calls again
(nothing can be promised to one that does not); requests and failures are never forced.

## 4. Properties

Of Dispatch:

* `ExactlyOneCopy` - between claim and commit there is one copy of a RUNNING job, in
  one place and with the attempt of its row, unless a failed statement dropped it; none
  of a job in any other status.
* `SlotsMatchWork` - a worker's slots are the jobs sent to it or running on it.
* `ConcurrencyRespected` - a worker never runs more jobs than some offer of it announces.
* `ImplementsLifecycle` - the rows refine `JobLifecycle`: settled once, SUCCESS and
  CANCELLED final, attempts within `max_attempts` plus those taken back.
* `RunningIsTracked` - with any of the faults, a RUNNING row is held by the scheduler,
  a slot, a clean-up list, an ack call or the ack queue, or it was let go of at one of
  the places the model names (`lost`).
* `AttemptBudget` - attempts exceed the budget by unguarded resets only.
* `NoZombieRegistration` - an entry of the registry names a stream of that worker
  whose task has not ended.
* `AssignmentsBacked` - while ids are not reused, the reverse index names a worker that
  holds the job.
* `EventuallySettled` - a queued job reaches a terminal status, or its running attempt
  was let go of.

Of Cron:

* `LockedStaysDue` - what a pass has selected stays due until the pass is over.
* `OneJobPerOccurrence` - no occurrence has two jobs, whoever triggers, and though an
  update may write an old next_run_at back.
* `NeverEarly` - no job before its occurrence.
* `PausedIsQuiet` - a job appears only while its schedule is active.
* `DueIsTriggered` - a due occurrence gets its job; no pass moves `next_run_at` on without
  it, nor stands still. Only a request takes an occurrence away (the schedule is then
  inactive, or an update or resume was in progress when it wrote another time); and one
  after which the expression has none is skipped by the code.
* `LatenessBounded` - with prompt nodes a schedule is never overdue by more than one
  poll interval, and one more for each failure. The run has one schedule: with more due
  schedules than one pass takes (`TriggerMax`, the LIMIT of `trigger_due_schedules`) the last
  ones wait for a later pass, so the bound is a claim about a pass that takes them all;
  the theorem has that as a hypothesis.
* `DeletedForGood` - a deleted schedule stays deleted, whatever was in progress, but for one
  case the code has: a resume on Postgres that read the row before the delete and writes it
  after (`LateResume`). On SQLite nothing undoes a delete.

Of Completion:

* `NoForgottenSubscriber` - no notice sits in the cache while somebody is subscribed
  for it; a settled job has its notice there, with the status of the row, unless it was
  sent, evicted or forgotten in a restart. The race of a batch with a subscription,
  which both locks decide.
* `ToldWasTrue` - whatever path told a handle the end of its job, it was true of the
  row at some time. A success told in the worker's own process may still be queued or
  lost with its batch, and of two results in one batch nothing is promised.
* `EveryCallReturns` - every `result()` of the Node SDK returns, though notices are lost
  with streams, consumed by others, evicted, or never sent, unless a result of the job
  was lost.

Of Cluster:

* `SharedBudget` - the servers together keep `max_attempts`, though the attempt of a
  failure is read outside the UPDATE that uses it and recovery works from an old list.
* `RunningIsHeld` - a RUNNING row has its run on a worker or its result in some server,
  or the result was lost.
* `OneResult` - a job no server took back has at most one execution or result in the
  whole cluster, and none when its row is not RUNNING.
* `SuccessIsFinal` - no server changes the SUCCESS of such a job.
* `EveryJobEnds` - though servers die and transactions wait for each other, unless a
  result was lost.

Of Enqueue and Backoff:

* `OneJobPerKey` - calls with one key make one job, and every answer names it.
* `MadeOnce` - on SQLite at most one of them is told that it made it.
* `KeyedIsAnswered` - a call with a key is answered, if its caller calls again.
* `DelayAsPromised` - a retry is due when the strategy, the cap and the jitter say, as
  long as the delay fits the width.
* `ProcessorSurvives` - the failure the batch processor died of (`culprit`) is one whose own
  delay leaves the width or, in a debug build, attempt 0 of an exponential delay.

Each has a mutant beside the definition it changes, a plausible bug that the run finds
(`mutants` in `PROJECT.json`): a claim without its status filter (`ClaimableAgain`), a
budget compared with `<=` (`AcknowledgedOnceMore`, `VerdictOnceMore`), a clean-up that
forgets jobs (`StreamEndsForgetsJobs`), a pass without row locks (`NoRowLocks`), a
notice nobody waits for dropped (`CacheAfterDropped`), a poll that overlooks a
cancellation (`PollNotCancelled`), the loser of a race answered with its own row
(`FetchOwn`), an exponent off by one (`BaseDelayLate`), and so on.

## 5. Proofs

All theorems hold for any finite or infinite sets of jobs, workers, servers, callers and
keys and any values of the bounds, from the assumptions named in the modules:
`StoreAssumption` (budgets are positive, the batch size is), `RegistryAssumption`,
`DispatchAssumption`, `CronAssumption` (a next occurrence is later than the time asked
about), `CompletionAssumption`, `ClusterAssumption` and `BatchAssumption`, `EnqueueAssumption`,
`BackoffAssumption` (the width of an integer and a second are positive, and a second fits) and
`NothingAssumption` (values that stand for "none" are none of the others). Two theorems
need more, and say so in their statement: `AssignmentsNameHolders` has `ReuseIds = FALSE`,
clients that make up an id for each connection (the Node SDK makes up one per client and
reconnects under it, and then `register` drops the slots of the old entry: the claim is
false with `ReuseIds = TRUE`); `WaitIsBounded` has the three hypotheses explained below.

| Theorem | Statement |
|---|---|
| `StoreBudget` | `StoreSpec => [](StoreTypeOK /\ AttemptBudget)` |
| `DispatchTypes` | `Spec => []TypeOK` |
| `DispatchUsesStore` | `Spec => StoreSpec` |
| `DispatchBudget` | `Spec => []AttemptBudget` |
| `NoRunningJobSlipsAway` | `Spec => []RunningIsTracked` |
| `NoZombie` | `Spec => []NoZombieRegistration` |
| `AssignmentsNameHolders` | `ReuseIds = FALSE` implies `Spec => []AssignmentsBacked` |
| `SlotsAreWork`, `ConcurrencyBounded`, `HandedOutOnce` | `Spec => [](Undisturbed => P)` for `SlotsMatchWork`, `ConcurrencyRespected`, `ExactlyOneCopy` |
| `FollowsLifecycle`, `FinalUntilDisturbed` | `Spec /\ []Undisturbed => P` for `ImplementsLifecycle`, `SettledIsFinal` |
| `CronTypes`, `LocksProtect`, `OneJob`, `NothingEarly` (Cron) | `Spec => []TypeOK`, `[]LockedStaysDue`, `[]OneJobPerOccurrence`, `[]NeverEarly` |
| `PauseIsProtected`, `DeleteIsFinal` (Cron) | `Spec => PausedIsQuiet`, `Spec => DeletedForGood` |
| `WaitIsBounded` (Cron) | `SomeServer`, `PassTakesAll`, `OverForGood` imply `Spec => []LatenessBounded` |
| `CompletionTypes`, `NobodyForgotten`, `AnswersWereTrue` | `Spec => []TypeOK`, `[]NoForgottenSubscriber`, `[]ToldWasTrue` |
| `CompletionUsesStore` | `Spec => StoreSpec` |
| `ClusterTypes`, `ClusterHeld`, `ClusterOneResult` | `Spec => []TypeOK`, `[]RunningIsHeld`, `[]OneResult` |
| `ClusterSuccessFinal`, `ClusterBudget` | `Spec => SuccessIsFinal`, `Spec => []SharedBudget` |
| `EnqueueTypes`, `OneJob`, `OneMaking` (Enqueue) | `EnqueueSpec => []EnqueueTypeOK`, `[]OneJobPerKey`, `[]MadeOnce` |
| `EnqueuesAmidRetries` (Backoff) | `Spec => EnqueueSpec` |
| `BackoffTypes`, `RetriesOnTime`, `ProcessorLives` (Backoff) | `Spec => []TypeOK`, `[]DelayAsPromised`, `[]ProcessorSurvives` |

**Store, registry, dispatch.** The argument goes bottom up. `JobStore_proofs` shows per
storage operation that it keeps rows well-formed and within budget, and which jobs can
become RUNNING by it. `WithinBudget` needs its second half, that a queued row has an
attempt left, because the claim is what increments the counter. `Registry_proofs` says
per method what it does to each entry. `Dispatch_proofs` shows that every action of
Dispatch is a step of both (`StoreStep`, `RegistryStep`), so that the budget is inherited
through `DispatchUsesStore` and never proved twice, and that the rest of the state keeps
its shape (`Shape`).

`RunningIsTracked` is not inductive: while a job is between `try_assign_job` and
`try_send`, its slot may be taken away by a stream that ends or by a late ack, and
if being the current job were the reason why it is tracked, the reason would vanish
with `SendOk`. The strengthening `RunningIsKept` does not accept "about to be sent":
it asks that the job still has its slot, or is on the list of the stream task that
took the slot, or in the ack call that freed it. It was checked with TLC before it
was proved, one lemma per group of actions.

`NoZombieRegistration` follows from `Shape` by looking at which actions change an
entry's channel (`ChannelStays`) and which change a stream's owner or task
(`ServingStays`): only the stream's own task ends it, and it unregisters its worker in
the same step.

`AssignmentsBacked` is inductive in the registry together with `NoLeftovers` (an id
without an entry holds no job), except for `register`: it replaces the entry of an id and
leaves the index as it was. `Dispatch_proofs` shows that an id that is not reused has no
entry when it registers, because an entry names a stream and a stream a worker that has
connected (`NoZombieRegistration`).

**The undisturbed dispatcher.** `SlotsMatchWork`, `ConcurrencyRespected`,
`ExactlyOneCopy` and the lifecycle are false once a stream breaks: the clean-up requeues
a job whose run goes on. They are claims about what happens up to then, whatever the
database does, so `DispatchSteady_proofs` proves them under `Undisturbed` (no broken
stream, lost call or restart so far). `SteadyInv` is `IInv`, the invariant above, and
`Undisturbed => Steady`, where `Steady` places everything: each job is in at most one of
the scheduler's hand, a channel, a worker, an ack call and the ack queue, with the attempt
of its row (`Placed`); streams only open and the registry names them (`Serving`); slot,
assignment and presence on a worker coincide (`SlotsBacked`); the slots of a worker fit an
offer of it (`Roomy`). That last one is where the late ack would hurt: without faults the
slot `job_completed` frees is the one of the worker that acknowledges. The refinement asks
of each step what it does to each row (`RowStep`): a row is untouched, or moves as the
lifecycle allows, and several rows moved in one batch are a step of `JobLifecycle`, which
is stated for sets of rows. It needs that a result in the queue is of a RUNNING row, so
it holds as long as the system is undisturbed; with faults, `lateack` shows how it fails.

**Cron.** `Cron_proofs` proves `CronInv`, the conjunction of the type invariant,
`LockedStaysDue`, `OneJobPerOccurrence` and `NeverEarly`. The first two are what makes
the others inductive: a pass commits rows it selected earlier, and only the lock says
that they are still due. `Advancing` is the one lemma about what a pass does to rows and
run ids, used for both storages. `PausedIsQuiet` follows from it;
`DeletedForGood` needs in addition that no resume is ever between a read and a
write on SQLite.

`LatenessBounded` looks at where a schedule stands, the alarm of a loop at what it will
do: `LateInv` joins them (`Punctual`). While a loop sleeps, its alarm rings before any
schedule nobody else works on becomes late; once it looks, the pass ends in the same
second, and what it has locked is no longer waiting. A schedule that appears or is resumed
gets an occurrence after the present (`FreshResumes`). The hypotheses are what the claim
is about, and `MCCron` has TLC evaluate them for its instance: some server runs
(`SomeServer`); a pass takes all that is due (`PassTakesAll`, see section 4); and an
expression without a later occurrence has none later still (`OverForGood`), as is true of
any calendar: a schedule the last pass left alone cannot begin to wait as time goes by.

**Cluster.** `Shape` is the type invariant with what the stage of a call says of it: a
call among its successes has read nothing, the rows it has written are among its
successes, and so on. `RunningIsHeld` is inductive over `Shape`. `OneResult` is too,
read as a statement about places: the one execution of a job is on a worker, then in the
queue of one server, then in its call, and each step hands it on; a claim makes a new
one only of a PENDING row, which has none. `SuccessIsFinal` follows: a row that is
SUCCESS is not RUNNING, so by `OneResult` no call has a result of it, and only a call
could write it. That `Current` names the first of the failures to do needs a least
element of a set of places, which is taken from the well-foundedness of the strict
subset order (`SmallestOf` in `JobStore_proofs`).

`SharedBudget` is about numbers: each result under way may give its job one attempt more.
Of a job that is not a stray (no operator retried it with a result under way), `Budgeted`
says that the executions and results under way in all servers are no more than the takings
back, and one more if the row has left the queue (`FewResults`); and that, once the
attempts are used up, every call that is about to requeue the row, and the row if it is
queued, has a taking back to answer for it (`Spare`). One of the takings back pays for
each result beyond the first, so two servers that fail the same attempt in turn cannot
both requeue it for free. `Covered` compares the sets: what a step leaves is the image of
what there was. `BudgetInv` was checked with TLC on the `cluster` run first.

**Enqueue and Backoff.** `CallsAreEnqueues` shows that every step of Backoff is one of
Enqueue or leaves its variables alone, so that the next two hold amid retries.
`OneJobPerKey` needs that an answer under way names a row of its key, and
that a call that fetches has a row to find: rows are never removed. `MadeOnce` needs
that a call that made the job is the only one whose answer says so.
`DelayAsPromised` compares the arithmetic of the code, wrapped at each step in a release
build and trapped in a debug one, with the exact one. `WrapFacts` says that wrapping
leaves a number alone that fits, and `InRangeIsExact`, `InRangeSum` and
`InRangeSeconds` take that through power, product, cap, jitter and the split into
seconds. That a power of two is one, which the solver does not know, comes from counting
subsets (`PowersOfTwo`). `ProcessorSurvives` has its content in the same lemmas: a
failure whose delay fits traps nowhere (`RetryAsPromised`), nor does attempt 0 of a fixed
or linear delay, or of an exponential one in a release build (`BearableIsSafe`), so that
of the job the processor died of only `Unbearable` is left.

**Completion.** `NoForgottenSubscriber` is inductive over the types of the rows, the
queue and the cache. The step that matters is a commit (`Announcing`): the row shows the
last result of the batch, and if anything of the job is cached, it is the notice of that
last result, since the first announced one is the only one that can have been sent.
`CompletionTypes` needs that a request names finitely many jobs, so that its notices can
be put in order, and that what a batch sends is a sequence: the function behind the
concatenation is built up to the least place where it would fail (`FlattenType`).

`ToldWasTrue` speaks of handles only; what a handle will be told comes out of the cache,
a stream or the results kept by its client. `TruthInv` therefore says of each of these
that it is `Truthful`, and `Grows` that no step takes back what makes an answer true: a
success leaves the queue only into the row, into `lost` or into `doubled`. The rest is
one lemma per step that hands an answer on (`CommitTells`, `SubscribeTruth`,
`ReceiveTruth`, `HandleStepTruth`).

Model-checked only: the liveness properties (`EventuallySettled`, `DueIsTriggered`,
`EveryCallReturns`, `EveryJobEnds`, `KeyedIsAnswered`). They rest on fairness, hence on
`ENABLED`, which the prover does not handle. Every other property of a passing run is
the subject of a theorem.

## 6. Where the code and its documents differ

Five runs end in a counterexample; `findings` in `PROJECT.json` quotes the lines.

* `reconnect` - the task of an old stream unregisters the worker's new stream.
* `recovery` - a closed channel leaves the row RUNNING until the next start.
* `lateack` - a late ack reopens a job that has SUCCESS.
* `rust_result` - `result()` of the Rust SDK never returns: the client never subscribes.
* `backoff` - the delay of a late attempt overflows, and the batch processor panics.

The models contain more that a reader of the code may not expect, and that the
properties above leave room for: a late ack frees the slot of the worker that has the
job now, which may then be sent more than it announced; a disconnect gives a job an
attempt beyond `max_attempts` (`resets` in `AttemptBudget`); on Postgres a resume in
progress undoes a delete, and the loser of a race between two enqueues is told
`deduplicated: false`; an update of a schedule writes back a `next_run_at` read earlier;
a schedule created while the loop sleeps misses occurrences until it wakes; the jitter
is added after the cap, so a delay may exceed `max_delay_ms`; a late failure after an
operator's retry computes the delay of attempt 0; `mark_job_dead` of a starting server
may bury a job that has SUCCESS by then (`disturbed` in `SuccessIsFinal`); a cached
notice outlives an operator's retry, so a later subscriber hears the earlier end.

## 7. Not modelled

* Metrics, the dashboard, generated gRPC code, `get_job` and `list_jobs` and the typed
  wrappers of the SDKs change no job.
* `find_best_worker`, `get_stale_workers`, `update_heartbeat`, `claim_jobs` and
  `update_job_result` are never called by the server.
* The shutdown sequence of `main.rs` comes after `server::serve` returns, so it is not
  reached while the server serves.
* The Rust client's loops end for good when a stream ends without an error; a Node
  stream that reports both an error and its end would be opened twice. Which of them
  happens is the gRPC library's choice; the models take one new stream per break.
* Starting a server process from a client, and event listeners that nothing in the SDKs
  registers.

## 8. Plan

The invariants and action properties of the runs are proved. What is left:

1. The rows of `Cluster` as a refinement of `JobLifecycle` for jobs no server took back:
   `OneResult` and `Budgeted` hold what it needs, and it would say of several servers what
   `FollowsLifecycle` says of one.
2. The two hazards without a property (`hazards` in `PROJECT.json`): an expression that
   ends, which the code skips as designed; and a second stream of a Node client, which is
   up to the gRPC library.
3. The safety half of the liveness properties (what is under way when a job has not
   settled) as theorems, so that only the fairness argument stays with TLC.
