# TLA+ models of the ComputeHorde validator

This directory holds TLA+ specifications of the concurrent and protocol-driven parts of the
ComputeHorde validator and SDK under `src/`. It also holds the TLC configurations that check
them. `PROJECT.json` is the machine-readable index:
- every component and its status;
- every run and the properties it checks;
- the mutants that show each property can fail;
- the source lines each definition models;
- the findings and the hazards.

## 1. Inventory of the system

| Part (spec name) | Source | State | Operations | Concurrency |
|---|---|---|---|---|
| C1 Chain oracle | `allowance/utils/supertensor.py` (`SuperTensor`) | the current block; the lite node's pruning horizon (`LITE_BLOCK_LOOKBACK`); the optional archive node | `get_current_block`; reads of neurons, timestamp, hash, subnet state and validators per block; `archive_fallback`; `RETRY_ON_TIMEOUT` (3 attempts) | called from many threads, each with its own client |
| C2 Prefetch cache | `supertensor.py` (`PrecachingSuperTensor`, `InMemoryCache`) | `highest_block_requested`, `highest_block_submitted`, the unbounded `task_queue`, the cache keyed by (kind, block), `closing` | `produce_thread`, `worker` (N_THREADS), `set_starting_block`, the five cached reads, `close` | one producer thread, ten worker threads and any number of consumer threads share the counters and the cache without locks |
| DjangoCache | `supertensor_django_cache.py`, `supertensor()` | pickled entries with a 10-minute TTL | put/get per kind; a deserialisation error reads as a miss | shared between processes |
| C3 Allowance tasks | `allowance/tasks.py`, `allowance/types.py` | DB lock `ALLOWANCE_FETCHING` | scan under a transaction and the lock: on `Locked` do nothing, on `TimesUpError` re-delay; `sync_manifests` records a failure event | Celery workers race for the lock |
| C5 Job driver | `organic_jobs/miner_driver.py` | the `OrganicJob` row (status), the `SystemEvent`s, the `JobStatusUpdate`s sent to the facilitator | `drive_organic_job`: accepted callback, success, one branch per `FailureReason`, BUSY excuse check, `assert_never` | one asyncio task per job; the miner and the timeouts race |
| C6 Receipt transfer | `management/commands/transfer_receipts.py` | cutoff, the current page, the kill switch | `run_once`; `run_in_loop` (initial active-page catch-up, then `gather(catch_up, keep_up)`); `_throw_if_disabled` | two coroutines on one loop and one session; `keep_up` sleeps with the blocking `time.sleep` |
| C7 Output upload | `compute_horde_core/output_upload/_uploader.py` | the class-level `Semaphore(3)` | `retry` (3 attempts), `MultiUpload` (gather of uploads), single POST/PUT, `zipped_directory` (file-count cap) | concurrent uploads on one loop |

The miner router (C4) and the allowance ledger (C3) are not under `src/`. Neither is the library
function `run_organic_job` that the driver calls. Only their tests and their interfaces are here.

How the parts interact:
- The allowance engine is meant to read chain data through the singleton `supertensor()`. This
  is a `PrecachingSuperTensor` in consumer mode over the DjangoCache, with worker processes
  running the same class with its threads on, to fill the cache ahead of the consumer (spec
  4.2). In this repository `supertensor()` has no caller, and `DjangoCache()` cannot be built
  (section 5).
- The job driver runs one organic job against the miner that the router chose. It reports
  statuses to the facilitator.
- Receipt transfer pulls the miners' receipt pages into the store, which the allowance ledger
  reads.

What is hard, and what needs a model checker:
- **The cache.** Three kinds of threads share unlocked counters. A task can fail and be
  dropped. A consumer's inline fallback can race a worker on the same key. Shutdown relies
  on one sentinel per thread.
- **The driver.** Two writers feed the facilitator's status stream: the library's callback and
  the driver's own handler. The terminal outcome depends on every combination of miner
  message and timeout.
- **Transfer and upload.** Transfer has two loops that share a loop and a session. Upload has
  a semaphore that is held for the wrong span.

The full list, each at its source line, is under `hazards` in `PROJECT.json`.

## 2. Plan

1. `PrecachingSuperTensor` and `ChainOracle` (done): the producer, the workers, the consumer's
   reads and `close`, over the `SuperTensor` read path with its fallback and retries.
2. `JobStatusStream` and `OrganicJobDriver` (done): the abstract status stream, and the driver
   shown to refine it.
3. `OutputUploader` (done): `MultiUpload` against `MAX_CONCURRENT_UPLOADS`, with a violation
   run for the semaphore span. Also `retry`, and gather's partial failure.
4. `ReceiptTransfer` (done): `run_in_loop` with catch-up and keep-up as two processes on one event
   loop. This covers the blocking sleep, the kill switch, the restart with a stale cutoff, and
   the liveness of every page's transfer.
5. DjangoCache expiry (dropped): the class cannot be instantiated, see section 5.
6. The router and the allowance ledger, modelled from spec 4.3 and 4.4 (marked
   `spec_modelled`): reservations, the preliminary reservation, the blacklist and excuses. The
   driver module would then feed the blacklist.

## 3. Modules

### PrecachingSuperTensor (`PrecachingSuperTensor.tla`, `MCPrecachingSuperTensor.tla`)

- **Variables.** These mirror the object: `current_block` (the chain head after the `-5` of
  `get_current_block`), the two counters, `task_queue` (a sequence of `(kind, block)` pairs,
  with `THE_END` sentinels), `cache` (the set of cached keys), `closing`, and a program counter
  for the producer and for each worker. `errors` counts transient read failures up to
  `MaxTransientErrors`. Each consumer thread (`Consumers`) has a program counter
  `consumer_pc`, the block it is reading and the `highest_block_requested` it read first
  (`consumer_seen`); `consumer_reads` caps its reads at `MaxReads`. Three history variables
  state the properties: `max_requested` (the largest block any consumer requested),
  `submitted_blocks` (every block the producer enqueued) and `served` (every key a fallback
  read returned data for; a hit comes from the add-only cache and needs no record).
- **Producer.**
  - `ProduceCheck` is one pass of the `produce_thread` loop's guards: `closing` returns;
    otherwise it waits while the counters are None, the window `CACHE_AHEAD` is full, or the
    head is reached.
  - `ProduceSubmit` puts the block's tasks and advances `highest_block_submitted`.
- **Workers.**
  - `WorkerCheck` is the `closing` test.
  - `WorkerGet` is the blocking `get`, where a `THE_END` makes the thread return.
  - `WorkerRun` is the cached check, followed by either the put or the dropped task of the
    `except` clauses.
- **Consumer.** `set_starting_block` takes no lock, so it is split into the steps another
  thread can come between (as a read-modify-write is split in the threads examples):
  - `StartRead(c, b)` reads `highest_block_requested` for block `b`;
  - `SetRequested(c)` writes `max(seen, b)` back and tests `highest_block_submitted is None`;
  - `SeedSubmitted(c)`, taken only when that test held, writes `b - 1`, whatever another
    consumer wrote since.

  `CacheRead(c, k)` is then the read of kind `k` (`_list_neurons` to `list_validators`):
  - on a hit, it returns the data;
  - on a miss with `throw_on_cache_miss`, it raises;
  - otherwise it reads the chain. What the read stores is exactly what the code stores:
    nothing for the timestamp; the neurons, subnet state and validators for `list_validators`.
    A failed read may leave part of that stored.
- **Shutdown.** `Close` sets the flag and puts one sentinel per worker.
- **Chain reads.** `WorkerRun` and `CacheRead` take the outcome of their chain read from
  `ChainOracle` (below), tabulated once over kinds, blocks and heads (`ReadTable`). A read that
  fails by timeout counts against `MaxTransientErrors`. Once the bound is reached, no further
  read times out.

### ChainOracle (`ChainOracle.tla`)

This module covers one `SuperTensor` read: the decorator stack `RETRY_ON_TIMEOUT` around
`archive_fallback` around `make_sync`. It has no variables. A node call is abstracted to its
outcome:
- the datum;
- `UnknownBlock`, when the lite node has pruned the block (`LitePruned`);
- `SuperTensorTimeout`, when `wait_for` expires.

The operators, and what they translate:
- **`Fallback`** is `archive_fallback`. On `UnknownBlock` it makes the archive call, or raises
  `ArchiveSubtensorNotConfigured` when there is no archive.
- **`RetryOnTimeout`** (RECURSIVE) is the retry. It starts the whole fallback again, lite node
  first, while the result is a timeout and attempts remain.
- **`ReadOutcomes`** is the image of `RetryOnTimeout` over every sequence of node-call outcomes
  (`CallSeqs`).
- **`ValidatorsOutcomes`** is `list_validators`: two such reads, where the first failure wins.

`PrecachingSuperTensor` instantiates the module (`Oracle`), so the cache runs on these
outcomes. `ChainReadsReliable` checks the read path against spec 4.1 in every state of both
cache runs, at the head the chain has then reached.

### JobStatusStream (`JobStatusStream.tla`)

This is the abstract specification of what the facilitator sees of one job. It starts with
`received`. Each update is a legal successor of the last one: the next progress status, or
`failed` or `rejected`, or `completed` after `execution_done`. Nothing follows a terminal
status.

### OrganicJobDriver (`OrganicJobDriver.tla`, `MCOrganicJobDriver.tla`)

- **The protocol run.** The library's `run_organic_job` is modelled from spec 4.5 and the tests:
  - connect;
  - the initial response (accept, decline BUSY or other, or `initial_response_timeout`);
  - executor ready or failed;
  - volumes ready;
  - execution done;
  - finished;
  - job failed (plain, or the Hugging Face error type);
  - the stage timeouts.

  The `accepted` update comes from the driver's `notify_job_accepted` callback.
- **The handler.** Each branch of `drive_organic_job`'s `except OrganicJobError` is an action
  that sets the row's status, writes the event (unless trusted-miner events are off), and
  sends one update.
- **BUSY declines.** `HandleDeclinedBusy` needs the `JobStartedReceipt`; without it the handler
  raises. It compares the count of valid excuses with the miner's expected executor count.
- **Unknown reasons.** `HandleUnknown` is `assert_never`.
- **Store failures.** `Conclude` is the tail of every branch: `job.asave()`, `save_event`, then
  `notify_callback`. With `StoreFailures`, any of the three may raise, leaving the ones before
  it done and the driver crashed (`StepsDone`).

`ReceiptAtInitialRequest` and `VolumeStageTimeouts` are the two library behaviours that the
spec and the tests disagree on. Together with `StoreFailures` they form a *world*, a record
that `Init` chooses from the constant `Worlds` and that no step changes. `MCOrganicJobDriver.tla`
defines the worlds: `ReceiptFirstWorld` (a library that writes the receipt before the miner
answers and reports a late `VolumesReady` as `STREAMING_JOB_READY_TIMED_OUT`, no store
failures: the one world in which the driver has a branch for every outcome), `SpecOrderWorld` (the spec's receipt order, `VOLUMES_TIMED_OUT`, failing awaits) and
`SpecLibraryWorld` (the spec's library with healthy stores). The passing run checks the stream
and row properties in the first two; `driver_spec_library` checks `JobConcludes` in the third. `DisableTrustedEvents` is the dynamic config option. `Init` is
the row `execute_organic_job_request` creates: `OnTrustedMiner` is its miner branch (the debug
miner, the fake trusted key, or a metagraph miner), so the job is on a trusted miner only for
the fake trusted key. The expected executor count (`0..MaxExpected`) and the number of
valid excuses (`0..MaxExcuses`) are chosen by the model.

### OutputUploader (`OutputUploader.tla`, `MCOutputUploader.tla`)

Each `upload()` call is a process with a `pc`, and each upload inside it (the single zip of a
Zip uploader, or a MultiUpload's files and system zip) is a task.
- **Zip uploaders.**
  - `ZipDirectory` is the call of `zipped_directory`. `ZipEntries` counts what
    `directory.glob("**/*")` lists: the `DirFiles` files plus the `DirSubdirs`
    subdirectories, less the excluded paths. `ZipOutcomes` refuses more than
    `MAX_NUMBER_OF_FILES` entries; otherwise the size limit may still raise.
  - `AcquireAndUpload` takes a permit of the class-level `_semaphore` and starts the upload.
  - `ReleaseAfterUpload` returns the permit, and the call returns or raises.
- **MultiUpload.**
  - `AppendUpload` is one iteration of the loop. A missing file raises; otherwise the
    coroutine is appended while a permit is held for that step only.
  - `StartTask` is gather starting a coroutine. The system zip runs `zipped_directory`
    with the `NFiles` single files excluded, and may fail its limits.
  - `GatherReturns` raises at the first failure, or returns when every upload succeeded.
- **Retries.** `Attempt` is one try of `upload_post`/`upload_put`. A failure is retried until
  `LastAttempt` (`i == max_retries - 1`) re-raises it.
- **State.** `sem` counts free permits. `received` records what the server accepted.
  `refused` is a history of the zips refused by the file-count limit.

### ReceiptTransfer (`ReceiptTransfer.tla`)

`transfer_receipts.py`: a single module, with `daemon` (the `--daemon` flag) chosen by `Init`.
Time is counted in pages (`now`). A page is *complete* once it has been pulled on an open
session after it ended. `ReceiptsTransfer.transfer` is a library call and is not in src. It is
modelled by what it achieves for a page (`Pull`): on an open session every ended page in the
list is pulled whole, and on a closed session every request fails.
- **handle.**
  - `RunOnce` is `run_once`: one catch-up over `OncePages` (`cutoff_page..current_page`).
    When it runs out of pages, `RunOnceReturns` follows.
  - `RunInLoop` is `run_in_loop`. It reads the page, opens the session and awaits the catch-up
    of `ActivePages`.
  - `Gather` is `asyncio.gather` of a `catch_up` task over `ColdPages` and a `keep_up` task.
  - `GatherRaises` is gather raising the first `TransferIsDisabled` without cancelling the
    other child, after which the session closes.
  - `SleepDisabled` is `asyncio.sleep(60)` and the next `run_in_loop`, with the same cutoff.
- **Coroutines.**
  - `MainCheck`/`CatchUpCheck`/`KeepUpCheck` are `_throw_if_disabled` at the top of each
    iteration. A missing config key counts as off.
  - `MainTransfer`/`CatchUpTransfer` pull one page.
  - `KeepUpTransfer` reads `current_page` and pulls its active pages.
  - `KeepUpSleep` is the blocking `time.sleep`: one step, in which no other coroutine runs and
    the page may change.
- **Failing awaits.** Every await that can raise besides `_throw_if_disabled` (the `miners()`
  query, `aget_config`, `ReceiptsTransfer.transfer`) may fail, up to `MaxErrors` times in a
  behaviour (`AwaitMayRaise`). In the first sweep or `run_once` the error leaves `handle`
  (`main = "crashed"` or `"failed"`). In a gathered task it ends the task (`TaskError`), and
  `gather_exc` keeps the first exception of the current gather (`FirstException`):
  `GatherRaises` sleeps and retries for `TransferIsDisabled` and ends the command for any
  other. Nothing runs once the command has crashed.
- **Tasks.** Tasks are named `<<kind, epoch>>`, where `epoch` counts the gathers started. A
  task's session is open while its epoch is the latest and main is still in gather
  (`SessionOpen`). Tasks of older epochs are the orphans gather left running.
- **Environment.** `Tick` moves time on, and `Toggle` flips `DYNAMIC_RECEIPT_TRANSFER_ENABLED`
  up to `MaxToggles` times. `CanCross` is the assumption that a page lasts longer than one
  keep-up period: while a run is alive, at most one page boundary passes between two polls.

## 4. Runs

| Run | Config | Result | What it shows |
|---|---|---|---|
| `pst_archive` | `MCPrecachingSuperTensor.cfg` | pass | With an archive, fail-closed reads and two consumer threads running `set_starting_block` at once, no enqueued block is more than `CACHE_AHEAD` past the largest block requested, and a block past the head is enqueued only if a consumer asked for it (`EnqueuedWithinWindow`: a stale `None` test can re-seed `highest_block_submitted` above the head, so "never past the head" does not hold). A block the lite node has pruned is read from the archive, and a read gives up only after three timeouts (`ChainReadsReliable`). Every queued task ends cached unless the client closes (`SubmittedBlocksCached`). `close()` stops every thread (`ShutdownCompletes`). |
| `pst_lite` | `MCPrecachingSuperTensorLite.cfg` | pass | On a lite node with the inline fallback, pruned blocks fail and partial `list_validators` fills happen, yet every key served is cached (`ServedDataCached`). `ArchiveSubtensorNotConfigured` is raised only for a pruned block, never `UnknownBlock` (`ChainReadsReliable`). |
| `pst_drop` | `MCPrecachingSuperTensorDrop.cfg` | violation of `SubmittedBlocksCached` | One timed-out read in a worker drops the task, and no one resubmits the block. This contradicts spec P6 (every block up to the head gets prefetched). |
| `pst_stall` | `MCPrecachingSuperTensorStall.cfg` | violation of `PrefetchesAhead` | Consumer c1 reads block 3 and c2 block 1, both seeing `None`. c1 writes 3 and seeds `highest_block_submitted = 2`; c2 then writes `max(0, 1) = 1`, losing c1's update (supertensor.py:550). The producer's window guard now holds it forever, and block 3, which c1 requested, is never prefetched. Spec 4.2 says a request sets `max(highest_requested, B)`. |
| `uploader` | `MCOutputUploader.cfg` | pass | Two Zip uploads and a MultiUpload compete for one permit. A call that returns normally had every upload accepted (`SuccessMeansAllReceived`). Every call returns or raises (`EveryUploadReturns`). |
| `uploader_bound` | `MCOutputUploaderBound.cfg` | violation of `UploadConcurrencyBounded` | With the code's three permits, a MultiUpload of three files and a system output runs four uploads at once, next to a Zip upload that holds a permit. The semaphore covers only the append of each coroutine (_uploader.py:159), not the upload that `gather` runs. |
| `uploader_zip_count` | `MCOutputUploaderZipCount.cfg` | violation of `ZipFileLimit` | `zipped_directory` counts the entries of `glob("**/*")`, and those include subdirectories. A directory holding `MAX_NUMBER_OF_FILES` files and one subdirectory is refused, although spec P7 limits only files (_uploader.py:300-306). |
| `receipts` | `MCReceiptTransfer.cfg` | pass | The daemon's first sweep, cold range and keep-up window leave no gap. While a run is alive, every ended page from the cutoff is complete or still due in that run (`NoPageLeftBehind`). Once the switch stays on, every ended page is eventually pulled whole, across the restart an off/on cycle causes (`PagesEventuallyComplete`). |
| `receipts_orphan` | `MCReceiptTransferOrphan.cfg` | violation of `TransfersOnOpenSession` | The switch goes off: one loop raises, gather ends, and the session closes. The switch goes back on before the other loop's next check, so that loop passes it and transfers on the closed session (transfer_receipts.py:186). An orphaned `keep_up` then runs forever beside the new run's. |
| `receipts_crash` | `MCReceiptTransferCrash.cfg` | violation of `DaemonRunsOn` | One failing await (the miner query, `aget_config` or the transfer) in the first sweep or in a gathered loop propagates out of `run_in_loop`; `handle` catches only `TransferIsDisabled` (transfer_receipts.py:146), so the `--daemon` command ends. Spec 7 says fatal errors are audited and the loop sleeps and retries, and spec 4.6 that the loops run indefinitely. |
| `driver` | `MCOrganicJobDriver.cfg` | pass | Over `ReceiptFirstWorld` and `SpecOrderWorld`. In both, the row, the event and the last update agree (`OutcomeMatchesUpdate`), the stream refines `JobStatusStream` (`StatusStreamRefinement`), and even when a database or channel await of the handler raises, a terminal update is only sent for a row that is already final and has its event (`UpdateBackedByRow`). |
| `driver_spec_library` | `MCOrganicJobDriverSpecLibrary.cfg` | violation of `JobConcludes` | In `SpecLibraryWorld`, with the library as spec 4.5 and the tests describe it, two paths leave a job with no terminal update. (1) The receipt is written on executor ready, so on a BUSY decline the handler's `JobStartedReceipt.objects.aget` raises; this is the trace TLC reports. (2) The tests expect `VOLUMES_TIMED_OUT` to end in `failed`, but the driver has no branch for it, so `assert_never` raises. |

### Bounds

The cache runs use:
- two workers (the code has ten);
- the chain head moving from block 2 to block 3;
- `CACHE_AHEAD = 1`;
- `LITE_BLOCK_LOOKBACK = 1`;
- two consumer threads with one read each in `pst_archive` and `pst_stall`; one consumer,
  with one read in `pst_drop` and two in `pst_lite`;
- one data kind (NEURONS) in `pst_archive` and `pst_stall`, NEURONS and VALIDATORS in
  `pst_lite` and `pst_drop`, so that the composite `list_validators` fill is covered.

Why these are enough:
- Two consumers with one read each are the smallest case of the lost `max()` update and of
  the stale `None` test; a second read per consumer multiplies the interleavings of the
  producer run past what TLC finishes in minutes.
- Two workers are enough for every race between two threads on one key, and for a sentinel
  taken by the wrong thread.
- With `CACHE_AHEAD = 1`, the window guard actually binds at block 3.
- With a lookback of 1, block 1 becomes pruned once the head reaches 3.

The uploader's passing run has three calls and one permit, so that every call has to wait
for a permit. It keeps the code's three attempts per upload. The violation run uses the code's
three permits. The passing runs give the directory exactly `MAX_NUMBER_OF_FILES` entries
and no subdirectory, so the Zip uploads pass the count check and go on to take permits. The
zip-count run adds one subdirectory to a directory at the limit: the smallest directory on
which counting entries and counting files disagree.

The receipt runs start at page 3 with the cutoff at page 1 and `N_ACTIVE_PAGES = 2` (the
spec's typical value). Time runs to page 5 (page 4 in the violation run), and the switch
flips twice. One await may fail (`MaxErrors = 1`; none in the orphan run), which is enough
for each place an error can arise and for it to meet a pending `TransferIsDisabled`. The first sweep, the cold range and the keep-up window are then each non-empty,
and pages end both before and after the restart. One off/on cycle creates the one orphan the
finding needs; a second cycle adds only another orphan of the same kind.

The driver runs enumerate every miner message and timeout at every stage, so the only bounds
are the excuse and expected counts, both `0..2` (`0..1` in the violation run). That range
includes the `0 >= 0` edge.

### Fairness

- **Cache.** The producer and the workers are daemon threads whose loops never block except on
  `Queue.get` and short sleeps, so each gets weak fairness. The chain, the consumers and
  `close()` get none.
- **Driver.** The driver's steps get weak fairness: connecting, timeouts firing, and the
  handler running. Every wait of `run_organic_job` is bounded by a timeout, and the handler
  is straight-line code. The miner gets no fairness: it may stay silent forever.
- **Uploader.** The event loop runs every ready coroutine, so every call and every task gets
  weak fairness. `asyncio.Semaphore` wakes its waiters in FIFO order, so waiting for a permit
  gets strong fairness. An HTTP attempt's outcome gets no fairness, but the retries are
  bounded.

- **Receipt transfer.** asyncio runs every ready coroutine, so `handle` and each gathered task
  get weak fairness. Time and the switch get none. `PagesEventuallyComplete` is stated under
  `<>[]enabled`: a switch left off transfers nothing, by design. It also assumes that the command
never crashes, since `receipts_crash` shows that a failing await ends it.

### Mutants

Each property of a passing run has a mutant in `PROJECT.json`. The mutant is a plausible bug
written as an operator next to the definition it replaces, for example:
- a sentinel short in `close`;
- `set_starting_block` seeding `b - 2`;
- the chain retry stopping one attempt early;
- `>` for `>=` in the window guard;
- the excused branch sending `failed`;
- a missing `elif`;
- events written for trusted miners.

TLC finds each property violated when its mutant is swapped in.

## 5. Not modelled (yet)

- **DjangoCache and the consumer-mode singleton.** `BaseCache` declares `get_block_hash` and
  `put_block_hash` abstract, and `DjangoCache` defines neither. `DjangoCache()` therefore raises
  `TypeError`, and `supertensor()` (supertensor.py:646) raises on every call. Nothing in src
  calls it. The ten-minute TTL and the miss on an unpickling error can never be reached here,
  so they are not modelled and no hazard is listed for them.
- **The allowance scan lock (`tasks.py`).** The task wraps `utils.blocks`, and both it and the
  `Lock` class are outside src. Whether a `TimesUpError` re-delay can lose the race for the lock
  against its own transaction depends on how `Lock` is released. The hazard is listed with
  that note.
- **Inside `ReceiptsTransfer.transfer`, and timing.** The per-miner requests, the semaphore,
  signature checks and deduplication live in the `compute_horde` library, not in src. How long
  the blocking `time.sleep` stalls `catch_up` is a duration, which the untimed model does not
  measure; spec P5's time bound is therefore checked only as termination.
- **The router and the allowance ledger.** Their code is not in this repository.
- **The `SuperTensor` neuron memo and the metagraph.** `_list_neurons` keeps the last 15
  neuron lists per client. It only saves a chain call, and the data is immutable per block.
  `get_metagraph` puts its own `RETRY_ON_TIMEOUT` around three reads that each retry, so one
  read can make up to nine attempts. Nothing the models cover calls it.
- **The timestamp write-back.** `get_block_timestamp` serves a miss from the chain without
  `put_block_timestamp` (supertensor.py:577), against spec 4.2's "misses populate the cache".
  `MissFills` models that, and `ServedDataCached` fails as soon as `Kinds` holds
  BLOCK_TIMESTAMP, but no run includes that kind: the run budget goes to the consumer race.
- **Metagraph assembly, signature handling, logging and metrics.** These are pure data and I/O.
