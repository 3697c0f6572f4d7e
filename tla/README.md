# TLA+ verification of llm-api-probe

llm-api-probe is a self-hosted monitor: it calls LLM providers on a schedule,
records what they answer, and shows the result on a dashboard that is kept
fresh by server-sent events. Everything with a lifetime of its own (trigger
queue, worker pool, scheduler jobs, SSE broker, rate and cooldown gates) runs
in ONE asyncio event loop of one backend process, beside one SQLite file.
Concurrency is therefore cooperative: a piece of code between two `await`s that
can suspend is a single step. The modules here follow that rule; where an
action spans several lines of the source, none of these lines can suspend. The
frontend hooks run in the browser's event loop, under the same rule.

## 1. Inventory

| Part | Source (`src/`) | State it keeps | Operations |
| --- | --- | --- | --- |
| Trigger queue | `backend/app/core/trigger_queue.py` | three FIFO tiers, dedup map, in-flight set, wake event, closed flag | enqueue (bump, evict, refuse), dequeue, mark_in_flight, mark_done, close |
| Worker pool | `backend/app/core/scheduler.py:1055-1124` | worker tasks, shutdown event | worker loop, start, stop with a timeout |
| Lifespan, HTTP client | `backend/app/main.py`, `core/http.py` | startup tasks, one shared client | start, catch-up, launch, teardown in order |
| Probe run | `scheduler.py:421-699`, `services/results.py:102-210` | root and provider semaphores, ORM snapshot of the model, model status, job state | resolve, wait for semaphores, gate, call, record, reschedule |
| Probers | `backend/app/probers/*.py` | one response, read in chunks | stream a chat, list models, map statuses and exceptions |
| Provider gate | `scheduler.py:99-193` | rate bucket and cooldown deadline per provider | rate check, cooldown check, cooldown set |
| Cadence | `scheduler.py:196-413`, `results.py:25-98` | success streaks, next run of each chat job, toggles | bump streak, effective interval, wake, sleep, stale test |
| Job sync | `scheduler.py:702-873`, `services/providers.py`, `services/models.py`, `api/v1/*.py` | providers, models (soft deletion), scheduler jobs, caches keyed by provider | create, patch, delete, import, discover, sync one, sync all with orphan pruning |
| Import and export | `services/import_export.py`, `services/models.py:78-223`, `api/v1/dashboard.py:40-154` | provider rows, favorites, disabled models, a session's copies | export, import spec by spec, favorites, disabled |
| Sweeps | `scheduler.py:876-1046, 1146-1255` | – | manual, periodic, wake and random triggers |
| SSE broker | `backend/app/core/sse.py`, `api/v1/dashboard.py:296-325` | set of subscriber queues, hooks | subscribe, unsubscribe, broadcast, stream |
| Probe log | `services/results.py:102-692`, `api/v1/dashboard.py:254-293` | rows with pin flags, statuses of the models | record, list, pin, unpin, two cleanups, the dashboard's rollup |
| Settings | `services/settings.py` | key/value rows | get with bounds, validated upsert |
| Frontend live data | `frontend/src/hooks/useSse.ts`, `useDashboard.ts` | EventSource, backoff, fetches in flight | reconnect, pause when hidden, debounce, poll, refresh |
| Frontend pages, styles, locales, schemas, config, migrations, scripts | rest | – | presentation, wiring |

### How they interact

Triggers (an APScheduler tick, the random sweep, a dashboard that opens, an API
call, the catch-up at the start) are put in the queue; a worker takes one and
runs the probe. The probe takes the root semaphore and its provider's semaphore,
passes the cooldown and rate gates, calls the provider, writes a row and the
model's status in one transaction, broadcasts an SSE event, and moves the next
run of its job. CRUD handlers and imports rewrite the job table through
`sync_jobs_for_provider`; the periodic `sync_all_jobs` prunes what belongs to
nobody. The SSE broker calls the scheduler back when the first dashboard opens
and the last one closes. The dashboard recomputes its rollup from the log, which
two cleanups trim; the page fetches it on events and on intervals.

### What is hard to test here

Suspension points in the middle of multi-step protocols: a probe that waits for
a semaphore with a model it read earlier; a key probed twice at once; the
dedup map whose entry changes owner while the old request is still queued; the
event that is cleared before waiting; stop while everything is in motion; an
import that decides by rows it read before another request edited them;
broadcast discarding a subscriber that has not unsubscribed; a log trimmed under
the readers that must agree with statuses kept elsewhere; a refresh that joins a
fetch older than what it is meant to show; a response cut at any byte.
`PROJECT.json` lists them under `hazards`, each at its line.

## 2. Modules

| Module | Models | Built on |
| --- | --- | --- |
| `TriggerQueue` | the data structure of `trigger_queue.py`: tiers, dedup map, in-flight set, the effect of each method | – |
| `WorkerPool` | the workers that drain the queue: dequeue and its wait, probe, shutdown | extends `TriggerQueue` |
| `TriggerService` | abstract: what the queue and the pool promise together | implemented by `WorkerPool` (`ImplementsService`) |
| `Lifecycle` | the process around the pool: boot, catch-up, jobs, teardown, the shared client | extends `WorkerPool`, implements it (`ImplementsPool`) |
| `ProviderGate` | rate window, cooldown and limit setting of one provider, concurrent probes, a clock | – |
| `ProbeCall` | one call of a prober, from the request to what is recorded of it; the terminator and the bytes are parameters | – |
| `ProbeRun` | `_run_probe` of one provider: semaphores, the row read before the wait, record, tell, reschedule | gates abstracted to "skip or admit", the call to its outcome |
| `Cadence` | when one model is probed next, over time | probe and job handling abstracted |
| `JobSync` | rows, scheduler jobs, request handlers and the two syncs, one `await` at a time | – |
| `ImportExport` | export and import of the configuration between other edits | jobs left to `JobSync` |
| `Results` | the probe log, its readers and its cleanups | – |
| `SseBroker` | broker, lifecycle hooks and the streams of its clients | – |
| `LiveData` | the two hooks of one page that shows live data | the server as a version that grows |
| `WorkerPoolProofs`, `ProviderGateProofs`, `ProbeRunProofs`, `JobSyncProofs`, `ImportExportProofs`, `ResultsProofs`, `SseBrokerProofs`, `CadenceProofs` | theorems | extend their components |

`WorkerPoolProofs` also holds the theorems about `Lifecycle`, `ProviderGateProofs` those about
the calls behind the gate (`ProbeCall`), and `SseBrokerProofs` those about the page at the
other end of the stream (`LiveData`). Each of the three extends both of its components, whose
specifications are therefore named apart: `LifeSpec`, `CallSpec`, `PageSpec`.

`MCWorkerPool`, `MCJobSync`, `MCCadence`, `MCProbeCall` and `MCImportExport` only give constants
their values or name a symmetry; the other modules are instantiated by their
`.cfg` directly. In every module a definition marked `(mutant)` is a plausible
slip of the definition below it; it is used by nothing and documents what each
property is able to notice.

### State and actions against the code

*WorkerPool.* A tier is a sequence of request objects; `pending`, `superseded`
and `inFlight` are the dictionary, the flag on the object and the set of the
code. `enqueue` and `mark_*` never suspend and are single actions.
`dequeue` suspends only in `event.wait()`, so a worker is idle, waiting, holding a
request, or probing. Shutdown is `close`, the event and a timeout
that cancels.

*Lifecycle.* `stage` is how far `lifespan` has come. The scheduler fires jobs from
its start on, before there are workers; `todo` is what `trigger_all_models_now`
has still to enqueue, a task nobody awaits. The teardown is the code's sequence:
stop the workers (wait, cancel, wait), shut the scheduler down, close the client,
dispose of the engine. Every action that touches the queue is one of
`TriggerQueue` or `WorkerPool`.

*ProviderGate.* A probe reads the limit (an `await`), then tests the cooldown and
the window and appends to the bucket in one step, then answers later. The clock
ticks between steps. Retry-After values enter raw and pass the parser's cap.

*ProbeCall.* The upstream chooses a status, then for a stream its chunks, and where it
ends; every point of it can raise, or run into the watchdog. The search for the
terminator sees one chunk at a time, as the code's does; `bytes` and `cuts` are the
history it is judged by: all that was read, and where the chunks begin.
`list_models` has its three variants, with the static list of hosts that offer
none. `Record` is what the scheduler and the services make of the outcome.

*ProbeRun.* The session does not expire its objects on commit, so the counters are
computed from the row as it was resolved, and the UPDATE writes the columns that
have changed against that copy (`Flushed`). Probes of one model may overlap, since a manual
request passes the in-flight test of the queue; `passed` marks a probe whose model another
one has recorded since it read the row, and `blurred` a model that such a probe has recorded.
The provider semaphore is a FIFO line and a
set of holders, an object of its own, so that one can be dropped while in use.
The root semaphore has as many permits as there are workers, or none.

*Cadence.* Times are relative to now. The interval trigger, the reschedule after a
probe and the push of the sleep hook all set `due`. So does every sync: `_upsert_job` re-adds a
job that exists with `next_run_time=None`, which pauses it (`Sync`, for any edit of the provider
or a full sync; `SetThrottle`, for settings that are saved; `Restart`, whose first sync finds the
jobs in the store). A paused job fires no more; the next probe, by hand or by the random sweep,
revives it. The backoff is the code's table, one
multiplier below, between and behind the tiers; the adaptive-backoff setting may have any
value at each use of it. A trigger waits and runs for at most `Slack`. `factor` is history:
doubled by each failure since the last success, it counts the halvings of the streak. So is
`pushed`, the product of the multipliers by which closing dashboards have pushed the job
since it was set.

*JobSync.* A handler commits, then syncs. `sync_jobs_for_provider` is split at its
`await`s into reading the provider, upserting the list job, reading the models and
upserting the chat jobs; `sync_all_jobs` reads the providers once, syncs each,
prunes. A job is absent, due or paused (APScheduler's meaning of
`next_run_time=None`). Crashes keep rows and jobs, which live in SQLite.

*ImportExport.* An import commits spec by spec; between two of them any other
request may edit providers. `copy` is what its session read at the start and never
reads again, and the dictionaries by name are built from it; an UPDATE writes the
columns that differ from the copy, an INSERT and a renaming may be refused by the
partial unique index, which ends the request with the specs before it committed.
Then the favorites and the disabled models, by uuid first and by name after. Two columns
stand for all: `on` for those an import always overwrites (an export has the API key, so it is
one of them), `proxy` for proxy and headers, which may be empty: an update empties the row's,
a restoration keeps it. `kept` is history: what a restoration will find.

*Results.* A row has the number of its insertion and an age. `Health`, `Available`,
`Counts`, `Stale` and `Listed` are the queries, computed from the log; `status` and
`checked` are the columns of the model that `record_outcome` writes with the row.
`cleanup_error_history` and `cleanup_old` may run at any time. `trimmed` is history:
the models whose newest row the first of them has deleted.

*SseBroker.* `broadcast` and `unsubscribe` hold the lock; the hooks run after it is
released. A client's generator subscribes before its `try`, may be discarded by
a broadcast while it goes on streaming, and may disappear at any step.

*LiveData.* `es`, `timer`, `hidden`, `stopped` are the variables of `useSse`; `live`
and `timers` count the connections and timers that exist whether or not the hook
still knows them. A fetch is idle, sent, or has read a version. Delays are left
out: a timer that is set may fire at any moment.

## 3. Runs

Each property of a passing run is shown to be breakable by a mutant of the code.

| Run | Bounds | Shows |
| --- | --- | --- |
| `worker_pool` | 2 keys, 6 requests, 2 workers, 3 pending, symmetric | no accepted key is forgotten or silenced, no lost wakeup, a refusal loses nothing; refinement of `TriggerService` (highest priority first, nothing lost) |
| `lifecycle` | 2 keys, 3 requests, 1 worker, 2 pending | an accepted MANUAL request is probed; no probe is under way when the client is closed; a shutdown ends; refinement of `WorkerPool` |
| `provider_gate` | window 3, limit at most 2, time 9, 2 probes | no window of any position holds more than the limit, not even the one a probe read before a change; every 429 is honoured |
| `probe_call` | 8 statuses, a terminator of 3 bytes, streams of up to 5, cut in every way | green only for a complete answer, however it was cut; what a model is said to suffer from is what its upstream said |
| `probe_run` | 3 probes of one model, which may overlap, 4 outcomes, 2 failures in a row, threshold 2 | sequential per provider, no permit lost on any way out, edits during a probe survive, every probe ends; the status is that of the last outcome, but where a probe has recorded over a record made since it read the row |
| `cadence` | tiers 1 and 3, backoff 1, 2 or 4, idle multiplier 2, base 2, 2 pushes | no false "stale" of a model whose job is not paused and whose triggers ran, or, if dashboards closed repeatedly, only in proportion; failures restore the base interval of a job that is neither paused nor pushed |
| `job_sync` | 2 providers with a model each, 1 handler | after each sync the jobs are those of the enabled targets; a start drops the deleted |
| `import_export` | 3 uuids, 2 names, 1 model id, 5 edits, symmetric | an undisturbed import brings back what the file has, and a restored row keeps what the file is without; a deletion during an import wins; nobody else's rows are touched |
| `results` | 2 models and the model list, 3 rows, ages up to 4 | the rollup of the log agrees with the statuses; "stale" means old; the cleanups are not seen where they should not be |
| `sse_broker` | 2 connections, queue of 2, 4 events | no gap in a stream, the wake hook last while anyone is subscribed, events delivered or the client dropped, streams forgotten in the end |
| `live_data` | 3 changes, 2 failing fetches | one connection or one reconnect exactly while the page is looked at; the screen catches up without a single event |
| `job_paused` | 1 provider, 2 models | the violation below |

Why the bounds are enough: the queue's conflicts need two requests of one key, one of another and a
full queue, with requests to spare for a successor of a superseded one; in `lifecycle` the queue of
2 is filled, bumped and refused before the one worker exists; a window of 3 and 9 ticks lets the
bucket wrap three times; a queue of 2 overflows with 4 events; 2 failures reach a threshold of 2,
and of 3 probes two overlap while a third comes behind them; the last tier and the stale age are
both reached in `cadence`; a terminator of 3 bytes whose beginning repeats is split in both places,
preceded and followed within 5; two names and three uuids let a provider be renamed, deleted and
recreated under the name of another while an import runs; with a limit of one listed error and a
retention equal to the window (the shortest there is) both cleanups delete rows of models that were
probed twice; 3 changes let a fetch read before one edit and another join it. Bounds that cut the
behaviour have names (`MaxFailures`, `MaxTime`, `MaxEvents`, `MaxStreak`, `MaxFactor`, `MaxPushed`,
`MaxEdits`, `MaxRows`, `MaxVersion`, `MaxBytes`, `Horizon`, `Slack`, `MaxSems`) and act in guards
or, for the streak, the factor and ages, as the value that stands for every greater one.
`MaxFailures` limits which outcome the provider, or the server, may give, not whether a probe or a
fetch can go on. `CHECK_DEADLOCK FALSE` stands only where the system has nothing left to do: clients
that have all gone, a page that was left, a call that is recorded, edits that are used up.

`job_paused` shows a violation: a sync pauses the jobs it should leave alone.
`PROJECT.json` quotes both sides under `findings`. The last section of each module states
more of what a comment, a doc or a test promises. These statements are false in the model
for the reason given here; to see one, name it in the module's `.cfg` with the changes
in the last column.

| Statement | Why it is false | `.cfg` |
| --- | --- | --- |
| `OnePendingPerKey` | a MANUAL bump lands its successor before the superseded one has gone, whose pop takes the dedup entry with it; the key can be pending twice | – |
| `ProbedKeyIsInFlight` | two probes of a key; the first to end unmarks it | – |
| `NoneBlockedOnClosed` | a worker woken by `close` goes back to waiting | – |
| `ManualSurvivesShutdown` | the queue is closed when the worker puts the request back | as a PROPERTY |
| `SchedulerStopsFirst` | `main.py:141` has the scheduler stopped before the workers; the code stops it behind them | – |
| `WindowBound` of `ProviderGate` | the bucket of a deleted provider is dropped, and an import restores the provider | `PrunedSpec` |
| `SavedIsEnforced` | settings accept 1000, the scheduler enforces 100 | as a PROPERTY |
| `TerminatorIsFound` | a terminator split over two chunks is in neither | – |
| `LimitIsHeard` | a 429 whose body breaks off loses its status; a host with a static list is believed to have answered 200 | – |
| `StaticMeans404` | the static list stands in for any refusal, a bad key among them | – |
| `DiscoveredIsKept` | an id listed twice meets the unique index, behind the recorded row | – |
| `OnlineMeansSuccess` | overlapping manual probes of a model leave the older status | – |
| `RecordedIsTold` | the failure of a call that raises is recorded without a broadcast | `Spec` |
| `OneAtATime` of `ProbeRun` | a semaphore is dropped while it is held | `DroppedSpec`, `MaxSems = 2` |
| `EveryProbeEnds` | a root semaphore without permits, and one worker | one probe, `MaxConcurrency = 0` |
| `GapBounded` | each time a dashboard opens and closes, the remaining gap is stretched again | – |
| `ThrottleOff` | the sleep hook ignores the setting | – |
| `WakeRefreshes` | the wake sweep asks for model lists only, and the jobs that were pushed stay where they are | as a PROPERTY |
| `SweptIsOld` | a naive UTC time is read as local | as a PROPERTY, `Zone = 20` |
| `CleanupIsScheduled` | the start adds the cleanup jobs, and its sync prunes them as unknown | one provider |
| `DeletedHasNoJob` | the sync after a deletion finds the row and upserts its jobs | one provider |
| `ListJobsReconciled` | overlapping full syncs prune by an old list | two handlers |
| `UuidFirst` | a deleted row found by uuid gives way to an active row found by name | – |
| `ProxyIsExported` | a restored row keeps a proxy that the file is without | – |
| `OkMeansAllOnline` | a model whose last probe is older than the window does not count, nor does one whose failure was trimmed | – |
| `PinnedSurvives` | the cleanup of the error history does not look at pins | as a PROPERTY |
| `MetricsAreKept` | the same cleanup deletes the failures of the 24 h counts after 15 minutes | as a PROPERTY |
| `SleepOnCrossing`, `GoneIsForgotten` | the sleep hook runs without a crossing; a client that leaves before the `try` stays subscribed | as PROPERTIES, `FairSpec` |
| `EditIsShown` | the refresh behind an edit joins a fetch that has read already | as a PROPERTY |
| `EventStartsFetch` | so does the one behind an event | as a PROPERTY |
| `HiddenMeansClosed` | a tab that is mounted hidden connects | – |

### Fairness

Weak fairness on each worker's own steps (the event loop runs every task that can
run, and the watchdog of `_execute_probe` ends every call), on the startup and the
teardown once begun, on the generator of a connected client, on each probe's steps
(`asyncio.Semaphore` is FIFO, so weak fairness of the holder is enough), and on the
intervals of a page that stays, the reading and the success of its fetches
(`MaxFailures` keeps them from failing for ever). Triggers, broadcasts, user actions,
time, faults, events and the start of a shutdown are never fair.

## 4. Proofs

`WorkerPoolProofs`: `IInv` joins the type invariant and the safety invariants with what
they need of each other: `Placed` (a queued request sits in the tier of its priority, and
no MANUAL one is superseded), `Distinct` (a request sits in one place) and `WorkersShape`
(who holds a request, who can be waiting). That a dedup entry refers to a live queued
request is not inductive alone: a bump looks its victim up and marks it, and only
`Placed` and `Distinct` say that this leaves every other key's entry alone; `ServedOnce`
needs them and `WorkersShape` to know that the request taken was held by nobody. The
queue's methods are composed of the same few edits (cut the heads of the tiers, remove,
land), so each edit has a lemma on what it keeps, and one lemma per action combines them.
From `Spec => []IInv` (`Inductive`) follow type correctness, `DedupEntryIsPending`,
`NoLostWakeup`, `InFlightIsProbed`, `CapacityRespected`, `ServedOnce` and
`RefusalLosesNothing`, for any set of keys (not empty), requests and workers and any
positive capacity (`QueueAssumption`). `CapacityRespected` and `ServedOnce` are proved
only; no run repeats them.

The pool also implements the service (`QueueImplementsService`). Its pending requests are
the live ones, queued and not superseded (`LiveReqs`, `Seen`), so what the code does in
several edits is one step there: a landing is `Accept`, with the request it bumped and the
one it evicted as the set it displaces (`LandIsAccept`, `EvictingIsAccept`); a dequeue, which
throws away superseded heads on its way, is `Serve`, `Rest` or, behind the stop, `Retire`
(`DequeueIsService`). That the head of the first tier that is not empty is of the highest
priority there is needs `Placed`; that an eviction takes one request needs `Distinct`.
The same lemmas say which requests survive a step, and with it `KeyNotForgotten`
(`KeysAreKept`).

At its end, the process: every step of it is a step of `WorkerPool` or leaves its
variables alone (`StepImplementsPool`), so `LifeSpec => ImplementsPool`, and the pool's
theorems hold in the whole process (`PoolIsSoundThroughout`). `ClientIsLast` builds on
that: a worker that has stopped stays stopped (`StoppedIsOver`), so from the end of the drain
on nobody probes, and by the pool's `InFlightIsProbed` no key is in flight.

`ProviderGateProofs`: `IInv` is the type invariant, `BucketIsSuffix`, `WindowBound`,
`CooldownBounded` and `PromiseCovered` (a time promised to a 429 that lies ahead is covered
by the deadline). `WindowBound` needs `BucketIsSuffix`: an admission that finds room in
the pruned bucket knows only from it that the admission `MaxLimit` places before is out
of the window (`AdmitIsBounded`). `CooldownHonoured` needs `PromiseCovered`, since the
deadline only ever moves later. Both it and `ReadLimitBound` are action properties proved
from the invariant. `GateAssumption` asks for a positive window and limit and natural
numbers elsewhere.

The same module has the calls behind the gate. `CallInv` ties an outcome to the stage it was
reached by and to what was read: while the stream goes on, no terminator lies within a chunk
of `bytes`. That a chunk without the terminator adds no whole one, and one with it does, is
`WholeGrows`: an occurrence with no cut inside it lies within what was read before or within
the new chunk, since the new chunk begins at a cut. No induction over the chunks is needed,
because the history is kept flat. From `CallIsSound` follow `GreenIsComplete`
(`SuccessIsComplete`) and `DiagnosisIsHeard` (`FailureIsClassified`), for any statuses from
100 to 599, any terminator that is not empty and streams of any length
(`ProbeCallAssumption`).

`ProbeRunProofs`: `Permits` says that the probes inside are the holders of the semaphores,
that those waiting stand in exactly one place of one line, and that no semaphore has two
holders; it holds for dropped semaphores too, so `PermitsAreKept` is
`PermitMatches` in every behaviour, and `Sequential` is `OneAtATime` where none is dropped.
`Rowwise` is when a status computed from a row read before the wait is right. Probes of one
model may overlap, and the copy a probe has of the row is current until another one records
(`SnapshotIsCurrent`); a record by such a copy may leave the status wrong (the model is
`blurred`), until a success by a current copy, which writes every column that differs. Of all
other models the counter is the number of failures (`CountIsTrail`). What a user edits is
another column, which the UPDATE leaves alone. From it follow `StatusIsLatest` and
`EditsAreKept`, for any number of probes and models, any threshold, any concurrency.

`JobSyncProofs`: what holds of requests that may overlap in any way is `StartInv`: while the
process starts, only the start's own sync has read the providers and they have not changed
since, hence `StartDropsDeletedJobs`. `NoStrayJob` and `NoMissingJob` are false if requests
overlap (the statement `ListJobsReconciled` above shows how). They are proved of every
behaviour in which no two do, `Spec /\ []NoOverlap => []NoStrayJob`, with crashes, probes,
cleanups and restarts at any step between. `IInv` says that a provider the sync under way has nothing
more to do for (`Settled`: all of them, if there is none) has the jobs its rows ask for
(`SettledIsRight`), and that what the sync has read and not yet used is still so
(`ReadIsCurrent`, `StartSyncs`). `NoOverlap` is not about the number of handlers: there may be
any, one serving at a time.

`ImportExportProofs`: an import decides by rows it read at its beginning. `SafeInv` holds of
any import, interfered with or not. A row that is active is not taken for deleted
(`CopiesAreRows`), so a patch by an old copy is stopped by the fresh read of `patch_provider`
and a restoration writes no `deleted_at` it believes empty. One row can be found twice, under
its uuid by one spec and under its name by another; a restoration refreshes the session's copy,
and a deletion in between would be undone by a third look at the row. There is none, because a file
has each uuid and each name once (`FileKeys`), and that is what `GoneIsDeleted` and
`FoundTwiceIsUntouched` carry from spec to spec; `DeletionIsKept` is `DeletionWins`. (TLC's
bound of 5 edits does not reach the states for which the last two conjuncts were needed; the
attempt to prove a simpler one found them.) `FoundHasName` gives `BystandersAreSpared`. For
an import nobody interferes with, the session's rows are the rows (`CopyIsCurrent`), each
pending spec leads to at most one row (`PendingIsClear`), and each one applied is back
(`AppliedIsBack`): `AloneIsWritten` shows that update, restoration and creation all write the
same row (`AsExported`) and that no index refuses it, and `ExportComesBack` is `RoundTrip`. That
row is the file's, but for a proxy (or headers) the file is without: there a restored row keeps
its own, which `PendingIsClear` carries from the beginning of the import to its spec. All of it holds for
any finite set of uuids and any names and models (`TransferAssumption`).

`ResultsProofs`: what the readers compute is a function of the log alone, so `IInv` says
where the last check of each model is to be found in it: no row of a model is younger
than `checked` (`NothingYounger`); the newest row of an online model is the success it was
set by, as long as the retention has not reached it (`SuccessIsThere`); the newest row of any
other model is a failure, within the window and unless the error cleanup has taken it
(`FailureIsThere`). Both cleanups keep exactly these rows (`CleanupKeepsIInv`). From it
follow `RollupAgrees` and `StaleMeansOld` (`RollupIsRight`, `StaleIsRight`), and
`RetentionIsInvisible`, for any number of models and rows and any thresholds with
TTL <= Window <= Retention (`ResultsAssumption`), which is what the settings enforce.
`TrimIsInvisible` compares two counts: the cleanup counts the later failures, the list
those above. With nothing pinned these are the same sets (`ListedIsKept`), and what is trimmed
can only make them smaller (`TrimmedVisible`); with everything within the limit neither
reaches it (`FewerAbove`).

`SseBrokerProofs`: `IInv` says of each client separately that what it has been sent counts
on from the event before its subscription, that its queue counts on from there, to the
latest event while it is subscribed (`Gapless`), and that a connection not yet opened has
neither (`Fresh`, which `Open` needs to start a stream from nothing). That a broadcast
discards exactly the subscribers it could not put the event to is what keeps it
inductive. `StreamIsGapless` is `NothingSkipped` of the two parts joined; `WatchedIsAwake`
is `AwakeWhileWatched`, of those who are subscribed: a discarded stream that goes on may have the
sleep hook run in front of it. Both hold for any set of clients, any positive size of the queue and
any number of events (`BrokerAssumption`). Lemmas on sequences of consecutive numbers
(joined, grown at the end, moved one place) carry the arithmetic.

The page at the other end of the stream: the hook never loses count of its connections
and timers (`Counted`), it holds a connection or a reconnect, never both, exactly while it
believes that it is looked at, and what it believes of the tab is so (`Looked`). Both together
(`OneLink`) give `OneConnection`, which is `ConnectionMatches`. `ScreenNeverGoesBack` is `NeverGoesBack`: what a
fetch has read is at least what is shown and at most what the server has (`Ordered`), because a
tier has one fetch at a time. It is proved only; no run repeats it.

`CadenceProofs`: `AgeBounded` adds what the stale label does not see: the age of a
status and the time left until its job fires stay together within the reach of the schedule
as it was set, stretched by every push since (`pushed`), until the
job fires; from then on only the delay of the trigger is added. It speaks of jobs that are not
paused: nothing bounds the age of a model whose job a sync has paused. A push multiplies the time
left but not the age, so the sum stays within the stretched reach (`SleepKeepsAge`).
`ReachIsNotStale` compares the reach with the threshold, two longest gaps (`ThresholdIsTwice`). A
schedule that is stretched at all fits twice into its stretched gap (`ReachIsTwice`): this is where
`MarginAssumption` is used, since the jitter, and the time until a job that has fired is recorded,
fit into one longest gap. Stretched once, it stays below the threshold; stretched further, it
exceeds it in proportion to the further stretching only.
The code's numbers leave ample room: with the shortest interval of 10 seconds the longest gap
is 400, its jitter 40, and 360 seconds are left for the queue and a call. `LabelIsTrue` is
`NoFalseStale`, for any base, multipliers, tiers, zone and bounds; nothing is assumed of when
dashboards open and close and jobs are synced, of the settings or of the order of triggers.
`FailuresUndoTheBackoff` is `FailuresShortenTheGap`, of jobs that are neither paused nor pushed:
streak times factor never exceeds the best
streak (`HalvingCounts`, by `HalvedAndDoubled`), so a best streak below the first tier times the
factor means a streak below the first tier, for which the table says 1 (`NoBackoffBelow`).

Only model-checked: liveness (`ManualIsServed`, `ShutdownEnds`, `Delivered`,
`StreamIsForgotten`, `EveryProbeEnds`, `EventuallyFresh`), which needs fairness and ENABLED
and is out of the prover's reach. Every invariant and every action property that a passing run
checks is proved.

## 5. Order of the modules, and what could follow

The modules were written from what every trigger passes to what the user sees: trigger
queue, pool, gate, broker, jobs, probe, cadence; then the process around the pool, the
transfer of the configuration, the log, the page and the call.

What is left is composition. Models that could follow: the gate inside a probe run, which
abstracts it to "skip or admit"; a page composed with the broker instead of a version that grows, and an import
composed with the sync of the jobs it ends with.

## 6. Not modelled

- Percentiles and time series of the dashboard: arithmetic on the rows of one query.
- `_non_stream_chat`: the scheduler never asks for it. Headers, URLs and payloads of the
  probers, and the classification of models by name: tables without state.
- The generic key/value store of the settings, its validators, and the encryption of keys.
- Schemas, configuration, logging, migrations, the CLI: declarations, values read once,
  commands run by hand.
- The frontend's pages, which present what the API returns, and the delays of its hooks.
