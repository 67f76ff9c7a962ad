# Transcode Forge in TLA+

Models, model-checking runs and machine-checked proofs of the parts of
Transcode Forge (`src/src/transcode_forge/`) whose correctness depends on the
order in which several parties act: what happens to the one copy of a user's
file while it is being replaced, who may say that a job is finished, how that
word reaches the scheduler, what a job may do to the film, what a scan may do
to the catalog, and which credentials a grant may yield.
`PROJECT.json` lists every component, run, mutant, mapped definition, finding,
hazard and theorem; this file explains them.

## The system

One scheduler (FastAPI, SQLite or PostgreSQL) keeps a catalog of media files
and a queue of jobs. Worker machines poll it over HTTP, transcode a file and
replace it in place, on storage they share. Nothing but the file system is
shared between workers, nothing but HTTP between worker and scheduler.

| Component | State | Operations | Talks to |
|---|---|---|---|
| Source ownership and swap (`worker/storage/ownership.py`, `filesystem.py`) | per path: the file, `.tf_bak`, `.tf_tmp`, `.tf_lock` | acquire, heartbeat, swap, confirm, rollback, release | shared storage |
| Recovery (`filesystem.py`) | the same files | claim-time pass, startup scan | shared storage |
| Pipeline (`worker/pipeline.py`) | one transaction | lock, encode, verify, compare, swap, confirm, clean up, unlock | ffmpeg, ownership |
| Worker agent (`worker/http_agent.py`) | `_current_job_id`, abort flags, fence clock | register, heartbeat, claim, process, report, shut down | scheduler, journal, pipeline |
| Report journal (`worker/outbox.py`) | one file per undelivered report | append, drain, park | worker's disk |
| Job table (`repos/jobs.py`) | status, worker, claim token, updated_at | create, claim, finalize, progress, requeue, cancel, delete | database |
| Worker endpoints (`api/routes/worker_api.py`) | requests under way | register, heartbeat, claim, progress, complete, skip, fail, derivatives | job table, catalog |
| Operator endpoints (`api/routes/jobs.py`, `media.py`) | requests under way | queue, retry, cancel, cancel all, clear, reset, skip | job table, catalog |
| Sweeps (`main.py`, `repos/workers.py`) | `workers` rows | mark dead, requeue orphans, requeue abandoned | job table |
| Catalog and scanner (`repos/media.py`, `scanner/`) | `media_files`, scan slots | upsert, prune, sync with jobs | libraries |
| Database layer (`db.py`) | connection, open transaction | execute, commit, transaction | SQLite, PostgreSQL |
| Tokens and OAuth (`repos/worker_tokens.py`, `repos/oauth.py`) | tokens, codes, grants | bind, revoke, redeem, rotate | clients |
| S3 storage (`worker/storage/s3.py`, `scratch.py`) | scratch space, derivative keys | download, upload, register | object store |
| Children (`worker/proc.py`, `vmaf.py`, `encoder.py`) | one subprocess, its deadline | run, extend, terminate, reap; quality search, stream plan | ffmpeg |
| Schedule windows (`repos/schedules.py`) | none | a predicate on the clock | claim |

What is hard here:

* A swap is several file-system calls on shared storage. A worker can die, or
  be suspended, between any two of them, and the next worker decides from what
  it finds on disk alone.
* The lock is a file with a timestamp. Refreshing it, checking it and deleting
  it are separate calls.
* Reports are journaled and delivered at least once, so they come late and
  twice, after their job was requeued or is being run by somebody else.
* Endpoints are coroutines that read, await and write; not all of them keep
  the read and the write in one statement or one transaction.
* Two sweeps guess from timestamps whether a worker will ever finish its job;
  the worker guesses from its own when they will.
* On SQLite all requests share one connection: anybody's commit is everybody's,
  and so is a rollback.
* A scan looks at files one call at a time while users and workers replace them.
* Every stage of a job waits for a child that may fail, hang, or be killed in the
  middle of being killed.

What makes each part correct: an original, or an encode that passed every
check, exists at every instant (ownership, recovery); one transaction at a time
per path (lock); the outcome on record is the newest attempt's (job table);
catalog rows in flight belong to live jobs (endpoints); a job that nobody works
on goes back to the queue and one that somebody works on does not (sweeps); a
report is delivered in the end, in order (journal); what replaces a file has all
its streams and the quality asked for, and every job ends (pipeline, children);
no row of a file that is there is deleted and rows end up true (scanner); a
credential is spent once (grant store).

## Modules

| Module | Models | Proofs | Runs |
|---|---|---|---|
| `SourceSwap` | one source path: ownership, swap, recovery, the pipeline's control | `SourceSwapProofs` | `swap`, `swap_race` via `MCSourceSwap` |
| `JobQueue` | job table, catalog status, worker rows, endpoints, sweeps, agents | `JobQueueProofs` | `job_*` via `MCJobQueue` |
| `Outbox` | one agent's journal and its delivery: append, drain, parking, startup, heartbeat naming | `OutboxProofs` | `outbox_*` via `MCOutbox` |
| `Encode` (extends `QualitySearch`) | one job on one worker: its stages, children, streams, quality, scratch space | `EncodeProofs` | `encode`, `encode_scratch` via `MCEncode` |
| `Fence` | the self-fence of a worker against the orphan sweep, in ticks | `FenceProofs` | `fence` via `MCFence` |
| `Scan` | scans of one library, the scheduled-scan loop, catalog rows, files under change | `ScanProofs` | `scan` via `MCScan` |
| `GrantStore` | OAuth grants and the two database dialects under them | `GrantStoreSteps`, `GrantStoreProofs` | `grant_store` via `MCGrantStore` |
| `JobLedger` | what `JobQueue` implements: one attempt at a time, decided once | `JobQueueProofs` | `job_catalog` (`LedgerSpec`) |
| `ReportChannel` | what `Outbox` implements: an at-least-once channel of reports | `OutboxProofs` | `outbox_delivery` (`ChannelSpec`) |
| `GrantChain` | what `GrantStore` implements: a chain of one-time credentials | `GrantStoreProofs` | `grant_store` (`ChainSpec`) |

`JobQueue` takes the journal as a channel that delivers at least once, in a
job's order; `Outbox` shows how far the agent provides that, and `ReportChannel`
states it. The first two
meet in one place: a job that the sweeps hand to a second worker while
the first still runs. `JobQueue` shows that at most the newest attempt's report
counts; `SourceSwap` lets any number of workers run a job on the same path at
any time, so it shows that the files survive it as long as `Calm` holds. `Fence` shows
when that can happen at all. `Encode` takes the swap as one step and `SourceSwap` the encode as
one result; the verdicts of the first are the `good` and `bad` of the second.
`Scan` has the swap in three steps, as the scanner can see it.

### SourceSwap

State: `fs` maps the source path, its backup and its temp output to what they
hold: `orig`, `good` (an encode that passes every check), `bad` (plays, fails
COMPARE), `torn` (truncated) or a worker's unfinished output. `lock` is the lock
file with its owner and two bits: `written` (the exclusive create and the write
of its JSON are two calls; an empty lock reads as stale) and `fresh` (its
timestamp is inside the 900 s window). `pc` is where each worker stands; the
remaining variables are `SourceOwnership`'s fields.

Actions follow the code call by call: `Acquire`/`Stamp` (`_acquire_lock`,
`__aenter__`), `BeatCheck`/`BeatWrite` (`_refresh_lock`, `_touch_lock`),
`EncodeStart`, `EncodeEnd`, `Gate` (`run_pipeline` to COMPARE), `SwapCheck`,
`SwapBackup`, `SwapInstall`, `SwapUndo` (`_atomic_swap`), `Confirm`, `Finish`,
`Settle`, `Rollback`, `ReleaseTmp`, `ReleaseLock` (`_settle` and below),
`Cancel` (an abort: it waits for a settled unit and is raised at its end),
`RecoverCheck` to `ClearTmp` (`recover_source_path` and
`_recover_backups_under`), `ScanLock`, `ScanTmp` (`_remove_stale_locks_under`),
`Crash`, `Restart`. In a recovery pass, `exists()` and the rename that follows
it are one step.

What the environment may do is a parameter, `Faults`:

* `rename`, `unlink`: the call may raise, `MaxFaults` times in all with crashes;
* `scan_restore`, `slow_scan`: the startup scan's restore may fail, or the
  stale window may pass between its two walks;
* `stall`: a running transaction's lock may age (suspended host, clock skew).

The actions interleave as the code's calls do, so in `Spec` a recovery pass that has
checked the lock may go on to delete one that was taken since, and may take one that
is created and not yet written for stale. `swap_race` shows what comes of it. `Calm`
names that moment (a pass past its check while an acquisition is between its create
and its write); `CalmSpec` is the behaviours without it, and every other result about
this module is one about `CalmSpec`: it assumes the exclusion, the code does not
provide it. `spent` counts crashes and failing calls apart; a call that failed, or a
lock that was left by a worker whose startup scan does not cover the path, is healed
by nobody until an operator or a new job comes by (`Unhealed`), which the two liveness
properties excuse.

### JobQueue and JobLedger

State: the columns of `jobs`, `media_files` and `workers` that decide anything;
per worker process what it runs (`run`) and what it names in heartbeats
(`named`); per claim token the attempt it stands for and the report in the
journal; per request handler the statement it will issue next (`req`). `latest`
and `author` are history variables. `idle[j]` says that a grace has run out
since the job was last touched and since its worker last changed the job it
names. A heartbeat comes every 10 s and the graces are 120 s and 600 s, so
`Heard` keeps a grace from running out on a connected worker that has not yet
had the chance to name its job.

One SQL statement, or one `db.transaction()` block, is one step. A handler that
reads first and writes later (`ReceiveReport`/`CommitReport`,
`QueueFile`/`QueuePaths`/`QueueCommit`, `Retry`/`RetryJob`/`RetryMedia`,
`CancelAll`/`CancelJobs`, `Register`/`Release`, `CheckDerivative`/`CommitDedup`)
is two or three. The worker's reports always interleave with everything;
`Interleaved` says which of the other requests do, so that a run can ask what
holds when the requests with an unprotected read run whole, and what does not
when they do not. `Legacy` workers send no claim token and are judged by their
id; `Seasoned` workers have a row whose heartbeat has named a job before.

`JobLedger` is the promise of the table: an attempt is handed out once, for a job
that waits; a job is with one attempt at a time, and only that attempt decides it,
once; the decision stands until an operator reopens a job that failed or was
cancelled, or deletes it. A worker without claim tokens speaks for a job with any
of its attempts at it (`SpeaksFor`), which is all `_attempt_fence` can ask of it.
`LedgerSpec` is this specification over the columns of `JobQueue`.

Left out: the pause flag, codec and downscale eligibility, exclusions,
priorities, worker deletion, batches of more than one file per request.

### Outbox and ReportChannel

State: the journal's files as a set of entries (`seq`, the report, its failed
attempts), the entries in cooldown (`hot`), the quarantined ones; the agent's
place (`pc`), the job it runs (`cur`) and what it has yet to report (`script`);
the local variables of a drain pass (`todo`, `blocked`, `auth_blocked`,
`sending`); the job rows as this worker's reports see them, the requests under
way (`wire`) and the answer on its way back. `decided`, `direct`, `accepted`,
`refused` and `taken` are history variables.

One step is what the agent does between two awaits: `Drain`, `Transmit`,
`Answered`, `DeleteFails`, `TimedOut`, `EndDrain` are `_drain_outbox` as its three
callers use it (startup, the job loop, `_deliver`), `Deliver`, `DeliverUnjournaled` and
`DirectDone` are `_deliver`, `CutShort` the ten seconds of an abort report,
`Start`, `Register`, `RegisterRejected`, `Claim`, `NoClaim`, `Encoded`, `Done`,
`Failed`, `Aborted` the agent's life. A drain reads the journal once and works
on that copy, while the heartbeat, listing the same directory, may quarantine a
file under it. A request the agent gave up on may still arrive. `Verdict` is
the answer of the report endpoints, `Requeue`, `Abandon`, `Revoke`, `Reissue`
what operator and sweeps do meanwhile; `JobQueue` has their detail. A graceful
exit leaves what a crash between two jobs leaves, so `Crash` stands for both.

`ReportChannel` is the promise: a report is written once and waits until the
scheduler has ruled on it, one whose file cannot be read is kept aside (and comes
back when it was being sent and the failed attempt is noted in a new file), and the
scheduler does not rule on a complete before it has ruled on the derivative written
for it. `ChannelSpec` is this specification over the journal and the records of
`Outbox`.

Left out: 422 answers, backoff delays, and how long a cooldown lasts.

### Encode and QualitySearch

State: the await `_process_job` is at (`pc`), the child of that await and why it
was sent SIGTERM, the job and the file, what the pipeline has decided so far
(`backend`, `vmaf_available`, `quality`, `plan`), the output as the sequence of
source streams in it with five verdicts on it, what stands at the path or in the
bucket, the abort flag and the scratch directories by the name they were
reserved under. `QualitySearch` holds the variables of
`find_quality_for_target`; nothing is assumed about its measurements.

A child exits well, exits badly, or falls silent (`Wedge`). Its block ends with
it, with its deadline (`Deadline`, the stall watchdog of the encode included), or
with an abort, and in the last two cases is terminated and reaped first
(`Terminate`, `Raise`, `Reap`); an abort may land in the grace period of another
one or of a deadline (`AbortAgain`). What each stage makes of a failure is the
code's: the subtitle probe fails open, a failed search falls back to the preset,
a failed measurement fails the job, a missing libvmaf turns the gate off. `Plan`
to `Confirm` are the steps of `run_pipeline`, `Claim` to `Commit` those of
`_process_job`, `Restart` and `Crash` what start and shutdown do to scratch space.

Left out: command lines, the quality scales of the encoders, how scores are
pooled, multipart uploads, and the lock's contention (`SourceSwap`). The
defensive `skipped` of `_check_plan_covers_source` is in the model and is never
reached, as the code intends.

### Fence

State: a clock; on the worker where the heartbeat loop is and since when,
`last_contact`, `fenced`, the stage of the job in flight and `_abort_requested`; on
the scheduler the worker's liveness and the job row with `updated_at`. `Tick` cannot
pass the end of a sleep or a heartbeat call; everything else may happen at any moment
or never: a sweep, the end of a download, of a pipeline, of a cancelled pipeline's
clean-up, of an upload. `_abort_current_job` sets a flag, and cancels the pipeline
task if there is one; what the flag does is what the code does with it: `StartPipeline`
looks at it, `StartCommit` does not, `EndJob` clears it. `claimed_at`, `unguarded` and
`swept` are history. `Timeout` is what a heartbeat call takes to fail; httpx counts its
30 s for each phase of a request, so it stands for their sum. The claim and its answer
are one step, and a heartbeat that arrives after its call was given up is left out (it
puts the sweep off).

### Scan

State: the files of a library, whether its share is there, how far a worker is
with each file, the catalog rows, the one scan the runner admits per library with
its local variables, the `scans` rows that say running, the age of the latest
scheduled scan, the cron loop and whether the process is up. A scan is the calls
of `scanner.py` and `s3_scanner.py` in order: `OpenScan`, `Walk`, per file `Look`,
`Probe`, `Upsert`, then `Nominate`, `Judge`, `JudgeSidecars`, `Delete`,
`CloseScan`; `ProbeFails`, `ScanError`, `Shutdown`, `Crash` and `Boot` are its ways
out. The user (`Change`, `Unmount`, `Remount`) and a worker (`Acquire`,
`MoveAway`, `Place`, `Release`, `Report`) move files under it. The user leaves a
file alone while a worker holds its lock.

### GrantStore and GrantChain

`live` is the database as statements see it, `disk` as a restart would find it.
On SQLite a statement changes `live`, any `Commit` copies it to `disk`, and the
rollback of a failing block copies it back; on PostgreSQL a statement outside a
block is durable at once and a block is a transaction. `req[h]` is the request a
handler serves, one awaited call per step: `Authorize` to `Park`, the consent page
and its decision, the code and refresh exchanges with `_consume` and its read-back
(`ConsumeCode`, `ReadCodeMark`, ...), `IssueRead` to `Tokens`, revocation by grant
and by token, manual grants, disabling and allowing a client. `BlockWrite`,
`BlockCommit` and `BlockRollback` are a `db.transaction()` block of some other
request. The history variables `spent`, `issued`, `decided` and `ended` are what
clients were told.

`GrantChain` is the promise: per grant, spend and issue alternate, so no
credential is spent twice and never two of them are redeemable. `ChainSpec` is
its specification over `GrantStore`'s variables, checked as a property.

Left out: PKCE, redirect matching and client metadata documents (predicates on
one request), scopes beyond wider-or-not, the MCP tools themselves.

## Runs

| Run | Instance | Shows |
|---|---|---|
| `swap` | 2 workers, one with a startup scan over the path, failing renames and unlinks, 3 faults, `Calm`, fairness | `SafetyInv`, `OriginalRecoverable`, `UnlockedBackupFinished`, `BackupNeverOverwritten`, `CompleteIsReplaced`, `LockOnlyFromAcquire`, `MissingSourceRestored`, `LockEventuallyReleased` |
| `swap_race` | the same without `Calm`, no failing calls | that `MutualExclusion` fails |
| `job_fence` | 1 job on an S3 file, 2 workers (one legacy), 2 claims, 2 handlers, all requests interleaved, both faults | `OutcomeFromLatestAttempt`, `ProgressFenced`, with the dedup shortcut as a second way to end a job |
| `job_catalog` | 2 jobs on one file, 2 workers, requests run whole | `RowClaimsLiveJob`, `TerminalFixed`, `WorkKept`, `LedgerSpec` |
| `job_healing` | 1 job, 1 worker, 2 claims, fairness | `StrandedRequeued` |
| `outbox_delivery` | 1 S3 job, 2 claims, 2 faults of any kind | `NoReportDropped`, `ChainInOrder`, `ReleasedOnlyExhausted`, `ChannelSpec` |
| `outbox_healing` | 2 jobs, one with a poison report, 2 claims, a crash or a requeue, fairness | `OneAttemptPending`, `PendingNotAbandoned`, `EventuallyDelivered` |
| `encode` | 2 stream lists (a cover before the film, an unnamed subtitle, twin audio tracks, a data stream), jobs with and without search, quality goal, downscale, QSV, S3; qualities 16 to 20, scratch for 2 downloads, fairness | `SearchExact`, `NoStreamLost`, `KeptIsGood`, `QualitySettled`, `NoWriterLeft`, `OutcomeHonest`, `JobEnds` |
| `encode_scratch` | one S3 job | that `ScratchReleased` fails |
| `fence` | interval and timeout of 1 tick, margin 4, grace 5, 11 ticks | `FencedFirst`, `SweptNeverEncoded` |
| `scan` | 2 files, one of them touched by user and worker, both backends, one change, one fault, one manual scan, fairness | `RunningRowHasTask`, `PruneSpares`, `ScheduledApart`, `CatalogSettles` |
| `grant_store` | 1 authorization request, 2 grants, 2 handlers, both dialects, 2 token pairs, 6 requests, 1 fault | `DecisionOnce`, `RevocationDurable`, `ChainSpec` |

Each property has a mutant: a variant of one mapped definition with a plausible
bug (a dropped check, a swapped order, a column left set), under which TLC
finds the property violated. `TypeOK` of `Encode`, `Scan`, `GrantStore`, `Outbox`
and `JobQueue` documents their variables; it is proved with their inductive
invariants, holds on the same instances and is not part of the runs, the type
conditions of `SourceSwap` and `Fence` are part of `SafetyInv` and `FenceInv`.

Two runs show a disagreement with the documentation. `swap_race` finds that
`MutualExclusion` fails. `_acquire_lock` creates the lock (`filesystem.py:200`) and then
writes it; another worker's recovery pass reads the empty file as stale and deletes it
(`filesystem.py:547`, `583`), and that worker acquires the path as well, against
"two workers racing on the same path can't both acquire it" (`filesystem.py:187`). With
two workers on one path, `OriginalRecoverable` and the other safety properties of
`swap` fail too.

`encode_scratch` finds that `ScratchReleased` fails. The download of an S3 job is reserved as
`s3-fetch-<key>` (`s3.py:134`) and released under the job's id, so it stays on
the scratch disk until the worker stops.

### Known deviations

What else the models show to differ from what a comment or document says. Each
counterexample is obtained by the change to a configuration given with it.

* `UnlockedBackupFinished`, `Swap.cfg` with `Faults = {"scan_restore",
  "slow_scan"}`: the startup scan removes the lock beside a backup it did not
  restore (`filesystem.py:646`); the next scan reads the unconfirmed encode as
  "the pipeline finished" (`filesystem.py:477`).
* `StrandedRequeued`, `JobHealing.cfg` with `Seasoned = {}`: a worker whose row has
  `current_job_changed_at` NULL loses the answer to its first claim and the
  abandoned sweep never matches (`repos/jobs.py:494`, against `main.py:241`).
* `RowClaimsLiveJob`, `JobCatalog.cfg` with `Job = {j1}` and `S3 = {f1}`:
  `check_derivative` completes a job without its catalog row, and the report that
  follows is taken for a duplicate (`worker_api.py:569`, against
  `repos/media.py:21`).
* `RegistersSettled`, `OutboxDelivery.cfg` with `Faults = {}`, `S3 = {}` and one
  claim: an outage uses up the attempts of a finished job's report, startup
  registers all the same and the job is requeued (`http_agent.py:1059`, against
  `http_agent.py:889`).
* `RotationCostsNothing`, the same with `Faults = {"auth"}`: a report kept through
  a revoked token is discarded under the fresh one (`http_agent.py:1016`, against
  `reliability.py:14`).
* `RevocationSticks`, `GrantStore.cfg` with `Dialects = {"sqlite"}`: a rollback of
  another request between the update of `revoke_grant` and its commit erases the
  revocation that was answered (`repos/oauth.py:185`, against `oauth.py:183`).
  `approve_transaction` has the same window. `_consume` reads its marker back and
  does not have it, which is why `ChainSpec` holds on both dialects.
* `GoneIsGone`, `Scan.cfg` with `Backends = {"filesystem"}`, no changes and no
  manual scans: a swap that ends between the stat and the sidecar checks of
  `_is_gone` makes it report a file gone that is there (`scanner.py:97`); the row
  comes back with the next scan.
* `SweptAtRest`, added to `Fence.cfg`: the sweep takes a job that its worker still has
  in flight, against `repos/jobs.py:418` ("fences itself first ... the worker aborts its
  in-flight job a margin before it expires, dropping its .tf_lock"). The fence of a job
  in a download or an upload only sets a flag (`http_agent.py:270`), which the download
  meets at its end (`578`) and the upload (`619`) never; a cancelled pipeline cleans up
  in its own time. What the fence gives is `FencedFirst`: by then the job has been
  asked to stop, and `SweptNeverEncoded`: no encode starts on it any more.
* The excuses of `FencedFirst` (`Unprotected`): the sweep counts from the last progress
  report and the fence from the last answered heartbeat, so a job in a stage without
  progress for longer than `Slack` (an S3 download, the quality search) can be given
  away before its worker is asked to stop. And `fenced` is reset by an answered
  heartbeat only, so a job claimed between the end of an outage and the next heartbeat
  is not fenced in the next one. The files survive all of these (`SourceSwap`,
  under `Calm`).
* `QueueDedups`, added to `JobCatalog.cfg` with `queue_commit` in `Interleaved`: the
  dedup read of `queue_files` (`media.py:203`) is outside its transaction, so two
  requests create two jobs on one path. With the requests run whole the property only
  repeats the read, so no run has it.
* The excuse of `KeptIsGood`: a check for libvmaf that times out reads as "no
  libvmaf" and turns the quality gate off for this encode (`vmaf.py:227`). A
  timeout in the extraction of a sample is caught by nobody and fails the job,
  although a search is meant never to block the encode (`vmaf.py:406`).

Some restrictions of the passing runs are there because the code needs them;
lifting one makes TLC show why:

* `stall` in `Faults` of `Swap.cfg`: a transaction that outlived its lock
  (a host suspended for longer than the 900 s window) goes on renaming, and
  `OriginalRecoverable` fails. The code presumes such a pipeline dead
  (`filesystem.py:36`) and never looks at the lock again before it mutates.
* `retry_job` in `Interleaved` of `JobCatalog.cfg`: `retry_job` updates by id
  alone, so a second retry in flight reopens a job that has completed since
  (`TerminalFixed`, `LedgerSpec`).
* `cancel_jobs` in `Interleaved` of `JobCatalog.cfg`: a job queued between the
  two statements of cancel-all is cancelled with its row left queued
  (`RowClaimsLiveJob`).
* `unhandled` in `Faults` of `JobHealing.cfg`: an exception before the `try` of
  `_process_job` leaves `_current_job_id` set, and the heartbeat keeps the sweep
  off a job nobody runs (`StrandedRequeued`).

Bounds. Two workers are enough for every conflict the code has: a lock, a row
or a path is contended by a holder and one other. Two claim tokens give a stale
attempt and its successor; two handlers a read with another request inside it.
`MaxFaults` bounds crashes, failing calls and lost answers; two of them give a
failure during the recovery from a failure. `MaxRequests` bounds what the
operator does: two or three cover queue, retry and a second request racing
them. When the budgets are spent a run may simply stop, so the `job_*` runs do
not check deadlock. Job ids, tokens, handlers and, where none is special,
workers are symmetric in the safety runs. In `Outbox` two failed attempts stand
for the 25 of `POISON_ATTEMPTS`: one entry that may still be tried and one that
may not is all the code tells apart. In `Fence` one tick is enough for each time:
the clock is compared with sums of them only, 11 ticks hold two outages, and the
theorem covers all other values. In `Scan` the second file is what makes a walk
non-empty when the first is gone; one change and one fault meet at any two steps
of a scan. In `Encode` five qualities give both a search that halves twice and
one that ends at either end. In `GrantStore` two grants give a browser flow beside
a manual one; two pairs a code, a rotation and a replay of either.

Fairness. `SourceSwap`: every program step of a running worker is taken (of
`CalmSpec`, one that keeps `Calm`: what it would break ends by itself), the service manager restarts a dead worker (`restart: unless-stopped` in the
compose files), time passes. `JobQueue`: the event loop runs its handlers and
its supervised loops, a running agent heartbeats, time passes. Nothing forces a
claim, a restart of a worker, or an operator. `Outbox`: the event loop runs,
encodes end, the service manager restarts the agent, cooldowns end, and for
each job a request arrives in time again and again, and so does its answer (the
agent retries for ever, so an outage that ends is enough). `Scan`: time passes,
the process is restarted, its loops and a started scan go on, the share returns, a
worker that holds a file finishes with it (`SourceSwap`, `Encode`); manual scans
are capped, so that they cannot hold the slot for ever. `Encode`: every program
step is taken, deadlines come, and SIGKILL works; a child need not ever exit.

## Proofs

For every value of the constants: any number of workers, jobs, files, claims,
grants and handlers, any range of qualities and any bound on faults. What a
theorem assumes beyond the modules' own assumptions is said with it. Every safety
invariant, action property and refinement of the passing runs has a theorem.

`SourceSwapProofs` (of `CalmSpec`, without `stall` in `Faults`): `Safety`,
`OriginalNeverLost`, `BackupsSurvive`, `ResultsAreReal`, `NoLockRevival`. `OriginalRecoverable` is not inductive: a rename preserves it only
if the other path still holds an intact file. `SafetyInv` adds that a backup is
only ever intact, that whoever is between LOCK and UNLOCK owns a fresh lock, that no
recovery pass is past its check meanwhile, and what each stage knows about the three
files (`StageInv`: before the swap the temp output is good, after CONFIRM the source
is, and so on). Each action is shown to preserve `TypeOK`, `Ownership` and `FilesInv`
in turn. `UnlockedMeansFinished` also needs `slow_scan` and `scan_restore` kept out
of `Faults`, as its run does: `SettledInv` says that wherever the next step may remove
the lock (its owner has not swapped, or is done, or died, or a startup scan is about to
unlink it) a backup stands beside a checked encode or is all there is, and that a pass
which clears a lock has put the backup back.

`JobQueueProofs`, the attempt fence (no assumption on faults or interleaving):
`FenceHolds`, `OutcomesStand`, `StaleProgressRefused`. `FenceInv` adds to the
authorship of outcomes that `worker_id` and `claim_token` are set together and name
the newest claim (`Owned`), that requests under way are about attempts, files and
jobs that exist (`RequestBound`), that what an agent runs is its own and unreported
(`AgentBound`), and that an attempt not yet handed out has no job, worker or report
(`AttemptBound`). The last is what makes a fresh token differ from every token some
row or request still holds.

The same module, the operator's side. Each theorem names the requests that have to
run whole for it and leaves the others, and every report, to interleave; Known
deviations shows what happens when they do not.

| Theorem | Property | Assumes |
|---|---|---|
| `OutcomesFixed` | `TerminalFixed` | `retry_job` not interleaved |
| `WorkIsKept` | `WorkKept` | no `poison` fault, `release` and `retry_job` not interleaved |
| `QueueRefinesLedger` | `LedgerSpec` | `retry_job` not interleaved |
| `RowsClaimLiveJobs` | `RowClaimsLiveJob` | `S3 = {}`, `retry_job`, `retry_media`, `cancel_media`, `cancel_jobs` not interleaved |

They rest on two tables, proved once: `StatusMoves` (every way a job's status may
change, and by whose hand) and `RequestMoves` (every way a request goes on), and on
`Held`: while a request nobody may interleave with is under way, the next step is
its own. With them an invariant about what a handler has read (`RetryInv`,
`ReleaseInv`, `HalfDone`) takes a few lines. `WorkKept` takes the
agent's side as well: an agent that has named a job has an empty journal, which
never holds two reports (`Agent`), so its heartbeat names exactly the job it is at
work on (`NamesTheJob`), so a grace that runs out on that job finds it named
(`Noted`) and the abandoned-job sweep passes it by.

`QueueRefinesLedger` maps the columns of a row and the attempts to `JobLedger`:
`Claim` is `HandOut`, a report or a dedup answer that passes the fence is `Decide`,
what the sweeps, a registration and a retry do is `TakeBack` or `Reopen` of the jobs
they hit together, and the rest stutters. It rests on `FenceInv`: a job that waits is
with no attempt (`WaitingFree`), the token of a claim has been given to nobody, and a
report that passes `_attempt_fence` speaks for the job in the sense of the ledger
(`OwnerDecides`). No assumption on S3, on legacy workers or on faults is needed, so
it covers the dedup shortcut and id-only workers, which `job_catalog` leaves out.

`OutboxProofs` (`None` is no job, attempt or entry): `OutboxInvariant`,
`OutboxTypes`, `ReportsKept`, `DerivativeFirst`, `ClaimsWaitForJournal`,
`RegistrationWaits`, `SweepSparesPending`, and the refinement
`JournalRefinesChannel` (`Spec => ChannelSpec`). Which conjunct of `OutboxInv` carries
which promise:

* `SeqInv`, `PassInv`: a file number is one entry, whichever copy of it is looked at,
  and behind the position of a drain pass nothing is left of a job it has not stopped;
* `KnownInv`, `AnswerInv`: whatever is under way was journaled or sent past the
  journal, and an answer on its way back is what the scheduler has on record;
* `FreshInv`, `FileOrder`, `WireOrder`: the derivative of an outcome stands before it
  among the files, and is ruled on or set aside before the outcome is on the wire
  (`ChainInOrder`);
* `OnceInv`, `ReadInv`: no report has two files, and what a pass has read is in the
  directory as it was read, or was set aside meanwhile; so an answer ends the wait of
  exactly its own report, and a failed attempt noted in a new file brings back none
  that was ruled on (`ChannelSpec`);
* `ScriptInv`, `RowInv`, `AttemptInv`: what the agent runs and has to report, and that
  a claim token is given out once, for one job;
* `OlderExhausted`, `ClaimInv`, `ReleaseInv`: whatever is older than the newest attempt
  is out of attempts, at a claim and at a registration everything is
  (`OneAttemptPending`, `PendingNotAbandoned`, `ReleasedOnlyExhausted`).

"The oldest entry" is used through the least-number principle of
`WellFoundedInduction` (`WFMin`), not through an order on the data.

`EncodeProofs`: `JobInvariant`, `EncodeTypes`, `EveryStreamDelivered`, `InventoryBinds`,
`PlannerCovers`, `DeliveredIsGood`, `ReportsAreHonest`, `NoChildOutlivesJob`,
`QualityFromFinishedSearch`, and of the search `SearchInductive`, `SearchCorrect`,
`SearchExactInJobs`. `EncodeInv` says for each await what lies behind it: a child
exists exactly at the awaits that have one (`FlowInv`), what stands at the path
(`FileInv`), which checks the output has passed (`CheckedInv`) and that it was made
from a plan that covers the source and holds what the plan promised (`StreamsInv`),
and what a report may say (`ReportInv`). `SearchInv` says that what is left of the
range lies between a quality that met the target and one that missed, which makes the
last one standing the answer; `MidpointBetween` is why every round shrinks the range.
`DomainInv`, `FlagInv`, `RoomInv` and `MadeInv` are there for `EncodeTypes`: the plan lists
each stream once, the muxer adds none (`MuxedRange`), and the scratch disk never holds more
downloads than it has room for.

`EveryStreamDelivered` is `NoStreamLost` for source lists of any length, not the two
of the run. `plan_streams` sorts and `_covers_in_order` consumes an iterator; both are
stated without recursion, as the increasing listing of a set (`InOrder`) and as the
existence of an increasing embedding, so that the proof needs no induction over lists:

* a finite set of stream numbers has an increasing listing (`SortedExists`: a member
  stands at the place given by how many are not above it) and `InOrder` is one
  (`InOrderSorts`);
* `PlanShape`: the plan starts with the primary video, lists the other carried streams
  in their order, and carries or names every stream: `PlannerCovers` follows, for the
  subtitle probe's answer and for its failure;
* `InventoryFinds`: if the inventory of the plan embeds in that of an output the muxer
  may write (the plan itself, one stream fewer, one more, or two exchanged), every
  planned stream is in the output and the primary is first. One stream fewer leaves no
  room for the embedding (`NoRoom`, the pigeonhole principle), and an exchange of the
  first two leaves only the places behind the first.

`ScanProofs`: `ScanInvariant`, `ScanTypes`, `RunningRowsOwned`, `ScheduledScansApart`,
`PruneSparesSteady`. Only `Delete` drops rows (`RowsDropped`), so `PruneSpares` is a
statement about what a scan judges: `SteadyInv` says that a file which nothing moved
is at its path, `PruneInv` that a walk which found anything found every such file,
that a walk which found nothing never gets to the prune, and that the prune judges only
what the walk did not find. `ApartInv` ties the age of the latest scan to that of the
latest scheduled one, which is what the cron loop asks for. `ScanTypes` follows the sizes
and stamps of files through listings and probes into the rows (`FileBound`, `ScanBound`,
`RowBound`): a swap is only ever made of a file no swap has made, so a size grows once.

`GrantStoreSteps` states what each statement and each commit does to the two copies
of a database; `GrantStoreProofs` has `TypeSafe`, `StoreInvariant`, `DecidedOnce`,
`RevocationsLast` and the refinement `StoreRefinesChain` (`Spec => ChainSpec`), on
both dialects together and with blocks of other requests committed or rolled back at
any moment. Every conjunct of `StoreInv` is held on `live` and on `disk`: a row that
was spent stays spent on the copy a rollback or a restart falls back to, or the
request that spent it has not yet read its marker back. `ChainInv` (mint, code,
refresh and issue) ties each request to the pair it is spending: the request that
read its own durable stamp on a grant's code is the only one that ever does, and does
so while nothing of the grant has been spent; the same for refresh pair `n`, with
`n` pairs issued and `n` credentials spent before. That is what lets a redemption map
to a step of `GrantChain` and everything else to a stutter. `RevInv`, `ParkInv` and
`DecideInv` are the same for revocation, the parked authorization request and its
decision; what they say stops at `erased`, the rollback that Known deviations
describes, as `RevocationDurable` and `DecisionOnce` do.

`FenceProofs` (one interval and one timeout fit into the grace): `WorkerFencedFirst`,
`NoEncodeOfSwept`. `FencedFirst` compares two clocks; `FenceInv` ties them: a guarded
job that nobody has asked to stop was armed no later than the threshold or its claim
(`ArmedBy`), and the heartbeat loop is at most one sleep and one call past that. Adding
them up gives at most the grace, so the sweep's condition contradicts the invariant.
Nothing is assumed of the margin, of the warning in `start` that an interval is too
long for it, or of how long a stage of the job takes: a small margin makes `Slack`
small, or negative, and `FencedFirst` then excuses more. `Slack` is not negative when
the interval and the timeout fit into the margin (`FenceThreshold`).

Only model-checked: the liveness properties (`MissingSourceRestored`,
`LockEventuallyReleased`, `StrandedRequeued`, `EventuallyDelivered`,
`CatalogSettles`, `JobEnds`), because fairness is beyond the prover.

## Plan

Binding a worker token by compare-and-set at registration, with two machines that
share one token.

## Not modelled

Rendering and browsing (`web/`, read-only routes): no state of their own.
ffmpeg, ffprobe and VMAF: nondeterministic results. Schedule windows: a pure
predicate. The migration runner, configuration, metrics, logging, the demo mode
and its data, deployment scripts: no bearing on the properties. Token binding at
registration, sessions and passwords: planned or sequential.
