------------------------------- MODULE Fence -------------------------------
(***************************************************************************)
(* The partition self-fence of a worker (http_agent._heartbeat_loop)       *)
(* against the orphan sweep of the scheduler                               *)
(* (repos/jobs.requeue_orphan_active_jobs): a worker that is cut off must  *)
(* have asked its job to stop by the time the scheduler gives it away.     *)
(* Asking is all _abort_current_job does: a running pipeline is cancelled  *)
(* and cleans up in its own time, an S3 download is not started on, an     *)
(* upload goes to its end.  No step here bounds how long any of them takes.*)
(*                                                                         *)
(* The two sides time different things.  The worker counts from its last   *)
(* heartbeat that was answered; the scheduler counts from the last         *)
(* progress report of the job, once the worker is marked dead.  Time is a  *)
(* clock both can read; a step waits for it only where the code sleeps or  *)
(* has a timeout.  A heartbeat that arrives after its call was given up is *)
(* left out: it would only put the sweep off.                              *)
(***************************************************************************)
EXTENDS Integers

CONSTANTS
    Interval,   \* heartbeat_interval
    Timeout,    \* what a heartbeat call can take before it fails
    Margin,     \* FENCE_MARGIN_SECONDS
    Grace,      \* orphan_grace_seconds
    Dead,       \* heartbeat_timeout * 3
    MaxTime     \* bound: the clock

\* One round of the heartbeat loop fits the grace.  That it fits the margin, which start()
\* warns of and does not require, is not assumed: see Slack.
ASSUME TimesAssumption ==
    /\ Interval \in Nat /\ Timeout \in Nat /\ Dead \in Nat /\ MaxTime \in Nat
    /\ Margin \in Nat /\ Grace \in Nat
    /\ Interval + Timeout =< Grace

VARIABLES
    now,
    up,              \* the other side answers: network and scheduler
    \* the worker
    loop, since,     \* the heartbeat loop: "sleep", or "call" in flight, and since when
    last_contact, fenced,
    task,            \* stage of the job in flight: "none", "fetch", "pipeline" or "commit"
    abort_requested,
    unguarded,       \* history: it was claimed with fenced still set from an earlier outage
    swept,           \* history: the scheduler took it although it was not Unprotected
    \* the scheduler
    alive, last_heartbeat,   \* the workers row
    job, updated_at,         \* the job row: "queued" or "active" on this worker
    claimed_at               \* history: when it was claimed

job_in_flight == <<task, abort_requested, unguarded>>
worker    == <<loop, since, last_contact, fenced, job_in_flight>>
scheduler == <<alive, last_heartbeat, job, updated_at, claimed_at>>
vars == <<now, up, worker, scheduler, swept>>

fence_after_seconds == IF Grace > Margin THEN Grace - Margin ELSE 0

Init ==
    /\ now = 0 /\ up = TRUE
    /\ loop = "call" /\ since = 0 /\ last_contact = 0 /\ fenced = FALSE
    /\ task = "none" /\ abort_requested = FALSE /\ unguarded = FALSE /\ swept = FALSE
    /\ alive = TRUE /\ last_heartbeat = 0
    /\ job = "queued" /\ updated_at = 0 /\ claimed_at = 0

\* A sleep and a request end in time; nothing else has to.
Tick ==
    /\ now < MaxTime
    /\ loop = "sleep" => now < since + Interval
    /\ loop = "call" => now < since + Timeout
    /\ now' = now + 1
    /\ UNCHANGED <<up, worker, scheduler, swept>>

Cut == up /\ up' = FALSE /\ UNCHANGED <<now, worker, scheduler, swept>>
Heal == ~up /\ up' = TRUE /\ UNCHANGED <<now, worker, scheduler, swept>>

-----------------------------------------------------------------------------
\* The heartbeat loop.

Wake ==
    /\ loop = "sleep" /\ now = since + Interval
    /\ loop' = "call" /\ since' = now
    /\ UNCHANGED <<now, up, last_contact, fenced, job_in_flight, scheduler, swept>>

\* Without a job in flight the name to send is read from the outbox, and the disk can fail.
SkipBeat ==
    /\ loop = "sleep" /\ now = since + Interval /\ task = "none"
    /\ since' = now
    /\ UNCHANGED <<now, up, loop, last_contact, fenced, job_in_flight, scheduler, swept>>

\* update_worker_heartbeat: a dead worker comes back to life.
HandleHeartbeat ==
    /\ loop = "call" /\ up
    /\ last_heartbeat' = now /\ alive' = TRUE
    /\ UNCHANGED <<now, up, worker, job, updated_at, claimed_at, swept>>

\* The answer to a heartbeat this call sent.
HeartbeatAnswered ==
    /\ loop = "call" /\ up /\ last_heartbeat >= since
    /\ last_contact' = now /\ fenced' = FALSE
    /\ loop' = "sleep" /\ since' = now
    /\ UNCHANGED <<now, up, job_in_flight, scheduler, swept>>

\* Mutant of Fences: the threshold is the grace, without the margin.
FencesAtGrace == ~fenced /\ now - last_contact >= Grace /\ task # "none"

\* Once per outage, only with a job in flight.
Fences == ~fenced /\ now - last_contact >= fence_after_seconds /\ task # "none"

HeartbeatFails ==
    /\ loop = "call" /\ (~up \/ now = since + Timeout)
    /\ loop' = "sleep" /\ since' = now
    /\ fenced' = (fenced \/ Fences)
    /\ abort_requested' = (abort_requested \/ Fences)
    /\ UNCHANGED <<now, up, last_contact, task, unguarded, scheduler, swept>>

-----------------------------------------------------------------------------
\* The job.

Claim ==
    /\ up /\ task = "none" /\ job = "queued"
    /\ job' = "active" /\ claimed_at' = now /\ updated_at' = now
    /\ task' = "fetch" /\ unguarded' = fenced
    /\ UNCHANGED <<now, up, loop, since, last_contact, fenced, abort_requested,
                   alive, last_heartbeat, swept>>

\* Mutant of StartPipeline: the abort that landed during the fetch is not looked at.
StartPipelineAnyway ==
    /\ task = "fetch"
    /\ task' = "pipeline"
    /\ UNCHANGED <<now, up, loop, since, last_contact, fenced, abort_requested, unguarded,
                   scheduler, swept>>

\* The lock wait and the download are over; an abort that landed meanwhile ends the job.
StartPipeline ==
    /\ task = "fetch" /\ ~abort_requested
    /\ task' = "pipeline"
    /\ UNCHANGED <<now, up, loop, since, last_contact, fenced, abort_requested, unguarded,
                   scheduler, swept>>

\* The pipeline returns, also one that was cancelled when its result was settled.
StartCommit ==
    /\ task = "pipeline"
    /\ task' = "commit"
    /\ UNCHANGED <<now, up, loop, since, last_contact, fenced, abort_requested, unguarded,
                   scheduler, swept>>

\* A progress, phase or lock-wait report that the claim token lets through.
Progress ==
    /\ up /\ task \in {"fetch", "pipeline"} /\ job = "active"
    /\ updated_at' = now
    /\ UNCHANGED <<now, up, worker, alive, last_heartbeat, job, claimed_at, swept>>

\* The job is over, done, failed or aborted; its abort request goes with it.
EndJob ==
    /\ task # "none"
    /\ task' = "none" /\ abort_requested' = FALSE /\ swept' = FALSE
    /\ UNCHANGED <<now, up, loop, since, last_contact, fenced, unguarded, scheduler>>

\* The report arrives; the row is free for a retry or stands for the next job.
Report ==
    /\ up /\ task = "none" /\ job = "active"
    /\ job' = "queued" /\ updated_at' = now
    /\ UNCHANGED <<now, up, worker, alive, last_heartbeat, claimed_at, swept>>

-----------------------------------------------------------------------------
\* The scheduler's loops; each wakes every 30 seconds, here at any moment.

cleanup_stale_workers ==
    /\ alive /\ last_heartbeat < now - Dead
    /\ alive' = FALSE
    /\ UNCHANGED <<now, up, worker, last_heartbeat, job, updated_at, claimed_at, swept>>

\* The quiet a job may keep before its last contact and still be fenced in time: what the
\* margin leaves when one round of the heartbeat loop is taken off.
Slack == Grace - fence_after_seconds - Interval - Timeout

\* The jobs the fence does not protect: one that had gone without a report for longer than
\* Slack when the worker was last in contact, and one claimed before a heartbeat ended the
\* outage of an earlier fence.
Unprotected == last_contact - updated_at > Slack \/ unguarded

requeue_orphan_active_jobs ==
    /\ job = "active" /\ ~alive /\ updated_at < now - Grace
    /\ job' = "queued" /\ updated_at' = now
    /\ swept' = (task # "none" /\ ~Unprotected)
    /\ UNCHANGED <<now, up, worker, alive, last_heartbeat, claimed_at>>

Next ==
    \/ Tick \/ Cut \/ Heal
    \/ Wake \/ SkipBeat \/ HandleHeartbeat \/ HeartbeatAnswered \/ HeartbeatFails
    \/ Claim \/ StartPipeline \/ StartCommit \/ Progress \/ EndJob \/ Report
    \/ cleanup_stale_workers \/ requeue_orphan_active_jobs

Spec == Init /\ [][Next]_vars

-----------------------------------------------------------------------------
TypeOK ==
    /\ now \in Nat /\ up \in BOOLEAN
    /\ loop \in {"sleep", "call"} /\ since \in 0 .. now
    /\ last_contact \in 0 .. now /\ fenced \in BOOLEAN
    /\ task \in {"none", "fetch", "pipeline", "commit"} /\ abort_requested \in BOOLEAN
    /\ unguarded \in BOOLEAN /\ swept \in BOOLEAN
    /\ alive \in BOOLEAN /\ last_heartbeat \in 0 .. now
    /\ job \in {"queued", "active"} /\ updated_at \in 0 .. now /\ claimed_at \in 0 .. updated_at

\* When the sweep takes a job that the fence protects, the worker that has it in flight has
\* been asked to stop it (_heartbeat_loop against requeue_orphan_active_jobs).
FencedFirst ==
    [][requeue_orphan_active_jobs => task = "none" \/ abort_requested \/ Unprotected]_vars

\* No encode starts on a job that the scheduler took from under the fence: an abort that
\* landed during the lock wait or the download is still there when they end (_process_job).
SweptNeverEncoded == [][StartPipeline => ~swept]_vars

\* Does not hold, and no run checks it: a job the sweep takes has left the worker, which is
\* how requeue_orphan_active_jobs words it ("fences itself first", repos/jobs.py:418).
\* The request to stop is no more than that while a download or an upload is under way, or
\* a cancelled pipeline cleans up.
SweptAtRest == [][requeue_orphan_active_jobs => task = "none" \/ Unprotected]_vars

-----------------------------------------------------------------------------
\* The moment by which the fence has been armed: the threshold, or the claim if that is
\* later.
ArmedBy(t) == t =< last_contact + fence_after_seconds \/ t =< claimed_at

\* A guarded job that nobody asked to stop is within one round of the heartbeat loop of the
\* moment its fence was armed.
FenceInv ==
    /\ TypeOK
    /\ loop = "sleep" => now =< since + Interval
    /\ loop = "call" => now =< since + Timeout
    /\ task # "none" /\ ~abort_requested /\ ~unguarded =>
           /\ ~fenced
           /\ loop = "sleep" => ArmedBy(since)
           /\ loop = "call" => ArmedBy(since - Interval)
    /\ swept => abort_requested
=============================================================================
