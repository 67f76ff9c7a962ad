------------------------------ MODULE JobQueue ------------------------------
(***************************************************************************)
(* The scheduler's job table and everyone who writes to it: the worker     *)
(* endpoints (api/routes/worker_api.py), the operator's queue endpoints    *)
(* (api/routes/jobs.py, api/routes/media.py), the two reconciliation       *)
(* sweeps (main.py) and, as far as the table sees them, the worker agents  *)
(* (worker/http_agent.py).                                                 *)
(*                                                                         *)
(* A request handler is a coroutine: between two awaits every other        *)
(* handler may run.  What a handler has read and not yet used is kept in   *)
(* `req'; one SQL statement, or one db.transaction() block, is one step.   *)
(* Reports travel through a journal that delivers at least once, so a      *)
(* report may arrive late, twice, and after its job has moved on.          *)
(*                                                                         *)
(* PENDING and QUEUED are one status here ("waiting"), ASSIGNED and        *)
(* TRANSCODING another ("active"): every query treats each pair alike.     *)
(* Time is abstracted to bits that say whether a grace has run out.        *)
(***************************************************************************)
EXTENDS Naturals

CONSTANTS
    Job,          \* job ids, drawn without reuse
    File,         \* media_files rows, one path each
    Worker,       \* worker identities (one token, one machine each)
    Token,        \* claim tokens, drawn without reuse
    Handler,      \* request handlers that may be under way at once
    None,         \* SQL NULL, or nobody
    S3,           \* the files that belong to S3 libraries
    Legacy,       \* workers that do not advertise sends_claim_token
    Seasoned,     \* workers whose row has seen its heartbeat name change
    Interleaved,  \* the kinds of request that others may interleave with
    Faults,       \* misbehaviour that may happen, see AllFaults
    MaxFaults,    \* bound: ends of a process, lost responses, missed heartbeats
    MaxRequests   \* bound: requests by the operator

\* What a handler may be in the middle of, named by the statement it will
\* issue next.
WorkerKinds == {"report", "progress", "dedup"}
AdminKinds  == {"release", "queue_paths", "queue_commit", "retry_job",
                "retry_media", "cancel_media", "cancel_jobs"}

\* unhandled: a job dies of an exception raised before _process_job's try
\* poison:    a parked journal entry no longer holds back claims
AllFaults == {"unhandled", "poison"}

ASSUME KindAssumption   == Interleaved \subseteq AdminKinds
ASSUME FaultAssumption  == Faults \subseteq AllFaults /\ MaxFaults \in Nat /\ MaxRequests \in Nat
ASSUME SubsetAssumption == S3 \subseteq File /\ Legacy \subseteq Worker /\ Seasoned \subseteq Worker
ASSUME NoneAssumption   == None \notin Job \cup File \cup Worker \cup Token \cup Handler

VARIABLES
    \* jobs
    status, worker_id, claim_token, source_path,
    idle,           \* a grace has passed since updated_at, and since the holder
                    \* last changed the job it names
    \* media_files
    transcode_status, job_id,
    derivatives,    \* derivative keys on record, by source
    \* workers
    alive,          \* status is ONLINE or BUSY
    current_job_id,
    stamped,        \* current_job_changed_at is not NULL
    \* worker processes
    up,             \* the agent is running and registered
    run,            \* the attempt _process_job is in
    named,          \* the attempt of _current_job_id
    \* attempts: what was handed out and what came of it
    tokenJob, tokenWorker,
    report,         \* the terminal report in the worker's journal
    settled,        \* ... which has been answered
    \* requests under way
    req,
    \* history
    latest,         \* the last claim token issued for each job
    author,         \* the attempt whose report ended each job
    spent, asked    \* faults and operator requests so far

jobVars     == <<status, worker_id, claim_token, source_path, idle>>
mediaVars   == <<transcode_status, job_id>>
rowVars     == <<alive, current_job_id, stamped>>
procVars    == <<up, run, named>>
attemptVars == <<tokenJob, tokenWorker, report, settled>>
history     == <<latest, author>>
counters    == <<spent, asked>>
vars == <<jobVars, mediaVars, derivatives, rowVars, procVars, attemptVars, req, history, counters>>

Outcome  == {"complete", "skipped", "failed"}
Terminal == Outcome \cup {"cancelled"}
Live     == {"waiting", "active"}
Row      == Live \cup Terminal                \* the job is in the table
Status   == Row \cup {"unborn", "deleted"}

\* A request under way: its next statement and the attempt, worker, file or
\* job it is about.
Ask(k, a) == [kind |-> k, arg |-> a]
Free      == Ask("free", None)
Request   == [kind : WorkerKinds \cup AdminKinds \cup {"free"},
              arg : Token \cup Worker \cup File \cup Job \cup {None}]

Init ==
    /\ status = [j \in Job |-> "unborn"]
    /\ worker_id = [j \in Job |-> None]
    /\ claim_token = [j \in Job |-> None]
    /\ source_path = [j \in Job |-> None]
    /\ idle = [j \in Job |-> FALSE]
    /\ transcode_status = [f \in File |-> "needs_transcode"]
    /\ job_id = [f \in File |-> None]
    /\ derivatives = {}
    /\ alive = [w \in Worker |-> TRUE]
    /\ current_job_id = [w \in Worker |-> None]
    /\ stamped = [w \in Worker |-> w \in Seasoned]
    /\ up = [w \in Worker |-> TRUE]
    /\ run = [w \in Worker |-> None]
    /\ named = [w \in Worker |-> None]
    /\ tokenJob = [t \in Token |-> None]
    /\ tokenWorker = [t \in Token |-> None]
    /\ report = [t \in Token |-> "none"]
    /\ settled = [t \in Token |-> FALSE]
    /\ req = [h \in Handler |-> Free]
    /\ latest = [j \in Job |-> None]
    /\ author = [j \in Job |-> None]
    /\ spent = 0 /\ asked = 0

-----------------------------------------------------------------------------
(* Handlers.                                                               *)

\* Everybody but h is between requests, or in one that others may interleave
\* with.
Quiet(h) == \A g \in Handler \ {h} : req[g].kind \in Interleaved \cup WorkerKinds \cup {"free"}

\* A step of the system outside the request handlers.
Background == Quiet(None) /\ UNCHANGED req

Enter(h, r)     == Quiet(h) /\ req[h] = Free /\ req' = [req EXCEPT ![h] = r]
Advance(h, k, r) == Quiet(h) /\ req[h].kind = k /\ req' = [req EXCEPT ![h] = r]

Fault == spent < MaxFaults /\ spent' = spent + 1

\* Every request of the operator counts towards the bound.
Operator == asked < MaxRequests /\ asked' = asked + 1 /\ UNCHANGED spent

\* update_status_by_job: every catalog row that points at the job.
SyncMedia(j, s) ==
    /\ transcode_status' =
         [f \in File |-> IF job_id[f] = j THEN s ELSE transcode_status[f]]
    /\ UNCHANGED job_id

\* The three ways an active job goes back to the queue: worker_id and
\* claim_token go with the status.
Requeue(jobs) ==
    /\ status' = [j \in Job |-> IF j \in jobs THEN "waiting" ELSE status[j]]
    /\ worker_id' = [j \in Job |-> IF j \in jobs THEN None ELSE worker_id[j]]
    /\ claim_token' = [j \in Job |-> IF j \in jobs THEN None ELSE claim_token[j]]
    /\ idle' = [j \in Job |-> IF j \in jobs THEN FALSE ELSE idle[j]]
    /\ UNCHANGED source_path

\* The attempts whose report is still in the worker's journal.
Undelivered(w) == {t \in Token : tokenWorker[t] = w /\ report[t] # "none" /\ ~settled[t]}

\* Mutant of Names: the heartbeat forgets the jobs whose report is undelivered.
NamesCurrentOnly(w) == IF named[w] # None THEN {tokenJob[named[w]]} ELSE {None}

\* The job id in the worker's heartbeat: the job in hand, else the oldest
\* with an undelivered report.
Names(w) ==
    IF named[w] # None THEN {tokenJob[named[w]]}
    ELSE IF Undelivered(w) # {} THEN {tokenJob[t] : t \in Undelivered(w)} ELSE {None}

\* The journal is drained before a claim and before a registration, unless
\* what is left is parked.
Drained(w) == "poison" \in Faults \/ Undelivered(w) = {}

\* Mutant of AttemptFence: the worker-id-only rule for everybody.
AttemptFenceByWorker(t) == worker_id[tokenJob[t]] = tokenWorker[t]

\* finalize_job and report_progress: the attempt named by the report still
\* owns the row.  A worker without claim tokens is judged by its id alone.
AttemptFence(t) ==
    /\ worker_id[tokenJob[t]] = tokenWorker[t]
    /\ tokenWorker[t] \in Legacy \/ claim_token[tokenJob[t]] = t

-----------------------------------------------------------------------------
(* The worker's side: claim, work, report.                                 *)

\* claim_next_job: one UPDATE ... RETURNING picks a waiting job, stamps the
\* attempt and makes it active.  SKIP LOCKED makes the order a preference.
\* The response may be lost on the way back.
Claim(w) ==
    /\ Background
    /\ up[w] /\ run[w] = None /\ Drained(w)
    /\ \E j \in Job, t \in Token :
          /\ status[j] = "waiting"
          /\ tokenJob[t] = None
          /\ status' = [status EXCEPT ![j] = "active"]
          /\ worker_id' = [worker_id EXCEPT ![j] = w]
          /\ claim_token' = [claim_token EXCEPT ![j] = t]
          /\ idle' = [idle EXCEPT ![j] = FALSE]
          /\ tokenJob' = [tokenJob EXCEPT ![t] = j]
          /\ tokenWorker' = [tokenWorker EXCEPT ![t] = w]
          /\ latest' = [latest EXCEPT ![j] = t]
          /\ \/ /\ run' = [run EXCEPT ![w] = t]
                /\ named' = [named EXCEPT ![w] = t]
                /\ UNCHANGED spent
             \/ Fault /\ UNCHANGED <<run, named>>
    /\ UNCHANGED <<source_path, mediaVars, derivatives, rowVars, up, report, settled, author, asked>>

\* _process_job ends: the outcome is journaled before _current_job_id is
\* cleared.
FileReport(w) ==
    /\ Background
    /\ up[w] /\ run[w] # None
    /\ \E o \in Outcome : report' = [report EXCEPT ![run[w]] = o]
    /\ run' = [run EXCEPT ![w] = None]
    /\ named' = [named EXCEPT ![w] = None]
    /\ UNCHANGED <<jobVars, mediaVars, derivatives, rowVars, up, tokenJob, tokenWorker, settled,
                   history, counters>>

\* An exception before _process_job's try: the job loop backs off and goes
\* on, _current_job_id stays set until the next claim.
Unhandled(w) ==
    /\ Background
    /\ "unhandled" \in Faults
    /\ up[w] /\ run[w] # None
    /\ run' = [run EXCEPT ![w] = None]
    /\ UNCHANGED <<jobVars, mediaVars, derivatives, rowVars, up, named, attemptVars, history, counters>>

\* The row names job n: a change stamps current_job_changed_at, and the
\* grace of the worker's jobs starts again.
Name(w, n) ==
    LET same == current_job_id[w] = n
    IN  /\ current_job_id' = [current_job_id EXCEPT ![w] = n]
        /\ stamped' = [stamped EXCEPT ![w] = @ \/ ~same]
        /\ idle' = [j \in Job |-> idle[j] /\ (same \/ worker_id[j] # w)]

\* heartbeat / update_worker_heartbeat.
Heartbeat(w) ==
    /\ Background
    /\ up[w]
    /\ \E n \in Names(w) : Name(w, n)
    /\ alive' = [alive EXCEPT ![w] = TRUE]
    /\ UNCHANGED <<status, worker_id, claim_token, source_path, mediaVars, derivatives, procVars,
                   attemptVars, history, counters>>

\* The agent dies; its journal survives.
Crash(w) ==
    /\ Background
    /\ up[w] /\ Fault
    /\ up' = [up EXCEPT ![w] = FALSE]
    /\ run' = [run EXCEPT ![w] = None]
    /\ named' = [named EXCEPT ![w] = None]
    /\ UNCHANGED <<jobVars, mediaVars, derivatives, rowVars, attemptVars, history, asked>>

\* _cleanup after an orderly shutdown: a last heartbeat, status offline.
Stop(w) ==
    /\ Background
    /\ up[w] /\ run[w] = None /\ Fault
    /\ up' = [up EXCEPT ![w] = FALSE]
    /\ named' = [named EXCEPT ![w] = None]
    /\ alive' = [alive EXCEPT ![w] = FALSE]
    /\ Name(w, None)
    /\ UNCHANGED <<status, worker_id, claim_token, source_path, mediaVars, derivatives, run, attemptVars, history, asked>>

\* register, first statement: upsert_worker resets the row's current_job_id
\* but leaves current_job_changed_at.  The journal has been drained.
Register(h, w) ==
    /\ ~up[w] /\ Drained(w)
    /\ Enter(h, Ask("release", w))
    /\ alive' = [alive EXCEPT ![w] = TRUE]
    /\ current_job_id' = [current_job_id EXCEPT ![w] = None]
    /\ UNCHANGED <<jobVars, mediaVars, derivatives, stamped, procVars, attemptVars, history, counters>>

\* Mutant of Release: finished jobs of the worker are released as well.
ReleaseUnguarded(h) ==
    LET w == req[h].arg
    IN  /\ Advance(h, "release", Free)
        /\ Requeue({j \in Job : worker_id[j] = w})
        /\ up' = [up EXCEPT ![w] = TRUE]
        /\ UNCHANGED <<mediaVars, derivatives, rowVars, run, named, attemptVars, history, counters>>

\* register, second statement: the worker's active jobs go back to the queue.
\* The response may be lost; the agent then registers again.
Release(h) ==
    LET w == req[h].arg
    IN  /\ Advance(h, "release", Free)
        /\ Requeue({j \in Job : worker_id[j] = w /\ status[j] = "active"})
        /\ \/ up' = [up EXCEPT ![w] = TRUE] /\ UNCHANGED spent
           \/ Fault /\ UNCHANGED up
        /\ UNCHANGED <<mediaVars, derivatives, rowVars, run, named, attemptVars, history, asked>>

-----------------------------------------------------------------------------
(* The worker endpoints that report on an attempt.                         *)

\* The answer to a report reaches the worker, or is lost and the report is
\* sent again.
Answer(t) == settled' \in {settled, [settled EXCEPT ![t] = TRUE]}

\* A job's journal entries are delivered in order: the complete report of an
\* S3 job follows its registration, or the refusal of it.
Chained(t) ==
    LET j == tokenJob[t]
    IN  report[t] = "complete" /\ source_path[j] \in S3 =>
           source_path[j] \in derivatives \/ worker_id[j] # tokenWorker[t]

\* complete_job, skip_job, fail_job up to the transaction: an unknown job
\* (404), a job of another worker (403), the same outcome again (204) and
\* another outcome (409) are answered from the row as read.
ReceiveReport(h, t) ==
    LET j == tokenJob[t]
    IN  /\ report[t] # "none" /\ Chained(t)
        /\ IF worker_id[j] # tokenWorker[t] \/ status[j] \notin Live
           THEN Enter(h, Free) /\ Answer(t)
           ELSE Enter(h, Ask("report", t)) /\ UNCHANGED settled
        /\ UNCHANGED <<jobVars, mediaVars, derivatives, rowVars, procVars,
                       tokenJob, tokenWorker, report, history, counters>>

MediaOutcome(o) == IF o = "failed" THEN "needs_transcode" ELSE o

\* The transaction: finalize_job and, when it won, the catalog row.  A lost
\* race is answered 204, 403, 404 or 409; each settles the report.
CommitReport(h) ==
    LET t == req[h].arg
        j == tokenJob[t]
    IN  /\ Advance(h, "report", Free)
        /\ Answer(t)
        /\ IF AttemptFence(t) /\ status[j] \in Live
           THEN /\ status' = [status EXCEPT ![j] = report[t]]
                /\ idle' = [idle EXCEPT ![j] = FALSE]
                /\ author' = [author EXCEPT ![j] = t]
                /\ SyncMedia(j, MediaOutcome(report[t]))
           ELSE UNCHANGED <<status, idle, author, mediaVars>>
        /\ UNCHANGED <<worker_id, claim_token, source_path, derivatives, rowVars, procVars,
                       tokenJob, tokenWorker, report, latest, counters>>

\* progress: the ownership check ...
ReceiveProgress(h, t) ==
    /\ \E w \in Worker : run[w] = t
    /\ worker_id[tokenJob[t]] = tokenWorker[t]
    /\ Enter(h, Ask("progress", t))
    /\ UNCHANGED <<jobVars, mediaVars, derivatives, rowVars, procVars, attemptVars, history, counters>>

\* Mutant of CommitProgress: the update by job id alone.
CommitProgressUnfenced(h) ==
    /\ Advance(h, "progress", Free)
    /\ idle' = [idle EXCEPT ![tokenJob[req[h].arg]] = FALSE]
    /\ UNCHANGED <<status, worker_id, claim_token, source_path, mediaVars, derivatives,
                   rowVars, procVars, attemptVars, history, counters>>

\* ... and the fenced update, which restarts the sweeps' clock.
CommitProgress(h) ==
    LET t == req[h].arg
        j == tokenJob[t]
    IN  /\ Advance(h, "progress", Free)
        /\ idle' = IF AttemptFence(t) /\ status[j] = "active" THEN [idle EXCEPT ![j] = FALSE] ELSE idle
        /\ UNCHANGED <<status, worker_id, claim_token, source_path, mediaVars, derivatives,
                       rowVars, procVars, attemptVars, history, counters>>

\* register_derivative, journaled ahead of the complete report of an S3 job:
\* only ownership is asked for, no claim token; a second registration of the
\* key is a no-op.
RegisterDerivative(t) ==
    LET j == tokenJob[t]
    IN  /\ Background
        /\ report[t] = "complete" /\ ~settled[t]
        /\ worker_id[j] = tokenWorker[t] /\ source_path[j] \in S3
        /\ derivatives' = derivatives \cup {source_path[j]}
        /\ UNCHANGED <<jobVars, mediaVars, rowVars, procVars, attemptVars, history, counters>>

\* check_derivative: the key is on record and the job is still open.
CheckDerivative(h, w) ==
    LET j == tokenJob[run[w]]
    IN  /\ run[w] # None
        /\ worker_id[j] = w /\ status[j] \in Live
        /\ source_path[j] \in derivatives
        /\ Enter(h, Ask("dedup", run[w]))
        /\ UNCHANGED <<jobVars, mediaVars, derivatives, rowVars, procVars, attemptVars, history, counters>>

\* ... which ends the job through the same fence, without the catalog row.
CommitDedup(h) ==
    LET t == req[h].arg
        j == tokenJob[t]
    IN  /\ Advance(h, "dedup", Free)
        /\ IF AttemptFence(t) /\ status[j] \in Live
           THEN /\ status' = [status EXCEPT ![j] = "complete"]
                /\ idle' = [idle EXCEPT ![j] = FALSE]
                /\ author' = [author EXCEPT ![j] = t]
           ELSE UNCHANGED <<status, idle, author>>
        /\ UNCHANGED <<worker_id, claim_token, source_path, mediaVars, derivatives, rowVars,
                       procVars, attemptVars, latest, counters>>

-----------------------------------------------------------------------------
(* Reconciliation.                                                         *)

\* A heartbeat comes every 10 s, the graces are 120 s and more: no grace
\* runs out on a worker that is up and connected before it has been heard.
Heard(w) == up[w] /\ alive[w] => current_job_id[w] \in Names(w)

JobIdles(j) ==
    /\ Background
    /\ status[j] = "active" /\ ~idle[j] /\ Heard(worker_id[j])
    /\ idle' = [idle EXCEPT ![j] = TRUE]
    /\ UNCHANGED <<status, worker_id, claim_token, source_path, mediaVars, derivatives, rowVars,
                   procVars, attemptVars, history, counters>>

\* cleanup_stale_workers: no heartbeat for 90 s, because the agent is down
\* or, as a fault, because it cannot get through.
MarkDead(w) ==
    /\ Background
    /\ alive[w]
    /\ \/ ~up[w] /\ UNCHANGED spent
       \/ up[w] /\ Fault
    /\ alive' = [alive EXCEPT ![w] = FALSE]
    /\ UNCHANGED <<jobVars, mediaVars, derivatives, current_job_id, stamped, procVars, attemptVars,
                   history, asked>>

\* requeue_orphan_active_jobs: the worker is not alive.
Orphans == {j \in Job : status[j] = "active" /\ idle[j] /\ ~alive[worker_id[j]]}

\* Mutant of Abandoned: current_job_id != j.id without the IS NULL half.
AbandonedNotNull ==
    {j \in Job : /\ status[j] = "active" /\ idle[j]
                 /\ alive[worker_id[j]]
                 /\ current_job_id[worker_id[j]] \notin {j, None}
                 /\ stamped[worker_id[j]]}

\* requeue_abandoned_active_jobs: the worker is alive and has named another
\* job, or none, for longer than the grace.
Abandoned ==
    {j \in Job : /\ status[j] = "active" /\ idle[j]
                 /\ alive[worker_id[j]]
                 /\ current_job_id[worker_id[j]] # j
                 /\ stamped[worker_id[j]]}

Sweep(jobs) ==
    /\ Background
    /\ jobs # {}
    /\ Requeue(jobs)
    /\ UNCHANGED <<mediaVars, derivatives, rowVars, procVars, attemptVars, history, counters>>

SweepOrphans   == Sweep(Orphans)
SweepAbandoned == Sweep(Abandoned)

-----------------------------------------------------------------------------
(* The operator's endpoints.                                               *)

\* queue_files, catalog read: the row is not in flight, and not complete
\* unless a downscale is asked for (d).
QueueFile(h, f, d) ==
    /\ transcode_status[f] # "queued"
    /\ d \/ transcode_status[f] # "complete"
    /\ Enter(h, Ask("queue_paths", f))
    /\ Operator
    /\ UNCHANGED <<jobVars, mediaVars, derivatives, rowVars, procVars, attemptVars, history>>

\* active_paths: a job on the path that is neither FAILED nor CANCELLED.
ActivePath(f) ==
    \E j \in Job : source_path[j] = f /\ status[j] \in Row \ {"failed", "cancelled"}

\* queue_files, dedup read: a file with such a job is left out.
QueuePaths(h) ==
    LET f == req[h].arg
    IN  /\ Advance(h, "queue_paths", IF ActivePath(f) THEN Free ELSE Ask("queue_commit", f))
        /\ UNCHANGED <<jobVars, mediaVars, derivatives, rowVars, procVars, attemptVars, history, counters>>

\* queue_files, the transaction: create_job and update_media_status, or a
\* failure that rolls both back.
QueueCommit(h) ==
    LET f == req[h].arg
    IN  /\ Advance(h, "queue_commit", Free)
        /\ \/ /\ \E j \in Job :
                    /\ status[j] = "unborn"
                    /\ status' = [status EXCEPT ![j] = "waiting"]
                    /\ source_path' = [source_path EXCEPT ![j] = f]
                    /\ job_id' = [job_id EXCEPT ![f] = j]
              /\ transcode_status' = [transcode_status EXCEPT ![f] = "queued"]
           \/ UNCHANGED <<status, source_path, mediaVars>>
        /\ UNCHANGED <<worker_id, claim_token, idle, derivatives, rowVars, procVars, attemptVars,
                       history, counters>>

\* retry_job, the status check ...
Retry(h, j) ==
    /\ status[j] \in {"failed", "cancelled"}
    /\ Enter(h, Ask("retry_job", j))
    /\ Operator
    /\ UNCHANGED <<jobVars, mediaVars, derivatives, rowVars, procVars, attemptVars, history>>

\* Mutant of RetryJob: the previous attempt's identity stays on the row.
RetryJobKeepsToken(h) ==
    LET j == req[h].arg
    IN  /\ Advance(h, "retry_job", Ask("retry_media", j))
        /\ status' = [status EXCEPT ![j] = IF @ = "deleted" THEN @ ELSE "waiting"]
        /\ UNCHANGED <<worker_id, claim_token, source_path, idle, mediaVars, derivatives, rowVars,
                       procVars, attemptVars, history, counters>>

\* ... update_job, by id alone ...
RetryJob(h) ==
    LET j == req[h].arg
    IN  /\ Advance(h, "retry_job", Ask("retry_media", j))
        /\ Requeue({j} \ {i \in Job : status[i] = "deleted"})
        /\ UNCHANGED <<mediaVars, derivatives, rowVars, procVars, attemptVars, history, counters>>

\* ... and the catalog row.
RetryMedia(h) ==
    /\ Advance(h, "retry_media", Free)
    /\ SyncMedia(req[h].arg, "queued")
    /\ UNCHANGED <<jobVars, derivatives, rowVars, procVars, attemptVars, history, counters>>

\* cancel_waiting_job: cancel_if_waiting is one conditional update ...
Cancel(h, j) ==
    /\ status[j] = "waiting"
    /\ Enter(h, Ask("cancel_media", j))
    /\ status' = [status EXCEPT ![j] = "cancelled"]
    /\ Operator
    /\ UNCHANGED <<worker_id, claim_token, source_path, idle, mediaVars, derivatives, rowVars,
                   procVars, attemptVars, history>>

\* ... and the catalog row follows.
CancelMedia(h) ==
    /\ Advance(h, "cancel_media", Free)
    /\ SyncMedia(req[h].arg, "needs_transcode")
    /\ UNCHANGED <<jobVars, derivatives, rowVars, procVars, attemptVars, history, counters>>

\* cancel_all_pending: the catalog rows of the waiting jobs first ...
CancelAll(h) ==
    /\ Enter(h, Ask("cancel_jobs", None))
    /\ transcode_status' =
         [f \in File |-> IF job_id[f] \in Job /\ status[job_id[f]] = "waiting"
                         THEN "needs_transcode" ELSE transcode_status[f]]
    /\ Operator
    /\ UNCHANGED <<jobVars, job_id, derivatives, rowVars, procVars, attemptVars, history>>

\* ... then the jobs that are waiting by now.
CancelJobs(h) ==
    /\ Advance(h, "cancel_jobs", Free)
    /\ status' = [j \in Job |-> IF status[j] = "waiting" THEN "cancelled" ELSE status[j]]
    /\ UNCHANGED <<worker_id, claim_token, source_path, idle, mediaVars, derivatives, rowVars,
                   procVars, attemptVars, history, counters>>

\* Mutant of DeleteJobs: a bare DELETE.
DeleteJobsBare(statuses) ==
    /\ Background
    /\ \E j \in Job : status[j] \in statuses
    /\ status' = [j \in Job |-> IF status[j] \in statuses THEN "deleted" ELSE status[j]]
    /\ worker_id' = [j \in Job |-> IF status[j] \in statuses THEN None ELSE worker_id[j]]
    /\ claim_token' = [j \in Job |-> IF status[j] \in statuses THEN None ELSE claim_token[j]]
    /\ Operator
    /\ UNCHANGED <<source_path, idle, mediaVars, derivatives, rowVars, procVars, attemptVars, history>>

\* delete_jobs, one transaction: the rows that point at the jobs let go of
\* them, a row in flight drops back to needs_transcode.
DeleteJobs(statuses) ==
    LET gone == {j \in Job : status[j] \in statuses}
    IN  /\ Background
        /\ gone # {}
        /\ status' = [j \in Job |-> IF j \in gone THEN "deleted" ELSE status[j]]
        /\ worker_id' = [j \in Job |-> IF j \in gone THEN None ELSE worker_id[j]]
        /\ claim_token' = [j \in Job |-> IF j \in gone THEN None ELSE claim_token[j]]
        /\ idle' = [j \in Job |-> IF j \in gone THEN FALSE ELSE idle[j]]
        /\ job_id' = [f \in File |-> IF job_id[f] \in gone THEN None ELSE job_id[f]]
        /\ transcode_status' =
             [f \in File |-> IF job_id[f] \in gone /\ transcode_status[f] = "queued"
                             THEN "needs_transcode" ELSE transcode_status[f]]
        /\ Operator
        /\ UNCHANGED <<source_path, derivatives, rowVars, procVars, attemptVars, history>>

ClearCompleted == DeleteJobs({"complete", "cancelled"})
ResetAll       == DeleteJobs(Row)

\* skip_selected_files and unskip_selected_files: whatever the row's job does.
MarkFile(f, s) ==
    /\ Background
    /\ transcode_status' = [transcode_status EXCEPT ![f] = s]
    /\ Operator
    /\ UNCHANGED <<jobVars, job_id, derivatives, rowVars, procVars, attemptVars, history>>

-----------------------------------------------------------------------------
AgentStep(w) ==
    \/ Claim(w) \/ FileReport(w) \/ Unhandled(w) \/ Heartbeat(w) \/ Crash(w) \/ Stop(w)
    \/ MarkDead(w)

\* A handler on its way: each of its remaining statements.
HandlerStep(h) ==
    \/ Release(h) \/ CommitReport(h) \/ CommitProgress(h) \/ CommitDedup(h)
    \/ QueuePaths(h) \/ QueueCommit(h) \/ RetryJob(h) \/ RetryMedia(h)
    \/ CancelMedia(h) \/ CancelJobs(h)

\* A request arrives.
Arrival(h) ==
    \/ \E w \in Worker : Register(h, w) \/ CheckDerivative(h, w)
    \/ \E t \in Token : ReceiveReport(h, t) \/ ReceiveProgress(h, t)
    \/ \E f \in File, d \in BOOLEAN : QueueFile(h, f, d)
    \/ \E j \in Job : Retry(h, j) \/ Cancel(h, j)
    \/ CancelAll(h)

Next ==
    \/ \E w \in Worker : AgentStep(w)
    \/ \E h \in Handler : HandlerStep(h) \/ Arrival(h)
    \/ \E t \in Token : RegisterDerivative(t)
    \/ \E j \in Job : JobIdles(j)
    \/ SweepOrphans \/ SweepAbandoned
    \/ ClearCompleted \/ ResetAll
    \/ \E f \in File, s \in {"skipped", "needs_transcode"} : MarkFile(f, s)

Spec == Init /\ [][Next]_vars

\* The event loop runs handlers and background loops, time passes, a running
\* agent heartbeats.  Nothing forces a claim, a restart or an operator.
Fairness ==
    /\ \A w \in Worker : /\ WF_vars(Heartbeat(w))
                         /\ WF_vars(~up[w] /\ MarkDead(w))
    /\ \A h \in Handler : WF_vars(HandlerStep(h))
    /\ \A j \in Job : WF_vars(JobIdles(j))
    /\ WF_vars(SweepOrphans)
    /\ WF_vars(SweepAbandoned)

FairSpec == Spec /\ Fairness

-----------------------------------------------------------------------------
(* Properties.                                                             *)

TypeOK ==
    /\ status \in [Job -> Status]
    /\ worker_id \in [Job -> Worker \cup {None}]
    /\ claim_token \in [Job -> Token \cup {None}]
    /\ source_path \in [Job -> File \cup {None}]
    /\ idle \in [Job -> BOOLEAN]
    /\ transcode_status \in [File -> {"needs_transcode", "queued", "complete", "skipped"}]
    /\ job_id \in [File -> Job \cup {None}]
    /\ derivatives \subseteq File
    /\ alive \in [Worker -> BOOLEAN]
    /\ current_job_id \in [Worker -> Job \cup {None}]
    /\ stamped \in [Worker -> BOOLEAN]
    /\ up \in [Worker -> BOOLEAN]
    /\ run \in [Worker -> Token \cup {None}]
    /\ named \in [Worker -> Token \cup {None}]
    /\ tokenJob \in [Token -> Job \cup {None}]
    /\ tokenWorker \in [Token -> Worker \cup {None}]
    /\ report \in [Token -> Outcome \cup {"none"}]
    /\ settled \in [Token -> BOOLEAN]
    /\ req \in [Handler -> Request]
    /\ latest \in [Job -> Token \cup {None}]
    /\ author \in [Job -> Token \cup {None}]
    /\ spent \in Nat /\ asked \in Nat

Issued(t, j, w) == t \in Token /\ w \in Worker /\ tokenJob[t] = j /\ tokenWorker[t] = w

\* worker_id and claim_token are set and cleared together, and while they are
\* set they name the newest attempt handed out for the job.
Owned ==
    \A j \in Job :
       IF status[j] \in {"active"} \cup Outcome
       THEN Issued(claim_token[j], j, worker_id[j]) /\ claim_token[j] = latest[j]
       ELSE worker_id[j] = None /\ claim_token[j] = None

\* What a request under way is about.
RequestBound(r) ==
    LET a == r.arg
    IN  /\ r.kind \in WorkerKinds => a \in Token /\ tokenJob[a] # None
        /\ r.kind = "report" => report[a] # "none"
        /\ r.kind = "dedup" => source_path[tokenJob[a]] \in derivatives
        /\ r.kind = "release" => a \in Worker
        /\ r.kind \in {"queue_paths", "queue_commit"} => a \in File
        /\ r.kind \in {"retry_job", "retry_media", "cancel_media"} => a \in Job

\* What an agent runs and names is its own, and unreported while it runs.
AgentBound ==
    \A w \in Worker :
       /\ run[w] # None => tokenWorker[run[w]] = w /\ report[run[w]] = "none"
       /\ named[w] # None => tokenWorker[named[w]] = w

\* An attempt is of a job that exists, or has not been handed out at all.
AttemptBound ==
    /\ \A t \in Token :
          IF tokenJob[t] = None
          THEN tokenWorker[t] = None /\ report[t] = "none"
          ELSE tokenWorker[t] # None /\ status[tokenJob[t]] # "unborn"
    /\ \A j \in Job : latest[j] # None => tokenJob[latest[j]] = j

Bound == (\A h \in Handler : RequestBound(req[h])) /\ AgentBound /\ AttemptBound

\* _attempt_fence, finalize_job: an outcome on record was decided by the
\* newest attempt at the job, or found in the derivative registry by it; a
\* late report of an earlier attempt never stands, not even the same
\* worker's.  A worker without claim tokens can only speak for its own job.
OutcomeFromLatestAttempt ==
    \A j \in Job : status[j] \in Outcome =>
       LET t == author[j]
       IN  /\ Issued(t, j, worker_id[j])
           /\ worker_id[j] \notin Legacy => t = latest[j]
           /\ status[j] = report[t] \/ (status[j] = "complete" /\ source_path[j] \in derivatives)

\* The inductive invariant of the attempt fence.
FenceInv == TypeOK /\ Owned /\ Bound /\ OutcomeFromLatestAttempt

\* report_progress: only the attempt that owns the job restarts the clock of
\* the sweeps; a stale one cannot keep a lost job from being requeued.
OwnProgressOnly ==
    \A j \in Job : idle[j] /\ ~idle'[j] /\ status[j] = "active" /\ status'[j] = "active" =>
       \/ current_job_id'[worker_id[j]] # current_job_id[worker_id[j]]
       \/ \E h \in Handler : /\ req[h].kind = "progress"
                             /\ worker_id[j] = tokenWorker[req[h].arg]
                             /\ worker_id[j] \in Legacy \/ req[h].arg = latest[j]
ProgressFenced == [][OwnProgressOnly]_vars

\* "A terminal job never changes status again": only a retry reopens a job,
\* and never one that is complete or skipped.
OutcomeKept ==
    \A j \in Job : status[j] \in Terminal /\ status'[j] # status[j] =>
       \/ status'[j] = "deleted"
       \/ status[j] \in {"failed", "cancelled"} /\ status'[j] = "waiting"
TerminalFixed == [][OutcomeKept]_vars

\* The worker is connected, or is registering again.
Present(w) == alive[w] /\ (up[w] \/ \E h \in Handler : req[h] = Ask("release", w))

\* The long-gauge safety of the sweeps and the drain before registration: no
\* job goes back to the queue while the worker that is running it, or has its
\* report in the journal, is there.
Undisturbed ==
    \A j \in Job, w \in Worker :
       /\ status[j] = "active" /\ worker_id[j] = w /\ Present(w)
       /\ claim_token[j] = run[w] \/ claim_token[j] \in Undelivered(w)
       => status'[j] # "waiting"
WorkKept == [][Undisturbed]_vars

\* IN_FLIGHT_STATUSES: "A row in one of these claims a live job".
RowClaimsLiveJob ==
    \A f \in File : transcode_status[f] = "queued" =>
       \/ job_id[f] # None /\ status[job_id[f]] \in Live
       \/ \E h \in Handler : req[h] = Ask("cancel_media", job_id[f])

\* queue_files: "skips files that already have an active job".  Does not hold with
\* "queue_commit" in Interleaved: of two requests for a file, each inserts a job.
NoSecondJob ==
    \A j \in Job : status[j] = "unborn" /\ status'[j] = "waiting" =>
       ~\E i \in Job : source_path[i] = source_path'[j] /\ status[i] \in Live
QueueDedups == [][NoSecondJob]_vars

Holds(t) == \E j \in Job : status[j] = "active" /\ claim_token[j] = t

\* Nobody will finish the attempt: its worker is down, or has forgotten it.
Stranded(t) ==
    Holds(t) /\ \A w \in Worker : run[w] # t /\ ~(up[w] /\ t \in Undelivered(w))

\* _orphan_requeue_loop: "Requeue active jobs their worker will never finish":
\* no job stays with an attempt that nobody is working on.
StrandedRequeued == \A t \in Token : Stranded(t) ~> ~Holds(t)

Ledger == INSTANCE JobLedger WITH holder <- claim_token, task <- tokenJob, bearer <- tokenWorker

\* finalize_job, requeue_*, cancel_if_waiting, delete_jobs: while nobody comes between the
\* check and the write of retry_job, the rows are a ledger of attempts: a job is with one
\* attempt at a time and decided at most once, by that attempt (or, for a worker without
\* claim tokens, by another attempt of the same worker).
LedgerSpec == Ledger!Spec
=============================================================================
