-------------------------- MODULE JobQueueProofs --------------------------
(***************************************************************************)
(* The attempt fence of the job table, for any number of jobs, workers,    *)
(* claims and concurrent requests, every interleaving of the handlers and  *)
(* every fault; then what the operator's endpoints, the catalog and the    *)
(* sweeps keep, each with the requests that have to run whole for it.      *)
(***************************************************************************)
EXTENDS JobQueue, TLAPS

(* What a handler keeps while it waits is a request.                       *)
LEMMA AskType ==
  ASSUME NEW k \in WorkerKinds \cup AdminKinds \cup {"free"},
         NEW a \in Token \cup Worker \cup File \cup Job \cup {None}
  PROVE  Ask(k, a) \in Request
  BY DEF Ask, Request

(* A handler between requests.                                             *)
LEMMA FreeType == Free \in Request
  BY AskType DEF Free

(* A handler that starts, and one that goes on, leave `req' a function to  *)
(* requests.                                                               *)
LEMMA EnterType ==
  ASSUME req \in [Handler -> Request], NEW h \in Handler, NEW r \in Request,
         Enter(h, r) \/ \E k \in WorkerKinds \cup AdminKinds : Advance(h, k, r)
  PROVE  req' \in [Handler -> Request]
  BY DEF Enter, Advance

(* A requeue keeps the columns of the job table in their types.            *)
LEMMA RequeueType ==
  ASSUME TypeOK, NEW jobs, Requeue(jobs)
  PROVE  /\ status' \in [Job -> Status] /\ worker_id' \in [Job -> Worker \cup {None}]
         /\ claim_token' \in [Job -> Token \cup {None}] /\ idle' \in [Job -> BOOLEAN]
         /\ source_path' \in [Job -> File \cup {None}]
  BY DEF TypeOK, Requeue, Status, Row, Live

(* One step keeps every variable in its type.                              *)
LEMMA TypeStep ==
  ASSUME TypeOK, Bound, [Next]_vars
  PROVE  TypeOK'
  <1> USE FaultAssumption, SubsetAssumption
      DEF TypeOK, jobVars, mediaVars, rowVars, procVars, attemptVars, history, counters,
         Background, Status, Row, Live, Terminal, Outcome
  <1>1. ASSUME NEW w \in Worker, Claim(w) PROVE TypeOK'
    BY <1>1 DEF Claim, Fault, Drained
  <1>2. ASSUME NEW w \in Worker, FileReport(w) PROVE TypeOK'
    BY <1>2 DEF FileReport
  <1>3. ASSUME NEW w \in Worker, Unhandled(w) PROVE TypeOK'
    BY <1>3 DEF Unhandled
  <1>4. ASSUME NEW w \in Worker, Heartbeat(w) PROVE TypeOK'
    BY <1>4 DEF Heartbeat, Name, Names, Undelivered
  <1>5. ASSUME NEW w \in Worker, Crash(w) PROVE TypeOK'
    BY <1>5 DEF Crash, Fault
  <1>6. ASSUME NEW w \in Worker, Stop(w) PROVE TypeOK'
    BY <1>6 DEF Stop, Fault, Name
  <1>7. ASSUME NEW w \in Worker, MarkDead(w) PROVE TypeOK'
    BY <1>7 DEF MarkDead, Fault
  <1>8. ASSUME NEW h \in Handler, Release(h) PROVE TypeOK'
    <2>1. req[h].arg \in Worker
      BY <1>8 DEF Release, Advance, Bound, RequestBound, WorkerKinds
    <2>2. req' \in [Handler -> Request]
      BY <1>8, FreeType, EnterType DEF Release, WorkerKinds, AdminKinds
    <2>3. \E jobs : Requeue(jobs)
      BY <1>8 DEF Release
    <2>4. UNCHANGED <<mediaVars, derivatives, rowVars, run, named, attemptVars, history, asked>>
      BY <1>8 DEF Release
    <2>5. up' \in [Worker -> BOOLEAN] /\ spent' \in Nat
      <3>1. (up' = [up EXCEPT ![req[h].arg] = TRUE] \/ up' = up)
            /\ (spent' = spent \/ spent' = spent + 1)
        BY <1>8 DEF Release, Fault
      <3>2. [up EXCEPT ![req[h].arg] = TRUE] \in [Worker -> BOOLEAN]
        OBVIOUS
      <3>3. up' \in [Worker -> BOOLEAN]
        BY <3>1, <3>2
      <3> QED
        BY <3>1, <3>3
    <2> QED
      BY <2>2, <2>3, <2>4, <2>5, RequeueType
  <1>9. ASSUME NEW h \in Handler, CommitReport(h) PROVE TypeOK'
    <2>1. req[h].arg \in Token /\ tokenJob[req[h].arg] \in Job /\ report[req[h].arg] \in Outcome
      BY <1>9 DEF CommitReport, Advance, Bound, RequestBound, WorkerKinds
    <2>2. req' \in [Handler -> Request]
      BY <1>9, FreeType, EnterType DEF CommitReport, WorkerKinds, AdminKinds
    <2>3. settled' \in [Token -> BOOLEAN]
      BY <1>9, <2>1 DEF CommitReport, Answer
    <2>4. UNCHANGED <<worker_id, claim_token, source_path, derivatives, rowVars, procVars,
          tokenJob, tokenWorker, report, latest, counters>>
      BY <1>9 DEF CommitReport
    <2>5. MediaOutcome(report[req[h].arg]) \in {"needs_transcode", "complete", "skipped"}
      BY <2>1 DEF MediaOutcome
    <2>6. status' \in [Job -> Status] /\ idle' \in [Job -> BOOLEAN]
          /\ author' \in [Job -> Token \cup {None}]
      <3>1. CASE AttemptFence(req[h].arg) /\ status[tokenJob[req[h].arg]] \in Live
        BY <1>9, <2>1, <3>1 DEF CommitReport
      <3>2. CASE ~(AttemptFence(req[h].arg) /\ status[tokenJob[req[h].arg]] \in Live)
        BY <1>9, <3>2 DEF CommitReport
      <3> QED
        BY <3>1, <3>2
    <2>7. transcode_status' \in [File -> {"needs_transcode", "queued", "complete",
          "skipped"}] /\ job_id' = job_id
      BY <1>9, <2>5 DEF CommitReport, SyncMedia
    <2> QED
      BY <2>2, <2>3, <2>4, <2>5, <2>6, <2>7
  <1>10. ASSUME NEW h \in Handler, CommitProgress(h) PROVE TypeOK'
    <2>1. req[h].arg \in Token /\ tokenJob[req[h].arg] \in Job
      BY <1>10 DEF CommitProgress, Advance, Bound, RequestBound, WorkerKinds
    <2>2. req' \in [Handler -> Request]
      BY <1>10, FreeType, EnterType DEF CommitProgress, WorkerKinds, AdminKinds
    <2> QED
      BY <1>10, <2>1, <2>2 DEF CommitProgress
  <1>11. ASSUME NEW h \in Handler, CommitDedup(h) PROVE TypeOK'
    <2>1. req[h].arg \in Token /\ tokenJob[req[h].arg] \in Job
      BY <1>11 DEF CommitDedup, Advance, Bound, RequestBound, WorkerKinds
    <2>2. req' \in [Handler -> Request]
      BY <1>11, FreeType, EnterType DEF CommitDedup, WorkerKinds, AdminKinds
    <2>3. settled' \in [Token -> BOOLEAN]
      BY <1>11, <2>1 DEF CommitDedup, Answer
    <2>4. UNCHANGED <<worker_id, claim_token, source_path, derivatives, rowVars, procVars,
          tokenJob, tokenWorker, report, latest, counters>>
      BY <1>11 DEF CommitDedup
    <2>5. status' \in [Job -> Status] /\ idle' \in [Job -> BOOLEAN]
          /\ author' \in [Job -> Token \cup {None}]
      <3>1. CASE AttemptFence(req[h].arg) /\ status[tokenJob[req[h].arg]] \in Live
        <4>1. /\ status' = [status EXCEPT ![tokenJob[req[h].arg]] = "complete"]
              /\ idle' = [idle EXCEPT ![tokenJob[req[h].arg]] = FALSE]
              /\ author' = [author EXCEPT ![tokenJob[req[h].arg]] = req[h].arg]
          BY <1>11, <3>1 DEF CommitDedup
        <4> QED
          BY <2>1, <4>1
      <3>2. CASE ~(AttemptFence(req[h].arg) /\ status[tokenJob[req[h].arg]] \in Live)
        BY <1>11, <3>2 DEF CommitDedup
      <3> QED
        BY <3>1, <3>2
    <2>6. transcode_status' \in [File -> {"needs_transcode", "queued", "complete",
          "skipped"}] /\ job_id' = job_id
      BY <1>11 DEF CommitDedup, SyncMedia
    <2> QED
      BY <2>2, <2>3, <2>4, <2>5, <2>6
  <1>12. ASSUME NEW h \in Handler, QueuePaths(h) PROVE TypeOK'
    <2>1. req[h].arg \in File
      BY <1>12 DEF QueuePaths, Advance, Bound, RequestBound, WorkerKinds
    <2>2. Free \in Request /\ Ask("queue_commit", req[h].arg) \in Request
      BY <2>1, AskType, FreeType DEF AdminKinds
    <2>3. req' \in [Handler -> Request]
      BY <1>12, <2>2, EnterType DEF QueuePaths, AdminKinds
    <2> QED
      BY <1>12, <2>1, <2>3 DEF QueuePaths
  <1>13. ASSUME NEW h \in Handler, QueueCommit(h) PROVE TypeOK'
    <2>1. req[h].arg \in File
      BY <1>13 DEF QueueCommit, Advance, Bound, RequestBound, WorkerKinds
    <2>2. req' \in [Handler -> Request]
      BY <1>13, FreeType, EnterType DEF QueueCommit, WorkerKinds, AdminKinds
    <2> QED
      BY <1>13, <2>1, <2>2 DEF QueueCommit
  <1>14. ASSUME NEW h \in Handler, RetryJob(h) PROVE TypeOK'
    <2>1. req[h].arg \in Job
      BY <1>14 DEF RetryJob, Advance, Bound, RequestBound, WorkerKinds
    <2>2. Ask("retry_media", req[h].arg) \in Request
      BY <1>14, <2>1, AskType DEF RetryJob, WorkerKinds, AdminKinds
    <2>3. req' \in [Handler -> Request]
      BY <1>14, <2>2, EnterType DEF RetryJob, WorkerKinds, AdminKinds
    <2> QED
      BY <1>14, <2>1, <2>3 DEF RetryJob, Requeue
  <1>15. ASSUME NEW h \in Handler, RetryMedia(h) PROVE TypeOK'
    <2>1. req[h].arg \in Job
      BY <1>15 DEF RetryMedia, Advance, Bound, RequestBound, WorkerKinds
    <2>2. req' \in [Handler -> Request]
      BY <1>15, FreeType, EnterType DEF RetryMedia, WorkerKinds, AdminKinds
    <2> QED
      BY <1>15, <2>1, <2>2 DEF RetryMedia, SyncMedia
  <1>16. ASSUME NEW h \in Handler, CancelMedia(h) PROVE TypeOK'
    <2>1. req[h].arg \in Job
      BY <1>16 DEF CancelMedia, Advance, Bound, RequestBound, WorkerKinds
    <2>2. req' \in [Handler -> Request]
      BY <1>16, FreeType, EnterType DEF CancelMedia, WorkerKinds, AdminKinds
    <2> QED
      BY <1>16, <2>1, <2>2 DEF CancelMedia, SyncMedia
  <1>17. ASSUME NEW h \in Handler, CancelJobs(h) PROVE TypeOK'
    <2>1. req' \in [Handler -> Request]
      BY <1>17, FreeType, EnterType DEF CancelJobs, WorkerKinds, AdminKinds
    <2> QED
      BY <1>17, <2>1 DEF CancelJobs
  <1>18. ASSUME NEW h \in Handler, NEW w \in Worker, Register(h, w) PROVE TypeOK'
    <2>1. Ask("release", w) \in Request
      BY <1>18, AskType DEF Register, WorkerKinds, AdminKinds
    <2>2. req' \in [Handler -> Request]
      BY <1>18, <2>1, EnterType DEF Register, WorkerKinds, AdminKinds
    <2> QED
      BY <1>18, <2>2 DEF Register
  <1>19. ASSUME NEW h \in Handler, NEW w \in Worker, CheckDerivative(h, w) PROVE TypeOK'
    <2>1. Ask("dedup", run[w]) \in Request
      BY <1>19, AskType DEF CheckDerivative, WorkerKinds, AdminKinds
    <2>2. req' \in [Handler -> Request]
      BY <1>19, <2>1, EnterType DEF CheckDerivative, WorkerKinds, AdminKinds
    <2> QED
      BY <1>19, <2>2 DEF CheckDerivative
  <1>20. ASSUME NEW h \in Handler, NEW t \in Token, ReceiveReport(h, t) PROVE TypeOK'
    <2>1. Free \in Request /\ Ask("report", t) \in Request
      BY AskType, FreeType DEF WorkerKinds
    <2>2. req' \in [Handler -> Request]
      BY <1>20, <2>1, EnterType DEF ReceiveReport
    <2> QED
      BY <1>20, <2>2 DEF ReceiveReport, Answer
  <1>21. ASSUME NEW h \in Handler, NEW t \in Token, ReceiveProgress(h, t) PROVE TypeOK'
    <2>1. Ask("progress", t) \in Request
      BY <1>21, AskType DEF ReceiveProgress, WorkerKinds, AdminKinds
    <2>2. req' \in [Handler -> Request]
      BY <1>21, <2>1, EnterType DEF ReceiveProgress, WorkerKinds, AdminKinds
    <2> QED
      BY <1>21, <2>2 DEF ReceiveProgress
  <1>22. ASSUME NEW h \in Handler, NEW f \in File, NEW d \in BOOLEAN, QueueFile(h, f,
         d) PROVE TypeOK'
    <2>1. Ask("queue_paths", f) \in Request
      BY <1>22, AskType DEF QueueFile, WorkerKinds, AdminKinds
    <2>2. req' \in [Handler -> Request]
      BY <1>22, <2>1, EnterType DEF QueueFile, WorkerKinds, AdminKinds
    <2> QED
      BY <1>22, <2>2 DEF QueueFile, Operator
  <1>23. ASSUME NEW h \in Handler, NEW j \in Job, Retry(h, j) PROVE TypeOK'
    <2>1. Ask("retry_job", j) \in Request
      BY <1>23, AskType DEF Retry, WorkerKinds, AdminKinds
    <2>2. req' \in [Handler -> Request]
      BY <1>23, <2>1, EnterType DEF Retry, WorkerKinds, AdminKinds
    <2> QED
      BY <1>23, <2>2 DEF Retry, Operator
  <1>24. ASSUME NEW h \in Handler, NEW j \in Job, Cancel(h, j) PROVE TypeOK'
    <2>1. Ask("cancel_media", j) \in Request
      BY <1>24, AskType DEF Cancel, WorkerKinds, AdminKinds
    <2>2. req' \in [Handler -> Request]
      BY <1>24, <2>1, EnterType DEF Cancel, WorkerKinds, AdminKinds
    <2> QED
      BY <1>24, <2>2 DEF Cancel, Operator
  <1>25. ASSUME NEW h \in Handler, CancelAll(h) PROVE TypeOK'
    <2>1. Ask("cancel_jobs", None) \in Request
      BY <1>25, AskType DEF CancelAll, WorkerKinds, AdminKinds
    <2>2. req' \in [Handler -> Request]
      BY <1>25, <2>1, EnterType DEF CancelAll, WorkerKinds, AdminKinds
    <2> QED
      BY <1>25, <2>2 DEF CancelAll, Operator
  <1>26. ASSUME NEW t \in Token, RegisterDerivative(t) PROVE TypeOK'
    BY <1>26 DEF RegisterDerivative
  <1>27. ASSUME NEW j \in Job, JobIdles(j) PROVE TypeOK'
    BY <1>27 DEF JobIdles
  <1>28. ASSUME NEW jobs \in SUBSET Job, Sweep(jobs) PROVE TypeOK'
    BY <1>28 DEF Sweep, Requeue
  <1>29. ASSUME NEW st \in SUBSET Status, DeleteJobs(st) PROVE TypeOK'
    <2> DEFINE gone == {j \in Job : status[j] \in st}
    <2>1. /\ status' = [j \in Job |-> IF j \in gone THEN "deleted" ELSE status[j]]
          /\ worker_id' = [j \in Job |-> IF j \in gone THEN None ELSE worker_id[j]]
          /\ claim_token' = [j \in Job |-> IF j \in gone THEN None ELSE claim_token[j]]
          /\ idle' = [j \in Job |-> IF j \in gone THEN FALSE ELSE idle[j]]
          /\ job_id' = [f \in File |-> IF job_id[f] \in gone THEN None ELSE job_id[f]]
      BY <1>29 DEF DeleteJobs
    <2>2. transcode_status' \in [File -> {"needs_transcode", "queued", "complete", "skipped"}]
      BY <1>29 DEF DeleteJobs
    <2>3. asked' \in Nat /\ UNCHANGED <<source_path, derivatives, rowVars, procVars,
          attemptVars, history, req, spent>>
      BY <1>29 DEF DeleteJobs, Operator
    <2> HIDE DEF gone
    <2>4. status' \in [Job -> Status] /\ worker_id' \in [Job -> Worker \cup {None}]
          /\ claim_token' \in [Job -> Token \cup {None}]
      BY <2>1
    <2>5. idle' \in [Job -> BOOLEAN] /\ job_id' \in [File -> Job \cup {None}]
      BY <2>1
    <2> QED
      BY <2>2, <2>3, <2>4, <2>5
  <1>30. ASSUME NEW f \in File, NEW s \in {"skipped", "needs_transcode"}, MarkFile(f,
         s) PROVE TypeOK'
    BY <1>30 DEF MarkFile, Operator
  <1>31. CASE UNCHANGED vars
    BY <1>31 DEF vars
  <1>32. Orphans \in SUBSET Job /\ Abandoned \in SUBSET Job
    BY DEF Orphans, Abandoned
  <1>33. Row \in SUBSET Status /\ {"complete", "cancelled"} \in SUBSET Status
    BY DEF Row, Status, Live, Terminal, Outcome
  <1> HIDE DEF TypeOK, jobVars, mediaVars, rowVars, procVars, attemptVars, history, counters,
      Background, Status, Row, Live, Terminal, Outcome
  <1> QED
    BY <1>1, <1>2, <1>3, <1>4, <1>5, <1>6, <1>7, <1>8, <1>9, <1>10, <1>11, <1>12, <1>13, <1>14,
       <1>15, <1>16, <1>17,
       <1>18, <1>19, <1>20, <1>21, <1>22, <1>23, <1>24, <1>25, <1>26, <1>27, <1>28, <1>29,
          <1>30, <1>31, <1>32, <1>33
    DEF Next, AgentStep, HandlerStep, Arrival, SweepOrphans, SweepAbandoned, ClearCompleted,
       ResetAll

(* What the owner of a job is read from.                                   *)
LEMMA OwnedFrame ==
  ASSUME Owned, UNCHANGED <<status, worker_id, claim_token, latest, tokenJob, tokenWorker>>
  PROVE  Owned'
  BY DEF Owned, Issued

(* A job that has an owner is active or has an outcome.                    *)
LEMMA OwnerStatus ==
  ASSUME TypeOK, Owned, NEW j \in Job, worker_id[j] # None
  PROVE  /\ status[j] \in {"active"} \cup Outcome
         /\ Issued(claim_token[j], j, worker_id[j]) /\ claim_token[j] = latest[j]
  BY DEF Owned

(* A requeue clears both columns.                                          *)
LEMMA RequeueOwned ==
  ASSUME TypeOK, Owned, NEW jobs, Requeue(jobs), UNCHANGED <<latest, tokenJob, tokenWorker>>
  PROVE  Owned'
  BY DEF TypeOK, Owned, Issued, Requeue, Status, Row, Live, Terminal, Outcome

(* One step keeps worker_id and claim_token together.                      *)
LEMMA OwnedStep ==
  ASSUME TypeOK, Owned, Bound, [Next]_vars
  PROVE  Owned'
  <1>1. ASSUME NEW w \in Worker, Claim(w) PROVE Owned'
    <2>1. PICK j \in Job, t \in Token :
            /\ status[j] = "waiting" /\ tokenJob[t] = None
            /\ status' = [status EXCEPT ![j] = "active"]
            /\ worker_id' = [worker_id EXCEPT ![j] = w]
            /\ claim_token' = [claim_token EXCEPT ![j] = t]
            /\ tokenJob' = [tokenJob EXCEPT ![t] = j]
            /\ tokenWorker' = [tokenWorker EXCEPT ![t] = w]
            /\ latest' = [latest EXCEPT ![j] = t]
      BY <1>1 DEF Claim
    <2> QED
      BY <2>1, NoneAssumption DEF Owned, Issued, TypeOK, Outcome
  <1>2. ASSUME NEW w \in Worker, FileReport(w) PROVE Owned'
    BY <1>2, OwnedFrame DEF FileReport, jobVars, mediaVars, rowVars, procVars, attemptVars,
       history, counters
  <1>3. ASSUME NEW w \in Worker, Unhandled(w) PROVE Owned'
    BY <1>3, OwnedFrame DEF Unhandled, jobVars, mediaVars, rowVars, procVars, attemptVars,
       history, counters
  <1>4. ASSUME NEW w \in Worker, Heartbeat(w) PROVE Owned'
    BY <1>4, OwnedFrame DEF Heartbeat, jobVars, mediaVars, rowVars, procVars, attemptVars,
       history, counters
  <1>5. ASSUME NEW w \in Worker, Crash(w) PROVE Owned'
    BY <1>5, OwnedFrame DEF Crash, jobVars, mediaVars, rowVars, procVars, attemptVars, history,
       counters
  <1>6. ASSUME NEW w \in Worker, Stop(w) PROVE Owned'
    BY <1>6, OwnedFrame DEF Stop, jobVars, mediaVars, rowVars, procVars, attemptVars, history,
       counters
  <1>7. ASSUME NEW w \in Worker, MarkDead(w) PROVE Owned'
    BY <1>7, OwnedFrame DEF MarkDead, jobVars, mediaVars, rowVars, procVars, attemptVars,
       history, counters
  <1>8. ASSUME NEW h \in Handler, Release(h) PROVE Owned'
    BY <1>8, RequeueOwned DEF Release, jobVars, mediaVars, rowVars, procVars, attemptVars,
       history, counters
  <1>9. ASSUME NEW h \in Handler, CommitReport(h) PROVE Owned'
    <2> DEFINE t == req[h].arg
               j == tokenJob[t]
    <2>1. UNCHANGED <<worker_id, claim_token, latest, tokenJob, tokenWorker>>
      BY <1>9 DEF CommitReport, jobVars, mediaVars, rowVars, procVars, attemptVars, history,
         counters
    <2>2. t \in Token /\ j \in Job /\ tokenWorker[t] \in Worker /\ report[t] \in Outcome
      BY <1>9 DEF CommitReport, Advance, Bound, RequestBound, AttemptBound, WorkerKinds, TypeOK
    <2>3. CASE AttemptFence(t) /\ status[j] \in Live
      <3>1. worker_id[j] # None
        BY <2>2, <2>3, NoneAssumption DEF AttemptFence
      <3>2. status' = [status EXCEPT ![j] = report[req[h].arg]]
        BY <1>9, <2>3 DEF CommitReport
      <3>3. status[j] \in {"active"} \cup Outcome /\ status'[j] \in Outcome
            /\ \A i \in Job \ {j} : status'[i] = status[i]
        BY <2>2, <3>1, <3>2, OwnerStatus DEF TypeOK, Outcome
      <3> HIDE DEF t, j
      <3> QED
        BY <2>1, <3>3 DEF Owned, Issued
    <2>4. CASE ~(AttemptFence(t) /\ status[j] \in Live)
      BY <1>9, <2>1, <2>4, OwnedFrame DEF CommitReport
    <2> QED
      BY <2>3, <2>4
  <1>10. ASSUME NEW h \in Handler, CommitProgress(h) PROVE Owned'
    BY <1>10, OwnedFrame DEF CommitProgress, jobVars, mediaVars, rowVars, procVars, attemptVars,
       history, counters
  <1>11. ASSUME NEW h \in Handler, CommitDedup(h) PROVE Owned'
    <2> DEFINE t == req[h].arg
               j == tokenJob[t]
    <2>1. UNCHANGED <<worker_id, claim_token, latest, tokenJob, tokenWorker>>
      BY <1>11 DEF CommitDedup, jobVars, mediaVars, rowVars, procVars, attemptVars, history,
         counters
    <2>2. t \in Token /\ j \in Job /\ tokenWorker[t] \in Worker
      BY <1>11 DEF CommitDedup, Advance, Bound, RequestBound, AttemptBound, WorkerKinds, TypeOK
    <2>3. CASE AttemptFence(t) /\ status[j] \in Live
      <3>1. worker_id[j] # None
        BY <2>2, <2>3, NoneAssumption DEF AttemptFence
      <3>2. status' = [status EXCEPT ![j] = "complete"]
        BY <1>11, <2>3 DEF CommitDedup
      <3>3. status[j] \in {"active"} \cup Outcome /\ status'[j] \in Outcome
            /\ \A i \in Job \ {j} : status'[i] = status[i]
        BY <2>2, <3>1, <3>2, OwnerStatus DEF TypeOK, Outcome
      <3> HIDE DEF t, j
      <3> QED
        BY <2>1, <3>3 DEF Owned, Issued
    <2>4. CASE ~(AttemptFence(t) /\ status[j] \in Live)
      BY <1>11, <2>1, <2>4, OwnedFrame DEF CommitDedup
    <2> QED
      BY <2>3, <2>4
  <1>12. ASSUME NEW h \in Handler, QueuePaths(h) PROVE Owned'
    BY <1>12, OwnedFrame DEF QueuePaths, jobVars, mediaVars, rowVars, procVars, attemptVars,
       history, counters
  <1>13. ASSUME NEW h \in Handler, QueueCommit(h) PROVE Owned'
    BY <1>13 DEF QueueCommit, jobVars, mediaVars, rowVars, procVars, attemptVars, history,
       counters, Owned, Issued, TypeOK, Outcome
  <1>14. ASSUME NEW h \in Handler, RetryJob(h) PROVE Owned'
    BY <1>14, RequeueOwned DEF RetryJob, jobVars, mediaVars, rowVars, procVars, attemptVars,
       history, counters
  <1>15. ASSUME NEW h \in Handler, RetryMedia(h) PROVE Owned'
    BY <1>15, OwnedFrame DEF RetryMedia, jobVars, mediaVars, rowVars, procVars, attemptVars,
       history, counters
  <1>16. ASSUME NEW h \in Handler, CancelMedia(h) PROVE Owned'
    BY <1>16, OwnedFrame DEF CancelMedia, jobVars, mediaVars, rowVars, procVars, attemptVars,
       history, counters
  <1>17. ASSUME NEW h \in Handler, CancelJobs(h) PROVE Owned'
    BY <1>17 DEF CancelJobs, jobVars, mediaVars, rowVars, procVars, attemptVars, history,
       counters, Owned, Issued, TypeOK, Outcome
  <1>18. ASSUME NEW h \in Handler, NEW w \in Worker, Register(h, w) PROVE Owned'
    BY <1>18, OwnedFrame DEF Register, jobVars, mediaVars, rowVars, procVars, attemptVars,
       history, counters
  <1>19. ASSUME NEW h \in Handler, NEW w \in Worker, CheckDerivative(h, w) PROVE Owned'
    BY <1>19, OwnedFrame DEF CheckDerivative, jobVars, mediaVars, rowVars, procVars,
       attemptVars, history, counters
  <1>20. ASSUME NEW h \in Handler, NEW t \in Token, ReceiveReport(h, t) PROVE Owned'
    BY <1>20, OwnedFrame DEF ReceiveReport, jobVars, mediaVars, rowVars, procVars, attemptVars,
       history, counters
  <1>21. ASSUME NEW h \in Handler, NEW t \in Token, ReceiveProgress(h, t) PROVE Owned'
    BY <1>21, OwnedFrame DEF ReceiveProgress, jobVars, mediaVars, rowVars, procVars,
       attemptVars, history, counters
  <1>22. ASSUME NEW h \in Handler, NEW f \in File, NEW d \in BOOLEAN, QueueFile(h, f,
         d) PROVE Owned'
    BY <1>22, OwnedFrame DEF QueueFile, jobVars, mediaVars, rowVars, procVars, attemptVars,
       history, counters
  <1>23. ASSUME NEW h \in Handler, NEW j \in Job, Retry(h, j) PROVE Owned'
    BY <1>23, OwnedFrame DEF Retry, jobVars, mediaVars, rowVars, procVars, attemptVars, history,
       counters
  <1>24. ASSUME NEW h \in Handler, NEW j \in Job, Cancel(h, j) PROVE Owned'
    BY <1>24 DEF Cancel, Operator, jobVars, mediaVars, rowVars, procVars, attemptVars, history,
       counters, Owned, Issued, TypeOK, Outcome
  <1>25. ASSUME NEW h \in Handler, CancelAll(h) PROVE Owned'
    BY <1>25, OwnedFrame DEF CancelAll, jobVars, mediaVars, rowVars, procVars, attemptVars,
       history, counters
  <1>26. ASSUME NEW t \in Token, RegisterDerivative(t) PROVE Owned'
    BY <1>26, OwnedFrame DEF RegisterDerivative, jobVars, mediaVars, rowVars, procVars,
       attemptVars, history, counters
  <1>27. ASSUME NEW j \in Job, JobIdles(j) PROVE Owned'
    BY <1>27, OwnedFrame DEF JobIdles, jobVars, mediaVars, rowVars, procVars, attemptVars,
       history, counters
  <1>28. ASSUME NEW jobs \in SUBSET Job, Sweep(jobs) PROVE Owned'
    BY <1>28, RequeueOwned DEF Sweep, jobVars, mediaVars, rowVars, procVars, attemptVars,
       history, counters
  <1>29. ASSUME NEW st \in SUBSET Status, DeleteJobs(st) PROVE Owned'
    BY <1>29 DEF DeleteJobs, Operator, jobVars, mediaVars, rowVars, procVars, attemptVars,
       history, counters, Owned, Issued, TypeOK, Outcome
  <1>30. ASSUME NEW f \in File, NEW s \in {"skipped", "needs_transcode"}, MarkFile(f,
         s) PROVE Owned'
    BY <1>30, OwnedFrame DEF MarkFile, jobVars, mediaVars, rowVars, procVars, attemptVars,
       history, counters
  <1>31. CASE UNCHANGED vars
    BY <1>31 DEF vars, Owned, Issued, jobVars, mediaVars, rowVars, procVars, attemptVars,
       history, counters
  <1>32. Orphans \in SUBSET Job /\ Abandoned \in SUBSET Job
    BY DEF Orphans, Abandoned
  <1>33. Row \in SUBSET Status /\ {"complete", "cancelled"} \in SUBSET Status
    BY DEF Row, Status, Live, Terminal, Outcome
  <1> QED
    BY <1>1, <1>2, <1>3, <1>4, <1>5, <1>6, <1>7, <1>8, <1>9, <1>10, <1>11, <1>12, <1>13, <1>14,
       <1>15, <1>16, <1>17,
       <1>18, <1>19, <1>20, <1>21, <1>22, <1>23, <1>24, <1>25, <1>26, <1>27, <1>28, <1>29,
          <1>30, <1>31, <1>32, <1>33
    DEF Next, AgentStep, HandlerStep, Arrival, SweepOrphans, SweepAbandoned, ClearCompleted,
       ResetAll

(* What a request is bound to is read from these.                          *)
LEMMA RequestFrame ==
  ASSUME NEW r, RequestBound(r), UNCHANGED <<tokenJob, report, source_path, derivatives>>
  PROVE  RequestBound(r)'
  BY DEF RequestBound

(* A handler that starts or goes on with a well-bound request.             *)
LEMMA HandlerBound ==
  ASSUME TypeOK, Bound, NEW h \in Handler, NEW r,
         Enter(h, r) \/ \E k \in WorkerKinds \cup AdminKinds : Advance(h, k, r),
         RequestBound(r)', \A q : RequestBound(q) => RequestBound(q)'
  PROVE  (\A g \in Handler : RequestBound(req[g]))'
  <1>1. \A g \in Handler : req'[g] = IF g = h THEN r ELSE req[g]
    BY DEF Enter, Advance, TypeOK
  <1>2. \A g \in Handler : RequestBound(req[g])'
    BY <1>1 DEF Bound, RequestBound
  <1> QED
    BY <1>2

(* Requests of the operator and of register are bound by their argument.   *)
LEMMA AskBound ==
  /\ RequestBound(Free)'
  /\ \A w \in Worker : RequestBound(Ask("release", w))'
  /\ \A f \in File : RequestBound(Ask("queue_paths", f))' /\ RequestBound(Ask("queue_commit", f))'
  /\ \A j \in Job : /\ RequestBound(Ask("retry_job", j))' /\ RequestBound(Ask("retry_media", j))'
                    /\ RequestBound(Ask("cancel_media", j))'
  /\ RequestBound(Ask("cancel_jobs", None))'
  BY DEF RequestBound, Ask, Free, WorkerKinds

(* One step keeps every request under way about something real.            *)
LEMMA RequestStep ==
  ASSUME TypeOK, Bound, [Next]_vars
  PROVE  (\A h \in Handler : RequestBound(req[h]))'
  <1>1. ASSUME NEW w \in Worker, Claim(w) PROVE (\A g \in Handler : RequestBound(req[g]))'
    <2>1. UNCHANGED <<req, source_path, report, derivatives>>
      BY <1>1 DEF Claim, Background, jobVars, attemptVars
    <2>2. \A a \in Token : tokenJob[a] # None => tokenJob'[a] = tokenJob[a]
      BY <1>1 DEF Claim, TypeOK
    <2> QED
      BY <2>1, <2>2 DEF Bound, RequestBound, WorkerKinds
  <1>2. ASSUME NEW w \in Worker, FileReport(w) PROVE (\A g \in Handler : RequestBound(req[g]))'
    <2>1. UNCHANGED <<req, source_path, tokenJob, derivatives>>
      BY <1>2 DEF FileReport, Background, jobVars, attemptVars
    <2>2. \A a \in Token : report[a] # "none" => report'[a] # "none"
      BY <1>2 DEF FileReport, TypeOK, Outcome
    <2> QED
      BY <2>1, <2>2 DEF Bound, RequestBound, WorkerKinds
  <1>3. ASSUME NEW w \in Worker, Unhandled(w) PROVE (\A g \in Handler : RequestBound(req[g]))'
    BY <1>3, RequestFrame DEF Unhandled, Background, attemptVars, jobVars, Bound
  <1>4. ASSUME NEW w \in Worker, Heartbeat(w) PROVE (\A g \in Handler : RequestBound(req[g]))'
    BY <1>4, RequestFrame DEF Heartbeat, Background, attemptVars, jobVars, Bound
  <1>5. ASSUME NEW w \in Worker, Crash(w) PROVE (\A g \in Handler : RequestBound(req[g]))'
    BY <1>5, RequestFrame DEF Crash, Background, attemptVars, jobVars, Bound
  <1>6. ASSUME NEW w \in Worker, Stop(w) PROVE (\A g \in Handler : RequestBound(req[g]))'
    BY <1>6, RequestFrame DEF Stop, Background, attemptVars, jobVars, Bound
  <1>7. ASSUME NEW w \in Worker, MarkDead(w) PROVE (\A g \in Handler : RequestBound(req[g]))'
    BY <1>7, RequestFrame DEF MarkDead, Background, attemptVars, jobVars, Bound
  <1>8. ASSUME NEW h \in Handler, Release(h) PROVE (\A g \in Handler : RequestBound(req[g]))'
    <2>1. \A q : RequestBound(q) => RequestBound(q)'
      BY <1>8, RequestFrame DEF Release, Requeue, attemptVars, jobVars
    <2> QED
      BY <1>8, <2>1, AskBound, HandlerBound DEF Release, WorkerKinds, AdminKinds
  <1>9. ASSUME NEW h \in Handler, CommitReport(h) PROVE (\A g \in Handler : RequestBound(req[g]))'
    <2>1. \A q : RequestBound(q) => RequestBound(q)'
      BY <1>9, RequestFrame DEF CommitReport, attemptVars, jobVars
    <2> QED
      BY <1>9, <2>1, AskBound, HandlerBound DEF CommitReport, WorkerKinds, AdminKinds
  <1>10. ASSUME NEW h \in Handler, CommitProgress(h) PROVE (\A g \in Handler : RequestBound(req[g]))'
    <2>1. \A q : RequestBound(q) => RequestBound(q)'
      BY <1>10, RequestFrame DEF CommitProgress, attemptVars, jobVars
    <2> QED
      BY <1>10, <2>1, AskBound, HandlerBound DEF CommitProgress, WorkerKinds, AdminKinds
  <1>11. ASSUME NEW h \in Handler, CommitDedup(h) PROVE (\A g \in Handler : RequestBound(req[g]))'
    <2>1. \A q : RequestBound(q) => RequestBound(q)'
      BY <1>11, RequestFrame DEF CommitDedup, attemptVars, jobVars
    <2> QED
      BY <1>11, <2>1, AskBound, HandlerBound DEF CommitDedup, WorkerKinds, AdminKinds
  <1>12. ASSUME NEW h \in Handler, QueuePaths(h) PROVE (\A g \in Handler : RequestBound(req[g]))'
    <2>1. \A q : RequestBound(q) => RequestBound(q)'
      BY <1>12, RequestFrame DEF QueuePaths, attemptVars, jobVars
    <2>2. req[h].arg \in File
      BY <1>12 DEF QueuePaths, Advance, Bound, RequestBound
    <2> QED
      BY <1>12, <2>1, <2>2, AskBound, HandlerBound DEF QueuePaths, WorkerKinds, AdminKinds
  <1>13. ASSUME NEW h \in Handler, QueueCommit(h) PROVE (\A g \in Handler : RequestBound(req[g]))'
    <2>1. \A q : RequestBound(q) => RequestBound(q)'
      <3>1. UNCHANGED <<tokenJob, report, derivatives>>
        BY <1>13 DEF QueueCommit, attemptVars
      <3>2. \A i \in Job : status[i] # "unborn" => source_path'[i] = source_path[i]
        BY <1>13 DEF QueueCommit, TypeOK
      <3>3. \A t \in Token : tokenJob[t] # None => tokenJob[t] \in Job
            /\ status[tokenJob[t]] # "unborn"
        BY DEF Bound, AttemptBound, TypeOK
      <3> QED
        BY <3>1, <3>2, <3>3 DEF RequestBound, WorkerKinds
    <2> QED
      BY <1>13, <2>1, AskBound, HandlerBound DEF QueueCommit, WorkerKinds, AdminKinds
  <1>14. ASSUME NEW h \in Handler, RetryJob(h) PROVE (\A g \in Handler : RequestBound(req[g]))'
    <2>1. \A q : RequestBound(q) => RequestBound(q)'
      BY <1>14, RequestFrame DEF RetryJob, Requeue, attemptVars, jobVars
    <2>2. req[h].arg \in Job
      BY <1>14 DEF RetryJob, Advance, Bound, RequestBound
    <2> QED
      BY <1>14, <2>1, <2>2, AskBound, HandlerBound DEF RetryJob, WorkerKinds, AdminKinds
  <1>15. ASSUME NEW h \in Handler, RetryMedia(h) PROVE (\A g \in Handler : RequestBound(req[g]))'
    <2>1. \A q : RequestBound(q) => RequestBound(q)'
      BY <1>15, RequestFrame DEF RetryMedia, attemptVars, jobVars
    <2> QED
      BY <1>15, <2>1, AskBound, HandlerBound DEF RetryMedia, WorkerKinds, AdminKinds
  <1>16. ASSUME NEW h \in Handler, CancelMedia(h) PROVE (\A g \in Handler : RequestBound(req[g]))'
    <2>1. \A q : RequestBound(q) => RequestBound(q)'
      BY <1>16, RequestFrame DEF CancelMedia, attemptVars, jobVars
    <2> QED
      BY <1>16, <2>1, AskBound, HandlerBound DEF CancelMedia, WorkerKinds, AdminKinds
  <1>17. ASSUME NEW h \in Handler, CancelJobs(h) PROVE (\A g \in Handler : RequestBound(req[g]))'
    <2>1. \A q : RequestBound(q) => RequestBound(q)'
      BY <1>17, RequestFrame DEF CancelJobs, attemptVars, jobVars
    <2> QED
      BY <1>17, <2>1, AskBound, HandlerBound DEF CancelJobs, WorkerKinds, AdminKinds
  <1>18. ASSUME NEW h \in Handler, NEW w \in Worker, Register(h,
         w) PROVE (\A g \in Handler : RequestBound(req[g]))'
    <2>1. \A q : RequestBound(q) => RequestBound(q)'
      BY <1>18, RequestFrame DEF Register, attemptVars, jobVars
    <2> QED
      BY <1>18, <2>1, AskBound, HandlerBound DEF Register, WorkerKinds, AdminKinds
  <1>19. ASSUME NEW h \in Handler, NEW w \in Worker, CheckDerivative(h,
         w) PROVE (\A g \in Handler : RequestBound(req[g]))'
    <2>1. \A q : RequestBound(q) => RequestBound(q)'
      BY <1>19, RequestFrame DEF CheckDerivative, attemptVars, jobVars
    <2>2. PICK t \in Token : t = run[w] /\ tokenJob[t] # None
      BY <1>19, NoneAssumption DEF CheckDerivative, Bound, AgentBound, AttemptBound, TypeOK
    <2>3. source_path[tokenJob[t]] \in derivatives /\ UNCHANGED <<tokenJob, source_path,
          derivatives>>
      BY <1>19, <2>2 DEF CheckDerivative, attemptVars, jobVars
    <2>4. RequestBound(Ask("dedup", t))'
      BY <2>2, <2>3 DEF RequestBound, Ask
    <2> QED
      BY <1>19, <2>1, <2>2, <2>4, HandlerBound DEF CheckDerivative
  <1>20. ASSUME NEW h \in Handler, NEW t \in Token, ReceiveReport(h,
         t) PROVE (\A g \in Handler : RequestBound(req[g]))'
    <2>1. \A q : RequestBound(q) => RequestBound(q)'
      BY <1>20, RequestFrame DEF ReceiveReport, attemptVars, jobVars
    <2>2. report[t] # "none" /\ tokenJob[t] # None /\ UNCHANGED <<tokenJob, report>>
      BY <1>20 DEF ReceiveReport, Bound, AttemptBound
    <2>3. RequestBound(Ask("report", t))'
      BY <2>2 DEF RequestBound, Ask
    <2> QED
      BY <1>20, <2>1, <2>3, AskBound, HandlerBound DEF ReceiveReport
  <1>21. ASSUME NEW h \in Handler, NEW t \in Token, ReceiveProgress(h,
         t) PROVE (\A g \in Handler : RequestBound(req[g]))'
    <2>1. \A q : RequestBound(q) => RequestBound(q)'
      BY <1>21, RequestFrame DEF ReceiveProgress, attemptVars, jobVars
    <2>2. tokenJob[t] # None /\ UNCHANGED tokenJob
      BY <1>21, NoneAssumption DEF ReceiveProgress, Bound, AgentBound, AttemptBound, TypeOK,
         attemptVars
    <2>3. RequestBound(Ask("progress", t))'
      BY <2>2 DEF RequestBound, Ask
    <2> QED
      BY <1>21, <2>1, <2>3, HandlerBound DEF ReceiveProgress
  <1>22. ASSUME NEW h \in Handler, NEW f \in File, NEW d \in BOOLEAN, QueueFile(h, f,
         d) PROVE (\A g \in Handler : RequestBound(req[g]))'
    <2>1. \A q : RequestBound(q) => RequestBound(q)'
      BY <1>22, RequestFrame DEF QueueFile, attemptVars, jobVars
    <2> QED
      BY <1>22, <2>1, AskBound, HandlerBound DEF QueueFile, WorkerKinds, AdminKinds
  <1>23. ASSUME NEW h \in Handler, NEW j \in Job, Retry(h,
         j) PROVE (\A g \in Handler : RequestBound(req[g]))'
    <2>1. \A q : RequestBound(q) => RequestBound(q)'
      BY <1>23, RequestFrame DEF Retry, attemptVars, jobVars
    <2> QED
      BY <1>23, <2>1, AskBound, HandlerBound DEF Retry, WorkerKinds, AdminKinds
  <1>24. ASSUME NEW h \in Handler, NEW j \in Job, Cancel(h,
         j) PROVE (\A g \in Handler : RequestBound(req[g]))'
    <2>1. \A q : RequestBound(q) => RequestBound(q)'
      BY <1>24, RequestFrame DEF Cancel, attemptVars, jobVars
    <2> QED
      BY <1>24, <2>1, AskBound, HandlerBound DEF Cancel, WorkerKinds, AdminKinds
  <1>25. ASSUME NEW h \in Handler, CancelAll(h) PROVE (\A g \in Handler : RequestBound(req[g]))'
    <2>1. \A q : RequestBound(q) => RequestBound(q)'
      BY <1>25, RequestFrame DEF CancelAll, attemptVars, jobVars
    <2> QED
      BY <1>25, <2>1, AskBound, HandlerBound DEF CancelAll, WorkerKinds, AdminKinds
  <1>26. ASSUME NEW t \in Token, RegisterDerivative(t) PROVE (\A g \in Handler : RequestBound(req[g]))'
    <2>1. UNCHANGED <<req, source_path, tokenJob, report>>
      BY <1>26 DEF RegisterDerivative, Background, jobVars, attemptVars
    <2>2. derivatives \subseteq derivatives'
      BY <1>26 DEF RegisterDerivative
    <2> QED
      BY <2>1, <2>2 DEF Bound, RequestBound
  <1>27. ASSUME NEW j \in Job, JobIdles(j) PROVE (\A g \in Handler : RequestBound(req[g]))'
    BY <1>27, RequestFrame DEF JobIdles, Background, attemptVars, jobVars, Bound
  <1>28. ASSUME NEW jobs \in SUBSET Job, Sweep(jobs) PROVE (\A g \in Handler : RequestBound(req[g]))'
    BY <1>28, RequestFrame DEF Sweep, Background, Requeue, attemptVars, jobVars, Bound
  <1>29. ASSUME NEW st \in SUBSET Status,
         DeleteJobs(st) PROVE (\A g \in Handler : RequestBound(req[g]))'
    BY <1>29, RequestFrame DEF DeleteJobs, Background, attemptVars, jobVars, Bound
  <1>30. ASSUME NEW f \in File, NEW s \in {"skipped", "needs_transcode"}, MarkFile(f,
         s) PROVE (\A g \in Handler : RequestBound(req[g]))'
    BY <1>30, RequestFrame DEF MarkFile, Background, attemptVars, jobVars, Bound
  <1>31. CASE UNCHANGED vars
    BY <1>31 DEF vars, Bound, RequestBound, jobVars, mediaVars, rowVars, procVars, attemptVars,
       history, counters
  <1>32. Orphans \in SUBSET Job /\ Abandoned \in SUBSET Job
    BY DEF Orphans, Abandoned
  <1>33. Row \in SUBSET Status /\ {"complete", "cancelled"} \in SUBSET Status
    BY DEF Row, Status, Live, Terminal, Outcome
  <1> QED
    BY <1>1, <1>2, <1>3, <1>4, <1>5, <1>6, <1>7, <1>8, <1>9, <1>10, <1>11, <1>12, <1>13, <1>14,
       <1>15, <1>16, <1>17,
       <1>18, <1>19, <1>20, <1>21, <1>22, <1>23, <1>24, <1>25, <1>26, <1>27, <1>28, <1>29,
          <1>30, <1>31, <1>32, <1>33
    DEF Next, AgentStep, HandlerStep, Arrival, SweepOrphans, SweepAbandoned, ClearCompleted,
       ResetAll

(* One step keeps what agents run and name their own.                      *)
LEMMA AgentBoundStep ==
  ASSUME TypeOK, Bound, [Next]_vars
  PROVE  AgentBound'
  <1>1. ASSUME NEW w \in Worker, Claim(w) PROVE AgentBound'
    <2>1. PICK j \in Job, t \in Token :
            /\ status[j] = "waiting" /\ tokenJob[t] = None
            /\ status' = [status EXCEPT ![j] = "active"]
            /\ worker_id' = [worker_id EXCEPT ![j] = w]
            /\ tokenJob' = [tokenJob EXCEPT ![t] = j]
            /\ tokenWorker' = [tokenWorker EXCEPT ![t] = w]
            /\ latest' = [latest EXCEPT ![j] = t]
            /\ \/ run' = [run EXCEPT ![w] = t] /\ named' = [named EXCEPT ![w] = t]
               \/ UNCHANGED <<run, named>>
      BY <1>1 DEF Claim
    <2>2. report' = report /\ tokenWorker[t] = None /\ report[t] = "none"
      BY <1>1, <2>1 DEF Claim, Bound, AttemptBound
    <2> QED
      BY <2>1, <2>2, NoneAssumption DEF AgentBound, Bound, TypeOK
  <1>2. ASSUME NEW w \in Worker, FileReport(w) PROVE AgentBound'
    BY <1>2 DEF FileReport, AgentBound, Bound, procVars, attemptVars, TypeOK
  <1>3. ASSUME NEW w \in Worker, Unhandled(w) PROVE AgentBound'
    BY <1>3 DEF Unhandled, AgentBound, Bound, procVars, attemptVars, TypeOK
  <1>4. ASSUME NEW w \in Worker, Heartbeat(w) PROVE AgentBound'
    BY <1>4 DEF Heartbeat, AgentBound, Bound, procVars, attemptVars
  <1>5. ASSUME NEW w \in Worker, Crash(w) PROVE AgentBound'
    BY <1>5 DEF Crash, AgentBound, Bound, procVars, attemptVars, TypeOK
  <1>6. ASSUME NEW w \in Worker, Stop(w) PROVE AgentBound'
    BY <1>6 DEF Stop, AgentBound, Bound, procVars, attemptVars, TypeOK
  <1>7. ASSUME NEW w \in Worker, MarkDead(w) PROVE AgentBound'
    BY <1>7 DEF MarkDead, AgentBound, Bound, procVars, attemptVars
  <1>8. ASSUME NEW h \in Handler, Release(h) PROVE AgentBound'
    BY <1>8 DEF Release, AgentBound, Bound, procVars, attemptVars
  <1>9. ASSUME NEW h \in Handler, CommitReport(h) PROVE AgentBound'
    BY <1>9 DEF CommitReport, AgentBound, Bound, procVars, attemptVars
  <1>10. ASSUME NEW h \in Handler, CommitProgress(h) PROVE AgentBound'
    BY <1>10 DEF CommitProgress, AgentBound, Bound, procVars, attemptVars
  <1>11. ASSUME NEW h \in Handler, CommitDedup(h) PROVE AgentBound'
    BY <1>11 DEF CommitDedup, AgentBound, Bound, procVars, attemptVars
  <1>12. ASSUME NEW h \in Handler, QueuePaths(h) PROVE AgentBound'
    BY <1>12 DEF QueuePaths, AgentBound, Bound, procVars, attemptVars
  <1>13. ASSUME NEW h \in Handler, QueueCommit(h) PROVE AgentBound'
    BY <1>13 DEF QueueCommit, AgentBound, Bound, procVars, attemptVars
  <1>14. ASSUME NEW h \in Handler, RetryJob(h) PROVE AgentBound'
    BY <1>14 DEF RetryJob, AgentBound, Bound, procVars, attemptVars
  <1>15. ASSUME NEW h \in Handler, RetryMedia(h) PROVE AgentBound'
    BY <1>15 DEF RetryMedia, AgentBound, Bound, procVars, attemptVars
  <1>16. ASSUME NEW h \in Handler, CancelMedia(h) PROVE AgentBound'
    BY <1>16 DEF CancelMedia, AgentBound, Bound, procVars, attemptVars
  <1>17. ASSUME NEW h \in Handler, CancelJobs(h) PROVE AgentBound'
    BY <1>17 DEF CancelJobs, AgentBound, Bound, procVars, attemptVars
  <1>18. ASSUME NEW h \in Handler, NEW w \in Worker, Register(h, w) PROVE AgentBound'
    BY <1>18 DEF Register, AgentBound, Bound, procVars, attemptVars
  <1>19. ASSUME NEW h \in Handler, NEW w \in Worker, CheckDerivative(h, w) PROVE AgentBound'
    BY <1>19 DEF CheckDerivative, AgentBound, Bound, procVars, attemptVars
  <1>20. ASSUME NEW h \in Handler, NEW t \in Token, ReceiveReport(h, t) PROVE AgentBound'
    BY <1>20 DEF ReceiveReport, AgentBound, Bound, procVars, attemptVars
  <1>21. ASSUME NEW h \in Handler, NEW t \in Token, ReceiveProgress(h, t) PROVE AgentBound'
    BY <1>21 DEF ReceiveProgress, AgentBound, Bound, procVars, attemptVars
  <1>22. ASSUME NEW h \in Handler, NEW f \in File, NEW d \in BOOLEAN, QueueFile(h, f,
         d) PROVE AgentBound'
    BY <1>22 DEF QueueFile, AgentBound, Bound, procVars, attemptVars
  <1>23. ASSUME NEW h \in Handler, NEW j \in Job, Retry(h, j) PROVE AgentBound'
    BY <1>23 DEF Retry, AgentBound, Bound, procVars, attemptVars
  <1>24. ASSUME NEW h \in Handler, NEW j \in Job, Cancel(h, j) PROVE AgentBound'
    BY <1>24 DEF Cancel, AgentBound, Bound, procVars, attemptVars
  <1>25. ASSUME NEW h \in Handler, CancelAll(h) PROVE AgentBound'
    BY <1>25 DEF CancelAll, AgentBound, Bound, procVars, attemptVars
  <1>26. ASSUME NEW t \in Token, RegisterDerivative(t) PROVE AgentBound'
    BY <1>26 DEF RegisterDerivative, AgentBound, Bound, procVars, attemptVars
  <1>27. ASSUME NEW j \in Job, JobIdles(j) PROVE AgentBound'
    BY <1>27 DEF JobIdles, AgentBound, Bound, procVars, attemptVars
  <1>28. ASSUME NEW jobs \in SUBSET Job, Sweep(jobs) PROVE AgentBound'
    BY <1>28 DEF Sweep, AgentBound, Bound, procVars, attemptVars
  <1>29. ASSUME NEW st \in SUBSET Status, DeleteJobs(st) PROVE AgentBound'
    BY <1>29 DEF DeleteJobs, AgentBound, Bound, procVars, attemptVars
  <1>30. ASSUME NEW f \in File, NEW s \in {"skipped", "needs_transcode"}, MarkFile(f,
         s) PROVE AgentBound'
    BY <1>30 DEF MarkFile, AgentBound, Bound, procVars, attemptVars
  <1>31. CASE UNCHANGED vars
    BY <1>31 DEF vars, Bound, AgentBound, jobVars, mediaVars, rowVars, procVars, attemptVars,
       history, counters
  <1>32. Orphans \in SUBSET Job /\ Abandoned \in SUBSET Job
    BY DEF Orphans, Abandoned
  <1>33. Row \in SUBSET Status /\ {"complete", "cancelled"} \in SUBSET Status
    BY DEF Row, Status, Live, Terminal, Outcome
  <1> QED
    BY <1>1, <1>2, <1>3, <1>4, <1>5, <1>6, <1>7, <1>8, <1>9, <1>10, <1>11, <1>12, <1>13, <1>14,
       <1>15, <1>16, <1>17,
       <1>18, <1>19, <1>20, <1>21, <1>22, <1>23, <1>24, <1>25, <1>26, <1>27, <1>28, <1>29,
          <1>30, <1>31, <1>32, <1>33
    DEF Next, AgentStep, HandlerStep, Arrival, SweepOrphans, SweepAbandoned, ClearCompleted,
       ResetAll

(* One step keeps attempts tied to jobs that exist.                        *)
LEMMA AttemptBoundStep ==
  ASSUME TypeOK, Bound, [Next]_vars
  PROVE  AttemptBound'
  <1>1. ASSUME NEW w \in Worker, Claim(w) PROVE AttemptBound'
    <2>1. PICK j \in Job, t \in Token :
            /\ status[j] = "waiting" /\ tokenJob[t] = None
            /\ status' = [status EXCEPT ![j] = "active"]
            /\ worker_id' = [worker_id EXCEPT ![j] = w]
            /\ tokenJob' = [tokenJob EXCEPT ![t] = j]
            /\ tokenWorker' = [tokenWorker EXCEPT ![t] = w]
            /\ latest' = [latest EXCEPT ![j] = t]
            /\ \/ run' = [run EXCEPT ![w] = t] /\ named' = [named EXCEPT ![w] = t]
               \/ UNCHANGED <<run, named>>
      BY <1>1 DEF Claim
    <2>2. report' = report
      BY <1>1 DEF Claim
    <2> QED
      BY <2>1, <2>2, NoneAssumption DEF AttemptBound, Bound, TypeOK
  <1>2. ASSUME NEW w \in Worker, FileReport(w) PROVE AttemptBound'
    BY <1>2, NoneAssumption DEF FileReport, AgentBound, AttemptBound, Bound, jobVars, history,
       TypeOK
  <1>3. ASSUME NEW w \in Worker, Unhandled(w) PROVE AttemptBound'
    BY <1>3 DEF Unhandled, AttemptBound, Bound, jobVars, attemptVars, history
  <1>4. ASSUME NEW w \in Worker, Heartbeat(w) PROVE AttemptBound'
    BY <1>4 DEF Heartbeat, AttemptBound, Bound, jobVars, attemptVars, history
  <1>5. ASSUME NEW w \in Worker, Crash(w) PROVE AttemptBound'
    BY <1>5 DEF Crash, AttemptBound, Bound, jobVars, attemptVars, history
  <1>6. ASSUME NEW w \in Worker, Stop(w) PROVE AttemptBound'
    BY <1>6 DEF Stop, AttemptBound, Bound, jobVars, attemptVars, history
  <1>7. ASSUME NEW w \in Worker, MarkDead(w) PROVE AttemptBound'
    BY <1>7 DEF MarkDead, AttemptBound, Bound, jobVars, attemptVars, history
  <1>8. ASSUME NEW h \in Handler, Release(h) PROVE AttemptBound'
    BY <1>8 DEF Release, Requeue, AttemptBound, Bound, attemptVars, history, TypeOK
  <1>9. ASSUME NEW h \in Handler, CommitReport(h) PROVE AttemptBound'
    <2>1. UNCHANGED <<latest, tokenJob, tokenWorker, report>>
      BY <1>9 DEF CommitReport, attemptVars
    <2>2. tokenJob[req[h].arg] \in Job /\ report[req[h].arg] \in Outcome
      BY <1>9 DEF CommitReport, Advance, Bound, RequestBound, WorkerKinds, TypeOK
    <2>3. \A i \in Job : status[i] # "unborn" => status'[i] # "unborn"
      BY <1>9, <2>2 DEF CommitReport, TypeOK, Outcome
    <2> QED
      BY <2>1, <2>3 DEF AttemptBound, Bound, TypeOK
  <1>10. ASSUME NEW h \in Handler, CommitProgress(h) PROVE AttemptBound'
    BY <1>10 DEF CommitProgress, AttemptBound, Bound, jobVars, attemptVars, history
  <1>11. ASSUME NEW h \in Handler, CommitDedup(h) PROVE AttemptBound'
    <2>1. UNCHANGED <<latest, tokenJob, tokenWorker, report>>
      BY <1>11 DEF CommitDedup, attemptVars
    <2>2. tokenJob[req[h].arg] \in Job
      BY <1>11 DEF CommitDedup, Advance, Bound, RequestBound, WorkerKinds, TypeOK
    <2>3. \A i \in Job : status[i] # "unborn" => status'[i] # "unborn"
      BY <1>11, <2>2 DEF CommitDedup, TypeOK, Outcome
    <2> QED
      BY <2>1, <2>3 DEF AttemptBound, Bound, TypeOK
  <1>12. ASSUME NEW h \in Handler, QueuePaths(h) PROVE AttemptBound'
    BY <1>12 DEF QueuePaths, AttemptBound, Bound, jobVars, attemptVars, history
  <1>13. ASSUME NEW h \in Handler, QueueCommit(h) PROVE AttemptBound'
    BY <1>13 DEF QueueCommit, AttemptBound, Bound, attemptVars, history, TypeOK
  <1>14. ASSUME NEW h \in Handler, RetryJob(h) PROVE AttemptBound'
    BY <1>14 DEF RetryJob, Requeue, AttemptBound, Bound, attemptVars, history, TypeOK
  <1>15. ASSUME NEW h \in Handler, RetryMedia(h) PROVE AttemptBound'
    BY <1>15 DEF RetryMedia, AttemptBound, Bound, jobVars, attemptVars, history
  <1>16. ASSUME NEW h \in Handler, CancelMedia(h) PROVE AttemptBound'
    BY <1>16 DEF CancelMedia, AttemptBound, Bound, jobVars, attemptVars, history
  <1>17. ASSUME NEW h \in Handler, CancelJobs(h) PROVE AttemptBound'
    BY <1>17 DEF CancelJobs, AttemptBound, Bound, attemptVars, history, TypeOK
  <1>18. ASSUME NEW h \in Handler, NEW w \in Worker, Register(h, w) PROVE AttemptBound'
    BY <1>18 DEF Register, AttemptBound, Bound, jobVars, attemptVars, history
  <1>19. ASSUME NEW h \in Handler, NEW w \in Worker, CheckDerivative(h, w) PROVE AttemptBound'
    BY <1>19 DEF CheckDerivative, AttemptBound, Bound, jobVars, attemptVars, history
  <1>20. ASSUME NEW h \in Handler, NEW t \in Token, ReceiveReport(h, t) PROVE AttemptBound'
    BY <1>20 DEF ReceiveReport, AttemptBound, Bound, jobVars, attemptVars, history
  <1>21. ASSUME NEW h \in Handler, NEW t \in Token, ReceiveProgress(h, t) PROVE AttemptBound'
    BY <1>21 DEF ReceiveProgress, AttemptBound, Bound, jobVars, attemptVars, history
  <1>22. ASSUME NEW h \in Handler, NEW f \in File, NEW d \in BOOLEAN, QueueFile(h, f,
         d) PROVE AttemptBound'
    BY <1>22 DEF QueueFile, AttemptBound, Bound, jobVars, attemptVars, history
  <1>23. ASSUME NEW h \in Handler, NEW j \in Job, Retry(h, j) PROVE AttemptBound'
    BY <1>23 DEF Retry, AttemptBound, Bound, jobVars, attemptVars, history
  <1>24. ASSUME NEW h \in Handler, NEW j \in Job, Cancel(h, j) PROVE AttemptBound'
    BY <1>24 DEF Cancel, AttemptBound, Bound, attemptVars, history, TypeOK
  <1>25. ASSUME NEW h \in Handler, CancelAll(h) PROVE AttemptBound'
    BY <1>25 DEF CancelAll, AttemptBound, Bound, jobVars, attemptVars, history
  <1>26. ASSUME NEW t \in Token, RegisterDerivative(t) PROVE AttemptBound'
    BY <1>26 DEF RegisterDerivative, AttemptBound, Bound, jobVars, attemptVars, history
  <1>27. ASSUME NEW j \in Job, JobIdles(j) PROVE AttemptBound'
    BY <1>27 DEF JobIdles, AttemptBound, Bound, jobVars, attemptVars, history
  <1>28. ASSUME NEW jobs \in SUBSET Job, Sweep(jobs) PROVE AttemptBound'
    BY <1>28 DEF Sweep, Requeue, AttemptBound, Bound, attemptVars, history, TypeOK
  <1>29. ASSUME NEW st \in SUBSET Status, DeleteJobs(st) PROVE AttemptBound'
    BY <1>29 DEF DeleteJobs, AttemptBound, Bound, attemptVars, history, TypeOK
  <1>30. ASSUME NEW f \in File, NEW s \in {"skipped", "needs_transcode"}, MarkFile(f,
         s) PROVE AttemptBound'
    BY <1>30 DEF MarkFile, AttemptBound, Bound, jobVars, attemptVars, history
  <1>31. CASE UNCHANGED vars
    BY <1>31 DEF vars, Bound, AttemptBound, jobVars, mediaVars, rowVars, procVars, attemptVars,
       history, counters
  <1>32. Orphans \in SUBSET Job /\ Abandoned \in SUBSET Job
    BY DEF Orphans, Abandoned
  <1>33. Row \in SUBSET Status /\ {"complete", "cancelled"} \in SUBSET Status
    BY DEF Row, Status, Live, Terminal, Outcome
  <1> QED
    BY <1>1, <1>2, <1>3, <1>4, <1>5, <1>6, <1>7, <1>8, <1>9, <1>10, <1>11, <1>12, <1>13, <1>14,
       <1>15, <1>16, <1>17,
       <1>18, <1>19, <1>20, <1>21, <1>22, <1>23, <1>24, <1>25, <1>26, <1>27, <1>28, <1>29,
          <1>30, <1>31, <1>32, <1>33
    DEF Next, AgentStep, HandlerStep, Arrival, SweepOrphans, SweepAbandoned, ClearCompleted,
       ResetAll

(* What an outcome on record is read from.                                 *)
LEMMA OutcomeFrame ==
  ASSUME TypeOK, OutcomeFromLatestAttempt,
         \A j \in Job : status'[j] \in Outcome => status'[j] = status[j]
            /\ source_path'[j] = source_path[j],
         \A j \in Job : status'[j] \in Outcome => worker_id'[j] = worker_id[j],
         UNCHANGED <<author, latest, tokenJob, tokenWorker, report>>,
            derivatives \subseteq derivatives'
  PROVE  OutcomeFromLatestAttempt'
  BY DEF OutcomeFromLatestAttempt, Issued, Outcome

(* One step keeps every outcome the word of the newest attempt.            *)
LEMMA OutcomeStep ==
  ASSUME TypeOK, Owned, Bound, OutcomeFromLatestAttempt, [Next]_vars
  PROVE  OutcomeFromLatestAttempt'
  <1>1. ASSUME NEW w \in Worker, Claim(w) PROVE OutcomeFromLatestAttempt'
    <2>1. PICK j \in Job, t \in Token :
            /\ status[j] = "waiting" /\ tokenJob[t] = None
            /\ status' = [status EXCEPT ![j] = "active"]
            /\ worker_id' = [worker_id EXCEPT ![j] = w]
            /\ tokenJob' = [tokenJob EXCEPT ![t] = j]
            /\ tokenWorker' = [tokenWorker EXCEPT ![t] = w]
            /\ latest' = [latest EXCEPT ![j] = t]
            /\ \/ run' = [run EXCEPT ![w] = t] /\ named' = [named EXCEPT ![w] = t]
               \/ UNCHANGED <<run, named>>
      BY <1>1 DEF Claim
    <2>2. UNCHANGED <<report, author, source_path, derivatives>>
      BY <1>1 DEF Claim
    <2> QED
      BY <2>1, <2>2, NoneAssumption DEF OutcomeFromLatestAttempt, Issued, Outcome, TypeOK
  <1>2. ASSUME NEW w \in Worker, FileReport(w) PROVE OutcomeFromLatestAttempt'
    <2>1. UNCHANGED <<status, worker_id, source_path, author, latest, tokenJob, tokenWorker,
          derivatives>>
      BY <1>2 DEF FileReport, jobVars, history
    <2>2. \A t \in Token : report[t] # "none" => report'[t] = report[t]
      BY <1>2, NoneAssumption DEF FileReport, Bound, AgentBound, TypeOK
    <2> QED
      BY <2>1, <2>2 DEF OutcomeFromLatestAttempt, Issued, Outcome
  <1>3. ASSUME NEW w \in Worker, Unhandled(w) PROVE OutcomeFromLatestAttempt'
    BY <1>3, OutcomeFrame DEF Unhandled, jobVars, attemptVars, history
  <1>4. ASSUME NEW w \in Worker, Heartbeat(w) PROVE OutcomeFromLatestAttempt'
    BY <1>4, OutcomeFrame DEF Heartbeat, jobVars, attemptVars, history
  <1>5. ASSUME NEW w \in Worker, Crash(w) PROVE OutcomeFromLatestAttempt'
    BY <1>5, OutcomeFrame DEF Crash, jobVars, attemptVars, history
  <1>6. ASSUME NEW w \in Worker, Stop(w) PROVE OutcomeFromLatestAttempt'
    BY <1>6, OutcomeFrame DEF Stop, jobVars, attemptVars, history
  <1>7. ASSUME NEW w \in Worker, MarkDead(w) PROVE OutcomeFromLatestAttempt'
    BY <1>7, OutcomeFrame DEF MarkDead, jobVars, attemptVars, history
  <1>8. ASSUME NEW h \in Handler, Release(h) PROVE OutcomeFromLatestAttempt'
    BY <1>8, OutcomeFrame DEF Release, Requeue, attemptVars, history, Outcome
  <1>9. ASSUME NEW h \in Handler, CommitReport(h) PROVE OutcomeFromLatestAttempt'
    <2> DEFINE t == req[h].arg
               j == tokenJob[t]
    <2>1. UNCHANGED <<worker_id, latest, tokenJob, tokenWorker, report, source_path, derivatives>>
      BY <1>9 DEF CommitReport, attemptVars
    <2>2. t \in Token /\ j \in Job /\ tokenWorker[t] \in Worker /\ report[t] \in Outcome
      BY <1>9 DEF CommitReport, Advance, Bound, RequestBound, AttemptBound, WorkerKinds, TypeOK
    <2>3. CASE AttemptFence(t) /\ status[j] \in Live
      <3>1. worker_id[j] = tokenWorker[t] /\ (worker_id[j] \notin Legacy => t = latest[j])
        BY <2>2, <2>3, NoneAssumption, OwnerStatus DEF AttemptFence
      <3>2. status' = [status EXCEPT ![j] = report[t]] /\ author' = [author EXCEPT ![j] = t]
        BY <1>9, <2>3 DEF CommitReport
      <3>3. /\ status'[j] = report[t] /\ author'[j] = t
            /\ \A i \in Job \ {j} : status'[i] = status[i] /\ author'[i] = author[i]
        BY <2>2, <3>2 DEF TypeOK
      <3>4. tokenJob[t] = j
        OBVIOUS
      <3> HIDE DEF t, j
      <3> QED
        BY <2>1, <2>2, <3>1, <3>3, <3>4 DEF OutcomeFromLatestAttempt, Issued
    <2>4. CASE ~(AttemptFence(t) /\ status[j] \in Live)
      BY <1>9, <2>1, <2>4, OutcomeFrame DEF CommitReport
    <2> QED
      BY <2>3, <2>4
  <1>10. ASSUME NEW h \in Handler, CommitProgress(h) PROVE OutcomeFromLatestAttempt'
    BY <1>10, OutcomeFrame DEF CommitProgress, jobVars, attemptVars, history
  <1>11. ASSUME NEW h \in Handler, CommitDedup(h) PROVE OutcomeFromLatestAttempt'
    <2> DEFINE t == req[h].arg
               j == tokenJob[t]
    <2>1. UNCHANGED <<worker_id, latest, tokenJob, tokenWorker, report, source_path, derivatives>>
      BY <1>11 DEF CommitDedup, attemptVars
    <2>2. t \in Token /\ j \in Job /\ tokenWorker[t] \in Worker /\ source_path[j] \in derivatives
      BY <1>11 DEF CommitDedup, Advance, Bound, RequestBound, AttemptBound, WorkerKinds, TypeOK
    <2>3. CASE AttemptFence(t) /\ status[j] \in Live
      <3>1. worker_id[j] = tokenWorker[t] /\ (worker_id[j] \notin Legacy => t = latest[j])
        BY <2>2, <2>3, NoneAssumption, OwnerStatus DEF AttemptFence
      <3>2. status' = [status EXCEPT ![j] = "complete"] /\ author' = [author EXCEPT ![j] = t]
        BY <1>11, <2>3 DEF CommitDedup
      <3>3. /\ status'[j] = "complete" /\ author'[j] = t
            /\ \A i \in Job \ {j} : status'[i] = status[i] /\ author'[i] = author[i]
        BY <2>2, <3>2 DEF TypeOK
      <3>4. tokenJob[t] = j
        OBVIOUS
      <3> HIDE DEF t, j
      <3> QED
        BY <2>1, <2>2, <3>1, <3>3, <3>4 DEF OutcomeFromLatestAttempt, Issued
    <2>4. CASE ~(AttemptFence(t) /\ status[j] \in Live)
      BY <1>11, <2>1, <2>4, OutcomeFrame DEF CommitDedup
    <2> QED
      BY <2>3, <2>4
  <1>12. ASSUME NEW h \in Handler, QueuePaths(h) PROVE OutcomeFromLatestAttempt'
    BY <1>12, OutcomeFrame DEF QueuePaths, jobVars, attemptVars, history
  <1>13. ASSUME NEW h \in Handler, QueueCommit(h) PROVE OutcomeFromLatestAttempt'
    BY <1>13, OutcomeFrame DEF QueueCommit, attemptVars, history, Outcome, TypeOK
  <1>14. ASSUME NEW h \in Handler, RetryJob(h) PROVE OutcomeFromLatestAttempt'
    BY <1>14, OutcomeFrame DEF RetryJob, Requeue, attemptVars, history, Outcome
  <1>15. ASSUME NEW h \in Handler, RetryMedia(h) PROVE OutcomeFromLatestAttempt'
    BY <1>15, OutcomeFrame DEF RetryMedia, jobVars, attemptVars, history
  <1>16. ASSUME NEW h \in Handler, CancelMedia(h) PROVE OutcomeFromLatestAttempt'
    BY <1>16, OutcomeFrame DEF CancelMedia, jobVars, attemptVars, history
  <1>17. ASSUME NEW h \in Handler, CancelJobs(h) PROVE OutcomeFromLatestAttempt'
    BY <1>17, OutcomeFrame DEF CancelJobs, attemptVars, history, Outcome, TypeOK
  <1>18. ASSUME NEW h \in Handler, NEW w \in Worker, Register(h,
         w) PROVE OutcomeFromLatestAttempt'
    BY <1>18, OutcomeFrame DEF Register, jobVars, attemptVars, history
  <1>19. ASSUME NEW h \in Handler, NEW w \in Worker, CheckDerivative(h,
         w) PROVE OutcomeFromLatestAttempt'
    BY <1>19, OutcomeFrame DEF CheckDerivative, jobVars, attemptVars, history
  <1>20. ASSUME NEW h \in Handler, NEW t \in Token, ReceiveReport(h,
         t) PROVE OutcomeFromLatestAttempt'
    BY <1>20, OutcomeFrame DEF ReceiveReport, jobVars, attemptVars, history
  <1>21. ASSUME NEW h \in Handler, NEW t \in Token, ReceiveProgress(h,
         t) PROVE OutcomeFromLatestAttempt'
    BY <1>21, OutcomeFrame DEF ReceiveProgress, jobVars, attemptVars, history
  <1>22. ASSUME NEW h \in Handler, NEW f \in File, NEW d \in BOOLEAN, QueueFile(h, f,
         d) PROVE OutcomeFromLatestAttempt'
    BY <1>22, OutcomeFrame DEF QueueFile, jobVars, attemptVars, history
  <1>23. ASSUME NEW h \in Handler, NEW j \in Job, Retry(h, j) PROVE OutcomeFromLatestAttempt'
    BY <1>23, OutcomeFrame DEF Retry, jobVars, attemptVars, history
  <1>24. ASSUME NEW h \in Handler, NEW j \in Job, Cancel(h, j) PROVE OutcomeFromLatestAttempt'
    BY <1>24, OutcomeFrame DEF Cancel, attemptVars, history, Outcome, TypeOK
  <1>25. ASSUME NEW h \in Handler, CancelAll(h) PROVE OutcomeFromLatestAttempt'
    BY <1>25, OutcomeFrame DEF CancelAll, jobVars, attemptVars, history
  <1>26. ASSUME NEW t \in Token, RegisterDerivative(t) PROVE OutcomeFromLatestAttempt'
    BY <1>26, OutcomeFrame DEF RegisterDerivative, jobVars, attemptVars, history
  <1>27. ASSUME NEW j \in Job, JobIdles(j) PROVE OutcomeFromLatestAttempt'
    BY <1>27, OutcomeFrame DEF JobIdles, jobVars, attemptVars, history
  <1>28. ASSUME NEW jobs \in SUBSET Job, Sweep(jobs) PROVE OutcomeFromLatestAttempt'
    BY <1>28, OutcomeFrame DEF Sweep, Requeue, attemptVars, history, Outcome
  <1>29. ASSUME NEW st \in SUBSET Status, DeleteJobs(st) PROVE OutcomeFromLatestAttempt'
    BY <1>29, OutcomeFrame DEF DeleteJobs, attemptVars, history, Outcome, TypeOK
  <1>30. ASSUME NEW f \in File, NEW s \in {"skipped", "needs_transcode"}, MarkFile(f,
         s) PROVE OutcomeFromLatestAttempt'
    BY <1>30, OutcomeFrame DEF MarkFile, jobVars, attemptVars, history
  <1>31. CASE UNCHANGED vars
    BY <1>31 DEF vars, OutcomeFromLatestAttempt, Issued, jobVars, mediaVars, rowVars, procVars,
       attemptVars, history, counters
  <1>32. Orphans \in SUBSET Job /\ Abandoned \in SUBSET Job
    BY DEF Orphans, Abandoned
  <1>33. Row \in SUBSET Status /\ {"complete", "cancelled"} \in SUBSET Status
    BY DEF Row, Status, Live, Terminal, Outcome
  <1> QED
    BY <1>1, <1>2, <1>3, <1>4, <1>5, <1>6, <1>7, <1>8, <1>9, <1>10, <1>11, <1>12, <1>13, <1>14,
       <1>15, <1>16, <1>17,
       <1>18, <1>19, <1>20, <1>21, <1>22, <1>23, <1>24, <1>25, <1>26, <1>27, <1>28, <1>29,
          <1>30, <1>31, <1>32, <1>33
    DEF Next, AgentStep, HandlerStep, Arrival, SweepOrphans, SweepAbandoned, ClearCompleted,
       ResetAll

(* The empty table satisfies the invariant.                                *)
LEMMA FenceInit == Init => FenceInv
  <1> SUFFICES ASSUME Init PROVE FenceInv
    OBVIOUS
  <1>1. TypeOK
    BY FreeType, SubsetAssumption DEF Init, TypeOK, Status, Row, Live, Terminal, Outcome
  <1>2. Owned /\ OutcomeFromLatestAttempt
    BY DEF Init, Owned, OutcomeFromLatestAttempt, Outcome
  <1>3. \A h \in Handler : RequestBound(req[h])
    BY DEF Init, RequestBound, Free, Ask, WorkerKinds
  <1>4. AgentBound /\ AttemptBound
    BY DEF Init, AgentBound, AttemptBound
  <1> QED
    BY <1>1, <1>2, <1>3, <1>4 DEF FenceInv, Bound

(* finalize_job, report_progress, claim_next_job and every writer of the   *)
(* table: the types, the ownership columns, what requests are about and    *)
(* the authorship of outcomes, in every reachable state.                   *)
THEOREM FenceHolds == Spec => []FenceInv
  <1>1. FenceInv /\ [Next]_vars => FenceInv'
    BY TypeStep, OwnedStep, RequestStep, AgentBoundStep, AttemptBoundStep,
       OutcomeStep DEF FenceInv, Bound
  <1> QED
    BY FenceInit, <1>1, PTL DEF Spec

(* An outcome on record is the newest attempt's: a report that comes late, *)
(* twice, or from an attempt that was swept away, never stands.            *)
THEOREM OutcomesStand == Spec => []OutcomeFromLatestAttempt
  <1>1. FenceInv => OutcomeFromLatestAttempt
    BY DEF FenceInv
  <1> QED
    BY FenceHolds, <1>1, PTL

(* One step restarts the sweeps' clock only for the owner's progress.      *)
LEMMA ProgressStep ==
  ASSUME TypeOK, Owned, Bound, [Next]_vars
  PROVE  OwnProgressOnly
  <1>1. ASSUME NEW w \in Worker, Claim(w) PROVE OwnProgressOnly
    BY <1>1 DEF Claim, OwnProgressOnly, TypeOK
  <1>2. ASSUME NEW w \in Worker, FileReport(w) PROVE OwnProgressOnly
    BY <1>2 DEF FileReport, OwnProgressOnly, jobVars
  <1>3. ASSUME NEW w \in Worker, Unhandled(w) PROVE OwnProgressOnly
    BY <1>3 DEF Unhandled, OwnProgressOnly, jobVars
  <1>4. ASSUME NEW w \in Worker, Heartbeat(w) PROVE OwnProgressOnly
    BY <1>4 DEF Heartbeat, Name, OwnProgressOnly, TypeOK
  <1>5. ASSUME NEW w \in Worker, Crash(w) PROVE OwnProgressOnly
    BY <1>5 DEF Crash, OwnProgressOnly, jobVars
  <1>6. ASSUME NEW w \in Worker, Stop(w) PROVE OwnProgressOnly
    BY <1>6 DEF Stop, Name, OwnProgressOnly, TypeOK
  <1>7. ASSUME NEW w \in Worker, MarkDead(w) PROVE OwnProgressOnly
    BY <1>7 DEF MarkDead, OwnProgressOnly, jobVars
  <1>8. ASSUME NEW h \in Handler, Release(h) PROVE OwnProgressOnly
    BY <1>8 DEF Release, Requeue, OwnProgressOnly
  <1>9. ASSUME NEW h \in Handler, CommitReport(h) PROVE OwnProgressOnly
    <2>1. tokenJob[req[h].arg] \in Job /\ report[req[h].arg] \in Outcome
      BY <1>9 DEF CommitReport, Advance, Bound, RequestBound, WorkerKinds, TypeOK
    <2>2. \A i \in Job : idle'[i] = idle[i] \/ status'[i] \in Outcome
      BY <1>9, <2>1 DEF CommitReport, TypeOK, Outcome
    <2> QED
      BY <2>2 DEF OwnProgressOnly, Outcome
  <1>10. ASSUME NEW h \in Handler, CommitProgress(h) PROVE OwnProgressOnly
    <2> DEFINE t == req[h].arg
               j == tokenJob[t]
    <2>1. req[h].kind = "progress" /\ t \in Token /\ j \in Job
      BY <1>10 DEF CommitProgress, Advance, Bound, RequestBound, WorkerKinds, TypeOK
    <2>2. CASE AttemptFence(t) /\ status[j] = "active"
      <3>1. \A i \in Job \ {j} : idle'[i] = idle[i]
        BY <1>10, <2>1, <2>2 DEF CommitProgress, TypeOK
      <3>2. worker_id[j] = tokenWorker[t] /\ (worker_id[j] \in Legacy \/ t = latest[j])
        BY <2>1, <2>2 DEF AttemptFence, Owned, TypeOK
      <3> QED
        BY <2>1, <3>1, <3>2 DEF OwnProgressOnly
    <2>3. CASE ~(AttemptFence(t) /\ status[j] = "active")
      BY <1>10, <2>3 DEF CommitProgress, OwnProgressOnly
    <2> QED
      BY <2>2, <2>3
  <1>11. ASSUME NEW h \in Handler, CommitDedup(h) PROVE OwnProgressOnly
    <2>1. tokenJob[req[h].arg] \in Job
      BY <1>11 DEF CommitDedup, Advance, Bound, RequestBound, WorkerKinds, TypeOK
    <2>2. \A i \in Job : idle'[i] = idle[i] \/ status'[i] \in Outcome
      BY <1>11, <2>1 DEF CommitDedup, TypeOK, Outcome
    <2> QED
      BY <2>2 DEF OwnProgressOnly, Outcome
  <1>12. ASSUME NEW h \in Handler, QueuePaths(h) PROVE OwnProgressOnly
    BY <1>12 DEF QueuePaths, OwnProgressOnly, jobVars
  <1>13. ASSUME NEW h \in Handler, QueueCommit(h) PROVE OwnProgressOnly
    BY <1>13 DEF QueueCommit, OwnProgressOnly, jobVars
  <1>14. ASSUME NEW h \in Handler, RetryJob(h) PROVE OwnProgressOnly
    BY <1>14 DEF RetryJob, Requeue, OwnProgressOnly
  <1>15. ASSUME NEW h \in Handler, RetryMedia(h) PROVE OwnProgressOnly
    BY <1>15 DEF RetryMedia, OwnProgressOnly, jobVars
  <1>16. ASSUME NEW h \in Handler, CancelMedia(h) PROVE OwnProgressOnly
    BY <1>16 DEF CancelMedia, OwnProgressOnly, jobVars
  <1>17. ASSUME NEW h \in Handler, CancelJobs(h) PROVE OwnProgressOnly
    BY <1>17 DEF CancelJobs, OwnProgressOnly, jobVars
  <1>18. ASSUME NEW h \in Handler, NEW w \in Worker, Register(h, w) PROVE OwnProgressOnly
    BY <1>18 DEF Register, OwnProgressOnly, jobVars
  <1>19. ASSUME NEW h \in Handler, NEW w \in Worker, CheckDerivative(h, w) PROVE OwnProgressOnly
    BY <1>19 DEF CheckDerivative, OwnProgressOnly, jobVars
  <1>20. ASSUME NEW h \in Handler, NEW t \in Token, ReceiveReport(h, t) PROVE OwnProgressOnly
    BY <1>20 DEF ReceiveReport, OwnProgressOnly, jobVars
  <1>21. ASSUME NEW h \in Handler, NEW t \in Token, ReceiveProgress(h, t) PROVE OwnProgressOnly
    BY <1>21 DEF ReceiveProgress, OwnProgressOnly, jobVars
  <1>22. ASSUME NEW h \in Handler, NEW f \in File, NEW d \in BOOLEAN, QueueFile(h, f,
         d) PROVE OwnProgressOnly
    BY <1>22 DEF QueueFile, OwnProgressOnly, jobVars
  <1>23. ASSUME NEW h \in Handler, NEW j \in Job, Retry(h, j) PROVE OwnProgressOnly
    BY <1>23 DEF Retry, OwnProgressOnly, jobVars
  <1>24. ASSUME NEW h \in Handler, NEW j \in Job, Cancel(h, j) PROVE OwnProgressOnly
    BY <1>24 DEF Cancel, OwnProgressOnly, jobVars
  <1>25. ASSUME NEW h \in Handler, CancelAll(h) PROVE OwnProgressOnly
    BY <1>25 DEF CancelAll, OwnProgressOnly, jobVars
  <1>26. ASSUME NEW t \in Token, RegisterDerivative(t) PROVE OwnProgressOnly
    BY <1>26 DEF RegisterDerivative, OwnProgressOnly, jobVars
  <1>27. ASSUME NEW j \in Job, JobIdles(j) PROVE OwnProgressOnly
    BY <1>27 DEF JobIdles, OwnProgressOnly, TypeOK
  <1>28. ASSUME NEW jobs \in SUBSET Job, Sweep(jobs) PROVE OwnProgressOnly
    BY <1>28 DEF Sweep, Requeue, OwnProgressOnly
  <1>29. ASSUME NEW st \in SUBSET Status, DeleteJobs(st) PROVE OwnProgressOnly
    BY <1>29 DEF DeleteJobs, OwnProgressOnly, TypeOK
  <1>30. ASSUME NEW f \in File, NEW s \in {"skipped", "needs_transcode"}, MarkFile(f,
         s) PROVE OwnProgressOnly
    BY <1>30 DEF MarkFile, OwnProgressOnly, jobVars
  <1>31. CASE UNCHANGED vars
    BY <1>31 DEF vars, OwnProgressOnly, jobVars, mediaVars, rowVars, procVars, attemptVars,
       history, counters
  <1>32. Orphans \in SUBSET Job /\ Abandoned \in SUBSET Job
    BY DEF Orphans, Abandoned
  <1>33. Row \in SUBSET Status /\ {"complete", "cancelled"} \in SUBSET Status
    BY DEF Row, Status, Live, Terminal, Outcome
  <1> QED
    BY <1>1, <1>2, <1>3, <1>4, <1>5, <1>6, <1>7, <1>8, <1>9, <1>10, <1>11, <1>12, <1>13, <1>14,
       <1>15, <1>16, <1>17,
       <1>18, <1>19, <1>20, <1>21, <1>22, <1>23, <1>24, <1>25, <1>26, <1>27, <1>28, <1>29,
          <1>30, <1>31, <1>32, <1>33
    DEF Next, AgentStep, HandlerStep, Arrival, SweepOrphans, SweepAbandoned, ClearCompleted,
       ResetAll

(* report_progress: in every reachable state, whoever posts progress for   *)
(* an attempt that no longer owns the job leaves updated_at alone, so the  *)
(* sweeps still find the job.                                              *)
THEOREM StaleProgressRefused == Spec => ProgressFenced
  <1>1. FenceInv /\ [Next]_vars => [OwnProgressOnly]_vars
    BY ProgressStep DEF FenceInv
  <1> QED
    BY FenceHolds, <1>1, PTL DEF Spec, ProgressFenced

(* A sweep only requeues jobs that are active.                             *)
LEMMA SweptActive ==
  ASSUME TypeOK, NEW jobs, jobs = Orphans \/ jobs = Abandoned
  PROVE  jobs \subseteq {j \in Job : status[j] = "active"}
  BY DEF Orphans, Abandoned

(* What a job's status may become, and who changes it: the table of the    *)
(* queue's transitions.                                                    *)
Moves(j) ==
  \/ status'[j] = status[j]
  \/ status[j] = "waiting" /\ status'[j] = "active"
  \/ status[j] \in Live /\ status'[j] \in Outcome
  \/ /\ status[j] = "active" /\ status'[j] = "waiting"
     /\ \/ \E h \in Handler : Release(h) /\ worker_id[j] = req[h].arg
        \/ j \in Orphans /\ SweepOrphans
        \/ j \in Abandoned /\ SweepAbandoned
  \/ /\ status[j] = "unborn" /\ status'[j] = "waiting"
     /\ \E h \in Handler : req[h].kind = "queue_commit" /\ source_path'[j] = req[h].arg
  \/ /\ status[j] # "deleted" /\ status'[j] = "waiting"
     /\ \E h \in Handler : req[h].kind = "retry_job" /\ req[h].arg = j
  \/ status[j] = "waiting" /\ status'[j] = "cancelled"
  \/ status[j] \in Row /\ status'[j] = "deleted"

(* Every step of the system moves a job along that table.                  *)
LEMMA StatusMoves ==
  ASSUME TypeOK, Bound, [Next]_vars, NEW j \in Job
  PROVE  Moves(j)
  <1>1. ASSUME NEW w \in Worker, Claim(w)
        PROVE  Moves(j)
    BY <1>1 DEF Claim, Moves, TypeOK
  <1>2. ASSUME NEW w \in Worker, FileReport(w)
        PROVE  Moves(j)
    BY <1>2 DEF FileReport, jobVars, Moves
  <1>3. ASSUME NEW w \in Worker, Unhandled(w)
        PROVE  Moves(j)
    BY <1>3 DEF Unhandled, jobVars, Moves
  <1>4. ASSUME NEW w \in Worker, Heartbeat(w)
        PROVE  Moves(j)
    BY <1>4 DEF Heartbeat, jobVars, Moves
  <1>5. ASSUME NEW w \in Worker, Crash(w)
        PROVE  Moves(j)
    BY <1>5 DEF Crash, jobVars, Moves
  <1>6. ASSUME NEW w \in Worker, Stop(w)
        PROVE  Moves(j)
    BY <1>6 DEF Stop, jobVars, Moves
  <1>7. ASSUME NEW w \in Worker, MarkDead(w)
        PROVE  Moves(j)
    BY <1>7 DEF MarkDead, jobVars, Moves
  <1>8. ASSUME NEW h \in Handler, Release(h)
        PROVE  Moves(j)
    BY <1>8 DEF Release, Requeue, Moves, TypeOK
  <1>9. ASSUME NEW h \in Handler, CommitReport(h)
        PROVE  Moves(j)
    <2>1. req[h].kind = "report"
      BY <1>9 DEF CommitReport, Advance
    <2>2. tokenJob[req[h].arg] \in Job /\ (req[h].kind = "report" => report[req[h].arg] \in Outcome)
      BY <2>1 DEF TypeOK, Bound, RequestBound, WorkerKinds
    <2> QED
      BY <1>9, <2>1, <2>2 DEF CommitReport, Advance, Moves, TypeOK, Outcome
  <1>10. ASSUME NEW h \in Handler, CommitProgress(h)
        PROVE  Moves(j)
    BY <1>10 DEF CommitProgress, jobVars, Moves
  <1>11. ASSUME NEW h \in Handler, CommitDedup(h)
        PROVE  Moves(j)
    <2>1. req[h].kind = "dedup"
      BY <1>11 DEF CommitDedup, Advance
    <2>2. tokenJob[req[h].arg] \in Job /\ (req[h].kind = "report" => report[req[h].arg] \in Outcome)
      BY <2>1 DEF TypeOK, Bound, RequestBound, WorkerKinds
    <2> QED
      BY <1>11, <2>1, <2>2 DEF CommitDedup, Advance, Moves, TypeOK, Outcome
  <1>12. ASSUME NEW h \in Handler, QueuePaths(h)
        PROVE  Moves(j)
    BY <1>12 DEF QueuePaths, jobVars, Moves
  <1>13. ASSUME NEW h \in Handler, QueueCommit(h)
        PROVE  Moves(j)
    BY <1>13 DEF QueueCommit, Advance, Moves, TypeOK, jobVars
  <1>14. ASSUME NEW h \in Handler, RetryJob(h)
        PROVE  Moves(j)
    BY <1>14 DEF RetryJob, Requeue, Advance, Moves, TypeOK
  <1>15. ASSUME NEW h \in Handler, RetryMedia(h)
        PROVE  Moves(j)
    BY <1>15 DEF RetryMedia, jobVars, Moves
  <1>16. ASSUME NEW h \in Handler, CancelMedia(h)
        PROVE  Moves(j)
    BY <1>16 DEF CancelMedia, jobVars, Moves
  <1>17. ASSUME NEW h \in Handler, CancelJobs(h)
        PROVE  Moves(j)
    BY <1>17 DEF CancelJobs, Moves, TypeOK
  <1>18. ASSUME NEW h \in Handler, NEW w \in Worker, Register(h, w)
        PROVE  Moves(j)
    BY <1>18 DEF Register, jobVars, Moves
  <1>19. ASSUME NEW h \in Handler, NEW w \in Worker, CheckDerivative(h, w)
        PROVE  Moves(j)
    BY <1>19 DEF CheckDerivative, jobVars, Moves
  <1>20. ASSUME NEW h \in Handler, NEW t \in Token, ReceiveReport(h, t)
        PROVE  Moves(j)
    BY <1>20 DEF ReceiveReport, jobVars, Moves
  <1>21. ASSUME NEW h \in Handler, NEW t \in Token, ReceiveProgress(h, t)
        PROVE  Moves(j)
    BY <1>21 DEF ReceiveProgress, jobVars, Moves
  <1>22. ASSUME NEW h \in Handler, NEW f \in File, NEW d \in BOOLEAN, QueueFile(h, f, d)
        PROVE  Moves(j)
    BY <1>22 DEF QueueFile, jobVars, Moves
  <1>23. ASSUME NEW h \in Handler, NEW i \in Job, Retry(h, i)
        PROVE  Moves(j)
    BY <1>23 DEF Retry, jobVars, Moves
  <1>24. ASSUME NEW h \in Handler, NEW i \in Job, Cancel(h, i)
        PROVE  Moves(j)
    BY <1>24 DEF Cancel, Moves, TypeOK
  <1>25. ASSUME NEW h \in Handler, CancelAll(h)
        PROVE  Moves(j)
    BY <1>25 DEF CancelAll, jobVars, Moves
  <1>26. ASSUME NEW t \in Token, RegisterDerivative(t)
        PROVE  Moves(j)
    BY <1>26 DEF RegisterDerivative, jobVars, Moves
  <1>27. ASSUME NEW i \in Job, JobIdles(i)
        PROVE  Moves(j)
    BY <1>27 DEF JobIdles, jobVars, Moves
  <1>28. CASE Sweep(Orphans)
    BY <1>28, SweptActive DEF Sweep, SweepOrphans, Requeue, Moves, TypeOK
  <1>29. CASE Sweep(Abandoned)
    BY <1>29, SweptActive DEF Sweep, SweepAbandoned, Requeue, Moves, TypeOK
  <1>30. ASSUME NEW st \in SUBSET Row, DeleteJobs(st)
        PROVE  Moves(j)
    BY <1>30 DEF DeleteJobs, Moves, TypeOK
  <1>31. ASSUME NEW f \in File, NEW s \in {"skipped", "needs_transcode"}, MarkFile(f, s)
        PROVE  Moves(j)
    BY <1>31 DEF MarkFile, jobVars, Moves
  <1>32. CASE UNCHANGED vars
    BY <1>32 DEF vars, jobVars, Moves
  <1>33. Row \in SUBSET Row /\ {"complete", "cancelled"} \in SUBSET Row
    BY DEF Row, Terminal, Outcome
  <1> QED
    BY <1>1, <1>2, <1>3, <1>4, <1>5, <1>6, <1>7, <1>8, <1>9, <1>10, <1>11, <1>12, <1>13, <1>14,
       <1>15, <1>16, <1>17, <1>18, <1>19, <1>20, <1>21, <1>22, <1>23, <1>24, <1>25, <1>26,
       <1>27, <1>28, <1>29, <1>30, <1>31, <1>32, <1>33
    DEF Next, AgentStep, HandlerStep, Arrival, SweepOrphans, SweepAbandoned, ClearCompleted,
        ResetAll

(* A request that nobody may interleave with is alone: the next step is    *)
(* its own.                                                                *)
LEMMA Alone ==
  ASSUME NEW g \in Handler, NEW h, h # g, Quiet(h)
  PROVE  req[g].kind \notin AdminKinds \ Interleaved
  BY DEF Quiet, AdminKinds, WorkerKinds

(* The same for a step outside the handlers.                               *)
LEMMA NotAlone ==
  ASSUME NEW g \in Handler, Background
  PROVE  req[g].kind \notin AdminKinds \ Interleaved
  BY NoneAssumption, Alone DEF Background

(* ... so as long as it lasts, every step is one of its statements.        *)
LEMMA Held ==
  ASSUME [Next]_vars, NEW h \in Handler, req[h].kind \in AdminKinds \ Interleaved
  PROVE  HandlerStep(h) \/ UNCHANGED vars
  <1>1. ASSUME NEW w \in Worker, Claim(w)
        PROVE  HandlerStep(h) \/ UNCHANGED vars
    BY <1>1, NotAlone DEF Claim
  <1>2. ASSUME NEW w \in Worker, FileReport(w)
        PROVE  HandlerStep(h) \/ UNCHANGED vars
    BY <1>2, NotAlone DEF FileReport
  <1>3. ASSUME NEW w \in Worker, Unhandled(w)
        PROVE  HandlerStep(h) \/ UNCHANGED vars
    BY <1>3, NotAlone DEF Unhandled
  <1>4. ASSUME NEW w \in Worker, Heartbeat(w)
        PROVE  HandlerStep(h) \/ UNCHANGED vars
    BY <1>4, NotAlone DEF Heartbeat
  <1>5. ASSUME NEW w \in Worker, Crash(w)
        PROVE  HandlerStep(h) \/ UNCHANGED vars
    BY <1>5, NotAlone DEF Crash
  <1>6. ASSUME NEW w \in Worker, Stop(w)
        PROVE  HandlerStep(h) \/ UNCHANGED vars
    BY <1>6, NotAlone DEF Stop
  <1>7. ASSUME NEW w \in Worker, MarkDead(w)
        PROVE  HandlerStep(h) \/ UNCHANGED vars
    BY <1>7, NotAlone DEF MarkDead
  <1>8. ASSUME NEW g \in Handler, Release(g)
        PROVE  HandlerStep(h) \/ UNCHANGED vars
    BY <1>8, Alone DEF Release, Advance, HandlerStep
  <1>9. ASSUME NEW g \in Handler, CommitReport(g)
        PROVE  HandlerStep(h) \/ UNCHANGED vars
    BY <1>9, Alone DEF CommitReport, Advance, HandlerStep
  <1>10. ASSUME NEW g \in Handler, CommitProgress(g)
        PROVE  HandlerStep(h) \/ UNCHANGED vars
    BY <1>10, Alone DEF CommitProgress, Advance, HandlerStep
  <1>11. ASSUME NEW g \in Handler, CommitDedup(g)
        PROVE  HandlerStep(h) \/ UNCHANGED vars
    BY <1>11, Alone DEF CommitDedup, Advance, HandlerStep
  <1>12. ASSUME NEW g \in Handler, QueuePaths(g)
        PROVE  HandlerStep(h) \/ UNCHANGED vars
    BY <1>12, Alone DEF QueuePaths, Advance, HandlerStep
  <1>13. ASSUME NEW g \in Handler, QueueCommit(g)
        PROVE  HandlerStep(h) \/ UNCHANGED vars
    BY <1>13, Alone DEF QueueCommit, Advance, HandlerStep
  <1>14. ASSUME NEW g \in Handler, RetryJob(g)
        PROVE  HandlerStep(h) \/ UNCHANGED vars
    BY <1>14, Alone DEF RetryJob, Advance, HandlerStep
  <1>15. ASSUME NEW g \in Handler, RetryMedia(g)
        PROVE  HandlerStep(h) \/ UNCHANGED vars
    BY <1>15, Alone DEF RetryMedia, Advance, HandlerStep
  <1>16. ASSUME NEW g \in Handler, CancelMedia(g)
        PROVE  HandlerStep(h) \/ UNCHANGED vars
    BY <1>16, Alone DEF CancelMedia, Advance, HandlerStep
  <1>17. ASSUME NEW g \in Handler, CancelJobs(g)
        PROVE  HandlerStep(h) \/ UNCHANGED vars
    BY <1>17, Alone DEF CancelJobs, Advance, HandlerStep
  <1>18. ASSUME NEW g \in Handler, NEW w \in Worker, Register(g, w)
        PROVE  HandlerStep(h) \/ UNCHANGED vars
    BY <1>18, Alone DEF Register, Enter, Free, Ask, AdminKinds
  <1>19. ASSUME NEW g \in Handler, NEW w \in Worker, CheckDerivative(g, w)
        PROVE  HandlerStep(h) \/ UNCHANGED vars
    BY <1>19, Alone DEF CheckDerivative, Enter, Free, Ask, AdminKinds
  <1>20. ASSUME NEW g \in Handler, NEW t \in Token, ReceiveReport(g, t)
        PROVE  HandlerStep(h) \/ UNCHANGED vars
    BY <1>20, Alone DEF ReceiveReport, Enter, Free, Ask, AdminKinds
  <1>21. ASSUME NEW g \in Handler, NEW t \in Token, ReceiveProgress(g, t)
        PROVE  HandlerStep(h) \/ UNCHANGED vars
    BY <1>21, Alone DEF ReceiveProgress, Enter, Free, Ask, AdminKinds
  <1>22. ASSUME NEW g \in Handler, NEW f \in File, NEW d \in BOOLEAN, QueueFile(g, f, d)
        PROVE  HandlerStep(h) \/ UNCHANGED vars
    BY <1>22, Alone DEF QueueFile, Enter, Free, Ask, AdminKinds
  <1>23. ASSUME NEW g \in Handler, NEW j \in Job, Retry(g, j)
        PROVE  HandlerStep(h) \/ UNCHANGED vars
    BY <1>23, Alone DEF Retry, Enter, Free, Ask, AdminKinds
  <1>24. ASSUME NEW g \in Handler, NEW j \in Job, Cancel(g, j)
        PROVE  HandlerStep(h) \/ UNCHANGED vars
    BY <1>24, Alone DEF Cancel, Enter, Free, Ask, AdminKinds
  <1>25. ASSUME NEW g \in Handler, CancelAll(g)
        PROVE  HandlerStep(h) \/ UNCHANGED vars
    BY <1>25, Alone DEF CancelAll, Enter, Free, Ask, AdminKinds
  <1>26. ASSUME NEW t \in Token, RegisterDerivative(t)
        PROVE  HandlerStep(h) \/ UNCHANGED vars
    BY <1>26, NotAlone DEF RegisterDerivative
  <1>27. ASSUME NEW j \in Job, JobIdles(j)
        PROVE  HandlerStep(h) \/ UNCHANGED vars
    BY <1>27, NotAlone DEF JobIdles
  <1>28. CASE Sweep(Orphans)
    BY <1>28, NotAlone DEF Sweep
  <1>29. CASE Sweep(Abandoned)
    BY <1>29, NotAlone DEF Sweep
  <1>30. ASSUME NEW st \in SUBSET Row, DeleteJobs(st)
        PROVE  HandlerStep(h) \/ UNCHANGED vars
    BY <1>30, NotAlone DEF DeleteJobs
  <1>31. ASSUME NEW f \in File, NEW s \in {"skipped", "needs_transcode"}, MarkFile(f, s)
        PROVE  HandlerStep(h) \/ UNCHANGED vars
    BY <1>31, NotAlone DEF MarkFile
  <1>32. CASE UNCHANGED vars
    BY <1>32
  <1>33. Row \in SUBSET Row /\ {"complete", "cancelled"} \in SUBSET Row
    BY DEF Row, Terminal, Outcome
  <1> QED
    BY <1>1, <1>2, <1>3, <1>4, <1>5, <1>6, <1>7, <1>8, <1>9, <1>10, <1>11, <1>12, <1>13, <1>14,
       <1>15, <1>16, <1>17, <1>18, <1>19, <1>20, <1>21, <1>22, <1>23, <1>24, <1>25, <1>26,
       <1>27, <1>28, <1>29, <1>30, <1>31, <1>32, <1>33
    DEF Next, AgentStep, HandlerStep, Arrival, SweepOrphans, SweepAbandoned, ClearCompleted,
        ResetAll

(* What a request under way becomes: it arrives, it ends, or it goes on to *)
(* the next of its statements.                                             *)
Goes(h) ==
  \/ Arrival(h) /\ req[h] = Free
  \/ HandlerStep(h) /\ req'[h] = Free
  \/ QueuePaths(h) /\ req[h].kind = "queue_paths" /\ ~ActivePath(req[h].arg)
     /\ req'[h] = Ask("queue_commit", req[h].arg)
  \/ RetryJob(h) /\ req[h].kind = "retry_job" /\ req'[h] = Ask("retry_media", req[h].arg)

(* Every step moves a request along that table.                            *)
LEMMA RequestMoves ==
  ASSUME TypeOK, [Next]_vars, NEW h \in Handler
  PROVE  req'[h] = req[h] \/ Goes(h)
  <1>1. ASSUME NEW w \in Worker, Claim(w)
        PROVE  req'[h] = req[h] \/ Goes(h)
    BY <1>1 DEF Claim, Background, Next
  <1>2. ASSUME NEW w \in Worker, FileReport(w)
        PROVE  req'[h] = req[h] \/ Goes(h)
    BY <1>2 DEF FileReport, Background, Next
  <1>3. ASSUME NEW w \in Worker, Unhandled(w)
        PROVE  req'[h] = req[h] \/ Goes(h)
    BY <1>3 DEF Unhandled, Background, Next
  <1>4. ASSUME NEW w \in Worker, Heartbeat(w)
        PROVE  req'[h] = req[h] \/ Goes(h)
    BY <1>4 DEF Heartbeat, Background, Next
  <1>5. ASSUME NEW w \in Worker, Crash(w)
        PROVE  req'[h] = req[h] \/ Goes(h)
    BY <1>5 DEF Crash, Background, Next
  <1>6. ASSUME NEW w \in Worker, Stop(w)
        PROVE  req'[h] = req[h] \/ Goes(h)
    BY <1>6 DEF Stop, Background, Next
  <1>7. ASSUME NEW w \in Worker, MarkDead(w)
        PROVE  req'[h] = req[h] \/ Goes(h)
    BY <1>7 DEF MarkDead, Background, Next
  <1>8. ASSUME NEW g \in Handler, Release(g)
        PROVE  req'[h] = req[h] \/ Goes(h)
    BY <1>8 DEF Release, Advance, HandlerStep, TypeOK, Goes
  <1>9. ASSUME NEW g \in Handler, CommitReport(g)
        PROVE  req'[h] = req[h] \/ Goes(h)
    BY <1>9 DEF CommitReport, Advance, HandlerStep, TypeOK, Goes
  <1>10. ASSUME NEW g \in Handler, CommitProgress(g)
        PROVE  req'[h] = req[h] \/ Goes(h)
    BY <1>10 DEF CommitProgress, Advance, HandlerStep, TypeOK, Goes
  <1>11. ASSUME NEW g \in Handler, CommitDedup(g)
        PROVE  req'[h] = req[h] \/ Goes(h)
    BY <1>11 DEF CommitDedup, Advance, HandlerStep, TypeOK, Goes
  <1>12. ASSUME NEW g \in Handler, QueuePaths(g)
        PROVE  req'[h] = req[h] \/ Goes(h)
    BY <1>12 DEF QueuePaths, Advance, HandlerStep, TypeOK, Goes
  <1>13. ASSUME NEW g \in Handler, QueueCommit(g)
        PROVE  req'[h] = req[h] \/ Goes(h)
    BY <1>13 DEF QueueCommit, Advance, HandlerStep, TypeOK, Goes
  <1>14. ASSUME NEW g \in Handler, RetryJob(g)
        PROVE  req'[h] = req[h] \/ Goes(h)
    BY <1>14 DEF RetryJob, Advance, HandlerStep, TypeOK, Goes
  <1>15. ASSUME NEW g \in Handler, RetryMedia(g)
        PROVE  req'[h] = req[h] \/ Goes(h)
    BY <1>15 DEF RetryMedia, Advance, HandlerStep, TypeOK, Goes
  <1>16. ASSUME NEW g \in Handler, CancelMedia(g)
        PROVE  req'[h] = req[h] \/ Goes(h)
    BY <1>16 DEF CancelMedia, Advance, HandlerStep, TypeOK, Goes
  <1>17. ASSUME NEW g \in Handler, CancelJobs(g)
        PROVE  req'[h] = req[h] \/ Goes(h)
    BY <1>17 DEF CancelJobs, Advance, HandlerStep, TypeOK, Goes
  <1>18. ASSUME NEW g \in Handler, NEW w \in Worker, Register(g, w)
        PROVE  req'[h] = req[h] \/ Goes(h)
    BY <1>18 DEF Register, Enter, TypeOK, Goes, Arrival
  <1>19. ASSUME NEW g \in Handler, NEW w \in Worker, CheckDerivative(g, w)
        PROVE  req'[h] = req[h] \/ Goes(h)
    BY <1>19 DEF CheckDerivative, Enter, TypeOK, Goes, Arrival
  <1>20. ASSUME NEW g \in Handler, NEW t \in Token, ReceiveReport(g, t)
        PROVE  req'[h] = req[h] \/ Goes(h)
    BY <1>20 DEF ReceiveReport, Enter, TypeOK, Goes, Arrival
  <1>21. ASSUME NEW g \in Handler, NEW t \in Token, ReceiveProgress(g, t)
        PROVE  req'[h] = req[h] \/ Goes(h)
    BY <1>21 DEF ReceiveProgress, Enter, TypeOK, Goes, Arrival
  <1>22. ASSUME NEW g \in Handler, NEW f \in File, NEW d \in BOOLEAN, QueueFile(g, f, d)
        PROVE  req'[h] = req[h] \/ Goes(h)
    BY <1>22 DEF QueueFile, Enter, TypeOK, Goes, Arrival
  <1>23. ASSUME NEW g \in Handler, NEW j \in Job, Retry(g, j)
        PROVE  req'[h] = req[h] \/ Goes(h)
    BY <1>23 DEF Retry, Enter, TypeOK, Goes, Arrival
  <1>24. ASSUME NEW g \in Handler, NEW j \in Job, Cancel(g, j)
        PROVE  req'[h] = req[h] \/ Goes(h)
    BY <1>24 DEF Cancel, Enter, TypeOK, Goes, Arrival
  <1>25. ASSUME NEW g \in Handler, CancelAll(g)
        PROVE  req'[h] = req[h] \/ Goes(h)
    BY <1>25 DEF CancelAll, Enter, TypeOK, Goes, Arrival
  <1>26. ASSUME NEW t \in Token, RegisterDerivative(t)
        PROVE  req'[h] = req[h] \/ Goes(h)
    BY <1>26 DEF RegisterDerivative, Background, Next
  <1>27. ASSUME NEW j \in Job, JobIdles(j)
        PROVE  req'[h] = req[h] \/ Goes(h)
    BY <1>27 DEF JobIdles, Background, Next
  <1>28. CASE Sweep(Orphans)
    BY <1>28 DEF Sweep, Background, Next
  <1>29. CASE Sweep(Abandoned)
    BY <1>29 DEF Sweep, Background, Next
  <1>30. ASSUME NEW st \in SUBSET Row, DeleteJobs(st)
        PROVE  req'[h] = req[h] \/ Goes(h)
    BY <1>30 DEF DeleteJobs, Background, Next
  <1>31. ASSUME NEW f \in File, NEW s \in {"skipped", "needs_transcode"}, MarkFile(f, s)
        PROVE  req'[h] = req[h] \/ Goes(h)
    BY <1>31 DEF MarkFile, Background, Next
  <1>32. CASE UNCHANGED vars
    BY <1>32 DEF vars
  <1>33. Row \in SUBSET Row /\ {"complete", "cancelled"} \in SUBSET Row
    BY DEF Row, Terminal, Outcome
  <1> QED
    BY <1>1, <1>2, <1>3, <1>4, <1>5, <1>6, <1>7, <1>8, <1>9, <1>10, <1>11, <1>12, <1>13, <1>14,
       <1>15, <1>16, <1>17, <1>18, <1>19, <1>20, <1>21, <1>22, <1>23, <1>24, <1>25, <1>26,
       <1>27, <1>28, <1>29, <1>30, <1>31, <1>32, <1>33
    DEF Next, AgentStep, HandlerStep, Arrival, SweepOrphans, SweepAbandoned, ClearCompleted,
        ResetAll

(* A job that exists stays in the table or is deleted.                     *)
LEMMA BornOnce ==
  ASSUME TypeOK, Bound, [Next]_vars, NEW j \in Job, status[j] # "unborn"
  PROVE  status'[j] # "unborn"
  BY StatusMoves DEF Moves, Outcome

(* retry_job writes to a job that exists, and, alone, to one that has      *)
(* failed or was cancelled: what its status check read.                    *)
RetryInv ==
  \A h \in Handler : req[h].kind = "retry_job" =>
     /\ status[req[h].arg] # "unborn"
     /\ "retry_job" \notin Interleaved => status[req[h].arg] \in {"failed", "cancelled"}

(* One step keeps what a retry has read.                                   *)
LEMMA RetryStep ==
  ASSUME TypeOK, Bound, RetryInv, [Next]_vars
  PROVE  RetryInv'
  <1> SUFFICES ASSUME NEW h \in Handler, req'[h].kind = "retry_job"
               PROVE  /\ status'[req'[h].arg] # "unborn"
                      /\ "retry_job" \notin Interleaved =>
                            status'[req'[h].arg] \in {"failed", "cancelled"}
    BY DEF RetryInv
  <1>1. CASE req'[h] = req[h]
    <2>1. req[h].kind = "retry_job" /\ req[h].arg \in Job
      BY <1>1 DEF Bound, RequestBound
    <2>2. status'[req[h].arg] # "unborn"
      BY <2>1, BornOnce DEF RetryInv
    <2>3. ASSUME "retry_job" \notin Interleaved
          PROVE  status'[req[h].arg] \in {"failed", "cancelled"}
      <3>1. HandlerStep(h) \/ UNCHANGED vars
        BY <2>1, <2>3, Held DEF AdminKinds
      <3>2. ~HandlerStep(h)
        <4>1. SUFFICES ASSUME HandlerStep(h) PROVE req'[h].kind # "retry_job"
          OBVIOUS
        <4>2. RetryJob(h)
          BY <2>1, <4>1 DEF HandlerStep, Advance, Release, CommitReport, CommitProgress, CommitDedup,
             QueuePaths, QueueCommit, RetryMedia, CancelMedia, CancelJobs
        <4> QED
          BY <4>2 DEF RetryJob, Advance, Ask, TypeOK
      <3> QED
        BY <2>1, <2>3, <3>1, <3>2 DEF RetryInv, vars, jobVars
    <2> QED
      BY <1>1, <2>2, <2>3
  <1>2. CASE Arrival(h) /\ req[h] = Free
    <2>1. PICK j \in Job : Retry(h, j)
      BY <1>2 DEF Arrival, Register, CheckDerivative, ReceiveReport, ReceiveProgress, QueueFile, Cancel,
         CancelAll, Enter, Ask, Free, TypeOK
    <2> QED
      BY <2>1 DEF Retry, Enter, Ask, TypeOK, jobVars
  <1>3. CASE HandlerStep(h) /\ req'[h] = Free
    BY <1>3 DEF Free, Ask
  <1>4. CASE RetryJob(h) /\ req'[h] = Ask("retry_media", req[h].arg)
    BY <1>4 DEF Ask
  <1>5. CASE QueuePaths(h) /\ req'[h] = Ask("queue_commit", req[h].arg)
    BY <1>5 DEF Ask
  <1> QED
    BY <1>1, <1>2, <1>3, <1>4, <1>5, RequestMoves DEF Goes

(* It holds initially and after every step.                                *)
LEMMA ReadsHold == Spec => []RetryInv
  <1>1. Init => RetryInv
    BY DEF Init, RetryInv, Free, Ask
  <1>2. FenceInv /\ RetryInv /\ [Next]_vars => RetryInv'
    BY RetryStep DEF FenceInv
  <1> QED
    BY <1>1, <1>2, FenceHolds, PTL DEF Spec

(* "A terminal job never changes status again": when nobody comes between  *)
(* retry_job's status check and its write, only a retry reopens a job, and *)
(* no retry reopens one that is complete or skipped.  Nothing is asked of  *)
(* any other request: reports, claims, cancels and sweeps interleave.      *)
THEOREM OutcomesFixed ==
  ASSUME "retry_job" \notin Interleaved
  PROVE  Spec => TerminalFixed
  <1>1. FenceInv /\ RetryInv /\ [Next]_vars => [OutcomeKept]_vars
    <2> SUFFICES ASSUME FenceInv, RetryInv, [Next]_vars, NEW j \in Job,
                        status[j] \in Terminal, status'[j] # status[j]
                 PROVE  \/ status'[j] = "deleted"
                        \/ status[j] \in {"failed", "cancelled"} /\ status'[j] = "waiting"
      BY DEF OutcomeKept
    <2>1. Moves(j)
      BY StatusMoves DEF FenceInv
    <2> QED
      BY <2>1 DEF Moves, RetryInv, Terminal, Outcome, Live
  <1> QED
    BY <1>1, FenceHolds, ReadsHold, PTL DEF TerminalFixed, Spec

(* The journal of a worker: only a job that ends adds to it.               *)
LEMMA JournalMoves ==
  ASSUME TypeOK, Bound, [Next]_vars, NEW w \in Worker
  PROVE  \/ Undelivered(w)' \subseteq Undelivered(w)
         \/ FileReport(w) /\ Undelivered(w)' \subseteq Undelivered(w) \cup {run[w]}
  <1>1. ASSUME NEW v \in Worker, Claim(v)
        PROVE  \/ Undelivered(w)' \subseteq Undelivered(w)
               \/ FileReport(w) /\ Undelivered(w)' \subseteq Undelivered(w) \cup {run[w]}
    BY <1>1 DEF Claim, Undelivered, TypeOK, Bound, AttemptBound
  <1>2. ASSUME NEW v \in Worker, FileReport(v)
        PROVE  \/ Undelivered(w)' \subseteq Undelivered(w)
               \/ FileReport(w) /\ Undelivered(w)' \subseteq Undelivered(w) \cup {run[w]}
    <2>1. run[v] \in Token /\ tokenWorker[run[v]] = v
      BY <1>2 DEF FileReport, TypeOK, Bound, AgentBound
    <2>2. UNCHANGED <<tokenWorker, settled>> /\ \A t \in Token : t # run[v] => report'[t] = report[t]
      BY <1>2 DEF FileReport, TypeOK
    <2>3. CASE v = w
      BY <1>2, <2>2, <2>3 DEF Undelivered
    <2>4. CASE v # w
      BY <2>1, <2>2, <2>4 DEF Undelivered
    <2> QED
      BY <2>3, <2>4
  <1>3. ASSUME NEW v \in Worker, Unhandled(v)
        PROVE  \/ Undelivered(w)' \subseteq Undelivered(w)
               \/ FileReport(w) /\ Undelivered(w)' \subseteq Undelivered(w) \cup {run[w]}
    BY <1>3 DEF Unhandled, Undelivered, attemptVars
  <1>4. ASSUME NEW v \in Worker, Heartbeat(v)
        PROVE  \/ Undelivered(w)' \subseteq Undelivered(w)
               \/ FileReport(w) /\ Undelivered(w)' \subseteq Undelivered(w) \cup {run[w]}
    BY <1>4 DEF Heartbeat, Undelivered, attemptVars
  <1>5. ASSUME NEW v \in Worker, Crash(v)
        PROVE  \/ Undelivered(w)' \subseteq Undelivered(w)
               \/ FileReport(w) /\ Undelivered(w)' \subseteq Undelivered(w) \cup {run[w]}
    BY <1>5 DEF Crash, Undelivered, attemptVars
  <1>6. ASSUME NEW v \in Worker, Stop(v)
        PROVE  \/ Undelivered(w)' \subseteq Undelivered(w)
               \/ FileReport(w) /\ Undelivered(w)' \subseteq Undelivered(w) \cup {run[w]}
    BY <1>6 DEF Stop, Undelivered, attemptVars
  <1>7. ASSUME NEW v \in Worker, MarkDead(v)
        PROVE  \/ Undelivered(w)' \subseteq Undelivered(w)
               \/ FileReport(w) /\ Undelivered(w)' \subseteq Undelivered(w) \cup {run[w]}
    BY <1>7 DEF MarkDead, Undelivered, attemptVars
  <1>8. ASSUME NEW h \in Handler, Release(h)
        PROVE  \/ Undelivered(w)' \subseteq Undelivered(w)
               \/ FileReport(w) /\ Undelivered(w)' \subseteq Undelivered(w) \cup {run[w]}
    BY <1>8 DEF Release, Undelivered, attemptVars
  <1>9. ASSUME NEW h \in Handler, CommitReport(h)
        PROVE  \/ Undelivered(w)' \subseteq Undelivered(w)
               \/ FileReport(w) /\ Undelivered(w)' \subseteq Undelivered(w) \cup {run[w]}
    BY <1>9 DEF CommitReport, Answer, Undelivered, TypeOK
  <1>10. ASSUME NEW h \in Handler, CommitProgress(h)
        PROVE  \/ Undelivered(w)' \subseteq Undelivered(w)
               \/ FileReport(w) /\ Undelivered(w)' \subseteq Undelivered(w) \cup {run[w]}
    BY <1>10 DEF CommitProgress, Undelivered, attemptVars
  <1>11. ASSUME NEW h \in Handler, CommitDedup(h)
        PROVE  \/ Undelivered(w)' \subseteq Undelivered(w)
               \/ FileReport(w) /\ Undelivered(w)' \subseteq Undelivered(w) \cup {run[w]}
    BY <1>11 DEF CommitDedup, Undelivered, attemptVars
  <1>12. ASSUME NEW h \in Handler, QueuePaths(h)
        PROVE  \/ Undelivered(w)' \subseteq Undelivered(w)
               \/ FileReport(w) /\ Undelivered(w)' \subseteq Undelivered(w) \cup {run[w]}
    BY <1>12 DEF QueuePaths, Undelivered, attemptVars
  <1>13. ASSUME NEW h \in Handler, QueueCommit(h)
        PROVE  \/ Undelivered(w)' \subseteq Undelivered(w)
               \/ FileReport(w) /\ Undelivered(w)' \subseteq Undelivered(w) \cup {run[w]}
    BY <1>13 DEF QueueCommit, Undelivered, attemptVars
  <1>14. ASSUME NEW h \in Handler, RetryJob(h)
        PROVE  \/ Undelivered(w)' \subseteq Undelivered(w)
               \/ FileReport(w) /\ Undelivered(w)' \subseteq Undelivered(w) \cup {run[w]}
    BY <1>14 DEF RetryJob, Undelivered, attemptVars
  <1>15. ASSUME NEW h \in Handler, RetryMedia(h)
        PROVE  \/ Undelivered(w)' \subseteq Undelivered(w)
               \/ FileReport(w) /\ Undelivered(w)' \subseteq Undelivered(w) \cup {run[w]}
    BY <1>15 DEF RetryMedia, Undelivered, attemptVars
  <1>16. ASSUME NEW h \in Handler, CancelMedia(h)
        PROVE  \/ Undelivered(w)' \subseteq Undelivered(w)
               \/ FileReport(w) /\ Undelivered(w)' \subseteq Undelivered(w) \cup {run[w]}
    BY <1>16 DEF CancelMedia, Undelivered, attemptVars
  <1>17. ASSUME NEW h \in Handler, CancelJobs(h)
        PROVE  \/ Undelivered(w)' \subseteq Undelivered(w)
               \/ FileReport(w) /\ Undelivered(w)' \subseteq Undelivered(w) \cup {run[w]}
    BY <1>17 DEF CancelJobs, Undelivered, attemptVars
  <1>18. ASSUME NEW h \in Handler, NEW v \in Worker, Register(h, v)
        PROVE  \/ Undelivered(w)' \subseteq Undelivered(w)
               \/ FileReport(w) /\ Undelivered(w)' \subseteq Undelivered(w) \cup {run[w]}
    BY <1>18 DEF Register, Undelivered, attemptVars
  <1>19. ASSUME NEW h \in Handler, NEW v \in Worker, CheckDerivative(h, v)
        PROVE  \/ Undelivered(w)' \subseteq Undelivered(w)
               \/ FileReport(w) /\ Undelivered(w)' \subseteq Undelivered(w) \cup {run[w]}
    BY <1>19 DEF CheckDerivative, Undelivered, attemptVars
  <1>20. ASSUME NEW h \in Handler, NEW t \in Token, ReceiveReport(h, t)
        PROVE  \/ Undelivered(w)' \subseteq Undelivered(w)
               \/ FileReport(w) /\ Undelivered(w)' \subseteq Undelivered(w) \cup {run[w]}
    BY <1>20 DEF ReceiveReport, Answer, Undelivered, TypeOK
  <1>21. ASSUME NEW h \in Handler, NEW t \in Token, ReceiveProgress(h, t)
        PROVE  \/ Undelivered(w)' \subseteq Undelivered(w)
               \/ FileReport(w) /\ Undelivered(w)' \subseteq Undelivered(w) \cup {run[w]}
    BY <1>21 DEF ReceiveProgress, Undelivered, attemptVars
  <1>22. ASSUME NEW h \in Handler, NEW f \in File, NEW d \in BOOLEAN, QueueFile(h, f, d)
        PROVE  \/ Undelivered(w)' \subseteq Undelivered(w)
               \/ FileReport(w) /\ Undelivered(w)' \subseteq Undelivered(w) \cup {run[w]}
    BY <1>22 DEF QueueFile, Undelivered, attemptVars
  <1>23. ASSUME NEW h \in Handler, NEW j \in Job, Retry(h, j)
        PROVE  \/ Undelivered(w)' \subseteq Undelivered(w)
               \/ FileReport(w) /\ Undelivered(w)' \subseteq Undelivered(w) \cup {run[w]}
    BY <1>23 DEF Retry, Undelivered, attemptVars
  <1>24. ASSUME NEW h \in Handler, NEW j \in Job, Cancel(h, j)
        PROVE  \/ Undelivered(w)' \subseteq Undelivered(w)
               \/ FileReport(w) /\ Undelivered(w)' \subseteq Undelivered(w) \cup {run[w]}
    BY <1>24 DEF Cancel, Undelivered, attemptVars
  <1>25. ASSUME NEW h \in Handler, CancelAll(h)
        PROVE  \/ Undelivered(w)' \subseteq Undelivered(w)
               \/ FileReport(w) /\ Undelivered(w)' \subseteq Undelivered(w) \cup {run[w]}
    BY <1>25 DEF CancelAll, Undelivered, attemptVars
  <1>26. ASSUME NEW t \in Token, RegisterDerivative(t)
        PROVE  \/ Undelivered(w)' \subseteq Undelivered(w)
               \/ FileReport(w) /\ Undelivered(w)' \subseteq Undelivered(w) \cup {run[w]}
    BY <1>26 DEF RegisterDerivative, Undelivered, attemptVars
  <1>27. ASSUME NEW j \in Job, JobIdles(j)
        PROVE  \/ Undelivered(w)' \subseteq Undelivered(w)
               \/ FileReport(w) /\ Undelivered(w)' \subseteq Undelivered(w) \cup {run[w]}
    BY <1>27 DEF JobIdles, Undelivered, attemptVars
  <1>28. CASE Sweep(Orphans)
    BY <1>28 DEF Sweep, Undelivered, attemptVars
  <1>29. CASE Sweep(Abandoned)
    BY <1>29 DEF Sweep, Undelivered, attemptVars
  <1>30. ASSUME NEW st \in SUBSET Row, DeleteJobs(st)
        PROVE  \/ Undelivered(w)' \subseteq Undelivered(w)
               \/ FileReport(w) /\ Undelivered(w)' \subseteq Undelivered(w) \cup {run[w]}
    BY <1>30 DEF DeleteJobs, Undelivered, attemptVars
  <1>31. ASSUME NEW f \in File, NEW s \in {"skipped", "needs_transcode"}, MarkFile(f, s)
        PROVE  \/ Undelivered(w)' \subseteq Undelivered(w)
               \/ FileReport(w) /\ Undelivered(w)' \subseteq Undelivered(w) \cup {run[w]}
    BY <1>31 DEF MarkFile, Undelivered, attemptVars
  <1>32. CASE UNCHANGED vars
    BY <1>32 DEF vars, Undelivered, attemptVars
  <1>33. Row \in SUBSET Row /\ {"complete", "cancelled"} \in SUBSET Row
    BY DEF Row, Terminal, Outcome
  <1> QED
    BY <1>1, <1>2, <1>3, <1>4, <1>5, <1>6, <1>7, <1>8, <1>9, <1>10, <1>11, <1>12, <1>13, <1>14,
       <1>15, <1>16, <1>17, <1>18, <1>19, <1>20, <1>21, <1>22, <1>23, <1>24, <1>25, <1>26,
       <1>27, <1>28, <1>29, <1>30, <1>31, <1>32, <1>33
    DEF Next, AgentStep, HandlerStep, Arrival, SweepOrphans, SweepAbandoned, ClearCompleted,
        ResetAll

(* An agent that is down runs nothing, one that runs a job names it, and   *)
(* whoever has named a job has delivered the reports of the earlier ones:  *)
(* the journal never holds two.                                            *)
Agent(w) ==
  /\ ~up[w] => run[w] = None /\ named[w] = None
  /\ run[w] # None => named[w] = run[w]
  /\ named[w] # None => Undelivered(w) = {}
  /\ \A t, u \in Undelivered(w) : t = u

AgentInv == \A w \in Worker : Agent(w)

(* One step keeps what an agent runs, names and has to deliver.            *)
LEMMA AgentKept ==
  ASSUME TypeOK, Bound, AgentInv, "poison" \notin Faults, [Next]_vars, NEW w \in Worker
  PROVE  Agent(w)'
  <1>a. Agent(w)
    BY DEF AgentInv
  <1>b. UNCHANGED <<up[w], run[w], named[w]>> => Agent(w)'
    <2>1. SUFFICES ASSUME UNCHANGED <<up[w], run[w], named[w]>> PROVE Agent(w)'
      OBVIOUS
    <2>2. ~FileReport(w)
      BY <2>1, NoneAssumption DEF FileReport, TypeOK
    <2>3. Undelivered(w)' \subseteq Undelivered(w)
      BY <2>2, JournalMoves
    <2> QED
      BY <1>a, <2>1, <2>3 DEF Agent
  <1>c. ASSUME ~FileReport(w),
               run'[w] # None => named'[w] = run'[w],
               named'[w] # None => named'[w] = named[w] \/ Undelivered(w) = {},
               up'[w] \/ (run'[w] = None /\ named'[w] = None)
        PROVE  Agent(w)'
    <2>1. Undelivered(w)' \subseteq Undelivered(w)
      BY <1>c, JournalMoves
    <2> QED
      BY <1>a, <1>c, <2>1 DEF Agent
  <1>1. ASSUME NEW v \in Worker, Claim(v)
        PROVE  Agent(w)'
    <2>1. CASE v # w
      BY <1>1, <1>b, <2>1 DEF Claim, TypeOK, procVars, attemptVars
    <2>2. CASE v = w
      <3>1. up[w] /\ run[w] = None /\ Undelivered(w) = {} /\ up' = up
        BY <1>1, <2>2 DEF Claim, Drained
      <3>2. \/ UNCHANGED <<run, named>>
            \/ \E t \in Token : run'[w] = t /\ named'[w] = t
        BY <1>1, <2>2 DEF Claim, TypeOK
      <3>3. ~FileReport(w)
        BY <3>1 DEF FileReport
      <3> QED
        <4>1. up'[w]
          BY <3>1
        <4> QED
          BY <1>c, <3>1, <3>2, <3>3, <4>1
    <2> QED
      BY <2>1, <2>2
  <1>2. ASSUME NEW v \in Worker, FileReport(v)
        PROVE  Agent(w)'
    <2>1. CASE v # w
      BY <1>2, <1>b, <2>1 DEF FileReport, TypeOK, procVars, attemptVars
    <2>2. CASE v = w
      <3>1. up[w] /\ run[w] # None /\ run'[w] = None /\ named'[w] = None /\ up' = up
        BY <1>2, <2>2 DEF FileReport, TypeOK, procVars
      <3>2. Undelivered(w) = {}
        BY <1>a, <3>1 DEF Agent
      <3>3. Undelivered(w)' \subseteq {run[w]}
        BY <3>2, JournalMoves
      <3> QED
        BY <3>1, <3>3 DEF Agent
    <2> QED
      BY <2>1, <2>2
  <1>3. ASSUME NEW v \in Worker, Unhandled(v)
        PROVE  Agent(w)'
    <2>1. CASE v # w
      BY <1>3, <1>b, <2>1 DEF Unhandled, TypeOK, procVars, attemptVars
    <2>2. CASE v = w
      <3>1. run'[w] = None /\ up' = up /\ named' = named /\ up[w]
        BY <1>3, <2>2 DEF Unhandled, TypeOK, attemptVars, procVars
      <3>2. ~FileReport(w)
        BY <1>3 DEF Unhandled, FileReport, TypeOK, attemptVars, Bound, AgentBound, Outcome
      <3> QED
        BY <1>c, <3>1, <3>2
    <2> QED
      BY <2>1, <2>2
  <1>4. ASSUME NEW v \in Worker, Heartbeat(v)
        PROVE  Agent(w)'
    BY <1>4, <1>b DEF Heartbeat, procVars
  <1>5. ASSUME NEW v \in Worker, Crash(v)
        PROVE  Agent(w)'
    <2>1. CASE v # w
      BY <1>5, <1>b, <2>1 DEF Crash, TypeOK, procVars, attemptVars
    <2>2. CASE v = w
      <3>1. run'[w] = None /\ named'[w] = None
        BY <1>5, <2>2 DEF Crash, TypeOK, attemptVars, procVars
      <3>2. ~FileReport(w)
        BY <1>5 DEF Crash, FileReport, TypeOK, attemptVars, Bound, AgentBound, Outcome
      <3> QED
        BY <1>c, <3>1, <3>2
    <2> QED
      BY <2>1, <2>2
  <1>6. ASSUME NEW v \in Worker, Stop(v)
        PROVE  Agent(w)'
    <2>1. CASE v # w
      BY <1>6, <1>b, <2>1 DEF Stop, TypeOK, procVars, attemptVars
    <2>2. CASE v = w
      <3>1. run'[w] = None /\ named'[w] = None
        BY <1>6, <2>2 DEF Stop, TypeOK, attemptVars, procVars
      <3>2. ~FileReport(w)
        BY <1>6 DEF Stop, FileReport, TypeOK, attemptVars, Bound, AgentBound, Outcome
      <3> QED
        BY <1>c, <3>1, <3>2
    <2> QED
      BY <2>1, <2>2
  <1>7. ASSUME NEW v \in Worker, MarkDead(v)
        PROVE  Agent(w)'
    BY <1>7, <1>b DEF MarkDead, procVars
  <1>8. ASSUME NEW h \in Handler, Release(h)
        PROVE  Agent(w)'
    <2>1. up'[w] = up[w] \/ up'[w]
      BY <1>8 DEF Release, TypeOK
    <2>2. UNCHANGED <<run, named>>
      BY <1>8 DEF Release
    <2>3. Undelivered(w)' \subseteq Undelivered(w)
      BY <1>8 DEF Release, Undelivered, attemptVars
    <2> QED
      BY <1>a, <2>1, <2>2, <2>3 DEF Agent
  <1>9. ASSUME NEW h \in Handler, CommitReport(h)
        PROVE  Agent(w)'
    BY <1>9, <1>b DEF CommitReport, procVars
  <1>10. ASSUME NEW h \in Handler, CommitProgress(h)
        PROVE  Agent(w)'
    BY <1>10, <1>b DEF CommitProgress, procVars
  <1>11. ASSUME NEW h \in Handler, CommitDedup(h)
        PROVE  Agent(w)'
    BY <1>11, <1>b DEF CommitDedup, procVars
  <1>12. ASSUME NEW h \in Handler, QueuePaths(h)
        PROVE  Agent(w)'
    BY <1>12, <1>b DEF QueuePaths, procVars
  <1>13. ASSUME NEW h \in Handler, QueueCommit(h)
        PROVE  Agent(w)'
    BY <1>13, <1>b DEF QueueCommit, procVars
  <1>14. ASSUME NEW h \in Handler, RetryJob(h)
        PROVE  Agent(w)'
    BY <1>14, <1>b DEF RetryJob, procVars
  <1>15. ASSUME NEW h \in Handler, RetryMedia(h)
        PROVE  Agent(w)'
    BY <1>15, <1>b DEF RetryMedia, procVars
  <1>16. ASSUME NEW h \in Handler, CancelMedia(h)
        PROVE  Agent(w)'
    BY <1>16, <1>b DEF CancelMedia, procVars
  <1>17. ASSUME NEW h \in Handler, CancelJobs(h)
        PROVE  Agent(w)'
    BY <1>17, <1>b DEF CancelJobs, procVars
  <1>18. ASSUME NEW h \in Handler, NEW v \in Worker, Register(h, v)
        PROVE  Agent(w)'
    BY <1>18, <1>b DEF Register, procVars
  <1>19. ASSUME NEW h \in Handler, NEW v \in Worker, CheckDerivative(h, v)
        PROVE  Agent(w)'
    BY <1>19, <1>b DEF CheckDerivative, procVars
  <1>20. ASSUME NEW h \in Handler, NEW t \in Token, ReceiveReport(h, t)
        PROVE  Agent(w)'
    BY <1>20, <1>b DEF ReceiveReport, procVars
  <1>21. ASSUME NEW h \in Handler, NEW t \in Token, ReceiveProgress(h, t)
        PROVE  Agent(w)'
    BY <1>21, <1>b DEF ReceiveProgress, procVars
  <1>22. ASSUME NEW h \in Handler, NEW f \in File, NEW d \in BOOLEAN, QueueFile(h, f, d)
        PROVE  Agent(w)'
    BY <1>22, <1>b DEF QueueFile, procVars
  <1>23. ASSUME NEW h \in Handler, NEW j \in Job, Retry(h, j)
        PROVE  Agent(w)'
    BY <1>23, <1>b DEF Retry, procVars
  <1>24. ASSUME NEW h \in Handler, NEW j \in Job, Cancel(h, j)
        PROVE  Agent(w)'
    BY <1>24, <1>b DEF Cancel, procVars
  <1>25. ASSUME NEW h \in Handler, CancelAll(h)
        PROVE  Agent(w)'
    BY <1>25, <1>b DEF CancelAll, procVars
  <1>26. ASSUME NEW t \in Token, RegisterDerivative(t)
        PROVE  Agent(w)'
    BY <1>26, <1>b DEF RegisterDerivative, procVars
  <1>27. ASSUME NEW j \in Job, JobIdles(j)
        PROVE  Agent(w)'
    BY <1>27, <1>b DEF JobIdles, procVars
  <1>28. CASE Sweep(Orphans)
    BY <1>28, <1>b DEF Sweep, procVars
  <1>29. CASE Sweep(Abandoned)
    BY <1>29, <1>b DEF Sweep, procVars
  <1>30. ASSUME NEW st \in SUBSET Row, DeleteJobs(st)
        PROVE  Agent(w)'
    BY <1>30, <1>b DEF DeleteJobs, procVars
  <1>31. ASSUME NEW f \in File, NEW s \in {"skipped", "needs_transcode"}, MarkFile(f, s)
        PROVE  Agent(w)'
    BY <1>31, <1>b DEF MarkFile, procVars
  <1>32. CASE UNCHANGED vars
    BY <1>32, <1>b DEF vars, procVars
  <1>33. Row \in SUBSET Row /\ {"complete", "cancelled"} \in SUBSET Row
    BY DEF Row, Terminal, Outcome
  <1> QED
    BY <1>1, <1>2, <1>3, <1>4, <1>5, <1>6, <1>7, <1>8, <1>9, <1>10, <1>11, <1>12, <1>13, <1>14,
       <1>15, <1>16, <1>17, <1>18, <1>19, <1>20, <1>21, <1>22, <1>23, <1>24, <1>25, <1>26,
       <1>27, <1>28, <1>29, <1>30, <1>31, <1>32, <1>33
    DEF Next, AgentStep, HandlerStep, Arrival, SweepOrphans, SweepAbandoned, ClearCompleted,
        ResetAll

(* An agent that registers is down and has delivered its reports.          *)
ReleaseInv ==
  \A h \in Handler : req[h].kind = "release" =>
     ~up[req[h].arg] /\ Undelivered(req[h].arg) = {}

(* One step keeps a registering agent down and delivered.                  *)
LEMMA ReleaseStep ==
  ASSUME TypeOK, Bound, ReleaseInv, "poison" \notin Faults, "release" \notin Interleaved,
         [Next]_vars
  PROVE  ReleaseInv'
  <1> SUFFICES ASSUME NEW h \in Handler, req'[h].kind = "release"
               PROVE  ~up'[req'[h].arg] /\ Undelivered(req[h].arg)' = {}
    BY DEF ReleaseInv
  <1>1. CASE req'[h] = req[h]
    <2>1. HandlerStep(h) \/ UNCHANGED vars
      BY <1>1, Held DEF AdminKinds
    <2>2. CASE HandlerStep(h)
      <3>1. Release(h)
        BY <1>1, <2>2 DEF HandlerStep, Advance, CommitReport, CommitProgress, CommitDedup,
           QueuePaths, QueueCommit, RetryJob, RetryMedia, CancelMedia, CancelJobs
      <3> QED
        BY <3>1 DEF Release, Advance, Free, Ask, TypeOK
    <2>3. CASE UNCHANGED vars
      BY <1>1, <2>3 DEF ReleaseInv, Undelivered, vars, attemptVars, procVars
    <2> QED
      BY <2>1, <2>2, <2>3
  <1>2. CASE Arrival(h) /\ req[h] = Free
    <2>1. PICK w \in Worker : Register(h, w)
      BY <1>2 DEF Arrival, CheckDerivative, ReceiveReport, ReceiveProgress, QueueFile, Retry, Cancel,
         CancelAll, Enter, Ask, Free, TypeOK
    <2> QED
      BY <2>1 DEF Register, Drained, Enter, Ask, TypeOK, Undelivered, attemptVars, procVars
  <1>3. CASE HandlerStep(h) /\ req'[h] = Free
    BY <1>3 DEF Free, Ask
  <1>4. CASE RetryJob(h) /\ req'[h] = Ask("retry_media", req[h].arg)
    BY <1>4 DEF Ask
  <1>5. CASE QueuePaths(h) /\ req'[h] = Ask("queue_commit", req[h].arg)
    BY <1>5 DEF Ask
  <1> QED
    BY <1>1, <1>2, <1>3, <1>4, <1>5, RequestMoves DEF Goes

(* The worker is running the job's attempt, or has its report in the       *)
(* journal.                                                                *)
AtWork(j, w) == claim_token[j] = run[w] \/ claim_token[j] \in Undelivered(w)

(* What the heartbeat of a worker names is the job it is at work on.       *)
LEMMA NamesTheJob ==
  ASSUME TypeOK, Owned, NEW w \in Worker, Agent(w), NEW j \in Job,
         status[j] = "active", worker_id[j] = w, AtWork(j, w)
  PROVE  Names(w) = {j}
  <1>1. claim_token[j] \in Token /\ tokenJob[claim_token[j]] = j /\ claim_token[j] # None
    BY NoneAssumption DEF Owned, Issued
  <1>2. CASE claim_token[j] = run[w]
    BY <1>1, <1>2 DEF Names, Agent
  <1>3. CASE claim_token[j] \in Undelivered(w)
    <2>1. named[w] = None /\ Undelivered(w) = {claim_token[j]}
      BY <1>3 DEF Agent
    <2> QED
      BY <1>1, <2>1 DEF Names
  <1> QED
    BY <1>2, <1>3 DEF AtWork

(* A grace only runs out on a job its connected worker is at work on when  *)
(* the worker's row names it: then the abandoned-job sweep passes it by.   *)
Noted(j, w) ==
  status[j] = "active" /\ worker_id[j] = w /\ up[w] /\ alive[w] /\ idle[j] /\ AtWork(j, w)
     => current_job_id[w] = j

(* One step keeps an idle job that is worked on noted.                     *)
LEMMA NotedKept ==
  ASSUME TypeOK, Owned, Bound, AgentInv, "poison" \notin Faults, [Next]_vars,
         NEW j \in Job, NEW w \in Worker, Noted(j, w)
  PROVE  Noted(j, w)'
  <1>a. ASSUME status'[j] = "active" =>
                  /\ UNCHANGED <<status[j], worker_id[j], claim_token[j]>> /\ (idle'[j] => idle[j]),
               run'[w] = run[w] \/ run'[w] = None, up'[w] => up[w], alive'[w] => alive[w],
               current_job_id'[w] = current_job_id[w]
        PROVE  Noted(j, w)'
    <2>1. SUFFICES ASSUME status'[j] = "active", worker_id'[j] = w, up'[w], alive'[w], idle'[j],
                          AtWork(j, w)'
                   PROVE  current_job_id'[w] = j
      BY DEF Noted
    <2>2. status[j] = "active" /\ worker_id[j] = w /\ up[w] /\ alive[w] /\ idle[j]
      BY <1>a, <2>1
    <2>3. claim_token'[j] = claim_token[j] /\ claim_token[j] # None
      BY <1>a, <2>1, <2>2, NoneAssumption DEF Owned, Issued
    <2>4. AtWork(j, w)
      BY <1>a, <2>1, <2>3, JournalMoves DEF AtWork
    <2> QED
      BY <1>a, <2>2, <2>4 DEF Noted
  <1>1. ASSUME NEW v \in Worker, Claim(v)
        PROVE  Noted(j, w)'
    <2>1. PICK i \in Job, t \in Token :
            /\ status[i] = "waiting" /\ tokenJob[t] = None
            /\ status' = [status EXCEPT ![i] = "active"]
            /\ worker_id' = [worker_id EXCEPT ![i] = v]
            /\ claim_token' = [claim_token EXCEPT ![i] = t]
            /\ idle' = [idle EXCEPT ![i] = FALSE]
            /\ \/ run' = [run EXCEPT ![v] = t]
               \/ UNCHANGED run
      BY <1>1 DEF Claim
    <2>2. CASE i = j
      BY <2>1, <2>2 DEF Noted, TypeOK
    <2>3. CASE i # j /\ (v # w \/ UNCHANGED run)
      BY <1>1, <1>a, <2>1, <2>3 DEF Claim, TypeOK, rowVars
    <2>4. CASE i # j /\ v = w
      <3>1. SUFFICES ASSUME status'[j] = "active", AtWork(j, w)', run' = [run EXCEPT ![w] = t]
                     PROVE  FALSE
        BY <2>1, <2>3, <2>4 DEF Noted
      <3>2. status[j] = "active" /\ claim_token'[j] = claim_token[j]
        BY <2>1, <2>4, <3>1 DEF TypeOK
      <3>3. claim_token[j] # t
        BY <2>1, <3>2, NoneAssumption DEF Owned, Issued
      <3>4. Undelivered(w) = {} /\ ~FileReport(w)
        BY <1>1, <2>4 DEF Claim, Drained, FileReport
      <3> QED
        BY <3>1, <3>2, <3>3, <3>4, JournalMoves DEF AtWork, TypeOK
    <2> QED
      BY <2>2, <2>3, <2>4
  <1>2. ASSUME NEW v \in Worker, FileReport(v)
        PROVE  Noted(j, w)'
    BY <1>2, <1>a DEF FileReport, TypeOK, jobVars, rowVars, procVars
  <1>3. ASSUME NEW v \in Worker, Unhandled(v)
        PROVE  Noted(j, w)'
    BY <1>3, <1>a DEF Unhandled, TypeOK, jobVars, rowVars, procVars
  <1>4. ASSUME NEW v \in Worker, Heartbeat(v)
        PROVE  Noted(j, w)'
    <2>1. CASE v # w
      BY <1>4, <1>a, <2>1 DEF Heartbeat, Name, TypeOK, procVars
    <2>2. CASE v = w
      <3>1. SUFFICES ASSUME status'[j] = "active", worker_id'[j] = w, idle'[j], AtWork(j, w)'
                     PROVE  current_job_id'[w] = j
        BY DEF Noted
      <3>2. status[j] = "active" /\ worker_id[j] = w /\ AtWork(j, w)
        BY <1>4, <3>1 DEF Heartbeat, AtWork, Undelivered, jobVars, procVars, attemptVars
      <3>3. Names(w) = {j}
        BY <3>2, NamesTheJob DEF AgentInv
      <3> QED
        BY <1>4, <2>2, <3>1, <3>2, <3>3 DEF Heartbeat, Name, TypeOK, jobVars, rowVars, procVars
    <2> QED
      BY <2>1, <2>2
  <1>5. ASSUME NEW v \in Worker, Crash(v)
        PROVE  Noted(j, w)'
    BY <1>5, <1>a DEF Crash, TypeOK, jobVars, rowVars, procVars
  <1>6. ASSUME NEW v \in Worker, Stop(v)
        PROVE  Noted(j, w)'
    <2>1. CASE v # w
      BY <1>6, <1>a, <2>1 DEF Stop, Name, TypeOK
    <2>2. CASE v = w
      BY <1>6, <2>2 DEF Stop, Noted, TypeOK
    <2> QED
      BY <2>1, <2>2
  <1>7. ASSUME NEW v \in Worker, MarkDead(v)
        PROVE  Noted(j, w)'
    BY <1>7, <1>a DEF MarkDead, TypeOK, jobVars, rowVars, procVars
  <1>8. ASSUME NEW h \in Handler, Release(h)
        PROVE  Noted(j, w)'
    <2>1. CASE req[h].arg = w
      BY <1>8, <2>1 DEF Release, Requeue, Noted, TypeOK
    <2>2. CASE req[h].arg # w
      BY <1>8, <1>a, <2>2 DEF Release, Requeue, TypeOK, rowVars
    <2> QED
      BY <2>1, <2>2
  <1>9. ASSUME NEW h \in Handler, CommitReport(h)
        PROVE  Noted(j, w)'
    BY <1>9, <1>a DEF CommitReport, TypeOK, procVars, rowVars, Bound, RequestBound, Advance, WorkerKinds, Outcome
  <1>10. ASSUME NEW h \in Handler, CommitProgress(h)
        PROVE  Noted(j, w)'
    BY <1>10, <1>a DEF CommitProgress, TypeOK, jobVars, rowVars, procVars
  <1>11. ASSUME NEW h \in Handler, CommitDedup(h)
        PROVE  Noted(j, w)'
    BY <1>11, <1>a DEF CommitDedup, TypeOK, procVars, rowVars
  <1>12. ASSUME NEW h \in Handler, QueuePaths(h)
        PROVE  Noted(j, w)'
    BY <1>12, <1>a DEF QueuePaths, TypeOK, jobVars, rowVars, procVars
  <1>13. ASSUME NEW h \in Handler, QueueCommit(h)
        PROVE  Noted(j, w)'
    BY <1>13, <1>a DEF QueueCommit, TypeOK, procVars, rowVars
  <1>14. ASSUME NEW h \in Handler, RetryJob(h)
        PROVE  Noted(j, w)'
    BY <1>14, <1>a DEF RetryJob, Requeue, TypeOK, procVars, rowVars
  <1>15. ASSUME NEW h \in Handler, RetryMedia(h)
        PROVE  Noted(j, w)'
    BY <1>15, <1>a DEF RetryMedia, TypeOK, jobVars, rowVars, procVars
  <1>16. ASSUME NEW h \in Handler, CancelMedia(h)
        PROVE  Noted(j, w)'
    BY <1>16, <1>a DEF CancelMedia, TypeOK, jobVars, rowVars, procVars
  <1>17. ASSUME NEW h \in Handler, CancelJobs(h)
        PROVE  Noted(j, w)'
    BY <1>17, <1>a DEF CancelJobs, TypeOK, jobVars, rowVars, procVars
  <1>18. ASSUME NEW h \in Handler, NEW v \in Worker, Register(h, v)
        PROVE  Noted(j, w)'
    <2>1. CASE v # w
      BY <1>18, <1>a, <2>1 DEF Register, TypeOK, jobVars, procVars
    <2>2. CASE v = w
      BY <1>18, <2>2 DEF Register, Noted, TypeOK, procVars
    <2> QED
      BY <2>1, <2>2
  <1>19. ASSUME NEW h \in Handler, NEW v \in Worker, CheckDerivative(h, v)
        PROVE  Noted(j, w)'
    BY <1>19, <1>a DEF CheckDerivative, TypeOK, jobVars, rowVars, procVars
  <1>20. ASSUME NEW h \in Handler, NEW t \in Token, ReceiveReport(h, t)
        PROVE  Noted(j, w)'
    BY <1>20, <1>a DEF ReceiveReport, TypeOK, jobVars, rowVars, procVars
  <1>21. ASSUME NEW h \in Handler, NEW t \in Token, ReceiveProgress(h, t)
        PROVE  Noted(j, w)'
    BY <1>21, <1>a DEF ReceiveProgress, TypeOK, jobVars, rowVars, procVars
  <1>22. ASSUME NEW h \in Handler, NEW f \in File, NEW d \in BOOLEAN, QueueFile(h, f, d)
        PROVE  Noted(j, w)'
    BY <1>22, <1>a DEF QueueFile, TypeOK, jobVars, rowVars, procVars
  <1>23. ASSUME NEW h \in Handler, NEW i \in Job, Retry(h, i)
        PROVE  Noted(j, w)'
    BY <1>23, <1>a DEF Retry, TypeOK, jobVars, rowVars, procVars
  <1>24. ASSUME NEW h \in Handler, NEW i \in Job, Cancel(h, i)
        PROVE  Noted(j, w)'
    BY <1>24, <1>a DEF Cancel, TypeOK, jobVars, rowVars, procVars
  <1>25. ASSUME NEW h \in Handler, CancelAll(h)
        PROVE  Noted(j, w)'
    BY <1>25, <1>a DEF CancelAll, TypeOK, jobVars, rowVars, procVars
  <1>26. ASSUME NEW t \in Token, RegisterDerivative(t)
        PROVE  Noted(j, w)'
    BY <1>26, <1>a DEF RegisterDerivative, TypeOK, jobVars, rowVars, procVars
  <1>27. ASSUME NEW i \in Job, JobIdles(i)
        PROVE  Noted(j, w)'
    <2>1. CASE i # j
      BY <1>27, <1>a, <2>1 DEF JobIdles, TypeOK, procVars, rowVars
    <2>2. CASE i = j
      <3>1. SUFFICES ASSUME status'[j] = "active", worker_id'[j] = w, up[w], alive[w], AtWork(j, w)'
                     PROVE  current_job_id'[w] = j
        BY <1>27 DEF JobIdles, Noted, procVars, rowVars
      <3>2. status[j] = "active" /\ worker_id[j] = w /\ AtWork(j, w)
        BY <1>27, <3>1 DEF JobIdles, AtWork, Undelivered, jobVars, procVars, attemptVars
      <3>3. Names(w) = {j}
        BY <3>2, NamesTheJob DEF AgentInv
      <3> QED
        BY <1>27, <2>2, <3>1, <3>2, <3>3 DEF JobIdles, Heard, TypeOK, jobVars, rowVars, procVars
    <2> QED
      BY <2>1, <2>2
  <1>28. CASE Sweep(Orphans)
    BY <1>28, <1>a DEF Sweep, Requeue, TypeOK, procVars, rowVars
  <1>29. CASE Sweep(Abandoned)
    BY <1>29, <1>a DEF Sweep, Requeue, TypeOK, procVars, rowVars
  <1>30. ASSUME NEW st \in SUBSET Row, DeleteJobs(st)
        PROVE  Noted(j, w)'
    BY <1>30, <1>a DEF DeleteJobs, TypeOK, procVars, rowVars
  <1>31. ASSUME NEW f \in File, NEW s \in {"skipped", "needs_transcode"}, MarkFile(f, s)
        PROVE  Noted(j, w)'
    BY <1>31, <1>a DEF MarkFile, TypeOK, jobVars, rowVars, procVars
  <1>32. CASE UNCHANGED vars
    BY <1>32, <1>a DEF vars, jobVars, procVars, rowVars
  <1>33. Row \in SUBSET Row /\ {"complete", "cancelled"} \in SUBSET Row
    BY DEF Row, Terminal, Outcome
  <1> QED
    BY <1>1, <1>2, <1>3, <1>4, <1>5, <1>6, <1>7, <1>8, <1>9, <1>10, <1>11, <1>12, <1>13, <1>14,
       <1>15, <1>16, <1>17, <1>18, <1>19, <1>20, <1>21, <1>22, <1>23, <1>24, <1>25, <1>26,
       <1>27, <1>28, <1>29, <1>30, <1>31, <1>32, <1>33
    DEF Next, AgentStep, HandlerStep, Arrival, SweepOrphans, SweepAbandoned, ClearCompleted,
        ResetAll

(* All of it holds in every reachable state.                               *)
LEMMA AgentsHold ==
  ASSUME "poison" \notin Faults, "release" \notin Interleaved
  PROVE  Spec => [](AgentInv /\ ReleaseInv /\ \A j \in Job, w \in Worker : Noted(j, w))
  <1> DEFINE AllNoted == \A j \in Job, w \in Worker : Noted(j, w)
  <1>1. Init => AgentInv /\ ReleaseInv /\ AllNoted
    BY DEF Init, AgentInv, Agent, ReleaseInv, Noted, Undelivered, Free, Ask
  <1>2. FenceInv /\ AgentInv /\ ReleaseInv /\ AllNoted /\ [Next]_vars
           => AgentInv' /\ ReleaseInv' /\ AllNoted'
    <2> SUFFICES ASSUME FenceInv, AgentInv, ReleaseInv, AllNoted, [Next]_vars
                 PROVE  AgentInv' /\ ReleaseInv' /\ AllNoted'
      OBVIOUS
    <2>1. AgentInv'
      BY AgentKept DEF AgentInv, FenceInv
    <2>2. ReleaseInv'
      BY ReleaseStep DEF FenceInv
    <2>3. AllNoted'
      BY NotedKept DEF FenceInv
    <2> QED
      BY <2>1, <2>2, <2>3
  <1> HIDE DEF AllNoted
  <1>3. Spec => [](AgentInv /\ ReleaseInv /\ AllNoted)
    BY <1>1, <1>2, FenceHolds, PTL DEF Spec
  <1> QED
    BY <1>3 DEF AllNoted

(* The sweeps' long gauge and the drain before registration: no job goes   *)
(* back to the queue while the worker that runs it, or has its report in   *)
(* the journal, is there.  It takes a journal without parked entries, and  *)
(* a registration and a retry that nobody comes between.                   *)
THEOREM WorkIsKept ==
  ASSUME "poison" \notin Faults, "release" \notin Interleaved, "retry_job" \notin Interleaved
  PROVE  Spec => WorkKept
  <1> DEFINE AllNoted == \A j \in Job, w \in Worker : Noted(j, w)
  <1>1. FenceInv /\ RetryInv /\ AgentInv /\ ReleaseInv /\ AllNoted /\ [Next]_vars
           => [Undisturbed]_vars
    <2> SUFFICES ASSUME FenceInv, RetryInv, AgentInv, ReleaseInv, AllNoted, [Next]_vars,
                        NEW j \in Job, NEW w \in Worker,
                        status[j] = "active", worker_id[j] = w, Present(w), AtWork(j, w),
                        status'[j] = "waiting"
                 PROVE  FALSE
      BY DEF Undisturbed, AtWork
    <2>1. Moves(j)
      BY StatusMoves DEF FenceInv
    <2>2. claim_token[j] # None
      BY NoneAssumption DEF FenceInv, Owned, Issued
    <2>3. ASSUME NEW h \in Handler, Release(h), worker_id[j] = req[h].arg PROVE FALSE
      <3>1. ~up[w] /\ Undelivered(w) = {}
        BY <2>3 DEF Release, Advance, ReleaseInv
      <3>2. run[w] = None
        BY <3>1 DEF AgentInv, Agent
      <3> QED
        BY <2>2, <3>1, <3>2 DEF AtWork
    <2>4. CASE j \in Orphans
      BY <2>4 DEF Orphans, Present
    <2>5. CASE j \in Abandoned /\ SweepAbandoned
      <3>1. alive[w] /\ idle[j] /\ current_job_id[w] # j
        BY <2>5 DEF Abandoned
      <3>2. ~up[w]
        BY <3>1 DEF Noted
      <3>3. PICK h \in Handler : req[h] = Ask("release", w)
        BY <3>2 DEF Present
      <3>4. req[h].kind \in AdminKinds \ Interleaved
        BY <3>3 DEF Ask, AdminKinds
      <3> QED
        BY <2>5, <3>4, NotAlone DEF SweepAbandoned, Sweep
    <2>6. ASSUME NEW h \in Handler, req[h].kind = "retry_job", req[h].arg = j PROVE FALSE
      BY <2>6 DEF RetryInv
    <2> QED
      BY <2>1, <2>3, <2>4, <2>5, <2>6 DEF Moves, Outcome
  <1>2. Spec => [](AgentInv /\ ReleaseInv /\ AllNoted)
    BY AgentsHold
  <1> HIDE DEF AllNoted
  <1> QED
    BY <1>1, <1>2, FenceHolds, ReadsHold, PTL DEF WorkKept, Spec

(* The requests that write the job table and the catalog row apart.        *)
RowKinds == {"retry_job", "retry_media", "cancel_media", "cancel_jobs"}

(* A row in flight has a live job, or the cancel of its job is about to    *)
(* let go of it.                                                           *)
Claims(f) ==
  transcode_status[f] = "queued" =>
     \/ job_id[f] # None /\ status[job_id[f]] \in Live
     \/ \E h \in Handler : req[h] = Ask("cancel_media", job_id[f])

(* Between its two statements a retry has reopened its job, and a          *)
(* cancel-all has let go of the rows of the jobs it is about to cancel.    *)
HalfDone(h) ==
  /\ req[h].kind = "retry_media" => status[req[h].arg] \in Live
  /\ req[h].kind = "cancel_jobs" =>
        \A f \in File : transcode_status[f] = "queued" /\ job_id[f] # None =>
           status[job_id[f]] # "waiting"

RowsInv ==
  /\ derivatives = {}
  /\ \A f \in File : Claims(f)
  /\ \A h \in Handler : HalfDone(h)

(* Without S3 libraries the derivative registry stays empty.               *)
LEMMA NoDerivative ==
  ASSUME TypeOK, S3 = {}, derivatives = {}, [Next]_vars
  PROVE  derivatives' = {}
  <1>1. ASSUME NEW w \in Worker, Claim(w)
        PROVE  derivatives' = {}
    BY <1>1 DEF Claim
  <1>2. ASSUME NEW w \in Worker, FileReport(w)
        PROVE  derivatives' = {}
    BY <1>2 DEF FileReport
  <1>3. ASSUME NEW w \in Worker, Unhandled(w)
        PROVE  derivatives' = {}
    BY <1>3 DEF Unhandled
  <1>4. ASSUME NEW w \in Worker, Heartbeat(w)
        PROVE  derivatives' = {}
    BY <1>4 DEF Heartbeat
  <1>5. ASSUME NEW w \in Worker, Crash(w)
        PROVE  derivatives' = {}
    BY <1>5 DEF Crash
  <1>6. ASSUME NEW w \in Worker, Stop(w)
        PROVE  derivatives' = {}
    BY <1>6 DEF Stop
  <1>7. ASSUME NEW w \in Worker, MarkDead(w)
        PROVE  derivatives' = {}
    BY <1>7 DEF MarkDead
  <1>8. ASSUME NEW g \in Handler, Release(g)
        PROVE  derivatives' = {}
    BY <1>8 DEF Release
  <1>9. ASSUME NEW g \in Handler, CommitReport(g)
        PROVE  derivatives' = {}
    BY <1>9 DEF CommitReport
  <1>10. ASSUME NEW g \in Handler, CommitProgress(g)
        PROVE  derivatives' = {}
    BY <1>10 DEF CommitProgress
  <1>11. ASSUME NEW g \in Handler, CommitDedup(g)
        PROVE  derivatives' = {}
    BY <1>11 DEF CommitDedup
  <1>12. ASSUME NEW g \in Handler, QueuePaths(g)
        PROVE  derivatives' = {}
    BY <1>12 DEF QueuePaths
  <1>13. ASSUME NEW g \in Handler, QueueCommit(g)
        PROVE  derivatives' = {}
    BY <1>13 DEF QueueCommit
  <1>14. ASSUME NEW g \in Handler, RetryJob(g)
        PROVE  derivatives' = {}
    BY <1>14 DEF RetryJob
  <1>15. ASSUME NEW g \in Handler, RetryMedia(g)
        PROVE  derivatives' = {}
    BY <1>15 DEF RetryMedia
  <1>16. ASSUME NEW g \in Handler, CancelMedia(g)
        PROVE  derivatives' = {}
    BY <1>16 DEF CancelMedia
  <1>17. ASSUME NEW g \in Handler, CancelJobs(g)
        PROVE  derivatives' = {}
    BY <1>17 DEF CancelJobs
  <1>18. ASSUME NEW g \in Handler, NEW w \in Worker, Register(g, w)
        PROVE  derivatives' = {}
    BY <1>18 DEF Register
  <1>19. ASSUME NEW g \in Handler, NEW w \in Worker, CheckDerivative(g, w)
        PROVE  derivatives' = {}
    BY <1>19 DEF CheckDerivative
  <1>20. ASSUME NEW g \in Handler, NEW t \in Token, ReceiveReport(g, t)
        PROVE  derivatives' = {}
    BY <1>20 DEF ReceiveReport
  <1>21. ASSUME NEW g \in Handler, NEW t \in Token, ReceiveProgress(g, t)
        PROVE  derivatives' = {}
    BY <1>21 DEF ReceiveProgress
  <1>22. ASSUME NEW g \in Handler, NEW e \in File, NEW d \in BOOLEAN, QueueFile(g, e, d)
        PROVE  derivatives' = {}
    BY <1>22 DEF QueueFile
  <1>23. ASSUME NEW g \in Handler, NEW i \in Job, Retry(g, i)
        PROVE  derivatives' = {}
    BY <1>23 DEF Retry
  <1>24. ASSUME NEW g \in Handler, NEW i \in Job, Cancel(g, i)
        PROVE  derivatives' = {}
    BY <1>24 DEF Cancel
  <1>25. ASSUME NEW g \in Handler, CancelAll(g)
        PROVE  derivatives' = {}
    BY <1>25 DEF CancelAll
  <1>26. ASSUME NEW t \in Token, RegisterDerivative(t)
        PROVE  derivatives' = {}
    BY <1>26 DEF RegisterDerivative
  <1>27. ASSUME NEW i \in Job, JobIdles(i)
        PROVE  derivatives' = {}
    BY <1>27 DEF JobIdles
  <1>28. CASE Sweep(Orphans)
    BY <1>28 DEF Sweep
  <1>29. CASE Sweep(Abandoned)
    BY <1>29 DEF Sweep
  <1>30. ASSUME NEW st \in SUBSET Row, DeleteJobs(st)
        PROVE  derivatives' = {}
    BY <1>30 DEF DeleteJobs
  <1>31. ASSUME NEW e \in File, NEW s \in {"skipped", "needs_transcode"}, MarkFile(e, s)
        PROVE  derivatives' = {}
    BY <1>31 DEF MarkFile
  <1>32. CASE UNCHANGED vars
    BY <1>32 DEF vars
  <1>33. Row \in SUBSET Row /\ {"complete", "cancelled"} \in SUBSET Row
    BY DEF Row, Terminal, Outcome
  <1> QED
    BY <1>1, <1>2, <1>3, <1>4, <1>5, <1>6, <1>7, <1>8, <1>9, <1>10, <1>11, <1>12, <1>13, <1>14,
       <1>15, <1>16, <1>17, <1>18, <1>19, <1>20, <1>21, <1>22, <1>23, <1>24, <1>25, <1>26,
       <1>27, <1>28, <1>29, <1>30, <1>31, <1>32, <1>33
    DEF Next, AgentStep, HandlerStep, Arrival, SweepOrphans, SweepAbandoned, ClearCompleted,
        ResetAll

(* One step keeps every row in flight claiming a live job.                 *)
LEMMA ClaimsKept ==
  ASSUME TypeOK, Bound, RetryInv, RowsInv, RowKinds \cap Interleaved = {}, [Next]_vars,
         NEW f \in File
  PROVE  Claims(f)'
  <1> USE DEF RowKinds
  <1>a. SUFFICES ASSUME transcode_status'[f] = "queued"
                 PROVE  \/ job_id'[f] # None /\ status'[job_id'[f]] \in Live
                        \/ \E h \in Handler : req'[h] = Ask("cancel_media", job_id'[f])
    BY DEF Claims
  <1>b. Claims(f) /\ job_id[f] \in Job \cup {None}
    BY DEF RowsInv, TypeOK
  <1>c. CASE \E h \in Handler : req[h].kind = "cancel_media"
    <2>1. PICK h \in Handler : req[h].kind = "cancel_media"
      BY <1>c
    <2>2. HandlerStep(h) \/ UNCHANGED vars
      BY <2>1, Held DEF AdminKinds
    <2>3. CASE HandlerStep(h)
      <3>1. CancelMedia(h)
        BY <2>1, <2>3 DEF HandlerStep, Advance, Release, CommitReport, CommitProgress, CommitDedup,
           QueuePaths, QueueCommit, RetryJob, RetryMedia, CancelJobs
      <3>2. transcode_status[f] = "queued" /\ job_id[f] # req[h].arg /\ UNCHANGED <<status, job_id>>
        BY <1>a, <3>1 DEF CancelMedia, SyncMedia, jobVars
      <3>3. ASSUME NEW g \in Handler, req[g] = Ask("cancel_media", job_id[f]) PROVE FALSE
        <4>1. g # h
          BY <3>2, <3>3 DEF Ask
        <4> QED
          BY <3>1, <3>3, <4>1, Alone DEF CancelMedia, Advance, Ask, AdminKinds
      <3> QED
        BY <1>b, <3>2, <3>3 DEF Claims
    <2>4. CASE UNCHANGED vars
      BY <1>a, <1>b, <2>4 DEF Claims, vars, jobVars, mediaVars
    <2> QED
      BY <2>2, <2>3, <2>4
  <1>d. SUFFICES ASSUME ~\E h \in Handler : req[h].kind = "cancel_media"
                 PROVE  \/ job_id'[f] # None /\ status'[job_id'[f]] \in Live
                        \/ \E h \in Handler : req'[h] = Ask("cancel_media", job_id'[f])
    BY <1>c
  <1>e. transcode_status[f] = "queued" => job_id[f] \in Job /\ status[job_id[f]] \in Live
    BY <1>b, <1>d DEF Claims, Ask
  <1>1. ASSUME NEW w \in Worker, Claim(w)
        PROVE  \/ job_id'[f] # None /\ status'[job_id'[f]] \in Live
               \/ \E h \in Handler : req'[h] = Ask("cancel_media", job_id'[f])
    BY <1>1, <1>a, <1>e, NoneAssumption DEF Claim, TypeOK, jobVars, mediaVars, Live
  <1>2. ASSUME NEW w \in Worker, FileReport(w)
        PROVE  \/ job_id'[f] # None /\ status'[job_id'[f]] \in Live
               \/ \E h \in Handler : req'[h] = Ask("cancel_media", job_id'[f])
    BY <1>2, <1>a, <1>e, NoneAssumption DEF FileReport, TypeOK, jobVars, mediaVars, Live
  <1>3. ASSUME NEW w \in Worker, Unhandled(w)
        PROVE  \/ job_id'[f] # None /\ status'[job_id'[f]] \in Live
               \/ \E h \in Handler : req'[h] = Ask("cancel_media", job_id'[f])
    BY <1>3, <1>a, <1>e, NoneAssumption DEF Unhandled, TypeOK, jobVars, mediaVars, Live
  <1>4. ASSUME NEW w \in Worker, Heartbeat(w)
        PROVE  \/ job_id'[f] # None /\ status'[job_id'[f]] \in Live
               \/ \E h \in Handler : req'[h] = Ask("cancel_media", job_id'[f])
    BY <1>4, <1>a, <1>e, NoneAssumption DEF Heartbeat, TypeOK, jobVars, mediaVars, Live
  <1>5. ASSUME NEW w \in Worker, Crash(w)
        PROVE  \/ job_id'[f] # None /\ status'[job_id'[f]] \in Live
               \/ \E h \in Handler : req'[h] = Ask("cancel_media", job_id'[f])
    BY <1>5, <1>a, <1>e, NoneAssumption DEF Crash, TypeOK, jobVars, mediaVars, Live
  <1>6. ASSUME NEW w \in Worker, Stop(w)
        PROVE  \/ job_id'[f] # None /\ status'[job_id'[f]] \in Live
               \/ \E h \in Handler : req'[h] = Ask("cancel_media", job_id'[f])
    BY <1>6, <1>a, <1>e, NoneAssumption DEF Stop, TypeOK, jobVars, mediaVars, Live
  <1>7. ASSUME NEW w \in Worker, MarkDead(w)
        PROVE  \/ job_id'[f] # None /\ status'[job_id'[f]] \in Live
               \/ \E h \in Handler : req'[h] = Ask("cancel_media", job_id'[f])
    BY <1>7, <1>a, <1>e, NoneAssumption DEF MarkDead, TypeOK, jobVars, mediaVars, Live
  <1>8. ASSUME NEW g \in Handler, Release(g)
        PROVE  \/ job_id'[f] # None /\ status'[job_id'[f]] \in Live
               \/ \E h \in Handler : req'[h] = Ask("cancel_media", job_id'[f])
    BY <1>8, <1>a, <1>e, NoneAssumption DEF Release, Requeue, mediaVars, Live, TypeOK
  <1>9. ASSUME NEW g \in Handler, CommitReport(g)
        PROVE  \/ job_id'[f] # None /\ status'[job_id'[f]] \in Live
               \/ \E h \in Handler : req'[h] = Ask("cancel_media", job_id'[f])
    <2>1. req[g].kind = "report"
      BY <1>9 DEF CommitReport, Advance
    <2>2. report[req[g].arg] \in Outcome
      BY <2>1 DEF TypeOK, Bound, RequestBound, WorkerKinds
    <2>3. MediaOutcome(report[req[g].arg]) # "queued"
      BY <2>2 DEF MediaOutcome, Outcome
    <2> QED
      BY <1>9, <1>a, <1>e, <2>3, NoneAssumption DEF CommitReport, SyncMedia, mediaVars, TypeOK
  <1>10. ASSUME NEW g \in Handler, CommitProgress(g)
        PROVE  \/ job_id'[f] # None /\ status'[job_id'[f]] \in Live
               \/ \E h \in Handler : req'[h] = Ask("cancel_media", job_id'[f])
    BY <1>10, <1>a, <1>e, NoneAssumption DEF CommitProgress, TypeOK, jobVars, mediaVars, Live
  <1>11. ASSUME NEW g \in Handler, CommitDedup(g)
        PROVE  \/ job_id'[f] # None /\ status'[job_id'[f]] \in Live
               \/ \E h \in Handler : req'[h] = Ask("cancel_media", job_id'[f])
    <2>1. req[g].kind = "dedup"
      BY <1>11 DEF CommitDedup, Advance
    <2> QED
      BY <2>1 DEF Bound, RequestBound, RowsInv
  <1>12. ASSUME NEW g \in Handler, QueuePaths(g)
        PROVE  \/ job_id'[f] # None /\ status'[job_id'[f]] \in Live
               \/ \E h \in Handler : req'[h] = Ask("cancel_media", job_id'[f])
    BY <1>12, <1>a, <1>e, NoneAssumption DEF QueuePaths, TypeOK, jobVars, mediaVars, Live
  <1>13. ASSUME NEW g \in Handler, QueueCommit(g)
        PROVE  \/ job_id'[f] # None /\ status'[job_id'[f]] \in Live
               \/ \E h \in Handler : req'[h] = Ask("cancel_media", job_id'[f])
    <2>1. CASE UNCHANGED <<status, source_path, mediaVars>>
      BY <1>a, <1>e, <2>1, NoneAssumption DEF mediaVars
    <2>2. ASSUME NEW j \in Job, status[j] = "unborn", status' = [status EXCEPT ![j] = "waiting"],
                 job_id' = [job_id EXCEPT ![req[g].arg] = j],
                 transcode_status' = [transcode_status EXCEPT ![req[g].arg] = "queued"]
          PROVE  job_id'[f] # None /\ status'[job_id'[f]] \in Live
      BY <1>a, <1>e, <2>2, NoneAssumption DEF TypeOK, Live
    <2> QED
      BY <1>13, <2>1, <2>2 DEF QueueCommit
  <1>14. ASSUME NEW g \in Handler, RetryJob(g)
        PROVE  \/ job_id'[f] # None /\ status'[job_id'[f]] \in Live
               \/ \E h \in Handler : req'[h] = Ask("cancel_media", job_id'[f])
    BY <1>14, <1>a, <1>e, NoneAssumption DEF RetryJob, Requeue, mediaVars, Live, TypeOK
  <1>15. ASSUME NEW g \in Handler, RetryMedia(g)
        PROVE  \/ job_id'[f] # None /\ status'[job_id'[f]] \in Live
               \/ \E h \in Handler : req'[h] = Ask("cancel_media", job_id'[f])
    <2>1. req[g].arg \in Job /\ status[req[g].arg] \in Live
      BY <1>15 DEF RetryMedia, Advance, RowsInv, HalfDone, Bound, RequestBound
    <2> QED
      BY <1>15, <1>a, <1>e, <2>1, NoneAssumption DEF RetryMedia, SyncMedia, TypeOK, jobVars
  <1>16. ASSUME NEW g \in Handler, CancelMedia(g)
        PROVE  \/ job_id'[f] # None /\ status'[job_id'[f]] \in Live
               \/ \E h \in Handler : req'[h] = Ask("cancel_media", job_id'[f])
    BY <1>16, <1>d DEF CancelMedia, Advance
  <1>17. ASSUME NEW g \in Handler, CancelJobs(g)
        PROVE  \/ job_id'[f] # None /\ status'[job_id'[f]] \in Live
               \/ \E h \in Handler : req'[h] = Ask("cancel_media", job_id'[f])
    <2>1. transcode_status[f] = "queued" /\ job_id' = job_id
      BY <1>17, <1>a DEF CancelJobs, mediaVars
    <2>2. status[job_id[f]] # "waiting"
      BY <1>17, <1>e, <2>1, NoneAssumption DEF CancelJobs, Advance, RowsInv, HalfDone
    <2> QED
      BY <1>17, <1>e, <2>1, <2>2, NoneAssumption DEF CancelJobs, TypeOK
  <1>18. ASSUME NEW g \in Handler, NEW w \in Worker, Register(g, w)
        PROVE  \/ job_id'[f] # None /\ status'[job_id'[f]] \in Live
               \/ \E h \in Handler : req'[h] = Ask("cancel_media", job_id'[f])
    BY <1>18, <1>a, <1>e, NoneAssumption DEF Register, TypeOK, jobVars, mediaVars, Live
  <1>19. ASSUME NEW g \in Handler, NEW w \in Worker, CheckDerivative(g, w)
        PROVE  \/ job_id'[f] # None /\ status'[job_id'[f]] \in Live
               \/ \E h \in Handler : req'[h] = Ask("cancel_media", job_id'[f])
    BY <1>19, <1>a, <1>e, NoneAssumption DEF CheckDerivative, TypeOK, jobVars, mediaVars, Live
  <1>20. ASSUME NEW g \in Handler, NEW t \in Token, ReceiveReport(g, t)
        PROVE  \/ job_id'[f] # None /\ status'[job_id'[f]] \in Live
               \/ \E h \in Handler : req'[h] = Ask("cancel_media", job_id'[f])
    BY <1>20, <1>a, <1>e, NoneAssumption DEF ReceiveReport, TypeOK, jobVars, mediaVars, Live
  <1>21. ASSUME NEW g \in Handler, NEW t \in Token, ReceiveProgress(g, t)
        PROVE  \/ job_id'[f] # None /\ status'[job_id'[f]] \in Live
               \/ \E h \in Handler : req'[h] = Ask("cancel_media", job_id'[f])
    BY <1>21, <1>a, <1>e, NoneAssumption DEF ReceiveProgress, TypeOK, jobVars, mediaVars, Live
  <1>22. ASSUME NEW g \in Handler, NEW e \in File, NEW d \in BOOLEAN, QueueFile(g, e, d)
        PROVE  \/ job_id'[f] # None /\ status'[job_id'[f]] \in Live
               \/ \E h \in Handler : req'[h] = Ask("cancel_media", job_id'[f])
    BY <1>22, <1>a, <1>e, NoneAssumption DEF QueueFile, TypeOK, jobVars, mediaVars, Live
  <1>23. ASSUME NEW g \in Handler, NEW i \in Job, Retry(g, i)
        PROVE  \/ job_id'[f] # None /\ status'[job_id'[f]] \in Live
               \/ \E h \in Handler : req'[h] = Ask("cancel_media", job_id'[f])
    BY <1>23, <1>a, <1>e, NoneAssumption DEF Retry, TypeOK, jobVars, mediaVars, Live
  <1>24. ASSUME NEW g \in Handler, NEW i \in Job, Cancel(g, i)
        PROVE  \/ job_id'[f] # None /\ status'[job_id'[f]] \in Live
               \/ \E h \in Handler : req'[h] = Ask("cancel_media", job_id'[f])
    <2>1. transcode_status[f] = "queued" /\ job_id' = job_id /\ req'[g] = Ask("cancel_media", i)
      BY <1>24, <1>a DEF Cancel, Enter, TypeOK, mediaVars
    <2>2. CASE job_id[f] = i
      BY <2>1, <2>2
    <2>3. CASE job_id[f] # i
      BY <1>24, <1>e, <2>1, <2>3, NoneAssumption DEF Cancel, TypeOK
    <2> QED
      BY <2>2, <2>3
  <1>25. ASSUME NEW g \in Handler, CancelAll(g)
        PROVE  \/ job_id'[f] # None /\ status'[job_id'[f]] \in Live
               \/ \E h \in Handler : req'[h] = Ask("cancel_media", job_id'[f])
    BY <1>25, <1>a, <1>e, NoneAssumption DEF CancelAll, TypeOK, jobVars
  <1>26. ASSUME NEW t \in Token, RegisterDerivative(t)
        PROVE  \/ job_id'[f] # None /\ status'[job_id'[f]] \in Live
               \/ \E h \in Handler : req'[h] = Ask("cancel_media", job_id'[f])
    BY <1>26, <1>a, <1>e, NoneAssumption DEF RegisterDerivative, TypeOK, jobVars, mediaVars, Live
  <1>27. ASSUME NEW i \in Job, JobIdles(i)
        PROVE  \/ job_id'[f] # None /\ status'[job_id'[f]] \in Live
               \/ \E h \in Handler : req'[h] = Ask("cancel_media", job_id'[f])
    BY <1>27, <1>a, <1>e, NoneAssumption DEF JobIdles, TypeOK, jobVars, mediaVars, Live
  <1>28. CASE Sweep(Orphans)
    BY <1>28, <1>a, <1>e, NoneAssumption DEF Sweep, Requeue, mediaVars, Live, TypeOK
  <1>29. CASE Sweep(Abandoned)
    BY <1>29, <1>a, <1>e, NoneAssumption DEF Sweep, Requeue, mediaVars, Live, TypeOK
  <1>30. ASSUME NEW st \in SUBSET Row, DeleteJobs(st)
        PROVE  \/ job_id'[f] # None /\ status'[job_id'[f]] \in Live
               \/ \E h \in Handler : req'[h] = Ask("cancel_media", job_id'[f])
    <2>1. transcode_status[f] = "queued" /\ job_id[f] \notin {j \in Job : status[j] \in st}
          /\ job_id'[f] = job_id[f]
      BY <1>30, <1>a DEF DeleteJobs, TypeOK
    <2> QED
      BY <1>30, <1>e, <2>1, NoneAssumption DEF DeleteJobs, TypeOK
  <1>31. ASSUME NEW e \in File, NEW s \in {"skipped", "needs_transcode"}, MarkFile(e, s)
        PROVE  \/ job_id'[f] # None /\ status'[job_id'[f]] \in Live
               \/ \E h \in Handler : req'[h] = Ask("cancel_media", job_id'[f])
    BY <1>31, <1>a, <1>e, NoneAssumption DEF MarkFile, TypeOK, jobVars
  <1>32. CASE UNCHANGED vars
    BY <1>32, <1>a, <1>e, NoneAssumption DEF vars, jobVars, mediaVars
  <1>33. Row \in SUBSET Row /\ {"complete", "cancelled"} \in SUBSET Row
    BY DEF Row, Terminal, Outcome
  <1> QED
    BY <1>1, <1>2, <1>3, <1>4, <1>5, <1>6, <1>7, <1>8, <1>9, <1>10, <1>11, <1>12, <1>13, <1>14,
       <1>15, <1>16, <1>17, <1>18, <1>19, <1>20, <1>21, <1>22, <1>23, <1>24, <1>25, <1>26,
       <1>27, <1>28, <1>29, <1>30, <1>31, <1>32, <1>33
    DEF Next, AgentStep, HandlerStep, Arrival, SweepOrphans, SweepAbandoned, ClearCompleted,
        ResetAll

(* One step keeps what a half-done request relies on.                      *)
LEMMA HalfDoneKept ==
  ASSUME TypeOK, Bound, RetryInv, RowsInv, RowKinds \cap Interleaved = {}, [Next]_vars,
         NEW h \in Handler
  PROVE  HalfDone(h)'
  <1> USE DEF RowKinds
  <1>1. CASE req'[h] = req[h] /\ req[h].kind \in {"retry_media", "cancel_jobs"}
    <2>1. HandlerStep(h) \/ UNCHANGED vars
      BY <1>1, Held DEF AdminKinds
    <2>2. CASE HandlerStep(h)
      <3>1. RetryMedia(h) \/ CancelJobs(h)
        BY <1>1, <2>2 DEF HandlerStep, Advance, Release, CommitReport, CommitProgress, CommitDedup,
           QueuePaths, QueueCommit, RetryJob, CancelMedia
      <3> QED
        BY <1>1, <3>1 DEF RetryMedia, CancelJobs, Advance, Free, Ask, TypeOK
    <2>3. CASE UNCHANGED vars
      BY <2>3 DEF RowsInv, HalfDone, vars, jobVars, mediaVars
    <2> QED
      BY <2>1, <2>2, <2>3
  <1>2. CASE req'[h].kind \notin {"retry_media", "cancel_jobs"}
    BY <1>2 DEF HalfDone
  <1>3. CASE Arrival(h) /\ req'[h].kind \in {"retry_media", "cancel_jobs"}
    <2>1. CancelAll(h)
      BY <1>3 DEF Arrival, Register, CheckDerivative, ReceiveReport, ReceiveProgress, QueueFile, Retry,
         Cancel, Enter, Ask, Free, TypeOK
    <2>2. req'[h].kind = "cancel_jobs"
      BY <2>1 DEF CancelAll, Enter, Ask, TypeOK
    <2>3. \A f \in File : transcode_status'[f] = "queued" /\ job_id'[f] # None =>
             status'[job_id'[f]] # "waiting"
      BY <2>1 DEF CancelAll, TypeOK, jobVars
    <2> QED
      BY <2>2, <2>3 DEF HalfDone
  <1>4. CASE RetryJob(h) /\ req'[h] = Ask("retry_media", req[h].arg)
    <2>1. req[h].arg \in Job /\ status[req[h].arg] \in {"failed", "cancelled"}
      BY <1>4 DEF RetryJob, Advance, RetryInv, Bound, RequestBound
    <2>2. status'[req[h].arg] = "waiting"
      BY <1>4, <2>1 DEF RetryJob, Requeue
    <2> QED
      BY <1>4, <2>2 DEF HalfDone, Ask, Live
  <1>5. CASE HandlerStep(h) /\ req'[h] = Free
    BY <1>5 DEF HalfDone, Free, Ask
  <1>6. CASE QueuePaths(h) /\ req'[h] = Ask("queue_commit", req[h].arg)
    BY <1>6 DEF HalfDone, Ask
  <1> QED
    BY <1>1, <1>2, <1>3, <1>4, <1>5, <1>6, RequestMoves DEF Goes

(* "A row in one of these claims a live job": without S3 libraries, and    *)
(* when nobody comes between the two statements of a retry, a cancel or a  *)
(* cancel-all, a catalog row is in flight only while its job is.           *)
THEOREM RowsClaimLiveJobs ==
  ASSUME S3 = {}, RowKinds \cap Interleaved = {}
  PROVE  Spec => []RowClaimsLiveJob
  <1>1. Init => RowsInv
    BY DEF Init, RowsInv, Claims, HalfDone, Free, Ask
  <1>2. FenceInv /\ RetryInv /\ RowsInv /\ [Next]_vars => RowsInv'
    <2> SUFFICES ASSUME FenceInv, RetryInv, RowsInv, [Next]_vars PROVE RowsInv'
      OBVIOUS
    <2>1. derivatives' = {}
      BY NoDerivative DEF RowsInv, FenceInv
    <2>2. \A f \in File : Claims(f)'
      BY ClaimsKept DEF FenceInv
    <2>3. \A h \in Handler : HalfDone(h)'
      BY HalfDoneKept DEF FenceInv
    <2> QED
      BY <2>1, <2>2, <2>3 DEF RowsInv
  <1>3. RowsInv => RowClaimsLiveJob
    BY DEF RowsInv, Claims, RowClaimsLiveJob
  <1> QED
    BY <1>1, <1>2, <1>3, FenceHolds, ReadsHold, PTL DEF Spec

-----------------------------------------------------------------------------
(* The ledger of attempts that the table implements.                       *)

(* A job that waits is with nobody.                                        *)
LEMMA WaitingFree ==
  ASSUME TypeOK, Owned, NEW j \in Job, status[j] = "waiting"
  PROVE  claim_token[j] = None
  BY DEF Owned, Outcome

(* Requeue, of active jobs, takes them back from their attempts.           *)
LEMMA RequeueTakesBack ==
  ASSUME NEW jobs \in SUBSET Job, \A j \in jobs : status[j] = "active", Requeue(jobs),
         UNCHANGED <<tokenJob, tokenWorker, author>>
  PROVE  Ledger!Next
  <1>1. Ledger!TakeBack(jobs)
    BY DEF Requeue, Ledger!TakeBack, Ledger!Free
  <1> QED
    BY <1>1 DEF Ledger!Next

(* What passes the attempt fence on a live job speaks for its holder.      *)
LEMMA OwnerDecides ==
  ASSUME TypeOK, Owned, Bound, NEW t \in Token, NEW j \in Job, NEW o \in Outcome,
         j = tokenJob[t], status[j] \in Live,
         worker_id[j] = tokenWorker[t], tokenWorker[t] \in Legacy \/ claim_token[j] = t,
         status' = [status EXCEPT ![j] = o], author' = [author EXCEPT ![j] = t],
         UNCHANGED <<claim_token, tokenJob, tokenWorker>>
  PROVE  Ledger!Next
  <1>1. tokenWorker[t] # None
    BY NoneAssumption DEF Bound, AttemptBound
  <1>2. status[j] = "active" /\ tokenWorker[claim_token[j]] = worker_id[j]
    BY <1>1, OwnerStatus DEF Live, Outcome, Issued
  <1>3. Ledger!SpeaksFor(t, j)
    BY <1>2 DEF Ledger!SpeaksFor
  <1>4. Ledger!Decide(j, t, o)
    BY <1>2, <1>3 DEF Ledger!Decide
  <1> QED
    BY <1>4 DEF Ledger!Next, Outcome, Ledger!Outcome

(* A step of the ledger, or none.                                          *)
LedgerMoves == [Ledger!Next]_(Ledger!ledger)

(* Every step of the system is a step of the ledger, or none.              *)
LEMMA LedgerStep ==
  ASSUME TypeOK, Owned, Bound, RetryInv, "retry_job" \notin Interleaved, [Next]_vars
  PROVE  LedgerMoves
  <1>1. ASSUME NEW w \in Worker, Claim(w)
        PROVE  LedgerMoves
    <2>1. PICK j \in Job, t \in Token :
                /\ status[j] = "waiting" /\ tokenJob[t] = None
                /\ status' = [status EXCEPT ![j] = "active"]
                /\ claim_token' = [claim_token EXCEPT ![j] = t]
                /\ tokenJob' = [tokenJob EXCEPT ![t] = j]
                /\ tokenWorker' = [tokenWorker EXCEPT ![t] = w]
                /\ author' = author
      BY <1>1 DEF Claim
    <2>2. Ledger!HandOut(j, t, w)
      BY <2>1 DEF Ledger!HandOut
    <2> QED
      BY <2>2 DEF Ledger!Next, LedgerMoves
  <1>2. ASSUME NEW w \in Worker, FileReport(w)
        PROVE  LedgerMoves
    BY <1>2 DEF FileReport, jobVars, attemptVars, history, LedgerMoves, Ledger!ledger
  <1>3. ASSUME NEW w \in Worker, Unhandled(w)
        PROVE  LedgerMoves
    BY <1>3 DEF Unhandled, jobVars, attemptVars, history, LedgerMoves, Ledger!ledger
  <1>4. ASSUME NEW w \in Worker, Heartbeat(w)
        PROVE  LedgerMoves
    BY <1>4 DEF Heartbeat, jobVars, attemptVars, history, LedgerMoves, Ledger!ledger
  <1>5. ASSUME NEW w \in Worker, Crash(w)
        PROVE  LedgerMoves
    BY <1>5 DEF Crash, jobVars, attemptVars, history, LedgerMoves, Ledger!ledger
  <1>6. ASSUME NEW w \in Worker, Stop(w)
        PROVE  LedgerMoves
    BY <1>6 DEF Stop, jobVars, attemptVars, history, LedgerMoves, Ledger!ledger
  <1>7. ASSUME NEW w \in Worker, MarkDead(w)
        PROVE  LedgerMoves
    BY <1>7 DEF MarkDead, jobVars, attemptVars, history, LedgerMoves, Ledger!ledger
  <1>8. ASSUME NEW h \in Handler, Release(h)
        PROVE  LedgerMoves
    <2> DEFINE jobs == {j \in Job : worker_id[j] = req[h].arg /\ status[j] = "active"}
    <2>1. Requeue(jobs) /\ UNCHANGED <<tokenJob, tokenWorker, author>>
      BY <1>8 DEF Release, attemptVars, history
    <2>2. jobs \in SUBSET Job /\ \A j \in jobs : status[j] = "active"
      OBVIOUS
    <2> HIDE DEF jobs
    <2> QED
      BY <2>1, <2>2, RequeueTakesBack DEF LedgerMoves
  <1>9. ASSUME NEW h \in Handler, CommitReport(h)
        PROVE  LedgerMoves
    <2> DEFINE t == req[h].arg
               j == tokenJob[t]
    <2>1. req[h].kind = "report"
      BY <1>9 DEF CommitReport, Advance
    <2>2. t \in Token /\ j \in Job /\ report[t] \in Outcome
      BY <2>1 DEF TypeOK, Bound, RequestBound, WorkerKinds, Outcome
    <2>3. UNCHANGED <<claim_token, tokenJob, tokenWorker>>
      BY <1>9 DEF CommitReport, attemptVars
    <2>4. CASE AttemptFence(t) /\ status[j] \in Live
      <3>1. /\ status' = [status EXCEPT ![j] = report[t]]
            /\ author' = [author EXCEPT ![j] = t]
        BY <1>9, <2>4 DEF CommitReport
      <3>2. worker_id[j] = tokenWorker[t] /\ (tokenWorker[t] \in Legacy \/ claim_token[j] = t)
        BY <2>4 DEF AttemptFence
      <3> HIDE DEF t, j
      <3> QED
        BY <2>2, <2>3, <2>4, <3>1, <3>2, OwnerDecides DEF j, LedgerMoves
    <2>5. CASE ~(AttemptFence(t) /\ status[j] \in Live)
      <3>1. UNCHANGED <<status, author>>
        BY <1>9, <2>5 DEF CommitReport
      <3> QED
        BY <2>3, <3>1 DEF Ledger!ledger, LedgerMoves
    <2> QED
      BY <2>4, <2>5 DEF LedgerMoves
  <1>10. ASSUME NEW h \in Handler, CommitProgress(h)
        PROVE  LedgerMoves
    BY <1>10 DEF CommitProgress, jobVars, attemptVars, history, LedgerMoves, Ledger!ledger
  <1>11. ASSUME NEW h \in Handler, CommitDedup(h)
        PROVE  LedgerMoves
    <2> DEFINE t == req[h].arg
               j == tokenJob[t]
    <2>1. req[h].kind = "dedup"
      BY <1>11 DEF CommitDedup, Advance
    <2>2. t \in Token /\ j \in Job /\ "complete" \in Outcome
      BY <2>1 DEF TypeOK, Bound, RequestBound, WorkerKinds, Outcome
    <2>3. UNCHANGED <<claim_token, tokenJob, tokenWorker>>
      BY <1>11 DEF CommitDedup, attemptVars
    <2>4. CASE AttemptFence(t) /\ status[j] \in Live
      <3>1. /\ status' = [status EXCEPT ![j] = "complete"]
            /\ author' = [author EXCEPT ![j] = t]
        BY <1>11, <2>4 DEF CommitDedup
      <3>2. worker_id[j] = tokenWorker[t] /\ (tokenWorker[t] \in Legacy \/ claim_token[j] = t)
        BY <2>4 DEF AttemptFence
      <3> HIDE DEF t, j
      <3> QED
        BY <2>2, <2>3, <2>4, <3>1, <3>2, OwnerDecides DEF j, LedgerMoves
    <2>5. CASE ~(AttemptFence(t) /\ status[j] \in Live)
      <3>1. UNCHANGED <<status, author>>
        BY <1>11, <2>5 DEF CommitDedup
      <3> QED
        BY <2>3, <3>1 DEF Ledger!ledger, LedgerMoves
    <2> QED
      BY <2>4, <2>5 DEF LedgerMoves
  <1>12. ASSUME NEW h \in Handler, QueuePaths(h)
        PROVE  LedgerMoves
    BY <1>12 DEF QueuePaths, jobVars, attemptVars, history, LedgerMoves, Ledger!ledger
  <1>13. ASSUME NEW h \in Handler, QueueCommit(h)
        PROVE  LedgerMoves
    <2>1. UNCHANGED <<claim_token, tokenJob, tokenWorker, author>>
      BY <1>13 DEF QueueCommit, attemptVars, history
    <2>2. CASE UNCHANGED status
      BY <2>1, <2>2 DEF Ledger!ledger, LedgerMoves
    <2>3. CASE \E j \in Job : status[j] = "unborn" /\ status' = [status EXCEPT ![j] = "waiting"]
      BY <2>1, <2>3 DEF Ledger!Next, Ledger!Create, LedgerMoves
    <2> QED
      BY <1>13, <2>2, <2>3 DEF QueueCommit, LedgerMoves
  <1>14. ASSUME NEW h \in Handler, RetryJob(h)
        PROVE  LedgerMoves
    <2> DEFINE j == req[h].arg
    <2>1. req[h].kind = "retry_job"
      BY <1>14 DEF RetryJob, Advance
    <2>2. j \in Job /\ status[j] \in {"failed", "cancelled"}
      BY <2>1 DEF Bound, RequestBound, RetryInv
    <2>3. {j} \ {i \in Job : status[i] = "deleted"} = {j}
      BY <2>2
    <2>4. Requeue({j}) /\ UNCHANGED <<tokenJob, tokenWorker, author>>
      BY <1>14, <2>3 DEF RetryJob, attemptVars, history
    <2> HIDE DEF j
    <2>5. Ledger!Reopen(j)
      BY <2>2, <2>4 DEF Requeue, Ledger!Reopen, Ledger!Free
    <2> QED
      BY <2>2, <2>5 DEF Ledger!Next, LedgerMoves
  <1>15. ASSUME NEW h \in Handler, RetryMedia(h)
        PROVE  LedgerMoves
    BY <1>15 DEF RetryMedia, jobVars, attemptVars, history, LedgerMoves, Ledger!ledger
  <1>16. ASSUME NEW h \in Handler, CancelMedia(h)
        PROVE  LedgerMoves
    BY <1>16 DEF CancelMedia, jobVars, attemptVars, history, LedgerMoves, Ledger!ledger
  <1>17. ASSUME NEW h \in Handler, CancelJobs(h)
        PROVE  LedgerMoves
    <2> DEFINE jobs == {j \in Job : status[j] = "waiting"}
    <2>1. status' = [j \in Job |-> IF j \in jobs THEN "cancelled" ELSE status[j]]
      BY <1>17 DEF CancelJobs
    <2>2. UNCHANGED <<claim_token, tokenJob, tokenWorker, author>>
      BY <1>17 DEF CancelJobs, attemptVars, history
    <2>3. claim_token = [j \in Job |-> IF j \in jobs THEN None ELSE claim_token[j]]
      BY WaitingFree DEF TypeOK
    <2>4. jobs \in SUBSET Job /\ \A j \in jobs : status[j] = "waiting"
      OBVIOUS
    <2> HIDE DEF jobs
    <2>5. Ledger!Cancel(jobs)
      BY <2>1, <2>2, <2>3, <2>4 DEF Ledger!Cancel, Ledger!Free
    <2> QED
      BY <2>4, <2>5 DEF Ledger!Next, LedgerMoves
  <1>18. ASSUME NEW h \in Handler, NEW w \in Worker, Register(h, w)
        PROVE  LedgerMoves
    BY <1>18 DEF Register, jobVars, attemptVars, history, LedgerMoves, Ledger!ledger
  <1>19. ASSUME NEW h \in Handler, NEW w \in Worker, CheckDerivative(h, w)
        PROVE  LedgerMoves
    BY <1>19 DEF CheckDerivative, jobVars, attemptVars, history, LedgerMoves, Ledger!ledger
  <1>20. ASSUME NEW h \in Handler, NEW t \in Token, ReceiveReport(h, t)
        PROVE  LedgerMoves
    BY <1>20 DEF ReceiveReport, jobVars, attemptVars, history, LedgerMoves, Ledger!ledger
  <1>21. ASSUME NEW h \in Handler, NEW t \in Token, ReceiveProgress(h, t)
        PROVE  LedgerMoves
    BY <1>21 DEF ReceiveProgress, jobVars, attemptVars, history, LedgerMoves, Ledger!ledger
  <1>22. ASSUME NEW h \in Handler, NEW f \in File, NEW d \in BOOLEAN, QueueFile(h, f, d)
        PROVE  LedgerMoves
    BY <1>22 DEF QueueFile, jobVars, attemptVars, history, LedgerMoves, Ledger!ledger
  <1>23. ASSUME NEW h \in Handler, NEW i \in Job, Retry(h, i)
        PROVE  LedgerMoves
    BY <1>23 DEF Retry, jobVars, attemptVars, history, LedgerMoves, Ledger!ledger
  <1>24. ASSUME NEW h \in Handler, NEW i \in Job, Cancel(h, i)
        PROVE  LedgerMoves
    <2>1. /\ status[i] = "waiting" /\ status' = [status EXCEPT ![i] = "cancelled"]
          /\ UNCHANGED <<claim_token, tokenJob, tokenWorker, author>>
      BY <1>24 DEF Cancel, attemptVars, history
    <2>2. status' = [j \in Job |-> IF j \in {i} THEN "cancelled" ELSE status[j]]
      BY <2>1 DEF TypeOK
    <2>3. claim_token = [j \in Job |-> IF j \in {i} THEN None ELSE claim_token[j]]
      BY <2>1, WaitingFree DEF TypeOK
    <2>4. Ledger!Cancel({i})
      BY <2>1, <2>2, <2>3 DEF Ledger!Cancel, Ledger!Free
    <2> QED
      BY <2>4 DEF Ledger!Next, LedgerMoves
  <1>25. ASSUME NEW h \in Handler, CancelAll(h)
        PROVE  LedgerMoves
    BY <1>25 DEF CancelAll, jobVars, attemptVars, history, LedgerMoves, Ledger!ledger
  <1>26. ASSUME NEW t \in Token, RegisterDerivative(t)
        PROVE  LedgerMoves
    BY <1>26 DEF RegisterDerivative, jobVars, attemptVars, history, LedgerMoves, Ledger!ledger
  <1>27. ASSUME NEW i \in Job, JobIdles(i)
        PROVE  LedgerMoves
    BY <1>27 DEF JobIdles, jobVars, attemptVars, history, LedgerMoves, Ledger!ledger
  <1>28. CASE Sweep(Orphans)
    <2>1. Requeue(Orphans) /\ UNCHANGED <<tokenJob, tokenWorker, author>>
      BY <1>28 DEF Sweep, attemptVars, history
    <2>2. Orphans \in SUBSET Job /\ \A j \in Orphans : status[j] = "active"
      BY DEF Orphans
    <2> QED
      BY <2>1, <2>2, RequeueTakesBack DEF LedgerMoves
  <1>29. CASE Sweep(Abandoned)
    <2>1. Requeue(Abandoned) /\ UNCHANGED <<tokenJob, tokenWorker, author>>
      BY <1>29 DEF Sweep, attemptVars, history
    <2>2. Abandoned \in SUBSET Job /\ \A j \in Abandoned : status[j] = "active"
      BY DEF Abandoned
    <2> QED
      BY <2>1, <2>2, RequeueTakesBack DEF LedgerMoves
  <1>30. ASSUME NEW st \in SUBSET Row, DeleteJobs(st)
        PROVE  LedgerMoves
    <2> DEFINE gone == {j \in Job : status[j] \in st}
    <2>1. /\ status' = [j \in Job |-> IF j \in gone THEN "deleted" ELSE status[j]]
          /\ claim_token' = [j \in Job |-> IF j \in gone THEN None ELSE claim_token[j]]
          /\ UNCHANGED <<tokenJob, tokenWorker, author>>
      BY <1>30 DEF DeleteJobs, attemptVars, history
    <2>2. gone \in SUBSET Job /\ \A j \in gone : status[j] \in Ledger!Known
      BY DEF Row, Live, Terminal, Outcome, Ledger!Known, Ledger!Outcome
    <2> HIDE DEF gone
    <2>3. Ledger!Delete(gone)
      BY <2>1, <2>2 DEF Ledger!Delete, Ledger!Free
    <2> QED
      BY <2>2, <2>3 DEF Ledger!Next, LedgerMoves
  <1>31. ASSUME NEW f \in File, NEW s \in {"skipped", "needs_transcode"}, MarkFile(f, s)
        PROVE  LedgerMoves
    BY <1>31 DEF MarkFile, jobVars, attemptVars, history, LedgerMoves, Ledger!ledger
  <1>32. CASE UNCHANGED vars
    BY <1>32 DEF vars, jobVars, attemptVars, history, LedgerMoves, Ledger!ledger
  <1>33. Row \in SUBSET Row /\ {"complete", "cancelled"} \in SUBSET Row
    BY DEF Row, Terminal, Outcome
  <1> QED
    BY <1>1, <1>2, <1>3, <1>4, <1>5, <1>6, <1>7, <1>8, <1>9, <1>10, <1>11, <1>12, <1>13, <1>14,
       <1>15, <1>16, <1>17, <1>18, <1>19, <1>20, <1>21, <1>22, <1>23, <1>24, <1>25, <1>26,
       <1>27, <1>28, <1>29, <1>30, <1>31, <1>32, <1>33
    DEF Next, AgentStep, HandlerStep, Arrival, SweepOrphans, SweepAbandoned, ClearCompleted,
        ResetAll

(* The job table implements the ledger of attempts (finalize_job,          *)
(* requeue_orphan_active_jobs, requeue_abandoned_active_jobs, register,    *)
(* cancel_if_waiting, delete_jobs): an attempt is handed out once, a job   *)
(* is with one attempt at a time and decided at most once by it, whatever  *)
(* is crashed, swept, lost, repeated or late, when nobody comes between    *)
(* retry_job's status check and its write.                                 *)
THEOREM QueueRefinesLedger ==
  ASSUME "retry_job" \notin Interleaved
  PROVE  Spec => LedgerSpec
  <1>1. Init => Ledger!Init
    BY DEF Init, Ledger!Init
  <1>2. FenceInv /\ RetryInv /\ [Next]_vars => [Ledger!Next]_(Ledger!ledger)
    BY LedgerStep DEF FenceInv, LedgerMoves
  <1> QED
    BY <1>1, <1>2, FenceHolds, ReadsHold, PTL DEF Spec, LedgerSpec, Ledger!Spec
=============================================================================
