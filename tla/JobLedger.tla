----------------------------- MODULE JobLedger -----------------------------
(***************************************************************************)
(* What the job table promises, abstractly, of an attempt at a job: it is  *)
(* handed out once, to one worker, for a job that waits; a job is with at  *)
(* most one attempt; only the attempt it is with can decide it, and only   *)
(* once (repos/jobs.py, "the attempt fence"); a decision stands until the  *)
(* operator reopens a job that failed, or deletes it.  How an attempt is   *)
(* lost and its job taken back - crashes, registrations, sweeps - and how  *)
(* its report travels does not matter here.                                *)
(***************************************************************************)
CONSTANTS
    Job, Worker, Token, None,
    Legacy   \* the workers that are known by their id alone

VARIABLES
    status,  \* of each job
    holder,  \* the attempt it is with, or was with when it was decided
    task,    \* the job of each attempt
    bearer,  \* the worker of each attempt
    author   \* the attempt that decided each job last

ledger == <<status, holder, task, bearer, author>>

Outcome == {"complete", "skipped", "failed"}
Known   == {"waiting", "active", "cancelled"} \cup Outcome

Init ==
    /\ status = [j \in Job |-> "unborn"]
    /\ holder = [j \in Job |-> None]
    /\ task = [t \in Token |-> None]
    /\ bearer = [t \in Token |-> None]
    /\ author = [j \in Job |-> None]

Create(j) ==
    /\ status[j] = "unborn"
    /\ status' = [status EXCEPT ![j] = "waiting"]
    /\ UNCHANGED <<holder, task, bearer, author>>

HandOut(j, t, w) ==
    /\ status[j] = "waiting" /\ task[t] = None
    /\ status' = [status EXCEPT ![j] = "active"]
    /\ holder' = [holder EXCEPT ![j] = t]
    /\ task' = [task EXCEPT ![t] = j]
    /\ bearer' = [bearer EXCEPT ![t] = w]
    /\ UNCHANGED author

\* A worker without claim tokens speaks for the job with any of its attempts at it.
SpeaksFor(t, j) ==
    \/ t = holder[j]
    \/ task[t] = j /\ bearer[t] = bearer[holder[j]] /\ bearer[t] \in Legacy

Decide(j, t, o) ==
    /\ status[j] = "active" /\ SpeaksFor(t, j)
    /\ status' = [status EXCEPT ![j] = o]
    /\ author' = [author EXCEPT ![j] = t]
    /\ UNCHANGED <<holder, task, bearer>>

\* Some jobs change hands together: to status s, and to nobody.
Free(jobs, s) ==
    /\ status' = [j \in Job |-> IF j \in jobs THEN s ELSE status[j]]
    /\ holder' = [j \in Job |-> IF j \in jobs THEN None ELSE holder[j]]
    /\ UNCHANGED <<task, bearer, author>>

TakeBack(jobs) == (\A j \in jobs : status[j] = "active") /\ Free(jobs, "waiting")
Cancel(jobs)   == (\A j \in jobs : status[j] = "waiting") /\ Free(jobs, "cancelled")
Reopen(j)      == status[j] \in {"failed", "cancelled"} /\ Free({j}, "waiting")
Delete(jobs)   == (\A j \in jobs : status[j] \in Known) /\ Free(jobs, "deleted")

Next ==
    \/ \E j \in Job : Create(j) \/ Reopen(j)
    \/ \E j \in Job, t \in Token, w \in Worker : HandOut(j, t, w)
    \/ \E j \in Job, t \in Token, o \in Outcome : Decide(j, t, o)
    \/ \E jobs \in SUBSET Job : TakeBack(jobs) \/ Cancel(jobs) \/ Delete(jobs)

Spec == Init /\ [][Next]_ledger
=============================================================================
