---------------------------- MODULE FenceProofs ----------------------------
(***************************************************************************)
(* A worker in a partition has asked its job to stop before the scheduler  *)
(* gives it away, for every choice of the times that TimesAssumption       *)
(* admits.                                                                 *)
(***************************************************************************)
EXTENDS Fence, TLAPS

\* The threshold of fence_after_seconds is never negative, and Slack is what it leaves of
\* the grace; there is some if the margin covers a round, which start() warns of.
LEMMA FenceThreshold ==
    /\ fence_after_seconds \in Nat
    /\ fence_after_seconds + Slack + Interval + Timeout = Grace
    /\ Slack \in Int
    /\ Interval + Timeout =< Margin => Slack \in Nat
BY TimesAssumption DEF fence_after_seconds, Slack

-----------------------------------------------------------------------------
\* The initial states satisfy the invariant: nothing runs yet.
LEMMA FenceInit == Init => FenceInv
<1> SUFFICES ASSUME Init PROVE FenceInv
    OBVIOUS
<1>1. /\ up \in BOOLEAN /\ fenced \in BOOLEAN /\ unguarded \in BOOLEAN /\ alive \in BOOLEAN
      /\ abort_requested \in BOOLEAN /\ swept \in BOOLEAN /\ ~swept
    BY Zenon DEF Init
<1> QED
    BY <1>1, TimesAssumption DEF Init, FenceInv, TypeOK

\* Time passes no deadline of a sleep or a request (Tick).
LEMMA TickKeeps == FenceInv /\ Tick => FenceInv'
BY TimesAssumption DEF FenceInv, TypeOK, ArmedBy, Tick, worker, job_in_flight, scheduler

\* The end of the interval starts the next heartbeat (Wake in _heartbeat_loop); a skipped
\* one sleeps again.
LEMMA WakeKeeps == FenceInv /\ (Wake \/ SkipBeat) => FenceInv'
BY TimesAssumption DEF FenceInv, TypeOK, ArmedBy, Wake, SkipBeat, job_in_flight, scheduler

\* An answered heartbeat restarts the fence's clock.
LEMMA AnswerKeeps == FenceInv /\ HeartbeatAnswered => FenceInv'
<1> SUFFICES ASSUME FenceInv, HeartbeatAnswered PROVE FenceInv'
    OBVIOUS
<1>1. (fenced \in BOOLEAN)' /\ ~fenced'
    BY Zenon DEF HeartbeatAnswered
<1> QED
    BY <1>1, TimesAssumption, FenceThreshold
    DEF FenceInv, TypeOK, ArmedBy, HeartbeatAnswered, job_in_flight, scheduler

\* A failed heartbeat asks the job to stop if the threshold has passed; if it has not, the
\* next round comes soon enough.
LEMMA FailureKeeps == FenceInv /\ HeartbeatFails => FenceInv'
<1> SUFFICES ASSUME FenceInv, HeartbeatFails PROVE FenceInv'
    OBVIOUS
<1> USE TimesAssumption, FenceThreshold
<1>1. /\ fenced \in BOOLEAN /\ abort_requested \in BOOLEAN /\ unguarded \in BOOLEAN
      /\ swept \in BOOLEAN /\ up \in BOOLEAN /\ alive \in BOOLEAN
    BY Zenon DEF FenceInv, TypeOK
<1>2. /\ fenced' = (fenced \/ Fences) /\ abort_requested' = (abort_requested \/ Fences)
      /\ unguarded' = unguarded /\ swept' = swept /\ up' = up /\ alive' = alive
    BY Zenon DEF HeartbeatFails, scheduler
<1>3. /\ fenced' \in BOOLEAN /\ abort_requested' \in BOOLEAN /\ unguarded' \in BOOLEAN
      /\ swept' \in BOOLEAN /\ up' \in BOOLEAN /\ alive' \in BOOLEAN
    BY <1>1, <1>2, Zenon
<1>4. ASSUME task # "none", ~abort_requested', ~unguarded
      PROVE  ~fenced' /\ ArmedBy(now)
    <2>1. ~abort_requested /\ ~Fences
        BY <1>2, <1>4, Zenon
    <2>2. ~fenced
        BY <1>4, <2>1, Zenon DEF FenceInv
    <2>3. ~fenced'
        BY <1>2, <2>1, <2>2, Zenon
    <2>4. now - last_contact < fence_after_seconds
        BY <1>4, <2>1, <2>2 DEF Fences, FenceInv, TypeOK
    <2> QED
        BY <2>3, <2>4 DEF ArmedBy, FenceInv, TypeOK
<1>5. swept' => abort_requested'
    BY <1>2, Zenon DEF FenceInv
<1> QED
    BY <1>3, <1>4, <1>5 DEF FenceInv, TypeOK, ArmedBy, HeartbeatFails, scheduler

\* A claim arms the fence from its own moment, unless an earlier outage left it spent.
LEMMA ClaimKeeps == FenceInv /\ Claim => FenceInv'
<1> SUFFICES ASSUME FenceInv, Claim PROVE FenceInv'
    OBVIOUS
<1>1. /\ unguarded' = fenced /\ fenced' = fenced /\ unguarded' \in BOOLEAN
      /\ ~unguarded' => ~fenced'
    BY Zenon DEF Claim, FenceInv, TypeOK
<1> QED
    BY <1>1, TimesAssumption DEF FenceInv, TypeOK, ArmedBy, Claim

\* The end of a job takes its abort request with it.
LEMMA EndKeeps == FenceInv /\ EndJob => FenceInv'
<1> SUFFICES ASSUME FenceInv, EndJob PROVE FenceInv'
    OBVIOUS
<1>1. abort_requested' \in BOOLEAN /\ swept' \in BOOLEAN /\ ~swept'
    BY Zenon DEF EndJob
<1> QED
    BY <1>1, TimesAssumption DEF FenceInv, TypeOK, ArmedBy, EndJob, scheduler

-----------------------------------------------------------------------------
\* A protected attempt that nobody asked to stop is inside the sweep's grace: what the
\* sweep would have to see contradicts the deadlines of the fence.
LEMMA SweepComesLater ==
    FenceInv /\ requeue_orphan_active_jobs => task = "none" \/ abort_requested \/ Unprotected
<1> SUFFICES ASSUME FenceInv, requeue_orphan_active_jobs,
                    task # "none", ~abort_requested, ~unguarded,
                    last_contact - updated_at =< Slack
             PROVE  FALSE
    BY FenceThreshold DEF FenceInv, TypeOK, Unprotected
<1> USE TimesAssumption, FenceThreshold
<1>1. now > updated_at + Grace
    BY DEF requeue_orphan_active_jobs, FenceInv, TypeOK
<1>2. ASSUME NEW t \in Int, ArmedBy(t)
      PROVE  t + Interval + Timeout =< updated_at + Grace
    BY <1>2 DEF ArmedBy, FenceInv, TypeOK
<1>3. CASE loop = "sleep"
    <2>1. ArmedBy(since) /\ now =< since + Interval /\ since \in Int
        BY <1>3 DEF FenceInv, TypeOK
    <2> QED
        BY <1>1, <1>2, <2>1 DEF FenceInv, TypeOK
<1>4. CASE loop = "call"
    <2>1. ArmedBy(since - Interval) /\ now =< since + Timeout /\ since - Interval \in Int
        BY <1>4 DEF FenceInv, TypeOK
    <2> QED
        BY <1>1, <1>2, <2>1 DEF FenceInv, TypeOK
<1> QED
    BY <1>3, <1>4 DEF FenceInv, TypeOK

\* The sweep leaves the fence's clock alone, and what it takes from under the fence has
\* been asked to stop.
LEMMA SweepKeeps == FenceInv /\ requeue_orphan_active_jobs => FenceInv'
<1> SUFFICES ASSUME FenceInv, requeue_orphan_active_jobs PROVE FenceInv'
    OBVIOUS
<1>1. /\ swept' = (task # "none" /\ ~Unprotected) /\ swept' \in BOOLEAN
      /\ abort_requested' = abort_requested
    BY Zenon DEF requeue_orphan_active_jobs, worker, job_in_flight
<1>2. swept' => abort_requested'
    BY <1>1, SweepComesLater, Zenon
<1> QED
    BY <1>1, <1>2, TimesAssumption
    DEF FenceInv, TypeOK, ArmedBy, requeue_orphan_active_jobs, worker, job_in_flight

\* The network, the scheduler's other steps, and what the job does in between leave the
\* fence's clock alone.
LEMMA OtherKeeps ==
    ASSUME FenceInv,
           \/ Cut \/ Heal \/ HandleHeartbeat \/ StartPipeline \/ StartCommit \/ Progress
           \/ Report \/ cleanup_stale_workers
    PROVE  FenceInv'
<1> USE TimesAssumption DEF FenceInv, TypeOK, ArmedBy
<1>1. CASE Cut \/ Heal
    <2>1. (up \in BOOLEAN)'
        BY <1>1, Zenon DEF Cut, Heal
    <2> QED
        BY <1>1, <2>1 DEF Cut, Heal, worker, job_in_flight, scheduler
<1>2. CASE HandleHeartbeat
    BY <1>2 DEF HandleHeartbeat, worker, job_in_flight
<1>3. CASE StartPipeline \/ StartCommit
    BY <1>3 DEF StartPipeline, StartCommit, scheduler
<1>4. CASE Progress
    BY <1>4 DEF Progress, worker, job_in_flight
<1>5. CASE Report
    BY <1>5 DEF Report, worker, job_in_flight
<1>6. CASE cleanup_stale_workers
    BY <1>6 DEF cleanup_stale_workers, worker, job_in_flight
<1> QED
    BY <1>1, <1>2, <1>3, <1>4, <1>5, <1>6

\* Every step of worker, scheduler, network and time preserves the invariant.
LEMMA FenceStep == FenceInv /\ [Next]_vars => FenceInv'
<1> SUFFICES ASSUME FenceInv, [Next]_vars PROVE FenceInv'
    OBVIOUS
<1>1. CASE UNCHANGED vars
    BY <1>1 DEF FenceInv, TypeOK, ArmedBy, vars, worker, job_in_flight, scheduler
<1> QED
    BY <1>1, TickKeeps, WakeKeeps, AnswerKeeps, FailureKeeps, ClaimKeeps, EndKeeps,
       SweepKeeps, OtherKeeps DEF Next

\* A guarded job that nobody asked to stop is within one round of the heartbeat loop of the
\* moment its fence was armed (_heartbeat_loop).
LEMMA FenceHolds == Spec => []FenceInv
BY FenceInit, FenceStep, PTL DEF Spec

-----------------------------------------------------------------------------
\* No sweep takes a job from a worker that has not asked it to stop, but for a job that was
\* already quiet for longer than Slack at the last contact and one claimed with the fence
\* spent (_heartbeat_loop against requeue_orphan_active_jobs).
THEOREM WorkerFencedFirst == Spec => FencedFirst
<1>1. FenceInv /\ [Next]_vars
        => [requeue_orphan_active_jobs => task = "none" \/ abort_requested \/ Unprotected]_vars
    BY SweepComesLater
<1> QED
    BY <1>1, FenceHolds, PTL DEF Spec, FencedFirst

\* An abort that lands while the source is fetched outlives the fetch: no encode starts on
\* a job that was taken from under the fence (_process_job, line 578).
THEOREM NoEncodeOfSwept == Spec => SweptNeverEncoded
<1>1. FenceInv /\ [Next]_vars => [StartPipeline => ~swept]_vars
    BY Zenon DEF FenceInv, StartPipeline
<1> QED
    BY <1>1, FenceHolds, PTL DEF Spec, SweptNeverEncoded
=============================================================================
