------------------------------- MODULE Outbox -------------------------------
(***************************************************************************)
(* One worker agent and the journal of reports it has not delivered yet    *)
(* (worker/outbox.py, worker/reliability.py and the delivery half of       *)
(* worker/http_agent.py).  The scheduler is the set of job rows the agent  *)
(* has claimed, with the answers its report endpoints give.                *)
(*                                                                         *)
(* A report is journaled, then sent, and its file is deleted when the      *)
(* answer is definitive.  A request may be lost, arrive after the agent    *)
(* stopped waiting, or be handled with its answer lost; the agent may die  *)
(* at any await; the disk may refuse a write or a delete, or return an     *)
(* unreadable file.                                                        *)
(*                                                                         *)
(* "failed" stands for the reports failed and skipped, which differ only   *)
(* in payload.  Attempt counts stop at PoisonAttempts, from where the code *)
(* tells them apart no more.  Time is the set of entries in cooldown.      *)
(***************************************************************************)
EXTENDS Naturals, Sequences

CONSTANTS
    Job,             \* job ids
    S3,              \* the jobs whose output goes to a bucket
    Poison,          \* report kinds the scheduler answers with a 500
    None,            \* no job, no entry
    PoisonAttempts,  \* POISON_ATTEMPTS
    Faults,          \* misbehaviour that may happen, see AllFaults
    MaxFaults,       \* bound: ends of the process, disk errors, requeues, revocations
    MaxClaims        \* bound: claims, and so claim tokens

\* disk: the state directory refuses a write or a delete, or returns an unreadable file
\* auth: the operator revokes the worker's token and issues another
AllFaults == {"disk", "auth"}

Token == 1 .. MaxClaims
Outcomes == {"complete", "failed"}
MILESTONE_KINDS == Outcomes \cup {"register_derivative"}
Report == [job : Job, token : Token, kind : MILESTONE_KINDS]
Entry == [seq : Nat \ {0}, report : Report, attempts : 0 .. PoisonAttempts]
Attempt == [job : Job, token : Token]

ASSUME JobAssumption    == S3 \subseteq Job /\ None \notin Job \cup Attempt \cup Entry
ASSUME KindAssumption   == Poison \subseteq MILESTONE_KINDS
ASSUME BoundAssumption  == MaxFaults \in Nat /\ MaxClaims \in Nat /\ PoisonAttempts \in Nat \ {0}
ASSUME FaultsAssumption == Faults \subseteq AllFaults

VARIABLES
    \* the state directory
    journal,      \* entries: [seq, report, attempts]
    hot,          \* seqs whose last failed attempt is within POISON_COOLDOWN_S
    quarantined,  \* reports renamed to .corrupt
    \* the agent
    pc,           \* the await the agent is at
    caller,       \* who called _drain_outbox, or is about to
    cur,          \* _current_job_id and _claim_token, as [job, token]
    script,       \* kinds the running job has still to report
    todo,         \* entries this drain pass has read and not looked at
    blocked,      \* jobs whose chain this pass has stopped
    auth_blocked,
    sending,      \* the entry whose answer the agent waits for
    answer,       \* the answer on its way back
    \* the scheduler
    row,          \* the job rows, as this worker's reports see them
    revoked,      \* the worker's token is not accepted
    wire,         \* reports sent and not yet arrived
    claims,       \* claims so far
    \* history
    decided,      \* reports that were journaled
    direct,       \* reports sent past the journal
    accepted,     \* reports the scheduler took
    refused,      \* reports the scheduler turned down for good
    taken,        \* what took an attempt from the worker
    faults        \* misbehaviour so far

agent   == <<pc, caller, cur, script, todo, blocked, auth_blocked, sending, answer>>
disk    == <<journal, hot, quarantined>>
server  == <<row, revoked, wire, claims>>
history == <<decided, direct, accepted, refused, taken>>
vars    == <<agent, disk, server, history, faults>>

Pending == {e.report : e \in journal}

Fault(kind) ==
    /\ kind \in Faults \cup {"crash", "requeue"}
    /\ faults < MaxFaults
    /\ faults' = faults + 1

-----------------------------------------------------------------------------
(* The journal.  entries() sorts by file name, which is by seq.            *)

First(entries) == CHOOSE e \in entries : \A f \in entries : e.seq =< f.seq

next_seq == IF journal = {} THEN 1
             ELSE 1 + (CHOOSE e \in journal : \A f \in journal : f.seq =< e.seq).seq

append(report) ==
    /\ journal' = journal \cup {[seq |-> next_seq, report |-> report, attempts |-> 0]}
    /\ decided' = decided \cup {report}
    /\ UNCHANGED <<hot, quarantined>>

delete(entry) ==
    /\ journal' = {e \in journal : e.seq # entry.seq}
    /\ hot' = hot \ {entry.seq}

Bumped(entry) ==
    [entry EXCEPT !.attempts = IF @ < PoisonAttempts THEN @ + 1 ELSE @]

\* Mutant of bump_attempts: the file is overwritten in place, and lost when the disk refuses.
bump_attempts_in_place(entry) ==
    \/ /\ journal' = {e \in journal : e.seq # entry.seq} \cup {Bumped(entry)}
       /\ hot' = hot \cup {entry.seq}
       /\ UNCHANGED faults
    \/ /\ Fault("disk")
       /\ delete(entry)

\* The file is written anew from the entry as it was read, or, when the disk
\* refuses, stays as it is.
bump_attempts(entry) ==
    \/ /\ journal' = {e \in journal : e.seq # entry.seq} \cup {Bumped(entry)}
       /\ hot' = hot \cup {entry.seq}
       /\ UNCHANGED faults
    \/ /\ Fault("disk")
       /\ UNCHANGED <<journal, hot>>

\* An entry that cannot be read is renamed out of the way by whoever lists the
\* directory: the drain, or the heartbeat at any time.
Quarantine ==
    /\ pc # "down"
    /\ Fault("disk")
    /\ \E e \in journal :
        /\ journal' = journal \ {e}
        /\ hot' = hot \ {e.seq}
        /\ quarantined' = quarantined \cup {e.report}
    /\ UNCHANGED <<agent, server, history>>

\* POISON_COOLDOWN_S passes.
CoolDown(seq) ==
    /\ seq \in hot
    /\ hot' = hot \ {seq}
    /\ UNCHANGED <<journal, quarantined, agent, server, history, faults>>

-----------------------------------------------------------------------------
(* One delivery pass.                                                      *)

\* POISON_ATTEMPTS failed attempts, and POISON_COOLDOWN_S not over.
Exhausted(e) == e.attempts >= PoisonAttempts

\* Mutant of Parked: without the slow tick.
ParkedForGood(e) == Exhausted(e)

Parked(e) == Exhausted(e) /\ e.seq \in hot

\* Mutant of Sendable: a failed entry does not hold back the rest of its chain.
SendableAnyway(e) == ~Parked(e)

\* The pass goes by seq: a parked entry stops the rest of its job's chain.
Sendable(e) ==
    /\ e.report.job \notin blocked
    /\ \A f \in todo : f.report.job = e.report.job /\ f.seq =< e.seq => ~Parked(f)

BeginDrain(who, entries) ==
    /\ pc' = "drain"
    /\ caller' = who
    /\ todo' = entries
    /\ blocked' = {}
    /\ auth_blocked' = FALSE

\* Entries that are blocked or parked are passed over, the next one is sent.
Transmit ==
    /\ pc = "drain"
    /\ sending = None
    /\ \E e \in todo :
        /\ Sendable(e)
        /\ \A f \in todo : Sendable(f) => e.seq =< f.seq
        /\ sending' = e
        /\ wire' = wire \cup {e.report}
        /\ todo' = {f \in todo : f.seq > e.seq}
        /\ blocked' = blocked \cup {f.report.job : f \in {g \in todo : g.seq < e.seq /\ Parked(g)}}
    /\ answer' = "none"
    /\ UNCHANGED <<pc, caller, cur, script, auth_blocked, disk, row, revoked, claims, history, faults>>

\* Mutant of Settle: a 401 is a 4xx like any other.
SettleAuthTerminal(class) ==
    /\ sending' = None
    /\ answer' = "none"
    /\ IF class \in {"ok", "terminal", "auth"}
       THEN /\ delete(sending)
            /\ UNCHANGED <<blocked, auth_blocked, faults>>
       ELSE /\ bump_attempts(sending)
            /\ blocked' = blocked \cup {sending.report.job}
            /\ UNCHANGED auth_blocked
    /\ UNCHANGED <<pc, caller, cur, script, todo, quarantined, server, history>>

\* What the pass does with a failure or an answer of this class.
Settle(class) ==
    /\ sending' = None
    /\ answer' = "none"
    /\ IF class \in {"ok", "terminal"}
       THEN /\ delete(sending)
            /\ UNCHANGED <<blocked, auth_blocked, faults>>
       ELSE /\ bump_attempts(sending)
            /\ blocked' = blocked \cup {sending.report.job}
            /\ auth_blocked' = (auth_blocked \/ class = "auth")
    /\ UNCHANGED <<pc, caller, cur, script, todo, quarantined, server, history>>

Answered(j) ==
    /\ pc = "drain"
    /\ sending # None
    /\ sending.report.job = j
    /\ answer # "none"
    /\ Settle(answer)

\* _process_job goes on to the next report, or ends with the last one.
Reported ==
    /\ script' = Tail(script)
    /\ pc' = IF Len(script) = 1 THEN "loop" ELSE "deliver"
    /\ cur' = IF Len(script) = 1 THEN None ELSE cur
    /\ UNCHANGED caller

\* The disk refuses to delete the entry: the error ends the pass where it stands, and is
\* logged by who called it.
DeleteFails ==
    /\ pc = "drain"
    /\ sending # None
    /\ answer \in {"ok", "terminal"}
    /\ Fault("disk")
    /\ \/ /\ caller \in {"boot", "loop"}
          /\ pc' = caller
          /\ UNCHANGED <<caller, cur, script>>
       \/ /\ caller \in {"deliver", "abort"}
          /\ Reported
    /\ sending' = None
    /\ answer' = "none"
    /\ todo' = {}
    /\ blocked' = {}
    /\ auth_blocked' = FALSE
    /\ UNCHANGED <<disk, server, history>>

\* classify_error: whatever is not an answer is retryable.
TimedOut ==
    /\ pc = "drain"
    /\ sending # None
    /\ Settle("retryable")

\* Mutant of DrainResult: one parked entry is enough to open the claims.
DrainResultAnyParked ==
    IF journal = {} THEN "empty"
    ELSE IF auth_blocked THEN "auth_blocked"
    ELSE IF \E e \in journal : Parked(e) THEN "empty"
    ELSE "blocked"

DrainResult ==
    IF journal = {} THEN "empty"
    ELSE IF auth_blocked THEN "auth_blocked"
    ELSE IF \A e \in journal : Parked(e) THEN "empty"
    ELSE "blocked"

\* Mutant of EndDrain: startup makes one attempt and registers.
EndDrainBestEffort ==
    /\ pc = "drain"
    /\ sending = None
    /\ ~ \E e \in todo : Sendable(e)
    /\ \/ /\ caller = "boot"
          /\ pc' = "register"
          /\ UNCHANGED <<caller, cur, script>>
       \/ /\ caller = "loop"
          /\ pc' = IF DrainResult = "empty" THEN "claim" ELSE "loop"
          /\ UNCHANGED <<caller, cur, script>>
       \/ /\ caller \in {"deliver", "abort"}
          /\ Reported
    /\ todo' = {}
    /\ blocked' = {}
    /\ auth_blocked' = FALSE
    /\ UNCHANGED <<sending, answer, disk, server, history, faults>>

\* AUTH_BLOCKED ends the wait of _drain_before_register.
EndDrain ==
    /\ pc = "drain"
    /\ sending = None
    /\ ~ \E e \in todo : Sendable(e)
    /\ \/ /\ caller = "boot"
          /\ pc' = IF DrainResult = "blocked" THEN "boot" ELSE "register"
          /\ UNCHANGED <<caller, cur, script>>
       \/ /\ caller = "loop"
          /\ pc' = IF DrainResult = "empty" THEN "claim" ELSE "loop"
          /\ UNCHANGED <<caller, cur, script>>
       \/ /\ caller \in {"deliver", "abort"}
          /\ Reported
    /\ todo' = {}
    /\ blocked' = {}
    /\ auth_blocked' = FALSE
    /\ UNCHANGED <<sending, answer, disk, server, history, faults>>

\* The report of an aborted job has ten seconds, then wait_for cancels the
\* delivery at its await.
CutShort ==
    /\ pc \in {"drain", "direct"}
    /\ caller = "abort"
    /\ sending # None
    /\ Reported
    /\ sending' = None
    /\ answer' = "none"
    /\ todo' = {}
    /\ blocked' = {}
    /\ auth_blocked' = FALSE
    /\ UNCHANGED <<disk, server, history, faults>>

-----------------------------------------------------------------------------
(* Journal first, then send.                                               *)

Due == [job |-> cur.job, token |-> cur.token, kind |-> Head(script)]

Deliver ==
    /\ pc = "deliver"
    /\ append(Due)
    /\ BeginDrain(caller, journal')
    /\ UNCHANGED <<cur, script, sending, answer, server, direct, accepted, refused, taken, faults>>

\* The disk refuses the entry: one direct attempt, whose outcome is only logged.
DeliverUnjournaled ==
    /\ pc = "deliver"
    /\ Fault("disk")
    /\ pc' = "direct"
    /\ sending' = [seq |-> next_seq, report |-> Due, attempts |-> 0]
    /\ answer' = "none"
    /\ wire' = wire \cup {Due}
    /\ direct' = direct \cup {Due}
    /\ UNCHANGED <<caller, cur, script, todo, blocked, auth_blocked, disk, row, revoked, claims,
                   decided, accepted, refused, taken>>

DirectDone ==
    /\ pc = "direct"
    /\ Reported
    /\ sending' = None
    /\ answer' = "none"
    /\ UNCHANGED <<todo, blocked, auth_blocked, disk, server, history, faults>>

-----------------------------------------------------------------------------
(* The agent's life.                                                       *)

Start ==
    /\ pc = "down"
    /\ pc' = "boot"
    /\ UNCHANGED <<caller, cur, script, todo, blocked, auth_blocked, sending, answer,
                   disk, server, history, faults>>

\* _drain_before_register and the top of _job_loop.
Drain ==
    /\ pc \in {"boot", "loop"}
    /\ BeginDrain(pc, journal)
    /\ UNCHANGED <<cur, script, sending, answer, disk, server, history, faults>>

\* /register puts every job this worker holds back in the queue.
Register ==
    /\ pc = "register"
    /\ ~revoked
    /\ pc' = "loop"
    /\ taken' = [t \in Token |-> IF \E j \in Job : row[j] = [status |-> "active", token |-> t]
                                 THEN "register" ELSE taken[t]]
    /\ row' = [j \in Job |-> IF row[j].status = "active"
                             THEN [row[j] EXCEPT !.status = "queued"] ELSE row[j]]
    /\ UNCHANGED <<caller, cur, script, todo, blocked, auth_blocked, sending, answer, disk,
                   revoked, wire, claims, decided, direct, accepted, refused, faults>>

\* A refusal that is not retryable ends the process.
RegisterRejected ==
    /\ pc = "register"
    /\ revoked
    /\ pc' = "down"
    /\ UNCHANGED <<caller, cur, script, todo, blocked, auth_blocked, sending, answer,
                   disk, server, history, faults>>

\* The scheduler hands out a queued job; the answer may get lost on the way.
Claim(j) ==
    /\ pc = "claim"
    /\ ~revoked
    /\ claims < MaxClaims
    /\ row[j].status = "queued"
    /\ claims' = claims + 1
    /\ row' = [row EXCEPT ![j] = [status |-> "active", token |-> claims + 1]]
    /\ \/ pc' = "encode" /\ cur' = [job |-> j, token |-> claims + 1]
       \/ pc' = "loop" /\ UNCHANGED cur
    /\ UNCHANGED <<caller, script, todo, blocked, auth_blocked, sending, answer, disk,
                   revoked, wire, history, faults>>

\* No job, no scheduler or no credential: the loop goes round again.
NoClaim ==
    /\ pc = "claim"
    /\ pc' = "loop"
    /\ UNCHANGED <<caller, cur, script, todo, blocked, auth_blocked, sending, answer,
                   disk, server, history, faults>>

\* The outcome is decided.  An encode for a bucket reports its derivative first;
\* one that a registered derivative made needless does not.
Decide(who, kinds) ==
    /\ pc = "encode"
    /\ pc' = "deliver"
    /\ caller' = who
    /\ script' = kinds
    /\ UNCHANGED <<cur, todo, blocked, auth_blocked, sending, answer,
                   disk, server, history, faults>>

Encoded == pc = "encode" /\ cur.job \in S3 /\ Decide("deliver", <<"register_derivative", "complete">>)
Done    == Decide("deliver", <<"complete">>)
Failed  == Decide("deliver", <<"failed">>)
Aborted == Decide("abort", <<"failed">>)

\* The process ends: killed, or told to at a point where it may.
Crash ==
    /\ pc # "down"
    /\ Fault("crash")
    /\ pc' = "down"
    /\ cur' = None
    /\ script' = <<>>
    /\ todo' = {}
    /\ blocked' = {}
    /\ auth_blocked' = FALSE
    /\ sending' = None
    /\ answer' = "none"
    /\ UNCHANGED <<caller, disk, server, history>>

-----------------------------------------------------------------------------
(* The scheduler, as the agent's reports meet it.  A row is this worker's  *)
(* when it is active or has the outcome one of its reports gave it, foreign*)
(* when it is still booked to an identity the worker's token no longer     *)
(* has, and queued when nobody holds it.                                   *)

Verdict(report) ==
    LET r == row[report.job] IN
    IF revoked THEN "auth"
    ELSE IF \/ r.status \in {"queued", "foreign"}
            \/ /\ report.kind \in Outcomes \ {r.status}
               /\ r # [status |-> "active", token |-> report.token]
         THEN "terminal"
    ELSE IF report.kind \in Poison THEN "retryable"
    ELSE "ok"

\* A report arrives; its answer finds the agent waiting for it or nobody.
Receive(report) ==
    LET v == Verdict(report) IN
    /\ report \in wire
    /\ wire' = wire \ {report}
    /\ row' = IF v = "ok" /\ row[report.job].status = "active" /\ report.kind \in Outcomes
              THEN [row EXCEPT ![report.job].status = report.kind] ELSE row
    /\ accepted' = IF v = "ok" THEN accepted \cup {report} ELSE accepted
    /\ refused' = IF v = "terminal" /\ report \notin accepted THEN refused \cup {report} ELSE refused
    /\ answer' = IF sending # None /\ sending.report = report THEN v ELSE answer
    /\ UNCHANGED <<pc, caller, cur, script, todo, blocked, auth_blocked, sending, disk,
                   revoked, claims, decided, direct, taken, faults>>

\* It arrives while the agent waits for it.
ReceiveInTime(j) ==
    /\ sending # None
    /\ sending.report.job = j
    /\ Receive(sending.report)

\* A job leaves the worker: `why' says who took it.
Take(j, why) ==
    /\ row' = [row EXCEPT ![j].status = "queued"]
    /\ taken' = IF row[j].status = "active" THEN [taken EXCEPT ![row[j].token] = why] ELSE taken
    /\ UNCHANGED <<agent, disk, revoked, wire, claims, decided, direct, accepted, refused>>

\* The operator retries or requeues a job, or the sweep frees it from a worker
\* that is dead.
Requeue(j) ==
    /\ row[j].status \in {"active", "failed", "foreign"}
    /\ Fault("requeue")
    /\ Take(j, "others")

\* Mutant of Named: only the running job.
NamedCurrentOnly == IF cur # None THEN cur.job ELSE None

\* The job every heartbeat names.
Named == IF cur # None THEN cur.job
         ELSE IF journal # {} THEN First(journal).report.job
         ELSE None

Heartbeating == pc \notin {"down", "boot", "register"} /\ ~(pc = "drain" /\ caller = "boot")

\* The reconciliation sweep frees a job whose live worker names another one.
Abandon(j) ==
    /\ Heartbeating
    /\ ~revoked
    /\ row[j].status = "active"
    /\ Named # j
    /\ Take(j, "sweep")
    /\ UNCHANGED faults

Revoke ==
    /\ Fault("auth")
    /\ ~revoked
    /\ revoked' = TRUE
    /\ UNCHANGED <<agent, disk, row, wire, claims, history>>

\* The operator issues a fresh token, which is bound to no worker, and restarts
\* the agent with it: what the old identity holds is not this worker's, and a
\* request still under way carries the old token.
Reissue ==
    /\ pc = "down"
    /\ revoked
    /\ revoked' = FALSE
    /\ taken' = [t \in Token |-> IF \E j \in Job : row[j] = [status |-> "active", token |-> t]
                                 THEN "rotation" ELSE taken[t]]
    /\ row' = [j \in Job |-> IF row[j].status = "queued"
                             THEN row[j] ELSE [row[j] EXCEPT !.status = "foreign"]]
    /\ wire' = {}
    /\ UNCHANGED <<agent, disk, claims, decided, direct, accepted, refused, faults>>

-----------------------------------------------------------------------------
Init ==
    /\ journal = {} /\ hot = {} /\ quarantined = {}
    /\ pc = "down" /\ caller = "boot" /\ cur = None /\ script = <<>>
    /\ todo = {} /\ blocked = {} /\ auth_blocked = FALSE /\ sending = None /\ answer = "none"
    /\ row = [j \in Job |-> [status |-> "queued", token |-> 0]]
    /\ revoked = FALSE /\ wire = {} /\ claims = 0
    /\ decided = {} /\ direct = {} /\ accepted = {} /\ refused = {}
    /\ taken = [t \in Token |-> "no"]
    /\ faults = 0

Finish == Encoded \/ Done \/ Failed \/ Aborted

Agent == \/ Start \/ Drain \/ Transmit \/ EndDrain \/ Register \/ RegisterRejected
         \/ NoClaim \/ Finish \/ Deliver \/ DirectDone

\* No more seqs than reports are ever drawn.
Seqs == 1 .. 2 * MaxClaims

Next ==
    \/ Agent
    \/ TimedOut \/ DeleteFails \/ CutShort \/ DeliverUnjournaled
    \/ Crash \/ Quarantine \/ Revoke \/ Reissue
    \/ \E s \in Seqs : CoolDown(s)
    \/ \E r \in wire : Receive(r)
    \/ \E j \in Job : Claim(j) \/ Answered(j) \/ Requeue(j) \/ Abandon(j)

Spec == Init /\ [][Next]_vars

\* The event loop runs, encodes end, the service manager restarts the agent, time passes,
\* and the scheduler is not out of reach for ever: time and again a request of
\* a job arrives in time, and its answer too.
FairSpec ==
    /\ Spec
    /\ WF_vars(Agent)
    /\ \A s \in Seqs : WF_vars(CoolDown(s))
    /\ \A j \in Job : SF_vars(ReceiveInTime(j)) /\ SF_vars(Answered(j))

-----------------------------------------------------------------------------
Verdicts == {"ok", "terminal", "auth", "retryable"}
Statuses == Outcomes \cup {"queued", "active", "foreign"}

\* The types of the journal, of the agent's variables and of the job rows.
TypeOK ==
    /\ journal \subseteq Entry
    /\ hot \subseteq {e.seq : e \in journal}
    /\ quarantined \subseteq Report
    /\ pc \in {"down", "boot", "drain", "register", "loop", "claim", "encode", "deliver", "direct"}
    /\ caller \in {"boot", "loop", "deliver", "abort"}
    /\ cur \in Attempt \cup {None}
    /\ script \in {<<>>, <<"register_derivative", "complete">>} \cup {<<k>> : k \in Outcomes}
    /\ todo \subseteq Entry /\ blocked \subseteq Job /\ auth_blocked \in BOOLEAN
    /\ sending \in Entry \cup {None}
    /\ answer \in Verdicts \cup {"none"}
    /\ row \in [Job -> [status : Statuses, token : Token \cup {0}]]
    /\ revoked \in BOOLEAN
    /\ wire \subseteq Report /\ decided \subseteq Report /\ direct \subseteq Report
    /\ accepted \subseteq Report /\ refused \subseteq Report
    /\ claims \in 0 .. MaxClaims
    /\ taken \in [Token -> {"no", "register", "sweep", "rotation", "others"}]
    /\ faults \in 0 .. MaxFaults

\* "An entry is deleted only on acknowledged receipt" (outbox.py): whatever was
\* journaled is still there, or the scheduler has taken it or turned it down,
\* or its file went bad and was set aside.  No crash, lost answer, revoked
\* token, failed write or early end of a pass drops a report.
NoReportDropped ==
    \A r \in decided : r \in Pending \cup accepted \cup refused \cup quarantined

\* An S3 complete never overtakes its register_derivative: when the scheduler
\* has ruled on an outcome that came through the journal, it has ruled on the
\* derivative journaled before it, across retries, parking and restarts.
ChainInOrder ==
    \A r \in (accepted \cup refused) \ direct :
        LET d == [r EXCEPT !.kind = "register_derivative"] IN
        d \in decided => d \in accepted \cup refused \cup quarantined

\* Claims wait for the journal: reports of two attempts are in it together only
\* when the older ones have used up their attempts.
OneAttemptPending ==
    \A e, f \in journal :
        e.seq < f.seq /\ e.report.token # f.report.token => Exhausted(e)

\* Startup delivers before it registers, and registration requeues what the
\* worker held: a report whose job the worker's own registration requeued is
\* one that had used up its attempts.
ReleasedOnlyExhausted ==
    \A e \in journal : taken[e.report.token] = "register" => Exhausted(e)

\* The heartbeat names a job whose report is undelivered, so that the sweep does
\* not run finished work again, unless that report has used up its attempts or
\* one of another job that has stands before it.
PendingNotAbandoned ==
    [][\A e \in journal :
        taken[e.report.token] = "no" /\ taken'[e.report.token] = "sweep"
            => \E f \in journal : f.seq =< e.seq /\ Exhausted(f)]_vars

\* At least once: a journaled report that no poison entry stands before is
\* delivered, or turned down, unless the worker's token is revoked.
EventuallyDelivered ==
    \A j \in Job \ (IF "register_derivative" \in Poison THEN S3 ELSE {}) :
        (\E e \in journal : e.report.job = j)
            ~> (revoked \/ ~ \E e \in journal : e.report.job = j)

\* "A worker with a stuck outbox stays UNREGISTERED (invisible) through a long
\* scheduler outage" (_drain_before_register): registration requeues no job
\* whose report is still in the journal.  Does not hold: an outage parks it.
RegistersSettled ==
    \A e \in journal : taken[e.report.token] # "register"

\* "A revoked/rotated token must never cost a finished job its report"
\* (reliability.py): no report is turned down because of the new token.  Does not
\* hold with "auth" in Faults.
RotationCostsNothing ==
    \A r \in refused : taken[r.token] # "rotation"

Channel == INSTANCE ReportChannel WITH
    written <- decided, pending <- Pending, aside <- quarantined, ruled <- accepted \cup refused,
    Before <- {<<[r EXCEPT !.kind = "register_derivative"], r>> :
                   r \in {q \in Report : q.kind \in Outcomes}}

\* append, _drain_outbox, delete, bump_attempts and entries together: whatever is lost, late,
\* repeated or unreadable, the journal is an at-least-once channel in which a complete comes
\* after its derivative.
ChannelSpec == Channel!Spec
=============================================================================
