-------------------------------- MODULE Scan --------------------------------
\* The library scanner and the catalog rows it keeps: scanner/runner.py (the
\* door), scanner/scanner.py and scanner/s3_scanner.py (one library, on either
\* backend), scheduler_cron.py (the scheduled scans), repos/scans.py and
\* repos/media.py (the rows), with the actors that change files under a scan: the
\* user, a share that goes away, and a worker that swaps a file in place.
EXTENDS Integers, FiniteSets, FiniteSetsExt

CONSTANTS
    Path,        \* the video files of the library, numbered in walk order
    Busy,        \* those the user and the operator touch
    Backends,    \* subset of {"filesystem", "s3"}
    Interval,    \* scan_interval_hours, in ticks of the model's clock
    MaxChanges,  \* files the user adds, replaces or removes
    MaxFaults,   \* errors, failed probes, crashes, shutdowns and unmounts
    MaxManual    \* scans asked for through the API

ASSUME PathAssumption     == Path \subseteq Nat /\ IsFiniteSet(Path)
ASSUME BusyAssumption     == Busy \subseteq Path
ASSUME BackendsAssumption == Backends \subseteq {"filesystem", "s3"}
ASSUME BoundsAssumption   ==
    /\ Interval \in Nat \ {0}
    /\ MaxChanges \in Nat /\ MaxFaults \in Nat /\ MaxManual \in Nat

VARIABLES
    backend,  \* libraries.backend
    file,     \* what each path holds, or NoFile
    mounted,  \* the library's share is there
    job,      \* how far the transcode of each path is, and the size of its output
    row,      \* media_files, by path, or NoRow
    scan,     \* the library's scan task: runner._scans and its local variables
    running,  \* scans rows whose status is 'running'
    age,      \* ticks since the latest started_at, up to Interval
    cron,     \* the scheduled-scan loop
    up,       \* the server process is alive
    cronAge,  \* history: ticks since a scheduled scan last started, up to Interval
    stranded, \* history: closing writes that failed in this process
    steady,   \* history: files that nothing moved since the scan started
    used      \* changes, faults and manual scans so far

vars == <<backend, file, mounted, job, row, scan, running, age, cron, up, cronAge,
          stranded, steady, used>>

NoFile == [codec |-> "none", size |-> 0, mtime |-> 0]
NoRow  == [codec |-> "none", size |-> 0, mtime |-> 0, status |-> "none", job |-> FALSE]

\* Contents of a file. Every size is used once, so that a size and a content name
\* each other; a swap's output takes a size of its own and keeps the mtime
\* (_preserve_metadata); on S3 the mtime is the object's LastModified, never reused.
Codec    == {"h264", "vp9", "hevc"}
OutOf(f) == [f EXCEPT !.codec = "hevc", !.size = @ + MaxChanges + 1]
Content  == [codec : Codec, size : 0..(2 * MaxChanges + 1), mtime : 0..MaxChanges]
Row      == [codec : Codec, size : 0..(2 * MaxChanges + 1), mtime : 0..MaxChanges,
             status : {"needs_transcode", "queued", "complete", "skipped"},
             job : BOOLEAN]

\* todo: files the loop has not reached, then the paths the prune has not judged.
NoScan == [pc |-> "done", by |-> "api", limit |-> 0, walked |-> {}, todo |-> {},
           listed |-> [p \in Path |-> NoFile], mtime |-> 0, probe |-> NoFile,
           gone |-> {}]

\* Where a scan is: it has a running row in all of them but the first two.
Body == {"walk", "look", "probe", "upsert", "known", "judge", "sidecars", "delete"}
PCs  == {"done", "open"} \cup Body \cup {"close"}

\* The worker's sidecars beside a path: lock from the claim to the end, backup
\* between the swap's renames. The path itself is empty between the renames.
Sidecars(p) == mounted /\ job[p].pc \in {"locked", "moved", "placed"}
Visible(p)  == mounted /\ file[p] # NoFile /\ job[p].pc # "moved"

Init ==
    /\ backend \in Backends
    /\ file \in [Path -> {[codec |-> "h264", size |-> 0, mtime |-> 0]}]
    /\ mounted = TRUE
    /\ job = [p \in Path |-> [pc |-> "idle", out |-> 0]]
    /\ row = [p \in Path |-> NoRow]
    /\ scan = NoScan
    /\ running = 0
    /\ age = Interval /\ cronAge = Interval
    /\ cron = [pc |-> "sleep", due |-> FALSE]
    /\ up = TRUE
    /\ stranded = 0
    /\ steady = {}
    /\ used = [changes |-> 0, faults |-> 0, manual |-> 0]

-----------------------------------------------------------------------------
\* The files' other users.

Spend(what, bound) == used[what] < bound /\ used' = [used EXCEPT ![what] = @ + 1]

\* A user adds, replaces or removes a file no worker holds. Copying a file may
\* keep its mtime; an upload to S3 is stamped by the store.
Change(p) ==
    /\ mounted
    /\ ~Sidecars(p)
    /\ Spend("changes", MaxChanges)
    /\ \/ \E c \in {"h264", "vp9"}, m \in {0, used'.changes} :
            /\ backend = "s3" => m = used'.changes
            /\ file' = [file EXCEPT ![p] =
                           [codec |-> c, size |-> used'.changes, mtime |-> m]]
       \/ file[p] # NoFile /\ file' = [file EXCEPT ![p] = NoFile]
    /\ steady' = IF file'[p] = NoFile THEN steady \ {p} ELSE steady
    /\ UNCHANGED <<backend, mounted, job, row, scan, running, age, cron, up, cronAge,
                   stranded>>

\* The share goes away, leaving an empty mount point, and comes back.
Unmount ==
    /\ mounted /\ backend = "filesystem"
    /\ Spend("faults", MaxFaults)
    /\ mounted' = FALSE
    /\ UNCHANGED <<backend, file, job, row, scan, running, age, cron, up, cronAge,
                   stranded, steady>>

Remount ==
    /\ ~mounted
    /\ mounted' = TRUE
    /\ UNCHANGED <<backend, file, job, row, scan, running, age, cron, up, cronAge,
                   stranded, steady, used>>

\* queue_media: the row is marked and stamped with its job.
Queue(p) ==
    /\ up
    /\ job[p].pc = "idle" /\ row[p].status = "needs_transcode"
    /\ job' = [job EXCEPT ![p].pc = "queued"]
    /\ row' = [row EXCEPT ![p].status = "queued", ![p].job = TRUE]
    /\ UNCHANGED <<backend, file, mounted, scan, running, age, cron, up, cronAge,
                   stranded, steady, used>>

WorkerStep(p, from, to) ==
    /\ job[p].pc = from
    /\ job' = [job EXCEPT ![p].pc = to, ![p].out = IF to = "unlocked" THEN file[p].size ELSE 0]
    /\ UNCHANGED <<backend, mounted, scan, running, age, cron, up, cronAge, stranded>>

\* The worker takes the lock; on S3 it reads the master and stores a derivative
\* beside it, with nothing to lock.
Acquire(p) ==
    /\ IF backend = "s3"
       THEN file[p] # NoFile /\ WorkerStep(p, "queued", "unlocked")
       ELSE /\ Visible(p) /\ file[p].codec = "h264"
            /\ WorkerStep(p, "queued", "locked")
    /\ UNCHANGED <<file, row, steady, used>>

MoveAway(p) ==
    /\ mounted
    /\ WorkerStep(p, "locked", "moved")
    /\ steady' = steady \ {p}
    /\ UNCHANGED <<file, row, used>>

\* The output takes the original's place, with the original's mtime.
Place(p) ==
    /\ mounted
    /\ file' = [file EXCEPT ![p] = OutOf(file[p])]
    /\ WorkerStep(p, "moved", "placed")
    /\ UNCHANGED <<row, steady, used>>

\* Backup and lock are removed.
Release(p) ==
    /\ mounted
    /\ WorkerStep(p, "placed", "unlocked")
    /\ UNCHANGED <<file, row, steady, used>>

\* The worker died between the renames: recovery puts the backup back and clears
\* the lock.
Recover(p) ==
    /\ mounted
    /\ Spend("faults", MaxFaults)
    /\ WorkerStep(p, "moved", "queued")
    /\ UNCHANGED <<file, row, steady>>

\* The report of a finished job, which may come long after the swap: status for
\* the row that carries the job, codec and size too in a filesystem library.
Report(p) ==
    /\ up
    /\ job[p].pc = "unlocked"
    /\ job' = [job EXCEPT ![p] = [pc |-> "idle", out |-> 0]]
    /\ row' = [row EXCEPT ![p] =
                  IF ~@.job THEN @
                  ELSE IF backend = "s3" THEN [@ EXCEPT !.status = "complete"]
                  ELSE [@ EXCEPT !.status = "complete", !.codec = "hevc",
                                 !.size = job[p].out]]
    /\ UNCHANGED <<backend, file, mounted, scan, running, age, cron, up, cronAge,
                   stranded, steady, used>>

\* The report of a job that failed, before the swap, or that found no h264 there.
ReportFailed(p) ==
    /\ up
    /\ job[p].pc \in {"queued", "locked"}
    /\ job' = [job EXCEPT ![p] = [pc |-> "idle", out |-> 0]]
    /\ row' = [row EXCEPT ![p] =
                  IF ~@.job THEN @ ELSE [@ EXCEPT !.status = "needs_transcode"]]
    /\ UNCHANGED <<backend, file, mounted, scan, running, age, cron, up, cronAge,
                   stranded, steady, used>>

-----------------------------------------------------------------------------
\* The scan task.

Rest == <<backend, file, mounted, job, cron, up>>

\* start_scan: the slot is reserved before anything is awaited.
StartScan(by, limit) ==
    /\ scan.pc = "done"
    /\ scan' = [NoScan EXCEPT !.pc = "open", !.by = by, !.limit = limit]

\* An operator's scan, of everything or of the first max_files files.
TriggerScan ==
    /\ up
    /\ Spend("manual", MaxManual)
    /\ \E limit \in {0, 1} : StartScan("api", limit)
    /\ UNCHANGED <<Rest, row, running, age, cronAge, stranded, steady>>

\* create_scan: the row that is the scheduler's memory of this attempt.
CreateScan ==
    /\ age' = 0
    /\ cronAge' = IF scan.by = "cron" THEN 0 ELSE cronAge
    /\ cron' = [cron EXCEPT !.due = FALSE]

OpenScan ==
    /\ up /\ scan.pc = "open"
    /\ CreateScan
    /\ \/ /\ scan' = [scan EXCEPT !.pc = "walk"]
          /\ running' = running + 1
          /\ steady' = {p \in Path : file[p] # NoFile /\ job[p].pc # "moved"}
       \/ /\ ~mounted  \* the mount point went too: a FAILED row
          /\ scan' = NoScan
          /\ UNCHANGED <<running, steady>>
    /\ UNCHANGED <<backend, file, mounted, job, up, row, stranded, used>>

At(pc) ==
    /\ up /\ scan.pc = pc
    /\ UNCHANGED <<Rest, running, age, cronAge, stranded, steady>>

Goto(pc) == scan' = IF pc = "close" THEN [NoScan EXCEPT !.pc = pc, !.by = scan.by]
            ELSE [scan EXCEPT !.pc = pc]

\* The listing: the names a walk finds, or the objects with their LastModified.
Walk ==
    /\ At("walk")
    /\ LET found == {p \in Path : Visible(p)} IN
       scan' = [scan EXCEPT !.pc = "look", !.walked = found, !.todo = found,
                            !.listed = IF backend = "s3" THEN file ELSE @]
    /\ UNCHANGED <<row, used>>

Current == Min(scan.todo)
Skip    == scan' = [scan EXCEPT !.pc = "look", !.todo = @ \ {Current}, !.mtime = 0,
                       !.probe = NoFile]

\* max_files bounds the files a scan looks at.
Capped == scan.limit > 0 /\ Cardinality(scan.walked \ scan.todo) >= scan.limit

\* Mutant of Unchanged: the mtime alone decides on both backends.
SameMtime(p) == row[p] # NoRow /\ row[p].mtime =
    IF backend = "s3" THEN scan.listed[p].mtime ELSE file[p].mtime

\* A row that carries the file's stamp is left alone: mtime and size, on S3 the
\* listed LastModified.
Unchanged(p) ==
    /\ row[p] # NoRow
    /\ IF backend = "s3"
       THEN row[p].mtime = scan.listed[p].mtime
       ELSE row[p].mtime = file[p].mtime /\ row[p].size = file[p].size

\* One file of the loop: stat it and compare with its row. A file that is gone by
\* now fails the scan (stat raises).
Look ==
    /\ At("look")
    /\ scan.todo # {} /\ ~Capped
    /\ LET p == Current IN
       IF backend = "filesystem" /\ ~Visible(p)
       THEN Goto("close")
       ELSE IF Unchanged(p)
       THEN Skip
       ELSE scan' = [scan EXCEPT !.pc = "probe",
                        !.mtime = IF backend = "s3" THEN scan.listed[p].mtime
                                  ELSE file[p].mtime]
    /\ UNCHANGED <<row, used>>

\* ffprobe reads what the path holds now. An S3 probe takes its size from the
\* listing, and an object that is gone is only skipped.
Probe ==
    /\ At("probe")
    /\ LET p == Current IN
       CASE Visible(p) ->
              scan' = [scan EXCEPT !.pc = "upsert",
                          !.probe = [file[p] EXCEPT !.size =
                                        IF backend = "s3" THEN scan.listed[p].size ELSE @]]
         [] backend = "s3" /\ ~Visible(p) -> Skip
         [] OTHER -> Goto("close")
    /\ UNCHANGED <<row, used>>

\* ffprobe times out or cannot read the file: the file is skipped.
ProbeFails ==
    /\ At("probe")
    /\ Spend("faults", MaxFaults)
    /\ Skip
    /\ UNCHANGED row

StatusOf(codec) ==
    CASE codec = "hevc" -> "complete"
      [] codec = "h264" -> "needs_transcode"
      [] OTHER          -> "skipped"

\* upsert_media_file: a known path keeps its status unless the codec changed.
Upserted(r, probe, mtime) ==
    [codec  |-> probe.codec, size |-> probe.size, mtime |-> mtime,
     status |-> IF r.codec = probe.codec THEN r.status ELSE StatusOf(probe.codec),
     job    |-> r.job]

Upsert ==
    /\ At("upsert")
    /\ row' = [row EXCEPT ![Current] = Upserted(@, scan.probe, scan.mtime)]
    /\ Skip
    /\ UNCHANGED used

\* Mutant of MayPrune: an empty walk prunes like any other.
PruneEmptyWalk == backend = "filesystem" /\ scan.limit = 0

\* Only a whole and non-empty walk of a filesystem library prunes.
MayPrune == backend = "filesystem" /\ scan.limit = 0 /\ scan.walked # {}

EndLoop ==
    /\ At("look")
    /\ scan.todo = {} \/ Capped
    /\ Goto(IF MayPrune THEN "known" ELSE "close")
    /\ UNCHANGED <<row, used>>

\* _prune_absent: the walk nominates, a fresh look decides.
Nominate ==
    /\ At("known")
    /\ scan' = [scan EXCEPT !.pc = "judge",
                   !.todo = {p \in Path : row[p] # NoRow} \ scan.walked]
    /\ UNCHANGED <<row, used>>

\* _is_gone, first half: the stat. An error says nothing, so the row stays.
Judge ==
    /\ At("judge")
    /\ scan.todo # {}
    /\ \/ ~Visible(Current) /\ Goto("sidecars") /\ UNCHANGED used
       \/ /\ Visible(Current)
          /\ scan' = [scan EXCEPT !.todo = @ \ {Current}] /\ UNCHANGED used
       \/ /\ Spend("faults", MaxFaults)
          /\ scan' = [scan EXCEPT !.todo = @ \ {Current}]
    /\ UNCHANGED row

\* _is_gone, second half: a sidecar means a worker is replacing the file.
JudgeSidecars ==
    /\ At("sidecars")
    /\ scan' = [scan EXCEPT !.pc = "judge", !.todo = @ \ {Current},
                   !.gone = IF Sidecars(Current) THEN @ ELSE @ \cup {Current}]
    /\ UNCHANGED <<row, used>>

EndJudge ==
    /\ At("judge")
    /\ scan.todo = {}
    /\ Goto(IF scan.gone = {} THEN "close" ELSE "delete")
    /\ UNCHANGED <<row, used>>

\* delete_by_ids, in one transaction.
Delete ==
    /\ At("delete")
    /\ row' = [p \in Path |-> IF p \in scan.gone THEN NoRow ELSE row[p]]
    /\ Goto("close")
    /\ UNCHANGED used

\* Mutant of ScanError: the row is left to the next boot.
ErrorLeavesRow ==
    /\ scan.pc \in Body /\ At(scan.pc)
    /\ Spend("faults", MaxFaults)
    /\ scan' = NoScan
    /\ UNCHANGED row

\* An error in the body (unreadable directory, walk deadline, database): FAILED.
ScanError ==
    /\ scan.pc \in Body /\ At(scan.pc)
    /\ Spend("faults", MaxFaults)
    /\ Goto("close")
    /\ UNCHANGED row

\* The last update_scan, COMPLETE or FAILED; run_scan never raises.
CloseScan ==
    /\ up /\ scan.pc = "close"
    /\ scan' = NoScan
    /\ \/ running' = running - 1 /\ UNCHANGED <<stranded, used>>
       \/ /\ Spend("faults", MaxFaults)  \* the write itself failed
          /\ stranded' = stranded + 1
          /\ UNCHANGED running
    /\ UNCHANGED <<Rest, row, age, cronAge, steady>>

-----------------------------------------------------------------------------
\* The scheduled scans and the process.

\* _tick reads the clock once, then lists the libraries and scans those before
\* this one; a scan that starts meanwhile is newer than that reading.
CronWake ==
    /\ up /\ cron.pc = "sleep"
    /\ cron' = [pc |-> "ask", due |-> age = Interval]
    /\ UNCHANGED <<backend, file, mounted, job, row, scan, running, age, up, cronAge,
                   stranded, steady, used>>

CronAsk ==
    /\ up /\ cron.pc = "ask"
    /\ IF cron.due /\ scan.pc = "done"
       THEN StartScan("cron", 0) /\ cron' = [cron EXCEPT !.pc = "await"]
       ELSE cron' = [cron EXCEPT !.pc = "sleep"] /\ UNCHANGED scan
    /\ UNCHANGED <<backend, file, mounted, job, row, running, age, up, cronAge,
                   stranded, steady, used>>

CronDone ==
    /\ up /\ cron.pc = "await" /\ scan.pc = "done"
    /\ cron' = [cron EXCEPT !.pc = "sleep"]
    /\ UNCHANGED <<backend, file, mounted, job, row, scan, running, age, up, cronAge,
                   stranded, steady, used>>

Tick ==
    /\ age < Interval \/ cronAge < Interval
    /\ age' = Min({age + 1, Interval}) /\ cronAge' = Min({cronAge + 1, Interval})
    /\ UNCHANGED <<backend, file, mounted, job, row, scan, running, cron, up, stranded,
                   steady, used>>

\* The process ends: killed where it stands, or by a shutdown that cancels the scan.
\* A cancellation in the body closes the row; one that lands in create_scan or in
\* the last update leaves it running.
Stop(running2, age2) ==
    /\ up
    /\ Spend("faults", MaxFaults)
    /\ up' = FALSE
    /\ scan' = NoScan
    /\ cron' = [pc |-> "sleep", due |-> FALSE]
    /\ running' = running2 /\ age' = age2
    /\ UNCHANGED <<backend, file, mounted, job, row, cronAge, stranded, steady>>

Crash    == Stop(running, age)
Shutdown == \/ scan.pc \in Body /\ Stop(running - 1, age)
            \/ scan.pc = "open" /\ Stop(running + 1, 0)

\* Mutant of Boot: the last scan times are kept in the process.
BootForgets ==
    /\ ~up
    /\ up' = TRUE
    /\ running' = 0 /\ stranded' = 0
    /\ age' = Interval
    /\ UNCHANGED <<backend, file, mounted, job, row, scan, cron, cronAge, steady, used>>

\* lifespan: no scan can be running at boot, so rows that say so are failed.
Boot ==
    /\ ~up
    /\ up' = TRUE
    /\ running' = 0 /\ stranded' = 0
    /\ UNCHANGED <<backend, file, mounted, job, row, scan, age, cron, cronAge, steady,
                   used>>

ScanStep ==
    OpenScan \/ Walk \/ Look \/ Probe \/ Upsert \/ EndLoop \/ Nominate \/ Judge
    \/ JudgeSidecars \/ EndJudge \/ Delete \/ CloseScan

WorkerWork(p) == Acquire(p) \/ MoveAway(p) \/ Place(p) \/ Release(p) \/ Report(p)

Next ==
    \/ \E p \in Busy : Change(p) \/ Queue(p) \/ WorkerWork(p) \/ Recover(p) \/ ReportFailed(p)
    \/ Unmount \/ Remount
    \/ TriggerScan \/ ScanStep \/ ProbeFails \/ ScanError
    \/ CronWake \/ CronAsk \/ CronDone \/ Tick
    \/ Crash \/ Shutdown \/ Boot

Spec == Init /\ [][Next]_vars

\* Time passes, the process is restarted, the loop and a started scan go on, the
\* share returns, and a worker that holds a file finishes with it.
FairSpec ==
    /\ Spec
    /\ WF_vars(Tick) /\ WF_vars(Boot) /\ WF_vars(Remount)
    /\ WF_vars(CronWake) /\ WF_vars(CronAsk) /\ WF_vars(CronDone)
    /\ WF_vars(ScanStep)
    /\ \A p \in Busy : WF_vars(WorkerWork(p))

-----------------------------------------------------------------------------
\* Type correctness: rows, files and the scan's variables have the shapes the
\* modelled statements give them.
TypeOK ==
    /\ backend \in Backends
    /\ file \in [Path -> Content \cup {NoFile}]
    /\ row \in [Path -> Row \cup {NoRow}]
    /\ job \in [Path -> [pc : {"idle", "queued", "locked", "moved", "placed", "unlocked"},
                         out : 0..(2 * MaxChanges + 1)]]
    /\ scan.pc \in PCs /\ scan.gone \subseteq Path \ scan.walked
    /\ scan.todo \subseteq Path /\ scan.probe \in Content \cup {NoFile}
    /\ running \in Nat /\ stranded \in Nat
    /\ age \in 0..Interval /\ cronAge \in 0..Interval
    /\ up \in BOOLEAN /\ mounted \in BOOLEAN /\ steady \subseteq Path

\* _prune_absent never deletes the row of a file that nothing moved while the scan
\* ran: not when the walk was capped, not when the share was away for the walk or
\* went away after it, and not when a stat failed.
PruneSpares ==
    [][\A p \in Path : row[p] # NoRow /\ row'[p] = NoRow => p \notin steady]_vars

\* While the process runs, a scans row that says 'running' has its task, except for
\* one whose closing write failed: errors and shutdowns close it on the way out,
\* and a row left by an earlier process is reaped at boot.
RunningRowHasTask ==
    up => running = stranded + IF scan.pc \in Body \cup {"close"} THEN 1 ELSE 0

\* run_scheduled_scans: two scheduled scans of a library start an interval apart,
\* across failed scans and restarts of the process.
ScheduledApart ==
    [][scan.by = "cron" /\ scan.pc = "open" /\ scan'.pc = "walk"
         => cronAge = Interval]_vars

\* The row of path p describes the file at p.
Settled(p) ==
    /\ file[p] # NoFile =>
         /\ row[p].codec = file[p].codec
         /\ row[p].mtime = file[p].mtime /\ row[p].size = file[p].size
    /\ (backend = "filesystem" /\ file[p] = NoFile /\ \E q \in Path : file[q] # NoFile)
         => row[p] = NoRow

\* Once files stop changing, the scheduled scans bring every row in line with its
\* file and drop the rows of files that are gone, whatever stale probe, late
\* report, failed scan, restart or absent share came before.
CatalogSettles == \A p \in Path : <>[]Settled(p)

\* _is_gone: "True only when the file is definitely not there and not
\* mid-transcode" (scanner.py, the verdict behind every deleted row).  Does not hold
\* with a path in Busy: the swap may end between the stat and the sidecar checks.
GoneIsGone ==
    [][\A p \in Path : p \in scan'.gone \ scan.gone => ~Visible(p) /\ ~Sidecars(p)]_vars
=============================================================================
