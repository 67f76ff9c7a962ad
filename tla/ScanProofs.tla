----------------------------- MODULE ScanProofs -----------------------------
(***************************************************************************)
(* The library scanner, for any library, interval and number of changes,   *)
(* faults and manual scans: a prune spares the rows of files that nothing  *)
(* moved, a running row has its task, and scheduled scans keep apart.      *)
(***************************************************************************)
EXTENDS Scan, WellFoundedInduction, TLAPS

\* The shapes of files, rows and jobs, with any size and mtime.
FileType == [codec : Codec \cup {"none"}, size : Nat, mtime : Nat]
RowType  == [codec : Codec \cup {"none"}, size : Nat, mtime : Nat,
             status : {"needs_transcode", "queued", "complete", "skipped", "none"}, job : BOOLEAN]
JobType  == [pc : {"idle", "queued", "locked", "moved", "placed", "unlocked"}, out : Nat]
ScanType == [pc : PCs, by : {"api", "cron"}, limit : {0, 1}, walked : SUBSET Path,
             todo : SUBSET Path, listed : [Path -> FileType], mtime : Nat, probe : FileType,
             gone : SUBSET Path]
UsedType == [changes : Nat, faults : Nat, manual : Nat]
CronType == [pc : {"sleep", "ask", "await"}, due : BOOLEAN]

Types ==
    /\ backend \in Backends /\ mounted \in BOOLEAN /\ up \in BOOLEAN
    /\ file \in [Path -> FileType]
    /\ job \in [Path -> JobType]
    /\ row \in [Path -> RowType]
    /\ scan \in ScanType
    /\ running \in Int /\ stranded \in Int
    /\ age \in 0 .. Interval /\ cronAge \in 0 .. Interval
    /\ cron \in CronType
    /\ steady \subseteq Path
    /\ used \in UsedType

\* A process that is down runs no scan, and one that runs has a row for its scan.
TaskInv ==
    /\ ~up => scan.pc = "done"
    /\ RunningRowHasTask

\* The latest scan is no older than the latest scheduled one, so that a scan that is due,
\* or started because it was, comes an interval after the last.
ApartInv ==
    /\ age =< cronAge
    /\ cron.due => cronAge = Interval
    /\ scan.by = "cron" /\ scan.pc = "open" => cronAge = Interval

\* A file and a row that are there have a codec and a status, and so does a probe that
\* will be written.
ContentInv ==
    /\ \A p \in Path : file[p] # NoFile => file[p].codec # "none"
    /\ \A p \in Path : row[p] # NoRow => row[p].status # "none"
    /\ scan.pc = "upsert" => scan.probe.codec # "none"

\* A file that nothing moved is at its path, and not between the renames of a swap.
SteadyInv == \A p \in steady : file[p] # NoFile /\ job[p].pc # "moved"

\* A walk that found anything found every file that nothing moved since, and the prune
\* judges only what the walk did not find; a file is at hand where one is worked on.
PruneInv ==
    /\ scan.pc \in {"look", "probe", "upsert"} => scan.walked = {} \/ steady \subseteq scan.walked
    /\ scan.pc \in {"known", "judge", "sidecars", "delete"} => steady \subseteq scan.walked
    /\ scan.pc \in {"judge", "sidecars"} => scan.todo \cap scan.walked = {}
    /\ scan.pc \in {"probe", "upsert", "sidecars"} => scan.todo # {}
    /\ scan.pc \in {"judge", "sidecars", "delete"} \/ scan.gone = {}
    /\ scan.gone \cap scan.walked = {}

\* Sizes and stamps are those the changes have used up so far, twice over for outputs.
Bounded(f) == f.size =< 2 * MaxChanges + 1 /\ f.mtime =< MaxChanges

\* A file that no transcode made has a size below every output's, and only such a file is
\* worked on.
FileBound ==
    /\ used.changes =< MaxChanges
    /\ \A p \in Path :
        /\ Bounded(file[p])
        /\ file[p].codec # "hevc" => file[p].size =< MaxChanges
        /\ job[p].pc \in {"locked", "moved"} => file[p].codec = "h264"
        /\ job[p].out =< 2 * MaxChanges + 1

\* A scan holds what it has read of the files, and a probe has a codec.
ScanBound ==
    /\ scan.mtime =< MaxChanges /\ Bounded(scan.probe)
    /\ scan.probe # NoFile => scan.probe.codec # "none"
    /\ \A p \in Path : Bounded(scan.listed[p])

\* So has a row.
RowBound == \A p \in Path : Bounded(row[p]) /\ (row[p] # NoRow => row[p].codec # "none")

\* No scans row is closed twice.
CountBound == running >= 0 /\ stranded >= 0

-----------------------------------------------------------------------------
\* Arithmetic and the file at the head of the loop.

\* The smaller of two ticks.
LEMMA MinOfTwo ==
    ASSUME NEW a \in Int, NEW b \in Int
    PROVE  Min({a, b}) = IF a =< b THEN a ELSE b
<1>1. CASE a =< b
  <2>1. \A x \in {a, b} : (\A y \in {a, b} : x =< y) => x = a
    BY <1>1
  <2>2. a \in {a, b} /\ \A y \in {a, b} : a =< y
    BY <1>1
  <2>3. Min({a, b}) = a
    BY <2>1, <2>2, Zenon DEF Min
  <2> QED BY <1>1, <2>3
<1>2. CASE ~(a =< b)
  <2>1. \A x \in {a, b} : (\A y \in {a, b} : x =< y) => x = b
    BY <1>2
  <2>2. b \in {a, b} /\ \A y \in {a, b} : b =< y
    BY <1>2
  <2>3. Min({a, b}) = b
    BY <2>1, <2>2, Zenon DEF Min
  <2> QED BY <1>2, <2>3
<1> QED BY <1>1, <1>2

\* A set of paths has a first one in walk order.
LEMMA LeastPath ==
    ASSUME NEW S, S \subseteq Path, S # {}
    PROVE  Min(S) \in S
<1>1. S \subseteq Nat
  BY PathAssumption
<1>2. PICK x \in S : \A y \in S : ~(<<y, x>> \in OpToRel(<, Nat))
  BY <1>1, WFMin, NatLessThanWellFounded
<1>3. \A a, b \in Nat : a < b => <<a, b>> \in OpToRel(<, Nat)
  BY Zenon DEF OpToRel
<1>4. \A y \in S : ~(y < x)
  BY <1>1, <1>2, <1>3, Zenon
<1>5. x \in S
  BY <1>2, Zenon
<1>6. \A y \in S : x =< y
  BY <1>1, <1>4, <1>5
<1>7. PICK m : m = Min(S)
  OBVIOUS
<1>8. m \in S
  BY <1>5, <1>6, <1>7, Zenon DEF Min
<1> QED BY <1>7, <1>8

-----------------------------------------------------------------------------
\* Shapes, and what the steps of a scan do to its variables.

\* A fault, a change or a manual scan is counted.
LEMMA SpendType ==
    ASSUME used \in UsedType, NEW w \in {"changes", "faults", "manual"}, NEW b, Spend(w, b)
    PROVE  used' \in UsedType
  BY DEF Spend, UsedType

\* The variables of a scan that is not there.
LEMMA NoScanType ==
    /\ NoScan \in ScanType
    /\ NoScan.pc = "done" /\ NoScan.gone = {} /\ NoScan.walked = {} /\ NoScan.todo = {}
  BY DEF NoScan, ScanType, PCs, Body, FileType, NoFile

\* start_scan reserves the slot with fresh variables.
LEMMA StartEffect ==
    ASSUME NEW by \in {"api", "cron"}, NEW limit \in {0, 1}, StartScan(by, limit)
    PROVE  /\ scan' \in ScanType
           /\ scan.pc = "done"
           /\ scan'.pc = "open" /\ scan'.by = by /\ scan'.gone = {} /\ scan'.walked = {}
  BY DEF StartScan, NoScan, ScanType, PCs, Body, FileType, NoFile

\* A scan goes on with its variables, or drops them to close.
LEMMA GotoEffect ==
    ASSUME scan \in ScanType, NEW pc \in PCs, Goto(pc)
    PROVE  /\ scan' \in ScanType
           /\ scan'.pc = pc /\ scan'.by = scan.by
           /\ pc = "close" => scan'.gone = {} /\ scan'.walked = {}
           /\ pc # "close" =>
                /\ scan'.gone = scan.gone /\ scan'.walked = scan.walked
                /\ scan'.todo = scan.todo /\ scan'.probe = scan.probe
<1>1. CASE pc = "close"
  BY <1>1 DEF Goto, NoScan, ScanType, FileType, NoFile
<1>2. CASE pc # "close"
  BY <1>2 DEF Goto, ScanType
<1> QED BY <1>1, <1>2

\* The loop goes on with the next file.
LEMMA SkipEffect ==
    ASSUME scan \in ScanType, Skip
    PROVE  /\ scan' \in ScanType
           /\ scan'.pc = "look" /\ scan'.by = scan.by
           /\ scan'.gone = scan.gone /\ scan'.walked = scan.walked
  BY DEF Skip, ScanType, PCs, Body, FileType, NoFile

\* Every step keeps the shapes of files, jobs, rows and scans.
LEMMA TypesStep ==
    ASSUME Types, PruneInv, [Next]_vars
    PROVE  Types'
<1> USE DEF Types
<1>1. ASSUME NEW p \in Busy, Change(p)
     PROVE  Types'
  <2>1. used' \in UsedType
    BY <1>1, SpendType DEF Change
  <2>2. PICK f \in FileType : file' = [file EXCEPT ![p] = f]
    <3>1. NoFile \in FileType
      BY DEF NoFile, FileType
    <3>2. used'.changes \in Nat
      BY <2>1 DEF UsedType
    <3>3. \A c \in {"h264", "vp9"}, m \in {0, used'.changes} :
              [codec |-> c, size |-> used'.changes, mtime |-> m] \in FileType
      BY <3>2 DEF FileType, Codec
    <3> QED BY <1>1, <3>1, <3>3 DEF Change
  <2>3. file' \in [Path -> FileType]
    BY <2>2
  <2>4. steady' \subseteq Path
    BY <1>1 DEF Change
  <2> QED BY <1>1, <2>1, <2>3, <2>4 DEF Change
<1>2. ASSUME NEW p \in Busy, Queue(p)
     PROVE  Types'
  <2>1. p \in Path
    BY BusyAssumption
  <2>2. [row[p] EXCEPT !.status = "queued", !.job = TRUE] \in RowType
    BY <2>1 DEF RowType
  <2>3. row' \in [Path -> RowType]
    BY <1>2, <2>1, <2>2 DEF Queue
  <2>4. job' \in [Path -> JobType]
    BY <1>2, <2>1 DEF Queue, JobType
  <2> QED BY <1>2, <2>3, <2>4 DEF Queue
<1>3. ASSUME NEW p \in Busy, Acquire(p)
     PROVE  Types'
  <2>1. p \in Path
    BY BusyAssumption
  <2>2. file[p].size \in Nat
    BY <2>1 DEF FileType
  <2>3. job' \in [Path -> JobType]
    BY <1>3, <2>1, <2>2 DEF Acquire, WorkerStep, JobType
  <2> QED BY <1>3, <2>3 DEF Acquire, WorkerStep
<1>4. ASSUME NEW p \in Busy, MoveAway(p)
     PROVE  Types'
  <2>1. p \in Path
    BY BusyAssumption
  <2>2. file[p].size \in Nat
    BY <2>1 DEF FileType
  <2>3. job' \in [Path -> JobType]
    BY <1>4, <2>1, <2>2 DEF MoveAway, WorkerStep, JobType
  <2> QED BY <1>4, <2>3 DEF MoveAway, WorkerStep
<1>5. ASSUME NEW p \in Busy, Place(p)
     PROVE  Types'
  <2>1. p \in Path
    BY BusyAssumption
  <2>2. OutOf(file[p]) \in FileType
    <3>1. file[p] \in FileType /\ file[p].size + MaxChanges + 1 \in Nat
      BY <2>1, BoundsAssumption DEF FileType
    <3> QED BY <3>1 DEF OutOf, FileType, Codec
  <2>3. file' \in [Path -> FileType]
    BY <1>5, <2>1, <2>2 DEF Place
  <2>4. job' \in [Path -> JobType]
    BY <1>5, <2>1 DEF Place, WorkerStep, JobType
  <2> QED BY <1>5, <2>3, <2>4 DEF Place, WorkerStep
<1>6. ASSUME NEW p \in Busy, Release(p)
     PROVE  Types'
  <2>1. p \in Path
    BY BusyAssumption
  <2>2. file[p].size \in Nat
    BY <2>1 DEF FileType
  <2>3. job' \in [Path -> JobType]
    BY <1>6, <2>1, <2>2 DEF Release, WorkerStep, JobType
  <2> QED BY <1>6, <2>3 DEF Release, WorkerStep
<1>7. ASSUME NEW p \in Busy, Report(p)
     PROVE  Types'
  <2>1. p \in Path
    BY BusyAssumption
  <2>2. job[p].out \in Nat
    BY <2>1 DEF JobType
  <2>3. PICK r \in RowType : row' = [row EXCEPT ![p] = r]
    <3>1. row[p] \in RowType
      BY <2>1
    <3>2. [row[p] EXCEPT !.status = "complete"] \in RowType
      BY <3>1 DEF RowType
    <3>3. [row[p] EXCEPT !.status = "complete", !.codec = "hevc", !.size = job[p].out]
              \in RowType
      BY <2>2, <3>1 DEF RowType, Codec
    <3> QED BY <1>7, <3>1, <3>2, <3>3 DEF Report
  <2>4. row' \in [Path -> RowType]
    BY <2>1, <2>3
  <2>5. job' \in [Path -> JobType]
    BY <1>7, <2>1 DEF Report, JobType
  <2> QED BY <1>7, <2>4, <2>5 DEF Report
<1>8. ASSUME NEW p \in Busy, Recover(p)
     PROVE  Types'
  <2>1. p \in Path
    BY BusyAssumption
  <2>2. used' \in UsedType
    BY <1>8, SpendType DEF Recover
  <2>3. job' \in [Path -> JobType]
    BY <1>8, <2>1 DEF Recover, WorkerStep, JobType
  <2> QED BY <1>8, <2>2, <2>3 DEF Recover, WorkerStep
<1>9. ASSUME NEW p \in Busy, ReportFailed(p)
     PROVE  Types'
  <2>1. p \in Path
    BY BusyAssumption
  <2>2. PICK r \in RowType : row' = [row EXCEPT ![p] = r]
    <3>1. row[p] \in RowType
      BY <2>1
    <3>2. [row[p] EXCEPT !.status = "needs_transcode"] \in RowType
      BY <3>1 DEF RowType
    <3> QED BY <1>9, <3>1, <3>2 DEF ReportFailed
  <2>3. row' \in [Path -> RowType]
    BY <2>1, <2>2
  <2>4. job' \in [Path -> JobType]
    BY <1>9, <2>1 DEF ReportFailed, JobType
  <2> QED BY <1>9, <2>3, <2>4 DEF ReportFailed
<1>10. CASE Unmount
  <2>1. used' \in UsedType
    BY <1>10, SpendType DEF Unmount
  <2> QED BY <1>10, <2>1 DEF Unmount
<1>11. CASE Remount
  BY <1>11 DEF Remount
<1>12. CASE TriggerScan
  <2>1. used' \in UsedType
    BY <1>12, SpendType DEF TriggerScan
  <2>2. scan' \in ScanType
    BY <1>12, StartEffect DEF TriggerScan
  <2> QED BY <1>12, <2>1, <2>2 DEF TriggerScan, Rest
<1>13. CASE OpenScan
  <2>1. scan' \in ScanType
    BY <1>13, NoScanType DEF OpenScan, ScanType, PCs, Body
  <2>2. cron' \in CronType
    BY <1>13 DEF OpenScan, CreateScan, CronType
  <2>3. age' \in 0 .. Interval /\ cronAge' \in 0 .. Interval
    BY <1>13, BoundsAssumption DEF OpenScan, CreateScan
  <2>4. running' \in Int /\ steady' \subseteq Path
    BY <1>13 DEF OpenScan
  <2> QED BY <1>13, <2>1, <2>2, <2>3, <2>4 DEF OpenScan
<1>14. CASE Walk
  <2>1. scan' \in ScanType
    BY <1>14 DEF Walk, At, ScanType, PCs, Body
  <2> QED BY <1>14, <2>1 DEF Walk, At, Rest
<1>15. CASE Look
  <2>1. scan' \in ScanType
    <3>1. Current \in Path
      BY <1>15, LeastPath DEF Look, Current, ScanType
    <3>2. file[Current].mtime \in Nat /\ scan.listed[Current].mtime \in Nat
      BY <3>1 DEF ScanType, FileType
    <3>3. CASE Goto("close")
      BY <3>3, GotoEffect DEF PCs
    <3>4. CASE Skip
      BY <3>4, SkipEffect
    <3>5. CASE scan' = [scan EXCEPT !.pc = "probe",
                           !.mtime = IF backend = "s3" THEN scan.listed[Current].mtime
                                     ELSE file[Current].mtime]
      BY <3>2, <3>5 DEF ScanType, PCs, Body
    <3> QED BY <1>15, <3>3, <3>4, <3>5 DEF Look
  <2> QED BY <1>15, <2>1 DEF Look, At, Rest
<1>16. CASE Probe
  <2>1. scan' \in ScanType
    <3>1. CASE Goto("close")
      BY <3>1, GotoEffect DEF PCs
    <3>2. CASE Skip
      BY <3>2, SkipEffect
    <3>3. CASE /\ Visible(Current)
               /\ scan' = [scan EXCEPT !.pc = "upsert",
                    !.probe = [file[Current] EXCEPT !.size =
                                 IF backend = "s3" THEN scan.listed[Current].size ELSE @]]
      <4>1. Current \in Path
        BY <1>16, LeastPath DEF Probe, At, PruneInv, Current, ScanType
      <4>2. file[Current] \in FileType /\ scan.listed[Current] \in FileType
        BY <4>1 DEF ScanType
      <4>3. [file[Current] EXCEPT !.size =
                IF backend = "s3" THEN scan.listed[Current].size ELSE @] \in FileType
        BY <4>2 DEF FileType
      <4> QED BY <3>3, <4>3 DEF ScanType, PCs, Body
    <3> QED BY <1>16, <3>1, <3>2, <3>3 DEF Probe
  <2> QED BY <1>16, <2>1 DEF Probe, At, Rest
<1>17. CASE Upsert
  <2>1. scan' \in ScanType
    BY <1>17, SkipEffect DEF Upsert
  <2>2. ASSUME NEW q \in Path PROVE Upserted(row[q], scan.probe, scan.mtime) \in RowType
    <3>1. row[q] \in RowType /\ scan.probe \in FileType /\ scan.mtime \in Nat
      BY DEF ScanType
    <3> QED BY <3>1 DEF RowType, FileType, Upserted, StatusOf, Codec
  <2>3. row' \in [Path -> RowType]
    BY <1>17, <2>2 DEF Upsert
  <2> QED BY <1>17, <2>1, <2>3 DEF Upsert, At, Rest
<1>18. CASE EndLoop
  <2>1. scan' \in ScanType
    BY <1>18, GotoEffect DEF EndLoop, PCs, Body
  <2> QED BY <1>18, <2>1 DEF EndLoop, At, Rest
<1>19. CASE Nominate
  <2>1. scan' \in ScanType
    BY <1>19 DEF Nominate, ScanType, PCs, Body
  <2> QED BY <1>19, <2>1 DEF Nominate, At, Rest
<1>20. CASE Judge
  <2>1. scan' \in ScanType
    <3>1. CASE Goto("sidecars")
      BY <3>1, GotoEffect DEF PCs, Body
    <3>2. CASE scan' = [scan EXCEPT !.todo = @ \ {Current}]
      BY <3>2 DEF ScanType
    <3> QED BY <1>20, <3>1, <3>2 DEF Judge
  <2>2. used' \in UsedType
    BY <1>20, SpendType DEF Judge
  <2> QED BY <1>20, <2>1, <2>2 DEF Judge, At, Rest
<1>21. CASE JudgeSidecars
  <2>1. Current \in Path
    BY <1>21, LeastPath DEF JudgeSidecars, At, PruneInv, Current, ScanType
  <2>2. scan' \in ScanType
    BY <1>21, <2>1 DEF JudgeSidecars, ScanType, PCs, Body
  <2> QED BY <1>21, <2>2 DEF JudgeSidecars, At, Rest
<1>22. CASE EndJudge
  <2>1. scan' \in ScanType
    BY <1>22, GotoEffect DEF EndJudge, PCs, Body
  <2> QED BY <1>22, <2>1 DEF EndJudge, At, Rest
<1>23. CASE Delete
  <2>1. scan' \in ScanType
    BY <1>23, GotoEffect DEF Delete, PCs
  <2>2. NoRow \in RowType
    BY DEF NoRow, RowType
  <2>3. row' \in [Path -> RowType]
    BY <1>23, <2>2 DEF Delete
  <2> QED BY <1>23, <2>1, <2>3 DEF Delete, At, Rest
<1>24. CASE CloseScan
  <2>1. used' \in UsedType
    BY <1>24, SpendType DEF CloseScan
  <2>2. scan' \in ScanType /\ running' \in Int /\ stranded' \in Int
    BY <1>24, NoScanType DEF CloseScan
  <2> QED BY <1>24, <2>1, <2>2 DEF CloseScan, Rest
<1>25. CASE ProbeFails
  <2>1. used' \in UsedType
    BY <1>25, SpendType DEF ProbeFails
  <2>2. scan' \in ScanType
    BY <1>25, SkipEffect DEF ProbeFails
  <2> QED BY <1>25, <2>1, <2>2 DEF ProbeFails, At, Rest
<1>26. CASE ScanError
  <2>1. used' \in UsedType
    BY <1>26, SpendType DEF ScanError
  <2>2. scan' \in ScanType
    BY <1>26, GotoEffect DEF ScanError, PCs
  <2> QED BY <1>26, <2>1, <2>2 DEF ScanError, At, Rest
<1>27. CASE CronWake
  <2>1. cron' \in CronType
    BY <1>27 DEF CronWake, CronType
  <2> QED BY <1>27, <2>1 DEF CronWake
<1>28. CASE CronAsk
  <2>1. cron' \in CronType
    BY <1>28 DEF CronAsk, CronType
  <2>2. scan' \in ScanType
    BY <1>28, StartEffect DEF CronAsk
  <2> QED BY <1>28, <2>1, <2>2 DEF CronAsk
<1>29. CASE CronDone
  <2>1. cron' \in CronType
    BY <1>29 DEF CronDone, CronType
  <2> QED BY <1>29, <2>1 DEF CronDone
<1>30. CASE Tick
  <2>1. age' \in 0 .. Interval /\ cronAge' \in 0 .. Interval
    BY <1>30, MinOfTwo, BoundsAssumption DEF Tick
  <2> QED BY <1>30, <2>1 DEF Tick
<1>31. CASE Crash
  <2>1. used' \in UsedType
    BY <1>31, SpendType DEF Crash, Stop
  <2>2. scan' \in ScanType
    BY <1>31, NoScanType DEF Crash, Stop
  <2>3. cron' = [pc |-> "sleep", due |-> FALSE]
    BY <1>31, Zenon DEF Crash, Stop
  <2>4. running' \in Int /\ age' \in 0 .. Interval
    BY <1>31, BoundsAssumption DEF Crash, Stop
  <2>5. cron' \in CronType
    BY <2>3 DEF CronType
  <2> QED BY <1>31, <2>1, <2>2, <2>4, <2>5 DEF Crash, Stop
<1>32. CASE Shutdown
  <2>1. used' \in UsedType
    BY <1>32, SpendType DEF Shutdown, Stop
  <2>2. scan' \in ScanType
    BY <1>32, NoScanType DEF Shutdown, Stop
  <2>3. cron' = [pc |-> "sleep", due |-> FALSE]
    BY <1>32, Zenon DEF Shutdown, Stop
  <2>4. running' \in Int /\ age' \in 0 .. Interval
    BY <1>32, BoundsAssumption DEF Shutdown, Stop
  <2>5. cron' \in CronType
    BY <2>3 DEF CronType
  <2> QED BY <1>32, <2>1, <2>2, <2>4, <2>5 DEF Shutdown, Stop
<1>33. CASE Boot
  BY <1>33 DEF Boot
<1>34. CASE UNCHANGED vars
  BY <1>34 DEF vars
<1> QED
  BY <1>1, <1>2, <1>3, <1>4, <1>5, <1>6, <1>7, <1>8, <1>9, <1>10, <1>11, <1>12,
      <1>13, <1>14, <1>15, <1>16, <1>17, <1>18, <1>19, <1>20, <1>21, <1>22, <1>23, <1>24,
      <1>25, <1>26, <1>27, <1>28, <1>29, <1>30, <1>31, <1>32, <1>33, <1>34
     DEF Next, ScanStep, WorkerWork

\* Every step keeps the running rows in line with the task.
LEMMA TaskStep ==
    ASSUME Types, TaskInv, [Next]_vars
    PROVE  TaskInv'
<1> USE DEF TaskInv, RunningRowHasTask
<1>1. ASSUME NEW p \in Busy, Change(p)
     PROVE  TaskInv'
  BY <1>1 DEF Change, Spend
<1>2. ASSUME NEW p \in Busy, Queue(p)
     PROVE  TaskInv'
  BY <1>2 DEF Queue
<1>3. ASSUME NEW p \in Busy, Acquire(p)
     PROVE  TaskInv'
  BY <1>3 DEF Acquire, WorkerStep
<1>4. ASSUME NEW p \in Busy, MoveAway(p)
     PROVE  TaskInv'
  BY <1>4 DEF MoveAway, WorkerStep
<1>5. ASSUME NEW p \in Busy, Place(p)
     PROVE  TaskInv'
  BY <1>5 DEF Place, WorkerStep
<1>6. ASSUME NEW p \in Busy, Release(p)
     PROVE  TaskInv'
  BY <1>6 DEF Release, WorkerStep
<1>7. ASSUME NEW p \in Busy, Report(p)
     PROVE  TaskInv'
  BY <1>7 DEF Report
<1>8. ASSUME NEW p \in Busy, Recover(p)
     PROVE  TaskInv'
  BY <1>8 DEF Recover, Spend, WorkerStep
<1>9. ASSUME NEW p \in Busy, ReportFailed(p)
     PROVE  TaskInv'
  BY <1>9 DEF ReportFailed
<1>10. CASE Unmount
  BY <1>10 DEF Unmount, Spend
<1>11. CASE Remount
  BY <1>11 DEF Remount
<1>12. CASE TriggerScan
  <2>1. scan.pc = "done" /\ scan'.pc = "open"
    BY <1>12, StartEffect DEF TriggerScan
  <2> QED BY <1>12, <2>1 DEF TriggerScan, Rest, Body
<1>13. CASE OpenScan
  BY <1>13 DEF OpenScan, CreateScan, Types, ScanType, PCs, Body, NoScan
<1>14. CASE Walk
  BY <1>14 DEF Walk, At, Rest, Types, ScanType, PCs, Body, NoScan
<1>15. CASE Look
  BY <1>15 DEF Look, At, Goto, Skip, Rest, Types, ScanType, PCs, Body, NoScan
<1>16. CASE Probe
  BY <1>16 DEF Probe, At, Skip, Goto, Rest, Types, ScanType, PCs, Body, NoScan
<1>17. CASE Upsert
  BY <1>17 DEF Upsert, At, Skip, Rest, Types, ScanType, PCs, Body, NoScan
<1>18. CASE EndLoop
  BY <1>18 DEF EndLoop, At, Goto, Rest, Types, ScanType, PCs, Body, NoScan
<1>19. CASE Nominate
  BY <1>19 DEF Nominate, At, Rest, Types, ScanType, PCs, Body, NoScan
<1>20. CASE Judge
  BY <1>20 DEF Judge, At, Goto, Spend, Rest, Types, ScanType, PCs, Body, NoScan
<1>21. CASE JudgeSidecars
  BY <1>21 DEF JudgeSidecars, At, Rest, Types, ScanType, PCs, Body, NoScan
<1>22. CASE EndJudge
  BY <1>22 DEF EndJudge, At, Goto, Rest, Types, ScanType, PCs, Body, NoScan
<1>23. CASE Delete
  BY <1>23 DEF Delete, At, Goto, Rest, Types, ScanType, PCs, Body, NoScan
<1>24. CASE CloseScan
  BY <1>24 DEF CloseScan, Spend, Rest, Types, ScanType, PCs, Body, NoScan
<1>25. CASE ProbeFails
  BY <1>25 DEF ProbeFails, At, Spend, Skip, Rest, Types, ScanType, PCs, Body, NoScan
<1>26. CASE ScanError
  BY <1>26 DEF ScanError, At, Spend, Goto, Rest
<1>27. CASE CronWake
  BY <1>27 DEF CronWake
<1>28. CASE CronAsk
  <2>1. scan' = scan \/ (scan.pc = "done" /\ scan'.pc = "open")
    BY <1>28, StartEffect DEF CronAsk
  <2> QED BY <1>28, <2>1 DEF CronAsk, Body
<1>29. CASE CronDone
  BY <1>29 DEF CronDone
<1>30. CASE Tick
  BY <1>30 DEF Tick
<1>31. CASE Crash
  BY <1>31 DEF Crash, Stop, Spend, Types, ScanType, PCs, Body, NoScan
<1>32. CASE Shutdown
  BY <1>32 DEF Shutdown, Stop, Spend, Types, ScanType, PCs, Body, NoScan
<1>33. CASE Boot
  BY <1>33 DEF Boot, Types, ScanType, PCs, Body, NoScan
<1>34. CASE UNCHANGED vars
  BY <1>34 DEF vars
<1> QED
  BY <1>1, <1>2, <1>3, <1>4, <1>5, <1>6, <1>7, <1>8, <1>9, <1>10, <1>11, <1>12,
      <1>13, <1>14, <1>15, <1>16, <1>17, <1>18, <1>19, <1>20, <1>21, <1>22, <1>23, <1>24,
      <1>25, <1>26, <1>27, <1>28, <1>29, <1>30, <1>31, <1>32, <1>33, <1>34
     DEF Next, ScanStep, WorkerWork

\* Every step keeps scheduled scans apart.
LEMMA ApartStep ==
    ASSUME Types, ApartInv, [Next]_vars
    PROVE  ApartInv'
<1> USE DEF ApartInv
<1>1. ASSUME NEW p \in Busy, Change(p)
     PROVE  ApartInv'
  BY <1>1 DEF Change, Spend
<1>2. ASSUME NEW p \in Busy, Queue(p)
     PROVE  ApartInv'
  BY <1>2 DEF Queue
<1>3. ASSUME NEW p \in Busy, Acquire(p)
     PROVE  ApartInv'
  BY <1>3 DEF Acquire, WorkerStep
<1>4. ASSUME NEW p \in Busy, MoveAway(p)
     PROVE  ApartInv'
  BY <1>4 DEF MoveAway, WorkerStep
<1>5. ASSUME NEW p \in Busy, Place(p)
     PROVE  ApartInv'
  BY <1>5 DEF Place, WorkerStep
<1>6. ASSUME NEW p \in Busy, Release(p)
     PROVE  ApartInv'
  BY <1>6 DEF Release, WorkerStep
<1>7. ASSUME NEW p \in Busy, Report(p)
     PROVE  ApartInv'
  BY <1>7 DEF Report
<1>8. ASSUME NEW p \in Busy, Recover(p)
     PROVE  ApartInv'
  BY <1>8 DEF Recover, Spend, WorkerStep
<1>9. ASSUME NEW p \in Busy, ReportFailed(p)
     PROVE  ApartInv'
  BY <1>9 DEF ReportFailed
<1>10. CASE Unmount
  BY <1>10 DEF Unmount, Spend
<1>11. CASE Remount
  BY <1>11 DEF Remount
<1>12. CASE TriggerScan
  BY <1>12 DEF TriggerScan, Spend, StartScan, Rest
<1>13. CASE OpenScan
  BY <1>13, BoundsAssumption DEF OpenScan, CreateScan, Types, ScanType, NoScan, CronType
<1>14. CASE Walk
  BY <1>14 DEF Walk, At, Rest
<1>15. CASE Look
  BY <1>15, BoundsAssumption
     DEF Look, At, Goto, Skip, Rest, Types, ScanType, NoScan, CronType
<1>16. CASE Probe
  BY <1>16, BoundsAssumption
     DEF Probe, At, Skip, Goto, Rest, Types, ScanType, NoScan, CronType
<1>17. CASE Upsert
  BY <1>17 DEF Upsert, At, Skip, Rest
<1>18. CASE EndLoop
  BY <1>18 DEF EndLoop, At, Goto, Rest
<1>19. CASE Nominate
  BY <1>19 DEF Nominate, At, Rest
<1>20. CASE Judge
  BY <1>20, BoundsAssumption
     DEF Judge, At, Goto, Spend, Rest, Types, ScanType, NoScan, CronType
<1>21. CASE JudgeSidecars
  BY <1>21 DEF JudgeSidecars, At, Rest
<1>22. CASE EndJudge
  BY <1>22 DEF EndJudge, At, Goto, Rest
<1>23. CASE Delete
  BY <1>23 DEF Delete, At, Goto, Rest
<1>24. CASE CloseScan
  BY <1>24, BoundsAssumption DEF CloseScan, Spend, Rest, Types, ScanType, NoScan, CronType
<1>25. CASE ProbeFails
  BY <1>25 DEF ProbeFails, At, Spend, Skip, Rest
<1>26. CASE ScanError
  BY <1>26 DEF ScanError, At, Spend, Goto, Rest
<1>27. CASE CronWake
  BY <1>27, BoundsAssumption DEF CronWake, Types, ScanType, NoScan, CronType
<1>28. CASE CronAsk
  <2>1. scan' = scan \/ cron.due
    BY <1>28 DEF CronAsk
  <2>2. cron'.due = cron.due
    BY <1>28 DEF CronAsk, Types, CronType
  <2> QED BY <1>28, <2>1, <2>2 DEF CronAsk
<1>29. CASE CronDone
  BY <1>29 DEF CronDone
<1>30. CASE Tick
  BY <1>30, MinOfTwo, BoundsAssumption DEF Tick, Types
<1>31. CASE Crash
  BY <1>31, BoundsAssumption DEF Crash, Stop, Spend, Types, ScanType, NoScan, CronType
<1>32. CASE Shutdown
  BY <1>32, BoundsAssumption DEF Shutdown, Stop, Spend, Types, ScanType, NoScan, CronType
<1>33. CASE Boot
  BY <1>33 DEF Boot
<1>34. CASE UNCHANGED vars
  BY <1>34 DEF vars
<1> QED
  BY <1>1, <1>2, <1>3, <1>4, <1>5, <1>6, <1>7, <1>8, <1>9, <1>10, <1>11, <1>12,
      <1>13, <1>14, <1>15, <1>16, <1>17, <1>18, <1>19, <1>20, <1>21, <1>22, <1>23, <1>24,
      <1>25, <1>26, <1>27, <1>28, <1>29, <1>30, <1>31, <1>32, <1>33, <1>34
     DEF Next, ScanStep, WorkerWork

\* A file leaves steady with the step that moves it.
LEMMA SteadyStep ==
    ASSUME Types, ContentInv, SteadyInv, [Next]_vars
    PROVE  SteadyInv'
<1> USE DEF SteadyInv
<1>1. ASSUME NEW p \in Busy, Change(p)
     PROVE  SteadyInv'
  BY <1>1, BusyAssumption DEF Change, Spend, Types, JobType, FileType, NoFile
<1>2. ASSUME NEW p \in Busy, Queue(p)
     PROVE  SteadyInv'
  BY <1>2 DEF Queue
<1>3. ASSUME NEW p \in Busy, Acquire(p)
     PROVE  SteadyInv'
  <2>1. p \in Path
    BY BusyAssumption
  <2>2. job'[p].pc # "moved" /\ \A q \in Path \ {p} : job'[q] = job[q]
    BY <1>3, <2>1 DEF Acquire, WorkerStep, Types, JobType
  <2> QED BY <1>3, <2>2 DEF Acquire, Types
<1>4. ASSUME NEW p \in Busy, MoveAway(p)
     PROVE  SteadyInv'
  BY <1>4, BusyAssumption DEF MoveAway, WorkerStep, Types, JobType, FileType, NoFile
<1>5. ASSUME NEW p \in Busy, Place(p)
     PROVE  SteadyInv'
  BY <1>5, BusyAssumption DEF Place, WorkerStep, Types, JobType, FileType, NoFile, OutOf
<1>6. ASSUME NEW p \in Busy, Release(p)
     PROVE  SteadyInv'
  BY <1>6, BusyAssumption DEF Release, WorkerStep, Types, JobType, FileType, NoFile
<1>7. ASSUME NEW p \in Busy, Report(p)
     PROVE  SteadyInv'
  BY <1>7 DEF Report
<1>8. ASSUME NEW p \in Busy, Recover(p)
     PROVE  SteadyInv'
  BY <1>8, BusyAssumption
     DEF Recover, Spend, WorkerStep, Types, JobType, FileType, NoFile
<1>9. ASSUME NEW p \in Busy, ReportFailed(p)
     PROVE  SteadyInv'
  BY <1>9 DEF ReportFailed
<1>10. CASE Unmount
  BY <1>10 DEF Unmount, Spend
<1>11. CASE Remount
  BY <1>11 DEF Remount
<1>12. CASE TriggerScan
  BY <1>12 DEF TriggerScan, Spend, StartScan, Rest
<1>13. CASE OpenScan
  BY <1>13 DEF OpenScan, CreateScan
<1>14. CASE Walk
  BY <1>14 DEF Walk, At, Rest
<1>15. CASE Look
  BY <1>15 DEF Look, At, Goto, Skip, Rest
<1>16. CASE Probe
  BY <1>16 DEF Probe, At, Skip, Goto, Rest
<1>17. CASE Upsert
  BY <1>17 DEF Upsert, At, Skip, Rest
<1>18. CASE EndLoop
  BY <1>18 DEF EndLoop, At, Goto, Rest
<1>19. CASE Nominate
  BY <1>19 DEF Nominate, At, Rest
<1>20. CASE Judge
  BY <1>20 DEF Judge, At, Goto, Spend, Rest
<1>21. CASE JudgeSidecars
  BY <1>21 DEF JudgeSidecars, At, Rest
<1>22. CASE EndJudge
  BY <1>22 DEF EndJudge, At, Goto, Rest
<1>23. CASE Delete
  BY <1>23 DEF Delete, At, Goto, Rest
<1>24. CASE CloseScan
  BY <1>24 DEF CloseScan, Spend, Rest
<1>25. CASE ProbeFails
  BY <1>25 DEF ProbeFails, At, Spend, Skip, Rest
<1>26. CASE ScanError
  BY <1>26 DEF ScanError, At, Spend, Goto, Rest
<1>27. CASE CronWake
  BY <1>27 DEF CronWake
<1>28. CASE CronAsk
  BY <1>28 DEF CronAsk, StartScan
<1>29. CASE CronDone
  BY <1>29 DEF CronDone
<1>30. CASE Tick
  BY <1>30 DEF Tick
<1>31. CASE Crash
  BY <1>31 DEF Crash, Stop, Spend
<1>32. CASE Shutdown
  BY <1>32 DEF Shutdown, Stop, Spend
<1>33. CASE Boot
  BY <1>33 DEF Boot
<1>34. CASE UNCHANGED vars
  BY <1>34 DEF vars
<1> QED
  BY <1>1, <1>2, <1>3, <1>4, <1>5, <1>6, <1>7, <1>8, <1>9, <1>10, <1>11, <1>12,
      <1>13, <1>14, <1>15, <1>16, <1>17, <1>18, <1>19, <1>20, <1>21, <1>22, <1>23, <1>24,
      <1>25, <1>26, <1>27, <1>28, <1>29, <1>30, <1>31, <1>32, <1>33, <1>34
     DEF Next, ScanStep, WorkerWork

\* Every step keeps a codec in each file and a status in each row.
LEMMA ContentStep ==
    ASSUME Types, PruneInv, ContentInv, [Next]_vars
    PROVE  ContentInv'
<1> USE DEF ContentInv
<1>1. ASSUME NEW p \in Busy, Change(p)
     PROVE  ContentInv'
  <2>1. p \in Path
    BY BusyAssumption
  <2>2. file'[p] # NoFile => file'[p].codec # "none"
    BY <1>1, <2>1 DEF Change, Types, NoFile
  <2>3. \A q \in Path \ {p} : file'[q] = file[q]
    BY <1>1, <2>1 DEF Change, Types
  <2> QED BY <1>1, <2>2, <2>3 DEF Change
<1>2. ASSUME NEW p \in Busy, Queue(p)
     PROVE  ContentInv'
  <2>1. p \in Path
    BY BusyAssumption
  <2>2. row'[p].status = "queued" /\ \A q \in Path \ {p} : row'[q] = row[q]
    BY <1>2, <2>1 DEF Queue, Types, RowType
  <2> QED BY <1>2, <2>2 DEF Queue
<1>3. ASSUME NEW p \in Busy, Acquire(p)
     PROVE  ContentInv'
  BY <1>3 DEF Acquire, WorkerStep
<1>4. ASSUME NEW p \in Busy, MoveAway(p)
     PROVE  ContentInv'
  BY <1>4 DEF MoveAway, WorkerStep
<1>5. ASSUME NEW p \in Busy, Place(p)
     PROVE  ContentInv'
  <2>1. p \in Path
    BY BusyAssumption
  <2>2. file'[p] = OutOf(file[p]) /\ \A q \in Path \ {p} : file'[q] = file[q]
    BY <1>5, <2>1 DEF Place, Types
  <2>3. OutOf(file[p]).codec = "hevc"
    BY <2>1 DEF OutOf, Types, FileType
  <2> QED BY <1>5, <2>2, <2>3 DEF Place, WorkerStep
<1>6. ASSUME NEW p \in Busy, Release(p)
     PROVE  ContentInv'
  BY <1>6 DEF Release, WorkerStep
<1>7. ASSUME NEW p \in Busy, Report(p)
     PROVE  ContentInv'
  <2>1. p \in Path
    BY BusyAssumption
  <2>2. \A q \in Path \ {p} : row'[q] = row[q]
    BY <1>7, <2>1 DEF Report, Types
  <2>3. row'[p] = row[p] \/ row'[p].status # "none"
    BY <1>7, <2>1 DEF Report, Types, RowType
  <2> QED BY <1>7, <2>1, <2>2, <2>3 DEF Report
<1>8. ASSUME NEW p \in Busy, Recover(p)
     PROVE  ContentInv'
  BY <1>8 DEF Recover, Spend, WorkerStep
<1>9. ASSUME NEW p \in Busy, ReportFailed(p)
     PROVE  ContentInv'
  <2>1. p \in Path
    BY BusyAssumption
  <2>2. \A q \in Path \ {p} : row'[q] = row[q]
    BY <1>9, <2>1 DEF ReportFailed, Types
  <2>3. row'[p] = row[p] \/ row'[p].status # "none"
    BY <1>9, <2>1 DEF ReportFailed, Types, RowType
  <2> QED BY <1>9, <2>1, <2>2, <2>3 DEF ReportFailed
<1>10. CASE Unmount
  BY <1>10 DEF Unmount, Spend
<1>11. CASE Remount
  BY <1>11 DEF Remount
<1>12. CASE TriggerScan
  BY <1>12 DEF TriggerScan, Spend, StartScan, Rest
<1>13. CASE OpenScan
  BY <1>13, BusyAssumption DEF OpenScan, CreateScan, Types, ScanType, NoScan
<1>14. CASE Walk
  BY <1>14 DEF Walk, At, Rest
<1>15. CASE Look
  BY <1>15, BusyAssumption DEF Look, At, Goto, Skip, Rest, Types, ScanType, NoScan
<1>16. CASE Probe
  <2>1. scan'.pc = "upsert" => scan'.probe.codec # "none"
    <3>1. CASE Goto("close")
      BY <3>1, GotoEffect DEF PCs, Types
    <3>2. CASE Skip
      BY <3>2, SkipEffect DEF Types
    <3>3. CASE /\ Visible(Current)
               /\ scan' = [scan EXCEPT !.pc = "upsert",
                    !.probe = [file[Current] EXCEPT !.size =
                                 IF backend = "s3" THEN scan.listed[Current].size ELSE @]]
      <4>1. Current \in Path
        BY <1>16, LeastPath DEF Probe, At, PruneInv, Current, Types, ScanType
      <4>2. file[Current] \in FileType /\ file[Current].codec # "none"
        BY <3>3, <4>1 DEF Types, Visible
      <4>3. [file[Current] EXCEPT !.size =
                IF backend = "s3" THEN scan.listed[Current].size ELSE @].codec # "none"
        BY <4>2 DEF FileType
      <4> QED BY <3>3, <4>3 DEF Types, ScanType
    <3> QED BY <1>16, <3>1, <3>2, <3>3 DEF Probe
  <2> QED BY <1>16, <2>1 DEF Probe, At, Rest
<1>17. CASE Upsert
  <2>1. scan'.pc = "look"
    BY <1>17, SkipEffect DEF Upsert, Types
  <2>2. Current \in Path
    BY <1>17, LeastPath DEF Upsert, At, PruneInv, Current, Types, ScanType
  <2>3. Upserted(row[Current], scan.probe, scan.mtime).status # "none"
    <3>1. scan.probe.codec # "none"
      BY <1>17 DEF Upsert, At
    <3>2. CASE row[Current].codec = scan.probe.codec
      <4>1. row[Current].status # "none"
        BY <2>2, <3>1, <3>2 DEF NoRow
      <4> QED BY <3>2, <4>1 DEF Upserted
    <3>3. CASE row[Current].codec # scan.probe.codec
      BY <3>3 DEF Upserted, StatusOf
    <3> QED BY <3>2, <3>3
  <2>4. /\ row'[Current] = Upserted(row[Current], scan.probe, scan.mtime)
        /\ \A q \in Path \ {Current} : row'[q] = row[q]
    BY <1>17, <2>2 DEF Upsert, Types
  <2> QED BY <1>17, <2>1, <2>3, <2>4 DEF Upsert, At, Rest
<1>18. CASE EndLoop
  BY <1>18 DEF EndLoop, At, Goto, Rest
<1>19. CASE Nominate
  BY <1>19 DEF Nominate, At, Rest
<1>20. CASE Judge
  BY <1>20, BusyAssumption DEF Judge, At, Goto, Spend, Rest, Types, ScanType, NoScan
<1>21. CASE JudgeSidecars
  BY <1>21 DEF JudgeSidecars, At, Rest
<1>22. CASE EndJudge
  BY <1>22 DEF EndJudge, At, Goto, Rest
<1>23. CASE Delete
  BY <1>23 DEF Delete, At, Goto, Rest
<1>24. CASE CloseScan
  BY <1>24, BusyAssumption DEF CloseScan, Spend, Rest, Types, ScanType, NoScan
<1>25. CASE ProbeFails
  BY <1>25 DEF ProbeFails, At, Spend, Skip, Rest
<1>26. CASE ScanError
  BY <1>26 DEF ScanError, At, Spend, Goto, Rest
<1>27. CASE CronWake
  BY <1>27 DEF CronWake
<1>28. CASE CronAsk
  BY <1>28, BusyAssumption DEF CronAsk, StartScan, Types, ScanType, NoScan
<1>29. CASE CronDone
  BY <1>29 DEF CronDone
<1>30. CASE Tick
  BY <1>30 DEF Tick
<1>31. CASE Crash
  <2>1. scan' = NoScan /\ file' = file /\ row' = row
    BY <1>31, Zenon DEF Crash, Stop
  <2> QED BY <2>1, NoScanType
<1>32. CASE Shutdown
  <2>1. scan' = NoScan /\ file' = file /\ row' = row
    BY <1>32, Zenon DEF Shutdown, Stop
  <2> QED BY <2>1, NoScanType
<1>33. CASE Boot
  BY <1>33 DEF Boot
<1>34. CASE UNCHANGED vars
  BY <1>34 DEF vars
<1> QED
  BY <1>1, <1>2, <1>3, <1>4, <1>5, <1>6, <1>7, <1>8, <1>9, <1>10, <1>11, <1>12,
      <1>13, <1>14, <1>15, <1>16, <1>17, <1>18, <1>19, <1>20, <1>21, <1>22, <1>23, <1>24,
      <1>25, <1>26, <1>27, <1>28, <1>29, <1>30, <1>31, <1>32, <1>33, <1>34
     DEF Next, ScanStep, WorkerWork

\* Every step keeps the walk complete for what stayed in place.
LEMMA PruneStep ==
    ASSUME Types, SteadyInv, PruneInv, [Next]_vars
    PROVE  PruneInv'
<1> USE DEF PruneInv
<1>1. ASSUME NEW p \in Busy, Change(p)
     PROVE  PruneInv'
  BY <1>1 DEF Change, Spend
<1>2. ASSUME NEW p \in Busy, Queue(p)
     PROVE  PruneInv'
  BY <1>2 DEF Queue
<1>3. ASSUME NEW p \in Busy, Acquire(p)
     PROVE  PruneInv'
  BY <1>3 DEF Acquire, WorkerStep
<1>4. ASSUME NEW p \in Busy, MoveAway(p)
     PROVE  PruneInv'
  BY <1>4 DEF MoveAway, WorkerStep
<1>5. ASSUME NEW p \in Busy, Place(p)
     PROVE  PruneInv'
  BY <1>5 DEF Place, WorkerStep
<1>6. ASSUME NEW p \in Busy, Release(p)
     PROVE  PruneInv'
  BY <1>6 DEF Release, WorkerStep
<1>7. ASSUME NEW p \in Busy, Report(p)
     PROVE  PruneInv'
  BY <1>7 DEF Report
<1>8. ASSUME NEW p \in Busy, Recover(p)
     PROVE  PruneInv'
  BY <1>8 DEF Recover, Spend, WorkerStep
<1>9. ASSUME NEW p \in Busy, ReportFailed(p)
     PROVE  PruneInv'
  BY <1>9 DEF ReportFailed
<1>10. CASE Unmount
  BY <1>10 DEF Unmount, Spend
<1>11. CASE Remount
  BY <1>11 DEF Remount
<1>12. CASE TriggerScan
  BY <1>12, StartEffect DEF TriggerScan
<1>13. CASE OpenScan
  <2>1. CASE scan' = NoScan
    BY <2>1, NoScanType
  <2>2. CASE scan' = [scan EXCEPT !.pc = "walk"]
    <3>1. scan'.pc = "walk" /\ scan'.gone = scan.gone /\ scan'.walked = scan.walked
      BY <2>2 DEF Types, ScanType
    <3>2. scan.gone = {}
      BY <1>13 DEF OpenScan
    <3> QED BY <3>1, <3>2
  <2> QED BY <1>13, <2>1, <2>2 DEF OpenScan
<1>14. CASE Walk
  <2>1. /\ scan'.pc = "look" /\ scan'.walked = {q \in Path : Visible(q)}
        /\ scan'.gone = scan.gone
    BY <1>14 DEF Walk, Types, ScanType
  <2>2. scan.gone = {}
    BY <1>14 DEF Walk, At
  <2>3. mounted => steady \subseteq scan'.walked
    BY <2>1 DEF SteadyInv, Visible, Types
  <2>4. ~mounted => scan'.walked = {}
    BY <2>1 DEF Visible
  <2> QED BY <1>14, <2>1, <2>2, <2>3, <2>4 DEF Walk, At
<1>15. CASE Look
  <2>1. CASE Goto("close")
    BY <2>1, GotoEffect DEF PCs, Types
  <2>2. CASE Skip
    BY <1>15, <2>2, SkipEffect DEF Look, At, Types
  <2>3. CASE scan' = [scan EXCEPT !.pc = "probe",
                         !.mtime = IF backend = "s3" THEN scan.listed[Current].mtime
                                   ELSE file[Current].mtime]
    <3>1. /\ scan'.pc = "probe" /\ scan'.gone = scan.gone /\ scan'.walked = scan.walked
          /\ scan'.todo = scan.todo
      BY <2>3 DEF Types, ScanType
    <3> QED BY <1>15, <3>1 DEF Look, At
  <2> QED BY <1>15, <2>1, <2>2, <2>3 DEF Look
<1>16. CASE Probe
  <2>1. CASE Goto("close")
    BY <2>1, GotoEffect DEF PCs, Types
  <2>2. CASE Skip
    BY <1>16, <2>2, SkipEffect DEF Probe, At, Types
  <2>3. CASE scan' = [scan EXCEPT !.pc = "upsert",
                  !.probe = [file[Current] EXCEPT !.size =
                               IF backend = "s3" THEN scan.listed[Current].size ELSE @]]
    <3>1. /\ scan'.pc = "upsert" /\ scan'.gone = scan.gone /\ scan'.walked = scan.walked
          /\ scan'.todo = scan.todo
      BY <2>3 DEF Types, ScanType
    <3> QED BY <1>16, <3>1 DEF Probe, At
  <2> QED BY <1>16, <2>1, <2>2, <2>3 DEF Probe
<1>17. CASE Upsert
  BY <1>17, SkipEffect DEF Upsert, At, Types
<1>18. CASE EndLoop
  <2>1. CASE MayPrune
    BY <1>18, <2>1, GotoEffect DEF EndLoop, At, MayPrune, PCs, Body, Types
  <2>2. CASE ~MayPrune
    BY <1>18, <2>2, GotoEffect DEF EndLoop, PCs, Types
  <2> QED BY <2>1, <2>2
<1>19. CASE Nominate
  <2>1. /\ scan'.pc = "judge" /\ scan'.walked = scan.walked /\ scan'.gone = scan.gone
        /\ scan'.todo \cap scan.walked = {}
    BY <1>19 DEF Nominate, Types, ScanType
  <2> QED BY <1>19, <2>1 DEF Nominate, At
<1>20. CASE Judge
  <2>1. CASE Goto("sidecars")
    BY <1>20, <2>1, GotoEffect DEF Judge, At, PCs, Body, Types
  <2>2. CASE scan' = [scan EXCEPT !.todo = @ \ {Current}]
    <3>1. /\ scan'.pc = scan.pc /\ scan'.gone = scan.gone /\ scan'.walked = scan.walked
          /\ scan'.todo \subseteq scan.todo
      BY <2>2 DEF Types, ScanType
    <3> QED BY <1>20, <3>1 DEF Judge, At
  <2> QED BY <1>20, <2>1, <2>2 DEF Judge
<1>21. CASE JudgeSidecars
  <2>1. Current \in scan.todo
    BY <1>21, LeastPath DEF JudgeSidecars, At, Current, Types, ScanType
  <2>2. /\ scan'.pc = "judge" /\ scan'.walked = scan.walked
        /\ scan'.todo \subseteq scan.todo /\ scan'.gone \subseteq scan.gone \cup {Current}
    BY <1>21 DEF JudgeSidecars, Types, ScanType
  <2> QED BY <1>21, <2>1, <2>2 DEF JudgeSidecars, At
<1>22. CASE EndJudge
  BY <1>22, GotoEffect DEF EndJudge, At, PCs, Body, Types
<1>23. CASE Delete
  BY <1>23, GotoEffect DEF Delete, PCs, Types
<1>24. CASE CloseScan
  BY <1>24, NoScanType DEF CloseScan
<1>25. CASE ProbeFails
  BY <1>25, SkipEffect DEF ProbeFails, At, Types
<1>26. CASE ScanError
  BY <1>26, GotoEffect DEF ScanError, PCs, Types
<1>27. CASE CronWake
  BY <1>27 DEF CronWake
<1>28. CASE CronAsk
  BY <1>28, StartEffect DEF CronAsk
<1>29. CASE CronDone
  BY <1>29 DEF CronDone
<1>30. CASE Tick
  BY <1>30 DEF Tick
<1>31. CASE Crash
  <2>1. scan' = NoScan
    BY <1>31, Zenon DEF Crash, Stop
  <2> QED BY <2>1, NoScanType
<1>32. CASE Shutdown
  <2>1. scan' = NoScan
    BY <1>32, Zenon DEF Shutdown, Stop
  <2> QED BY <2>1, NoScanType
<1>33. CASE Boot
  BY <1>33 DEF Boot
<1>34. CASE UNCHANGED vars
  BY <1>34 DEF vars
<1> QED
  BY <1>1, <1>2, <1>3, <1>4, <1>5, <1>6, <1>7, <1>8, <1>9, <1>10, <1>11, <1>12,
      <1>13, <1>14, <1>15, <1>16, <1>17, <1>18, <1>19, <1>20, <1>21, <1>22, <1>23, <1>24,
      <1>25, <1>26, <1>27, <1>28, <1>29, <1>30, <1>31, <1>32, <1>33, <1>34
     DEF Next, ScanStep, WorkerWork

-----------------------------------------------------------------------------
\* Bounds.

\* The variables of a scan that is not there are within them.
LEMMA NoScanBound ==
    /\ NoScan.mtime =< MaxChanges /\ NoScan.probe = NoFile
    /\ Bounded(NoScan.probe) /\ \A p \in Path : Bounded(NoScan.listed[p])
  BY BoundsAssumption DEF NoScan, NoFile, Bounded

\* A scan that goes on, or closes, holds nothing new.
LEMMA GotoBound ==
    ASSUME scan \in ScanType, ScanBound, NEW pc, Goto(pc)
    PROVE  ScanBound'
<1>1. CASE pc = "close"
  <2>1. scan'.mtime = NoScan.mtime /\ scan'.probe = NoScan.probe /\ scan'.listed = NoScan.listed
    BY <1>1 DEF Goto, NoScan
  <2> QED BY <2>1, NoScanBound DEF ScanBound
<1>2. CASE pc # "close"
  BY <1>2 DEF Goto, ScanType, ScanBound
<1> QED BY <1>1, <1>2

\* Nor does one that takes the next file.
LEMMA SkipBound ==
    ASSUME scan \in ScanType, ScanBound, Skip
    PROVE  ScanBound'
<1>1. scan'.mtime = 0 /\ scan'.probe = NoFile /\ scan'.listed = scan.listed
  BY DEF Skip, ScanType
<1> QED BY <1>1, NoScanBound, BoundsAssumption DEF ScanBound

\* The user's changes are counted, and a swap adds to a size once.
LEMMA FileBoundStep ==
    ASSUME Types, FileBound, [Next]_vars
    PROVE  FileBound'
<1> USE DEF FileBound
<1>1. ASSUME NEW p \in Busy, Change(p)
     PROVE  FileBound'
  <2>1. p \in Path
    BY BusyAssumption
  <2>2. used'.changes \in Nat /\ used'.changes =< MaxChanges
    BY <1>1, BoundsAssumption DEF Change, Spend, Types, UsedType
  <2>3. job[p].pc \notin {"locked", "moved"}
    BY <1>1 DEF Change, Sidecars
  <2>4. /\ Bounded(file'[p])
        /\ file'[p].codec # "hevc" => file'[p].size =< MaxChanges
    <3>1. CASE file' = [file EXCEPT ![p] = NoFile]
      BY <2>1, <3>1, BoundsAssumption DEF NoFile, Bounded, Types
    <3>2. ASSUME NEW c \in {"h264", "vp9"}, NEW m \in {0, used'.changes},
                 file' = [file EXCEPT ![p] = [codec |-> c, size |-> used'.changes, mtime |-> m]]
          PROVE  Bounded(file'[p]) /\ file'[p].size =< MaxChanges
      BY <2>1, <2>2, <3>2, BoundsAssumption DEF Bounded, Types
    <3> QED BY <1>1, <3>1, <3>2 DEF Change
  <2>5. \A q \in Path \ {p} : file'[q] = file[q]
    BY <1>1, <2>1 DEF Change, Types
  <2>6. job' = job
    BY <1>1 DEF Change
  <2> QED BY <2>2, <2>3, <2>4, <2>5, <2>6
<1>2. ASSUME NEW p \in Busy, Queue(p)
     PROVE  FileBound'
  <2>1. p \in Path
    BY BusyAssumption
  <2>2. \A q \in Path \ {p} : job'[q] = job[q]
    BY <1>2, <2>1 DEF Queue, Types
  <2>3. job'[p].pc = "queued" /\ job'[p].out = job[p].out /\ UNCHANGED <<file, used>>
    BY <1>2, <2>1 DEF Queue, Types, JobType
  <2> QED BY <2>1, <2>2, <2>3
<1>3. ASSUME NEW p \in Busy, Acquire(p)
     PROVE  FileBound'
  <2>1. p \in Path
    BY BusyAssumption
  <2>2. \A q \in Path \ {p} : job'[q] = job[q]
    BY <1>3, <2>1 DEF Acquire, WorkerStep, Types
  <2>3. /\ UNCHANGED <<file, used>> /\ job'[p].pc \in {"unlocked", "locked"}
        /\ job'[p].pc = "locked" => file[p].codec = "h264"
        /\ job'[p].out \in {0, file[p].size}
    BY <1>3, <2>1 DEF Acquire, WorkerStep, Types, JobType
  <2> QED BY <2>1, <2>2, <2>3, BoundsAssumption DEF Bounded
<1>4. ASSUME NEW p \in Busy, MoveAway(p)
     PROVE  FileBound'
  <2>1. p \in Path
    BY BusyAssumption
  <2>2. \A q \in Path \ {p} : job'[q] = job[q]
    BY <1>4, <2>1 DEF MoveAway, WorkerStep, Types
  <2>3. UNCHANGED <<file, used>> /\ job'[p].out = 0 /\ job[p].pc = "locked"
    BY <1>4, <2>1 DEF MoveAway, WorkerStep, Types, JobType
  <2> QED BY <2>1, <2>2, <2>3, BoundsAssumption
<1>5. ASSUME NEW p \in Busy, Place(p)
     PROVE  FileBound'
  <2>1. p \in Path
    BY BusyAssumption
  <2>2. \A q \in Path \ {p} : job'[q] = job[q]
    BY <1>5, <2>1 DEF Place, WorkerStep, Types
  <2>3. /\ used' = used /\ job'[p].out = 0 /\ job[p].pc = "moved" /\ job'[p].pc = "placed"
        /\ file'[p] = OutOf(file[p]) /\ \A q \in Path \ {p} : file'[q] = file[q]
    BY <1>5, <2>1 DEF Place, WorkerStep, Types, JobType
  <2>4. /\ file[p] \in FileType /\ file[p].size =< MaxChanges /\ file[p].mtime =< MaxChanges
    BY <2>1, <2>3 DEF Types, Bounded
  <2>5. Bounded(OutOf(file[p])) /\ OutOf(file[p]).codec = "hevc"
    BY <2>4, BoundsAssumption DEF OutOf, Bounded, FileType
  <2> QED BY <2>1, <2>2, <2>3, <2>5, BoundsAssumption
<1>6. ASSUME NEW p \in Busy, Release(p)
     PROVE  FileBound'
  <2>1. p \in Path
    BY BusyAssumption
  <2>2. \A q \in Path \ {p} : job'[q] = job[q]
    BY <1>6, <2>1 DEF Release, WorkerStep, Types
  <2>3. UNCHANGED <<file, used>> /\ job'[p].out = file[p].size /\ job'[p].pc = "unlocked"
    BY <1>6, <2>1 DEF Release, WorkerStep, Types, JobType
  <2> QED BY <2>1, <2>2, <2>3 DEF Bounded
<1>7. ASSUME NEW p \in Busy, Report(p)
     PROVE  FileBound'
  <2>1. p \in Path
    BY BusyAssumption
  <2>2. \A q \in Path \ {p} : job'[q] = job[q]
    BY <1>7, <2>1 DEF Report, Types
  <2>3. UNCHANGED <<file, used>> /\ job'[p].out = 0 /\ job'[p].pc = "idle"
    BY <1>7, <2>1 DEF Report, Types, JobType
  <2> QED BY <2>1, <2>2, <2>3, BoundsAssumption
<1>8. ASSUME NEW p \in Busy, Recover(p)
     PROVE  FileBound'
  <2>1. p \in Path
    BY BusyAssumption
  <2>2. \A q \in Path \ {p} : job'[q] = job[q]
    BY <1>8, <2>1 DEF Recover, WorkerStep, Types
  <2>3. file' = file /\ job'[p].out = 0 /\ job'[p].pc = "queued"
    BY <1>8, <2>1 DEF Recover, WorkerStep, Types, JobType
  <2>4. used'.changes = used.changes
    BY <1>8 DEF Recover, Spend, Types, UsedType
  <2> QED BY <2>1, <2>2, <2>3, <2>4, BoundsAssumption
<1>9. ASSUME NEW p \in Busy, ReportFailed(p)
     PROVE  FileBound'
  <2>1. p \in Path
    BY BusyAssumption
  <2>2. \A q \in Path \ {p} : job'[q] = job[q]
    BY <1>9, <2>1 DEF ReportFailed, Types
  <2>3. UNCHANGED <<file, used>> /\ job'[p].out = 0 /\ job'[p].pc = "idle"
    BY <1>9, <2>1 DEF ReportFailed, Types, JobType
  <2> QED BY <2>1, <2>2, <2>3, BoundsAssumption
<1>10. CASE Unmount
  <2>1. used'.changes = used.changes
    BY <1>10 DEF Unmount, Spend, Types, UsedType
  <2> QED BY <1>10, <2>1 DEF Unmount
<1>11. CASE Remount
  BY <1>11 DEF Remount
<1>12. CASE TriggerScan
  <2>1. used'.changes = used.changes
    BY <1>12 DEF TriggerScan, Rest, Spend, Types, UsedType
  <2> QED BY <1>12, <2>1 DEF TriggerScan, Rest
<1>13. CASE OpenScan
  BY <1>13 DEF OpenScan
<1>14. CASE Walk
  BY <1>14 DEF Walk, At, Rest
<1>15. CASE Look
  BY <1>15 DEF Look, At, Rest
<1>16. CASE Probe
  BY <1>16 DEF Probe, At, Rest
<1>17. CASE Upsert
  BY <1>17 DEF Upsert, At, Rest
<1>18. CASE EndLoop
  BY <1>18 DEF EndLoop, At, Rest
<1>19. CASE Nominate
  BY <1>19 DEF Nominate, At, Rest
<1>20. CASE Judge
  <2>1. used'.changes = used.changes
    BY <1>20 DEF Judge, At, Rest, Spend, Types, UsedType
  <2> QED BY <1>20, <2>1 DEF Judge, At, Rest
<1>21. CASE JudgeSidecars
  BY <1>21 DEF JudgeSidecars, At, Rest
<1>22. CASE EndJudge
  BY <1>22 DEF EndJudge, At, Rest
<1>23. CASE Delete
  BY <1>23 DEF Delete, At, Rest
<1>24. CASE CloseScan
  <2>1. used'.changes = used.changes
    BY <1>24 DEF CloseScan, Rest, Spend, Types, UsedType
  <2> QED BY <1>24, <2>1 DEF CloseScan, Rest
<1>25. CASE ProbeFails
  <2>1. used'.changes = used.changes
    BY <1>25 DEF ProbeFails, At, Rest, Spend, Types, UsedType
  <2> QED BY <1>25, <2>1 DEF ProbeFails, At, Rest
<1>26. CASE ScanError
  <2>1. used'.changes = used.changes
    BY <1>26 DEF ScanError, At, Rest, Spend, Types, UsedType
  <2> QED BY <1>26, <2>1 DEF ScanError, At, Rest
<1>27. CASE CronWake
  BY <1>27 DEF CronWake
<1>28. CASE CronAsk
  BY <1>28 DEF CronAsk
<1>29. CASE CronDone
  BY <1>29 DEF CronDone
<1>30. CASE Tick
  BY <1>30 DEF Tick
<1>31. CASE Crash
  <2>1. used'.changes = used.changes
    BY <1>31 DEF Crash, Stop, Spend, Types, UsedType
  <2> QED BY <1>31, <2>1 DEF Crash, Stop
<1>32. CASE Shutdown
  <2>1. used'.changes = used.changes
    BY <1>32 DEF Shutdown, Stop, Spend, Types, UsedType
  <2> QED BY <1>32, <2>1 DEF Shutdown, Stop
<1>33. CASE Boot
  BY <1>33 DEF Boot
<1>34. CASE UNCHANGED vars
  BY <1>34 DEF vars
<1> QED
  BY <1>1, <1>2, <1>3, <1>4, <1>5, <1>6, <1>7, <1>8, <1>9, <1>10, <1>11, <1>12,
      <1>13, <1>14, <1>15, <1>16, <1>17, <1>18, <1>19, <1>20, <1>21, <1>22, <1>23, <1>24,
      <1>25, <1>26, <1>27, <1>28, <1>29, <1>30, <1>31, <1>32, <1>33, <1>34
     DEF Next, ScanStep, WorkerWork

\* A scan reads sizes and stamps off files and listings.
LEMMA ScanBoundStep ==
    ASSUME Types, ContentInv, PruneInv, FileBound, ScanBound, [Next]_vars
    PROVE  ScanBound'
<1> USE DEF ScanBound
<1>0. scan \in ScanType
  BY DEF Types
<1>1. ASSUME NEW p \in Busy, Change(p)
     PROVE  ScanBound'
  BY <1>1 DEF Change
<1>2. ASSUME NEW p \in Busy, Queue(p)
     PROVE  ScanBound'
  BY <1>2 DEF Queue
<1>3. ASSUME NEW p \in Busy, Acquire(p)
     PROVE  ScanBound'
  BY <1>3 DEF Acquire, WorkerStep
<1>4. ASSUME NEW p \in Busy, MoveAway(p)
     PROVE  ScanBound'
  BY <1>4 DEF MoveAway, WorkerStep
<1>5. ASSUME NEW p \in Busy, Place(p)
     PROVE  ScanBound'
  BY <1>5 DEF Place, WorkerStep
<1>6. ASSUME NEW p \in Busy, Release(p)
     PROVE  ScanBound'
  BY <1>6 DEF Release, WorkerStep
<1>7. ASSUME NEW p \in Busy, Report(p)
     PROVE  ScanBound'
  BY <1>7 DEF Report
<1>8. ASSUME NEW p \in Busy, Recover(p)
     PROVE  ScanBound'
  BY <1>8 DEF Recover, WorkerStep
<1>9. ASSUME NEW p \in Busy, ReportFailed(p)
     PROVE  ScanBound'
  BY <1>9 DEF ReportFailed
<1>10. CASE Unmount
  BY <1>10 DEF Unmount
<1>11. CASE Remount
  BY <1>11 DEF Remount
<1>12. CASE TriggerScan
  <2>1. scan'.mtime = NoScan.mtime /\ scan'.probe = NoScan.probe /\ scan'.listed = NoScan.listed
    BY <1>12 DEF TriggerScan, Rest, StartScan, NoScan
  <2> QED BY <2>1, NoScanBound
<1>13. CASE OpenScan
  <2>1. CASE scan' = NoScan
    BY <2>1, NoScanBound
  <2>2. CASE scan' = [scan EXCEPT !.pc = "walk"]
    BY <2>2 DEF Types, ScanType
  <2> QED BY <1>13, <2>1, <2>2 DEF OpenScan
<1>14. CASE Walk
  <2>1. scan'.mtime = scan.mtime /\ scan'.probe = scan.probe /\ scan'.listed \in {scan.listed, file}
    BY <1>14 DEF Walk, Types, ScanType
  <2> QED BY <2>1 DEF FileBound
<1>15. CASE Look
  <2>1. CASE Goto("close") \/ Skip
    BY <1>0, <2>1, GotoBound, SkipBound
  <2>2. CASE scan' = [scan EXCEPT !.pc = "probe",
                         !.mtime = IF backend = "s3" THEN scan.listed[Current].mtime
                                   ELSE file[Current].mtime]
    <3>1. Current \in Path
      BY <1>15, LeastPath DEF Look, Current, Types, ScanType
    <3>2. scan'.mtime =< MaxChanges
      BY <2>2, <3>1 DEF FileBound, Bounded, Types, ScanType
    <3> QED BY <2>2, <3>2 DEF Types, ScanType
  <2> QED BY <1>15, <2>1, <2>2 DEF Look
<1>16. CASE Probe
  <2>1. CASE Goto("close") \/ Skip
    BY <1>0, <2>1, GotoBound, SkipBound
  <2>2. CASE /\ Visible(Current)
             /\ scan' = [scan EXCEPT !.pc = "upsert",
                  !.probe = [file[Current] EXCEPT !.size =
                               IF backend = "s3" THEN scan.listed[Current].size ELSE @]]
    <3>1. Current \in Path
      BY <1>16, LeastPath DEF Probe, At, PruneInv, Current, Types, ScanType
    <3>2. file[Current] \in FileType /\ file[Current].codec # "none"
      BY <2>2, <3>1 DEF Types, Visible, ContentInv
    <3> DEFINE f == [file[Current] EXCEPT !.size =
                        IF backend = "s3" THEN scan.listed[Current].size ELSE @]
    <3>3. /\ f.size \in {file[Current].size, scan.listed[Current].size}
          /\ f.mtime = file[Current].mtime /\ f.codec # "none"
      BY <3>2 DEF FileType
    <3>4. Bounded(f)
      BY <3>1, <3>3 DEF FileBound, Bounded
    <3>5. scan'.probe = f /\ scan'.mtime = scan.mtime /\ scan'.listed = scan.listed
      BY <2>2 DEF Types, ScanType
    <3> HIDE DEF f
    <3> QED BY <3>3, <3>4, <3>5
  <2> QED BY <1>16, <2>1, <2>2 DEF Probe
<1>17. CASE Upsert
  BY <1>0, <1>17, SkipBound DEF Upsert
<1>18. CASE EndLoop
  BY <1>0, <1>18, GotoBound DEF EndLoop
<1>19. CASE Nominate
  BY <1>19 DEF Nominate, Types, ScanType
<1>20. CASE Judge
  <2>1. CASE Goto("sidecars")
    BY <1>0, <2>1, GotoBound
  <2>2. CASE scan' = [scan EXCEPT !.todo = @ \ {Current}]
    BY <2>2 DEF Types, ScanType
  <2> QED BY <1>20, <2>1, <2>2 DEF Judge
<1>21. CASE JudgeSidecars
  BY <1>21 DEF JudgeSidecars, Types, ScanType
<1>22. CASE EndJudge
  BY <1>0, <1>22, GotoBound DEF EndJudge
<1>23. CASE Delete
  BY <1>0, <1>23, GotoBound DEF Delete
<1>24. CASE CloseScan
  BY <1>24, NoScanBound DEF CloseScan
<1>25. CASE ProbeFails
  BY <1>0, <1>25, SkipBound DEF ProbeFails
<1>26. CASE ScanError
  BY <1>0, <1>26, GotoBound DEF ScanError
<1>27. CASE CronWake
  BY <1>27 DEF CronWake
<1>28. CASE CronAsk
  <2>1. CASE StartScan("cron", 0)
    <3>1. scan'.mtime = NoScan.mtime /\ scan'.probe = NoScan.probe /\ scan'.listed = NoScan.listed
      BY <2>1 DEF StartScan, NoScan
    <3> QED BY <3>1, NoScanBound
  <2>2. CASE scan' = scan
    BY <2>2
  <2> QED BY <1>28, <2>1, <2>2 DEF CronAsk
<1>29. CASE CronDone
  BY <1>29 DEF CronDone
<1>30. CASE Tick
  BY <1>30 DEF Tick
<1>31. CASE Crash
  <2>1. scan' = NoScan
    BY <1>31, Zenon DEF Crash, Stop
  <2> QED BY <2>1, NoScanBound
<1>32. CASE Shutdown
  <2>1. scan' = NoScan
    BY <1>32, Zenon DEF Shutdown, Stop
  <2> QED BY <2>1, NoScanBound
<1>33. CASE Boot
  BY <1>33 DEF Boot
<1>34. CASE UNCHANGED vars
  BY <1>34 DEF vars
<1> QED
  BY <1>1, <1>2, <1>3, <1>4, <1>5, <1>6, <1>7, <1>8, <1>9, <1>10, <1>11, <1>12,
      <1>13, <1>14, <1>15, <1>16, <1>17, <1>18, <1>19, <1>20, <1>21, <1>22, <1>23, <1>24,
      <1>25, <1>26, <1>27, <1>28, <1>29, <1>30, <1>31, <1>32, <1>33, <1>34
     DEF Next, ScanStep, WorkerWork

\* A row gets them from a scan or from the report of a job.
LEMMA RowBoundStep ==
    ASSUME Types, ContentInv, PruneInv, FileBound, ScanBound, RowBound, [Next]_vars
    PROVE  RowBound'
<1> USE DEF RowBound
<1>1. ASSUME NEW p \in Busy, Change(p)
     PROVE  RowBound'
  BY <1>1 DEF Change
<1>2. ASSUME NEW p \in Busy, Queue(p)
     PROVE  RowBound'
  <2>1. p \in Path
    BY BusyAssumption
  <2>2. \A q \in Path \ {p} : row'[q] = row[q]
    BY <1>2, <2>1 DEF Queue, Types
  <2>3. row[p] # NoRow
    BY <1>2 DEF Queue, NoRow
  <2>4. /\ row'[p].codec = row[p].codec /\ row'[p].size = row[p].size
        /\ row'[p].mtime = row[p].mtime
    BY <1>2, <2>1 DEF Queue, Types, RowType
  <2> QED BY <2>1, <2>2, <2>3, <2>4 DEF Bounded
<1>3. ASSUME NEW p \in Busy, Acquire(p)
     PROVE  RowBound'
  BY <1>3 DEF Acquire, WorkerStep
<1>4. ASSUME NEW p \in Busy, MoveAway(p)
     PROVE  RowBound'
  BY <1>4 DEF MoveAway, WorkerStep
<1>5. ASSUME NEW p \in Busy, Place(p)
     PROVE  RowBound'
  BY <1>5 DEF Place, WorkerStep
<1>6. ASSUME NEW p \in Busy, Release(p)
     PROVE  RowBound'
  BY <1>6 DEF Release, WorkerStep
<1>7. ASSUME NEW p \in Busy, Report(p)
     PROVE  RowBound'
  <2>1. p \in Path
    BY BusyAssumption
  <2>2. \A q \in Path \ {p} : row'[q] = row[q]
    BY <1>7, <2>1 DEF Report, Types
  <2>3. CASE row'[p] = row[p]
    BY <2>2, <2>3
  <2>4. CASE row'[p] = [row[p] EXCEPT !.status = "complete"] /\ row[p].job
    <3>1. row[p] # NoRow
      BY <2>4 DEF NoRow
    <3>2. row'[p].codec = row[p].codec /\ Bounded(row'[p])
      BY <2>1, <2>4 DEF Types, RowType, Bounded
    <3> QED BY <2>1, <2>2, <3>1, <3>2
  <2>5. CASE row'[p] = [row[p] EXCEPT !.status = "complete", !.codec = "hevc",
                                      !.size = job[p].out]
    <3>1. row'[p].codec = "hevc" /\ Bounded(row'[p])
      BY <2>1, <2>5 DEF Types, RowType, Bounded, FileBound
    <3> QED BY <2>2, <3>1
  <2> QED BY <1>7, <2>1, <2>3, <2>4, <2>5 DEF Report, Types
<1>8. ASSUME NEW p \in Busy, Recover(p)
     PROVE  RowBound'
  BY <1>8 DEF Recover, WorkerStep
<1>9. ASSUME NEW p \in Busy, ReportFailed(p)
     PROVE  RowBound'
  <2>1. p \in Path
    BY BusyAssumption
  <2>2. \A q \in Path \ {p} : row'[q] = row[q]
    BY <1>9, <2>1 DEF ReportFailed, Types
  <2>3. CASE row'[p] = row[p]
    BY <2>2, <2>3
  <2>4. CASE row'[p] = [row[p] EXCEPT !.status = "needs_transcode"] /\ row[p].job
    <3>1. row[p] # NoRow
      BY <2>4 DEF NoRow
    <3>2. row'[p].codec = row[p].codec /\ Bounded(row'[p])
      BY <2>1, <2>4 DEF Types, RowType, Bounded
    <3> QED BY <2>1, <2>2, <3>1, <3>2
  <2> QED BY <1>9, <2>1, <2>3, <2>4 DEF ReportFailed, Types
<1>10. CASE Unmount
  BY <1>10 DEF Unmount
<1>11. CASE Remount
  BY <1>11 DEF Remount
<1>12. CASE TriggerScan
  BY <1>12 DEF TriggerScan, Rest
<1>13. CASE OpenScan
  BY <1>13 DEF OpenScan
<1>14. CASE Walk
  BY <1>14 DEF Walk, At, Rest
<1>15. CASE Look
  BY <1>15 DEF Look, At, Rest
<1>16. CASE Probe
  BY <1>16 DEF Probe, At, Rest
<1>17. CASE Upsert
  <2>1. Current \in Path
    BY <1>17, LeastPath DEF Upsert, At, PruneInv, Current, Types, ScanType
  <2>2. /\ row'[Current] = Upserted(row[Current], scan.probe, scan.mtime)
        /\ \A q \in Path \ {Current} : row'[q] = row[q]
    BY <1>17, <2>1 DEF Upsert, Types
  <2>3. /\ row'[Current].codec = scan.probe.codec /\ row'[Current].size = scan.probe.size
        /\ row'[Current].mtime = scan.mtime
    BY <2>2 DEF Upserted
  <2>4. scan.probe.codec # "none"
    BY <1>17 DEF Upsert, At, ContentInv
  <2> QED BY <2>2, <2>3, <2>4 DEF ScanBound, Bounded
<1>18. CASE EndLoop
  BY <1>18 DEF EndLoop, At, Rest
<1>19. CASE Nominate
  BY <1>19 DEF Nominate, At, Rest
<1>20. CASE Judge
  BY <1>20 DEF Judge, At, Rest
<1>21. CASE JudgeSidecars
  BY <1>21 DEF JudgeSidecars, At, Rest
<1>22. CASE EndJudge
  BY <1>22 DEF EndJudge, At, Rest
<1>23. CASE Delete
  <2>1. \A p \in Path : row'[p] \in {row[p], NoRow}
    BY <1>23 DEF Delete
  <2>2. Bounded(NoRow)
    BY BoundsAssumption DEF NoRow, Bounded
  <2> QED BY <2>1, <2>2
<1>24. CASE CloseScan
  BY <1>24 DEF CloseScan, Rest
<1>25. CASE ProbeFails
  BY <1>25 DEF ProbeFails, At, Rest
<1>26. CASE ScanError
  BY <1>26 DEF ScanError, At, Rest
<1>27. CASE CronWake
  BY <1>27 DEF CronWake
<1>28. CASE CronAsk
  BY <1>28 DEF CronAsk
<1>29. CASE CronDone
  BY <1>29 DEF CronDone
<1>30. CASE Tick
  BY <1>30 DEF Tick
<1>31. CASE Crash
  BY <1>31 DEF Crash, Stop
<1>32. CASE Shutdown
  BY <1>32 DEF Shutdown, Stop
<1>33. CASE Boot
  BY <1>33 DEF Boot
<1>34. CASE UNCHANGED vars
  BY <1>34 DEF vars
<1> QED
  BY <1>1, <1>2, <1>3, <1>4, <1>5, <1>6, <1>7, <1>8, <1>9, <1>10, <1>11, <1>12,
      <1>13, <1>14, <1>15, <1>16, <1>17, <1>18, <1>19, <1>20, <1>21, <1>22, <1>23, <1>24,
      <1>25, <1>26, <1>27, <1>28, <1>29, <1>30, <1>31, <1>32, <1>33, <1>34
     DEF Next, ScanStep, WorkerWork

\* A scan that closes its row has one to close.
LEMMA CountBoundStep ==
    ASSUME Types, TaskInv, CountBound, [Next]_vars
    PROVE  CountBound'
<1> USE DEF CountBound
<1>1. ASSUME NEW p \in Busy, Change(p)
     PROVE  CountBound'
  BY <1>1 DEF Change
<1>2. ASSUME NEW p \in Busy, Queue(p)
     PROVE  CountBound'
  BY <1>2 DEF Queue
<1>3. ASSUME NEW p \in Busy, Acquire(p)
     PROVE  CountBound'
  BY <1>3 DEF Acquire, WorkerStep
<1>4. ASSUME NEW p \in Busy, MoveAway(p)
     PROVE  CountBound'
  BY <1>4 DEF MoveAway, WorkerStep
<1>5. ASSUME NEW p \in Busy, Place(p)
     PROVE  CountBound'
  BY <1>5 DEF Place, WorkerStep
<1>6. ASSUME NEW p \in Busy, Release(p)
     PROVE  CountBound'
  BY <1>6 DEF Release, WorkerStep
<1>7. ASSUME NEW p \in Busy, Report(p)
     PROVE  CountBound'
  BY <1>7 DEF Report
<1>8. ASSUME NEW p \in Busy, Recover(p)
     PROVE  CountBound'
  BY <1>8 DEF Recover, WorkerStep
<1>9. ASSUME NEW p \in Busy, ReportFailed(p)
     PROVE  CountBound'
  BY <1>9 DEF ReportFailed
<1>10. CASE Unmount
  BY <1>10 DEF Unmount
<1>11. CASE Remount
  BY <1>11 DEF Remount
<1>12. CASE TriggerScan
  BY <1>12 DEF TriggerScan, Rest
<1>13. CASE OpenScan
  BY <1>13 DEF OpenScan, Types
<1>14. CASE Walk
  BY <1>14 DEF Walk, At, Rest
<1>15. CASE Look
  BY <1>15 DEF Look, At, Rest
<1>16. CASE Probe
  BY <1>16 DEF Probe, At, Rest
<1>17. CASE Upsert
  BY <1>17 DEF Upsert, At, Rest
<1>18. CASE EndLoop
  BY <1>18 DEF EndLoop, At, Rest
<1>19. CASE Nominate
  BY <1>19 DEF Nominate, At, Rest
<1>20. CASE Judge
  BY <1>20 DEF Judge, At, Rest
<1>21. CASE JudgeSidecars
  BY <1>21 DEF JudgeSidecars, At, Rest
<1>22. CASE EndJudge
  BY <1>22 DEF EndJudge, At, Rest
<1>23. CASE Delete
  BY <1>23 DEF Delete, At, Rest
<1>24. CASE CloseScan
  BY <1>24 DEF CloseScan, Types, TaskInv, RunningRowHasTask
<1>25. CASE ProbeFails
  BY <1>25 DEF ProbeFails, At, Rest
<1>26. CASE ScanError
  BY <1>26 DEF ScanError, At, Rest
<1>27. CASE CronWake
  BY <1>27 DEF CronWake
<1>28. CASE CronAsk
  BY <1>28 DEF CronAsk
<1>29. CASE CronDone
  BY <1>29 DEF CronDone
<1>30. CASE Tick
  BY <1>30 DEF Tick
<1>31. CASE Crash
  BY <1>31 DEF Crash, Stop
<1>32. CASE Shutdown
  <2>1. scan.pc \in Body => running = stranded + 1
    BY <1>32 DEF Shutdown, Stop, TaskInv, RunningRowHasTask
  <2>2. UNCHANGED stranded /\ (running' = running + 1 \/ (running' = running - 1 /\ scan.pc \in Body))
    BY <1>32 DEF Shutdown, Stop
  <2> QED BY <2>1, <2>2 DEF Types
<1>33. CASE Boot
  BY <1>33 DEF Boot
<1>34. CASE UNCHANGED vars
  BY <1>34 DEF vars
<1> QED
  BY <1>1, <1>2, <1>3, <1>4, <1>5, <1>6, <1>7, <1>8, <1>9, <1>10, <1>11, <1>12,
      <1>13, <1>14, <1>15, <1>16, <1>17, <1>18, <1>19, <1>20, <1>21, <1>22, <1>23, <1>24,
      <1>25, <1>26, <1>27, <1>28, <1>29, <1>30, <1>31, <1>32, <1>33, <1>34
     DEF Next, ScanStep, WorkerWork

-----------------------------------------------------------------------------
\* The inductive invariant of the scanner.
ScanInv ==
    /\ Types /\ TaskInv /\ ApartInv /\ ContentInv /\ SteadyInv /\ PruneInv
    /\ FileBound /\ ScanBound /\ RowBound /\ CountBound

\* It holds in every reachable state, for any library and any number of changes, faults
\* and manual scans.
THEOREM ScanInvariant == Spec => []ScanInv
<1>1. Init => ScanInv
  <2> SUFFICES ASSUME Init PROVE ScanInv
    OBVIOUS
  <2>1. Types
    <3>1. [codec |-> "h264", size |-> 0, mtime |-> 0] \in FileType
      BY DEF FileType, Codec
    <3>2. [pc |-> "idle", out |-> 0] \in JobType /\ NoRow \in RowType
      BY DEF JobType, RowType, NoRow
    <3>3. cron \in CronType /\ used \in UsedType
      BY DEF Init, CronType, UsedType
    <3>4. age \in 0 .. Interval /\ cronAge \in 0 .. Interval
      BY BoundsAssumption DEF Init
    <3> QED BY <3>1, <3>2, <3>3, <3>4, NoScanType, BackendsAssumption DEF Init, Types
  <2>2. TaskInv /\ ApartInv /\ PruneInv
    BY NoScanType, BoundsAssumption
       DEF Init, TaskInv, RunningRowHasTask, ApartInv, PruneInv, Body
  <2>3. ContentInv /\ SteadyInv
    BY NoScanType DEF Init, ContentInv, SteadyInv, NoRow
  <2>4. FileBound /\ RowBound
    BY BoundsAssumption DEF Init, FileBound, RowBound, Bounded, NoRow
  <2>5. ScanBound /\ CountBound
    BY NoScanBound DEF Init, ScanBound, CountBound
  <2> QED BY <2>1, <2>2, <2>3, <2>4, <2>5 DEF ScanInv
<1>2. ScanInv /\ [Next]_vars => ScanInv'
  BY TypesStep, TaskStep, ApartStep, SteadyStep, ContentStep, PruneStep, FileBoundStep,
     ScanBoundStep, RowBoundStep, CountBoundStep DEF ScanInv
<1> QED BY <1>1, <1>2, PTL DEF Spec

\* Rows, files and the scan's variables have the shapes the statements give them, within
\* the bounds of the changes made.
THEOREM ScanTypes == Spec => []TypeOK
<1>1. ScanInv => TypeOK
  <2> SUFFICES ASSUME ScanInv PROVE TypeOK
    OBVIOUS
  <2> USE DEF ScanInv
  <2>1. /\ backend \in Backends /\ age \in 0 .. Interval /\ cronAge \in 0 .. Interval
        /\ up \in BOOLEAN /\ mounted \in BOOLEAN /\ steady \subseteq Path
    BY DEF Types
  <2>2. file \in [Path -> Content \cup {NoFile}]
    <3> SUFFICES ASSUME NEW p \in Path PROVE file[p] \in Content \cup {NoFile}
      BY DEF Types
    <3>1. /\ file[p] \in FileType /\ Bounded(file[p])
          /\ file[p] # NoFile => file[p].codec # "none"
      BY DEF Types, FileBound, ContentInv
    <3> QED BY <3>1, BoundsAssumption DEF FileType, Content, Bounded
  <2>3. row \in [Path -> Row \cup {NoRow}]
    <3> SUFFICES ASSUME NEW p \in Path PROVE row[p] \in Row \cup {NoRow}
      BY DEF Types
    <3>1. /\ row[p] \in RowType /\ Bounded(row[p])
          /\ row[p] # NoRow => row[p].codec # "none" /\ row[p].status # "none"
      BY DEF Types, RowBound, ContentInv
    <3> QED BY <3>1, BoundsAssumption DEF RowType, Row, Bounded
  <2>4. job \in [Path -> [pc : {"idle", "queued", "locked", "moved", "placed", "unlocked"},
                          out : 0 .. (2 * MaxChanges + 1)]]
    <3> SUFFICES ASSUME NEW p \in Path
                 PROVE  job[p] \in [pc : {"idle", "queued", "locked", "moved", "placed", "unlocked"},
                                    out : 0 .. (2 * MaxChanges + 1)]
      BY DEF Types
    <3>1. job[p] \in JobType /\ job[p].out =< 2 * MaxChanges + 1
      BY DEF Types, FileBound
    <3> QED BY <3>1, BoundsAssumption DEF JobType
  <2>5. scan.probe \in Content \cup {NoFile}
    <3>1. /\ scan.probe \in FileType /\ Bounded(scan.probe)
          /\ scan.probe # NoFile => scan.probe.codec # "none"
      BY DEF Types, ScanType, ScanBound
    <3> QED BY <3>1, BoundsAssumption DEF FileType, Content, Bounded
  <2>6. scan.pc \in PCs /\ scan.gone \subseteq Path \ scan.walked /\ scan.todo \subseteq Path
    BY DEF Types, ScanType, PruneInv
  <2>7. running \in Nat /\ stranded \in Nat
    BY DEF Types, CountBound
  <2> QED BY <2>1, <2>2, <2>3, <2>4, <2>5, <2>6, <2>7 DEF TypeOK
<1> QED BY <1>1, ScanInvariant, PTL

\* While the process runs, a scans row that says 'running' has its task, or its closing
\* write failed (run_scan, lifespan).
THEOREM RunningRowsOwned == Spec => []RunningRowHasTask
<1>1. ScanInv => RunningRowHasTask
  BY DEF ScanInv, TaskInv
<1> QED BY <1>1, ScanInvariant, PTL

\* Two scheduled scans start an interval apart (run_scheduled_scans), whatever fails, is
\* cancelled or restarted in between.
THEOREM ScheduledScansApart == Spec => ScheduledApart
<1>1. ScanInv => (scan.by = "cron" /\ scan.pc = "open" => cronAge = Interval)
  BY DEF ScanInv, ApartInv
<1> QED BY <1>1, ScanInvariant, PTL DEF ScheduledApart

\* Only Delete drops rows, and only those the prune found gone.
LEMMA RowsDropped ==
    ASSUME Types, ContentInv, PruneInv, [Next]_vars,
           NEW p \in Path, row[p] # NoRow, row'[p] = NoRow
    PROVE  p \in scan.gone /\ scan.pc = "delete"
<1>1. ASSUME NEW q \in Busy, Queue(q)
     PROVE  FALSE
  <2>1. q \in Path
    BY BusyAssumption
  <2>2. row'[q] = row[q] \/ row'[q].status # "none"
    BY <1>1, <2>1 DEF Queue, Types, RowType
  <2>3. \A r \in Path \ {q} : row'[r] = row[r]
    BY <1>1, <2>1 DEF Queue, Types
  <2> QED BY <2>2, <2>3 DEF NoRow
<1>2. ASSUME NEW q \in Busy, Report(q)
     PROVE  FALSE
  <2>1. q \in Path
    BY BusyAssumption
  <2>2. row'[q] = row[q] \/ row'[q].status # "none"
    BY <1>2, <2>1 DEF Report, Types, RowType
  <2>3. \A r \in Path \ {q} : row'[r] = row[r]
    BY <1>2, <2>1 DEF Report, Types
  <2> QED BY <2>2, <2>3 DEF NoRow
<1>3. ASSUME NEW q \in Busy, ReportFailed(q)
     PROVE  FALSE
  <2>1. q \in Path
    BY BusyAssumption
  <2>2. row'[q] = row[q] \/ row'[q].status # "none"
    BY <1>3, <2>1 DEF ReportFailed, Types, RowType
  <2>3. \A r \in Path \ {q} : row'[r] = row[r]
    BY <1>3, <2>1 DEF ReportFailed, Types
  <2> QED BY <2>2, <2>3 DEF NoRow
<1>4. CASE Upsert
  <2>1. Current \in Path
    BY <1>4, LeastPath DEF Upsert, At, PruneInv, Current, Types, ScanType
  <2>2. Upserted(row[Current], scan.probe, scan.mtime).codec # "none"
    BY <1>4 DEF Upsert, At, ContentInv, Upserted
  <2>3. /\ row'[Current] = Upserted(row[Current], scan.probe, scan.mtime)
        /\ \A r \in Path \ {Current} : row'[r] = row[r]
    BY <1>4, <2>1 DEF Upsert, Types
  <2> QED BY <2>2, <2>3 DEF NoRow
<1>5. CASE Delete
  BY <1>5 DEF Delete, At
<1>6. CASE row' = row
  BY <1>6
<1> QED
  BY <1>1, <1>2, <1>3, <1>4, <1>5, <1>6
     DEF Next, ScanStep, WorkerWork, vars, At, WorkerStep, Stop, Change, Acquire, MoveAway,
         Place, Release, Recover, Unmount, Remount, TriggerScan, OpenScan, Walk, Look,
         Probe, EndLoop, Nominate, Judge, JudgeSidecars, EndJudge, CloseScan, ProbeFails,
         ScanError, CronWake, CronAsk, CronDone, Tick, Crash, Shutdown, Boot

\* _prune_absent spares the row of every file that nothing moved while the scan ran.
THEOREM PruneSparesSteady == Spec => PruneSpares
<1>1. ScanInv /\ [Next]_vars =>
          [\A p \in Path : row[p] # NoRow /\ row'[p] = NoRow => p \notin steady]_vars
  <2> SUFFICES ASSUME ScanInv, [Next]_vars, NEW p \in Path, row[p] # NoRow, row'[p] = NoRow
               PROVE  p \notin steady
    OBVIOUS
  <2>1. p \in scan.gone /\ scan.pc = "delete"
    BY RowsDropped DEF ScanInv
  <2> QED BY <2>1 DEF ScanInv, PruneInv
<1> QED BY <1>1, ScanInvariant, PTL DEF PruneSpares, Spec
=============================================================================
