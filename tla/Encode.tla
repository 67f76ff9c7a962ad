------------------------------- MODULE Encode -------------------------------
(***************************************************************************)
(* One worker and the job it runs, from the claim to the report            *)
(* (http_agent._process_job, pipeline.run_pipeline), with the ffmpeg       *)
(* children it waits for (proc.py, encoder.py, vmaf.py, probe.py) and the  *)
(* scratch space of S3 jobs (storage/scratch.py, storage/s3.py).           *)
(*                                                                         *)
(* Each await on a child is a stage.  The child may exit, well or not, or  *)
(* stop talking; its block ends with it, at its deadline, or by an abort   *)
(* (the second shutdown signal, or the fence of a partitioned worker),     *)
(* which may come at any moment and twice.                                 *)
(*                                                                         *)
(* A stream is its kind; the output of ffmpeg is the sequence of the       *)
(* source streams in it, with 0 for a track the muxer wrote by itself, and *)
(* whether it has the right codec, height and duration, is smaller, and    *)
(* what its picture is worth.  The swap is one step here: its renames, its *)
(* crashes and its recovery are SourceSwap's.                              *)
(***************************************************************************)
EXTENDS QualitySearch, FiniteSets, SequencesExt

CONSTANTS
    Sources,   \* the stream lists of the files in the library
    Jobs,      \* what a job row and the worker's settings may ask for
    Capacity   \* the downloads the scratch disk has room for

StreamKind == {"video", "cover", "audio", "subtitle", "unnamed", "data"}
JobKind == [s3 : BOOLEAN, goal : BOOLEAN, search : BOOLEAN, shrink : BOOLEAN, qsv : BOOLEAN]

ASSUME SourcesAssumption  == \A s \in Sources : s \in Seq(StreamKind) /\ "video" \in Range(s)
ASSUME JobsAssumption     == Jobs \subseteq JobKind
ASSUME CapacityAssumption == Capacity \in Nat \ {0}

VARIABLES
    pc,               \* the await _process_job is at
    child,            \* the subprocess of this await: "running", "silent", "term" or "none"
    why,              \* why it was sent SIGTERM: "deadline", "abort" or "none"
    job, media,       \* the job row, and the file it names
    backend,          \* "qsv" or "cpu"
    vmaf_available,
    quality,          \* what the encode runs at, NoQuality for the preset
    plan,             \* StreamPlan.kept: source indexes in output order
    out,              \* the file ffmpeg wrote
    file,             \* at the local path: "original", "swapped" (unconfirmed), "replaced"
    uploaded,         \* the derivative is in the bucket
    abort_requested,
    dirs,             \* scratch directories, by the name given to reserve
    outcome, ended,   \* history: what was reported, and at which await the job ended
    excuse            \* history: why the gate is off: "missing" (the answer was that libvmaf
                      \* or its model is), "timeout" (there was no answer), "none"

block  == <<child, why>>
work   == <<job, media>>
disk   == <<file, uploaded>>
report == <<outcome, ended>>
vars == <<pc, block, work, backend, vmaf_available, quality, plan, out, disk, abort_requested,
          dirs, report, excuse, searchVars>>

\* The awaits on a child.
Stage == {"preflight", "inventory", "libvmaf", "sample", "score", "subs", "encode",
          "verify", "list", "gauge", "confirm"}

\* The awaits inside run_pipeline.
Pipeline == Stage \cup {"lock", "swap", "finish"}

-----------------------------------------------------------------------------
\* The stream plan.

Indexes(s) == 1 .. Len(s)
InOrder(S) ==
    CHOOSE q \in [1 .. Cardinality(S) -> S] : \A m, n \in DOMAIN q : m < n => q[m] < q[n]

primary_video_index(s) ==
    CHOOSE i \in Indexes(s) : s[i] = "video" /\ \A k \in 1 .. i - 1 : s[k] # "video"

Subtitles(s) == InOrder({i \in Indexes(s) : s[i] \in {"subtitle", "unnamed"}})

\* Positions among the subtitles, not among all streams.
unmuxable_subtitle_indexes(s) == {n \in Indexes(Subtitles(s)) : s[Subtitles(s)[n]] = "unnamed"}

Omitted(s, drop) == {Subtitles(s)[n] : n \in drop} \cup {i \in Indexes(s) : s[i] = "data"}

\* StreamPlan.kept.
plan_streams(s, drop) ==
    <<primary_video_index(s)>> \o
        InOrder(Indexes(s) \ (Omitted(s, drop) \cup {primary_video_index(s)}))

\* _check_plan_covers_source finds every stream carried or named as dropped.
PlanCovers(s, drop) ==
    Range(plan_streams(s, drop)) \cup Omitted(s, drop) = Indexes(s)

\* What the inventory tells of a stream of the output: its kind, and for the one that
\* is re-encoded the target codec.
_inventory_key(s, i) ==
    CASE i = 0 -> "chapters"
      [] i = primary_video_index(s) -> "reencoded"
      [] OTHER -> s[i]

Keys(s, streams) == [n \in Indexes(streams) |-> _inventory_key(s, streams[n])]

\* Mutant of _covers_in_order: only the number of streams is compared.
CoversCount(promised, produced) == Len(produced) >= Len(promised)

\* Every promised stream is found, each behind the one before it.
_covers_in_order(promised, produced) ==
    \E at \in [Indexes(promised) -> Indexes(produced)] :
        /\ \A n \in Indexes(promised) : promised[n] = produced[at[n]]
        /\ \A m, n \in Indexes(promised) : m < n => at[m] < at[n]

-----------------------------------------------------------------------------
\* What ffmpeg may write for the planned maps: what was asked, or the same with one
\* stream missing, two exchanged or a chapter track added.

Muxed(p) ==
    LET Dropped == {RemoveAt(p, n) : n \in 2 .. Len(p)}
        Swapped == {[p EXCEPT ![n] = p[n + 1], ![n + 1] = p[n]] : n \in 1 .. Len(p) - 1}
    IN  {p} \cup Dropped \cup Swapped \cup {Append(q, 0) : q \in {p} \cup Dropped}

Pictures == {"good", "poor", "broken"}

\* At most one thing beside the picture is wrong with a file: each is refused alone.
Output(p) ==
    {o \in [streams : Muxed(p), picture : Pictures, fits : BOOLEAN, smaller : BOOLEAN] :
        Cardinality({c \in {"streams", "fits", "smaller"} :
            CASE c = "streams" -> o.streams # p
              [] c = "fits"    -> ~o.fits
              [] OTHER         -> ~o.smaller}) =< 1}

NoOutput == [streams |-> <<>>, picture |-> "broken", fits |-> FALSE, smaller |-> FALSE]

\* ffmpeg refuses a subtitle without a codec, and 10-bit input on the Skylake QSV.
Encodable == backend = "cpu" \/ ~media.deep

-----------------------------------------------------------------------------
\* Leaving an await.

\* The next await of the pipeline; one on a child spawns it.
Goto(stage) ==
    /\ pc' = stage
    /\ child' = IF stage \in Stage THEN "running" ELSE "none"
    /\ why' = "none"
    /\ UNCHANGED <<disk, abort_requested, dirs, report>>

\* fetch reserves under a name made from the key, the job's end releases the job's id.
NoDirs == [owner \in {"fetch", "job"} |-> 0]

release(owner) == dirs' = [dirs EXCEPT ![owner] = 0]

\* SourceOwnership.__aexit__: an unconfirmed swap is rolled back.
_settle == file' = IF file = "swapped" THEN "original" ELSE file

\* The report is journaled, storage.cleanup(job) runs, and a consumed abort is cleared.
Leave(result) ==
    /\ pc' = "idle" /\ child' = "none" /\ why' = "none"
    /\ outcome' = result /\ ended' = pc
    /\ _settle
    /\ release("job")
    /\ abort_requested' = FALSE
    /\ UNCHANGED uploaded

settings == <<backend, vmaf_available, quality, excuse>>
product  == <<plan, out>>

\* The await at this stage returns, its child having exited.
Exits(stage) == pc = stage /\ child = "running" /\ UNCHANGED work

-----------------------------------------------------------------------------
\* Claiming and fetching.

Claim ==
    /\ pc = "idle"
    /\ \E j \in Jobs, s \in Sources, tall, deep \in BOOLEAN :
        /\ deep => j.qsv
        /\ tall \/ j.shrink
        /\ job' = j
        /\ media' = [streams |-> s, tall |-> tall, deep |-> deep]
        /\ backend' = IF j.qsv THEN "qsv" ELSE "cpu"
        /\ pc' = IF j.s3 THEN "dedup" ELSE "recover"
    /\ vmaf_available' = TRUE /\ quality' = NoQuality
    /\ plan' = <<>> /\ out' = NoOutput
    /\ file' = "original" /\ uploaded' = FALSE
    /\ outcome' = "none" /\ ended' = "none" /\ excuse' = "none"
    /\ SearchReset
    /\ UNCHANGED <<block, abort_requested, dirs>>

\* No backend for the codec; or on a share a backup or a lock that recovery will not
\* touch, or an abort while it waits for the lock.
Decline ==
    /\ pc \in {"recover", "dedup"}
    /\ Leave("declined")
    /\ UNCHANGED <<work, settings, product, searchVars>>

\* The registry has the derivative already.
_try_dedup ==
    /\ pc = "dedup"
    /\ Leave("reused")
    /\ UNCHANGED <<work, settings, product, searchVars>>

StartFetch ==
    /\ pc \in {"recover", "dedup"}
    /\ Goto(IF job.s3 THEN "head" ELSE "fetched")
    /\ UNCHANGED <<work, settings, product, searchVars>>

\* storage.fetch raises: no such file or object, no room, or the bucket is away.
FetchFails ==
    /\ pc \in {"fetched", "head", "download"}
    /\ pc' = "idle" /\ outcome' = "failed" /\ ended' = pc
    /\ abort_requested' = FALSE
    /\ \/ pc = "download" /\ release("fetch")  \* ClientError, BotoCoreError
       \/ pc # "fetched" /\ UNCHANGED dirs     \* before reserve, or another exception
       \/ pc = "fetched" /\ ~job.s3 /\ UNCHANGED dirs
    /\ UNCHANGED <<block, work, settings, product, disk, searchVars>>

\* HEAD answers and the disk has room for the object. With none, reserve raises: see
\* FetchFails.
reserve ==
    /\ pc = "head"
    /\ dirs["fetch"] + dirs["job"] < Capacity
    /\ pc' = "download"
    /\ dirs' = [dirs EXCEPT !["fetch"] = @ + 1]
    /\ UNCHANGED <<block, work, settings, product, disk, abort_requested, report, searchVars>>

Downloaded ==
    /\ pc = "download"
    /\ Goto("fetched")
    /\ UNCHANGED <<work, settings, product, searchVars>>

NeedsProbe == backend = "qsv" \/ job.goal \/ job.shrink

\* The pipeline starts, unless an abort came during the fetch.
StartPipeline ==
    /\ pc = "fetched"
    /\ IF abort_requested
       THEN Leave("aborted")
       ELSE Goto(IF NeedsProbe THEN "preflight" ELSE "lock")
    /\ UNCHANGED <<work, settings, product, searchVars>>

-----------------------------------------------------------------------------
\* Before the encode. A failure of a stage is its child's error exit or its deadline.

PreflightOK ==
    /\ Exits("preflight")
    /\ IF job.shrink /\ ~media.tall THEN Leave("failed") ELSE Goto("lock")
    /\ backend' = IF media.deep THEN "cpu" ELSE backend
    /\ UNCHANGED <<vmaf_available, quality, excuse, product, searchVars>>

\* The height is unknown: a downscale is refused, anything else goes on.
PreflightFails ==
    /\ IF job.shrink THEN Leave("failed") ELSE Goto("lock")
    /\ UNCHANGED <<settings, product, searchVars>>

\* SourceOwnership.__aenter__; a cancelled acquisition gives the lock back.
Lock ==
    /\ pc = "lock"
    /\ \/ abort_requested /\ Leave("aborted")
       \/ ~abort_requested /\ Goto("inventory")
       \/ ~abort_requested /\ Leave("failed")  \* another holds it
    /\ UNCHANGED <<work, settings, product, searchVars>>

Inventory ==
    /\ Exits("inventory")
    /\ Goto(IF job.goal THEN "libvmaf" ELSE "subs")
    /\ UNCHANGED <<settings, product, searchVars>>

HasLibvmaf ==
    /\ Exits("libvmaf")
    /\ Goto(IF job.search THEN "sample" ELSE "subs")
    /\ UNCHANGED <<settings, product, searchVars>>

\* has_libvmaf answers no: the filter is missing, or the check timed out.
NoLibvmaf ==
    /\ Goto("subs")
    /\ vmaf_available' = FALSE
    /\ excuse' = IF why = "deadline" THEN "timeout" ELSE "missing"
    /\ UNCHANGED <<backend, quality, product, searchVars>>

Sampled ==
    /\ Exits("sample")
    /\ Goto("score")
    /\ UNCHANGED <<settings, product, searchVars>>

\* One round of the search: every sample is encoded and scored at the candidate.
Score ==
    /\ Exits("score")
    /\ Meets \/ Misses
    /\ IF SearchOver'
       THEN Goto("subs") /\ quality' = best'
       ELSE Goto("score") /\ UNCHANGED quality
    /\ UNCHANGED <<backend, vmaf_available, excuse, product>>

\* Mutant of SearchFails: the search keeps what it had found so far.
SearchKeepsBest ==
    /\ Goto("subs")
    /\ quality' = best
    /\ UNCHANGED <<backend, vmaf_available, excuse, product, searchVars>>

\* VmafError from the search: the preset stands.
SearchFails ==
    /\ Goto("subs")
    /\ UNCHANGED <<settings, product, searchVars>>

\* VmafUnavailableError, from a sample's score.
SearchUnavailable ==
    /\ Exits("score")
    /\ Goto("subs")
    /\ vmaf_available' = FALSE
    /\ excuse' = "missing"
    /\ UNCHANGED <<backend, quality, product, searchVars>>

Plan(drop) ==
    /\ plan' = plan_streams(media.streams, drop)
    /\ IF PlanCovers(media.streams, drop) THEN Goto("encode") ELSE Leave("skipped")
    /\ UNCHANGED <<settings, out, searchVars>>

PlanStreams == Exits("subs") /\ Plan(unmuxable_subtitle_indexes(media.streams))

-----------------------------------------------------------------------------
\* The encode and what its output must stand.

\* run_encode: exit code 0.
Encoded ==
    /\ Exits("encode")
    /\ Encodable /\ \A i \in Range(plan) : media.streams[i] # "unnamed"
    /\ out' \in Output(plan)
    /\ Goto("verify")
    /\ UNCHANGED <<settings, plan, searchVars>>

Intact(o) == o.fits /\ o.picture # "broken"

\* _verify_output: ffprobe on the output, then the decode samples.
Verified ==
    /\ Exits("verify")
    /\ IF Intact(out) THEN Goto("list") ELSE Leave("failed")
    /\ UNCHANGED <<settings, product, searchVars>>

\* _verify_stream_inventory, then the sizes.
Compared ==
    /\ Exits("list")
    /\ IF _covers_in_order(Keys(media.streams, plan), Keys(media.streams, out.streams))
             /\ out.smaller
       THEN Goto(IF job.goal /\ vmaf_available THEN "gauge" ELSE "swap")
       ELSE Leave("skipped")
    /\ UNCHANGED <<settings, product, searchVars>>

\* measure_vmaf answers, and the score is held against the safety floors.
Gauged ==
    /\ Exits("gauge")
    /\ IF out.picture = "good" THEN Goto("swap") ELSE Leave("skipped")
    /\ UNCHANGED <<settings, product, searchVars>>

\* ffmpeg has no libvmaf after all, or not this model: the gate is skipped.
GaugeUnavailable ==
    /\ Exits("gauge")
    /\ Goto("swap")
    /\ excuse' = "missing"
    /\ UNCHANGED <<backend, vmaf_available, quality, product, searchVars>>

\* Mutant of Swap: the transaction counts as confirmed once the renames are done.
SwapConfirms ==
    /\ pc = "swap"
    /\ IF abort_requested
       THEN Leave("aborted")
       ELSE /\ pc' = "confirm" /\ child' = "running" /\ why' = "none"
            /\ file' = "replaced"
            /\ UNCHANGED <<uploaded, abort_requested, dirs, report>>
    /\ UNCHANGED <<work, settings, product, searchVars>>

\* own.swap is settled: an abort is raised after it, and the exit rolls it back.
Swap ==
    /\ pc = "swap"
    /\ IF abort_requested
       THEN Leave("aborted")
       ELSE /\ pc' = "confirm" /\ child' = "running" /\ why' = "none"
            /\ file' = "swapped"
            /\ UNCHANGED <<uploaded, abort_requested, dirs, report>>
    /\ UNCHANGED <<work, settings, product, searchVars>>

\* A rename or a backup that is in the way fails.
SwapFails ==
    /\ pc = "swap"
    /\ Leave("failed")
    /\ UNCHANGED <<work, settings, product, searchVars>>

Confirmed ==
    /\ Exits("confirm")
    /\ Goto("finish")
    /\ UNCHANGED <<settings, product, searchVars>>

\* own.confirm is settled too, and past it nothing is rolled back: a job aborted here is
\* reported failed with its file replaced.
Finish ==
    /\ pc = "finish"
    /\ file' = "replaced"
    /\ IF abort_requested
       THEN /\ pc' = "idle" /\ outcome' = "aborted" /\ ended' = pc
            /\ release("job") /\ abort_requested' = FALSE
       ELSE pc' = "commit" /\ UNCHANGED <<abort_requested, dirs, report>>
    /\ UNCHANGED <<block, work, settings, product, uploaded, searchVars>>

\* The pipeline task is done, so an abort has nothing left to cancel. A filesystem job
\* only takes the size here, an S3 job uploads.
Commit ==
    /\ pc = "commit"
    /\ pc' = "idle" /\ ended' = pc
    /\ \/ outcome' = "complete" /\ uploaded' = job.s3
       \/ outcome' = "failed" /\ UNCHANGED uploaded
    /\ release("job")
    /\ abort_requested' = FALSE
    /\ UNCHANGED <<block, work, settings, product, file, searchVars>>

-----------------------------------------------------------------------------
\* A child that does not do its work.

\* Failures that end the job: the error exit or the deadline of these stages.
StageFails ==
    /\ Leave("failed")
    /\ UNCHANGED <<settings, product, searchVars>>

\* Mutant of GaugeFails: a gauge that fails is taken for one that is not there.
GaugeShrugs ==
    /\ Goto("swap")
    /\ UNCHANGED <<settings, product, searchVars>>

GaugeFails == StageFails

\* The code that catches the error exit of the stage's child, or its TimeoutError.
Caught ==
    \/ pc = "preflight" /\ PreflightFails
    \/ pc = "libvmaf" /\ NoLibvmaf
    \/ pc = "score" /\ SearchFails
    \/ pc = "subs" /\ Plan({})
    \/ pc = "gauge" /\ GaugeFails
    \/ pc \in {"inventory", "encode", "verify", "list", "confirm"} /\ StageFails

\* A non-zero exit, output that cannot be parsed, a score that is not finite.
ChildFails ==
    /\ pc \in Stage /\ child = "running"
    /\ \/ Caught
       \/ pc = "sample" /\ SearchFails
    /\ UNCHANGED work

\* The child stops talking and does not exit (a wedged driver, a dead mount).
Wedge ==
    /\ child = "running"
    /\ child' = "silent"
    /\ UNCHANGED <<pc, why, work, settings, product, disk, abort_requested, dirs, report, searchVars>>

Terminate(reason) ==
    /\ child' = "term" /\ why' = reason
    /\ UNCHANGED <<pc, work, settings, product, disk, dirs, report, searchVars>>

\* Mutant of Deadline: the encode's block has no deadline.
DeadlineNotForEncodes ==
    /\ child \in {"running", "silent"} /\ pc # "encode"
    /\ Terminate("deadline")
    /\ UNCHANGED abort_requested

\* The timeout of the block. Every line of an encode moves it, so an encode meets it
\* only in silence.
Deadline ==
    /\ child = "silent" \/ (child = "running" /\ pc # "encode")
    /\ Terminate("deadline")
    /\ UNCHANGED abort_requested

\* What leaves the block once the child is reaped. No one catches the TimeoutError of a
\* sample's extraction but _process_job.
Raise ==
    \/ why = "deadline" /\ Caught
    \/ why = "deadline" /\ pc = "sample" /\ StageFails
    \/ why = "abort" /\ Leave("aborted") /\ UNCHANGED <<settings, product, searchVars>>

\* The child heeds the TERM, or KILL_GRACE_SECONDS later it is killed.
Reap == child = "term" /\ Raise /\ UNCHANGED work

-----------------------------------------------------------------------------
\* Aborts, restarts and crashes.

\* _abort_current_job: the flag, and a cancel of the pipeline task if there is one.
Abort ==
    /\ pc # "idle" /\ child \in {"none", "running", "silent"}
    /\ abort_requested' = TRUE
    /\ IF child = "none"
       THEN UNCHANGED <<pc, block, work, settings, product, disk, dirs, report, searchVars>>
       ELSE Terminate("abort")

\* Mutant of AbortAgain: the cancel leaves the grace wait without a kill.
AbortAgainOrphans ==
    /\ child = "term"
    /\ pc' = "idle" /\ outcome' = "aborted" /\ ended' = pc
    /\ _settle /\ release("job") /\ abort_requested' = FALSE
    /\ UNCHANGED <<block, uploaded, work, settings, product, searchVars>>

\* A second cancel, or the first during a deadline's grace: the child is killed and the
\* cancel goes on at once.
AbortAgain ==
    /\ child = "term"
    /\ Leave("aborted")
    /\ UNCHANGED <<work, settings, product, searchVars>>

\* _cleanup removes every job directory of the scratch root.
Restart ==
    /\ pc = "idle"
    /\ dirs' = NoDirs
    /\ UNCHANGED <<pc, block, work, settings, product, disk, abort_requested, report, searchVars>>

\* The process is killed. PR_SET_PDEATHSIG takes the child along, and the next start
\* removes the directories that are more than a day old.
Crash ==
    /\ pc # "idle"
    /\ pc' = "idle" /\ child' = "none" /\ why' = "none"
    /\ outcome' = "lost" /\ ended' = pc
    /\ abort_requested' = FALSE
    /\ \E young \in 0 .. dirs["fetch"] : dirs' = [dirs EXCEPT !["fetch"] = young]
    /\ UNCHANGED <<work, settings, product, disk, searchVars>>

-----------------------------------------------------------------------------
Init ==
    /\ pc = "idle" /\ child = "none" /\ why = "none"
    /\ job \in Jobs /\ media \in [streams : Sources, tall : {TRUE}, deep : {FALSE}]
    /\ backend = "cpu" /\ vmaf_available = TRUE /\ quality = NoQuality
    /\ plan = <<>> /\ out = NoOutput
    /\ file = "original" /\ uploaded = FALSE
    /\ abort_requested = FALSE /\ dirs = NoDirs
    /\ outcome = "none" /\ ended = "none" /\ excuse = "none"
    /\ SearchInit

\* The child exits and the stage goes on with what it said.
StageReturns ==
    \/ PreflightOK \/ Inventory \/ HasLibvmaf \/ Sampled \/ Score \/ SearchUnavailable
    \/ PlanStreams \/ Encoded \/ Verified \/ Compared \/ Gauged \/ GaugeUnavailable \/ Confirmed

\* The agent's own steps, on files and on the bucket.
Agent ==
    \/ Decline \/ _try_dedup \/ StartFetch \/ FetchFails \/ reserve \/ Downloaded
    \/ StartPipeline \/ Lock \/ Swap \/ SwapFails \/ Finish \/ Commit

Next ==
    \/ Claim \/ Agent
    \/ StageReturns \/ ChildFails \/ Wedge \/ Deadline \/ Reap
    \/ Abort \/ AbortAgain \/ Restart \/ Crash

Spec == Init /\ [][Next]_vars

\* The agent goes on, its calls to the bucket have timeouts, a child that talks ends one
\* day or falls silent, deadlines fire, and SIGKILL is not ignored.
FairSpec ==
    /\ Spec
    /\ WF_vars(Agent)
    /\ WF_vars(StageReturns \/ ChildFails \/ Wedge)
    /\ WF_vars(Deadline)
    /\ WF_vars(Reap)

-----------------------------------------------------------------------------
TypeOK ==
    /\ pc \in Pipeline \cup {"idle", "dedup", "recover", "head", "download", "fetched", "commit"}
    /\ child \in {"none", "running", "silent", "term"} /\ why \in {"none", "deadline", "abort"}
    /\ (child # "none") = (pc \in Stage)
    /\ (child = "term") = (why # "none")
    /\ job \in Jobs
    /\ media.streams \in Sources /\ media.tall \in BOOLEAN /\ media.deep \in BOOLEAN
    /\ backend \in {"qsv", "cpu"} /\ vmaf_available \in BOOLEAN
    /\ quality \in {NoQuality} \cup Lo .. Hi
    /\ Range(plan) \subseteq Indexes(media.streams) /\ IsInjective(plan)
    /\ Range(out.streams) \subseteq Range(plan) \cup {0} /\ out.picture \in Pictures
    /\ file \in {"original", "swapped", "replaced"} /\ uploaded \in BOOLEAN
    /\ abort_requested \in BOOLEAN
    /\ dirs \in [{"fetch", "job"} -> 0 .. Capacity]
    /\ outcome \in {"none", "complete", "reused", "skipped", "failed", "declined", "aborted", "lost"}
    /\ excuse \in {"none", "missing", "timeout"}
    /\ ended \in Pipeline \cup {"none", "dedup", "recover", "head", "download", "fetched", "commit"}

\* The result reached the user: the file is in place, or the derivative in the bucket.
Delivered == IF job.s3 THEN uploaded ELSE file = "replaced"

\* An output that is delivered holds every stream of the source but data streams and
\* subtitles without a codec, and its first video stream is the re-encoded primary
\* (plan_streams, _check_plan_covers_source, _verify_stream_inventory), whatever the
\* muxer did and whichever of the probes failed.
NoStreamLost ==
    Delivered =>
        /\ \A i \in Indexes(media.streams) :
               media.streams[i] \in {"data", "unnamed"} \/ i \in Range(out.streams)
        /\ out.streams[1] = primary_video_index(media.streams)

\* An output that is delivered has the codec, height and duration asked for, is smaller
\* than the source and decodes, was not scaled up, and for a quality goal was scored
\* above the floors, unless the worker found no libvmaf or got no answer about it
\* (run_pipeline, has_libvmaf): a measurement that fails is no excuse.
KeptIsGood ==
    Delivered =>
        /\ Intact(out) /\ out.smaller
        /\ job.shrink => media.tall
        /\ job.goal => out.picture = "good" \/ excuse # "none"

\* The encode runs at the preset or at the quality a finished search settled on, never
\* at one a search that broke off had reached (run_pipeline, find_quality_for_target).
QualitySettled ==
    quality # NoQuality => SearchOver /\ quality = best

\* No ffmpeg outlives the job that started it, aborted twice, timed out or crashed: the
\* lock is released and the temp output deleted with no writer left (managed_subprocess,
\* terminate_process_tree).
NoWriterLeft == pc = "idle" => child = "none"

\* What is reported is what happened (_process_job): complete means delivered, skipped
\* and declined mean the original is in place, and a job reported failed or aborted that
\* did deliver had ended past the last check, in the settled confirm or in commit.
OutcomeHonest ==
    pc = "idle" =>
        /\ outcome = "complete" => Delivered
        /\ outcome \in {"skipped", "declined"} => file = "original"
        /\ outcome \in {"failed", "aborted"} /\ file # "original" => ended \in {"finish", "commit"}

\* A claimed job ends: no wedged child, lost answer, full disk or abort holds the worker
\* for ever (the encode's stall watchdog, the deadlines of the other children).
JobEnds == pc # "idle" ~> pc = "idle"

\* The scratch space of a job is released when the job completes: storage/scratch.py:5 promises
\* "Atomic recursive delete on completion", and docs/STORAGE.md:76 sizes the disk for the
\* largest file alone.
ScratchReleased == outcome = "complete" /\ job.s3 => dirs = NoDirs
=============================================================================
