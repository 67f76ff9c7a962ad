----------------------------- MODULE SourceSwap -----------------------------
(***************************************************************************)
(* The owned transaction over ONE source path on shared storage: the       *)
(* worker pipeline from LOCK to UNLOCK (worker/pipeline.py,                *)
(* worker/storage/ownership.py), the file operations under it and the two  *)
(* recovery passes that heal a crash (worker/storage/filesystem.py).       *)
(*                                                                         *)
(* Several workers may be given a job on the same path (a requeued job, a  *)
(* second job on the file).  Each step below is one file-system call or    *)
(* one await of the pipeline, so a crash or another worker's call may fall *)
(* between any two of them.  File contents are abstracted to what the      *)
(* pipeline's checks tell apart; encoding, probing and VMAF are            *)
(* nondeterministic results.  Time is abstracted to the `fresh' bit of the *)
(* lock: FALSE once its timestamp is older than the stale window.          *)
(***************************************************************************)
EXTENDS Naturals

CONSTANTS
    NoLock,     \* the lock file does not exist
    Worker,     \* the worker processes (worker_id); one job at a time each
    Scans,      \* the workers whose recovery roots cover this path
    Faults,     \* which environment misbehaviours may happen, see AllFaults
    MaxFaults   \* bound: crashes plus failing file-system calls in a run

\* stall:  a running pipeline's lock may look stale to others (suspended
\*         process, failing touches, clock skew)
\* rename: a rename may fail      unlink: a delete may fail
\* scan_restore: the startup scan's restore may fail
\* slow_scan: a startup scan may outlast the stale window between its passes
AllFaults == {"stall", "rename", "unlink", "scan_restore", "slow_scan"}

\* What a path may hold.  A worker w stands for the partial output that w's
\* encoder is still writing; "torn" is one nobody will complete.  "good"
\* passes every check of the pipeline, "bad" plays but fails COMPARE.
Content == {"none", "orig", "good", "bad", "torn"} \cup Worker
Path    == {"src", "bak", "tmp"}

ASSUME WorkerAssumption == Worker \cap {"none", "orig", "good", "bad", "torn"} = {}
ASSUME FaultAssumption  == Faults \subseteq AllFaults /\ MaxFaults \in Nat
ASSUME ScansAssumption  == Scans \subseteq Worker

VARIABLES
    fs,         \* fs[p]: content of the path p
    lock,       \* the lock file: NoLock or its owner, written and fresh
    pc,         \* where each worker stands
    scanning,   \* the recovery pass under way is the startup scan
    beat,       \* the lock heartbeat task of the transaction
    mutating,   \* SourceOwnership._mutating
    confirmed,  \* SourceOwnership._confirmed
    cancelled,  \* a cancellation waits for a settled unit to end
    result,     \* how the transaction will be reported
    spent       \* faults that have happened: crashes, and failing calls

vars == <<fs, lock, pc, scanning, beat, mutating, confirmed, cancelled, result, spent>>
own  == <<scanning, beat, mutating, confirmed, cancelled, result>>

\* Steps of a recovery pass after its freshness check.
MidPass == {"restore", "clear_lock", "clear_tmp", "scan_tmp"}
\* Steps during which the exclusive create of the lock is relied upon.
Body    == {"locked", "encoding", "gate", "swap_check", "swap_bak", "swap_new",
            "swap_undo", "confirm", "finish"}
Exit    == {"settle", "rollback", "release_tmp", "release_lock"}
Holding == {"stamp"} \cup Body \cup Exit
PCs     == {"down", "idle", "recover", "scan_lock", "fetch", "acquire", "commit"}
              \cup MidPass \cup Holding

LockFile == [owner : Worker, written : BOOLEAN, fresh : BOOLEAN]
ASSUME NoLockAssumption == NoLock \notin LockFile

Move(p, q) == [fs EXCEPT ![q] = fs[p], ![p] = "none"]
Delete(p)  == [fs EXCEPT ![p] = "none"]
Goto(w, l) == pc' = [pc EXCEPT ![w] = l]

Fault(kind) == /\ kind \in Faults
               /\ spent.crash + spent.call < MaxFaults
               /\ spent' = [spent EXCEPT !.call = @ + 1]

Init ==
    /\ fs = [p \in Path |-> IF p = "src" THEN "orig" ELSE "none"]
    /\ lock = NoLock
    /\ pc = [w \in Worker |-> "idle"]
    /\ scanning = [w \in Worker |-> FALSE]
    /\ beat = [w \in Worker |-> "off"]
    /\ mutating = [w \in Worker |-> FALSE]
    /\ confirmed = [w \in Worker |-> FALSE]
    /\ cancelled = [w \in Worker |-> FALSE]
    /\ result = [w \in Worker |-> "none"]
    /\ spent = [crash |-> 0, call |-> 0]

-----------------------------------------------------------------------------
(* The lock file.                                                          *)

\* Mutant of LockActive: the age comparison the wrong way round.
LockActiveInverted(w) ==
    lock # NoLock /\ lock.written /\ lock.owner # w /\ ~lock.fresh

\* Mutant of LockActive: a worker's own lock from an earlier life is not exempt.
LockActiveOwn(w) == lock # NoLock /\ lock.written /\ lock.fresh

\* _lock_is_active: readable, another worker's, refreshed within the window.
LockActive(w) ==
    lock # NoLock /\ lock.written /\ lock.owner # w /\ lock.fresh

\* _lock_matches: the lock on disk still carries this transaction's token.
LockMatches(w) == lock # NoLock /\ lock.written /\ lock.owner = w

\* The stale window passes without a refresh of the lock.
LockAges ==
    /\ lock # NoLock /\ lock.fresh
    /\ "stall" \in Faults \/ pc[lock.owner] \notin Holding
    /\ "slow_scan" \in Faults \/ \A v \in Worker : pc[v] # "scan_lock"
    /\ lock' = [owner |-> lock.owner, written |-> lock.written, fresh |-> FALSE]
    /\ UNCHANGED <<fs, pc, own, spent>>

\* _beat / _refresh_lock, first half: read the lock, go on only on a match.
BeatCheck(w) ==
    /\ beat[w] = "on" /\ pc[w] \in Body
    /\ LockMatches(w)
    /\ beat' = [beat EXCEPT ![w] = "writing"]
    /\ UNCHANGED <<fs, lock, pc, scanning, mutating, confirmed, cancelled, result, spent>>

\* _touch_lock: os.replace puts the lock there whatever is there now.
BeatWrite(w) ==
    /\ beat[w] = "writing"
    /\ beat' = [beat EXCEPT ![w] = "on"]
    /\ \/ lock' = [owner |-> w, written |-> TRUE, fresh |-> TRUE] /\ UNCHANGED spent
       \/ Fault("rename") /\ UNCHANGED lock
    /\ UNCHANGED <<fs, pc, scanning, mutating, confirmed, cancelled, result>>

-----------------------------------------------------------------------------
(* Recovery: recover_source_path at claim time, recover_orphaned_backups   *)
(* at startup.                                                             *)

\* The job loop has claimed a job on this path (_process_job).
Claim(w) ==
    /\ pc[w] = "idle"
    /\ Goto(w, "recover")
    /\ result' = [result EXCEPT ![w] = "none"]
    /\ UNCHANGED <<fs, lock, scanning, beat, mutating, confirmed, cancelled, spent>>

\* The freshness check of either pass: a fresh foreign lock is left alone.
RecoverCheck(w) ==
    /\ pc[w] = "recover"
    /\ ~LockActive(w)
    /\ Goto(w, "restore")
    /\ UNCHANGED <<fs, lock, own, spent>>

\* Where a pass goes when it leaves the path as it is: the scan to its second
\* loop, a claimed job to a failure report.
HandsOff(w) ==
    /\ IF scanning[w]
       THEN Goto(w, "scan_lock") /\ UNCHANGED result
       ELSE Goto(w, "idle") /\ result' = [result EXCEPT ![w] = "failed"]
    /\ UNCHANGED <<fs, lock, scanning, beat, mutating, confirmed, cancelled>>

\* _recover_source_path_waiting gives up (cap reached, or an abort), and the
\* startup scan skips the path.
RecoverSkip(w) ==
    /\ pc[w] = "recover"
    /\ LockActive(w)
    /\ HandsOff(w) /\ UNCHANGED spent

\* A backup beside a finished-looking, unlocked original: operator's business.
RecoverAttention(w) ==
    /\ pc[w] = "restore"
    /\ fs["bak"] # "none" /\ fs["src"] # "none" /\ lock = NoLock
    /\ HandsOff(w) /\ UNCHANGED spent

\* bak.replace(original)
RecoverRestore(w) ==
    /\ pc[w] = "restore"
    /\ fs["bak"] # "none"
    /\ fs["src"] = "none" \/ lock # NoLock
    /\ fs' = Move("bak", "src")
    /\ Goto(w, "clear_lock")
    /\ UNCHANGED <<lock, own, spent>>

\* bak.replace(original) raised: restore_failed / "Could not restore".
RecoverRestoreFails(w) ==
    /\ pc[w] = "restore"
    /\ fs["bak"] # "none"
    /\ fs["src"] = "none" \/ lock # NoLock
    /\ Fault(IF scanning[w] THEN "scan_restore" ELSE "rename")
    /\ HandsOff(w)

\* No backup: the claim-time pass clears leftovers, the scan's first loop
\* has nothing to do.
RecoverNoBackup(w) ==
    /\ pc[w] = "restore"
    /\ fs["bak"] = "none"
    /\ Goto(w, IF scanning[w] THEN "scan_lock"
               ELSE IF lock # NoLock \/ fs["tmp"] # "none" THEN "clear_lock" ELSE "fetch")
    /\ UNCHANGED <<fs, lock, own, spent>>

\* _safe_delete(lock)
ClearLock(w) ==
    /\ pc[w] = "clear_lock"
    /\ \/ lock' = NoLock /\ UNCHANGED spent
       \/ Fault("unlink") /\ UNCHANGED lock
    /\ Goto(w, "clear_tmp")
    /\ UNCHANGED <<fs, own>>

\* _safe_delete(tmp), the pass's last call
ClearTmp(w) ==
    /\ pc[w] = "clear_tmp"
    /\ \/ fs' = Delete("tmp") /\ UNCHANGED spent
       \/ Fault("unlink") /\ UNCHANGED fs
    /\ Goto(w, IF scanning[w] THEN "scan_lock" ELSE "fetch")
    /\ UNCHANGED <<lock, own>>

\* _remove_stale_locks_under: unlink a lock that is not active, whatever the
\* backups pass made of its backup.  Then the worker may take jobs.
ScanLock(w) ==
    /\ pc[w] = "scan_lock"
    /\ \/ /\ lock # NoLock /\ ~LockActive(w)
          /\ lock' = NoLock
          /\ Goto(w, "scan_tmp")
          /\ UNCHANGED <<scanning, spent>>
       \/ /\ lock = NoLock \/ LockActive(w)
          /\ Goto(w, "idle")
          /\ scanning' = [scanning EXCEPT ![w] = FALSE]
          /\ UNCHANGED <<lock, spent>>
       \/ /\ lock # NoLock /\ ~LockActive(w)
          /\ Fault("unlink")
          /\ Goto(w, "idle")
          /\ scanning' = [scanning EXCEPT ![w] = FALSE]
          /\ UNCHANGED lock
    /\ UNCHANGED <<fs, beat, mutating, confirmed, cancelled, result>>

\* ... and the partial output beside the lock it removed.
ScanTmp(w) ==
    /\ pc[w] = "scan_tmp"
    /\ \/ fs' = Delete("tmp") /\ UNCHANGED spent
       \/ Fault("unlink") /\ UNCHANGED fs
    /\ Goto(w, "idle")
    /\ scanning' = [scanning EXCEPT ![w] = FALSE]
    /\ UNCHANGED <<lock, beat, mutating, confirmed, cancelled, result>>

-----------------------------------------------------------------------------
(* The transaction: LOCK, encode, check, SWAP, CONFIRM, CLEANUP, UNLOCK.   *)

\* storage.fetch and the stat before the lock.
Fetch(w) ==
    /\ pc[w] = "fetch"
    /\ IF fs["src"] = "none"
       THEN Goto(w, "idle") /\ result' = [result EXCEPT ![w] = "failed"]
       ELSE Goto(w, "acquire") /\ UNCHANGED result
    /\ UNCHANGED <<fs, lock, scanning, beat, mutating, confirmed, cancelled, spent>>

\* Mutant of Acquire: open(lock, "w") instead of the exclusive create.
AcquireUnchecked(w) ==
    /\ pc[w] = "acquire"
    /\ lock' = [owner |-> w, written |-> FALSE, fresh |-> TRUE]
    /\ Goto(w, "stamp")
    /\ mutating' = [mutating EXCEPT ![w] = FALSE]
    /\ confirmed' = [confirmed EXCEPT ![w] = FALSE]
    /\ cancelled' = [cancelled EXCEPT ![w] = FALSE]
    /\ UNCHANGED <<fs, scanning, beat, result, spent>>

\* _acquire_lock: exclusive create; the loser leaves with nothing to clean up.
Acquire(w) ==
    /\ pc[w] = "acquire"
    /\ IF lock = NoLock
       THEN /\ lock' = [owner |-> w, written |-> FALSE, fresh |-> TRUE]
            /\ Goto(w, "stamp")
            /\ UNCHANGED result
       ELSE /\ Goto(w, "idle")
            /\ result' = [result EXCEPT ![w] = "failed"]
            /\ UNCHANGED lock
    /\ mutating' = [mutating EXCEPT ![w] = FALSE]
    /\ confirmed' = [confirmed EXCEPT ![w] = FALSE]
    /\ cancelled' = [cancelled EXCEPT ![w] = FALSE]
    /\ UNCHANGED <<fs, scanning, beat, spent>>

\* f.write(lock_data) into the file created above (a file unlinked in the
\* meantime swallows the write), then the heartbeat starts.  A cancelled
\* acquisition gives the lock back.
Stamp(w) ==
    LET mine == lock # NoLock /\ lock.owner = w /\ ~lock.written
    IN  /\ pc[w] = "stamp"
        /\ lock' = IF mine THEN [owner |-> w, written |-> TRUE, fresh |-> lock.fresh] ELSE lock
        /\ IF cancelled[w]
           THEN /\ Goto(w, IF mine THEN "release_lock" ELSE "idle")
                /\ result' = [result EXCEPT ![w] = "failed"]
                /\ UNCHANGED beat
           ELSE /\ beat' = [beat EXCEPT ![w] = "on"]
                /\ Goto(w, "locked")
                /\ UNCHANGED result
        /\ UNCHANGED <<fs, scanning, mutating, confirmed, cancelled, spent>>

\* Into the exit of the `async with' block, with the outcome the job gets.
Leave(w, r) ==
    /\ Goto(w, "settle")
    /\ result' = [result EXCEPT ![w] = r]

\* Inventory, CRF search and plan, then ffmpeg opens the temp output; a probe
\* error fails the job, a plan that loses a stream skips it.
EncodeStart(w) ==
    /\ pc[w] = "locked"
    /\ \/ /\ fs' = [fs EXCEPT !["tmp"] = w]
          /\ Goto(w, "encoding")
          /\ UNCHANGED result
       \/ /\ \E r \in {"failed", "skipped"} : Leave(w, r)
          /\ UNCHANGED fs
    /\ UNCHANGED <<lock, scanning, beat, mutating, confirmed, cancelled, spent>>

\* What becomes of the file w was writing, wherever a rename has put it.
Written(w, c) == [p \in Path |-> IF fs[p] = w THEN c ELSE fs[p]]

\* run_encode returns; ffmpeg may have failed and left a partial.
EncodeEnd(w) ==
    /\ pc[w] = "encoding"
    /\ \/ /\ \E c \in {"good", "bad"} : fs' = Written(w, c)
          /\ Goto(w, "gate")
          /\ UNCHANGED result
       \/ /\ fs' = Written(w, "torn")
          /\ Leave(w, "failed")
    /\ UNCHANGED <<lock, scanning, beat, mutating, confirmed, cancelled, spent>>

\* VERIFY and COMPARE on the temp output: duration, decode, streams, size,
\* VMAF.  Any of them may also fail on a good file (a probe error).
Gate(w) ==
    /\ pc[w] = "gate"
    /\ \/ fs["tmp"] = "good" /\ Goto(w, "swap_check") /\ UNCHANGED result
       \/ fs["tmp"] = "bad" /\ Leave(w, "skipped")
       \/ Leave(w, "failed")
    /\ UNCHANGED <<fs, lock, scanning, beat, mutating, confirmed, cancelled, spent>>

\* Mutant of SwapCheck: no refusal when a backup is already there.
SwapCheckOverwrites(w) ==
    /\ pc[w] = "swap_check"
    /\ mutating' = [mutating EXCEPT ![w] = TRUE]
    /\ Goto(w, "swap_bak")
    /\ UNCHANGED <<fs, lock, scanning, beat, confirmed, cancelled, result, spent>>

\* _atomic_swap refuses to overwrite a stranded backup; past the refusal the
\* transaction is mutating.
SwapCheck(w) ==
    /\ pc[w] = "swap_check"
    /\ IF fs["bak"] # "none"
       THEN Leave(w, "failed") /\ UNCHANGED mutating
       ELSE /\ mutating' = [mutating EXCEPT ![w] = TRUE]
            /\ Goto(w, "swap_bak")
            /\ UNCHANGED result
    /\ UNCHANGED <<fs, lock, scanning, beat, confirmed, cancelled, spent>>

\* original.rename(bak)
SwapBackup(w) ==
    /\ pc[w] = "swap_bak"
    /\ \/ /\ fs["src"] # "none"
          /\ fs' = Move("src", "bak")
          /\ Goto(w, "swap_new")
          /\ UNCHANGED <<result, spent>>
       \/ /\ \/ Fault("rename")
             \/ fs["src"] = "none" /\ UNCHANGED spent
          /\ Leave(w, "failed")
          /\ UNCHANGED fs
    /\ UNCHANGED <<lock, scanning, beat, mutating, confirmed, cancelled>>

\* A cancellation that waited for the settled unit is raised at its end.
AfterSwap(w) == IF cancelled[w] THEN Leave(w, "failed") ELSE Goto(w, "confirm") /\ UNCHANGED result

\* tmp.rename(original).  What arrives may be torn: that is what CONFIRM is for.
SwapInstall(w) ==
    /\ pc[w] = "swap_new"
    /\ \/ /\ fs["tmp"] # "none"
          /\ fs' \in {Move("tmp", "src"), [Move("tmp", "src") EXCEPT !["src"] = "torn"]}
          /\ AfterSwap(w)
          /\ UNCHANGED spent
       \/ /\ \/ Fault("rename")
             \/ fs["tmp"] = "none" /\ UNCHANGED spent
          /\ Goto(w, "swap_undo")
          /\ UNCHANGED <<fs, result>>
    /\ UNCHANGED <<lock, scanning, beat, mutating, confirmed, cancelled>>

\* bak.rename(original) after the second rename failed; it may fail as well.
SwapUndo(w) ==
    /\ pc[w] = "swap_undo"
    /\ \/ fs["bak"] # "none" /\ fs' = Move("bak", "src") /\ UNCHANGED spent
       \/ fs["bak"] = "none" /\ UNCHANGED <<fs, spent>>
       \/ Fault("rename") /\ UNCHANGED fs
    /\ Leave(w, "failed")
    /\ UNCHANGED <<lock, scanning, beat, mutating, confirmed, cancelled>>

Playable == {"orig", "good", "bad"}

\* Mutant of Confirm: the check after the swap is dropped.
ConfirmUnchecked(w) ==
    /\ pc[w] = "confirm"
    /\ Goto(w, "finish")
    /\ UNCHANGED <<fs, lock, own, spent>>

\* Mutant of Confirm: a failed check leaves the block without raising.
ConfirmSwallowed(w) ==
    /\ pc[w] = "confirm"
    /\ \/ fs["src"] \in Playable /\ Goto(w, "finish") /\ UNCHANGED result
       \/ Leave(w, "complete")
    /\ UNCHANGED <<fs, lock, scanning, beat, mutating, confirmed, cancelled, spent>>

\* CONFIRM: _verify_output on what is at the original path now.
Confirm(w) ==
    /\ pc[w] = "confirm"
    /\ \/ fs["src"] \in Playable /\ Goto(w, "finish") /\ UNCHANGED result
       \/ Leave(w, "failed")
    /\ UNCHANGED <<fs, lock, scanning, beat, mutating, confirmed, cancelled, spent>>

\* _finish: delete the backup (_safe_delete), then _confirmed.
Finish(w) ==
    /\ pc[w] = "finish"
    /\ \/ fs' = Delete("bak") /\ UNCHANGED spent
       \/ Fault("unlink") /\ UNCHANGED fs
    /\ confirmed' = [confirmed EXCEPT ![w] = TRUE]
    /\ Leave(w, IF cancelled[w] THEN "failed" ELSE "complete")
    /\ UNCHANGED <<lock, scanning, beat, mutating, cancelled>>

\* A cancellation (second shutdown signal, self-fence) reaches the pipeline.
\* Settled units finish first; everything else goes straight to the exit.
Cancel(w) ==
    /\ \/ /\ pc[w] \in {"stamp", "swap_check", "swap_bak", "swap_new", "swap_undo", "finish"}
                       \cup Exit
          /\ ~cancelled[w]
          /\ cancelled' = [cancelled EXCEPT ![w] = TRUE]
          /\ UNCHANGED <<fs, pc, result>>
       \/ /\ pc[w] \in {"locked", "encoding", "gate", "confirm"}
          /\ fs' = Written(w, "torn")
          /\ Leave(w, "failed")
          /\ UNCHANGED cancelled
       \/ /\ pc[w] \in {"fetch", "acquire"}
          /\ Goto(w, "idle")
          /\ result' = [result EXCEPT ![w] = "failed"]
          /\ UNCHANGED <<fs, cancelled>>
    /\ UNCHANGED <<lock, scanning, beat, mutating, confirmed, spent>>

\* Mutant of Settle: the heartbeat task is cancelled without waiting for the
\* write its thread has in flight.
SettleUnwaited(w) ==
    /\ pc[w] = "settle"
    /\ Goto(w, IF mutating[w] /\ ~confirmed[w] THEN "rollback" ELSE "release_tmp")
    /\ UNCHANGED <<fs, lock, own, spent>>

\* _settle: stop the heartbeat, waiting for a write in flight.
Settle(w) ==
    /\ pc[w] = "settle"
    /\ beat[w] # "writing"
    /\ beat' = [beat EXCEPT ![w] = "off"]
    /\ Goto(w, IF mutating[w] /\ ~confirmed[w] THEN "rollback" ELSE "release_tmp")
    /\ UNCHANGED <<fs, lock, scanning, mutating, confirmed, cancelled, result, spent>>

\* Past the `async with' block: the result is delivered, unless a
\* cancellation waited for the exit to settle.
Return(w) ==
    /\ Goto(w, IF result[w] = "complete" /\ ~cancelled[w] THEN "commit" ELSE "idle")
    /\ result' = [result EXCEPT ![w] = IF cancelled[w] THEN "failed" ELSE @]

\* Mutant of Rollback: the lock is released though the restore failed.
RollbackThenRelease(w) ==
    /\ pc[w] = "rollback"
    /\ \/ fs' = (IF fs["bak"] = "none" THEN fs ELSE Move("bak", "src")) /\ UNCHANGED spent
       \/ fs["bak"] # "none" /\ Fault("rename") /\ UNCHANGED fs
    /\ Goto(w, "release_tmp")
    /\ UNCHANGED <<lock, own>>

\* _rollback_swap: True when restored or nothing to restore; on a failed
\* restore the lock stays.
Rollback(w) ==
    /\ pc[w] = "rollback"
    /\ \/ /\ fs' = IF fs["bak"] = "none" THEN fs ELSE Move("bak", "src")
          /\ Goto(w, "release_tmp")
          /\ UNCHANGED <<result, spent>>
       \/ /\ fs["bak"] # "none"
          /\ Fault("rename")
          /\ Return(w)
          /\ UNCHANGED fs
    /\ UNCHANGED <<lock, scanning, beat, mutating, confirmed, cancelled>>

\* Mutant of ReleaseTmp: only a completed transaction cleans up.
ReleaseTmpOnSuccess(w) ==
    /\ pc[w] = "release_tmp"
    /\ IF LockMatches(w) /\ result[w] = "complete"
       THEN fs' = Delete("tmp") /\ Goto(w, "release_lock") /\ UNCHANGED result
       ELSE Return(w) /\ UNCHANGED fs
    /\ UNCHANGED <<lock, scanning, beat, mutating, confirmed, cancelled, spent>>

\* _release_artifacts: both paths are left alone when the lock is no longer
\* ours; otherwise the temp output goes first ...
ReleaseTmp(w) ==
    /\ pc[w] = "release_tmp"
    /\ IF LockMatches(w)
       THEN /\ \/ fs' = Delete("tmp") /\ UNCHANGED spent
               \/ Fault("unlink") /\ UNCHANGED fs
            /\ Goto(w, "release_lock")
            /\ UNCHANGED result
       ELSE Return(w) /\ UNCHANGED <<fs, spent>>
    /\ UNCHANGED <<lock, scanning, beat, mutating, confirmed, cancelled>>

\* ... and the lock last.
ReleaseLock(w) ==
    /\ pc[w] = "release_lock"
    /\ \/ lock' = NoLock /\ UNCHANGED spent
       \/ Fault("unlink") /\ UNCHANGED lock
    /\ Return(w)
    /\ UNCHANGED <<fs, scanning, beat, mutating, confirmed, cancelled>>

\* FilesystemBackend.commit stats the output: a path that vanished in the
\* meantime fails the job.
Commit(w) ==
    /\ pc[w] = "commit"
    /\ Goto(w, "idle")
    /\ result' = [result EXCEPT ![w] = IF fs["src"] = "none" THEN "failed" ELSE @]
    /\ UNCHANGED <<fs, lock, scanning, beat, mutating, confirmed, cancelled, spent>>

\* Power loss or SIGKILL: what is on disk stays, the encoder dies.
Crash(w) ==
    /\ pc[w] # "down"
    /\ spent.crash + spent.call < MaxFaults
    /\ spent' = [spent EXCEPT !.crash = @ + 1]
    /\ fs' = Written(w, "torn")
    /\ Goto(w, "down")
    /\ scanning' = [scanning EXCEPT ![w] = FALSE]
    /\ beat' = [beat EXCEPT ![w] = "off"]
    /\ mutating' = [mutating EXCEPT ![w] = FALSE]
    /\ confirmed' = [confirmed EXCEPT ![w] = FALSE]
    /\ cancelled' = [cancelled EXCEPT ![w] = FALSE]
    /\ result' = [result EXCEPT ![w] = "none"]
    /\ UNCHANGED lock

\* HTTPWorkerAgent.start under the same worker_id: the swap-recovery scan
\* over the roots this worker knows of.
Restart(w) ==
    /\ pc[w] = "down"
    /\ Goto(w, IF w \in Scans THEN "recover" ELSE "idle")
    /\ scanning' = [scanning EXCEPT ![w] = w \in Scans]
    /\ UNCHANGED <<fs, lock, beat, mutating, confirmed, cancelled, result, spent>>

-----------------------------------------------------------------------------
RecoveryStep(w) ==
    \/ RecoverCheck(w) \/ RecoverSkip(w) \/ RecoverAttention(w) \/ RecoverRestore(w)
    \/ RecoverRestoreFails(w) \/ RecoverNoBackup(w) \/ ClearLock(w) \/ ClearTmp(w)
    \/ ScanLock(w) \/ ScanTmp(w)

PipelineStep(w) ==
    \/ Fetch(w) \/ Acquire(w) \/ Stamp(w) \/ EncodeStart(w) \/ EncodeEnd(w) \/ Gate(w)
    \/ SwapCheck(w) \/ SwapBackup(w) \/ SwapInstall(w) \/ SwapUndo(w)
    \/ Confirm(w) \/ Finish(w)
    \/ Settle(w) \/ Rollback(w) \/ ReleaseTmp(w) \/ ReleaseLock(w) \/ Commit(w)

Next ==
    \/ LockAges
    \/ \E w \in Worker :
          \/ RecoveryStep(w) \/ PipelineStep(w)
          \/ Claim(w) \/ BeatCheck(w) \/ BeatWrite(w)
          \/ Cancel(w) \/ Crash(w) \/ Restart(w)

Spec == Init /\ [][Next]_vars

\* The assumption that the lock protocol needs and does not secure: no lock is
\* created while a recovery pass is past its freshness check, and no pass gets
\* there while a created lock is not yet written.
Calm == \A v, w \in Worker : ~(pc[v] \in MidPass /\ pc[w] = "stamp")

\* The behaviours in which that never happens.  Acquire, RecoverCheck and
\* ScanLock do not exclude it: Spec has the others as well.
CalmSpec == Init /\ [][Next /\ Calm']_vars

\* Program steps are taken, a supervisor restarts a dead worker, and time
\* passes.  Nothing forces a claim, a cancellation or a crash.
FairSpec ==
    /\ CalmSpec
    /\ WF_vars(LockAges)
    /\ \A w \in Worker : /\ WF_vars(RecoveryStep(w) /\ Calm')
                         /\ WF_vars(PipelineStep(w) /\ Calm')
                         /\ WF_vars(BeatWrite(w))
                         /\ WF_vars(Restart(w))

-----------------------------------------------------------------------------
(* Properties.                                                             *)

Intact == {"orig", "good"}

TypeOK ==
    /\ fs \in [Path -> Content]
    /\ lock \in LockFile \cup {NoLock}
    /\ pc \in [Worker -> PCs]
    /\ scanning \in [Worker -> BOOLEAN]
    /\ beat \in [Worker -> {"off", "on", "writing"}]
    /\ mutating \in [Worker -> BOOLEAN]
    /\ confirmed \in [Worker -> BOOLEAN]
    /\ cancelled \in [Worker -> BOOLEAN]
    /\ result \in [Worker -> {"none", "complete", "failed", "skipped"}]
    /\ spent \in [crash : Nat, call : Nat]

\* README: "never lose an original".  At every instant, a crash included, the
\* path or its backup holds the original or an encode that passed every check.
OriginalRecoverable == fs["src"] \in Intact \/ fs["bak"] \in Intact

\* _acquire_lock: "two workers racing on the same path can't both acquire
\* it": at most one transaction is between LOCK and UNLOCK.  Spec violates it:
\* a lock that is created and not yet written reads as stale, and a recovery
\* pass that takes it for one deletes it.
MutualExclusion ==
    \A v, w \in Worker : pc[v] \in Holding /\ pc[w] \in Holding => v = w

\* recover_orphaned_backups: "Original present, NO lock -> the pipeline
\* finished", and "the original path holds a confirmed encode": the operator
\* who is told to delete such a backup keeps a checked file.
UnlockedBackupFinished ==
    lock = NoLock /\ fs["bak"] # "none" /\ fs["src"] # "none" => fs["src"] = "good"

\* A backup may be the last copy of a true original: no step replaces one
\* (_atomic_swap's refusal), it only goes away.
BackupKept == fs["bak"] # "none" => fs'["bak"] \in {fs["bak"], "none"}
BackupNeverOverwritten == [][BackupKept]_vars

\* A pipeline that returns a result has its checked encode at the source path
\* when its lock goes; a rolled back or refused swap is never one.
ReplacedAtCommit ==
    \A w \in Worker : pc[w] # "commit" /\ pc'[w] = "commit" => fs'["src"] = "good"
CompleteIsReplaced == [][ReplacedAtCommit]_vars

\* The exit settles the heartbeat before it releases: no late refresh ever
\* brings back a lock that was released or revoked.
NewLockAcquired ==
    lock = NoLock /\ lock' # NoLock => \E w \in Worker : pc[w] = "acquire" /\ pc'[w] = "stamp"
LockOnlyFromAcquire == [][NewLockAcquired]_vars

\* The lock file speaks for the transaction: whoever is between LOCK and
\* UNLOCK owns it, and no recovery pass is past its check meanwhile.  Calm
\* gives it at the stamp; that it lasts from there is what the steps show.
Ownership ==
    /\ \A w \in Worker : pc[w] \in Holding =>
          /\ lock # NoLock /\ lock.owner = w /\ lock.fresh
          /\ lock.written \/ pc[w] = "stamp"
    /\ \A v, w \in Worker : pc[v] \in MidPass => pc[w] \notin Holding
    /\ \A w \in Worker : beat[w] # "off" => pc[w] \in Body \cup {"settle"}

\* What each stage of a transaction knows of the three files.
StageInv(w) ==
    /\ pc[w] \in {"swap_check", "swap_bak", "swap_new"} => fs["tmp"] = "good"
    /\ pc[w] = "swap_bak" => fs["bak"] = "none"
    /\ pc[w] = "swap_new" => fs["bak"] # "none"
    /\ pc[w] = "confirm" => fs["src"] \in {"good", "torn"}
    /\ pc[w] = "finish" => fs["src"] = "good"
    /\ pc[w] \in Exit /\ result[w] = "complete" =>
          fs["src"] = "good" /\ confirmed[w] /\ pc[w] # "rollback"

\* The inductive invariant behind the safety properties.  OriginalRecoverable
\* alone is not inductive: that a backup is only ever an intact file, that the
\* holder's view of the files is right and that nobody else is touching them
\* is what each step relies on.
FilesInv ==
    /\ fs["bak"] \in Intact \cup {"none"}
    /\ OriginalRecoverable
    /\ \A w \in Worker : StageInv(w)

SafetyInv == TypeOK /\ Ownership /\ FilesInv

\* Healing by the next start of the worker that left the path is what the code
\* gives: a worker whose scan covers the path, and no call that failed on the
\* way.  After either, the path waits for a claim that nothing forces.
Unhealed ==
    \/ spent.call > 0
    \/ lock # NoLock /\ lock.owner \notin Scans /\ pc[lock.owner] \notin Holding

\* A crash inside the swap window heals: a missing source comes back, and
\* what comes back is intact.
MissingSourceRestored == fs["src"] = "none" ~> fs["src"] \in Intact \/ Unhealed

\* No lock blocks its path for ever: its transaction ends, or the next life
\* of the worker that left it removes it.
LockEventuallyReleased == lock # NoLock ~> lock = NoLock \/ Unhealed
=============================================================================
