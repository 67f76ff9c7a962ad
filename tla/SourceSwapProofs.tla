------------------------- MODULE SourceSwapProofs -------------------------
(* Safety of the owned source transaction, for every set of workers and    *)
(* every bound on the faults, as long as a running pipeline's lock is      *)
(* refreshed in time ("stall") and no recovery pass meets an acquisition   *)
(* (CalmSpec, an assumption: the code does not secure it).                 *)
EXTENDS SourceSwap, TLAPS


(* Every label the actions go to is one of the declared ones.              *)
LEMMA Labels ==
  /\ "down" \in PCs
  /\ "idle" \in PCs
  /\ "recover" \in PCs
  /\ "scan_lock" \in PCs
  /\ "fetch" \in PCs
  /\ "acquire" \in PCs
  /\ "commit" \in PCs
  /\ "restore" \in PCs
  /\ "clear_lock" \in PCs
  /\ "clear_tmp" \in PCs
  /\ "scan_tmp" \in PCs
  /\ "stamp" \in PCs
  /\ "locked" \in PCs
  /\ "encoding" \in PCs
  /\ "gate" \in PCs
  /\ "swap_check" \in PCs
  /\ "swap_bak" \in PCs
  /\ "swap_new" \in PCs
  /\ "swap_undo" \in PCs
  /\ "confirm" \in PCs
  /\ "finish" \in PCs
  /\ "settle" \in PCs
  /\ "rollback" \in PCs
  /\ "release_tmp" \in PCs
  /\ "release_lock" \in PCs
  BY DEF PCs, MidPass, Holding, Body, Exit

(* The lock file's record, whoever writes it.                              *)
LEMMA LockRecord ==
  ASSUME NEW w \in Worker, NEW a \in BOOLEAN, NEW b \in BOOLEAN
  PROVE  [owner |-> w, written |-> a, fresh |-> b] \in LockFile
  BY Zenon DEF LockFile

(* One step keeps the types.                                              *)
LEMMA TypeStep == TypeOK /\ [Next]_vars => TypeOK'
  <1> SUFFICES ASSUME TypeOK, [Next]_vars PROVE TypeOK'
    OBVIOUS
  <1> USE WorkerAssumption, FaultAssumption, ScansAssumption
      DEF TypeOK, own, Goto, Content, Path
  <1>1. ASSUME NEW w \in Worker, RecoverCheck(w) PROVE TypeOK'
    BY <1>1, Labels DEF RecoverCheck, LockActive
  <1>2. ASSUME NEW w \in Worker, RecoverSkip(w) PROVE TypeOK'
    BY <1>2, Labels DEF RecoverSkip, HandsOff, LockActive
  <1>3. ASSUME NEW w \in Worker, RecoverAttention(w) PROVE TypeOK'
    BY <1>3, Labels DEF RecoverAttention, HandsOff
  <1>4. ASSUME NEW w \in Worker, RecoverRestore(w) PROVE TypeOK'
    BY <1>4, Labels DEF RecoverRestore, Move
  <1>5. ASSUME NEW w \in Worker, RecoverRestoreFails(w) PROVE TypeOK'
    BY <1>5, Labels DEF RecoverRestoreFails, HandsOff, Fault
  <1>6. ASSUME NEW w \in Worker, RecoverNoBackup(w) PROVE TypeOK'
    BY <1>6, Labels DEF RecoverNoBackup
  <1>7. ASSUME NEW w \in Worker, ClearLock(w) PROVE TypeOK'
    BY <1>7, Labels DEF ClearLock, Fault
  <1>8. ASSUME NEW w \in Worker, ClearTmp(w) PROVE TypeOK'
    BY <1>8, Labels DEF ClearTmp, Fault, Delete
  <1>9. ASSUME NEW w \in Worker, ScanLock(w) PROVE TypeOK'
    <2>1. lock' \in LockFile \cup {NoLock}
      BY <1>9, LockRecord DEF ScanLock, Fault, LockActive
    <2>2. pc' \in [Worker -> PCs]
      BY <1>9, Labels DEF ScanLock, Fault, LockActive
    <2>3. scanning' \in [Worker -> BOOLEAN]
      BY <1>9 DEF ScanLock, Fault, LockActive
    <2>4. spent' \in [crash : Nat, call : Nat]
      BY <1>9 DEF ScanLock, Fault, LockActive
    <2> QED
      BY <2>1, <2>2, <2>3, <2>4, <1>9 DEF ScanLock, Fault, LockActive
  <1>10. ASSUME NEW w \in Worker, ScanTmp(w) PROVE TypeOK'
    BY <1>10, Labels DEF ScanTmp, Fault, Delete
  <1>11. ASSUME NEW w \in Worker, Fetch(w) PROVE TypeOK'
    BY <1>11, Labels DEF Fetch
  <1>12. ASSUME NEW w \in Worker, Acquire(w) PROVE TypeOK'
    <2>1. lock' \in LockFile \cup {NoLock}
      BY ZenonT(60), <1>12, LockRecord DEF Acquire
    <2>2. pc' \in [Worker -> PCs]
      BY <1>12, Labels DEF Acquire
    <2>3. mutating' \in [Worker -> BOOLEAN]
      BY <1>12 DEF Acquire
    <2>4. confirmed' \in [Worker -> BOOLEAN]
      BY <1>12 DEF Acquire
    <2>5. cancelled' \in [Worker -> BOOLEAN]
      BY <1>12 DEF Acquire
    <2>6. result' \in [Worker -> {"none", "complete", "failed", "skipped"}]
      BY <1>12 DEF Acquire
    <2> QED
      BY <2>1, <2>2, <2>3, <2>4, <2>5, <2>6, <1>12 DEF Acquire
  <1>13. ASSUME NEW w \in Worker, Stamp(w) PROVE TypeOK'
    <2>1. lock # NoLock => lock.fresh \in BOOLEAN
      BY <1>13 DEF Stamp, LockFile
    <2>2. lock' \in LockFile \cup {NoLock}
      BY <1>13, <2>1, LockRecord DEF Stamp, LockFile
    <2>3. pc' \in [Worker -> PCs]
      BY <1>13, Labels DEF Stamp, LockFile
    <2>4. beat' \in [Worker -> {"off", "on", "writing"}]
      BY <1>13 DEF Stamp, LockFile
    <2>5. result' \in [Worker -> {"none", "complete", "failed", "skipped"}]
      BY <1>13 DEF Stamp, LockFile
    <2> QED
      BY <2>1, <2>2, <2>3, <2>4, <2>5, <1>13 DEF Stamp, LockFile
  <1>14. ASSUME NEW w \in Worker, EncodeStart(w) PROVE TypeOK'
    BY <1>14, Labels DEF EncodeStart, Leave
  <1>15. ASSUME NEW w \in Worker, EncodeEnd(w) PROVE TypeOK'
    BY <1>15, Labels DEF EncodeEnd, Leave, Written
  <1>16. ASSUME NEW w \in Worker, Gate(w) PROVE TypeOK'
    BY <1>16, Labels DEF Gate, Leave
  <1>17. ASSUME NEW w \in Worker, SwapCheck(w) PROVE TypeOK'
    <2>1. pc' \in [Worker -> PCs]
      BY <1>17, Labels DEF SwapCheck, Leave
    <2>2. mutating' \in [Worker -> BOOLEAN]
      BY <1>17 DEF SwapCheck, Leave
    <2>3. result' \in [Worker -> {"none", "complete", "failed", "skipped"}]
      BY <1>17 DEF SwapCheck, Leave
    <2> QED
      BY <2>1, <2>2, <2>3, <1>17 DEF SwapCheck, Leave
  <1>18. ASSUME NEW w \in Worker, SwapBackup(w) PROVE TypeOK'
    BY <1>18, Labels DEF SwapBackup, Leave, Fault, Move
  <1>19. ASSUME NEW w \in Worker, SwapInstall(w) PROVE TypeOK'
    BY <1>19, Labels DEF SwapInstall, Leave, Fault, Move, AfterSwap
  <1>20. ASSUME NEW w \in Worker, SwapUndo(w) PROVE TypeOK'
    BY <1>20, Labels DEF SwapUndo, Leave, Fault, Move
  <1>21. ASSUME NEW w \in Worker, Confirm(w) PROVE TypeOK'
    BY <1>21, Labels DEF Confirm, Leave, Playable
  <1>22. ASSUME NEW w \in Worker, Finish(w) PROVE TypeOK'
    BY <1>22, Labels DEF Finish, Leave, Fault, Delete
  <1>23. ASSUME NEW w \in Worker, Settle(w) PROVE TypeOK'
    BY <1>23, Labels DEF Settle
  <1>24. ASSUME NEW w \in Worker, Rollback(w) PROVE TypeOK'
    BY <1>24, Labels DEF Rollback, Return, Fault, Move
  <1>25. ASSUME NEW w \in Worker, ReleaseTmp(w) PROVE TypeOK'
    BY <1>25, Labels DEF ReleaseTmp, Return, Fault, Delete, LockMatches
  <1>26. ASSUME NEW w \in Worker, ReleaseLock(w) PROVE TypeOK'
    BY <1>26, Labels DEF ReleaseLock, Return, Fault
  <1>27. ASSUME NEW w \in Worker, Commit(w) PROVE TypeOK'
    BY <1>27, Labels DEF Commit
  <1>28. ASSUME NEW w \in Worker, Claim(w) PROVE TypeOK'
    BY <1>28, Labels DEF Claim
  <1>29. ASSUME NEW w \in Worker, BeatCheck(w) PROVE TypeOK'
    BY <1>29, Labels DEF BeatCheck, LockMatches
  <1>30. ASSUME NEW w \in Worker, BeatWrite(w) PROVE TypeOK'
    <2>1. lock' \in LockFile \cup {NoLock}
      BY <1>30, LockRecord DEF BeatWrite, Fault
    <2>2. beat' \in [Worker -> {"off", "on", "writing"}]
      BY <1>30 DEF BeatWrite, Fault
    <2>3. spent' \in [crash : Nat, call : Nat]
      BY <1>30 DEF BeatWrite, Fault
    <2> QED
      BY <2>1, <2>2, <2>3, <1>30 DEF BeatWrite, Fault
  <1>31. ASSUME NEW w \in Worker, Cancel(w) PROVE TypeOK'
    <2>1. fs' \in [Path -> Content]
      BY <1>31 DEF Cancel, Leave, Written
    <2>2. pc' \in [Worker -> PCs]
      BY <1>31, Labels DEF Cancel, Leave, Written
    <2>3. cancelled' \in [Worker -> BOOLEAN]
      BY <1>31 DEF Cancel, Leave, Written
    <2>4. result' \in [Worker -> {"none", "complete", "failed", "skipped"}]
      BY <1>31 DEF Cancel, Leave, Written
    <2> QED
      BY <2>1, <2>2, <2>3, <2>4, <1>31 DEF Cancel, Leave, Written
  <1>32. ASSUME NEW w \in Worker, Crash(w) PROVE TypeOK'
    <2>1. fs' \in [Path -> Content]
      BY <1>32 DEF Crash, Written
    <2>2. pc' \in [Worker -> PCs]
      BY <1>32, Labels DEF Crash, Written
    <2>3. scanning' \in [Worker -> BOOLEAN]
      BY <1>32 DEF Crash, Written
    <2>4. beat' \in [Worker -> {"off", "on", "writing"}]
      BY <1>32 DEF Crash, Written
    <2>5. mutating' \in [Worker -> BOOLEAN]
      BY <1>32 DEF Crash, Written
    <2>6. confirmed' \in [Worker -> BOOLEAN]
      BY <1>32 DEF Crash, Written
    <2>7. cancelled' \in [Worker -> BOOLEAN]
      BY <1>32 DEF Crash, Written
    <2>8. result' \in [Worker -> {"none", "complete", "failed", "skipped"}]
      BY <1>32 DEF Crash, Written
    <2>9. spent' \in [crash : Nat, call : Nat]
      BY <1>32 DEF Crash, Written
    <2> QED
      BY <2>1, <2>2, <2>3, <2>4, <2>5, <2>6, <2>7, <2>8, <2>9, <1>32 DEF Crash, Written
  <1>33. ASSUME NEW w \in Worker, Restart(w) PROVE TypeOK'
    BY <1>33, Labels DEF Restart
  <1>34. CASE LockAges
    BY <1>34, LockRecord DEF LockAges, LockFile
  <1>35. CASE UNCHANGED vars
    BY <1>35 DEF vars
  <1> QED
    BY <1>1, <1>2, <1>3, <1>4, <1>5, <1>6, <1>7, <1>8, <1>9, <1>10, <1>11, <1>12, <1>13, <1>14, <1>15, <1>16, <1>17, <1>18, <1>19, <1>20, <1>21, <1>22, <1>23, <1>24, <1>25, <1>26, <1>27, <1>28, <1>29, <1>30, <1>31, <1>32, <1>33, <1>34, <1>35 DEF Next, RecoveryStep, PipelineStep

(* One step keeps the lock speaking for its transaction.                   *)
LEMMA OwnershipStep ==
  ASSUME "stall" \notin Faults, TypeOK, Ownership, [Next /\ Calm']_vars
  PROVE  Ownership'
  <1>a. Calm' \/ UNCHANGED vars
    OBVIOUS
  <1> USE NoLockAssumption DEF TypeOK, Ownership, own, Goto, MidPass, Holding, Body, Exit
  <1>1. ASSUME NEW w \in Worker, RecoverCheck(w) PROVE Ownership'
    BY <1>1, <1>a DEF RecoverCheck, LockActive, Calm, vars
  <1>2. ASSUME NEW w \in Worker, RecoverSkip(w) PROVE Ownership'
    BY <1>2 DEF RecoverSkip, HandsOff, LockActive
  <1>3. ASSUME NEW w \in Worker, RecoverAttention(w) PROVE Ownership'
    BY <1>3 DEF RecoverAttention, HandsOff
  <1>4. ASSUME NEW w \in Worker, RecoverRestore(w) PROVE Ownership'
    BY <1>4 DEF RecoverRestore, Move
  <1>5. ASSUME NEW w \in Worker, RecoverRestoreFails(w) PROVE Ownership'
    BY <1>5 DEF RecoverRestoreFails, HandsOff, Fault
  <1>6. ASSUME NEW w \in Worker, RecoverNoBackup(w) PROVE Ownership'
    BY <1>6 DEF RecoverNoBackup
  <1>7. ASSUME NEW w \in Worker, ClearLock(w) PROVE Ownership'
    BY <1>7 DEF ClearLock, Fault
  <1>8. ASSUME NEW w \in Worker, ClearTmp(w) PROVE Ownership'
    BY <1>8 DEF ClearTmp, Fault, Delete
  <1>9. ASSUME NEW w \in Worker, ScanLock(w) PROVE Ownership'
    BY <1>9, <1>a DEF ScanLock, Fault, LockActive, Calm, vars
  <1>10. ASSUME NEW w \in Worker, ScanTmp(w) PROVE Ownership'
    BY <1>10 DEF ScanTmp, Fault, Delete
  <1>11. ASSUME NEW w \in Worker, Fetch(w) PROVE Ownership'
    BY <1>11 DEF Fetch
  <1>12. ASSUME NEW w \in Worker, Acquire(w) PROVE Ownership'
    <2>1. CASE lock # NoLock
      BY <1>12, <2>1 DEF Acquire
    <2>2. CASE lock = NoLock
      <3>1. lock' = [owner |-> w, written |-> FALSE, fresh |-> TRUE]
        BY <1>12, <2>2 DEF Acquire
      <3>2. lock' # NoLock
        BY <3>1, LockRecord
      <3> QED
        BY <1>12, <1>a, <2>2, <3>1, <3>2 DEF Acquire, Calm, vars
    <2> QED
      BY <2>1, <2>2
  <1>13. ASSUME NEW w \in Worker, Stamp(w) PROVE Ownership'
    <2>1. lock # NoLock /\ lock.owner = w /\ lock.fresh /\ lock \in LockFile
      BY <1>13 DEF Stamp
    <2>2. lock' \in LockFile /\ lock'.owner = w /\ lock'.fresh /\ lock'.written
      BY <1>13, <2>1, LockRecord DEF Stamp
    <2>3. lock' # NoLock
      BY <2>2
    <2> QED
      BY <1>13, <2>1, <2>2, <2>3 DEF Stamp
  <1>14. ASSUME NEW w \in Worker, EncodeStart(w) PROVE Ownership'
    BY <1>14 DEF EncodeStart, Leave
  <1>15. ASSUME NEW w \in Worker, EncodeEnd(w) PROVE Ownership'
    BY <1>15 DEF EncodeEnd, Leave, Written
  <1>16. ASSUME NEW w \in Worker, Gate(w) PROVE Ownership'
    BY <1>16 DEF Gate, Leave
  <1>17. ASSUME NEW w \in Worker, SwapCheck(w) PROVE Ownership'
    BY <1>17 DEF SwapCheck, Leave
  <1>18. ASSUME NEW w \in Worker, SwapBackup(w) PROVE Ownership'
    BY <1>18 DEF SwapBackup, Leave, Fault, Move
  <1>19. ASSUME NEW w \in Worker, SwapInstall(w) PROVE Ownership'
    BY <1>19 DEF SwapInstall, Leave, Fault, Move, AfterSwap
  <1>20. ASSUME NEW w \in Worker, SwapUndo(w) PROVE Ownership'
    BY <1>20 DEF SwapUndo, Leave, Fault, Move
  <1>21. ASSUME NEW w \in Worker, Confirm(w) PROVE Ownership'
    BY <1>21 DEF Confirm, Leave, Playable
  <1>22. ASSUME NEW w \in Worker, Finish(w) PROVE Ownership'
    BY <1>22 DEF Finish, Leave, Fault, Delete
  <1>23. ASSUME NEW w \in Worker, Settle(w) PROVE Ownership'
    BY <1>23 DEF Settle
  <1>24. ASSUME NEW w \in Worker, Rollback(w) PROVE Ownership'
    BY <1>24 DEF Rollback, Return, Fault, Move
  <1>25. ASSUME NEW w \in Worker, ReleaseTmp(w) PROVE Ownership'
    BY <1>25 DEF ReleaseTmp, Return, Fault, Delete, LockMatches
  <1>26. ASSUME NEW w \in Worker, ReleaseLock(w) PROVE Ownership'
    BY <1>26 DEF ReleaseLock, Return, Fault
  <1>27. ASSUME NEW w \in Worker, Commit(w) PROVE Ownership'
    BY <1>27 DEF Commit
  <1>28. ASSUME NEW w \in Worker, Claim(w) PROVE Ownership'
    BY <1>28 DEF Claim
  <1>29. ASSUME NEW w \in Worker, BeatCheck(w) PROVE Ownership'
    BY <1>29 DEF BeatCheck, LockMatches
  <1>30. ASSUME NEW w \in Worker, BeatWrite(w) PROVE Ownership'
    <2>1. pc[w] \in Holding /\ pc[w] # "stamp"
      BY <1>30 DEF BeatWrite
    <2>2. CASE lock' = [owner |-> w, written |-> TRUE, fresh |-> TRUE]
      <3>1. lock' # NoLock
        BY <2>2, LockRecord
      <3> QED
        BY <1>30, <2>1, <2>2, <3>1 DEF BeatWrite
    <2>3. CASE UNCHANGED lock
      BY <1>30, <2>1, <2>3 DEF BeatWrite
    <2> QED
      BY <1>30, <2>2, <2>3 DEF BeatWrite
  <1>31. ASSUME NEW w \in Worker, Cancel(w) PROVE Ownership'
    BY <1>31 DEF Cancel, Leave, Written
  <1>32. ASSUME NEW w \in Worker, Crash(w) PROVE Ownership'
    BY <1>32 DEF Crash, Written
  <1>33. ASSUME NEW w \in Worker, Restart(w) PROVE Ownership'
    BY <1>33 DEF Restart
  <1>34. CASE LockAges
    BY <1>34 DEF LockAges
  <1>35. CASE UNCHANGED vars
    BY <1>35 DEF vars
  <1> QED
    BY <1>1, <1>2, <1>3, <1>4, <1>5, <1>6, <1>7, <1>8, <1>9, <1>10, <1>11, <1>12, <1>13, <1>14, <1>15, <1>16, <1>17, <1>18, <1>19, <1>20, <1>21, <1>22, <1>23, <1>24, <1>25, <1>26, <1>27, <1>28, <1>29, <1>30, <1>31, <1>32, <1>33, <1>34, <1>35 DEF Next, RecoveryStep, PipelineStep

(* One step keeps an intact copy, and each stage right about the files.    *)
LEMMA FilesStep ==
  ASSUME TypeOK, Ownership, FilesInv, [Next]_vars
  PROVE  FilesInv'
  <1> USE WorkerAssumption
      DEF TypeOK, Ownership, FilesInv, StageInv, OriginalRecoverable, Intact, own, Goto, Path, Content, LockFile, MidPass, Holding, Body, Exit
  <1>1. ASSUME NEW w \in Worker, RecoverCheck(w) PROVE FilesInv'
    BY <1>1 DEF RecoverCheck, LockActive
  <1>2. ASSUME NEW w \in Worker, RecoverSkip(w) PROVE FilesInv'
    BY <1>2 DEF RecoverSkip, HandsOff, LockActive
  <1>3. ASSUME NEW w \in Worker, RecoverAttention(w) PROVE FilesInv'
    BY <1>3 DEF RecoverAttention, HandsOff
  <1>4. ASSUME NEW w \in Worker, RecoverRestore(w) PROVE FilesInv'
    BY <1>4 DEF RecoverRestore, Move
  <1>5. ASSUME NEW w \in Worker, RecoverRestoreFails(w) PROVE FilesInv'
    BY <1>5 DEF RecoverRestoreFails, HandsOff, Fault
  <1>6. ASSUME NEW w \in Worker, RecoverNoBackup(w) PROVE FilesInv'
    BY <1>6 DEF RecoverNoBackup
  <1>7. ASSUME NEW w \in Worker, ClearLock(w) PROVE FilesInv'
    BY <1>7 DEF ClearLock, Fault
  <1>8. ASSUME NEW w \in Worker, ClearTmp(w) PROVE FilesInv'
    BY <1>8 DEF ClearTmp, Fault, Delete
  <1>9. ASSUME NEW w \in Worker, ScanLock(w) PROVE FilesInv'
    BY <1>9 DEF ScanLock, Fault, LockActive
  <1>10. ASSUME NEW w \in Worker, ScanTmp(w) PROVE FilesInv'
    BY <1>10 DEF ScanTmp, Fault, Delete
  <1>11. ASSUME NEW w \in Worker, Fetch(w) PROVE FilesInv'
    BY <1>11 DEF Fetch
  <1>12. ASSUME NEW w \in Worker, Acquire(w) PROVE FilesInv'
    BY <1>12 DEF Acquire
  <1>13. ASSUME NEW w \in Worker, Stamp(w) PROVE FilesInv'
    BY <1>13 DEF Stamp
  <1>14. ASSUME NEW w \in Worker, EncodeStart(w) PROVE FilesInv'
    BY <1>14 DEF EncodeStart, Leave
  <1>15. ASSUME NEW w \in Worker, EncodeEnd(w) PROVE FilesInv'
    BY <1>15 DEF EncodeEnd, Leave, Written
  <1>16. ASSUME NEW w \in Worker, Gate(w) PROVE FilesInv'
    BY <1>16 DEF Gate, Leave
  <1>17. ASSUME NEW w \in Worker, SwapCheck(w) PROVE FilesInv'
    BY <1>17 DEF SwapCheck, Leave
  <1>18. ASSUME NEW w \in Worker, SwapBackup(w) PROVE FilesInv'
    BY <1>18 DEF SwapBackup, Leave, Fault, Move
  <1>19. ASSUME NEW w \in Worker, SwapInstall(w) PROVE FilesInv'
    BY <1>19 DEF SwapInstall, Leave, Fault, Move, AfterSwap
  <1>20. ASSUME NEW w \in Worker, SwapUndo(w) PROVE FilesInv'
    BY <1>20 DEF SwapUndo, Leave, Fault, Move
  <1>21. ASSUME NEW w \in Worker, Confirm(w) PROVE FilesInv'
    BY <1>21 DEF Confirm, Leave, Playable
  <1>22. ASSUME NEW w \in Worker, Finish(w) PROVE FilesInv'
    BY <1>22 DEF Finish, Leave, Fault, Delete
  <1>23. ASSUME NEW w \in Worker, Settle(w) PROVE FilesInv'
    BY <1>23 DEF Settle
  <1>24. ASSUME NEW w \in Worker, Rollback(w) PROVE FilesInv'
    BY <1>24 DEF Rollback, Return, Fault, Move
  <1>25. ASSUME NEW w \in Worker, ReleaseTmp(w) PROVE FilesInv'
    BY <1>25 DEF ReleaseTmp, Return, Fault, Delete, LockMatches
  <1>26. ASSUME NEW w \in Worker, ReleaseLock(w) PROVE FilesInv'
    BY <1>26 DEF ReleaseLock, Return, Fault
  <1>27. ASSUME NEW w \in Worker, Commit(w) PROVE FilesInv'
    BY <1>27 DEF Commit
  <1>28. ASSUME NEW w \in Worker, Claim(w) PROVE FilesInv'
    BY <1>28 DEF Claim
  <1>29. ASSUME NEW w \in Worker, BeatCheck(w) PROVE FilesInv'
    BY <1>29 DEF BeatCheck, LockMatches
  <1>30. ASSUME NEW w \in Worker, BeatWrite(w) PROVE FilesInv'
    BY <1>30 DEF BeatWrite, Fault
  <1>31. ASSUME NEW w \in Worker, Cancel(w) PROVE FilesInv'
    BY <1>31 DEF Cancel, Leave, Written
  <1>32. ASSUME NEW w \in Worker, Crash(w) PROVE FilesInv'
    BY <1>32 DEF Crash, Written
  <1>33. ASSUME NEW w \in Worker, Restart(w) PROVE FilesInv'
    BY <1>33 DEF Restart
  <1>34. CASE LockAges
    BY <1>34 DEF LockAges
  <1>35. CASE UNCHANGED vars
    BY <1>35 DEF vars
  <1> QED
    BY <1>1, <1>2, <1>3, <1>4, <1>5, <1>6, <1>7, <1>8, <1>9, <1>10, <1>11, <1>12, <1>13, <1>14, <1>15, <1>16, <1>17, <1>18, <1>19, <1>20, <1>21, <1>22, <1>23, <1>24, <1>25, <1>26, <1>27, <1>28, <1>29, <1>30, <1>31, <1>32, <1>33, <1>34, <1>35 DEF Next, RecoveryStep, PipelineStep

(* What a single step may never do, from the inductive invariant.          *)
LEMMA StepProperties ==
  ASSUME SafetyInv, Next
  PROVE  BackupKept /\ ReplacedAtCommit /\ NewLockAcquired
  <1> USE WorkerAssumption
      DEF BackupKept, ReplacedAtCommit, NewLockAcquired, SafetyInv, TypeOK, Ownership, FilesInv, StageInv, Intact, own, Goto, Path, Content, MidPass, Holding, Body, Exit
  <1>1. ASSUME NEW w \in Worker, RecoverCheck(w) PROVE BackupKept /\ ReplacedAtCommit /\ NewLockAcquired
    BY <1>1 DEF RecoverCheck, LockActive
  <1>2. ASSUME NEW w \in Worker, RecoverSkip(w) PROVE BackupKept /\ ReplacedAtCommit /\ NewLockAcquired
    BY <1>2 DEF RecoverSkip, HandsOff, LockActive
  <1>3. ASSUME NEW w \in Worker, RecoverAttention(w) PROVE BackupKept /\ ReplacedAtCommit /\ NewLockAcquired
    BY <1>3 DEF RecoverAttention, HandsOff
  <1>4. ASSUME NEW w \in Worker, RecoverRestore(w) PROVE BackupKept /\ ReplacedAtCommit /\ NewLockAcquired
    BY <1>4 DEF RecoverRestore, Move
  <1>5. ASSUME NEW w \in Worker, RecoverRestoreFails(w) PROVE BackupKept /\ ReplacedAtCommit /\ NewLockAcquired
    BY <1>5 DEF RecoverRestoreFails, HandsOff, Fault
  <1>6. ASSUME NEW w \in Worker, RecoverNoBackup(w) PROVE BackupKept /\ ReplacedAtCommit /\ NewLockAcquired
    BY <1>6 DEF RecoverNoBackup
  <1>7. ASSUME NEW w \in Worker, ClearLock(w) PROVE BackupKept /\ ReplacedAtCommit /\ NewLockAcquired
    BY <1>7 DEF ClearLock, Fault
  <1>8. ASSUME NEW w \in Worker, ClearTmp(w) PROVE BackupKept /\ ReplacedAtCommit /\ NewLockAcquired
    BY <1>8 DEF ClearTmp, Fault, Delete
  <1>9. ASSUME NEW w \in Worker, ScanLock(w) PROVE BackupKept /\ ReplacedAtCommit /\ NewLockAcquired
    BY <1>9 DEF ScanLock, Fault, LockActive
  <1>10. ASSUME NEW w \in Worker, ScanTmp(w) PROVE BackupKept /\ ReplacedAtCommit /\ NewLockAcquired
    BY <1>10 DEF ScanTmp, Fault, Delete
  <1>11. ASSUME NEW w \in Worker, Fetch(w) PROVE BackupKept /\ ReplacedAtCommit /\ NewLockAcquired
    BY <1>11 DEF Fetch
  <1>12. ASSUME NEW w \in Worker, Acquire(w) PROVE BackupKept /\ ReplacedAtCommit /\ NewLockAcquired
    BY <1>12 DEF Acquire
  <1>13. ASSUME NEW w \in Worker, Stamp(w) PROVE BackupKept /\ ReplacedAtCommit /\ NewLockAcquired
    BY <1>13 DEF Stamp
  <1>14. ASSUME NEW w \in Worker, EncodeStart(w) PROVE BackupKept /\ ReplacedAtCommit /\ NewLockAcquired
    BY <1>14 DEF EncodeStart, Leave
  <1>15. ASSUME NEW w \in Worker, EncodeEnd(w) PROVE BackupKept /\ ReplacedAtCommit /\ NewLockAcquired
    BY <1>15 DEF EncodeEnd, Leave, Written
  <1>16. ASSUME NEW w \in Worker, Gate(w) PROVE BackupKept /\ ReplacedAtCommit /\ NewLockAcquired
    BY <1>16 DEF Gate, Leave
  <1>17. ASSUME NEW w \in Worker, SwapCheck(w) PROVE BackupKept /\ ReplacedAtCommit /\ NewLockAcquired
    BY <1>17 DEF SwapCheck, Leave
  <1>18. ASSUME NEW w \in Worker, SwapBackup(w) PROVE BackupKept /\ ReplacedAtCommit /\ NewLockAcquired
    BY <1>18 DEF SwapBackup, Leave, Fault, Move
  <1>19. ASSUME NEW w \in Worker, SwapInstall(w) PROVE BackupKept /\ ReplacedAtCommit /\ NewLockAcquired
    BY <1>19 DEF SwapInstall, Leave, Fault, Move, AfterSwap
  <1>20. ASSUME NEW w \in Worker, SwapUndo(w) PROVE BackupKept /\ ReplacedAtCommit /\ NewLockAcquired
    BY <1>20 DEF SwapUndo, Leave, Fault, Move
  <1>21. ASSUME NEW w \in Worker, Confirm(w) PROVE BackupKept /\ ReplacedAtCommit /\ NewLockAcquired
    BY <1>21 DEF Confirm, Leave, Playable
  <1>22. ASSUME NEW w \in Worker, Finish(w) PROVE BackupKept /\ ReplacedAtCommit /\ NewLockAcquired
    BY <1>22 DEF Finish, Leave, Fault, Delete
  <1>23. ASSUME NEW w \in Worker, Settle(w) PROVE BackupKept /\ ReplacedAtCommit /\ NewLockAcquired
    BY <1>23 DEF Settle
  <1>24. ASSUME NEW w \in Worker, Rollback(w) PROVE BackupKept /\ ReplacedAtCommit /\ NewLockAcquired
    BY <1>24 DEF Rollback, Return, Fault, Move
  <1>25. ASSUME NEW w \in Worker, ReleaseTmp(w) PROVE BackupKept /\ ReplacedAtCommit /\ NewLockAcquired
    BY <1>25 DEF ReleaseTmp, Return, Fault, Delete, LockMatches
  <1>26. ASSUME NEW w \in Worker, ReleaseLock(w) PROVE BackupKept /\ ReplacedAtCommit /\ NewLockAcquired
    BY <1>26 DEF ReleaseLock, Return, Fault
  <1>27. ASSUME NEW w \in Worker, Commit(w) PROVE BackupKept /\ ReplacedAtCommit /\ NewLockAcquired
    BY <1>27 DEF Commit
  <1>28. ASSUME NEW w \in Worker, Claim(w) PROVE BackupKept /\ ReplacedAtCommit /\ NewLockAcquired
    BY <1>28 DEF Claim
  <1>29. ASSUME NEW w \in Worker, BeatCheck(w) PROVE BackupKept /\ ReplacedAtCommit /\ NewLockAcquired
    BY <1>29 DEF BeatCheck, LockMatches
  <1>30. ASSUME NEW w \in Worker, BeatWrite(w) PROVE BackupKept /\ ReplacedAtCommit /\ NewLockAcquired
    BY <1>30 DEF BeatWrite, Fault
  <1>31. ASSUME NEW w \in Worker, Cancel(w) PROVE BackupKept /\ ReplacedAtCommit /\ NewLockAcquired
    BY <1>31 DEF Cancel, Leave, Written
  <1>32. ASSUME NEW w \in Worker, Crash(w) PROVE BackupKept /\ ReplacedAtCommit /\ NewLockAcquired
    BY <1>32 DEF Crash, Written
  <1>33. ASSUME NEW w \in Worker, Restart(w) PROVE BackupKept /\ ReplacedAtCommit /\ NewLockAcquired
    BY <1>33 DEF Restart
  <1>34. CASE LockAges
    BY <1>34 DEF LockAges
  <1> QED
    BY <1>1, <1>2, <1>3, <1>4, <1>5, <1>6, <1>7, <1>8, <1>9, <1>10, <1>11, <1>12, <1>13, <1>14, <1>15, <1>16, <1>17, <1>18, <1>19, <1>20, <1>21, <1>22, <1>23, <1>24, <1>25, <1>26, <1>27, <1>28, <1>29, <1>30, <1>31, <1>32, <1>33, <1>34 DEF Next, RecoveryStep, PipelineStep

(* The inductive invariant holds in every reachable state, whatever the    *)
(* number of workers, crashes and failing file-system calls, provided that *)
(* no running pipeline's lock looks stale and no recovery pass meets a     *)
(* lock acquisition.                                                       *)
THEOREM Safety ==
  ASSUME "stall" \notin Faults
  PROVE  CalmSpec => []SafetyInv
  <1>1. Init => SafetyInv
    BY FaultAssumption, Labels
    DEF Init, SafetyInv, TypeOK, Ownership, FilesInv, StageInv, OriginalRecoverable, Intact,
        Path, Content, MidPass, Holding, Body, Exit
  <1>2. SafetyInv /\ [Next /\ Calm']_vars => SafetyInv'
    BY TypeStep, OwnershipStep, FilesStep DEF SafetyInv
  <1> QED
    BY <1>1, <1>2, PTL DEF CalmSpec

(* "Never lose an original": the source path or its backup always holds    *)
(* the original or a fully checked encode (run_pipeline, _atomic_swap,     *)
(* _rollback_swap, _finish and both recovery passes).                      *)
THEOREM OriginalNeverLost ==
  ASSUME "stall" \notin Faults
  PROVE  CalmSpec => []OriginalRecoverable
  BY Safety, PTL DEF SafetyInv, FilesInv

(* No step overwrites a backup (_atomic_swap's refusal).                   *)
THEOREM BackupsSurvive ==
  ASSUME "stall" \notin Faults
  PROVE  CalmSpec => BackupNeverOverwritten
  <1>1. SafetyInv /\ [Next /\ Calm']_vars => [BackupKept]_vars
    BY StepProperties
  <1> QED
    BY <1>1, Safety, PTL DEF CalmSpec, BackupNeverOverwritten

(* A pipeline that returns a result leaves its checked encode in place.    *)
THEOREM ResultsAreReal ==
  ASSUME "stall" \notin Faults
  PROVE  CalmSpec => CompleteIsReplaced
  <1>1. SafetyInv /\ [Next /\ Calm']_vars => [ReplacedAtCommit]_vars
    BY StepProperties
  <1> QED
    BY <1>1, Safety, PTL DEF CalmSpec, CompleteIsReplaced

(* Only an exclusive create makes a lock: no heartbeat revives one.        *)
THEOREM NoLockRevival ==
  ASSUME "stall" \notin Faults
  PROVE  CalmSpec => LockOnlyFromAcquire
  <1>1. SafetyInv /\ [Next /\ Calm']_vars => [NewLockAcquired]_vars
    BY StepProperties
  <1> QED
    BY <1>1, Safety, PTL DEF CalmSpec, LockOnlyFromAcquire

-----------------------------------------------------------------------------
(* A backup that is still there although the source is not missing.        *)

\* The pair of files that _finish leaves when it cannot delete the backup: a checked
\* encode beside the original, and nothing for recovery to restore.
Settled == fs["bak"] # "none" /\ fs["src"] # "none" => fs["src"] = "good"

\* Stages in which the swap has not begun, and those in which it is over.
Before == {"stamp", "locked", "encoding", "gate", "swap_check"}
After  == {"finish", "release_tmp", "release_lock"}

\* The files are settled wherever the next step may remove the lock: nobody has it, its
\* owner died before it wrote it, its owner has not swapped or is done, or a startup scan
\* is about to unlink it; and a pass that clears a lock has put the backup back.
SettledInv ==
    /\ lock = NoLock \/ ~lock.written => Settled
    /\ \A w \in Worker :
         /\ pc[w] \in Before \cup {"swap_bak"} \cup After => Settled
         /\ pc[w] \in Before => ~mutating[w]
         /\ pc[w] \in {"swap_bak", "swap_new", "swap_undo", "confirm"} => mutating[w]
         /\ pc[w] \in {"stamp"} \cup Body => ~confirmed[w]
         /\ pc[w] = "settle" /\ (~mutating[w] \/ confirmed[w]) => Settled
         /\ pc[w] \in {"clear_lock", "clear_tmp"} => fs["bak"] = "none"
         /\ pc[w] \in {"scan_lock", "scan_tmp"} => scanning[w]
         /\ pc[w] = "scan_lock" /\ lock # NoLock /\ (lock.owner = w \/ ~lock.fresh)
               => Settled

(* What the encoder makes of its output leaves a settled pair settled.     *)
LEMMA WrittenSettled ==
  ASSUME NEW w \in Worker, NEW c \in {"good", "bad", "torn"}, TypeOK, fs' = Written(w, c)
  PROVE  /\ Settled => Settled'
         /\ fs["bak"] = "none" => fs'["bak"] = "none"
  BY SMTT(30), WorkerAssumption DEF TypeOK, Written, Settled, Path

(* One step keeps the files settled where the lock may go.                 *)
LEMMA SettledStep ==
  ASSUME "slow_scan" \notin Faults, "scan_restore" \notin Faults,
         TypeOK, Ownership, FilesInv, SettledInv, [Next]_vars
  PROVE  SettledInv'
  <1> USE NoLockAssumption
      DEF TypeOK, Ownership, SettledInv, Settled, Before, After, own, Goto, Path, MidPass,
          Holding, Body, Exit
  <1>1. ASSUME NEW w \in Worker, RecoverCheck(w) PROVE SettledInv'
    BY <1>1 DEF RecoverCheck, LockActive
  <1>2. ASSUME NEW w \in Worker, RecoverSkip(w) PROVE SettledInv'
    BY <1>2 DEF RecoverSkip, HandsOff, LockActive
  <1>3. ASSUME NEW w \in Worker, RecoverAttention(w) PROVE SettledInv'
    BY <1>3 DEF RecoverAttention, HandsOff
  <1>4. ASSUME NEW w \in Worker, RecoverRestore(w) PROVE SettledInv'
    BY <1>4 DEF RecoverRestore, Move
  <1>5. ASSUME NEW w \in Worker, RecoverRestoreFails(w) PROVE SettledInv'
    BY <1>5 DEF RecoverRestoreFails, HandsOff, Fault
  <1>6. ASSUME NEW w \in Worker, RecoverNoBackup(w) PROVE SettledInv'
    BY <1>6 DEF RecoverNoBackup
  <1>7. ASSUME NEW w \in Worker, ClearLock(w) PROVE SettledInv'
    BY <1>7 DEF ClearLock, Fault
  <1>8. ASSUME NEW w \in Worker, ClearTmp(w) PROVE SettledInv'
    BY <1>8 DEF ClearTmp, Fault, Delete
  <1>9. ASSUME NEW w \in Worker, ScanLock(w) PROVE SettledInv'
    BY <1>9 DEF ScanLock, Fault, LockActive
  <1>10. ASSUME NEW w \in Worker, ScanTmp(w) PROVE SettledInv'
    BY <1>10 DEF ScanTmp, Fault, Delete
  <1>11. ASSUME NEW w \in Worker, Fetch(w) PROVE SettledInv'
    BY <1>11 DEF Fetch
  <1>12. ASSUME NEW w \in Worker, Acquire(w) PROVE SettledInv'
    BY <1>12 DEF Acquire
  <1>13. ASSUME NEW w \in Worker, Stamp(w) PROVE SettledInv'
    BY <1>13 DEF Stamp
  <1>14. ASSUME NEW w \in Worker, EncodeStart(w) PROVE SettledInv'
    BY <1>14 DEF EncodeStart, Leave
  <1>15. ASSUME NEW w \in Worker, EncodeEnd(w) PROVE SettledInv'
    <2>1. PICK c \in {"good", "bad", "torn"} : fs' = Written(w, c)
      BY <1>15 DEF EncodeEnd
    <2>2. (Settled => Settled') /\ (fs["bak"] = "none" => fs'["bak"] = "none")
      BY <2>1, WrittenSettled
    <2> HIDE DEF Settled
    <2> QED
      BY <1>15, <2>2 DEF EncodeEnd, Leave
  <1>16. ASSUME NEW w \in Worker, Gate(w) PROVE SettledInv'
    BY <1>16 DEF Gate, Leave
  <1>17. ASSUME NEW w \in Worker, SwapCheck(w) PROVE SettledInv'
    BY <1>17 DEF SwapCheck, Leave
  <1>18. ASSUME NEW w \in Worker, SwapBackup(w) PROVE SettledInv'
    BY <1>18 DEF SwapBackup, Leave, Fault, Move
  <1>19. ASSUME NEW w \in Worker, SwapInstall(w) PROVE SettledInv'
    BY <1>19 DEF SwapInstall, Leave, Fault, Move, AfterSwap
  <1>20. ASSUME NEW w \in Worker, SwapUndo(w) PROVE SettledInv'
    BY <1>20 DEF SwapUndo, Leave, Fault, Move
  <1>21. ASSUME NEW w \in Worker, Confirm(w) PROVE SettledInv'
    BY <1>21 DEF Confirm, Leave, Playable, FilesInv, StageInv
  <1>22. ASSUME NEW w \in Worker, Finish(w) PROVE SettledInv'
    BY <1>22 DEF Finish, Leave, Fault, Delete
  <1>23. ASSUME NEW w \in Worker, Settle(w) PROVE SettledInv'
    BY <1>23 DEF Settle
  <1>24. ASSUME NEW w \in Worker, Rollback(w) PROVE SettledInv'
    BY <1>24 DEF Rollback, Return, Fault, Move
  <1>25. ASSUME NEW w \in Worker, ReleaseTmp(w) PROVE SettledInv'
    BY <1>25 DEF ReleaseTmp, Return, Fault, Delete, LockMatches
  <1>26. ASSUME NEW w \in Worker, ReleaseLock(w) PROVE SettledInv'
    BY <1>26 DEF ReleaseLock, Return, Fault
  <1>27. ASSUME NEW w \in Worker, Commit(w) PROVE SettledInv'
    BY <1>27 DEF Commit
  <1>28. ASSUME NEW w \in Worker, Claim(w) PROVE SettledInv'
    BY <1>28 DEF Claim
  <1>29. ASSUME NEW w \in Worker, BeatCheck(w) PROVE SettledInv'
    BY <1>29 DEF BeatCheck, LockMatches
  <1>30. ASSUME NEW w \in Worker, BeatWrite(w) PROVE SettledInv'
    <2>1. pc[w] \in Holding /\ pc[w] # "stamp"
      BY <1>30 DEF BeatWrite
    <2>2. CASE lock' = [owner |-> w, written |-> TRUE, fresh |-> TRUE]
      <3>1. lock' \in LockFile
        BY <2>2, LockRecord, Zenon
      <3>2. lock' # NoLock
        BY <3>1
      <3> QED
        BY <1>30, <2>1, <2>2, <3>2 DEF BeatWrite
    <2>3. CASE UNCHANGED lock
      BY <1>30, <2>3 DEF BeatWrite
    <2> QED
      BY <1>30, <2>2, <2>3 DEF BeatWrite
  <1>31. ASSUME NEW w \in Worker, Cancel(w) PROVE SettledInv'
    <2>1. (Settled => Settled') /\ (fs["bak"] = "none" => fs'["bak"] = "none")
      BY <1>31, WrittenSettled DEF Cancel
    <2> HIDE DEF Settled
    <2> QED
      BY <1>31, <2>1 DEF Cancel, Leave
  <1>32. ASSUME NEW w \in Worker, Crash(w) PROVE SettledInv'
    <2>1. (Settled => Settled') /\ (fs["bak"] = "none" => fs'["bak"] = "none")
      BY <1>32, WrittenSettled DEF Crash
    <2> HIDE DEF Settled
    <2> QED
      BY <1>32, <2>1 DEF Crash
  <1>33. ASSUME NEW w \in Worker, Restart(w) PROVE SettledInv'
    BY <1>33 DEF Restart
  <1>34. CASE LockAges
    <2>1. lock \in LockFile
      BY <1>34 DEF LockAges
    <2>2. lock' # NoLock /\ lock'.owner = lock.owner /\ lock'.written = lock.written
      <3>1. lock.owner \in Worker /\ lock.written \in BOOLEAN
        BY <2>1 DEF LockFile
      <3>2. lock' = [owner |-> lock.owner, written |-> lock.written, fresh |-> FALSE]
        BY <1>34 DEF LockAges
      <3>3. lock' \in LockFile
        BY <3>1, <3>2, LockRecord, Zenon
      <3> QED
        BY <3>2, <3>3
    <2>3. lock # NoLock /\ \A v \in Worker : pc[v] # "scan_lock"
      BY <1>34 DEF LockAges
    <2> QED
      BY <1>34, <2>2, <2>3 DEF LockAges
  <1>35. CASE UNCHANGED vars
    BY <1>35 DEF vars
  <1> QED
    BY <1>1, <1>2, <1>3, <1>4, <1>5, <1>6, <1>7, <1>8, <1>9, <1>10, <1>11, <1>12, <1>13, <1>14, <1>15, <1>16, <1>17, <1>18, <1>19, <1>20, <1>21, <1>22, <1>23, <1>24, <1>25, <1>26, <1>27, <1>28, <1>29, <1>30, <1>31, <1>32, <1>33, <1>34, <1>35 DEF Next, RecoveryStep, PipelineStep

(* A backup beside a source that nobody has locked is the leftover of a    *)
(* finished swap: an operator who deletes it, as recover_orphaned_backups  *)
(* and the claim-time pass advise, keeps a checked encode.  A failing      *)
(* restore in the scan, or a scan that outlasts the stale window, would    *)
(* let the scan unlink the lock of an unfinished swap.                     *)
THEOREM UnlockedMeansFinished ==
  ASSUME "stall" \notin Faults,
         "slow_scan" \notin Faults, "scan_restore" \notin Faults
  PROVE  CalmSpec => []UnlockedBackupFinished
  <1>1. Init => SettledInv
    BY DEF Init, SettledInv, Settled, Before, After, Body, Path
  <1>2. SafetyInv /\ SettledInv /\ [Next /\ Calm']_vars => SettledInv'
    BY SettledStep DEF SafetyInv
  <1>3. SettledInv => UnlockedBackupFinished
    BY DEF SettledInv, Settled, UnlockedBackupFinished
  <1> QED
    BY <1>1, <1>2, <1>3, Safety, PTL DEF CalmSpec
=============================================================================
