CONSTANTS
    NoLock = NoLock
    w1 = w1
    w2 = w2
    Worker = {w1, w2}
    Scans = {w1}
    Faults = {"rename", "unlink"}
    MaxFaults = 3
SPECIFICATION FairSpec
INVARIANTS
    SafetyInv
    OriginalRecoverable
    UnlockedBackupFinished
PROPERTIES
    BackupNeverOverwritten
    CompleteIsReplaced
    LockOnlyFromAcquire
    MissingSourceRestored
    LockEventuallyReleased
