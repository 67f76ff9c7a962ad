CONSTANTS
    None = None
    Job = {j1}
    File = {f1}
    Worker = {w1, w2}
    Token = {t1, t2}
    Handler = {h1, h2}
    S3 = {f1}
    Legacy = {w2}
    Seasoned = {w1, w2}
    Interleaved = {"release", "queue_paths", "queue_commit", "retry_job", "retry_media", "cancel_media", "cancel_jobs"}
    Faults = {"unhandled", "poison"}
    MaxFaults = 1
    MaxRequests = 2
SPECIFICATION Spec
SYMMETRY Interchangeable
INVARIANTS
    OutcomeFromLatestAttempt
PROPERTIES
    ProgressFenced
CHECK_DEADLOCK FALSE
