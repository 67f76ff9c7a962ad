CONSTANTS
    None = None
    Job = {j1}
    File = {f1}
    Worker = {w1}
    Token = {t1, t2}
    Handler = {h1}
    S3 = {}
    Legacy = {}
    Seasoned = {w1}
    Interleaved = {"release", "queue_paths", "queue_commit", "retry_job", "retry_media", "cancel_media", "cancel_jobs"}
    Faults = {}
    MaxFaults = 2
    MaxRequests = 2
SPECIFICATION FairSpec
PROPERTIES
    StrandedRequeued
CHECK_DEADLOCK FALSE
