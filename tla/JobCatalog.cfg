CONSTANTS
    None = None
    Job = {j1, j2}
    File = {f1}
    Worker = {w1, w2}
    Token = {t1, t2}
    Handler = {h1, h2}
    S3 = {}
    Legacy = {}
    Seasoned = {w1, w2}
    Interleaved = {}
    Faults = {}
    MaxFaults = 1
    MaxRequests = 3
SPECIFICATION Spec
SYMMETRY InterchangeableFleet
INVARIANTS
    RowClaimsLiveJob
PROPERTIES
    TerminalFixed
    WorkKept
    LedgerSpec
CHECK_DEADLOCK FALSE
