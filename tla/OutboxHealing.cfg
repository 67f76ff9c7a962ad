CONSTANTS
    None = None
    Job = {j1, j2}
    S3 = {j1}
    Poison = {"register_derivative"}
    PoisonAttempts = 2
    Faults = {}
    MaxFaults = 1
    MaxClaims = 2
SPECIFICATION FairSpec
INVARIANTS
    OneAttemptPending
PROPERTIES
    PendingNotAbandoned
    EventuallyDelivered
