CONSTANTS
    None = None
    Job = {j1}
    S3 = {j1}
    Poison = {}
    PoisonAttempts = 2
    Faults = {"disk", "auth"}
    MaxFaults = 2
    MaxClaims = 2
SPECIFICATION Spec
INVARIANTS
    NoReportDropped
    ChainInOrder
    ReleasedOnlyExhausted
PROPERTIES
    ChannelSpec
