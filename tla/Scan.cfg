CONSTANTS
    Path = {1, 2}
    Backends = {"filesystem", "s3"}
    Interval = 1
    MaxChanges = 1
    MaxFaults = 1
    MaxManual = 1
    Busy = {1}
SPECIFICATION FairSpec
INVARIANTS
    RunningRowHasTask
PROPERTIES
    PruneSpares
    ScheduledApart
    CatalogSettles
