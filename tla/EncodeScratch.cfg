CONSTANTS
    Lo = 16
    Hi = 20
    Sources <- MCSources
    Jobs <- MCJobs
    Capacity = 2
SPECIFICATION Spec
INVARIANT
    ScratchReleased
