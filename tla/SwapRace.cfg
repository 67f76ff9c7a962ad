CONSTANTS
    NoLock = NoLock
    w1 = w1
    w2 = w2
    Worker = {w1, w2}
    Scans = {w1, w2}
    Faults = {}
    MaxFaults = 1
SPECIFICATION Spec
INVARIANT
    MutualExclusion
