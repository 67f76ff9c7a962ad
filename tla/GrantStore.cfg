CONSTANTS
    None = None
    Unmarked = Unmarked
    Txn = {t1}
    Grant = {g1, g2}
    Handler = {h1, h2}
    Dialects = {"sqlite", "postgres"}
    MaxPairs = 2
    MaxPages = 1
    MaxFaults = 1
    MaxRequests = 6
    Ops = {"authorize", "consent", "code", "refresh", "verify", "revoke_token", "revoke_grant", "disable", "allow", "manual", "block"}
SPECIFICATION Spec
SYMMETRY Interchangeable
INVARIANTS
    DecisionOnce
    RevocationDurable
PROPERTIES
    ChainSpec
CHECK_DEADLOCK FALSE
