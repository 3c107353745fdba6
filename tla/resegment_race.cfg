SPECIFICATION LifecycleSpec
CONSTANTS
    r1 = r1
    r2 = r2
    r3 = r3
    d1 = d1
    d2 = d2
    original = original
    nobody = nobody
    Resegment = {r1, r2}
    Delete = {d1, d2}
    Original = original
    Nobody = nobody
    Rank <- MCRank
INVARIANTS
    DeletedPolicyShowsNoClauses
CHECK_DEADLOCK FALSE
