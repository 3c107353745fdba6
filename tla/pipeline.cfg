SPECIFICATION FairSpec
CONSTANTS
    p1 = p1
    p2 = p2
    p3 = p3
    p4 = p4
    acme = acme
    globex = globex
    c1 = c1
    c2 = c2
    c3 = c3
    c4 = c4
    nil = nil
    Policy = {p1, p2, p3, p4}
    Company = {acme, globex}
    Clause = {c1, c2, c3, c4}
    NoClause = nil
    CompanyOf <- MCCompanyOf
    PolicyOf <- MCPolicyOf
    SegmentationOf <- MCSegmentationOf
    Score <- MCScore
    TargetMatch <- MCTargetMatch
    SameTerms <- MCSameTerms
INVARIANTS
    OneOrientationExact
    RereadCoversRead
    AuditedExtractionIsComplete
    ComparisonIsAtomic
    ConflictsAreWellFounded
PROPERTIES
    ObligationsSettle
    ThreadsWindDown
    ThreadEnds
    EveryPairReported
CONSTRAINT
    FewThreads
CHECK_DEADLOCK FALSE
