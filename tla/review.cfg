SPECIFICATION Spec
CONSTANTS
    p1 = p1
    p2 = p2
    x = x
    clash = clash
    gap = gap
    v1 = v1
    v2 = v2
    r1 = r1
    r2 = r2
    None = None
    Policies = {p1, p2}
    Obligations = {x}
    Conflicts = {clash, gap}
    Reviews = {v1, v2}
    Requests = {r1, r2}
    PolicyOf <- MCPolicyOf
    Source <- MCSource
    Target <- MCTarget
    Severity <- MCSeverity
    Missing = {gap}
    Revisions <- MCRevisions
    TTL = 2
    MaxTime = 2
CONSTRAINT FewEvents
CHECK_DEADLOCK FALSE
INVARIANTS
    TrailTellsDecision
    ServedScoreIsRecent
PROPERTIES
    ScoresMoveTheRightWay
