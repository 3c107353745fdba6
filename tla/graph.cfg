SPECIFICATION Spec
CONSTANTS
    p1 = p1
    p2 = p2
    a = a
    a2 = a2
    b = b
    x = x
    y = y
    r = r
    clash = clash
    gap = gap
    s1 = s1
    s2 = s2
    None = None
    Policies = {p1, p2}
    Clauses = {a, a2, b}
    Obligations = {x, y}
    Conflicts = {clash, gap}
    Regulations = {r}
    Syncs = {s1, s2}
    PolicyOf <- MCPolicyOf
    ClauseOf <- MCClauseOf
    Source <- MCSource
    Target <- MCTarget
    Parties <- MCParties
    Relation <- MCRelation
SYMMETRY SyncSymmetry
CONSTRAINT FewRows
CHECK_DEADLOCK FALSE
INVARIANTS
    BothEndsLinked
    GraphAgreesWithRows
