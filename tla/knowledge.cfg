SPECIFICATION Spec
CONSTANTS
    o1 = o1
    o2 = o2
    r1 = r1
    r2 = r2
    l1 = l1
    None = None
    Obligations = {o1, o2}
    Remaps = {r1, r2}
    Listings = {l1}
    FirstRule <- MCFirstRule
    ModelAnswers <- MCAnswers
CHECK_DEADLOCK FALSE
CONSTRAINT TwoAtATime
INVARIANTS
    FrameworksAreWhole
    SeedingIsIdempotent
    MappedInTheEnd
    MappingsAreHonest
PROPERTY
    SeedsThenMaps
