SPECIFICATION Spec
CONSTANTS
    u1 = u1
    u2 = u2
    u3 = u3
    u4 = u4
    acme = acme
    default = default
    Upload = {u1, u2, u3, u4}
    CompanyName = {acme, default}
    DefaultName = default
    GivesUserId = {u2}
    NameOf <- MCNameOf
    LookupOf <- MCLookupOf
INVARIANTS
    FailedUploadLeavesNothing
CHECK_DEADLOCK FALSE
