SPECIFICATION Spec
CONSTANTS
    u1 = u1
    u2 = u2
    r1 = r1
    r2 = r2
    User <- MCUser
    LinkId = {1, 2}
    Request <- MCRequest
    Value = {1, 2}
    Calls <- EditCalls
    Seeds <- SeedTwoLinks
    Leavers = {}
    Faults = FALSE
    Nobody = Nobody
    NoLink = NoLink
    NoCall = NoCall
INVARIANTS
    MissingLinkIsNoServerError
