SPECIFICATION Spec
CONSTANTS
    u1 = u1
    u2 = u2
    r1 = r1
    r2 = r2
    User <- MCUser
    LinkId = {1, 2, 3}
    Request <- MCRequest
    Value = {1, 2, 3}
    Calls <- RegroupCalls
    Seeds <- SeedThreeCategories
    Leavers = {}
    Faults = FALSE
    Nobody = Nobody
    NoLink = NoLink
    NoCall = NoCall
INVARIANTS
    CategoriesAreContiguous
