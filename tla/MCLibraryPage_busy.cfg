SPECIFICATION FairPageSpec
CONSTANTS
    u1 = u1
    u2 = u2
    r1 = r1
    r2 = r2
    User <- MCUser
    LinkId = {1, 2}
    Request <- MCRequest
    Value = {1, 2}
    Calls <- BusyPageCalls
    Seeds <- SeedOneLink
    Leavers <- MCLeavers
    Faults = TRUE
    Nobody = Nobody
    NoLink = NoLink
    NoCall = NoCall
    Visitor = u1
    Patient = FALSE
INVARIANTS
    PageTypeOK
    NoGhosts
PROPERTIES
    OnlyDeletedLeave
    EveryRequestAnswered
