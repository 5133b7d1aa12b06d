SPECIFICATION Spec
CONSTANTS
    u1 = u1
    u2 = u2
    r1 = r1
    r2 = r2
    User <- MCUser
    LinkId = {1, 2}
    Request <- MCRequest
    Value = {1, 2}
    Calls <- RequestCalls
    Seeds <- SeedSomeLinks
    Leavers <- MCLeavers
    Faults = TRUE
    Nobody = Nobody
    NoLink = NoLink
    NoCall = NoCall
SYMMETRY RequestSymmetry
INVARIANTS
    IInv
    ForeignKeys
    PrimaryKeys
    OnlyOwnRows
    DeletedForGood
    NotFoundIsFinal
    OwnEffectShown
PROPERTIES
    NoResurrection
    WritesStayWithinCall
    ImplementsStore
