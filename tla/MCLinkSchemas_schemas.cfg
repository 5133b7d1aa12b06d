SPECIFICATION Spec
CONSTANTS
    MaxLength <- SmallLimits
    Payloads <- MCPayloads
    Null = Null
    NoLink = NoLink
    NoCall = NoCall
INVARIANTS
    StoredReadsBack
    ShownIsStored
    SurfacesAgree
