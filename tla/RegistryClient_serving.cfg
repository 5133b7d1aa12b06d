SPECIFICATION FairSpec
CONSTANTS
    Interval = 12
    TokenTimeout = 2
    ThreadLife = 24
    MaxVersion = 3
INVARIANTS
    RInv
    LogTellsWhatIsServed
    FewThreads
    NoFetchOnClosedClient
PROPERTIES
    NavNeverDegrades
    NavCatchesUp
    ShutdownEnds
