SPECIFICATION FairSpec
CONSTANTS
    Runner = {r1, r2}
    Releases = {1, 2, 3}
    Starts = {0, 1, 2}
    Downgrades = {0, 1}
INVARIANTS
    TypeOK
    VersionTellsTables
    ServedTablesExist
PROPERTIES
    ReleasesOnlyAdd
    EveryRunEnds
