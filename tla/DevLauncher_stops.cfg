SPECIFICATION FairSpec
CONSTANT MaxPresses = 2
INVARIANTS
    NoChildIsLeft
PROPERTIES
    OneDownAllDown
    CtrlCEndsIt
    CtrlCEndsTheWatcher
CHECK_DEADLOCK FALSE
