SPECIFICATION Spec
CONSTANTS
    Run = {w1, w2}
    App = {a1, a2}
    Lock = {l1}
    Pin = 1
    MaxRelease = 2
    Latest = Latest
    None = None
INVARIANTS
    ServedWasTested
    StylesAsTested
