SPECIFICATION Spec
CONSTANTS
    HostUser = {h1, h2}
    Owned = {d1}
    Value = {0, 1}
PROPERTIES
    HostTableUntouched
