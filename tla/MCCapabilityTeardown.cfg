SPECIFICATION Spec
CONSTANTS
    root = root
    inner = inner
    Scopes = {root, inner}
    Path <- RootAndChild
    Capabilities = {1, 2, 3}
    Definitions <- RingAndChild
    Publishers = {p1}
    MaxEntries = 5
    MaxWithdrawn = 0
    None = None
INVARIANT TeardownNeverPanics
CHECK_DEADLOCK FALSE
