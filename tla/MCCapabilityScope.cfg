SPECIFICATION Spec
CONSTANTS
    root = root
    inner = inner
    Scopes = {root, inner}
    Path <- RootAndChild
    Capabilities = {1, 2, 3}
    Definitions <- RingAndChild
    Publishers = {p1, p2}
    MaxEntries = 5
    MaxWithdrawn = 1
    None = None
SYMMETRY PublisherSymmetry
INVARIANTS VisibleGraphsResolve RootTeardownFindsOrder
PROPERTIES NoStalePublication
CHECK_DEADLOCK FALSE
