SPECIFICATION FairSpec
CONSTANTS
    home = home
    Home = home
    Scopes = {home}
    Path <- OneScope
    Capabilities = {1, 2, 3}
    Definitions <- HostDefinitions
    Publishers = {h}
    MaxEntries = 12
    MaxWithdrawn = 2
    None = None
    Fibers = {1, 2}
    Provides <- Chain
    MaxMutations = 2
    MaxCalls = 1
INVARIANTS NothingLeftBehind
PROPERTIES NoStalePublication DependentsFirst CoordinatorReturns
CHECK_DEADLOCK FALSE
