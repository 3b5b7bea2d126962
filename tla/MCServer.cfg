SPECIFICATION Spec
CONSTANTS
    coder = coder
    alias = alias
    other = other
    cloud = cloud
    local = local
    ghost = ghost
    front = front
    back = back
    key = key
    wrong = wrong
    Slots = {s1, s2}
    Nobody = Nobody
    NoBackend = NoBackend
    Unset = Unset
    Unparsed = Unparsed
    MaxRequests = 4
    Models <- MCModels
    Backends <- MCBackends
    Routes <- MCRoutes
    Configs <- MCConfigs
    DefaultFallbacks <- MCDefaultFallbacks
    DefaultRetry <- MCDefaultRetry
    ApiKeys <- MCApiKeys
    HeaderNames <- MCHeaderNames
    HeaderLists <- MCHeaderLists
    Gates <- MCGates
    Statuses <- MCStatuses
SYMMETRY InFlight
INVARIANTS
    ServerTypeOK
    SelectorsFollowRoutes
    RoundRobinFair
    WeightlessIdle
    TableAddsUp
    UnknownBackendIsRuntime
    AliasTransparent
PROPERTIES
    NeverPreempted
    OnlyKeyHoldersChangeRoutes
CHECK_DEADLOCK FALSE
