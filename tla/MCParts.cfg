\* Five parts, one at a time.  Requests, captures, attempts and traces end.
CONSTANTS
    Parts = {"registry", "captures", "attempts", "pods", "traces"}
    u1 = u1
    u2 = u2
    s1 = s1
    g1 = g1
    g2 = g2
    a1 = a1
    a2 = a2
    p1 = p1
    p2 = p2
    x1 = x1
    x2 = x2
    t1 = t1
    t2 = t2
    i1 = i1
    i2 = i2
    h1 = h1
    h2 = h2
    None = None
    Users = {u1, u2, s1}
    Supers = {s1}
    Groups = {g1, g2}
    MemberOf <- MCMemberOf
    Apps = {a1, a2}
    Projects = {p1, p2}
    Requests <- MCRequests
    Cases <- MCCases
    Agents = {x1, x2}
    Tokens = {t1, t2}
    Instances = {i1, i2}
    Hosts = {h1, h2}
    MaxFaults = 1
    o1 = o1
    o2 = o2
    Nobody = Nobody
    Ops <- MCOps
    Kind <- MCKind
    Stops <- MCStops
    MaxFiles = 0
    MaxClock = 1
    k1 = k1
    k2 = k2
    Keys = {k1, k2}
    Limit = 2
    Window = 1
    SweepAt = 2
    MaxTime = 3
    MaxTries = 6
    Pods <- MCPods
    Hashlike <- MCHashlike
    SpanAttrs <- MCSpanAttrs
    MaxCopies = 2
    Everything = Everything
    Traces <- MCTraces
    Filters <- MCFilters
    Scopes <- MCScopes
    MaxBlocks = 3
    MaxHotspots = 2
    Pad = 1
    Day = 8
SPECIFICATION PartsSpec
CHECK_DEADLOCK FALSE
INVARIANTS
    ScopeFromSaves
    TokenGoesHome
    StopMeetsCapture
    AnswerHasFile
    AttemptsLimited
    InjectedOnce
    DimensionsArrive
    SearchFaithful
    ViewAddsUp
PROPERTIES
    AgentsSettle
    CaptureEnds
