SPECIFICATION ProgramSpec
CONSTANTS
    k1 = k1
    k2 = k2
    c1 = c1
    c2 = c2
    c3 = c3
    None = None
    Keys = {k1, k2}
    Conns = {c1, c2, c3}
    Max = 1
    r1 = r1
    Relays = {r1}
    MaxChunks = 2
    e1 = e1
    e2 = e2
    Children = {e1, e2}
    NoChild = NoChild
    n1 = n1
    n2 = n2
    Insts = {n1, n2}
    Snat = {n1, n2}
    Marked = {n1}
    TargetOf <- MCTargetOf
    MaxHandle = 4
    a1 = a1
    AnyAddr = AnyAddr
    p1 = p1
    p2 = p2
    p3 = p3
    p4 = p4
    Procs = {p1, p2, p3, p4}
    Addr <- MCAddr
    Servers <- MCServers
    NoMapping = NoMapping
    MaxTx = 4
    MaxOuter = 2
    h1 = h1
    h2 = h2
    h3 = h3
    Hosts = {h1, h2, h3}
    Router = h1
    NoHost = NoHost
    MaxReplies = 3
    MaxDoublings = 2
    MaxLocations = 2
    MaxSources = 2
    STUNServers <- MCSTUNServers
    Ports = {1, 2}
    NoResult = NoResult
    MaxQueries = 3
    MaxParts = 2
    Threshold = 3
    Delay = 1
    Retry = 2
INVARIANTS
    NoSocketLeaks
    TableIsServed
    SocketsBounded
    NothingCutOff
    NothingRunsOn
    RulesCounted
    RunningIsComplete
    SplitOnlyByRace
    MappingIsSound
    FailsAfterAll
    RouterIsAsked
    NothingForgotten
    NeverTooGood
    TypeIsRight
    SuccessIsFresh
    WarningIsRight
PROPERTIES
    StopFreesAll
    SilentGivesWay
    RelaysEnd
    StopReturns
CHECK_DEADLOCK FALSE
