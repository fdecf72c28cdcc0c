SPECIFICATION Spec
CONSTANTS
    t1 = t1
    t2 = t2
    ba = ba
    bb = bb
    Tenants = {t1, t2}
    Bots = {ba, bb}
    BotTenant <- MCBotTenant
    Dids = {d1}
    FirstTenant <- MCFirstTenant
    FirstDid <- MCFirstDid
    RuleShapes <- MCRuleShapes
    Priorities = {1, 2}
    Moments <- MCMoments
    DayLength = 3
    Callers = {p1}
    PrefixOf <- MCPrefixOf
    InboundCalls = {i1}
    Requests = {q1, q2}
    MaxRouteEdits = 2
    MaxRules = 2
    MaxRouteFaults = 1
    MaxArrivals = 2
    Trunks = {tr1, tr2}
    Endpoints = {e1, e2, e3}
    Passwords = {w1, w2}
    Admins = {a1, a2}
    MaxTrunkEdits = 4
    Feeders = {f1, f2}
    SilenceGap = 2
    DecisionWindow = 8
    MinDecision = 3
    MachineBurst = 5
    HumanBurst = 2
    RatioNum = 3
    RatioDen = 4
    AmdActions = {"hangup", "drop_message"}
    MaxAmdFaults = 1
    MaxBotEdits = 1
    InBuffer = 1
    OutBuffer = 1
    MemoryCap = 2
    MaxFrames = 2
    MaxChunks = 2
    MaxDiskFaults = 1
    Recording = {TRUE, FALSE}
INVARIANTS RoutingInv TrunkInv AmdInv SocketInv
PROPERTIES InboundRowsAreClosed MachineIsHungUp CancelledSessionCloses
CHECK_DEADLOCK FALSE
