SPECIFICATION Spec
CONSTANTS
    p1 = p1
    p2 = p2
    p3 = p3
    Proxy <- Proxies
    MinTtl = 2
    MaxTtl = 2
    MaxLeases = 2
    AskedTtl = {1}
    MaxClock = 5
    Ttl = 2
    Interval = 1
    Slack = 1
    WallSteps <- Steps
    MaxInflight = 1
    MaxSessions = 1
SYMMETRY Symmetry
INVARIANTS
    TypeOK
    NoProxyMisled
    NeverOverstays
PROPERTIES
    ImplementsEagerLeases
    ClosesOnlyWhenUnneeded
CHECK_DEADLOCK FALSE
