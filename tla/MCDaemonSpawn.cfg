SPECIFICATION FairSpec
CONSTANTS
    Ours = {p1, p2}
    Theirs = {q1}
    NoOne = NoOne
    Proxy <- Proxies
    Code <- Codes
    MaxDaemons = 3
    Stalls = FALSE
    Slow = FALSE
    KillAt <- BeforeSpawning
    Pauses = FALSE
INVARIANTS
    OneDaemon
    Advertised
PROPERTIES
    LockComesFree
CHECK_DEADLOCK FALSE
