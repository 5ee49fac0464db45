SPECIFICATION FairSpec
CONSTANTS
    p1 = p1
    p2 = p2
    f = f
    None = None
    Calls1 = {t1, t2, t3, t4}
    Calls2 = {u1}
    Task <- Tasks
    Proc = {p1, p2}
    Profile = {f}
    Home <- Homes
    Target <- Targets
    CancelAt <- Anywhere
    Mortal = {p2}
INVARIANTS
    OneBrowserPerProfile
    SessionsAreAlive
PROPERTIES
    ImplementsExclusiveProfiles
    EveryCallEnds
    LocksComeFree
CHECK_DEADLOCK FALSE
