SPECIFICATION Spec
CONSTANTS
    s1 = s1
    s2 = s2
    l1 = l1
    l2 = l2
    old = old
    beta = beta
    Server <- MCServer
    Builds = {old, beta}
    Supported = {beta}
    Newest = beta
    NoBuild = NoBuild
    Machines <- MCMachines
    Launch <- MCLaunch
    Home <- MCHome
    NoFile = NoFile
    Launching <- MCLaunching
    HangsUp = FALSE
INVARIANT CacheIsWhole
CHECK_DEADLOCK FALSE
