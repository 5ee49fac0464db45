SPECIFICATION ObservationSpec
CONSTANTS
    c1 = c1
    c2 = c2
    c3 = c3
    u1 = u1
    u2 = u2
    t1 = t1
    t2 = t2
    Calls <- ThreeCalls
    ToolOf <- Tools
    Addresses = {u1, u2}
    Titles = {t1, t2}
    Serial = TRUE
    MaxReq = 2
SYMMETRY Symmetry
INVARIANTS
    ReadsWhereItLed
    BaselineIsTold
PROPERTIES
    LineIsNews
CHECK_DEADLOCK FALSE
