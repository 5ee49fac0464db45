SPECIFICATION Spec
CONSTANTS
    c1 = c1
    c2 = c2
    c3 = c3
    Calls <- ThreeCalls
    Urls = {"u1", "u2"}
    MaxTabs = 3
    MaxDialogs = 2
    Busy = {1, 2}
    Restless = {1}
SYMMETRY Symmetry
INVARIANTS
    ActiveIsOpen
    DialogCanBeAnswered
    
CHECK_DEADLOCK FALSE
