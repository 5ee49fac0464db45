SPECIFICATION FairSpec
CONSTANTS
    Openings = {i1}
    Lists = {}
    Notes = {}
    Calls = {c1, c2}
    Request <- Requests
    Kind <- Kinds
    MaxDaemons = 3
    Silence = TRUE
    RefuseAt <- Refusals
    CancelAt <- Awaiting
INVARIANTS
    LossesArePending
PROPERTIES
    ReportedOnce
    CallsEnd
CHECK_DEADLOCK FALSE
