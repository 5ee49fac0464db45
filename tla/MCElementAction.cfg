SPECIFICATION ActionSpec
CONSTANTS
    c1 = c1
    c2 = c2
    c3 = c3
    c4 = c4
    Elements = {"x", "y", "b", "s", "f"}
    Kind <- Kinds
    Calls <- FourCalls
    Tool <- Tools
    Fields <- Forms
    Selected = {c3}
    Wanted <- Checked
    Secrets = {"s"}
    Telling = {}
    Keys = 2
    Cancels = {c1}
    Made = 2
    Unrest = 2
INVARIANTS
    FailureNamesTheField
    RecordsWhatItMay
PROPERTIES
    ClicksWhatItNames
    FilledAsAsked
CHECK_DEADLOCK FALSE
