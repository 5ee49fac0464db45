SPECIFICATION Spec
CONSTANTS
    t1 = t1
    t2 = t2
    c1 = c1
    c2 = c2
    c3 = c3
    Tabs <- TwoTabs
    Calls <- ThreeCalls
    Kind <- ThreeKinds
    Elements = {1}
    UidBlock = 1
    MaxDocuments = 3
    Busy <- OneTab
PROPERTIES
    UidsLastAsLongAsTheDocument
CHECK_DEADLOCK FALSE
