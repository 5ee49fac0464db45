SPECIFICATION Spec
CONSTANTS
    MaxEntries = 2
    Overlap = FALSE
    Early = FALSE
    MaxRequests = 5
    MaxMessages = 3
    MaxDocuments = 3
INVARIANTS
    RetiresOnlyTheReplaced
    OnlyBoundsForget
    AwaitsEveryCommit
CHECK_DEADLOCK FALSE
