SPECIFICATION Spec
CONSTANTS
    Req = {r1, r2}
    MaxAttempts = 2
    LockFor = 1
    AccessTtl = 1
    RefreshTtl = 2
    MaxTokens = 3
    MaxSecrets = 2
    MaxRequests = 6
    MaxTime = 3
INVARIANTS
    OneSuccessor
    SignOutHolds
    
PROPERTIES
    LockoutHolds
CHECK_DEADLOCK FALSE
