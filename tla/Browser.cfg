SPECIFICATION FairSpec
CONSTANTS
    Call = {c1}
    MaxPairs = 3
    MaxReloads = 1
INVARIANTS
    ScreenTellsSession
PROPERTIES
    SessionKept
    CallsEnd
CHECK_DEADLOCK FALSE
