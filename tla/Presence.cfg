SPECIFICATION Spec
CONSTANTS
    MergeGap = 2
    MaxAge = 2
    MotionGate = TRUE
    MaxInterval = 3
    MaxTime = 6
    MaxTracks = 2
    MaxFaults = 1
    MaxLives = 2
INVARIANTS
    SightingsAccounted
    StoreFollowsEvents
PROPERTIES
    ImplementsLog
CHECK_DEADLOCK FALSE
