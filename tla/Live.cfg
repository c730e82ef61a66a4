SPECIFICATION FairSpec
CONSTANTS
    Cameras = {c1, c2}
    Handlers = {h1, h2}
    Procs = {p1, p2}
    IdleTimeout = 1
    MaxDuration = 2
    TicketLife = 1
    None = None
INVARIANTS
    LostOnlyByOverlap
    ExitLeavesOnlyDoomed
    EndInTime
PROPERTIES
    StaleStreamsEnd
CHECK_DEADLOCK FALSE
