SPECIFICATION EngineSpec
CONSTANTS
    Tracks = {"p", "b"}
    Sights <- MCSights
    Specs <- MCSpecs
    MaxInterval = 2
    MaxTime = 4
    None = None
INVARIANTS
    EventsJustified
    ReportedOnce
    NothingMissed
CHECK_DEADLOCK FALSE
