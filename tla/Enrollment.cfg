SPECIFICATION FairEnrollment
CONSTANTS
    Person = {p1, p2}
    Nobody = Nobody
    Ttl = 1
    Interval = 1
    MergeGap = 1
    MaxEmbeddings = 2
    MaxTracks = 2
INVARIANTS
    NothingNamesErased
    EventsNameWhoWasSeen
PROPERTIES
    CameraCatchesUp
CHECK_DEADLOCK FALSE
