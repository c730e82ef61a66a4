SPECIFICATION FairStore
CONSTANTS
    Camera <- MCCamera
    EventDays = 1
    SnapshotDays = 0
    AuditDays = 1
    Chunk = 1
    Page = 1
    Day = 2
    Scan = 1
    Markers = 1
    ExportRows = 1
    MaxEvents = 2
    MaxAudit = 1
    Views <- MCViews
    MaxTime = 3
    MaxFaults = 1
INVARIANTS
    SnapshotsAccounted
    ReportsAgree
PROPERTIES
    MissedOnlyByRemoval
    ExpiredGone
CHECK_DEADLOCK FALSE
