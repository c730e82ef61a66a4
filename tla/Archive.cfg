\* A tick is half of the 300 s key window.  Segments are a fraction of it, as
\* scripts/local_cctv_rig.py records them.
SPECIFICATION FairSpec
CONSTANTS
    SegSeconds = 1
    KeySeconds = 2
    Retention = 1
    SweepChunk = 1
    MaxTime = 5
    MaxSegments = 3
    MaxFaults = 1
    NoClip = NoClip
INVARIANTS
    LossOnlyAfterExpiry
    OrphansOnlyFromFailures
    PlaybackSkewBounded
PROPERTIES
    RetentionEnforced
