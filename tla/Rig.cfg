SPECIFICATION Spec
CONSTANTS
    MaxCmds = 3
    MaxCrashes = 1
    MaxInterrupts = 1
INVARIANTS
    UpMeansUp
    NothingUntracked
    StopLeavesNothing
CHECK_DEADLOCK FALSE
