SPECIFICATION DeploymentSpec
CONSTANTS
    Camera = {c1}
    Followed = {c1}
    MaxEdits = 2
    MaxLives = 2
    Grants <- MCGrants
    OldGrants <- MCOldGrants
    Columns <- MCColumns
    Account <- MCAccount
    MaxChanges = 1
PROPERTIES
    OrphanOnlyByRace
    StopReachesAll
    StartsComplete
CHECK_DEADLOCK FALSE
