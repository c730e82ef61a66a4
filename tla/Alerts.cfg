SPECIFICATION FairSpec
CONSTANTS
    NumRoutes = 5
    EnvRoutes <- MCEnv
    Channel <- MCChannel
    Ntfy <- MCNtfy
    Key <- MCChannel
    Cooldown <- MCCooldown
    Kinds = {"a", "b"}
    Matches <- MCMatches
    Refusable <- MCRefusable
    Epoch <- MCEpoch
    CacheTtl = 1
    MaxAlerts = 2
    MaxTime = 2
    MaxRestarts = 1
    MaxEdits = 1
PROPERTIES
    CooldownHeld
    FreshRoutes
    EveryAlertHandled
CHECK_DEADLOCK FALSE
