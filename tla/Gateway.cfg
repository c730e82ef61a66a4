SPECIFICATION FairGateway
CONSTANTS
    MaxConsecutiveFailures = 10
    Schedule = 6
    MaxRestarts = 2
    MaxFaults = 2
INVARIANTS
    GivesUpOnlyAfterBudget
    ShownStatusTruthful
PROPERTIES
    Recovers
