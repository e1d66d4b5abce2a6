CONSTANTS
    Version = {1, 2, 3}
    EventType = {"Opened", "Deposited", "Closed"}
    EventShape <- MCEventShape
    StateShape <- MCStateShape
    ByType <- MCByType
    MaxEvents = 4
SPECIFICATION Spec
INVARIANTS LoadsTellTruth RenderReadsEverything RollbackLoads MigrationSticks
