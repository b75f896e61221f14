SPECIFICATION FairSpec
CONSTANTS
    MaxPhaseIterations = 2
    MaxGlobalIterations = 14
    MaxDeaths = 2
    MaxFailures = 1
INVARIANTS
    AutopilotTypeOK
    DuplicatesAccounted
    ReviewBudgetWhole
PROPERTIES
    PublishesValidated
    LoopEnds
CHECK_DEADLOCK FALSE
