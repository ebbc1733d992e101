SPECIFICATION Spec
CONSTANTS
    MaxBlock = 6
    DEPOSIT_EVENTS_STEP = 2
    MaxFetchFailures = 1
    MaxInsertFailures = 1
    MaxRestarts = 1
    DeploymentBlock = 1
INVARIANTS
    StoreIsChainPrefix
