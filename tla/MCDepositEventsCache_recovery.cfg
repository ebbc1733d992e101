SPECIFICATION Spec
CONSTANTS
    MaxBlock = 4
    DEPOSIT_EVENTS_STEP = 2
    MaxFetchFailures = 0
    MaxInsertFailures = 1
    MaxRestarts = 0
    DeploymentBlock = 0
PROPERTIES
    DepositsVerifiableAgain
