SPECIFICATION Spec
CONSTANTS
    WALLET_BALANCE_UPDATE_BLOCK_RATE = 2
    MaxChanges = 2
    MaxInitFailures = 1
    MaxFailures = 0
PROPERTIES
    MetricTracksBalance
