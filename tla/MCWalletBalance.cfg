SPECIFICATION Spec
CONSTANTS
    WALLET_BALANCE_UPDATE_BLOCK_RATE = 3
    MaxChanges = 3
    MaxInitFailures = 0
    MaxFailures = 2
PROPERTIES
    MetricNeverRegresses
    MetricTracksBalance
