CONSTANTS
    m1 = m1
    m2 = m2
    t1 = t1
    t2 = t2
    Modules <- MCOneModule
    Ticks <- MCTicks
    MaxBlock = 3
    ResigningBlocks = 2
    DSMVersion = 2
    MaxFailures = 1
    MaxKapiRegress = 0
SPECIFICATION Spec
INVARIANTS
    NoDepositOverUnsafeState
PROPERTIES
    EventuallyProcessesHead
    TheftLeadsToPauseMessage
