CONSTANTS
    m1 = m1
    m2 = m2
    t1 = t1
    t2 = t2
    Modules <- MCModules
    Ticks <- MCTicks
    MaxBlock = 3
    ResigningBlocks = 2
    DSMVersion = 3
    MaxFailures = 1
    MaxKapiRegress = 1
SPECIFICATION Spec
SYMMETRY Symmetry
INVARIANTS
    TypeOK
PROPERTIES
    RefinesGuardianAbstract
