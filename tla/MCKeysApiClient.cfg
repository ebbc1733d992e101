CONSTANTS
    m1 = m1
    m2 = m2
    k1 = k1
    k2 = k2
    Modules <- MCModules
    Keys <- MCKeys
    KeyModule <- MCKeyModule
    MaxBlock = 5
    MaxFailures = 1
SPECIFICATION Spec
INVARIANTS
    GetKeysAnswersRequestedSnapshot
PROPERTIES
    RefinesKeysSnapshot
