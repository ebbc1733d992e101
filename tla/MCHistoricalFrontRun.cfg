CONSTANTS
    k1 = k1
    k2 = k2
    Pubkeys <- MCPubkeys
    Blocks = {1, 2}
    LogIndexes = {0, 1}
    MaxEvents = 4
SPECIFICATION Spec
SYMMETRY Symmetry
INVARIANTS
    FrontRunMatchesReference
