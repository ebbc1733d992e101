CONSTANTS
    DEPOSIT_CONTRACT_TREE_DEPTH = 3
    Leaves = {1, 2}
    MaxNodes = 7
SPECIFICATION Spec
INVARIANTS
    RootMatchesReference
