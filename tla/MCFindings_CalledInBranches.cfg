SPECIFICATION Spec
CONSTANTS
    Program <- MCCalledInBranches
    Placement <- MCAfterPredecessor
    StackLimit = 4
    NoBlock = NoBlock
INVARIANT
    EveryCallPrinted
