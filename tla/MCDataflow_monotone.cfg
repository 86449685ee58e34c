SPECIFICATION FairSpec
CONSTANTS
    b1 = b1
    b2 = b2
    b3 = b3
    x = x
    y = y
    c = c
    Block <- MCBlock
    Elem <- MCElem
    Observed <- MCObserved
    Merged <- MCObserved
    Function <- MCMonotoneFunction
    Transfer <- MCTransfer
INVARIANTS
    BelowEverySolution
PROPERTIES
    Implements
    Terminates
