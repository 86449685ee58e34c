SPECIFICATION Spec
CONSTANTS
    b1 = b1
    b2 = b2
    b3 = b3
    x = x
    y = y
    c = c
    Block <- MCBlock
    Elem <- MCElem
    Observed <- MCObserved
    Merged <- MCObserved
    Function <- MCFunction
    Transfer <- MCTransfer
INVARIANTS
    TypeOK
    UpToDate
