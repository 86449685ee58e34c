SPECIFICATION FairSpec
CONSTANTS
    Program <- MCProgram
    Placement <- MCPlacement
    StackLimit = 4
    NoBlock = NoBlock
INVARIANTS
    TypeOK
    PrintsExpected
    EveryCallPrinted
PROPERTIES
    CallersKept
    Prints
