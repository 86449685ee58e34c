SPECIFICATION FairSpec
CONSTANTS
    Program <- MCProgram
    Solution <- MCSolution
    Null = Null
    Other = Other
    NoValue = NoValue
INVARIANTS
    TypeOK
    PrintsExpected
    BelowSolution
    CalleesFound
PROPERTY
    Ends
