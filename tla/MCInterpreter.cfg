SPECIFICATION FairSpec
CONSTANTS
    Program <- MCProgram
    Reserve = 16
    Garbage <- MCGarbage
    AddressSpace = 1024
    MaxAllocation = 20
    Value <- MCValue
    Null = Null
    Indeterminate = Indeterminate
INVARIANTS
    TypeOK
    PrintsExpected
    ArraysLive
    RulesKept
    NothingLeaks
PROPERTIES
    CallersApart
    Exits
