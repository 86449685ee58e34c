SPECIFICATION FairSpec
CONSTANTS
    Program <- MCDeep
    Reserve = 4
    Garbage <- MCGarbage
    AddressSpace = 1024
    MaxAllocation = 20
    Value <- MCValue
    Null = Null
    Indeterminate = Indeterminate
INVARIANT
    ArraysLive
