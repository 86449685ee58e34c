SPECIFICATION FairSpec
CONSTANTS
    Program <- MCReturn
    Reserve = 4
    Garbage <- MCGarbage
    AddressSpace = 1024
    MaxAllocation = 20
    Value <- MCValue
    Null = Null
    Indeterminate = Indeterminate
PROPERTY
    ReturnLeaves
