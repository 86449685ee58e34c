SPECIFICATION AnySpec
CONSTANTS
    v1 = v1
    Value <- MCValue
    Null = Null
    Indeterminate = Indeterminate
    AddressSpace = 24
    MaxAllocation = 3
    MaxSize = 3
    Size = {0, 1}
INVARIANTS
    NoDanglingSlot
    TypeOK
