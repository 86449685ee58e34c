SPECIFICATION ProperSpec
CONSTANTS
    v1 = v1
    Value <- MCValue
    Null = Null
    Indeterminate = Indeterminate
    AddressSpace = 32
    MaxAllocation = 3
    MaxSize = 2
    Size = {1, 2}
INVARIANTS
    NeverFails
    NothingLeaks
PROPERTIES
    ImplementsMemory
