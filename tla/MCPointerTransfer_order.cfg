SPECIFICATION Spec
CONSTANTS
    Fact <- MCFact
    Instructions <- MCInstructions
INVARIANTS
    Monotone
    StaysClosed
CHECK_DEADLOCK FALSE
