SPECIFICATION Spec
CONSTANTS
    Extras <- NothingOrMore
    MaxList = 4
INVARIANTS
    Anchored
    RightData
    Balanced
CHECK_DEADLOCK FALSE
