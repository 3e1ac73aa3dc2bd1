SPECIFICATION Spec
CONSTANTS
    Extras <- NothingOrMore
    MaxList = 2
INVARIANTS
    DataAccepted
CHECK_DEADLOCK FALSE
