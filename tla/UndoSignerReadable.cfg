SPECIFICATION Spec
CONSTANTS
    Ops = {o1, o2}
    MaxRecords = 3
    MaxTrouble = 2
INVARIANT
    SealedIsInTheFile
CHECK_DEADLOCK FALSE
