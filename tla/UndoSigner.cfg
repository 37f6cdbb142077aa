SPECIFICATION Spec
CONSTANTS
    Ops = {o1, o2}
    MaxRecords = 3
    MaxTrouble = 3
SYMMETRY Symmetry
INVARIANTS
    SealedIsWitnessed
    UndoneStaysUndone
    CleanFilesServe
PROPERTY
    SignerImplementsAppendLog
CHECK_DEADLOCK FALSE
