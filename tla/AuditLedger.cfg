CONSTANTS
    r1 = r1
    r2 = r2
    r3 = r3
    Requests = {r1, r2, r3}
    Oversized = {r3}
    MaxCrashes = 2
    MaxDamage = 2
SPECIFICATION FairSpec
INVARIANT AckedIsWitnessed
INVARIANT AckedLossIsDetected
INVARIANT HeadMatchesTable
INVARIANT FalseAlarmOnlyBeforeFirstSeal
PROPERTY ImplementsAppendLog
PROPERTY RequestsComplete
CHECK_DEADLOCK FALSE
