SPECIFICATION FairSpec
CONSTANTS
    app = app
    net = net
    Apps = {app}
    Caps = {net}
    HighImpact = {net}
    Packages <- MCPackages
    FlatContext <- MCFlatContext
    MaxJobs = 3
    MaxTrouble = 1

    
    
    
PROPERTIES
    CompletedIsDone
    JobsEnd
CHECK_DEADLOCK FALSE
