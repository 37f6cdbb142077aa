SPECIFICATION FairSpec
CONSTANTS
    app = app
    portal = portal
    robot = robot
    camera = camera
    file = file
    none = none
    Callers = {c1, c2}
    Handlers = {k1, k2}
    Bodies <- DialogBodies
    Apps = {app}
    Whats = {camera}
    Paths = {}
    NoApp = none
    TRUSTED_INTERMEDIARIES = {}
    autonomous_apps = {}
    GESTURE_WINDOW = 1
    MaxTime = 0
    MaxRestarts = 1
    MaxManaged = 0
INVARIANTS
    NoOrphanedCaller
    OneDialogPerQuestion
PROPERTIES
    EveryCallerAnswered
CHECK_DEADLOCK FALSE
