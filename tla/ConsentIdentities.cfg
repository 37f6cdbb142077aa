SPECIFICATION Spec
CONSTANTS
    app = app
    portal = portal
    robot = robot
    camera = camera
    file = file
    none = none
    Callers = {c1, c2}
    Handlers = {k1}
    Bodies <- IdentityBodies
    Apps = {app, portal, robot}
    Whats = {camera, file}
    Paths = {file}
    NoApp = none
    TRUSTED_INTERMEDIARIES = {portal}
    autonomous_apps = {robot}
    GESTURE_WINDOW = 1
    MaxTime = 0
    MaxRestarts = 0
    MaxManaged = 1
INVARIANTS
    SilentRepeatsADecision
    AllowedImpliesAudited
SYMMETRY Symmetry
CHECK_DEADLOCK FALSE
