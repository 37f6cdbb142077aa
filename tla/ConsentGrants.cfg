SPECIFICATION Spec
CONSTANTS
    app = app
    portal = portal
    robot = robot
    camera = camera
    file = file
    none = none
    Callers = {c1, c2}
    Handlers = {k1, k2}
    Bodies <- GrantBodies
    Apps = {app}
    Whats = {camera}
    Paths = {camera}
    NoApp = none
    TRUSTED_INTERMEDIARIES = {}
    autonomous_apps = {}
    GESTURE_WINDOW = 1
    MaxTime = 1
    MaxRestarts = 0
    MaxManaged = 1
INVARIANTS
    GrantsAreAudited
    WindowFromDecision
    RememberedBeforeReply
SYMMETRY Symmetry
CHECK_DEADLOCK FALSE
