SPECIFICATION FairShellSpec
CONSTANTS
    app = app
    camera = camera
    mic = mic
    none = none
    Callers = {c1, c2}
    Handlers = {k1}
    Polls = {f1}
    Bodies <- MCBodies
    Apps = {app}
    Whats = {camera, mic}
    Paths = {}
    NoApp = none
    TRUSTED_INTERMEDIARIES = {}
    autonomous_apps = {}
    GESTURE_WINDOW = 1
    MaxTime = 0
    MaxRestarts = 1
    MaxManaged = 0
INVARIANTS
    AnswersOfThisLifetime
    AnsweredStaysDown
PROPERTIES
    DialogReachesTheUser
CHECK_DEADLOCK FALSE
