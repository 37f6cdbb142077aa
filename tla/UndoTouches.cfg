SPECIFICATION Spec
CONSTANTS
    p = p
    q = q
    s1 = s1
    s2 = s2
    u1 = u1
    u2 = u2
    u3 = u3
    font = font
    theme = theme
    old = old
    new = new
    Ops = {o1, o2}
    Calls = {c1, c2}
    None = None
    MaxAsked = 3
    MaxCrashes = 1
    MaxEdits = 1
    Paths = {p, q}
    Slots = {s1, s2}
    UserFiles = {u1, u2, u3}
    Made = Made
    FileTasks <- MCFileTasks
    UiTasks <- MCUiTasks
    SetTasks <- MCSetTasks
    FirstFiles <- MCFirstFiles
    MaxSweeps = 1
    Keys = {font, theme}
    FirstText <- MCFirstText
    Mine = Mine
    Absent = Absent
    Garbled = Garbled
    Disk = Disk
INVARIANTS
    UndoTouchesItsOwn
SYMMETRY Symmetry
CHECK_DEADLOCK FALSE
