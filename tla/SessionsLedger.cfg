SPECIFICATION Spec
CONSTANTS
    Ids = {i1, i2}
    NoId = NoId
    hades = hades hadesExe = hadesExe celeste = celeste
    gHades = gHades gCeleste = gCeleste
    Games = {gHades}
    NoGame = NoGame
    Names = {hades}
    Idle = Idle
    Absent = Absent
    Unknown = Unknown
    GameOf <- MCOneGame
    ShortFlicker = 1
    StitchWindow = 1
    GcMargin = 2
    TrashRetention = 1
    FutureGrace = 1
    MaxDuration = 2
    Lookback = 1
    Reqs = {q1}
    ApiOps = {"create", "patch", "delete", "hard", "restore", "schedule"}
    Faults = {"restart"}
    DeletionGrace = 1
    QueueMax = 1
    Horizon = 1
    MaxTime = 3
SYMMETRY Symmetry
CHECK_DEADLOCK FALSE
PROPERTY ImplementsLedger
