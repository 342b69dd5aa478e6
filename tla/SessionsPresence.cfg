SPECIFICATION Spec
CONSTANTS
    Ids = {i1, i2}
    NoId = NoId
    hades = hades hadesExe = hadesExe celeste = celeste
    gHades = gHades gCeleste = gCeleste
    Games = {gHades, gCeleste}
    NoGame = NoGame
    Names = {hades, celeste}
    Idle = Idle
    Absent = Absent
    Unknown = Unknown
    GameOf <- MCTwoGames
    ShortFlicker = 1
    StitchWindow = 1
    GcMargin = 2
    TrashRetention = 1
    FutureGrace = 1
    MaxDuration = 2
    Lookback = 1
    Reqs = {}
    ApiOps = {"schedule"}
    Faults = {"redeliver", "duplicate", "gap", "restart", "dbfail"}
    DeletionGrace = 1
    QueueMax = 2
    Horizon = 1
    MaxTime = 4
SYMMETRY Symmetry
CHECK_DEADLOCK FALSE
INVARIANT TypeOK
INVARIANT RowsOK
INVARIANT StartFindsNoOpenRow
INVARIANT OpenRowIsSynced
PROPERTY NightlyTasksAreSafe
PROPERTY SkippedOnlyForManual
