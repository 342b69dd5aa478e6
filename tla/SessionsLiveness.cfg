SPECIFICATION FairSpec
CONSTANTS
    Ids = {i1, i2, i3}
    NoId = NoId
    hades = hades hadesExe = hadesExe celeste = celeste
    gHades = gHades gCeleste = gCeleste
    Games = {gHades, gCeleste}
    NoGame = NoGame
    Names = {hades, hadesExe, celeste}
    Idle = Idle
    Absent = Absent
    Unknown = Unknown
    GameOf <- MCGameOf
    ShortFlicker = 1
    StitchWindow = 1
    GcMargin = 2
    TrashRetention = 1
    FutureGrace = 1
    MaxDuration = 2
    Lookback = 1
    Reqs = {q1}
    ApiOps = {"delete", "restore"}
    Faults = {"redeliver"}
    DeletionGrace = 1
    QueueMax = 2
    Horizon = 1
    MaxTime = 5
CHECK_DEADLOCK FALSE
INVARIANT NoSpuriousError
PROPERTY SettlesOnPlayedGame
PROPERTY TrashIsEmptied
PROPERTY FlickersGo
