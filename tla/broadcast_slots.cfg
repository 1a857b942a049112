SPECIFICATION BroadcastSpec
CONSTANTS
    Outputs <- MCOutputs
    Moments <- MCMoments
    Free = Free
    MaxQueue = 2
    MaxTime = 5
    MaxSubmits = 6
    Farm = {a1}
    SpyMarks = {98, 100}
    MovePct = 2
    TopGrade = 2
    DirCooldown = 2
    MaxDirRestarts = 1
    Crew = {b1, b2}
    Gains = {1, 2}
    Losses = {1}
    WinStreak = 2
    LossStreak = 2
    HistoryLimit = 2
    QuietGap = 2
    StCooldown = 1
    MaxCloses = 3
    MaxDays = 1
    MaxStRestarts = 1
    Notionals = {1, 3}
    Claims = {0, 8, 15, 50}
    Factor = 10
    RecentFills = 3
    MaxFills = 4
    Sidecars = {"director", "board", "audience"}
    StartOrder <- MCStartOrder
    StopOrder <- MCStopOrder
    TradingDays = {1}
    MaxMoments = 1
    MaxDay = 2
    MaxFaults = 2
    Clients = {c1, c2}
    Taped = {c1, c2}
    SlowAt = 1
    QueueCap = 3
    RingSize = 2
    MaxEvents = 4
    Thirds = {1, 2, 4}
    MaxRecorders = 2
    MaxWriteErrors = 1
INVARIANTS
    BroadcastTypeOK
    SlotsAreSound
    QueueIsExplained
    SidecarsAreRouted
    StreamIsWhole
PROPERTIES
    LeavesForAReason
    RecapOncePerDay
    DirectorTellsTheNews
    LeadersAreRecords
    CommentaryIsSober
CHECK_DEADLOCK FALSE
