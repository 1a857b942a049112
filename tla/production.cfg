SPECIFICATION ProductionSpec
CONSTANTS
    CacheSize = 2
    MaxDay = 2
    WeekOf <- MCWeek
    Saturdays = {1}
    MaxRuns = 3
    MaxProcs = 3
    Runners = {p1, p2}
    Sids = {s1}
    Live = live
    CastSize = 2
    WatchCount = 1
    Spans <- MCSpans
    OpenDays = {1, 2, 5}
    Today = 4
    MaxLive = 1
    Traders = {1, 2}
    Traded = {"x"}
    Shapes <- MCShapes
    LastSecond = 3
    MaxFills = 4
    Th <- MCThresholds
    Replays = {1, 2, 3}
    ReportOf <- MCReports
    WeekStart = 1
    WeekEnd = 2
    DaySegments = 1
    Composers = {c1, c2}
    Uploaders = {u1}
    MaxRollups = 1
INVARIANTS
    ProductionTypeOK
    ManifestIsOfOneSession
    BeatsTellTheDay
    EpisodeIsOfItsWeek
PROPERTY
    RunsAreOnRecord
CHECK_DEADLOCK FALSE
