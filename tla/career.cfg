SPECIFICATION CareerSpec
CONSTANTS
    Capital = 200
    Quantities = {1, 2}
    Prices <- MCPrices
    MaxHeld = 2
    MaxFills = 4
    IdCap = 3
    Orderly = TRUE
    Oversell = TRUE
    NoteCapital = 8
    NotePrices <- MCNotePrices
    Faults = {"note", "refuse", "db", "stamp", "crash"}
    MaxOrders = 4
    MaxCrashes = 1
    NumAgents = 2
    Callers = {"loop"}
    PnLs <- MCPnLs
    MinJunior = 1
    MinSenior = 1
    MinPrincipal = 3
    WinRateSenior = 52
    SharpePrincipal = 5
    DemoteDrawdown = 8
    DemoteLosses = 1
    DemoteCapPct = 50
    MaxOutcomes = 3
    AcademyFaults = {"read", "write", "crash"}
    MaxAcademyFaults = 1
    Marks <- MCMarks
    StopLoss = 3
    TakeProfit = 5
    TrailingStop = 2
    MaxHold = 2
INVARIANTS
    CareerTypeOK
    BooksAddUp
    PeakIsOfThisPosition
PROPERTIES
    NeverThroughZero
    OutcomesStay
    RanksAreEarned
    NeverMidTick
    NothingIsStuck
CHECK_DEADLOCK FALSE
