SPECIFICATION FairSpec
CONSTANTS
    NumAgents = 2
    Capital = 8
    Quantities = {1}
    Prices <- MCPrices
    PositionPct = 50
    Modes = {"alpaca_paper"}
    Faults = {"race", "late", "reject", "db"}
    MaxOrders = 2
    MaxCrashes = 0
INVARIANTS
    BooksAndRowsAreFills
PROPERTY
    EventuallySettled
CHECK_DEADLOCK FALSE
