SPECIFICATION Spec
CONSTANTS
    NumAgents = 1
    Capital = 8
    Quantities = {1, 2}
    Prices <- MCPrices
    PositionPct = 50
    Modes = {"alpaca_paper"}
    Faults = {"race", "slow", "unpriced", "late", "reject", "lost", "cancel", "db", "loop", "crash"}
    MaxOrders = 2
    MaxCrashes = 1
INVARIANTS
    TypeOK
    LongOnly
CHECK_DEADLOCK FALSE
