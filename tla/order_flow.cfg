SPECIFICATION Spec
CONSTANTS
    NumAgents = 1
    Capital = 3
    Quantities = {1, 2}
    Prices <- MCPrices
    PositionPct = 100
    Modes = {"simulated", "alpaca_paper"}
    Faults = {"reject", "db", "unpriced", "slow"}
    MaxOrders = 3
    MaxCrashes = 0
INVARIANTS
    NothingBorrowed
    DbMirrorsBooks
PROPERTY
    ImplementsLedger
CHECK_DEADLOCK FALSE
