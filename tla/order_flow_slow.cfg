SPECIFICATION FairSpec
CONSTANTS
    NumAgents = 1
    Capital = 8
    Quantities = {1}
    Prices <- MCPrices
    PositionPct = 50
    Modes = {"alpaca_paper"}
    Faults = {"slow"}
    MaxOrders = 1
    MaxCrashes = 0
PROPERTY EventuallySettled
CHECK_DEADLOCK FALSE
