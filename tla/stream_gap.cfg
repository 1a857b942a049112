SPECIFICATION FairSpec
CONSTANTS
    Clients = {c1}
    Taped = {}
    SlowAt = 1
    QueueCap = 3
    RingSize = 1
    MaxEvents = 4
    Thirds = {}
    MaxRecorders = 0
    MaxWriteErrors = 0
PROPERTY
    GapIsReported
CHECK_DEADLOCK FALSE
