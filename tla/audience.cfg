SPECIFICATION Spec
CONSTANTS
    Users = {u1, u2}
    Voters = {u1, u2}
    Texts <- MCTexts
    MaxPosts = 2
    MaxBroadcasts = 1
    FailCap = 1
    NetFaults = {"revoked", "quota", "ends"}
    Picks = {"ann"}
    AgentList <- MCAgents
    Totals = {0}
    Marks = {1}
    MaxDay = 1
    PinCap = 1
    MaxMoods = 1
    Overrides = {""}
    Means <- MCMeans
INVARIANTS
    TypeOK
    AnsweredOnce
PROPERTY
    VotesAreCounted
SYMMETRY MCSymmetry
CHECK_DEADLOCK FALSE
