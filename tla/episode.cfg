SPECIFICATION EpisodeSpec
CONSTANTS
    BeatFiles <- MCBeatFiles
    TimeOf <- MCTimes
    ClipLengths = {3, 5}
    VoiceOvers <- MCVoiceOvers
    Xfades = {1, 2}
    DefaultXfade = 1
    LeadIn = 1
    Breath = 1
    ChainRuns = {c1, c2}
    Saved = saved
    SavedFiles <- MCSavedFiles
    Requests <- MCRequests
    MaxAttempts = 2
    MaxKills = 1
    Ids = {b1, b2}
    Moments = {1, 2, 3}
    Unrendered = {3}
    MaxTakes = 3
    Size = 5
    Chunk = 2
    MaxStalls = 2
    MaxIdle = 2
    MaxTries = 2
    LastLine = 2
    Texts = {"a", "b"}
    MaxVoiceRuns = 2
INVARIANTS
    EpisodeTypeOK
    ReelIsInSync
    ClipsAreCurrent
    UploadIsTheReel
    IndexIsHeard
    ChainsDeliver
PROPERTY
    RunsEnd
CHECK_DEADLOCK FALSE
