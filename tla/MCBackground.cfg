SPECIFICATION MCSpec
CONSTANTS
    w1 = w1
    w2 = w2
    w3 = w3
    Holders = {w1, w2, w3}
    MaxTokens = 5
    Workers = {w1, w2}
    MaxReindex = 2
    MaxDeletes = 1
    MaxStalls = 1
    MaxCrashes = 1
    MayStallAlive = FALSE
    AlMaxIterations = 3
    AlMaxCalls = 2
    PrRuns = {1, 2}
    PrConcurrency = 1
    PrMaxBoots = 3
    PrMaxFailures = 1
    PrMaxStreams = 1
INVARIANTS
    BackgroundTypesOK
    LiveLeaseOwnsKey
    AtMostOneLiveLease
    StatusMatchesChunks
    AlHistoryAnswered
    AlNoRecursionError
    PrConnectionsFitTheWork
    PrLeftoversAreSettled
PROPERTIES
    IndexingEnds
    AlLoopEnds
    PrShutdownEnds
CHECK_DEADLOCK FALSE
