SPECIFICATION FairSpec
CONSTANTS
    w1 = w1
    w2 = w2
    Workers = {w1, w2}
    Requests = {}
    EarlyCancel = FALSE
    RedisFails = FALSE
    MayCompress = FALSE
    MaxTokens = 2
    MaxExpiries = 1
    MaxEvents = 0
    MaxStalls = 1
    MaxWorkerCrashes = 1
    MaxApiCrashes = 0
PROPERTIES
    RunDecided
