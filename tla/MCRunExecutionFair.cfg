SPECIFICATION FairSpec
CONSTANTS
    w1 = w1
    r1 = r1
    Workers = {w1}
    Requests = {r1}
    EarlyCancel = FALSE
    RedisFails = TRUE
    MayCompress = TRUE
    MaxTokens = 1
    MaxExpiries = 0
    MaxEvents = 1
    MaxStalls = 0
    MaxWorkerCrashes = 0
    MaxApiCrashes = 1
PROPERTIES
    RunDecided
