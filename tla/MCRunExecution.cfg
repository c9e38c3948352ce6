SPECIFICATION Spec
CONSTANTS
    w1 = w1
    w2 = w2
    r1 = r1
    Workers = {w1, w2}
    Requests = {r1}
    EarlyCancel = FALSE
    RedisFails = TRUE
    MayCompress = FALSE
    MaxTokens = 2
    MaxExpiries = 0
    MaxEvents = 2
    MaxStalls = 1
    MaxWorkerCrashes = 0
    MaxApiCrashes = 0
INVARIANTS
    TypeOK
    OneExecutor
    CompletedRunHasNoOpenStep
    DraftIsGone
    RunIsAttended
    OutcomesAgree
PROPERTIES
    RunImplementsRecord
