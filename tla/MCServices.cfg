SPECIFICATION MCSpec
CONSTANTS
    KtFiles <- MCFiles
    KtLengths = {1, 2, 9}
    KtMaxWords = 6
    KtMax = 8
    KtOverlap = 2
    KtLimit = 2
    KtMaxChunks = 4
    RoRequests <- MCRequests
    RoMaxCalls = 2
    RoMaxItems = 3
    TjMaxItems = 3
    TjConcurrency = 2
    TjMaxPolls = 1
    AuAccounts = {"ann", "bob"}
    AuLogins = {1, 2}
    AuCalls = {1, 2}
    AuMaxTime = 2
    AuMaxIds = 2
    WpSessionIds = {"s1", "s2"}
    WpOldSessions = {"s1"}
    WpHandlers = {"h1", "h2"}
    WpMaxRuns = 2
    WpMaxActs = 3
    SmRuns = {1, 2, 3}
    SmSizes = {0, 1}
    SmTrigger = 1
    SmKeep = 1
    SmMinSize = 1
    SmMaxHistory = 2
    SmBudget = 1
    SmMaxMessages = 5
    PgSessions = 4
    PgLimit = 1
    PgMaxTime = 2
    PgMaxMessages = 2
    PgMaxWrites = 2
INVARIANTS
    ServicesTypesOK
    KtAnswerHasWord
    RoMessageShowsResources
    RoSlotsTellOutcome
    TjReportIsComplete
    AuSessionIsOneUsers
    AuOneUserPerAccount
    WpRunIsReachable
    WpViewIsOfOneSession
    SmNoQuestionForgotten
    SmNothingFromLater
    PgNoHoles
PROPERTIES
    KtOrdinaryTextIsCut
CHECK_DEADLOCK FALSE
