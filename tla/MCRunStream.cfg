SPECIFICATION FairSpec
CONSTANTS
    Places = {"worker", "api"}
    MaxDeltas = 2
    MaxReloads = 1
    MayFail = TRUE
    MayCancel = FALSE
INVARIANTS
    TypeOK
    FreshTextExact
    NoDeltaTwice
    EndShowsOutcome
PROPERTY
    EarlyStreamEnds
