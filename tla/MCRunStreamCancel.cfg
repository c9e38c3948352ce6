SPECIFICATION Spec
CONSTANTS
    Places = {"worker", "api"}
    MaxDeltas = 1
    MaxReloads = 0
    MayFail = FALSE
    MayCancel = TRUE
INVARIANTS
    EndShowsOutcome
