SPECIFICATION Spec
CONSTANTS
    Workers = {w1}
    MaxReindex = 1
    MaxDeletes = 0
    MaxStalls = 1
    MaxCrashes = 0
    MayStallAlive = FALSE
INVARIANT
    PendingIsQueued
