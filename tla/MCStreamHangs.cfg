SPECIFICATION FairSpec
CONSTANTS
    Places = {"worker"}
    MaxDeltas = 1
    MaxReloads = 0
    MayFail = FALSE
    MayCancel = FALSE
PROPERTY
    StreamEnds
