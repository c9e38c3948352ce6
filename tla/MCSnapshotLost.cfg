SPECIFICATION Spec
CONSTANTS
    Places = {"worker"}
    MaxDeltas = 2
    MaxReloads = 0
    MayFail = FALSE
    MayCancel = FALSE
INVARIANT
    SnapshotRestoresText
