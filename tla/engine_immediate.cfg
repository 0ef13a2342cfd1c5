\* Two targets, no delay: evaluations enforce at once and queue on the lock.
CONSTANTS
    t1 = t1
    t2 = t2
    Targets = {t1, t2}
    NoTarget = NoTarget
    Delay = FALSE
    Debounce = FALSE
    Dynamic = TRUE
    Limit = 1
    ErrorThreshold = 1
    RecoveryThreshold = 1
    DeviceStates = {"good", "bad"}
    CallResults = {"ok", "abort"}
    UserOps = {"enable", "master", "suppress", "unload"}
    MaxLost = 1
SPECIFICATION Spec
SYMMETRY TargetSymmetry
PROPERTIES
    OnsetIsAttended
    BacklogOnlyDrains
