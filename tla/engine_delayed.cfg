\* Two targets and a delay: countdowns, then tasks that queue on the lock.
CONSTANTS
    t1 = t1
    t2 = t2
    Targets = {t1, t2}
    NoTarget = NoTarget
    Delay = TRUE
    Debounce = TRUE
    Dynamic = FALSE
    Limit = 1
    ErrorThreshold = 1
    RecoveryThreshold = 1
    DeviceStates = {"bad", "skip"}
    CallResults = {"ok", "abort"}
    UserOps = {"enable", "suppress", "reset", "unload"}
    MaxLost = 1
SPECIFICATION FairSpec
INVARIANTS
    CountdownJustified
    TransientStatusIsLive
PROPERTIES
    AttentionIsKept
    ComesToRest
