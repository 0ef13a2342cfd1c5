\* One target: failures, aborts, recovery, reset, clear, and presses of the force button
\* between its own enforcements.
CONSTANTS
    t1 = t1
    Targets = {t1}
    NoTarget = NoTarget
    Delay = FALSE
    Debounce = FALSE
    Dynamic = FALSE
    Limit = 1
    ErrorThreshold = 2
    RecoveryThreshold = 2
    DeviceStates = {"good", "bad", "skip"}
    CallResults = {"ok", "fail", "dead_member", "abort"}
    UserOps = {"enable", "suppress", "reset", "clear", "unload", "press"}
    MaxLost = 0
SPECIFICATION Spec
INVARIANTS
    TypeOK
    SuppressionEndWatched
PROPERTIES
    OnlyPressesExceedLimit
    OffIsKept
