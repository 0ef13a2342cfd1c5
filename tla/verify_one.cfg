\* One target without a delay, every operation.
CONSTANTS
    t1 = t1
    Targets = {t1}
    NoTask = NoTask
    Delay = FALSE
    Limiter = TRUE
    Dynamic = TRUE
    MaxAttempts = 1
    MaxStreak = 2
    UserOps = {"enable", "master", "suppress", "press", "unload"}
SPECIFICATION Spec
INVARIANTS
    VerifiedIsPermitted
    VerifyingIsLive
PROPERTIES
    ContractKept
    SilentEndsAreExcused
    AutoCycleIsUnforced
