\* Two delayed targets whose enforcements queue on one lock: self-healing must end.
CONSTANTS
    t1 = t1
    t2 = t2
    Targets = {t1, t2}
    NoTask = NoTask
    Delay = TRUE
    Limiter = FALSE
    Dynamic = FALSE
    MaxAttempts = 1
    MaxStreak = 2
    UserOps = {"master"}
SPECIFICATION FairSpec
PROPERTIES
    DeadTargetIsGivenUp
