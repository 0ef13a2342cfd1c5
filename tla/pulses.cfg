\* Two presses over two targets between automatic enforcements, and what their commands,
\* and verdicts, do to the pulses.
CONSTANTS
    Window = 2
    NoTimer = NoTimer
    TargetCount = 2
    MaxPresses = 2
SPECIFICATION FairSpec
INVARIANTS
    PulsesAreTimed
    SensorsAreCurrent
PROPERTIES
    NoPulseIsCutShort
    OldNeverFollowsNew
    PressIsCarriedOut
