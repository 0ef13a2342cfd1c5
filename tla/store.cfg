\* Two rules, one of them in use, with crashes and a damaged file.
CONSTANTS
    r1 = r1
    r2 = r2
    Rules = {r1, r2}
    Busy = {r1}
    Faults = {"crash", "damage"}
    NoWrite = NoWrite
    NoCall = NoCall
    Corrupt = Corrupt
SPECIFICATION FairSpec
INVARIANTS
    NothingIsForgotten
    ClearIsDurable
    IdleFileIsCurrent
PROPERTY
    ReloadCompletes
