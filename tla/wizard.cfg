\* A light, a climate and a sensor, every mode, two names.
CONSTANTS
    Names = {"n1", "n2"}
    Targetable = {"lamp", "heater"}
    Sensors = {"sensor"}
    Safety = {"heater"}
    Offers <- OffersOf
    Colors = {"rgb_color"}
    States = {"on", "off"}
    NoEntity = "none"
SPECIFICATION Spec
INVARIANTS
    NamesClashOnlyInRace
    SafetyIsAcknowledged
    FollowIsComplete
    HolesComeFromRetargeting
