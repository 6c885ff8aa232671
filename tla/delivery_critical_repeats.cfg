SPECIFICATION Spec
CONSTANTS
    k1 = k1
    d1 = d1
    d2 = d2
    NoKey = NoKey
    Keys = {k1}
    DigestKeys = {}
    Dispatchers = {d1, d2}
    Cooldown = 1
    RepeatInterval = 4
    MaxRepeats = 3
    MaxTime = 4
SYMMETRY DispatcherSymmetry
PROPERTIES
    CriticalRepeatsAfterCooldown
