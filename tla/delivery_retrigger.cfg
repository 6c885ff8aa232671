SPECIFICATION Spec
CONSTANTS
    k1 = k1
    d1 = d1
    d2 = d2
    NoKey = NoKey
    Keys = {k1}
    DigestKeys = {}
    Dispatchers = {d1, d2}
    Cooldown = 1
    RepeatInterval = 2
    MaxRepeats = 1
    MaxTime = 3
SYMMETRY DispatcherSymmetry
PROPERTIES
    RetriggerStartsCycle
