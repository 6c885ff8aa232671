SPECIFICATION LiveSpec
CONSTANTS
    k1 = k1
    k2 = k2
    e1 = e1
    e2 = e2
    e3 = e3
    f1 = f1
    f2 = f2
    DigestKeys = {k1, k2}
    KeysOf <- MCKeysOf
    FlushLimit = 1
    Events = {e1, e2}
    Flushers = {f1, f2}
    MaxWindow = 2
    MaxLosses = 1
INVARIANTS
    ToldOnce
    SummaryComplete
    InTimeIsKept
PROPERTIES
    BatchedIsTold
