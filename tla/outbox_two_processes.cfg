SPECIFICATION Spec
CONSTANTS
    r1 = r1
    r2 = r2
    w1 = w1
    w2 = w2
    email = email
    RowIds = {r1, r2}
    Channels = {email}
    Workers = {w1, w2}
    MaxAttempts = 2
    CircuitThreshold = 2
    ClaimBatchSize = 1
    Budget = 1
    MaxCrashes = 0
    MaxFaults = 0
INVARIANTS
    OneSenderPerRow
