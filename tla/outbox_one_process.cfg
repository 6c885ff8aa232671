SPECIFICATION LiveSpec
CONSTANTS
    r1 = r1
    r2 = r2
    w1 = w1
    w2 = w2
    email = email
    RowIds = {r1, r2}
    Channels = {email}
    Workers = {w1}
    MaxAttempts = 2
    CircuitThreshold = 2
    ClaimBatchSize = 2
    Budget = 1
    MaxCrashes = 2
    MaxFaults = 1
INVARIANTS
    TypeOK
    DuplicatesNeedCrashes
    GivenUpAfterAllAttempts
    RateBudget
PROPERTIES
    EveryRowSettles
