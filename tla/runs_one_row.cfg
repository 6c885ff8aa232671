SPECIFICATION LiveSpec
CONSTANTS
    h1 = h1
    h2 = h2
    j1 = j1
    s1 = s1
    s2 = s2
    NoJob = NoJob
    Jobs = {j1}
    PolicyJobs = {}
    MaxRetries = 0
    Handlers = {h1, h2}
    Schedulers = {s1}
    ByteCounts = {0}
    MaxRuns = 1
    MaxClock = 0
INVARIANTS
    HandedOutOnce
PROPERTIES
    OrphansFinish
    NeverRevived
    StagesInOrder
    OnlyFinishedRunsPruned
