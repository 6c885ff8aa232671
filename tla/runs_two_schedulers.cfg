SPECIFICATION Spec
CONSTANTS
    h1 = h1
    h2 = h2
    j1 = j1
    s1 = s1
    s2 = s2
    NoJob = NoJob
    Jobs = {j1}
    PolicyJobs = {j1}
    MaxRetries = 1
    Handlers = {h1}
    Schedulers = {s1, s2}
    ByteCounts = {0}
    MaxRuns = 3
    MaxClock = 1
CONSTRAINT TwoSchedulersFiring
SYMMETRY SchedulerSymmetry
INVARIANTS
    OneRunPerBoundary
    RetryChainSound
