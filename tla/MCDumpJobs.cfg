\* One job with everything that can happen to it, or two over the quota.
CONSTANTS
    j1 = j1
    j2 = j2
    Jobs <- TwoJobs
    Bytes <- TwoSizes
    MaxBytes = 3
    ListLimit = 2
    Stoppable <- OneJob
    DbMayFail = TRUE
    MaxRestarts = 2
SPECIFICATION MCSpec
INVARIANTS
    FileKept
    CancelledWasStopped
    RoundFits
PROPERTIES
    StatusFinal
    JobsSettle
    OrphansGo
