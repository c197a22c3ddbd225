\* Two jobs and a janitor that reads one record.
CONSTANTS
    j1 = j1
    j2 = j2
    Jobs <- TwoJobs
    Bytes <- TwoSizes
    MaxBytes = 3
    ListLimit = 1
    Stoppable = {}
    DbMayFail = FALSE
    MaxRestarts = 0
SPECIFICATION Spec
PROPERTY OnlyOrphansGo
