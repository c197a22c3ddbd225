\* A stop request that meets a job at its end, with nothing else going wrong.
CONSTANTS
    j1 = j1
    j2 = j2
    Jobs <- OneJob
    Bytes <- OneSize
    MaxBytes = 3
    ListLimit = 1
    Stoppable <- OneJob
    DbMayFail = FALSE
    MaxRestarts = 0
SPECIFICATION FairSpec
PROPERTY StopSettles
