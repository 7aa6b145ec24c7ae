SPECIFICATION FairSpec
CONSTANTS
    Jobs = {j1, j2}
    Kinds = {TRUE}
    Schedulers = {s1}
    MaxAttempts = 1
    MaxCrashes = 1
    MaxToken = 3
    Stalls = FALSE
    Unkillable = FALSE
    Cancels = FALSE
    Contention = FALSE
PROPERTY EventuallySettled
