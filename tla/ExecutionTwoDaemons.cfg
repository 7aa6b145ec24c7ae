SPECIFICATION Spec
CONSTANTS
    Jobs = {j1}
    Kinds = {TRUE}
    Schedulers = {s1, s2}
    MaxAttempts = 2
    MaxCrashes = 1
    MaxToken = 3
    Stalls = FALSE
    Unkillable = FALSE
    Cancels = FALSE
    Contention = FALSE
INVARIANT NoBlindReplay
