SPECIFICATION Spec
CONSTANTS
    Jobs = {j1}
    Kinds = {TRUE, FALSE}
    Schedulers = {s1}
    MaxAttempts = 3
    MaxCrashes = 2
    MaxToken = 5
    Stalls = TRUE
    Unkillable = TRUE
    Cancels = TRUE
    Contention = TRUE
INVARIANTS TypeOK SuccessHasReceipt
PROPERTIES VerdictIsFinal PromiseIsKept
