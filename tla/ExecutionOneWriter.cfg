SPECIFICATION Spec
CONSTANTS
    Jobs = {j1, j2}
    Kinds = {TRUE}
    Schedulers = {s1}
    MaxAttempts = 2
    MaxCrashes = 1
    MaxToken = 4
    Stalls = FALSE
    Unkillable = FALSE
    Cancels = FALSE
    Contention = TRUE
INVARIANT OneWriter
PROPERTY StaleNeverPublishes
SYMMETRY Symmetry
