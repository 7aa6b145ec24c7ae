SPECIFICATION DispatchSpec
CONSTANTS
    r1 = r1
    r2 = r2
    urgent = urgent
    patient = patient
    child = child
    check = check
    Repos = {r1, r2}
    JobIds = {child, patient, check}
    Schedulers = {s1}
    Declared <- MCQuotaDeclared
    Limits <- MCQuotaLimits
    Recurring = {}
    Deadlined = {}
    Pressures = {FALSE}
    Contention = FALSE
INVARIANT GlobalQuotas
CHECK_DEADLOCK FALSE
