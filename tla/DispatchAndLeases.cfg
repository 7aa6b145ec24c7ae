SPECIFICATION OneAtATime
CONSTANTS
    r1 = r1
    r2 = r2
    urgent = urgent
    patient = patient
    child = child
    check = check
    Repos = {r1, r2}
    JobIds = {urgent, patient, child, check}
    Schedulers = {s1, s2}
    Declared <- MCEqualPriority
    Limits <- MCLimits
    Recurring = {urgent}
    Deadlined = {child}
    Pressures = {TRUE, FALSE}
    Contention = TRUE
    writer = writer
    integrator = integrator
    reader = reader
    Free = Free
    Jobs <- MCJobs
    Keys <- MCKeys
    ClaimsOf <- MCClaims
    o1 = o1
    Observers = {o1}
    TTL = 2
    MaxTime = 3
    MaxToken = 2
INVARIANTS
    BothTypeOK
    WorkerCap
    RepoLimits
    CompatibleOwners
    NoConflictingLeases
    FencingIdentity
PROPERTIES
    DispatchIsDue
    StaleOwnerNeverRenews
CHECK_DEADLOCK FALSE
