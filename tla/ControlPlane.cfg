SPECIFICATION OneAtATime
CONSTANTS
    Procs = {p1, p2, p3}
    MaxDeaths = 1
    Overruns = TRUE
    TornDeaths = FALSE
    Requests = {q1, q2}
    SemanticKeys = {edit, test}
    MaxJobs = 3
    MaxGatewayDeaths = 1
    MaxIndex = 3
    daemon = daemon
    trigger = trigger
    Evaluators = {daemon, trigger}
    Daemon = daemon
    Windows = {1, 2}
    KeysOf <- MCKeysOf
    MaxActive = 1
    MaxFailures = 1
    MaxAttempts = 2
    MaxRunDeaths = 2
    Steps = {1, 2, 3}
    DependsOn <- MCDependsOn
    Compensable = {1, 3}
    MaxDaemonDeaths = 1
INVARIANTS
    AllTypeOK
    OneJobPerRequest
    OpenJobsAreScheduled
    
    DependenciesDone
    UndoesOnlyDone
    VerdictIsTrue
PROPERTIES
    KeepsPromise
    LockReturns
    RequestsAreAnswered
    
    
CHECK_DEADLOCK FALSE
