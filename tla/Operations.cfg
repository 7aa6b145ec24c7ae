SPECIFICATION OneAtATime
CONSTANTS
    f1 = f1
    f2 = f2
    e1 = e1
    e2 = e2
    p1 = p1
    p2 = p2
    r1 = r1
    r2 = r2
    r3 = r3
    t1 = t1
    t2 = t2
    Clients = {c1, c2}
    Sessions = {e1, e2}
    Files = {f1}
    Allowed <- MCAllowed
    MaxRevision <- MCMaxRevision
    MaxForeign = 1
    Processes = {p1, p2}
    Checks = {"test", "lint"}
    Heavy = {"test"}
    Requests = {r1, r2, r3}
    Anonymous = {r2}
    ProcessOf <- MCProcessOf
    Revisions = {"one", "two"}
    Mortal = {p2}
    Transactions = {t1, t2}
    Targets = {f1, f2}
    Plan <- MCPlan
    Absence = Absence
    MaxEdits = 1
    MaxKills = 1
INVARIANTS
    OperationsTypeOK
    StartedOnce
PROPERTIES
    BridgeJobsSettle
    RollbackKeepsOthersWork
    WantedChecksGoOn
    EvidenceIsOfItsRevision
    UserWorkSurvives
CHECK_DEADLOCK FALSE
