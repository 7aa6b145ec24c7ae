SPECIFICATION ProgressSpec
CONSTANTS
    r1 = r1
    r2 = r2
    urgent = urgent
    patient = patient
    child = child
    check = check
    Repos = {r1, r2}
    JobIds = {urgent, patient, check}
    Schedulers = {s1}
    Declared <- MCDeclared
    Limits <- MCLimits
    Recurring = {urgent}
    Deadlined = {}
    Pressures = {TRUE, FALSE}
    Contention = TRUE
    Clients = {g1}
    Submitters = {g1}
    MaxDaemons = 3
    MaxMishaps = 1
PROPERTIES
    SubmissionsAreSeen
    
CHECK_DEADLOCK FALSE
