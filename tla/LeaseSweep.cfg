SPECIFICATION Spec
CONSTANTS
    writer = writer
    integrator = integrator
    reader = reader
    o1 = o1
    Free = Free
    Jobs <- MCPair
    Keys <- MCKeys
    ClaimsOf <- MCClaims
    Observers = {o1}
    TTL = 2
    MaxTime = 5
    MaxToken = 2
INVARIANT OneBelievedOwner
CHECK_DEADLOCK FALSE
