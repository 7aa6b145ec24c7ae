SPECIFICATION FairSpec
CONSTANTS
    Tasks = {t1}
    MaxRuns = 2
    MaxProcessDeaths = 1
INVARIANTS
    AgentTypeOK
    OneRunPerTask
    
PROPERTY
    RunsSettle
CHECK_DEADLOCK FALSE
