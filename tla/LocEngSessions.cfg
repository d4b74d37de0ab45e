SPECIFICATION Spec
CONSTANTS
    Criteria <- MCCriteria
    AidingTypes = {ALMANAC}
    MaxCalls = 4
    MaxRestarts = 2
    MaxFailures = 1
    MaxNi = 1
    MaxQueue = 2
INVARIANTS TypeOK SessionIsHeard SessionRuns StopIsFinal
PROPERTY StartedRuns
CHECK_DEADLOCK FALSE
