SPECIFICATION Spec
CONSTANTS
    Criteria <- MCCriteria
    AidingTypes = {ALMANAC}
    MaxCalls = 4
    MaxRestarts = 1
    MaxFailures = 0
    MaxNi = 0
    MaxQueue = 3
INVARIANT StopEndsSession
CHECK_DEADLOCK FALSE
