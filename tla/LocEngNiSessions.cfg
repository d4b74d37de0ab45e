SPECIFICATION Spec
CONSTANTS
    MaxRequests = 2
    MaxRestarts = 2
    UserAnswers = {"ACCEPT"}
    NULL = NULL
CHECK_DEADLOCK FALSE
INVARIANTS TypeOK BusyIsServed
PROPERTIES EndsOnce RequestEnds
