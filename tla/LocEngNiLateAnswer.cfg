SPECIFICATION Spec
CONSTANTS
    MaxRequests = 3
    MaxRestarts = 0
    UserAnswers = {"ACCEPT", "DENY"}
    NULL = NULL
CHECK_DEADLOCK FALSE
INVARIANT AnswerIsForRequest
