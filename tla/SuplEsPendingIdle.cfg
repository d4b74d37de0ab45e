SPECIFICATION Spec
CONSTANTS
    Ids = {i1, i2}
    MaxRetries = 2
    MaxPending = 2
    NULL = NULL
SYMMETRY Symmetry
CHECK_DEADLOCK FALSE
INVARIANTS AnswerOnItsWay
