SPECIFICATION FairSpec
CONSTANTS
    Threads = {t1, t2}
    Clients = {c1, c2}
    Inds = {n1}
    BufferSize = 1
    MaxCalls = 2
    SpuriousWakeups = FALSE
    PayloadKinds = {TRUE}
    NULL = NULL
CHECK_DEADLOCK FALSE
INVARIANTS TypeOK SlotOwnership PayloadMatchesRequest
PROPERTIES NoWriteAfterReturn ImplementsSyncCall CallReturns
