SPECIFICATION Spec
CONSTANTS
    Ids = {i1, i2, i3}
    EngineRestarts = TRUE
    MaxPending = 4
INVARIANTS IInv
PROPERTIES OnlyRestartsOrphan RequestAnswered CloseAnswered
