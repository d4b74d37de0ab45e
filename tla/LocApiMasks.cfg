SPECIFICATION Spec
CONSTANTS
    hal = hal
    a1 = a1
    a2 = a2
    a3 = a3
    Adapters = {hal, a1, a2, a3}
    Engine = hal
    Bits <- MCBits
    QmiEvents <- MCQmiEvents
    Qmi <- MCQmi
    SessionEvents <- MCSessionEvents
    EngineState = "engine_state"
    Measurement = "MEASUREMENT"
    mExcludedMask = {}
    InitialMask <- MCInitialMask
    Early <- MCEarly
    Updates = {"NI"}
    MAX_ADAPTERS = 3
    MAX_OPEN_RETRIES = 1
    MaxCalls = 2
    MaxLosses = 2
    MaxFailures = 1
    MaxEngine = 2
    MaxQueue = 2
    NULL = NULL
CHECK_DEADLOCK FALSE
INVARIANTS TypeOK EventsRegistered SilentOutOfSession
PROPERTY LossRecovered
