SPECIFICATION Spec
CONSTANTS
    m1 = m1
    m2 = m2
    single = single
    shared = shared
    a1 = a1
    a2 = a2
    a3 = a3
    None = None
    Machines <- OneMachine
    Serial <- OwnSerial
    Tokens <- OneToken
    Limit <- Limits
    Expiring <- SharedOnly
    Attempts <- TwoAttempts
    MaxSpeedtests = 1
SYMMETRY Symmetry
PROPERTY RestartTakesNewConfig
CHECK_DEADLOCK FALSE
