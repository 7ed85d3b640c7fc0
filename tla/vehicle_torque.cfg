SPECIFICATION VehicleSpec
CONSTANTS
    c0 = c0
    A = A
    Channel <- OneChannel
    Port <- OnePort
    PortOf <- OnePortOf
    LossPatterns <- OneLossPatterns
    Telemetry <- MCTelemetry
    MotorDriverPresent = FALSE
    VerifyTicks = 1
    QueueLen = 1
    OpenDelay = 1
    ReassertTicks = 1
    HmiGap = 0
    Frames <- MCFrames
    Group <- MCGroup
    Timeout <- MCTimeout
    DebounceFrames = 1
    RxQueueLen = 1
    DrainMax = 1
    Buttons = {"EMERGENCY_STOP"}
    Quiet = "E001"
    BitRates = 1
    MaxLag = 2
PROPERTY TorqueSinkValid
