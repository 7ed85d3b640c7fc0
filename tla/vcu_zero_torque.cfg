SPECIFICATION Spec
CONSTANTS
    c0 = c0
    c8 = c8
    A = A
    B = B
    Channel <- MCChannel
    Port <- MCPort
    PortOf <- MCPortOf
    LossPatterns <- MCLossPatterns
    Telemetry <- MCTelemetry
    MotorDriverPresent = FALSE
    VerifyTicks = 2
    QueueLen = 3
    OpenDelay = 1
    ReassertTicks = 2
    HmiGap = 3
INVARIANT ZeroTorqueFirst
