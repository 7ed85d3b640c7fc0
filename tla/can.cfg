SPECIFICATION TrafficSpec
CONSTANTS
    MotorDriverPresent = FALSE
    Frames <- MCFrames
    Group <- MCGroup
    Timeout <- MCTimeout
    DebounceFrames = 2
    RxQueueLen = 2
    DrainMax = 2
INVARIANTS
    CanTypeOK
    ValidityExclusive
    BmsFresh
    DebounceExact
    CellsHeardAgain
PROPERTIES
    SilenceNoticed
    BusComesBack
