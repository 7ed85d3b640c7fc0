SPECIFICATION CHSpec
CONSTANTS
    MotorDriverPresent = FALSE
    Frames <- CellAndPack
    Group <- MCGroup
    Timeout <- MCTimeout
    DebounceFrames = 2
    RxQueueLen = 2
    DrainMax = 2
INVARIANT CellsFresh
