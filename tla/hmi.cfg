SPECIFICATION MCSpec
CONSTANTS
    BMS_CELL_COUNT = 3
    MaxBytes = 90
    Snapshots <- MCSnapshots
    CellEvery = 2
    MaxBegins = 2
    Commands = {1, 3}
    StrayBytes = {90, 3, 165, 255}
    MaxPresses = 3
    MaxRx = 6
INVARIANTS
    HmiTypeOK
    NoPhantomCommand
    SickCellsNotOk
    NoStaleNumber
PROPERTIES
    PressHeard
    ScreenCatchesUp
