SPECIFICATION UplinkSpec
CONSTANTS
    s1 = s1
    s2 = s2
    none = none
    Sample <- MCSample
    NoSample = none
    Capacity = 3
    MaxAttempts = 2
    LinkTimeout = 2
    BootGrace = 1
    SamplePeriod = 2
    Burst = 1
INVARIANTS
    UplinkTypeOK
    RadioConfigured
    ConfirmTruthful
PROPERTIES
    RefinesFifo
    ReplayDrains
    SilenceDeclared
