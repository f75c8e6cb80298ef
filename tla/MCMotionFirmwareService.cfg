SPECIFICATION Spec
CONSTANTS
    ObstacleSamples = 1
    ClearSamples = 1
    ShutdownSamples = 1
    Gaits = {"forward"}
    DistanceInputs = {}
    BatteryInputs = {}
    EnableOta = FALSE
    CommandTimeout = 2
    WatchdogDeadline = 3
    RebootDelay = 1
    MaxGap = 3
    CountModulus = 2
PROPERTY ServiceBlocksMotion
