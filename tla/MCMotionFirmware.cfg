SPECIFICATION Spec
CONSTANTS
    ObstacleSamples = 2
    ClearSamples = 1
    ShutdownSamples = 2
    Gaits = {"forward", "other"}
    DistanceInputs = {"near", "clear"}
    BatteryInputs = {"low", "ok"}
    EnableOta = FALSE
    CommandTimeout = 2
    WatchdogDeadline = 3
    RebootDelay = 1
    MaxGap = 3
    CountModulus = 2
INVARIANT TypeOK
INVARIANT WalkingIsCommanded
INVARIANT NoLinkNoMotion
PROPERTY FailsafeCounted
PROPERTY LatchSpec
PROPERTY RobotAsSeen
PROPERTY HostSilenceLatches
