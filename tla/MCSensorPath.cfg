SPECIFICATION SensorsSpec
CONSTANTS
    ObstacleSamples = 2
    ClearSamples = 2
    ShutdownSamples = 2
    MaxDistances = 6
    MaxBatteries = 4
    Wrap = 9
    SamplePeriod = 2
    MaxAge = 3
    MaxSkew = 1
    MaxDelay = 1
    MaxOutage = 5
    Scenes = {"near", "clear"}
INVARIANT ObstacleMeaning
INVARIANT CriticalMeaning
PROPERTY SampleCountedOnce
PROPERTY StaleNeverJudged
PROPERTY FreshSampleJudged
PROPERTY NearEngages
