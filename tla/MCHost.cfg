SPECIFICATION HostSpec
CONSTANTS
    HoldAlarm = TRUE
    After = 1
    Grace = 1
    BadgeWait = 1
    MaxAttempts = 2
    Budget = 2
    PathWait = 1
    z1 = z1
    z2 = z2
    Zones = {z1, z2}
    Aimed = {z1}
INVARIANTS
    AlarmTypeOK
    FailsafeAgrees
    OneOwner
    TwoAnswers
    CrossJudgedOnce
    StopIsFinal
    StopBeforeDetour
    TargetsStand
PROPERTIES
    AlarmLatched
    FailureAlarms
    StaleVerdictIgnored
    BothFactors
    AuthWaitEnds
    HazardTold
    BlockageTold
