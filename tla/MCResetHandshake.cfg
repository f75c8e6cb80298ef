SPECIFICATION Spec
CONSTANT MaxFlight = 2
PROPERTY StandsInFailsafe
PROPERTY OnlyAskedReleases
PROPERTY FailsafeStops
PROPERTY ReleaseLearned
PROPERTY ResetSettles
PROPERTY RelatchFollowed
