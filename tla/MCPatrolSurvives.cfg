SPECIFICATION PatrolSpec
CONSTANTS
    z1 = z1
    z2 = z2
    Zones = {z1, z2}
    Aimed = {z1}
INVARIANT PatrolSurvives
