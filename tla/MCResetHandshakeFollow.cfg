SPECIFICATION Spec
CONSTANT MaxFlight = 2
PROPERTY LatchFollowed
