SPECIFICATION OrderSpec
CONSTANT MaxFlight = 3
PROPERTY EstopHolds
