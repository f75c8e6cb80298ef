SPECIFICATION Spec
CONSTANTS
    MaxSession = 3
    MaxSeq = 3
    MaxClock = 4
INVARIANT OpeningGetsThrough
INVARIANT DecodersAgree
PROPERTY NoReplay
PROPERTY HandshakeExcludesOlder
