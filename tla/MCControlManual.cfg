SPECIFICATION ControlSpec
INVARIANT ManualStandsStill
