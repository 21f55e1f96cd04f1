\* Two clocks, one of them disabled.
SPECIFICATION Spec
CONSTANTS
  Clocks = {clk1, clk2}
  Waves <- MCEvenWave
  NoUuid = NoUuid
  NoClock = NoClock
  Kinds <- MCClockKinds
  HalfTicks <- MCHalfTicks
  Values <- MCValues
  Delays = {}
  MaxReq = 2
  MaxTime = 4
INVARIANTS
  DisabledAtBack
CHECK_DEADLOCK FALSE
