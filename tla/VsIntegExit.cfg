\* exit with a clock enabled.
SPECIFICATION Spec
CONSTANTS
  Clocks = {clk}
  Waves <- MCEvenWave
  NoUuid = NoUuid
  NoClock = NoClock
  Kinds <- AllKinds
  HalfTicks <- MCHalfTicks
  Values <- MCValues
  Delays = {}
  MaxReq = 1
  MaxTime = 4
INVARIANTS
  ExitRunsToEnd
CHECK_DEADLOCK FALSE
