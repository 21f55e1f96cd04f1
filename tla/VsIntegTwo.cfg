\* Two clocks of different waves, enabled and disabled; a design without delays.
SPECIFICATION Spec
CONSTANTS
  Clocks = {clk1, clk2}
  Waves <- MCTwoWaves
  NoUuid = NoUuid
  NoClock = NoClock
  Kinds <- AllKinds
  HalfTicks <- MCHalfTicks
  Values <- MCValues
  Delays = {}
  MaxReq = 3
  MaxTime = 5
INVARIANTS
  NothingSkipped
CHECK_DEADLOCK FALSE
