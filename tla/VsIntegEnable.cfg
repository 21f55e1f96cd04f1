\* A clock disabled while it is high and enabled again.
SPECIFICATION Spec
CONSTANTS
  Clocks = {clk}
  Waves <- MCEvenWave
  NoUuid = NoUuid
  NoClock = NoClock
  Kinds <- MCClockKinds
  HalfTicks <- MCHalfTicks
  Values <- MCValues
  Delays = {}
  MaxReq = 3
  MaxTime = 4
INVARIANTS
  EnableObeyed
CHECK_DEADLOCK FALSE
