\* Safety, liveness and refinement of the Verilator integration: one clock, a design with delays.
SPECIFICATION FairSpec
CONSTANTS
  Clocks = {clk}
  Waves <- MCWaves
  NoUuid = NoUuid
  NoClock = NoClock
  Kinds <- AllKinds
  HalfTicks <- MCHalfTicks
  Values <- MCValues
  Delays = {2}
  MaxReq = 3
  MaxTime = 4
INVARIANTS
  TypeOK
  OneCallback
  Ledger
  ReplyCarriesUuid
  NothingSkipped
  DisableObeyed
PROPERTIES
  TimeForward
  AckIsHonest
  EveryRequestAnswered
  ImplementsFocus
CHECK_DEADLOCK FALSE
