\* The focus after a stop request.
SPECIFICATION Spec
CONSTANTS
  Conns = {c1, c2}
  NoConn = NoConn
  NoUuid = NoUuid
  NoCb = NoCb
  Kinds <- AllKinds
  HalfTicks <- MCHalfTicks
  Values <- MCValues
  MaxReq = 1
  MaxTime = 2
INVARIANTS
  StopGivesFocus
CHECK_DEADLOCK FALSE
