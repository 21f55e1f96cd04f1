\* Safety, liveness and refinement of the VPI application: two clients, two
\* requests each, every request.
SPECIFICATION FairSpec
CONSTANTS
  Conns = {c1, c2}
  NoConn = NoConn
  NoUuid = NoUuid
  NoCb = NoCb
  Kinds <- AllKinds
  HalfTicks <- MCHalfTicks
  Values <- MCValues
  MaxReq = 2
  MaxTime = 2
INVARIANTS
  TypeOK
  CallbackDiscipline
  NoStaleDescriptor
  Ledger
  ReplyCarriesUuid
PROPERTIES
  AckIsHonest
  TimeFrozen
  EveryRequestAnswered
  ImplementsFocus
CHECK_DEADLOCK FALSE
