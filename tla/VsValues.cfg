\* Arrays of three elements, lists of up to four items, indices up to one beyond.
SPECIFICATION FairSpec
CONSTANTS
  Depth = 3
  SizeTop = 7
  MaxHalves = 3
  Values <- MCValues
  MaxIndex = 3
  NaN = NaN
INVARIANTS
  TypeOK
  InBounds
  GetIsSlice
  SetIsSlice
  RefusedLeavesAlone
PROPERTIES
  EveryRequestAnswered
CHECK_DEADLOCK FALSE
