\* A read with a time-out of its own fails.
SPECIFICATION Spec
CONSTANTS
  Recovery = {"read"}
  NumTrials = 3
  MaxReq = 1
  MaxCalls = 2
INVARIANTS
  TimeoutRestored
CHECK_DEADLOCK FALSE
