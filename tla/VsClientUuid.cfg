\* Requests go on after a failure.
SPECIFICATION Spec
CONSTANTS
  Recovery = {"send"}
  NumTrials = 3
  MaxReq = 3
  MaxCalls = 3
INVARIANTS
  UuidVerified
CHECK_DEADLOCK FALSE
