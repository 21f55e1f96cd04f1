\* Three requests, every recovery, two trials per read.
SPECIFICATION Spec
CONSTANTS
  Recovery <- MCEveryRecovery
  NumTrials = 2
  MaxReq = 3
  MaxCalls = 6
INVARIANTS
  TypeOK
  PatientClientIsRight
  ExpectedCounts
CHECK_DEADLOCK FALSE
