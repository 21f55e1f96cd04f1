\* Framing: two messages, two reads per part, two writes per reply.
SPECIFICATION FairSpec
CONSTANTS
  ByteSize = 3
  IntMax = 10
  SSizeMax = 21
  JunkLengths = {2, 9}
  BufferSize = 8
  ReadTrials = 2
  WriteTrials = 2
  Messages <- MCMessages
  Replies <- MCReplies
  MaxSent = 2
INVARIANTS
  TypeOK
  LossHasReason
  BufferHolds
  RepliesWhole
PROPERTIES
  ImplementsMailbox
  EveryMessageSettled
CHECK_DEADLOCK FALSE
