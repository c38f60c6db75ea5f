SPECIFICATION Spec
CHECK_DEADLOCK FALSE
CONSTANTS
  Ids <- MCIds
  Timeouts <- TwoOrThree
  MaxFrames = 4
  MaxCalls = 3
  MaxBlock = 1
INVARIANTS
  ReceiverInv
  EndsInTime
PROPERTIES
  NothingIsMissed
