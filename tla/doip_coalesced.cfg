SPECIFICATION Spec
CONSTANTS
  ActivationNeeded = TRUE
  Faults <- OnlyCoalesce
  MaxCalls = 3
  MaxUnsolicited = 0
INVARIANTS
  ReceivedResponseIsReturned
