SPECIFICATION Spec
CONSTANTS
  read = read
  reset = reset
  Services <- TwoServices
  Attempts = 2
  OpTimeout = 1
  PendTimeout = 2
  EcuP2 = 2
  EcuP2Star = 2
  Faults <- AllButNoise
  MaxCalls = 2
  MaxPendings = 1
  MaxNoise = 0
PROPERTIES
  KeepsContract
INVARIANTS
  TypeOK
  AnswerIsFinal
  AnswersInOrder
  StaleOnlyAfterGivingUp
  WaitBounded
