SPECIFICATION Spec
SYMMETRY Symmetry
CONSTANTS
  read = read
  reset = reset
  Services <- TwoServices
  Attempts = 2
  OpTimeout = 3
  PendTimeout = 5
  EcuP2 = 2
  EcuP2Star = 4
  Faults <- NoLoss
  MaxCalls = 3
  MaxPendings = 2
  MaxNoise = 2
INVARIANTS
  ConformantEcuIsAnswered
