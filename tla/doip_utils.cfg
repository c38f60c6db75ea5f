SPECIFICATION Spec
SYMMETRY Symmetry
CONSTANTS
  a = a
  b = b
  Kinds <- MCKinds
  Capacity = 2
  Answerers = 2
  MaxRequests = 2
  MaxPackets = 3
  Pairs <- TwoPairs
  MaxConns = 3
  MaxOperations = 2
  MaxLosses = 1
INVARIANTS
  ConnectionsInv
  AnswersAreTimely
  ActivationIsOwn
