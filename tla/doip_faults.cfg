SPECIFICATION Spec
CONSTANTS
  ActivationNeeded = TRUE
  Faults <- AllFaults
  MaxCalls = 3
  MaxUnsolicited = 1
INVARIANTS
  LinkInv
  UnsentIsNeverServed
  InStep
PROPERTIES
  EveryCallEnds
  IsLossyLink
