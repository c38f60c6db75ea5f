SPECIFICATION Spec
CONSTANTS
  Sessions <- MCSessions
  Default = 1
  Reachable <- MCRefusing
  Route <- Plain
  Elevation = FALSE
  Current = 3
  Decimal <- MCDecimal
  Unreadable = 0
  Faults <- OnlySlow
  MaxCalls = 3
  MaxCrashes = 0
INVARIANTS
  TransitTellsTheTruth
