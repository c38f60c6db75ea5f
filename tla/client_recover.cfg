SPECIFICATION Spec
CONSTANTS
  Sessions <- MCSessions
  Default = 1
  Reachable <- MCReachable
  Route <- Extended
  Elevation = TRUE
  Current = 3
  Decimal <- MCDecimal
  Unreadable = 0
  Faults <- OnlyCrashes
  MaxCalls = 2
  MaxCrashes = 1
INVARIANTS
  RecoverRestoresElevation
