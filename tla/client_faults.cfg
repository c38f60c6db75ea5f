SPECIFICATION Spec
CONSTANTS
  Sessions <- MCSessions
  Default = 1
  Reachable <- MCReachable
  Route <- Manufacturers
  Elevation = TRUE
  Current = 3
  Decimal <- MCDecimal
  Unreadable = 0
  Faults <- AllFaults
  MaxCalls = 4
  MaxCrashes = 1
INVARIANTS
  ClientInv
  DetectorsAreRight
