SPECIFICATION FairSpec
CHECK_DEADLOCK FALSE
CONSTANTS
  Outputs <- MCOutputs
  Banners <- MCBanners
  EmptyReads = 1
  OddReads = 1
  Tries = 2
  MaxSlow = 2
  MaxCommands = 2
INVARIANTS
  SessionInv
  OutputOnceInOrder
PROPERTIES
  OperationsEnd
