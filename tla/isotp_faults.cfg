SPECIFICATION StackSpec
CONSTANTS
  Stacks <- MCStacks
  MaxBuses = 4
INVARIANTS
  StackTypeOK
  NoBusIsLost
  OpenStackOwnsTheBus
