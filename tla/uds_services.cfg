SPECIFICATION Spec
CONSTANTS
  Attempts = 2
  Blocks = 3
  Wrap = 3
  Targets <- MCTargets
  DidLists <- MCLists
  Values <- MCValues
  Absent = Absent
  MaxCalls <- MCCalls
  MaxRestarts = 1
INVARIANTS
  TransferInv
  AnswersAreOwn
  SplitIsRight
