CONSTANTS
  max_capacity = 6
  MaxLogs = 8
SPECIFICATION Spec
INVARIANT OutputInOrder RecordsAccounted
PROPERTY ImplementsLog DropsOnlyUnderLoad HeldBackNoLonger
