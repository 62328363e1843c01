CONSTANTS
  Cap = 3
  Byte = {0, 1, 2}
SPECIFICATION Spec
INVARIANT PointersOrdered
PROPERTY ImplementsQueue
CHECK_DEADLOCK FALSE
