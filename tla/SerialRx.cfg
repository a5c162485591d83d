CONSTANTS
  Size = 14
  Radix = 5
  FifoDepth = 2
  SafeBacklog = 2
  MaxBytes = 20
  MaxSpeedChanges = 1
SPECIFICATION FairSpec
INVARIANTS TypeOK FifoOrder NoDrop
PROPERTIES ImplementsQueue EverythingRead
CHECK_DEADLOCK FALSE
