SPECIFICATION Spec
CONSTANTS
  MaxFaults = 1
INVARIANT RestoredIsOriginal
CHECK_DEADLOCK FALSE
