SPECIFICATION Spec
CONSTANTS
  Intervals = {2, 3}
  MaxTime = 9
  MaxQueued = 2
INVARIANT TypeOK
INVARIANT RunningFires
INVARIANT NoDrift
PROPERTY FutureDeadline
CHECK_DEADLOCK FALSE
