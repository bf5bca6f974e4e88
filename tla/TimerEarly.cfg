SPECIFICATION Spec
CONSTANTS
  Intervals = {2, 3}
  MaxTime = 9
  MaxQueued = 2
PROPERTY NotEarly
CHECK_DEADLOCK FALSE
