SPECIFICATION Spec
CONSTANTS
  Secure = FALSE
  FailThrows = FALSE
  BlockSizes = {1}
  Timeouts = {2}
  MaxBytes = 6
  MaxBeats = 1
INVARIANT NoAssert
\* The loop ends: with the connection closed, by an exception or by an assertion.
CHECK_DEADLOCK FALSE
