SPECIFICATION FairSpec
CONSTANTS
  Secure = TRUE
  FailThrows = TRUE
  BlockSizes = {1}
  Timeouts = {2}
  MaxBytes = 7
  MaxBeats = 1
PROPERTY AllSent
PROPERTY CloseCompletes
\* The loop ends: with the connection closed, by an exception or by an assertion.
CHECK_DEADLOCK FALSE
