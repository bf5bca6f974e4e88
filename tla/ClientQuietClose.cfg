SPECIFICATION Spec
CONSTANTS
  Addresses = {a}
  MaxRpcs = 1
  MaxMessages = 1
INVARIANT QuietClose
\* The loop ends: closed, by an exception or by abort().
CHECK_DEADLOCK FALSE
