SPECIFICATION Spec
CONSTANTS
  Secure = FALSE
  FailThrows = FALSE
  BlockSizes = {1, 3}
  Timeouts = {0, 2}
  MaxBytes = 9
  MaxBeats = 2
INVARIANT TypeOK
INVARIANT WireInOrder
INVARIANT SingleWriter
INVARIANT NoLostFlush
 
INVARIANT QueueAndReadAsserts
INVARIANT HeartbeatChain
INVARIANT GracefulClose
PROPERTY NoBlowUp
PROPERTY StreamSpec
\* The loop ends: with the connection closed, by an exception or by an assertion.
CHECK_DEADLOCK FALSE
