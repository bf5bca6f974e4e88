SPECIFICATION FairSpec
CONSTANTS
  Kinds = {"sink", "drain", "source", "transformer", "db"}
  Queues = {p, q}
  Metrics = {a, b}
  MaxRequests = 2
INVARIANT TypeOK
INVARIANT NamedQueueServed
 
INVARIANT DeclaredWhenReady
PROPERTY StaysOnQueue
PROPERTY SetupCompletes
\* The client ends: by an exception, by abort() or because it was stopped.
CHECK_DEADLOCK FALSE
