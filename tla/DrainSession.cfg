SPECIFICATION FairSpec
CONSTANTS
  Metrics = {"a", "b"}
  AppRows <- MCAppRows
  DummyRows <- MCDummyRows
  PerChunk = 3
  ChunkSizes = {0, 1, 2}
  Tools = {"summary", "sink", "query"}
  Counts = {0, 1}
  StartDelta = 0
  StopDelta = 0
INVARIANT TypeOK
INVARIANT ChunksDecode
INVARIANT FlushedInTime
 
PROPERTY ContractSpec
PROPERTY SessionEnds
\* The programs end.
CHECK_DEADLOCK FALSE
