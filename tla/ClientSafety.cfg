SPECIFICATION FairSpec
CONSTANTS
  Addresses = {a, b}
  MaxRpcs = 2
  MaxMessages = 3
INVARIANT TypeOK
INVARIANT AckedOnce
INVARIANT Guarded
PROPERTY CloseOrder
PROPERTY ContractSpec
PROPERTY RpcSettles
PROPERTY StopEnds
\* The loop ends: closed, by an exception or by abort().
CHECK_DEADLOCK FALSE
