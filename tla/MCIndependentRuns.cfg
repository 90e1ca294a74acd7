CONSTANTS
  t1 = t1  t2 = t2  p1 = p1  p2 = p2  s1 = s1  s2 = s2  c1 = c1
  NoId = NoId
  Threads <- MCThreads
  Processes <- MCProcesses
  ProcOf <- MCProcOf
  Sims <- MCSims
  Corrs <- MCCorrs
  Chain <- MCChain
  MaxFaults = 1
SPECIFICATION FairSpec
INVARIANTS TypeOK Serialised OneRootAggregate OneShipment RetryableIsClean SuccessIsComplete OneRunPerCorrelation
PROPERTIES FinalIsFinal LockIsReleased RunsEnd
