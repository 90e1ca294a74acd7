CONSTANTS
  Types <- MCTypes
  NoType = NoType
  Successor <- MCSuccessor
  Rank <- MCRank
  Guarded <- MCGuarded
  Roots <- MCRoots
  Windows <- MCDay
  Allowed <- MCAllowedByDay
  Corrs = {c1, c2}
  Aggs <- MCOneAgg
  AggAfter <- MCSameAgg
  AllCorrs = AllCorrs
  NoTime = NoTime
  StartTimes = {0, 2}
  Delays = {1, 2}
  RetryBase = 1
  RetryCap = 2
  MaxRetry = 1
  MaxSeeds = 2
  MaxPublished = 1
  MaxFaults = 0
  MaxLength = 4
CHECK_DEADLOCK FALSE
SPECIFICATION Spec
INVARIANT TypeOK
 
INVARIANT CheckpointIsProcessed
 
SYMMETRY MCSymmetry
