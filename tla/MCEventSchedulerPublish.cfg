CONSTANTS
  Types <- MCTypes
  NoType = NoType
  Successor <- MCSuccessor
  Rank <- MCRank
  Guarded <- MCGuarded
  Roots <- MCRoots
  Windows <- MCWindows
  Allowed <- MCAllowed
  Corrs = {c1}
  Aggs <- MCAggs
  AggAfter <- MCAggAfter
  AllCorrs = AllCorrs
  NoTime = NoTime
  StartTimes = {0}
  Delays = {1}
  RetryBase = 1
  RetryCap = 2
  MaxRetry = 1
  MaxSeeds = 1
  MaxPublished = 1
  MaxFaults = 0
  MaxLength = 4
CHECK_DEADLOCK FALSE
SPECIFICATION Spec
INVARIANT ExecutedBeforeCompleted
