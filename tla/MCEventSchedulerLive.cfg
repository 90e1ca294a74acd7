CONSTANTS
  Types <- MCTypes
  NoType = NoType
  Successor <- MCSuccessor
  Rank <- MCRank
  Guarded <- MCGuarded
  Roots <- MCRoots
  Windows <- MCWindows
  Allowed <- MCAllowed
  Corrs = {c1}
  Aggs <- MCAggs
  AggAfter <- MCAggAfter
  AllCorrs = AllCorrs
  NoTime = NoTime
  StartTimes = {0, 2}
  Delays = {1, 2}
  RetryBase = 1
  RetryCap = 2
  MaxRetry = 2
  MaxSeeds = 1
  MaxPublished = 0
  MaxFaults = 1
  MaxLength = 4
CHECK_DEADLOCK FALSE
SPECIFICATION FairSpec
PROPERTY EventsAreDrained
