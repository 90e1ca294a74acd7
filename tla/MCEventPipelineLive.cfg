SPECIFICATION FairSpec
CONSTANTS
  c1 = c1
  c2 = c2
  s1 = s1
  t1 = t1
  t2 = t2
  Dags <- OutboundDag
  Client = Client
  Corrs = {c2}
  Schedule <- OneCallEach
  Length = 2
  Strays = {}
  Poison = {}
  Topics = {t1, t2}
  NoTopic = NoTopic
  TopicOf <- TopicPerRow
  None = None
  MaxBatch = 2
  MaxPosts = 0
  MaxFaults = 2
PROPERTIES
  SuccessIsStored
INVARIANT CompletedIsPublished
