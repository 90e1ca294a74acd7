SPECIFICATION Spec
CONSTANTS
  c1 = c1
  c2 = c2
  s1 = s1
  t1 = t1
  t2 = t2
  Dags <- BothDags
  Client = Client
  Corrs = {c1}
  Schedule <- OneInbound
  Length = 1
  Strays = {s1}
  Poison = {s1}
  Topics = {t1}
  NoTopic = NoTopic
  TopicOf <- OneTopic
  None = None
  MaxBatch = 2
  MaxPosts = 1
  MaxFaults = 1
INVARIANTS
  TypeOK
  OnlySuccessIsPublished
  CommittedIsStored
