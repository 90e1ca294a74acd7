CONSTANTS
  s1 = s1  w1 = w1  w2 = w2
  NoDuration = NoDuration  NoTime = NoTime
  Sims = {s1}
  Workers = {w1, w2}
  Durations = {2}
  Horizon = 3
  MaxCycles = 3
SPECIFICATION FairSpec
INVARIANTS TypeOK OneThreadPerRun CyclesAreSerialised CheckpointNotAhead
PROPERTY ExecutionLockIsReleased
