SPECIFICATION MCSpec
CONSTANTS
  NumThreads = 3
  NumCores = 2
  SchedulerTypes = {"pinned", "roaming", "big_small", "sequential", "static"}
  CoreMask = {0, 1}
  BigCores = {1}
  Interleaving = 1
  Sequence <- Seq12
  Period = 4
  Quantum = 4
  SchedMaxTime <- SchedTimes
  SchedMaxCalls = 1
  TrNumApps = {2, 3}
  TrMaxApps = 3
  TrMaxNew = 1
  TrMaxEnders = 2
  TtCode <- TtProgram
  TtDigit = 3
  TtIds <- TtBits
  TtMaxSteps = 5
  TtMaxModes = 2
  SpCores = {0, 1}
  SpConfigs <- SpAll
  SpLatencies = {2}
  SpMaxTime = 8
INVARIANTS
  SchedulerAgrees
  NobodyStarves
  ApplicationsEnd
  TraceAccounted
  SamplingSound
CHECK_DEADLOCK FALSE
