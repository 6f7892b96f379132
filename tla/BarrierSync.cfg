SPECIFICATION Spec
CONSTANTS
  c1 = c1
  c2 = c2
  c3 = c3
  c4 = c4
  Cores = {c1, c2, c3, c4}
  None = none
  Quantum = 2
  Steps = {1, 3}
  HostCores = 1
  MaxTime = 3
  Switches = {"stop", "roi-end"}
SYMMETRY CoreSymmetry
INVARIANTS SleepersKnown EverybodyRestarted ReleaseEnds SkewBounded SomebodyIsOut
CHECK_DEADLOCK FALSE
