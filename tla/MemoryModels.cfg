SPECIFICATION MCSpec
CONSTANTS
  MaxTime = 1000
  QmModulus = 1024
  CsConfigs <- CsConfigSet
  CsUpgrading = 2
  ChConfigs <- ChConfigSet
  ChAddrs = {"a", "b", "c"}
  ChNone = "none"
  ChAhead <- ChNextLines
  QmConfigs <- QmConfigSet
  QmTimes = {0, 1, 3, 4, 7, 40}
  QmCosts = {3, 4}
  QmMaxRequests = 4
  NetConfigs <- NetConfigSet
  NetTimes = {1}
  NetMaxForwards = 1
  PfConfigs <- PfConfigSet
  ScConfigs <- ScConfigSet
INVARIANTS
  ReplacementSound
  HierarchySound
  QueuesSound
  NetworkSound
  TablesSound
CHECK_DEADLOCK FALSE
