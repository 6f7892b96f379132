SPECIFICATION MCSpec
CONSTANTS
  MaxTime = 1000
  RobConfigs <- RobConfigSet
  RobUops <- RobUopSet
  RobNop <- NopUop
  RobMaxUops = 3
  RobMaxNops = 4
  SmtConfigs <- SmtConfigSet
  SmtUops <- SmtUopSet
  SmtMaxUops = 2
  SmtMaxNops = 1
  SmtSleepers = {2}
  SmtMaxToggles = 1
  ItConfigs <- ItConfigSet
  ItUops <- ItUopSet
  ItMaxUops = 4
  Slots = {1, 2}
  Tasks = {1, 2, 3}
  SmtLimit = 2
  SmtEnough = 2
  SmtDirectMoves = {TRUE, FALSE}
  SmtMoves = 2
  PmConfigs <- PmConfigSet
  PmInstrs <- PmInstrSet
  PmPseudo <- PmPseudoSet
  PmLatencies = {3, 6}
  PmCycles = {0, 1}
  PmMaxTime = 6
  PmMaxQueue = 1
  BpConfigs <- BpConfigSet
  BpWarm = 4
  BpMaxCount = 5
INVARIANTS
  SmtBarrierSound
  RobSound
  SmtPassedOver
  IntervalSound
  CoreTimeSound
  BranchesLearned
CHECK_DEADLOCK FALSE
