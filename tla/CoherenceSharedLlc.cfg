SPECIFICATION Spec
CONSTANTS
  Home = home
  Dram = dramNode
  None = none
  c1 = c1
  l1 = l1
  c2 = c2
  l2 = l2
  c3 = c3
  l3 = l3
  LLCs = {l1, l2}
  Cores = {c1, c2, c3}
  LlcOf <- SharedLlc
  Addrs = {a1}
  Protocol = "MESI"
  MaxHwSharers = 2
  DirWays = 1
  MaxWrites = 0
  MaxWriteBacks = 1
INVARIANTS CacheAssertions
PROPERTIES WaitersServed
