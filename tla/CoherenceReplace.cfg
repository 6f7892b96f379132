SPECIFICATION Spec
CONSTANTS
  Home = home
  Dram = dramNode
  None = none
  c1 = c1
  l1 = l1
  c2 = c2
  l2 = l2
  c3 = c3
  l3 = l3
  LLCs = {l1, l2}
  Cores = {c1, c2}
  LlcOf <- PrivateLlcs
  Addrs = {a1, a2, a3}
  Protocol = "MSI"
  MaxHwSharers = 1
  DirWays = 2
  MaxWrites = 0
  MaxWriteBacks = 0
SYMMETRY LineSymmetry
INVARIANTS AllocationSucceeds DirectoryAssertions
