SPECIFICATION Spec
CONSTANTS
  Home = home
  Dram = dramNode
  None = none
  c1 = c1
  l1 = l1
  c2 = c2
  l2 = l2
  c3 = c3
  l3 = l3
  LLCs = {l1, l2, l3}
  Cores = {c1, c2, c3}
  LlcOf <- PrivateLlcs
  Addrs = {a1}
  Protocol = "MESIF"
  MaxHwSharers = 3
  DirWays = 1
  MaxWrites = 0
  MaxWriteBacks = 1
SYMMETRY NodeSymmetry
INVARIANTS TypeOK SingleWriter DirectoryCovers QuietAgreement DirectoryAssertions
