SPECIFICATION FairSpec
CONSTANTS
  RingDwords = 8
  RingAlignment = 2
  MaxBatchDwords = 3
  StallPolls = 3
  Dword <- MCDword
  Batches <- MCBatches
  Fences <- MCFences
  FenceCommands <- MCFenceCommands
  Startup <- MCStartup
  Packet2 = "nop"
  NoDword = "empty"
INVARIANTS TypeOK NoOverwrite
PROPERTIES RefinesQueue CommitReturns
