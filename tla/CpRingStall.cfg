SPECIFICATION Spec
CONSTANTS
  RingDwords = 6
  RingAlignment = 2
  MaxBatchDwords = 3
  StallPolls = 2
  Dword <- MCDword
  Batches <- MCBatches
  Fences <- MCFences
  FenceCommands <- MCFenceCommands
  Startup <- MCStartup
  Packet2 = "nop"
  NoDword = "empty"
PROPERTY StallMeansHung
