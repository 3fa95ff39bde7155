SPECIFICATION ClientsSpec
CONSTANTS
  Modulus = 16
  TestBefore = 11
  TestAfter = 13
  UnfencedMax = 2
  MaxFencesInFlight = 3
  MaxAhead = 4
  PoolSession = {p1, p2}
  AUX_POOL_ALIGNMENT = 2
  AUX_SURFACE_PITCH_ALIGNMENT = 2
  AuxSurfaceBytes = 6
  MAX_AUX_SURFACES = 2
  RowBytes = {1, 3}
  Heights = {1}
  MaxFence = 2
  MaxInFlight = 1
  SAMPLE_RING_SIZE = 2
  Field = {WallTicks, Result}
  MaxSample = 5
  WORD = 32
  SegmentDwords <- RequestSegmentDwords
  SegmentGpu <- RequestSegmentGpu
  IB_ALIGNMENT = 2
  MAX_BATCH = 28
  Before <- RequestBefore
  After <- RequestAfter
  Target <- RequestTarget
  MAX_VERTICES = 6
  Memory <- RequestMemory
  PITCH_UNIT = 2
  InfoSize <- RequestInfoSize
  Asked <- RequestAsked
  Rewrites <- RequestRewrites
  RingUnits = 8
  SeqRange = 16
  FirstPlaces <- MCFirstPlaces
  FirstSeqs <- MCFirstSeqs
  BatchCounts <- MCBatchCounts
  BatchDefault = 2
  ExpiryTicks = 5
  MaxHosts = 2
  MaxChildren = 2
  MaxOwn = 2
  ProbeUnits = 32
  DebugMax = 8
  Faults = {"wrap", "pool", "64", "48", "reset", "readback"}
  OldScratch <- BootScratch
  Ops = {"FILL", "INVERT", "TEMPLATE", "COMPLETE", "DRAIN"}
  MaxCalls = 2
  MaxTicks = 1
INVARIANTS
  ClientsTypeOK
  FenceNeverEarly
  FencesAnswered
  PoolSound
  FencedWorkKeepsTarget
  SamplesWhole
  RequestsInside
  RingShared
  HandshakesSound
  DebugHonest
PROPERTY GivesUpUnready
SYMMETRY PoolSymmetry
CONSTRAINT NotOvertaken
CHECK_DEADLOCK FALSE
