SPECIFICATION FairSpec
CONSTANTS
  Task = {t1, t2}
  Device = {d1, d2}
  Segment = {s1}
  MaxOpens = 2
  MaxAttach = 1
  MaxGeneration = 3
  NoTask = NoTask
  NoDevice = NoDevice
INVARIANTS TypeOK NoUseAfterFree CountsBalance BodyHasBoard ClosedIsCleaned SegmentsExclusive
PROPERTY OperationsEnd
CHECK_DEADLOCK FALSE
