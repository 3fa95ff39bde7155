SPECIFICATION Spec
CONSTANTS
  Task = {t1}
  Device = {d1, d2, d3}
  Segment = {s1}
  MaxOpens = 3
  MaxAttach = 2
  MaxGeneration = 1
  NoTask = NoTask
  NoDevice = NoDevice
INVARIANT SegmentsExclusive
