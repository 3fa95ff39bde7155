SPECIFICATION FenceSpec
CONSTANTS
  Modulus = 16
  TestBefore = 11
  TestAfter = 13
  UnfencedMax = 2
  MaxFencesInFlight = 3
  MaxAhead = 5
INVARIANT DrainedMeansIdle
