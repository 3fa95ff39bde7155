SPECIFICATION Spec
CONSTANTS
  Session = {s1, s2}
  NoSession = NoSession
  Versions = {20}
  Flags = {"fence", "nofence"}
SYMMETRY SessionSymmetry
INVARIANTS RingInSync
