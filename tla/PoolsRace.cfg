SPECIFICATION PoolsSpec
CONSTANTS
  PoolSession = {p1, p2}
  AUX_POOL_ALIGNMENT = 2
  AUX_SURFACE_PITCH_ALIGNMENT = 2
  AuxSurfaceBytes = 8
  MAX_AUX_SURFACES = 2
  RowBytes = {1, 3}
  Heights = {1}
  MaxFence = 0
  MaxInFlight = 0
CHECK_DEADLOCK FALSE
INVARIANT SurfacesAlwaysDisjoint
