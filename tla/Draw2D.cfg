SPECIFICATION Draw2DSpec
CONSTANTS
  BaseAlign = 4
  PitchAlign = 2
  MaxCalls = 2
  MaxPitch = 4
  MaxCoord = 4
  Aperture = 16
  HostBits = 3
  ByteBits = 2
  PatternEdge = 2
  StageBytes = 4
  Plane <- MCPlane
  Render <- MCRender
  Pairs <- MCPairs
  Rects <- MCRects
  Shifts <- MCShifts
  DrawFormats <- MCDrawFormats
  Pens <- MCPens
  Masks <- MCMasks
  Opcodes <- MCOpcodes
  Patterns <- MCPatterns
  Templates <- MCTemplates
  Lines <- MCLines
  Planars <- MCPlanars
  Cim <- MCCim
  Openings <- MCOpenings
INVARIANTS
  Draw2DTypeOK
  PaintsAsAsked
  NothingLost
  CachesCoherent
