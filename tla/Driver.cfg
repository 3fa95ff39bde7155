SPECIFICATION DriverSpec
CONSTANTS
  PRIVATE_VRAM_ALIGNMENT = 2
  Bytes <- MCBytes
  Installed <- MCInstalled
  STAGE_SLACK = 8
  Firmware <- MCFirmware
  MaxOpen = 2
  MaxSteps = 6
  KHz = 10
  Boards <- MCBoards
  Modes <- MCModes
  Timing <- MCTiming
  Clocks <- MCClocks
  Formats <- MCFormats
  Pannings <- MCPannings
  Mouse <- MCMouse
  PaletteSize = 2
  Colors <- MCColors
  CURSOR_WIDTH = 4
  MaxDisplayCalls = 6
  Setups <- BiosSetups
  BIOS_WORD = 520
  PLL_REF_MASK = 63
  FB_MIN = 4
  FB_APERTURE = 16
  LastPage = 100
  MAX_ENTRIES = 5
  Session = {s1, s2}
  NoSession = NoSession
  Versions = {18, 20}
  Flags = {"fence", "nofence"}
INVARIANTS
  DriverTypeOK
  BorrowedReturned
  CardUsable
  MemoryTiled
  NothingLeftBehind
  ReadyIsRunning
  FetchGuarded
  TagCoversWork
  SoftwareAlone
  EngineKept
  PictureRight
  ClockRight
  NoDanglingMode
PROPERTY UnsafeStays
SYMMETRY SessionSymmetry
CHECK_DEADLOCK FALSE
