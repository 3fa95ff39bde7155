SPECIFICATION DisplaySpec
CONSTANTS
  KHz = 10
  Boards <- MCBoards
  Modes <- MCModes
  Timing <- MCTiming
  Clocks <- MCClocks
  Formats <- MCFormats
  Pannings <- MCPannings
  Mouse <- MCMouse
  PaletteSize = 2
  Colors <- MCColors
  CURSOR_WIDTH = 4
  MaxDisplayCalls = 7
CHECK_DEADLOCK FALSE
INVARIANT ReleasedIsDark
