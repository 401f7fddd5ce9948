SPECIFICATION DrawSpec
CONSTANTS
  ORIGIN_X = 0
  ORIGIN_Y = 2
  CELL_W = 11
  CELL_H = 18
  MAX_CHARS = 12
  PANEL_WIDTH = 144
  PANEL_HEIGHT = 32
  Numerals <- MCNumerals
PROPERTY
  PointRidesOnPreviousCell
CHECK_DEADLOCK FALSE
