SPECIFICATION LcdSpec
CONSTANTS
  HEIGHT_PX = 32
  BYTES_PER_ROW = 18
  Framebuffers <- MCFramebuffers
  PowerOnRam <- MCPowerOnRam
INVARIANTS
  NothingDropped
  RowsInPlace
PROPERTY
  FrameShown
CHECK_DEADLOCK FALSE
