SPECIFICATION HarnessSpec
CONSTANTS
  NUM_STORAGE_REGS = 1
  NUM_FLAGS = 1
  MAX_USER_FLAG = 0
  ALPHA_BUFFER_LEN = 1
  ALPHA_PACK_LEN = 1
  PROGRAM_MAX_LINES = 2
  MAX_STEPS_PER_RUN = 2
  CALL_STACK_MAX_DEPTH = 1
  DIGIT_ENTRY_BUFFER_SIZE = 2
  LINE_BOUND = 2
  NumMax = 0
  Zero = 0
  Blank = " "
  Number <- MCNumber
  Strtod <- MCStrtod
  Arith <- MCArith
  Negate <- MCNegate
  Equal <- MCEqual
  Greater <- MCGreater
  IntCasts <- MCIntCasts
  FormatG <- MCFormatG
  Char <- MCHarnessChar
  KeysUsed <- MCKeysUsed
  DigitsUsed <- MCDigitsUsed
  CharsUsed <- MCCharsUsed
  Programs <- MCHarnessPrograms
  MAX_EVENTS_PER_FRAME = 2
  DISPLAY_MAX_CHARS = 2
  DISPLAY_STRING_LEN = 4
  FormatX <- MCFormatX
  EventsUsed = {"1", "SPACE", "ESCAPE", "F12", "INSERT", "U", "QUIT", "OTHER"}
  QUEUE_BOUND = 2
PROPERTIES
  CoreSpec
  TextKeysOnlyType
  FramesKeepComing
  FrameBudget
  FrameSettles
  ResetReached
  QuitReached
CHECK_DEADLOCK FALSE
