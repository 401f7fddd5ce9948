SPECIFICATION Spec
CONSTANTS
  NUM_STORAGE_REGS = 2
  NUM_FLAGS = 3
  MAX_USER_FLAG = 1
  ALPHA_BUFFER_LEN = 3
  ALPHA_PACK_LEN = 2
  PROGRAM_MAX_LINES = 5
  MAX_STEPS_PER_RUN = 8
  CALL_STACK_MAX_DEPTH = 2
  DIGIT_ENTRY_BUFFER_SIZE = 4
  LINE_BOUND = 6
  NumMax = 10
  Zero = 0
  Blank = " "
  Number <- MCNumber
  Strtod <- MCStrtod
  Arith <- MCArith
  Negate <- MCNegate
  Equal <- MCEqual
  Greater <- MCGreater
  IntCasts <- MCIntCasts
  FormatG <- MCFormatG
  Char <- MCChar
  KeysUsed = {"RUN_STOP", "XEQ", "RTN"}
  DigitsUsed = {0, 1}
  CharsUsed = {}
  Programs <- CallPrograms
INVARIANTS
  TypeOK
  ReturnsFollowCalls
  RunStaysInProgram
PROPERTIES
  RunTerminates
