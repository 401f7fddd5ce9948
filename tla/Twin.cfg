SPECIFICATION TwinSpec
CONSTANTS
  NUM_STORAGE_REGS = 12
  NUM_FLAGS = 1
  MAX_USER_FLAG = 0
  ALPHA_BUFFER_LEN = 3
  ALPHA_PACK_LEN = 2
  PROGRAM_MAX_LINES = 5
  MAX_STEPS_PER_RUN = 6
  CALL_STACK_MAX_DEPTH = 1
  DIGIT_ENTRY_BUFFER_SIZE = 4
  LINE_BOUND = 6
  NumMax = 120
  Zero = 0
  Blank = " "
  Number <- MCNumber
  Strtod <- MCStrtod
  Arith <- MCArith
  Negate <- MCNegate
  Equal <- MCEqual
  Greater <- MCGreater
  IntCasts <- MCIntCasts
  FormatG <- MCFormatG
  Char <- MCChar
  KeysUsed = {"RUN_STOP", "PRGM", "DECIMAL_POINT", "CHS", "BACKSPACE", "ENTER", "CLX", "PLUS", "X_EXCHANGE_Y", "LASTX", "STO", "RCL", "ASTO", "IND", "ALPHA"}
  DigitsUsed = {1}
  CharsUsed = {"a"}
  Programs <- NoPrograms
INVARIANTS
  TypedAsRecorded
  EntryWellFormed
