SPECIFICATION Spec
CONSTANTS
  NUM_STORAGE_REGS = 2
  NUM_FLAGS = 3
  MAX_USER_FLAG = 1
  ALPHA_BUFFER_LEN = 3
  ALPHA_PACK_LEN = 2
  PROGRAM_MAX_LINES = 16
  MAX_STEPS_PER_RUN = 20
  CALL_STACK_MAX_DEPTH = 2
  DIGIT_ENTRY_BUFFER_SIZE = 4
  LINE_BOUND = 17
  NumMax = 30
  Zero = 0
  Blank = " "
  Number <- MCNumber
  Strtod <- MCStrtod
  Arith <- MCArith
  Negate <- MCNegate
  Equal <- MCEqual
  Greater <- MCGreater
  IntCasts <- MCIntCasts
  FormatG <- MCFormatG
  Char <- MCChar
  KeysUsed = {"RUN_STOP", "USER", "CHS", "DECIMAL_POINT", "BACKSPACE"}
  DigitsUsed = {}
  CharsUsed = {}
  Programs <- ExecPrograms
INVARIANTS
  TypeOK
  ReservedFlagsClear
