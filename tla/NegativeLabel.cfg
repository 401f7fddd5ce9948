SPECIFICATION Spec
CONSTANTS
  NUM_STORAGE_REGS = 1
  NUM_FLAGS = 3
  MAX_USER_FLAG = 1
  ALPHA_BUFFER_LEN = 3
  ALPHA_PACK_LEN = 2
  PROGRAM_MAX_LINES = 4
  MAX_STEPS_PER_RUN = 4
  CALL_STACK_MAX_DEPTH = 1
  DIGIT_ENTRY_BUFFER_SIZE = 3
  LINE_BOUND = 4
  NumMax = 10
  Zero = 0
  Blank = " "
  Number <- MCNumber
  Strtod <- MCStrtod
  Arith <- MCArith
  Negate <- MCNegate
  Equal <- MCEqual
  Greater <- MCGreater
  IntCasts <- MCIntCasts
  FormatG <- MCFormatG
  Char <- MCChar
  KeysUsed = {"RUN_STOP"}
  DigitsUsed = {}
  CharsUsed = {}
  Programs <- NegativeLabelPrograms
PROPERTIES
  UnresolvedPointerIsNoOp
