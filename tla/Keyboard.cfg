SPECIFICATION Spec
CONSTANTS
  NUM_STORAGE_REGS = 12
  NUM_FLAGS = 12
  MAX_USER_FLAG = 11
  ALPHA_BUFFER_LEN = 1
  ALPHA_PACK_LEN = 1
  PROGRAM_MAX_LINES = 2
  MAX_STEPS_PER_RUN = 1
  CALL_STACK_MAX_DEPTH = 1
  DIGIT_ENTRY_BUFFER_SIZE = 2
  LINE_BOUND = 2
  NumMax = 20
  Zero = 0
  Blank = " "
  Number <- MCNumber
  Strtod <- MCStrtod
  Arith <- MCArith
  Negate <- MCNegate
  Equal <- MCEqual
  Greater <- MCGreater
  IntCasts <- MCIntCasts
  FormatG <- MCFormatG
  Char <- MCChar
  KeysUsed = {"ON", "PRGM", "IND", "LBL", "FIX", "ENTER", "STO", "ALPHA"}
  DigitsUsed = {1}
  CharsUsed = {"a"}
  Programs <- NoPrograms
INVARIANTS
  TypeOK
  OneEntryAtATime
  PendingWellFormed
  MenuLosesNothing
  ProgramWellFormed
PROPERTIES
  RecordingIsPure
  RecordingAppends
