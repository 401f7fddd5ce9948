SPECIFICATION Spec
CONSTANTS
  NUM_STORAGE_REGS = 2
  NUM_FLAGS = 3
  MAX_USER_FLAG = 1
  ALPHA_BUFFER_LEN = 3
  ALPHA_PACK_LEN = 2
  PROGRAM_MAX_LINES = 1
  MAX_STEPS_PER_RUN = 4
  CALL_STACK_MAX_DEPTH = 1
  DIGIT_ENTRY_BUFFER_SIZE = 3
  LINE_BOUND = 3
  PARSE_LINE_LEN = 7
  TOKEN_LEN = 2
  INT_MAX = 7
  LongMax = 63
  NumMax = 200
  Zero = 0
  Blank = " "
  Number <- MCNumber
  Strtod <- MCStrtod
  Arith <- MCArith
  Negate <- MCNegate
  Equal <- MCEqual
  Greater <- MCGreater
  IntCasts <- MCIntCasts
  FormatG <- MCFormatG
  Char <- MCParserChar
  Symbol <- MCSymbol
  Space <- MCSpace
  Quote <- MCQuote
  StrtodAll <- MCStrtodAll
  StrtolAll <- MCStrtolAll
  Lines <- MCLines
  Texts <- MCTexts
INVARIANT
  AcceptedMeansParsed
CHECK_DEADLOCK FALSE
