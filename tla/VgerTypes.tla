------------------------------ MODULE VgerTypes ------------------------------
(***************************************************************************)
(* The vocabulary of the vger core: the limits of vger_config.h, the keys   *)
(* and step kinds of vger_types.h and vger_program.h, the argument table of *)
(* vger_interp.c, and what the core takes from the C library and from IEEE  *)
(* doubles, as constants with the assumptions the model needs.              *)
(***************************************************************************)
EXTENDS Integers, SequencesExt

CONSTANTS
  NUM_STORAGE_REGS,        \* vger_config.h:16
  NUM_FLAGS,               \* vger_config.h:21
  MAX_USER_FLAG,           \* vger_config.h:24
  ALPHA_BUFFER_LEN,        \* vger_config.h:27
  ALPHA_PACK_LEN,          \* vger_config.h:30
  PROGRAM_MAX_LINES,       \* vger_config.h:33
  MAX_STEPS_PER_RUN,       \* vger_config.h:48
  CALL_STACK_MAX_DEPTH,    \* vger_config.h:63
  DIGIT_ENTRY_BUFFER_SIZE, \* sizeof digit_entry_buffer, its NUL included
  LINE_BOUND               \* bound of the model: current_line stays below it

CONSTANTS
  Number,                  \* the values a double takes
  Zero,                    \* 0.0
  Strtod(_),               \* the number an entry buffer spells
  Arith(_, _, _),          \* + - * / with the opcode, then y, then x
  Negate(_),               \* unary minus
  Equal(_, _),             \* ==
  Greater(_, _),           \* >
  IntCasts(_),             \* the ints (int)d may give
  FormatG(_),              \* the text of "%g"
  Char,                    \* the characters of ALPHA text
  Blank                    \* ' '

\* The C limits are positive, and the reserved flags lie above the user ones.
ASSUME LimitsAssumption ==
  /\ NUM_STORAGE_REGS \in Nat \ {0}
  /\ NUM_FLAGS \in Nat \ {0}
  /\ MAX_USER_FLAG \in 0 .. NUM_FLAGS - 1
  /\ ALPHA_BUFFER_LEN \in Nat \ {0}
  /\ ALPHA_PACK_LEN \in Nat \ {0}
  /\ PROGRAM_MAX_LINES \in Nat \ {0}
  /\ MAX_STEPS_PER_RUN \in Nat \ {0}
  /\ CALL_STACK_MAX_DEPTH \in Nat \ {0}
  /\ DIGIT_ENTRY_BUFFER_SIZE \in Nat \ {0, 1}
  /\ LINE_BOUND \in Nat
  /\ LINE_BOUND >= PROGRAM_MAX_LINES

-----------------------------------------------------------------------------
(* Keys.  A key and the opcode a step carries share one enumeration.        *)

ArithKeys == {"PLUS", "MINUS", "TIMES", "DIVIDE"}

ComparisonKeys == {"X_EQ_0", "X_NE_0", "X_GT_0", "X_LT_0",
                   "X_EQ_Y", "X_NE_Y", "X_GT_Y", "X_LT_Y"}

RegKeys    == {"STO", "RCL", "ASTO", "ARCL"}
FlagKeys   == {"SF", "CF", "FS_QUESTION_C"}
LabelKeys  == {"LBL", "GTO", "XEQ"}
DigitsKeys == {"FIX", "SCI", "ENG"}

\* Keys that start an instruction with an argument.
ArgKeys == RegKeys \cup FlagKeys \cup LabelKeys \cup DigitsKeys

\* Keys whose instruction is complete as it stands.
OpcodeKeys == ArithKeys \cup ComparisonKeys \cup
              {"CHS", "ENTER", "X_EXCHANGE_Y", "CLX", "LASTX", "RTN", "END"}

\* Keys the dispatcher takes before it looks at a pending argument.
ModeKeys == {"ON", "PRGM", "USER", "ALPHA", "BACKSPACE", "RUN_STOP", "IND"}

\* Every key but the ten digits and the characters, which carry a value.
Keys == ArgKeys \cup OpcodeKeys \cup ModeKeys \cup {"DECIMAL_POINT"}

\* How many digits complete a direct argument.
ArgDigits(key) == IF key \in DigitsKeys THEN 1 ELSE 2

-----------------------------------------------------------------------------
(* The digit-entry buffer: 0 .. 9 are the digits, then '.' and '-'.         *)

Digit == 0 .. 9
Point == 10
Minus == 11
EntryChar == Digit \cup {Point, Minus}

\* What fits the buffer beside its NUL.
EntryText == UNION {[1 .. n -> EntryChar] : n \in 0 .. DIGIT_ENTRY_BUFFER_SIZE - 1}

\* Entries with nothing in them for strtod to convert, which gives 0 for them.
Digitless == {<<>>, <<Point>>, <<Minus>>, <<Minus, Point>>}

-----------------------------------------------------------------------------
(* Program steps.  The step kind is a function of the opcode in both tables *)
(* that build steps (VGER_ARG_SPECS and VGER_MNEMONICS), so one tag stands   *)
(* for the pair; the two literal kinds are the tags NUMBER and ALPHA.       *)

StepOpcodes == ArgKeys \cup OpcodeKeys \cup {"RUN_STOP", "NUMBER", "ALPHA"}

\* Text with at most n characters.
TextUpTo(n) == {text \in Seq(Char) : Len(text) <= n}

Step == [opcode : StepOpcodes, number : Number,
         text : TextUpTo(ALPHA_BUFFER_LEN - 1), arg : Int, indirect : BOOLEAN]

\* The memset that precedes every construction of a step.
ClearStep(opcode) ==
  [opcode |-> opcode, number |-> Zero, text |-> <<>>, arg |-> 0, indirect |-> FALSE]

NumberStep(value) == [ClearStep("NUMBER") EXCEPT !.number = value]
TextStep(text)    == [ClearStep("ALPHA") EXCEPT !.text = text]
OpcodeStep(key, arg, indirect) ==
  [ClearStep(key) EXCEPT !.arg = arg, !.indirect = indirect]

\* A LBL is never indirect, and a step without argument never is either.
WellFormedStep(step) ==
  step.indirect => step.opcode \in ArgKeys \ {"LBL"}

-----------------------------------------------------------------------------
(* Registers, display and text.                                             *)

Registers == 0 .. NUM_STORAGE_REGS - 1
Flags     == 0 .. NUM_FLAGS - 1

\* The tagged union vger_register_t: the field its tag makes valid.
Register ==
  [kind : {"NUMERIC"}, numeric : Number] \cup
  [kind : {"ALPHA_PACKED"}, packed : [1 .. ALPHA_PACK_LEN -> Char]]

NumericRegister(n)  == [kind |-> "NUMERIC", numeric |-> n]
PackedRegister(txt) == [kind |-> "ALPHA_PACKED", packed |-> txt]

\* The first n characters of a text, or all of them.
Truncate(text, n) == SubSeq(text, 1, IF Len(text) < n THEN Len(text) ELSE n)

\* ASTO: the first characters of a text, padded with blanks.
Pack(text) ==
  [i \in 1 .. ALPHA_PACK_LEN |-> IF i <= Len(text) THEN text[i] ELSE Blank]

\* What the model needs of the C library and of doubles.
ASSUME DataAssumption ==
  /\ Zero \in Number
  /\ Blank \in Char
  /\ \A text \in EntryText : Strtod(text) \in Number
  /\ \A op \in ArithKeys : \A y, x \in Number : Arith(op, y, x) \in Number
  /\ \A n \in Number : /\ Negate(n) \in Number
                       /\ IntCasts(n) \in SUBSET Int
                       /\ FormatG(n) \in Seq(Char)
  /\ \A m, n \in Number : /\ Equal(m, n) \in BOOLEAN
                          /\ Greater(m, n) \in BOOLEAN

ASSUME DigitlessAssumption == \A text \in Digitless : Strtod(text) = Zero

=============================================================================
