------------------------------ MODULE VgerParser ------------------------------
(***************************************************************************)
(* The text parser of vger_program.c.  A text is a sequence of lines and a  *)
(* line a sequence of symbols; a symbol is one character, or a mnemonic,    *)
(* which goes by the name of its opcode and counts as one character.        *)
(*                                                                         *)
(* What a line stands for is a set of steps with one member, or none when   *)
(* the line is malformed.                                                   *)
(***************************************************************************)
EXTENDS VgerTypes

CONSTANTS
  PARSE_LINE_LEN,  \* vger_program.c:15, the NUL included
  TOKEN_LEN,       \* the field width of "%31s"
  INT_MAX,         \* of the target; ints are two's complement
  Symbol,
  Space,           \* any character isspace() accepts, but the newline
  Quote,
  StrtodAll(_),    \* {the double a line spells}; {} if strtod leaves a rest
  StrtolAll(_),    \* {the long a token spells}; {} if strtol leaves a rest
  Lines,           \* the lines the host may read from a file,
  Texts            \* and the sequences of them

DigitSymbols == {"0", "1", "2", "3", "4", "5", "6", "7", "8", "9"}

\* The mnemonics; '-' is also a sign.
MnemonicSymbols == StepOpcodes \ {"NUMBER", "ALPHA"}

ASSUME ParserAssumption ==
  /\ PARSE_LINE_LEN \in Nat \ {0}
  /\ TOKEN_LEN \in Nat \ {0}
  /\ INT_MAX \in Nat
  /\ Symbol \in SUBSET Char
  /\ Lines \in SUBSET Seq(Symbol)
  /\ Texts \in SUBSET Seq(Lines)

-----------------------------------------------------------------------------
(* One line.                                                                *)

\* vger_trim
Trim(line) ==
  LET inked == {i \in DOMAIN line : line[i] # Space}
  IN  IF inked = {} THEN <<>> ELSE SubSeq(line, Min(inked), Max(inked))

\* vger_extract_line: the tail of a long line is dropped.
Extracted(line) == Trim(Truncate(line, PARSE_LINE_LEN - 1))

AlphaLiteral(line) ==
  IF Len(line) >= 2 /\ Last(line) = Quote /\ Len(line) - 2 < ALPHA_BUFFER_LEN
  THEN {TextStep(SubSeq(line, 2, Len(line) - 1))}
  ELSE {}

\* '-' and '.' alone are not numbers.
StartsNumber(line) ==
  \/ Head(line) \in DigitSymbols
  \/ Head(line) \in {"MINUS", "DECIMAL_POINT"} /\ Len(line) > 1

\* The symbols from i to j are inside a word.
InWord(line, i, j) == \A k \in i .. j : line[k] # Space

\* What sscanf stores from symbol i on: words, the long ones in pieces.
TokenFrom(line, i) ==
  LET before == Cardinality({j \in 1 .. i - 1 : InWord(line, j, i - 1)})
      width  == Cardinality({j \in i .. Len(line) : j < i + TOKEN_LEN /\ InWord(line, i, j)})
  IN  IF before % TOKEN_LEN = 0 THEN SubSeq(line, i, i + width - 1) ELSE <<>>

Tokens(line) ==
  SelectSeq([i \in DOMAIN line |-> TokenFrom(line, i)], LAMBDA token : token # <<>>)

\* Wrong: the argument stays a long.
KeptLong(n) == n
\* (int) of a long.
Narrow(n) == ((n + INT_MAX + 1) % (2 * (INT_MAX + 1))) - (INT_MAX + 1)

\* Wrong: LBL takes IND like the others.
AnyTakesIndirect(op, indirect) == TRUE
FormExists(op, indirect) == ~(indirect /\ op = "LBL")

\* An instruction with an argument; what follows the argument is not looked at.
WithArgument(op, tokens) ==
  LET indirect == Len(tokens) >= 2 /\ tokens[2] = <<"IND">>
      place    == IF indirect THEN 3 ELSE 2
  IN  IF FormExists(op, indirect) /\ place \in DOMAIN tokens
      THEN {OpcodeStep(op, Narrow(n), indirect) : n \in StrtolAll(tokens[place])}
      ELSE {}

Instruction(tokens) ==
  LET op == tokens[1][1]
  IN  IF Len(tokens[1]) # 1 \/ op \notin MnemonicSymbols THEN {}
      ELSE IF op \in ArgKeys THEN WithArgument(op, tokens)
      ELSE IF Len(tokens) = 1 THEN {OpcodeStep(op, 0, FALSE)}
      ELSE {}

\* vger_parse_line, of a trimmed line with something on it.
ParseLine(line) ==
  IF Head(line) = Quote THEN AlphaLiteral(line)
  ELSE IF StartsNumber(line) THEN {NumberStep(n) : n \in StrtodAll(line)}
  ELSE UNION {Instruction(tokens) : tokens \in {Tokens(line)}}

\* What a line holds, and the step that stands for.
IsBlankLine(line) == Extracted(line) = <<>>
StepsOfLine(line) == UNION {ParseLine(held) : held \in {Extracted(line)} \ {<<>>}}

\* At most one member.
AtMostOne(S) == \A a, b \in S : a = b

\* What the parser needs of the C library: a numeral has one value.
ASSUME NumeralAssumption ==
  \A line \in Lines :
    /\ StrtodAll(Extracted(line)) \in SUBSET Number
    /\ AtMostOne(StrtodAll(Extracted(line)))
    /\ \A k \in DOMAIN Tokens(Extracted(line)) :
         /\ StrtolAll(Tokens(Extracted(line))[k]) \in SUBSET Int
         /\ AtMostOne(StrtolAll(Tokens(Extracted(line))[k]))

-----------------------------------------------------------------------------
(* vger_program_parse_text                                                  *)

VARIABLES
  text,         \* what there is to parse,
  cursor,       \* the lines before the cursor are behind it,
  line_number,
  program,
  status        \* "parsing", or what was returned

vars == <<text, cursor, line_number, program, status>>

Init ==
  /\ text \in Texts
  /\ cursor = 1 /\ line_number = 0
  /\ program = <<>> /\ status = "parsing"

\* Wrong: the capacity is not looked at.
AnyLineLeft == cursor <= Len(text)
LineLeft == cursor <= Len(text) /\ Len(program) < PROGRAM_MAX_LINES

Advance ==
  /\ status = "parsing" /\ LineLeft
  /\ cursor' = cursor + 1
  /\ line_number' = line_number + 1
  /\ UNCHANGED text

\* A blank line takes no place in the program.
SkipBlank ==
  /\ Advance
  /\ IsBlankLine(text[cursor])
  /\ UNCHANGED <<program, status>>

\* Wrong: the line before is overwritten.
StoredOver(step) == IF program = <<>> THEN <<step>> ELSE Append(Front(program), step)
Stored(step) == Append(program, step)

AddStep ==
  /\ Advance
  /\ \E step \in StepsOfLine(text[cursor]) : program' = Stored(step)
  /\ UNCHANGED status

\* The program is cleared; the message names line_number.
Reject ==
  /\ Advance
  /\ ~IsBlankLine(text[cursor]) /\ StepsOfLine(text[cursor]) = {}
  /\ program' = <<>> /\ status' = "rejected"

\* At the end of the text, or of the program.
Accept ==
  /\ status = "parsing" /\ ~LineLeft
  /\ status' = "accepted"
  /\ UNCHANGED <<text, cursor, line_number, program>>

Next == SkipBlank \/ AddStep \/ Reject \/ Accept

Spec == Init /\ [][Next]_vars

-----------------------------------------------------------------------------
(* Properties.                                                              *)

Ints == -INT_MAX - 1 .. INT_MAX

\* What the parser hands to vger_state_load_program() is a program in the sense
\* of VgerInterp!InputsAssumption at every moment: within the array, its text
\* within a step, its arguments ints, no LBL IND and no IND without an argument.
Loadable ==
  /\ program \in Seq(Step)
  /\ Len(program) <= PROGRAM_MAX_LINES
  /\ \A i \in DOMAIN program : WellFormedStep(program[i]) /\ program[i].arg \in Ints

\* The caller sees nothing of the program before the call returns, and the
\* line number only with an error.
Contract == INSTANCE ParseContract WITH
  MaxSteps <- PROGRAM_MAX_LINES,
  IsBlank  <- IsBlankLine,
  StepsOf  <- StepsOfLine,
  outcome  <- [status  |-> status,
               program |-> IF status = "parsing" THEN <<>> ELSE program,
               line    |-> IF status = "rejected" THEN line_number ELSE 0]

\* The loop with its cursor, counters and early returns gives the answer of the
\* contract: every instruction in its place, blank lines counted
\* in the message and not in the program, and on an error an empty program.
KeepsContract == Contract!ContractSpec

\* vger_program.h: true on success, false if a line could not be parsed.
AcceptedMeansParsed ==
  status = "accepted" =>
    \A i \in DOMAIN text : ~IsBlankLine(text[i]) => StepsOfLine(text[i]) # {}

=============================================================================
