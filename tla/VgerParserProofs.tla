-------------------------- MODULE VgerParserProofs --------------------------
(***************************************************************************)
(* What the text parser returns is a program the core may load, for every   *)
(* text, line length and program length.                                    *)
(***************************************************************************)
EXTENDS VgerParser, FiniteSetTheorems, WellFoundedInduction, TLAPS

-----------------------------------------------------------------------------
(* Lines.                                                                   *)

\* A set of naturals with a member has a least one.
LEMMA LeastNatural ==
  ASSUME NEW S \in SUBSET Nat, S # {}
  PROVE  \E x \in S : \A y \in S : x <= y
<1>1. \E x \in S : \A y \in S : ~(<<y, x>> \in OpToRel(<, Nat))
  BY NatLessThanWellFounded, WFMin
<1>2. PICK x \in S : \A y \in S : ~(<<y, x>> \in OpToRel(<, Nat))
  BY <1>1
<1>3. \A y \in S : ~(y < x)
  BY <1>2 DEF OpToRel
<1>4. QED BY <1>3

\* So Min and Max of positions in a line are positions in it.
LEMMA MinIsMember ==
  ASSUME NEW n \in Nat, NEW S \in SUBSET (1 .. n), S # {}
  PROVE  Min(S) \in S
<1>1. \E x \in S : \A y \in S : x <= y
  <2>1. S \in SUBSET Nat
    OBVIOUS
  <2>2. QED BY <2>1, LeastNatural
<1>2. QED BY <1>1 DEF Min

LEMMA MaxIsMember ==
  ASSUME NEW n \in Nat, NEW S \in SUBSET (1 .. n), S # {}
  PROVE  Max(S) \in S
<1> DEFINE R == {k \in Nat : \E x \in S : k = n - x}
<1>1. R \in SUBSET Nat /\ R # {}
  <2>1. PICK x \in S : TRUE
    OBVIOUS
  <2>2. n - x \in R
    OBVIOUS
  <2>3. QED BY <2>2
<1>2. PICK k \in R : \A j \in R : k <= j
  BY <1>1, LeastNatural
<1>3. PICK x \in S : k = n - x
  OBVIOUS
<1>4. \A y \in S : x >= y
  <2> TAKE y \in S
  <2>1. n - y \in R
    OBVIOUS
  <2>2. k <= n - y
    BY <1>2, <2>1
  <2>3. QED BY <1>3, <2>2
<1>5. QED BY <1>4 DEF Max

\* A piece of a line is a text.
LEMMA PieceType ==
  ASSUME NEW C, NEW s \in Seq(C), NEW a \in Nat \ {0}, NEW b \in Int, b <= Len(s)
  PROVE  SubSeq(s, a, b) \in Seq(C)
         /\ Len(SubSeq(s, a, b)) = IF a <= b THEN b - a + 1 ELSE 0
OBVIOUS

LEMMA ExtractedType ==
  ASSUME NEW line \in Seq(Symbol)
  PROVE  Extracted(line) \in Seq(Symbol)
<1> DEFINE short == Truncate(line, PARSE_LINE_LEN - 1)
<1>1. short \in Seq(Symbol)
  BY ParserAssumption, PieceType DEF Truncate
<1> HIDE DEF short
<1>2. Trim(short) \in Seq(Symbol)
  <2> DEFINE inked == {i \in DOMAIN short : short[i] # Space}
  <2>1. CASE inked = {}
    BY <2>1 DEF Trim
  <2>2. CASE inked # {}
    <3>1. Len(short) \in Nat /\ inked \in SUBSET (1 .. Len(short))
      BY <1>1
    <3>2. Min(inked) \in 1 .. Len(short) /\ Max(inked) \in 1 .. Len(short)
      BY <2>2, <3>1, MinIsMember, MaxIsMember
    <3>3. SubSeq(short, Min(inked), Max(inked)) \in Seq(Symbol)
      <4>1. Min(inked) \in Nat \ {0} /\ Max(inked) \in Int /\ Max(inked) <= Len(short)
        BY <3>1, <3>2
      <4>2. QED BY <1>1, <4>1, PieceType
    <3>4. QED BY <2>2, <3>3 DEF Trim
  <2>3. QED BY <2>1, <2>2
<1>3. QED BY <1>2 DEF Extracted, short

-----------------------------------------------------------------------------
(* The step a line stands for.                                              *)

StepOK(step) == step \in Step /\ WellFormedStep(step) /\ step.arg \in Ints

\* A long cut to int is an int.
LEMMA NarrowType ==
  ASSUME NEW n \in Int
  PROVE  Narrow(n) \in Ints
<1> DEFINE d == 2 * (INT_MAX + 1)
           a == n + INT_MAX + 1
<1>1. INT_MAX \in Nat
  BY ParserAssumption
<1>2. d \in Nat \ {0} /\ a \in Int
  BY <1>1
<1>3. a % d \in 0 .. d - 1
  <2> HIDE DEF d, a
  <2>1. QED BY <1>2
<1>4. QED BY <1>1, <1>3 DEF Narrow, Ints

LEMMA ZeroIsInt == 0 \in Ints
BY ParserAssumption DEF Ints

LEMMA ClearStepFields ==
  ASSUME NEW opcode \in StepOpcodes
  PROVE  /\ ClearStep(opcode) \in Step
         /\ ClearStep(opcode).opcode = opcode
         /\ ClearStep(opcode).arg = 0 /\ ClearStep(opcode).indirect = FALSE
<1>1. <<>> \in TextUpTo(ALPHA_BUFFER_LEN - 1) /\ Zero \in Number
  BY LimitsAssumption, DataAssumption DEF TextUpTo
<1>2. QED BY <1>1 DEF ClearStep, Step

LEMMA NumberStepOK ==
  ASSUME NEW value \in Number
  PROVE  StepOK(NumberStep(value))
<1>1. "NUMBER" \in StepOpcodes
  BY DEF StepOpcodes
<1>2. NumberStep(value) \in Step /\ NumberStep(value).arg = 0
      /\ NumberStep(value).indirect = FALSE
  BY <1>1, ClearStepFields DEF NumberStep, Step
<1>3. QED BY <1>2, ZeroIsInt DEF StepOK, WellFormedStep

LEMMA TextStepOK ==
  ASSUME NEW line \in Seq(Symbol), line # <<>>, NEW step \in AlphaLiteral(line)
  PROVE  StepOK(step)
<1> DEFINE held == SubSeq(line, 2, Len(line) - 1)
<1>1. Len(line) >= 2 /\ Len(line) - 2 < ALPHA_BUFFER_LEN /\ step = TextStep(held)
  BY DEF AlphaLiteral
<1>2. held \in TextUpTo(ALPHA_BUFFER_LEN - 1)
  <2>1. held \in Seq(Symbol) /\ Len(held) <= Len(line) - 2
    <3>1. Len(line) \in Nat /\ Len(line) - 1 \in Int /\ Len(line) - 1 <= Len(line)
      OBVIOUS
    <3>2. held \in Seq(Symbol)
          /\ Len(held) = IF 2 <= Len(line) - 1 THEN Len(line) - 1 - 2 + 1 ELSE 0
      BY <3>1, PieceType
    <3>3. QED BY <1>1, <3>1, <3>2
  <2>2. held \in Seq(Char)
    BY <2>1, ParserAssumption
  <2>3. Len(held) <= ALPHA_BUFFER_LEN - 1
    BY <1>1, <2>1, LimitsAssumption
  <2>4. QED BY <2>2, <2>3 DEF TextUpTo
<1> HIDE DEF held
<1>3. "ALPHA" \in StepOpcodes
  BY DEF StepOpcodes
<1>4. step \in Step /\ step.arg = 0 /\ step.indirect = FALSE
  BY <1>1, <1>2, <1>3, ClearStepFields DEF TextStep, Step
<1>5. QED BY <1>4, ZeroIsInt DEF StepOK, WellFormedStep

LEMMA InstructionOK ==
  ASSUME NEW tokens, \A k \in DOMAIN tokens : StrtolAll(tokens[k]) \in SUBSET Int,
         NEW step \in Instruction(tokens)
  PROVE  StepOK(step)
<1> DEFINE op == tokens[1][1]
<1>1. op \in MnemonicSymbols
  BY DEF Instruction
<1>2. op \in StepOpcodes
  BY <1>1 DEF MnemonicSymbols
<1> HIDE DEF op
<1>3. CASE op \in ArgKeys
  <2> DEFINE indirect == Len(tokens) >= 2 /\ tokens[2] = <<"IND">>
             place    == IF indirect THEN 3 ELSE 2
  <2>1. step \in WithArgument(op, tokens)
    BY <1>3 DEF Instruction, op
  <2>2. /\ FormExists(op, indirect) /\ place \in DOMAIN tokens
        /\ \E n \in StrtolAll(tokens[place]) : step = OpcodeStep(op, Narrow(n), indirect)
    BY <2>1 DEF WithArgument
  <2>3. indirect \in BOOLEAN
    OBVIOUS
  <2> HIDE DEF indirect, place
  <2>4. PICK n \in StrtolAll(tokens[place]) : step = OpcodeStep(op, Narrow(n), indirect)
    BY <2>2
  <2>5. Narrow(n) \in Ints
    BY <2>2, NarrowType
  <2>6. Ints \subseteq Int
    BY ParserAssumption DEF Ints
  <2>7. /\ step \in Step /\ step.opcode = op
        /\ step.arg = Narrow(n) /\ step.indirect = indirect
    <3> DEFINE arg == Narrow(n)
    <3>1. step = [ClearStep(op) EXCEPT !.arg = arg, !.indirect = indirect]
      BY <2>4 DEF OpcodeStep
    <3>2. arg \in Int /\ ClearStep(op) \in Step /\ ClearStep(op).opcode = op
      BY <1>2, <2>5, <2>6, ClearStepFields
    <3> HIDE DEF arg
    <3>3. /\ step \in Step /\ step.opcode = op
          /\ step.arg = arg /\ step.indirect = indirect
      BY <2>3, <3>1, <3>2 DEF Step
    <3>4. QED BY <3>3 DEF arg
  <2>8. WellFormedStep(step)
    BY <1>3, <2>2, <2>7 DEF WellFormedStep, FormExists
  <2>9. QED BY <2>5, <2>7, <2>8 DEF StepOK
<1>4. CASE op \notin ArgKeys
  <2>1. step = OpcodeStep(op, 0, FALSE)
    BY <1>4 DEF Instruction, op
  <2>2. step \in Step /\ step.arg = 0 /\ step.indirect = FALSE
    BY <1>2, <2>1, ClearStepFields DEF OpcodeStep, Step
  <2>3. QED BY <2>2, ZeroIsInt DEF StepOK, WellFormedStep
<1>5. QED BY <1>3, <1>4

LEMMA StepsOfLineOK ==
  ASSUME NEW line \in Lines, NEW step \in StepsOfLine(line)
  PROVE  StepOK(step)
<1> DEFINE held == Extracted(line)
<1>1. held \in Seq(Symbol) /\ held # <<>> /\ step \in ParseLine(held)
  <2>1. line \in Seq(Symbol)
    BY ParserAssumption
  <2>2. QED BY <2>1, ExtractedType DEF StepsOfLine
<1>2. /\ StrtodAll(held) \in SUBSET Number
      /\ \A k \in DOMAIN Tokens(held) : StrtolAll(Tokens(held)[k]) \in SUBSET Int
  BY NumeralAssumption
<1> HIDE DEF held
<1>3. CASE step \in AlphaLiteral(held)
  BY <1>1, <1>3, TextStepOK
<1>4. CASE step \in {NumberStep(n) : n \in StrtodAll(held)}
  BY <1>2, <1>4, NumberStepOK
<1>5. CASE step \in Instruction(Tokens(held))
  BY <1>2, <1>5, InstructionOK
<1>6. QED BY <1>1, <1>3, <1>4, <1>5 DEF ParseLine

-----------------------------------------------------------------------------
(* The parser.                                                              *)

CursorOK == text \in Texts /\ cursor \in Nat \ {0}

LEMMA LineHeld ==
  ASSUME CursorOK, Advance
  PROVE  text[cursor] \in Lines
<1>1. text \in Seq(Lines) /\ cursor \in 1 .. Len(text)
  BY ParserAssumption DEF CursorOK, Advance, LineLeft
<1>2. QED BY <1>1

LEMMA CursorInductive == CursorOK /\ [Next]_vars => CursorOK'
BY DEF CursorOK, Next, SkipBlank, AddStep, Reject, Accept, Advance, vars

LEMMA LoadableInductive == CursorOK /\ Loadable /\ [Next]_vars => Loadable'
<1> SUFFICES ASSUME CursorOK, Loadable, [Next]_vars
             PROVE  Loadable'
  OBVIOUS
<1>1. CASE UNCHANGED program
  BY <1>1 DEF Loadable
<1>2. CASE AddStep
  <2>1. PICK step \in StepsOfLine(text[cursor]) : program' = Append(program, step)
    BY <1>2 DEF AddStep, Stored
  <2>2. StepOK(step)
    BY <1>2, LineHeld, StepsOfLineOK DEF AddStep
  <2>3. Len(program) < PROGRAM_MAX_LINES
    BY <1>2 DEF AddStep, Advance, LineLeft
  <2>4. /\ program' \in Seq(Step) /\ Len(program') = Len(program) + 1
        /\ \A i \in DOMAIN program' : program'[i] = step \/ (i \in DOMAIN program /\ program'[i] = program[i])
    BY <2>1, <2>2 DEF Loadable, StepOK
  <2>5. Len(program') <= PROGRAM_MAX_LINES
    BY <2>3, <2>4, LimitsAssumption DEF Loadable
  <2>6. QED BY <2>2, <2>4, <2>5 DEF Loadable, StepOK
<1>3. CASE Reject
  <2>1. program' = <<>>
    BY <1>3 DEF Reject
  <2>2. QED BY <2>1, LimitsAssumption DEF Loadable
<1>4. QED BY <1>1, <1>2, <1>3 DEF Next, SkipBlank, Accept, vars

\* Whatever the text, however long its lines and tokens and of whatever size its
\* numbers, what vger_program_parse_text() returns or leaves is a program that
\* vger_state_load_program() may be given.
THEOREM ParsedIsLoadable == Spec => []Loadable
<1>1. Init => CursorOK /\ Loadable
  BY LimitsAssumption DEF Init, CursorOK, Loadable
<1>2. QED BY <1>1, LoadableInductive, CursorInductive, PTL DEF Spec

-----------------------------------------------------------------------------
(* A line stands for one step at most.                                      *)

LEMMA InstructionUnique ==
  ASSUME NEW tokens, \A k \in DOMAIN tokens : AtMostOne(StrtolAll(tokens[k]))
  PROVE  AtMostOne(Instruction(tokens))
<1> DEFINE op == tokens[1][1]
           indirect == Len(tokens) >= 2 /\ tokens[2] = <<"IND">>
           place    == IF indirect THEN 3 ELSE 2
<1>1. AtMostOne(WithArgument(op, tokens))
  <2> SUFFICES ASSUME NEW a \in WithArgument(op, tokens), NEW b \in WithArgument(op, tokens)
               PROVE  a = b
    BY DEF AtMostOne
  <2>1. /\ place \in DOMAIN tokens
        /\ \E n \in StrtolAll(tokens[place]) : a = OpcodeStep(op, Narrow(n), indirect)
        /\ \E n \in StrtolAll(tokens[place]) : b = OpcodeStep(op, Narrow(n), indirect)
    BY DEF WithArgument
  <2> HIDE DEF op, indirect, place
  <2>2. PICK m \in StrtolAll(tokens[place]) : a = OpcodeStep(op, Narrow(m), indirect)
    BY <2>1
  <2>3. PICK n \in StrtolAll(tokens[place]) : b = OpcodeStep(op, Narrow(n), indirect)
    BY <2>1
  <2>4. m = n
    BY <2>1 DEF AtMostOne
  <2>5. QED BY <2>2, <2>3, <2>4
<1> HIDE DEF op
<1>2. AtMostOne({OpcodeStep(op, 0, FALSE)}) /\ AtMostOne({})
  BY DEF AtMostOne
<1>3. Instruction(tokens) \in {{}, WithArgument(op, tokens), {OpcodeStep(op, 0, FALSE)}}
  BY DEF Instruction, op
<1>4. QED BY <1>1, <1>2, <1>3

LEMMA StepsOfLineUnique ==
  ASSUME NEW line \in Lines
  PROVE  AtMostOne(StepsOfLine(line))
<1> DEFINE held == Extracted(line)
<1>1. /\ AtMostOne(StrtodAll(held))
      /\ \A k \in DOMAIN Tokens(held) : AtMostOne(StrtolAll(Tokens(held)[k]))
  BY NumeralAssumption
<1> HIDE DEF held
<1>2. AtMostOne(ParseLine(held))
  <2>1. AtMostOne(AlphaLiteral(held))
    BY DEF AtMostOne, AlphaLiteral
  <2>2. AtMostOne({NumberStep(n) : n \in StrtodAll(held)})
    BY <1>1 DEF AtMostOne
  <2>3. AtMostOne(Instruction(Tokens(held)))
    BY <1>1, InstructionUnique
  <2>4. UNION {Instruction(tokens) : tokens \in {Tokens(held)}} = Instruction(Tokens(held))
    OBVIOUS
  <2>5. QED BY <2>1, <2>2, <2>3, <2>4 DEF ParseLine
<1>3. StepsOfLine(line) = IF held = <<>> THEN {} ELSE ParseLine(held)
  BY DEF StepsOfLine, held
<1>4. QED BY <1>2, <1>3 DEF AtMostOne

-----------------------------------------------------------------------------
(* Counting the lines of a text that hold something.                        *)

\* The module of the contract has these operators under names of its own.
LEMMA SameCardinality ==
  ASSUME NEW S
  PROVE  Contract!Cardinality(S) = Cardinality(S)
BY DEF Cardinality, Contract!Cardinality, ExistsBijection, Contract!ExistsBijection,
       Bijection, Contract!Bijection, Injection, Contract!Injection,
       Surjection, Contract!Surjection, IsInjective, Contract!IsInjective

LEMMA SameMin ==
  ASSUME NEW S
  PROVE  Contract!Min(S) = Min(S)
BY DEF Min, Contract!Min

Held(txt, i) == {j \in Contract!LinesOfText(txt) : j < i}

LEMMA HeldFinite ==
  ASSUME NEW txt \in Seq(Lines), NEW i
  PROVE  /\ IsFiniteSet(Held(txt, i))
         /\ Contract!Before(txt, i) = Cardinality(Held(txt, i))
         /\ Contract!Before(txt, i) \in Nat
<1>1. Len(txt) \in Nat /\ DOMAIN txt = 1 .. Len(txt)
  OBVIOUS
<1>2. Held(txt, i) \in SUBSET (1 .. Len(txt))
  BY <1>1 DEF Held, Contract!LinesOfText
<1>3. IsFiniteSet(1 .. Len(txt))
  BY <1>1, FS_Interval
<1>4. IsFiniteSet(Held(txt, i))
  <2> DEFINE positions == 1 .. Len(txt)
  <2> HIDE DEF positions
  <2>1. QED BY <1>2, <1>3, FS_Subset DEF positions
<1>5. Cardinality(Held(txt, i)) \in Nat
  BY <1>4, FS_CardinalityType
<1>6. Contract!Before(txt, i) = Cardinality(Held(txt, i))
  BY SameCardinality DEF Held, Contract!Before
<1>7. QED BY <1>4, <1>5, <1>6

LEMMA BeforeGrows ==
  ASSUME NEW txt \in Seq(Lines), NEW i \in Nat, NEW k \in Nat, i <= k
  PROVE  Contract!Before(txt, i) <= Contract!Before(txt, k)
<1>1. Held(txt, i) \in SUBSET Held(txt, k)
  BY DEF Held, Contract!LinesOfText
<1>2. QED BY <1>1, HeldFinite, FS_Subset

LEMMA BeforeNext ==
  ASSUME NEW txt \in Seq(Lines), NEW i \in Nat
  PROVE  Contract!Before(txt, i + 1) =
           IF i \in Contract!LinesOfText(txt) THEN Contract!Before(txt, i) + 1
                                              ELSE Contract!Before(txt, i)
<1>1. \A j \in Contract!LinesOfText(txt) : j \in Nat
  BY DEF Contract!LinesOfText
<1>2. Held(txt, i + 1) = IF i \in Contract!LinesOfText(txt) THEN Held(txt, i) \cup {i}
                                                           ELSE Held(txt, i)
  BY <1>1 DEF Held
<1>3. i \notin Held(txt, i)
  BY DEF Held
<1>4. QED BY <1>2, <1>3, HeldFinite, FS_AddElement

LEMMA BeforeStrict ==
  ASSUME NEW txt \in Seq(Lines), NEW i \in Contract!LinesOfText(txt), NEW k \in Nat, i < k
  PROVE  Contract!Before(txt, i) < Contract!Before(txt, k)
<1>1. i \in Nat /\ i + 1 \in Nat /\ i + 1 <= k
  BY DEF Contract!LinesOfText
<1>2. Contract!Before(txt, i + 1) = Contract!Before(txt, i) + 1
  BY <1>1, BeforeNext
<1>3. Contract!Before(txt, i + 1) <= Contract!Before(txt, k)
  BY <1>1, BeforeGrows
<1>4. QED BY <1>2, <1>3, HeldFinite

\* So no two lines hold the same instruction.
LEMMA LineOfIs ==
  ASSUME NEW txt \in Seq(Lines), NEW i \in Contract!LinesReached(txt), NEW k \in Nat,
         Contract!Before(txt, i) = k - 1
  PROVE  Contract!LineOf(txt, k) = i
<1>1. \A j \in Contract!LinesReached(txt) :
        j \in Contract!LinesOfText(txt) /\ j \in Nat
  BY DEF Contract!LinesReached, Contract!LinesOfText
<1>2. \A j \in Contract!LinesReached(txt) : Contract!Before(txt, j) = k - 1 => j = i
  <2> SUFFICES ASSUME NEW j \in Contract!LinesReached(txt), Contract!Before(txt, j) = k - 1,
                      j # i
               PROVE  FALSE
    OBVIOUS
  <2>1. i < j \/ j < i
    BY <1>1
  <2>2. CASE i < j
    BY <1>1, <2>2, BeforeStrict
  <2>3. CASE j < i
    BY <1>1, <2>3, BeforeStrict
  <2>4. QED BY <2>1, <2>2, <2>3
<1>3. QED BY <1>2 DEF Contract!LineOf

-----------------------------------------------------------------------------
(* The loop keeps the contract.                                             *)

\* Up to the cursor every line that holds something holds a step, and the
\* program has those steps, each at the place the lines before leave it.
Parsed ==
  /\ Len(program) = Contract!Before(text, cursor)
  /\ \A i \in Held(text, cursor) : StepsOfLine(text[i]) # {}
  /\ \A k \in DOMAIN program :
       \E i \in Held(text, cursor) :
         /\ Contract!Before(text, i) = k - 1
         /\ program[k] \in StepsOfLine(text[i])

ParseInv ==
  /\ CursorOK /\ Loadable
  /\ line_number = cursor - 1
  /\ status = "parsing" => Parsed

LEMMA TextType ==
  ASSUME CursorOK
  PROVE  /\ text \in Seq(Lines) /\ Len(text) \in Nat
         /\ \A i \in Contract!LinesOfText(text) :
              i \in 1 .. Len(text) /\ i \in Nat /\ text[i] \in Lines
BY ParserAssumption DEF CursorOK, Contract!LinesOfText

LEMMA ParseInvInit == Init => ParseInv
<1> SUFFICES ASSUME Init PROVE ParseInv
  OBVIOUS
<1>1. CursorOK /\ Loadable /\ line_number = cursor - 1 /\ program = <<>>
  BY LimitsAssumption DEF Init, CursorOK, Loadable
<1>2. Held(text, cursor) = {}
  <2>1. cursor = 1
    BY DEF Init
  <2>2. QED BY <1>1, <2>1, TextType DEF Held
<1>3. Contract!Before(text, cursor) = 0
  BY <1>1, <1>2, TextType, HeldFinite, FS_EmptySet
<1>4. QED BY <1>1, <1>2, <1>3 DEF ParseInv, Parsed

LEMMA ParsedInductive ==
  ASSUME ParseInv, SkipBlank \/ AddStep
  PROVE  Parsed'
<1>1. /\ Parsed /\ text' = text /\ cursor' = cursor + 1 /\ cursor \in Nat
      /\ text \in Seq(Lines) /\ cursor \in 1 .. Len(text)
  BY TextType DEF ParseInv, CursorOK, SkipBlank, AddStep, Advance, LineLeft
<1>2. program \in Seq(Step)
  BY DEF ParseInv, Loadable
<1> DEFINE now == Held(text, cursor)
           n   == Contract!Before(text, cursor)
<1>3. /\ Len(program) = n /\ \A i \in now : StepsOfLine(text[i]) # {}
      /\ \A k \in DOMAIN program :
           \E i \in now : /\ Contract!Before(text, i) = k - 1
                          /\ program[k] \in StepsOfLine(text[i])
  BY <1>1 DEF Parsed
<1>4. /\ Held(text, cursor)' = Held(text, cursor + 1)
      /\ Contract!Before(text, cursor)' = Contract!Before(text, cursor + 1)
  BY <1>1 DEF Held, Contract!Before, Contract!LinesOfText, IsBlankLine
<1>5. IF cursor \in Contract!LinesOfText(text)
      THEN Held(text, cursor + 1) = now \cup {cursor}
           /\ Contract!Before(text, cursor + 1) = n + 1
      ELSE Held(text, cursor + 1) = now
           /\ Contract!Before(text, cursor + 1) = n
  <2>1. \A j \in Contract!LinesOfText(text) : j \in Nat
    BY <1>1 DEF Contract!LinesOfText
  <2>2. Held(text, cursor + 1) = IF cursor \in Contract!LinesOfText(text)
                                 THEN now \cup {cursor} ELSE now
    BY <1>1, <2>1 DEF Held
  <2>3. Contract!Before(text, cursor + 1) = IF cursor \in Contract!LinesOfText(text)
                                           THEN n + 1 ELSE n
    BY <1>1, BeforeNext
  <2>4. QED BY <2>2, <2>3
<1> HIDE DEF now, n
<1>6. CASE SkipBlank
  <2>1. cursor \notin Contract!LinesOfText(text) /\ program' = program
    BY <1>6 DEF SkipBlank, Contract!LinesOfText
  <2>2. Held(text, cursor)' = now /\ Contract!Before(text, cursor)' = n
    BY <1>4, <1>5, <2>1
  <2>3. QED BY <1>1, <1>3, <2>1, <2>2 DEF Parsed
<1>7. CASE AddStep
  <2>1. PICK step \in StepsOfLine(text[cursor]) : program' = Append(program, step)
    BY <1>7 DEF AddStep, Stored
  <2>2. cursor \in Contract!LinesOfText(text)
    <3>1. ~IsBlankLine(text[cursor])
      BY <2>1 DEF StepsOfLine, IsBlankLine
    <3>2. QED BY <1>1, <3>1 DEF Contract!LinesOfText
  <2>3. Held(text, cursor)' = now \cup {cursor} /\ Contract!Before(text, cursor)' = n + 1
    BY <1>4, <1>5, <2>2
  <2>4. step \in Step
    BY <1>7, <2>1, LineHeld, StepsOfLineOK DEF AddStep, ParseInv, StepOK
  <2>5. /\ Len(program') = n + 1
        /\ \A k \in DOMAIN program' : k = n + 1 \/ k \in DOMAIN program
        /\ \A k \in DOMAIN program : program'[k] = program[k]
        /\ program'[n + 1] = step
    BY <1>2, <1>3, <2>1, <2>4
  <2>6. Contract!Before(text, cursor) = n
    BY DEF n
  <2>7. \A k \in DOMAIN program' :
          \E i \in now \cup {cursor} :
            /\ Contract!Before(text, i) = k - 1
            /\ program'[k] \in StepsOfLine(text[i])
    <3> TAKE k \in DOMAIN program'
    <3>1. CASE k = n + 1
      <4>1. n \in Nat
        BY <1>2, <1>3
      <4>2. Contract!Before(text, cursor) = k - 1
        BY <2>6, <3>1, <4>1
      <4>3. QED BY <2>5, <3>1, <4>2
    <3>2. CASE k \in DOMAIN program
      BY <1>3, <2>5, <3>2
    <3>3. QED BY <2>5, <3>1, <3>2
  <2>8. \A i \in now \cup {cursor} : StepsOfLine(text[i]) # {}
    BY <1>3, <2>1
  <2>9. QED BY <1>1, <2>3, <2>5, <2>7, <2>8 DEF Parsed
<1>8. QED BY <1>6, <1>7

LEMMA ParseInvInductive == ParseInv /\ [Next]_vars => ParseInv'
<1> SUFFICES ASSUME ParseInv, [Next]_vars
             PROVE  ParseInv'
  OBVIOUS
<1>1. CursorOK'
  BY CursorInductive DEF ParseInv
<1>2. Loadable'
  BY LoadableInductive DEF ParseInv
<1>3. (line_number = cursor - 1)'
  BY DEF ParseInv, CursorOK, Next, SkipBlank, AddStep, Reject, Accept, Advance, vars
<1>4. (status = "parsing" => Parsed)'
  <2>1. CASE SkipBlank \/ AddStep
    BY <2>1, ParsedInductive
  <2>2. CASE Reject \/ Accept
    BY <2>2 DEF Reject, Accept
  <2>3. CASE UNCHANGED vars
    BY <2>3 DEF ParseInv, Parsed, vars
  <2>4. QED BY <2>1, <2>2, <2>3 DEF Next
<1>5. QED BY <1>1, <1>2, <1>3, <1>4 DEF ParseInv

\* On a malformed line: it is the first one.
LEMMA RejectAnswers ==
  ASSUME ParseInv, Reject
  PROVE  /\ Contract!Malformed(text) # {}
         /\ Contract!Min(Contract!Malformed(text)) = cursor
<1>1. Parsed /\ text \in Seq(Lines) /\ cursor \in 1 .. Len(text) /\ cursor \in Nat
  BY TextType DEF ParseInv, CursorOK, Reject, Advance, LineLeft
<1>2. Len(program) < PROGRAM_MAX_LINES
  BY DEF Reject, Advance, LineLeft
<1>3. cursor \in Contract!Malformed(text)
  BY <1>1, <1>2 DEF Reject, Parsed, Contract!Malformed, Contract!LinesReached, Contract!LinesOfText
<1>4. \A i \in Contract!Malformed(text) : i \in Nat /\ cursor <= i
  <2> TAKE i \in Contract!Malformed(text)
  <2>1. i \in Contract!LinesOfText(text) /\ StepsOfLine(text[i]) = {}
    BY DEF Contract!Malformed, Contract!LinesReached
  <2>2. i \in Nat
    BY <1>1, <2>1 DEF Contract!LinesOfText
  <2>3. i \notin Held(text, cursor)
    BY <1>1, <2>1 DEF Parsed
  <2>4. QED BY <1>1, <2>1, <2>2, <2>3 DEF Held
<1>5. Min(Contract!Malformed(text)) = cursor
  <2> DEFINE M == Contract!Malformed(text)
  <2> HIDE DEF M
  <2>1. cursor \in M /\ \A i \in M : i \in Nat /\ cursor <= i
    BY <1>3, <1>4 DEF M
  <2>2. \A x \in M : (\A y \in M : x <= y) => x = cursor
    BY <1>1, <2>1
  <2>3. Min(M) = cursor
    BY <2>1, <2>2 DEF Min
  <2>4. QED BY <2>3 DEF M
<1>6. QED BY <1>3, <1>5, SameMin

\* At the end of the text or of the program: all that is reached is parsed.
LEMMA AcceptAnswers ==
  ASSUME ParseInv, Accept
  PROVE  /\ Contract!Malformed(text) = {}
         /\ program = [k \in 1 .. Contract!Cardinality(Contract!LinesReached(text)) |->
                         CHOOSE step \in StepsOfLine(text[Contract!LineOf(text, k)]) : TRUE]
<1>1. /\ Parsed /\ text \in Seq(Lines) /\ cursor \in Nat
      /\ \A i \in Contract!LinesOfText(text) :
           i \in 1 .. Len(text) /\ i \in Nat /\ text[i] \in Lines
  BY TextType DEF ParseInv, CursorOK, Accept
<1>2. program \in Seq(Step) /\ Len(program) <= PROGRAM_MAX_LINES
      /\ Len(program) = Contract!Before(text, cursor) /\ PROGRAM_MAX_LINES \in Nat
  BY <1>1, LimitsAssumption DEF ParseInv, Loadable, Parsed
<1>3. Contract!LinesReached(text) = Held(text, cursor)
  <2>1. ASSUME NEW i \in Contract!LinesReached(text)
        PROVE  i \in Held(text, cursor)
    <3>1. i \in Contract!LinesOfText(text) /\ Contract!Before(text, i) < PROGRAM_MAX_LINES
      BY DEF Contract!LinesReached
    <3>2. ~(cursor <= i)
      <4> SUFFICES ASSUME cursor <= i
                   PROVE  FALSE
        OBVIOUS
      <4>1. cursor <= Len(text)
        BY <1>1, <3>1
      <4>2. Len(program) >= PROGRAM_MAX_LINES
        BY <1>2, <4>1 DEF Accept, LineLeft
      <4>3. Contract!Before(text, cursor) <= Contract!Before(text, i)
        BY <1>1, <3>1, BeforeGrows
      <4>4. Contract!Before(text, i) \in Nat
        BY <1>1, HeldFinite
      <4>5. QED BY <1>2, <3>1, <4>2, <4>3, <4>4
    <3>3. QED BY <1>1, <3>1, <3>2 DEF Held
  <2>2. ASSUME NEW i \in Held(text, cursor)
        PROVE  i \in Contract!LinesReached(text)
    <3>1. i \in Contract!LinesOfText(text) /\ i < cursor
      BY DEF Held
    <3>2. Contract!Before(text, i) < Contract!Before(text, cursor)
      BY <1>1, <3>1, BeforeStrict
    <3>3. Contract!Before(text, i) \in Nat
      BY <1>1, HeldFinite
    <3>4. Contract!Before(text, i) < PROGRAM_MAX_LINES
      BY <1>2, <3>2, <3>3
    <3>5. QED BY <3>1, <3>4 DEF Contract!LinesReached
  <2>3. QED BY <2>1, <2>2
<1>4. Contract!Malformed(text) = {}
  BY <1>1, <1>3 DEF Parsed, Contract!Malformed
<1>5. Contract!Cardinality(Contract!LinesReached(text)) = Len(program)
  BY <1>1, <1>2, <1>3, HeldFinite, SameCardinality
<1>6. ASSUME NEW k \in 1 .. Len(program)
      PROVE  program[k] = CHOOSE step \in StepsOfLine(text[Contract!LineOf(text, k)]) : TRUE
  <2>1. PICK i \in Held(text, cursor) : /\ Contract!Before(text, i) = k - 1
                                        /\ program[k] \in StepsOfLine(text[i])
    BY <1>1, <1>2 DEF Parsed
  <2>2. Contract!LineOf(text, k) = i
    BY <1>1, <1>2, <1>3, <2>1, LineOfIs
  <2>3. text[i] \in Lines
    BY <1>1 DEF Held
  <2>4. \A a, b \in StepsOfLine(text[i]) : a = b
    BY <2>3, StepsOfLineUnique DEF AtMostOne
  <2>5. QED BY <2>1, <2>2, <2>4
<1>7. program = [k \in 1 .. Len(program) |->
                   CHOOSE step \in StepsOfLine(text[Contract!LineOf(text, k)]) : TRUE]
  BY <1>2, <1>6
<1>8. QED BY <1>4, <1>5, <1>7

\* For every text and every size of line, token and program the loop of
\* vger_program_parse_text() is one answer of the contract, and until it returns
\* its caller sees nothing.
THEOREM ParserKeepsContract == Spec => KeepsContract
<1>1. Init => Contract!ContractInit
  BY DEF Init, Contract!ContractInit, Contract!Unanswered
<1>2. ParseInv /\ [Next]_vars => [Contract!Answer]_Contract!contractVars
  <2> SUFFICES ASSUME ParseInv, [Next]_vars
               PROVE  [Contract!Answer]_Contract!contractVars
    OBVIOUS
  <2>1. CASE SkipBlank \/ AddStep
    BY <2>1 DEF SkipBlank, AddStep, Advance, Contract!contractVars
  <2>2. CASE Reject
    BY <2>2, RejectAnswers
       DEF ParseInv, CursorOK, Reject, Advance, Contract!Answer, Contract!Answered, Contract!Unanswered
  <2>3. CASE Accept
    BY <2>3, AcceptAnswers
       DEF Accept, Contract!Answer, Contract!Answered, Contract!Unanswered
  <2>4. CASE UNCHANGED vars
    BY <2>4 DEF vars, Contract!contractVars
  <2>5. QED BY <2>1, <2>2, <2>3, <2>4 DEF Next
<1>3. QED BY <1>1, <1>2, ParseInvInit, ParseInvInductive, PTL
          DEF Spec, KeepsContract, Contract!ContractSpec

=============================================================================
