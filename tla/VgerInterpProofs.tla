-------------------------- MODULE VgerInterpProofs --------------------------
(***************************************************************************)
(* Proofs about VgerInterp, for every value of its constants.               *)
(***************************************************************************)
EXTENDS VgerInterp, SequenceTheorems, TLAPS

-----------------------------------------------------------------------------
(* Sequences bounded in length.                                             *)

\* The first n characters of a text are a text of at most n characters.
LEMMA TruncateType ==
  ASSUME NEW text \in Seq(Char), NEW n \in Nat
  PROVE  Truncate(text, n) \in TextUpTo(n)
<1> DEFINE m == IF Len(text) < n THEN Len(text) ELSE n
<1>1. m \in Nat /\ m <= Len(text) /\ m <= n
  OBVIOUS
<1>2. SubSeq(text, 1, m) \in Seq(Char) /\ Len(SubSeq(text, 1, m)) = m
  BY <1>1
<1>3. QED BY <1>1, <1>2 DEF Truncate, TextUpTo

\* Dropping the last element.
LEMMA FrontType ==
  ASSUME NEW S, NEW seq \in Seq(S), seq # <<>>
  PROVE  /\ Front(seq) \in Seq(S)
         /\ Len(Front(seq)) = Len(seq) - 1
         /\ \A i \in 1 .. Len(seq) - 1 : Front(seq)[i] = seq[i]
<1> DEFINE n == Len(seq) - 1
<1>1. n \in Nat /\ n <= Len(seq)
  BY EmptySeq
<1>2. SubSeq(seq, 1, n) \in Seq(S) /\ Len(SubSeq(seq, 1, n)) = n
  BY <1>1
<1>3. \A i \in 1 .. n : SubSeq(seq, 1, n)[i] = seq[i]
  BY <1>1
<1>4. QED BY <1>2, <1>3 DEF Front

\* The buffer of n characters and its NUL holds any sequence that fits it.
LEMMA EntryTextIsSeq ==
  ASSUME NEW buf
  PROVE  buf \in EntryText <=>
           buf \in Seq(EntryChar) /\ Len(buf) <= DIGIT_ENTRY_BUFFER_SIZE - 1
<1>1. ASSUME buf \in EntryText
      PROVE  buf \in Seq(EntryChar) /\ Len(buf) <= DIGIT_ENTRY_BUFFER_SIZE - 1
  <2>1. PICK n \in 0 .. DIGIT_ENTRY_BUFFER_SIZE - 1 : buf \in [1 .. n -> EntryChar]
    BY <1>1 DEF EntryText
  <2>2. n \in Nat /\ n <= DIGIT_ENTRY_BUFFER_SIZE - 1
    BY LimitsAssumption
  <2>3. QED BY <2>1, <2>2
<1>2. ASSUME buf \in Seq(EntryChar), Len(buf) <= DIGIT_ENTRY_BUFFER_SIZE - 1
      PROVE  buf \in EntryText
  <2>1. Len(buf) \in 0 .. DIGIT_ENTRY_BUFFER_SIZE - 1
    BY <1>2, LimitsAssumption
  <2>2. buf \in [1 .. Len(buf) -> EntryChar]
    BY <1>2
  <2>3. QED BY <2>1, <2>2 DEF EntryText
<1>3. QED BY <1>1, <1>2

LEMMA EmptyEntryText == <<>> \in EntryText
<1>1. <<>> \in Seq(EntryChar) /\ Len(<<>>) = 0
  OBVIOUS
<1>2. 0 <= DIGIT_ENTRY_BUFFER_SIZE - 1
  BY LimitsAssumption
<1>3. QED BY <1>1, <1>2, EntryTextIsSeq

\* A recorded step keeps the program within its array.
LEMMA RecordType ==
  ASSUME NEW p \in Seq(Step), Len(p) <= PROGRAM_MAX_LINES, NEW step \in Step
  PROVE  Record(p, step) \in Seq(Step) /\ Len(Record(p, step)) <= PROGRAM_MAX_LINES
BY LimitsAssumption DEF Record

\* The steps the keyboard builds.
LEMMA StepTypes ==
  /\ \A value \in Number : NumberStep(value) \in Step
  /\ \A text \in TextUpTo(ALPHA_BUFFER_LEN - 1) : TextStep(text) \in Step
  /\ \A key \in ArgKeys \cup OpcodeKeys, arg \in Int, indirect \in BOOLEAN :
        OpcodeStep(key, arg, indirect) \in Step
<1>1. <<>> \in TextUpTo(ALPHA_BUFFER_LEN - 1)
  BY LimitsAssumption DEF TextUpTo
<1>2. Zero \in Number
  BY DataAssumption
<1>3. \A opcode \in StepOpcodes : ClearStep(opcode) \in Step
  BY <1>1, <1>2 DEF ClearStep, Step
<1>4. {"NUMBER", "ALPHA"} \cup ArgKeys \cup OpcodeKeys \subseteq StepOpcodes
  BY DEF StepOpcodes
<1>5. ASSUME NEW value \in Number PROVE NumberStep(value) \in Step
  BY <1>3, <1>4 DEF NumberStep, Step
<1>6. ASSUME NEW text \in TextUpTo(ALPHA_BUFFER_LEN - 1) PROVE TextStep(text) \in Step
  BY <1>3, <1>4 DEF TextStep, Step
<1>7. ASSUME NEW key \in ArgKeys \cup OpcodeKeys, NEW arg \in Int, NEW indirect \in BOOLEAN
      PROVE  OpcodeStep(key, arg, indirect) \in Step
  <2>1. ClearStep(key) \in Step BY <1>3, <1>4
  <2>2. QED BY <2>1 DEF OpcodeStep, Step
<1>8. QED BY <1>5, <1>6, <1>7

-----------------------------------------------------------------------------
(* What a step does to the registers, one lemma per register.               *)

LEMMA PlaceType ==
  ASSUME NEW s \in Stack, NEW n \in Number
  PROVE  Place(s, n) \in Stack
BY DEF Place, Lift, Push, Stack

LEMMA OpcodeStackType ==
  ASSUME NEW s \in Stack, NEW op \in OpcodeKeys
  PROVE  OpcodeStack(op, s) \in Stack
<1>1. s.x \in Number /\ s.y \in Number /\ s.lastx \in Number
  BY DEF Stack
<1>2. CASE op \in ArithKeys
  <2>1. Result(op, s.y, s.x) \in Number
    BY <1>1, <1>2, DataAssumption DEF Result
  <2>2. Combine(s, Result(op, s.y, s.x)) \in Stack
    BY <2>1 DEF Combine, Stack
  <2>3. OpcodeStack(op, s) = Combine(s, Result(op, s.y, s.x))
    BY <1>2 DEF OpcodeStack, ArithKeys
  <2>4. QED BY <2>2, <2>3
<1>3. CASE op = "LASTX"
  BY <1>1, <1>3, PlaceType DEF OpcodeStack, ArithKeys
<1>4. CASE op = "CHS"
  <2>1. Negate(s.x) \in Number BY <1>1, DataAssumption
  <2>2. QED BY <1>4, <2>1 DEF OpcodeStack, ArithKeys, Stack
<1>5. CASE op = "CLX"
  <2>1. Zero \in Number BY DataAssumption
  <2>2. QED BY <1>5, <2>1 DEF OpcodeStack, ArithKeys, Stack
<1>6. CASE op \in {"ENTER", "X_EXCHANGE_Y"}
  BY <1>6 DEF OpcodeStack, ArithKeys, Push, Stack
<1>7. CASE op \notin ArithKeys \cup {"ENTER", "CLX", "CHS", "X_EXCHANGE_Y", "LASTX"}
  BY <1>7 DEF OpcodeStack
<1>8. QED BY <1>2, <1>3, <1>4, <1>5, <1>6, <1>7

LEMMA StackAfterType ==
  ASSUME NEW s \in Stack, NEW step \in Step, NEW arg \in Int,
         storage \in [Registers -> Register]
  PROVE  StackAfter(step, arg, s) \in Stack
<1>1. CASE step.opcode = "NUMBER"
  BY <1>1, PlaceType DEF StackAfter, Step, OpcodeKeys, ArithKeys, ComparisonKeys
<1>2. CASE step.opcode = "RCL" /\ arg \in Registers
  <2>1. Recalled(arg) \in Number
    BY <1>2, DataAssumption DEF Recalled, Register
  <2>2. QED BY <1>2, <2>1, PlaceType DEF StackAfter, OpcodeKeys, ArithKeys, ComparisonKeys
<1>3. CASE step.opcode \in OpcodeKeys
  <2>1. step.opcode \notin {"NUMBER", "RCL"}
    BY <1>3 DEF OpcodeKeys, ArithKeys, ComparisonKeys
  <2>2. QED BY <1>3, <2>1, OpcodeStackType DEF StackAfter
<1>4. CASE ~(\/ step.opcode = "NUMBER"
             \/ step.opcode = "RCL" /\ arg \in Registers
             \/ step.opcode \in OpcodeKeys)
  BY <1>4 DEF StackAfter
<1>5. QED BY <1>1, <1>2, <1>3, <1>4

LEMMA StorageAfterType ==
  ASSUME NEW s \in Stack, NEW step \in Step, NEW arg \in Int,
         storage \in [Registers -> Register], alpha \in TextUpTo(ALPHA_BUFFER_LEN)
  PROVE  StorageAfter(step, arg, s) \in [Registers -> Register]
<1>1. NumericRegister(s.x) \in Register
  BY DEF NumericRegister, Register, Stack
<1>2. Pack(alpha) \in [1 .. ALPHA_PACK_LEN -> Char]
  BY DataAssumption DEF Pack, TextUpTo
<1>3. PackedRegister(Pack(alpha)) \in Register
  BY <1>2 DEF PackedRegister, Register
<1>4. QED BY <1>1, <1>3 DEF StorageAfter

LEMMA FlagsAfterType ==
  ASSUME NEW step \in Step, NEW arg \in Int, flags \in [Flags -> BOOLEAN]
  PROVE  FlagsAfter(step, arg) \in [Flags -> BOOLEAN]
BY DEF FlagsAfter

LEMMA AlphaAfterType ==
  ASSUME NEW step \in Step, NEW arg \in Int,
         storage \in [Registers -> Register], alpha \in TextUpTo(ALPHA_BUFFER_LEN)
  PROVE  AlphaAfter(step, arg) \in TextUpTo(ALPHA_BUFFER_LEN)
<1>1. ALPHA_BUFFER_LEN \in Nat /\ ALPHA_PACK_LEN \in Nat
  BY LimitsAssumption
<1>2. CASE step.opcode = "ALPHA"
  <2>1. step.text \in Seq(Char) BY DEF Step, TextUpTo
  <2>2. QED BY <1>1, <1>2, <2>1, TruncateType DEF AlphaAfter
<1>3. CASE step.opcode = "ARCL" /\ arg \in Registers
  <2>1. storage[arg] \in Register BY <1>3
  <2>2. RegisterText(arg) \in Seq(Char)
    <3>1. CASE storage[arg].kind = "ALPHA_PACKED"
      <4>1. storage[arg].packed \in [1 .. ALPHA_PACK_LEN -> Char]
        BY <2>1, <3>1 DEF Register
      <4>2. storage[arg].packed \in Seq(Char)
        BY <4>1, <1>1
      <4>3. QED BY <3>1, <4>2 DEF RegisterText
    <3>2. CASE storage[arg].kind # "ALPHA_PACKED"
      <4>1. storage[arg].numeric \in Number
        BY <2>1, <3>2 DEF Register
      <4>2. QED BY <3>2, <4>1, DataAssumption DEF RegisterText
    <3>3. QED BY <3>1, <3>2
  <2>3. alpha \o RegisterText(arg) \in Seq(Char)
    BY <2>2 DEF TextUpTo
  <2>4. QED BY <1>1, <1>3, <2>3, TruncateType DEF AlphaAfter
<1>4. CASE step.opcode # "ALPHA" /\ ~(step.opcode = "ARCL" /\ arg \in Registers)
  BY <1>4 DEF AlphaAfter
<1>5. QED BY <1>2, <1>3, <1>4

LEMMA DisplayAfterType ==
  ASSUME NEW step \in Step, NEW arg \in Int,
         display \in [format : DigitsKeys, digits : 0 .. 9]
  PROVE  DisplayAfter(step, arg) \in [format : DigitsKeys, digits : 0 .. 9]
BY DEF DisplayAfter, DigitCounts

\* An argument, direct or through a register, is an int.
LEMMA ResolveType ==
  ASSUME NEW step \in Step, storage \in [Registers -> Register]
  PROVE  Resolve(step) \in SUBSET Int
<1>1. step.arg \in Int BY DEF Step
<1>2. ASSUME step.arg \in Registers, storage[step.arg].kind = "NUMERIC"
      PROVE  IntCasts(storage[step.arg].numeric) \in SUBSET Int
  <2>1. storage[step.arg].numeric \in Number
    BY <1>2 DEF Register
  <2>2. QED BY <2>1, DataAssumption
<1>3. QED BY <1>1, <1>2 DEF Resolve

-----------------------------------------------------------------------------
(* Where a step sends control.                                              *)

\* A jump lands on a line of the program or on a return address.
LEMMA JumpType ==
  ASSUME CodeOK, CallStackOK, NEW step, NEW arg
  PROVE  JumpLines(step, arg) \in SUBSET (0 .. LINE_BOUND)
<1>1. FirstLabel(arg) \in SUBSET (0 .. LINE_BOUND)
  <2>1. Len(program) \in Nat /\ Len(program) <= LINE_BOUND /\ LINE_BOUND \in Nat
    BY LimitsAssumption DEF CodeOK
  <2>2. Lines \subseteq 0 .. LINE_BOUND
    BY <2>1 DEF Lines
  <2>3. QED BY <2>2 DEF FirstLabel
<1>2. CASE step.opcode = "RTN" /\ call_stack # <<>>
  <2>1. Last(call_stack) \in 0 .. LINE_BOUND
    <3>1. call_stack \in Seq(0 .. LINE_BOUND) /\ call_stack # <<>>
      BY <1>2 DEF CallStackOK
    <3>2. Len(call_stack) \in 1 .. Len(call_stack)
      BY <3>1, EmptySeq
    <3>3. QED BY <3>1, <3>2, ElementOfSeq DEF Last
  <2>2. JumpLines(step, arg) = {Last(call_stack)}
    BY <1>2 DEF JumpLines
  <2>3. QED BY <2>1, <2>2
<1>3. CASE ~(step.opcode = "RTN" /\ call_stack # <<>>)
  <2>1. JumpLines(step, arg) = FirstLabel(arg) \/ JumpLines(step, arg) = {}
    <3>1. CASE step.opcode = "GTO"
      BY <3>1 DEF JumpLines
    <3>2. CASE step.opcode = "XEQ" /\ RoomToCall
      BY <3>2 DEF JumpLines
    <3>3. CASE step.opcode # "GTO" /\ ~(step.opcode = "XEQ" /\ RoomToCall)
      BY <1>3, <3>3 DEF JumpLines
    <3>4. QED BY <3>1, <3>2, <3>3
  <2>2. QED BY <1>1, <2>1
<1>4. QED BY <1>2, <1>3

\* A call from a line below LINE_BOUND leaves the call stack in its array.
LEMMA CallStackAfterType ==
  ASSUME CallStackOK, NEW step, NEW arg, NEW line \in -1 .. LINE_BOUND,
         step.opcode = "XEQ" => line < LINE_BOUND
  PROVE  /\ CallStackAfter(step, arg, line) \in Seq(0 .. LINE_BOUND)
         /\ Len(CallStackAfter(step, arg, line)) <= CALL_STACK_MAX_DEPTH
<1> USE LimitsAssumption DEF CallStackOK
<1>1. CASE step.opcode = "RTN" /\ call_stack # <<>>
  <2>1. Front(call_stack) \in Seq(0 .. LINE_BOUND) /\ Len(Front(call_stack)) = Len(call_stack) - 1
    <3>1. call_stack \in Seq(0 .. LINE_BOUND) /\ call_stack # <<>>
      BY <1>1
    <3>2. QED BY <3>1, FrontType
  <2>2. QED BY <1>1, <2>1 DEF CallStackAfter
<1>2. CASE step.opcode = "XEQ" /\ JumpLines(step, arg) # {}
  <2>1. Len(call_stack) < CALL_STACK_MAX_DEPTH
    BY <1>2 DEF JumpLines, RoomToCall
  <2>2. ReturnLine(line) \in 0 .. LINE_BOUND
    BY <1>2 DEF ReturnLine
  <2>3. QED BY <1>2, <2>1, <2>2 DEF CallStackAfter
<1>3. CASE /\ ~(step.opcode = "RTN" /\ call_stack # <<>>)
           /\ ~(step.opcode = "XEQ" /\ JumpLines(step, arg) # {})
  BY <1>3 DEF CallStackAfter
<1>4. QED BY <1>1, <1>2, <1>3

LEMMA ExecuteType ==
  ASSUME RegistersOK, CallStackOK, NEW step \in Step, NEW arg \in Int,
         NEW line \in -1 .. LINE_BOUND, step.opcode = "XEQ" => line < LINE_BOUND,
         NEW s \in Stack, Execute(step, arg, line, s)
  PROVE  RegistersOK' /\ CallStackOK'
<1> USE DEF RegistersOK
<1>1. stack' \in Stack
  BY StackAfterType DEF Execute
<1>2. storage' \in [Registers -> Register]
  BY StorageAfterType DEF Execute
<1>3. flags' \in [Flags -> BOOLEAN]
  BY FlagsAfterType DEF Execute
<1>4. alpha' \in TextUpTo(ALPHA_BUFFER_LEN)
  BY AlphaAfterType DEF Execute
<1>5. display' \in [format : DigitsKeys, digits : 0 .. 9]
  BY DisplayAfterType DEF Execute
<1>6. CallStackOK'
  BY CallStackAfterType DEF Execute, CallStackOK
<1>7. QED BY <1>1, <1>2, <1>3, <1>4, <1>5, <1>6

LEMMA FlushType ==
  ASSUME TypeOK
  PROVE  /\ FlushedStack \in Stack
         /\ FlushedProgram \in Seq(Step) /\ Len(FlushedProgram) <= PROGRAM_MAX_LINES
<1>1. Strtod(entry.buf) \in Number
  BY DataAssumption DEF TypeOK, InputsOK
<1>2. FlushedStack \in Stack
  BY <1>1 DEF FlushedStack, TypeOK, RegistersOK, Stack
<1>3. NumberStep(Strtod(entry.buf)) \in Step
  BY <1>1, StepTypes
<1>4. QED BY <1>2, <1>3, RecordType DEF FlushedProgram, TypeOK, CodeOK

LEMMA CommitType ==
  ASSUME TypeOK, NEW step \in Step, NEW s \in Stack,
         NEW p \in Seq(Step), Len(p) <= PROGRAM_MAX_LINES, Commit(step, s, p)
  PROVE  RegistersOK' /\ CodeOK' /\ CallStackOK'
<1>1. CASE CommitRecords(step, s, p)
  BY <1>1, RecordType DEF CommitRecords, TypeOK, RegistersOK, CodeOK, CallStackOK
<1>2. CASE CommitExecutes(step, s, p)
  <2>1. PICK arg \in Resolve(step) :
          /\ Execute(step, arg, current_line, s)
          /\ IF JumpLines(step, arg) = {} THEN UNCHANGED current_line
             ELSE current_line' \in JumpLines(step, arg)
    BY <1>2 DEF CommitExecutes
  <2>2. arg \in Int
    BY ResolveType DEF TypeOK, RegistersOK
  <2>3. RegistersOK' /\ CallStackOK'
    BY <1>2, <2>1, <2>2, ExecuteType DEF CommitExecutes, TypeOK, CodeOK
  <2>4. current_line' \in -1 .. LINE_BOUND
    BY <2>1, JumpType DEF TypeOK, CodeOK
  <2>5. program' = p
    BY <1>2 DEF CommitExecutes
  <2>6. QED BY <2>3, <2>4, <2>5 DEF CodeOK
<1>3. QED BY <1>1, <1>2 DEF Commit

-----------------------------------------------------------------------------
(* Type correctness.                                                        *)

LEMMA InitType == Init => TypeOK
<1> SUFFICES ASSUME Init PROVE TypeOK
  OBVIOUS
<1>1. Zero \in Number /\ -1 \in -1 .. LINE_BOUND /\ 0 \in 0 .. LINE_BOUND
  BY DataAssumption, LimitsAssumption
<1>2. ModesOK
  BY DEF Init, ModesOK
<1>3. RegistersOK
  <2>1. stack \in Stack
    BY <1>1 DEF Init, ClearStack, Stack
  <2>2. storage \in [Registers -> Register]
    BY <1>1 DEF Init, NumericRegister, Register
  <2>3. alpha \in TextUpTo(ALPHA_BUFFER_LEN)
    BY LimitsAssumption DEF Init, TextUpTo
  <2>4. QED BY <2>1, <2>2, <2>3 DEF Init, RegistersOK, DigitsKeys
<1>4. InputsOK
  BY EmptyEntryText DEF Init, InputsOK, NoEntry, NoPending
<1>5. CodeOK /\ CallStackOK
  BY <1>1, LimitsAssumption DEF Init, CodeOK, CallStackOK
<1>6. LoopOK
  <2>1. 0 \in 0 .. MAX_STEPS_PER_RUN
    BY LimitsAssumption
  <2>2. QED BY <1>1, <2>1 DEF Init, LoopOK, NoRun
<1>7. QED BY <1>2, <1>3, <1>4, <1>5, <1>6 DEF TypeOK

\* The mode keys.
LEMMA ModeKeyType == TypeOK /\ ModeKey => TypeOK'
<1> SUFFICES ASSUME TypeOK, ModeKey PROVE TypeOK'
  OBVIOUS
<1> USE DEF TypeOK
<1>1. NoEntry \in [active : BOOLEAN, buf : EntryText]
  BY EmptyEntryText DEF NoEntry
<1>2. CASE OnKey
  BY <1>2 DEF OnKey, ModesOK, RegistersOK, InputsOK, CodeOK, CallStackOK, LoopOK,
              machine, registers, inputs, code, loop
<1>3. CASE PrgmKey
  <2>1. RegistersOK' /\ CodeOK'
    BY <1>3, FlushType DEF PrgmKey, RegistersOK, CodeOK
  <2>2. ModesOK' /\ InputsOK' /\ CallStackOK' /\ LoopOK'
    BY <1>1, <1>3 DEF PrgmKey, EntryClosed, ModesOK, InputsOK, CallStackOK, LoopOK, loop
  <2>3. QED BY <2>1, <2>2
<1>4. CASE UserKey
  BY <1>4 DEF UserKey, ModesOK, RegistersOK, InputsOK, CodeOK, CallStackOK, LoopOK,
              machine, registers, inputs, code, loop
<1>5. CASE AlphaKey
  <2>1. TextToRecord \in TextUpTo(ALPHA_BUFFER_LEN - 1)
    <3>1. alpha \in Seq(Char) BY DEF RegistersOK, TextUpTo
    <3>2. ALPHA_BUFFER_LEN - 1 \in Nat BY LimitsAssumption
    <3>3. QED BY <3>1, <3>2, TruncateType DEF TextToRecord
  <2>2. CodeOK'
    BY <1>5, <2>1, StepTypes, RecordType DEF AlphaKey, CodeOK
  <2>3. QED BY <1>5, <2>2
            DEF AlphaKey, ModesOK, RegistersOK, InputsOK, CallStackOK, LoopOK,
                machine, registers, inputs, loop
<1>6. CASE BackspaceKey
  <2>1. InputsOK' /\ alpha' \in TextUpTo(ALPHA_BUFFER_LEN)
    <3>1. CASE entry' = [entry EXCEPT !.buf = Front(entry.buf)] /\ entry.buf # <<>> /\ UNCHANGED alpha
      <4>1. Front(entry.buf) \in EntryText
        BY <3>1, EntryTextIsSeq, FrontType, LimitsAssumption DEF InputsOK
      <4>2. QED BY <1>6, <3>1, <4>1 DEF BackspaceKey, InputsOK, RegistersOK
    <3>2. CASE alpha' = Front(alpha) /\ alpha # <<>> /\ UNCHANGED entry
      <4>1. Front(alpha) \in TextUpTo(ALPHA_BUFFER_LEN)
        BY <3>2, FrontType, LimitsAssumption DEF RegistersOK, TextUpTo
      <4>2. QED BY <1>6, <3>2, <4>1 DEF BackspaceKey, InputsOK
    <3>3. QED BY <1>6, <3>1, <3>2 DEF BackspaceKey
  <2>2. QED BY <1>6, <2>1
            DEF BackspaceKey, ModesOK, RegistersOK, CodeOK, CallStackOK, LoopOK,
                modes, code, loop
<1>7. CASE RunStopKey
  <2>1. RegistersOK' /\ CodeOK'
    BY <1>7, FlushType DEF RunStopKey, RegistersOK, CodeOK
  <2>2. CallStackOK'
    BY <1>7, LimitsAssumption DEF RunStopKey, FreshCallStack, CallStackOK
  <2>3. LoopOK'
    <3>1. (IF current_line >= 0 THEN current_line ELSE 0) \in 0 .. LINE_BOUND
      BY LimitsAssumption DEF CodeOK
    <3>2. 0 \in 0 .. MAX_STEPS_PER_RUN
      BY LimitsAssumption
    <3>3. QED BY <1>7, <3>1, <3>2 DEF RunStopKey, NoRun, LoopOK
  <2>4. ModesOK' /\ InputsOK'
    BY <1>1, <1>7 DEF RunStopKey, EntryClosed, ModesOK, InputsOK, modes
  <2>5. QED BY <2>1, <2>2, <2>3, <2>4
<1>8. CASE IndKey
  <2>1. InputsOK'
    BY <1>8 DEF IndKey, TakesIndirect, InputsOK
  <2>2. QED BY <1>8, <2>1
            DEF IndKey, ModesOK, RegistersOK, CodeOK, CallStackOK, LoopOK,
                modes, machine, registers, code, loop
<1>9. QED BY <1>2, <1>3, <1>4, <1>5, <1>6, <1>7, <1>8 DEF ModeKey

\* The one or two digits of an argument are a number.
LEMMA ArgumentValueType ==
  ASSUME NEW digits \in Seq(Digit), Len(digits) <= 1, NEW d \in Digit
  PROVE  ArgumentValue(Append(digits, d)) \in Int
<1> DEFINE all == Append(digits, d)
<1>1. all \in Seq(Digit) /\ Len(all) = Len(digits) + 1 /\ Len(digits) \in Nat
  OBVIOUS
<1>2. Len(all) = 1 \/ Len(all) = 2
  BY <1>1
<1>3. CASE Len(all) = 1
  <2>1. all[1] \in Digit BY <1>1, <1>3
  <2>2. QED BY <1>3, <2>1 DEF ArgumentValue, Digit
<1>4. CASE Len(all) = 2
  <2>1. all[1] \in Digit /\ all[2] \in Digit BY <1>1, <1>4
  <2>2. QED BY <1>4, <2>1 DEF ArgumentValue, Digit
<1>5. QED BY <1>2, <1>3, <1>4

\* The keys of an argument, of a number and of an instruction.
LEMMA EntryKeyType ==
  ASSUME TypeOK, Key, ~ModeKey
  PROVE  TypeOK'
<1> USE DEF TypeOK
<1>1. ASSUME NEW ch \in CharsUsed, AlphaCharKey(ch)
      PROVE  TypeOK'
  <2>1. Append(alpha, ch) \in Seq(Char) /\ ALPHA_BUFFER_LEN \in Nat
    BY InputsAssumption, LimitsAssumption DEF RegistersOK, TextUpTo
  <2>2. alpha' \in TextUpTo(ALPHA_BUFFER_LEN)
    BY <1>1, <2>1, TruncateType DEF AlphaCharKey
  <2>3. QED BY <1>1, <2>2
            DEF AlphaCharKey, ModesOK, RegistersOK, InputsOK, CodeOK, CallStackOK, LoopOK,
                modes, inputs, code, loop
<1>2. ASSUME NEW d \in DigitsUsed, ArgumentDigitKey(d)
      PROVE  TypeOK'
  <2>1. pending.digits \in Seq(Digit) /\ Len(pending.digits) = 0
    BY <1>2 DEF ArgumentDigitKey, Required, ArgDigits, InputsOK
  <2>2. Append(pending.digits, d) \in Seq(Digit) /\ Len(Append(pending.digits, d)) = 1
    BY <2>1, InputsAssumption
  <2>3. InputsOK'
    BY <1>2, <2>2 DEF ArgumentDigitKey, InputsOK
  <2>4. QED BY <1>2, <2>3
            DEF ArgumentDigitKey, ModesOK, RegistersOK, CodeOK, CallStackOK, LoopOK,
                modes, machine, registers, code, loop
<1>3. ASSUME NEW d \in DigitsUsed, LastArgumentDigitKey(d)
      PROVE  TypeOK'
  <2> DEFINE digits == Append(pending.digits, d)
             step   == OpcodeStep(pending.key, ArgumentValue(digits), pending.indirect)
  <2>1. d \in Digit /\ pending.key \in ArgKeys /\ pending.indirect \in BOOLEAN
    BY <1>3, InputsAssumption DEF LastArgumentDigitKey, InputsOK
  <2>2. ArgumentValue(digits) \in Int
    BY <2>1, ArgumentValueType DEF InputsOK
  <2>3. step \in Step
    BY <2>1, <2>2, StepTypes
  <2>4. Commit(step, stack, program)
    BY <1>3 DEF LastArgumentDigitKey
  <2>5. RegistersOK' /\ CodeOK' /\ CallStackOK'
    <3>1. stack \in Stack /\ program \in Seq(Step) /\ Len(program) <= PROGRAM_MAX_LINES
      BY DEF RegistersOK, CodeOK
    <3>2. QED BY <2>3, <2>4, <3>1, CommitType
  <2>6. ModesOK' /\ InputsOK' /\ LoopOK'
    BY <1>3 DEF LastArgumentDigitKey, ArgumentEnded, NoPending, ModesOK, InputsOK, LoopOK,
                modes, loop
  <2>7. QED BY <2>5, <2>6
<1>4. ASSUME NEW key, ArgumentAbortKey(key)
      PROVE  TypeOK'
  <2>1. InputsOK'
    BY <1>4 DEF ArgumentAbortKey, ArgumentEnded, NoPending, InputsOK
  <2>2. QED BY <1>4, <2>1
            DEF ArgumentAbortKey, ModesOK, RegistersOK, CodeOK, CallStackOK, LoopOK,
                modes, machine, registers, code, loop
<1>5. ASSUME NEW ch \in EntryChar, NumberKey(ch)
      PROVE  TypeOK'
  <2>1. Typed(entry.buf, ch) \in EntryText
    <3>1. entry.buf \in Seq(EntryChar) /\ Len(entry.buf) <= DIGIT_ENTRY_BUFFER_SIZE - 1
      BY EntryTextIsSeq DEF InputsOK
    <3>2. CASE Typed(entry.buf, ch) = entry.buf
      BY <3>2 DEF InputsOK
    <3>3. CASE ~BufferFull(entry.buf) /\ Typed(entry.buf, ch) = Append(entry.buf, ch)
      <4>1. /\ Append(entry.buf, ch) \in Seq(EntryChar)
            /\ Len(Append(entry.buf, ch)) <= DIGIT_ENTRY_BUFFER_SIZE - 1
        BY <3>1, <3>3, LimitsAssumption DEF BufferFull
      <4>2. QED BY <3>3, <4>1, EntryTextIsSeq
    <3>4. QED BY <3>2, <3>3 DEF Typed
  <2>2. stack' \in Stack
    <3>1. Strtod(Typed(entry.buf, ch)) \in Number
      BY <2>1, DataAssumption
    <3>2. stack \in Stack /\ Lift(stack) \in Stack
      BY DEF Lift, Push, RegistersOK, Stack
    <3>3. \A s \in Stack : [s EXCEPT !.x = Strtod(Typed(entry.buf, ch))] \in Stack
      BY <3>1 DEF Stack
    <3>4. QED BY <1>5, <3>2, <3>3 DEF NumberKey
  <2>3. InputsOK'
    BY <1>5, <2>1 DEF NumberKey, InputsOK
  <2>4. QED BY <1>5, <2>2, <2>3
            DEF NumberKey, ModesOK, RegistersOK, CodeOK, CallStackOK, LoopOK, modes, code, loop
<1>6. CASE ToggleSignKey
  <2>1. Signed(entry.buf) \in EntryText
    <3>1. entry.buf \in Seq(EntryChar) /\ Len(entry.buf) <= DIGIT_ENTRY_BUFFER_SIZE - 1
      BY EntryTextIsSeq DEF InputsOK
    <3>2. CASE entry.buf # <<>> /\ Signed(entry.buf) = Tail(entry.buf)
      <4>1. Tail(entry.buf) \in Seq(EntryChar) /\ Len(Tail(entry.buf)) <= DIGIT_ENTRY_BUFFER_SIZE - 1
        BY <3>1, <3>2, LimitsAssumption
      <4>2. QED BY <3>2, <4>1, EntryTextIsSeq
    <3>3. CASE Signed(entry.buf) = entry.buf
      BY <3>3 DEF InputsOK
    <3>4. CASE ~BufferFull(entry.buf) /\ Signed(entry.buf) = <<Minus>> \o entry.buf
      <4>1. <<Minus>> \in Seq(EntryChar) /\ Len(<<Minus>>) = 1
        BY DEF EntryChar
      <4>2. /\ <<Minus>> \o entry.buf \in Seq(EntryChar)
            /\ Len(<<Minus>> \o entry.buf) = 1 + Len(entry.buf)
        BY <3>1, <4>1, ConcatProperties
      <4>3. Len(<<Minus>> \o entry.buf) <= DIGIT_ENTRY_BUFFER_SIZE - 1
        BY <3>1, <3>4, <4>2, LimitsAssumption DEF BufferFull
      <4>4. QED BY <3>4, <4>2, <4>3, EntryTextIsSeq
    <3>5. QED BY <3>2, <3>3, <3>4 DEF Signed
  <2>2. InputsOK'
    BY <1>6, <2>1 DEF ToggleSignKey, InputsOK
  <2>3. QED BY <1>6, <2>2
            DEF ToggleSignKey, ModesOK, RegistersOK, CodeOK, CallStackOK, LoopOK,
                modes, machine, registers, code, loop
<1>7. ASSUME NEW key \in ArgKeys, ArgumentKey(key)
      PROVE  TypeOK'
  <2>1. RegistersOK' /\ CodeOK'
    BY <1>7, FlushType DEF ArgumentKey, RegistersOK, CodeOK
  <2>2. InputsOK'
    <3>1. <<>> \in Seq(Digit) /\ Len(<<>>) = 0
      OBVIOUS
    <3>2. pending' \in [active : BOOLEAN, key : ArgKeys \cup {"NONE"},
                        digits : Seq(Digit), indirect : BOOLEAN]
      BY <1>7, <3>1 DEF ArgumentKey, InputsOK
    <3>3. pending'.key \in ArgKeys /\ Len(pending'.digits) <= 1
      BY <1>7, <3>1 DEF ArgumentKey, InputsOK
    <3>4. entry' \in [active : BOOLEAN, buf : EntryText]
      BY <1>7, EmptyEntryText DEF ArgumentKey, EntryClosed, NoEntry
    <3>5. QED BY <3>2, <3>3, <3>4 DEF InputsOK
  <2>3. QED BY <1>7, <2>1, <2>2 DEF ArgumentKey, ModesOK, CallStackOK, LoopOK, modes, loop
<1>8. ASSUME NEW key \in OpcodeKeys, OpcodeKey(key)
      PROVE  TypeOK'
  <2>1. key \in ArgKeys \cup OpcodeKeys /\ 0 \in Int /\ FALSE \in BOOLEAN
    OBVIOUS
  <2>2. OpcodeStep(key, 0, FALSE) \in Step
    BY <2>1, StepTypes, Zenon
  <2>3. RegistersOK' /\ CodeOK' /\ CallStackOK'
    BY <1>8, <2>2, FlushType, CommitType DEF OpcodeKey
  <2>4. InputsOK'
    BY <1>8, EmptyEntryText DEF OpcodeKey, EntryClosed, NoEntry, InputsOK
  <2>5. QED BY <1>8, <2>3, <2>4 DEF OpcodeKey, ModesOK, LoopOK, modes, loop
<1>9. DigitsUsed \subseteq EntryChar /\ Point \in EntryChar
  BY InputsAssumption DEF EntryChar
<1>10. QED BY <1>1, <1>2, <1>3, <1>4, <1>5, <1>6, <1>7, <1>8, <1>9 DEF Key

\* The host.
LEMMA HostType == TypeOK /\ Host => TypeOK'
<1> SUFFICES ASSUME TypeOK, Host PROVE TypeOK'
  OBVIOUS
<1> USE DEF TypeOK
<1>1. ASSUME NEW p \in Programs, LoadProgram(p)
      PROVE  TypeOK'
  <2>1. CodeOK'
    BY <1>1, InputsAssumption, LimitsAssumption DEF LoadProgram, CodeOK
  <2>2. QED BY <1>1, <2>1
            DEF LoadProgram, ModesOK, RegistersOK, InputsOK, CallStackOK, LoopOK,
                modes, machine, registers, inputs, loop
<1>2. CASE Reset
  <2>1. Zero \in Number /\ 0 \in 0 .. LINE_BOUND /\ 0 \in 0 .. MAX_STEPS_PER_RUN
    BY DataAssumption, LimitsAssumption
  <2>2. RegistersOK'
    <3>1. stack' \in Stack
      BY <1>2, <2>1 DEF Reset, ClearStack, Stack
    <3>2. storage' \in [Registers -> Register]
      BY <1>2, <2>1 DEF Reset, NumericRegister, Register
    <3>3. alpha' \in TextUpTo(ALPHA_BUFFER_LEN)
      BY <1>2, LimitsAssumption DEF Reset, TextUpTo
    <3>4. QED BY <1>2, <3>1, <3>2, <3>3 DEF Reset, RegistersOK, DigitsKeys
  <2>3. InputsOK'
    BY <1>2, EmptyEntryText DEF Reset, InputsOK, NoEntry, NoPending
  <2>4. CodeOK' /\ CallStackOK'
    BY <1>2, LimitsAssumption DEF Reset, CodeOK, CallStackOK
  <2>5. ModesOK' /\ LoopOK'
    BY <1>2, <2>1 DEF Reset, ModesOK, LoopOK, NoRun
  <2>6. QED BY <2>2, <2>3, <2>4, <2>5
<1>3. QED BY <1>1, <1>2 DEF Host

\* The R/S loop.
LEMMA LoopType == TypeOK /\ Loop => TypeOK'
<1> SUFFICES ASSUME TypeOK, Loop PROVE TypeOK'
  OBVIOUS
<1> USE DEF TypeOK
<1>1. ASSUME LeaveLoop, UNCHANGED <<modes, machine, inputs, program>>
      PROVE  TypeOK'
  <2>1. CodeOK'
    BY <1>1, LimitsAssumption DEF LeaveLoop, CodeOK, LoopOK
  <2>2. LoopOK'
    <3>1. 0 \in 0 .. LINE_BOUND /\ 0 \in 0 .. MAX_STEPS_PER_RUN
      BY LimitsAssumption
    <3>2. QED BY <1>1, <3>1 DEF LeaveLoop, NoRun, LoopOK
  <2>3. QED BY <1>1, <2>1, <2>2
            DEF ModesOK, RegistersOK, InputsOK, CallStackOK, modes, machine, registers, inputs
<1>2. CASE RunFinish
  BY <1>1, <1>2 DEF RunFinish
<1>3. CASE RunHalt
  BY <1>1, <1>3 DEF RunHalt
<1>4. ASSUME CanStep
      PROVE  /\ run.line + 1 \in 0 .. LINE_BOUND
             /\ run.steps + 1 \in 0 .. MAX_STEPS_PER_RUN
             /\ run.line < LINE_BOUND
             /\ StepAt(run.line) \in Step
  <2>1. run.line \in Lines /\ Len(program) \in Nat /\ Len(program) <= LINE_BOUND
    BY <1>4, LimitsAssumption DEF CanStep, CodeOK
  <2>2. run.line + 1 \in 1 .. Len(program)
    BY <2>1 DEF Lines
  <2>3. StepAt(run.line) \in Step
    BY <2>2 DEF StepAt, CodeOK
  <2>4. run.line + 1 \in 0 .. LINE_BOUND /\ run.line < LINE_BOUND
    BY <2>1, LimitsAssumption DEF Lines
  <2>5. run.steps + 1 \in 0 .. MAX_STEPS_PER_RUN
    BY <1>4, LimitsAssumption DEF CanStep, LoopOK
  <2>6. QED BY <2>3, <2>4, <2>5
<1>5. CASE RunSkip
  <2>1. LoopOK'
    BY <1>4, <1>5 DEF RunSkip, StepsCounted, LoopOK
  <2>2. QED BY <1>5, <2>1
            DEF RunSkip, ModesOK, RegistersOK, InputsOK, CodeOK, CallStackOK,
                modes, machine, registers, inputs, code
<1>6. CASE RunStep
  <2> DEFINE step == StepAt(run.line)
  <2>1. PICK arg \in Resolve(step) :
          /\ Execute(step, arg, run.line, stack)
          /\ \E next \in IF JumpLines(step, arg) = {} THEN {run.line + 1} ELSE JumpLines(step, arg) :
               run' = [line |-> next, steps |-> StepsCounted, skip |-> Skips(step, arg, stack)]
    BY <1>6 DEF RunStep
  <2>2. PICK next \in IF JumpLines(step, arg) = {} THEN {run.line + 1} ELSE JumpLines(step, arg) :
          run' = [line |-> next, steps |-> StepsCounted, skip |-> Skips(step, arg, stack)]
    BY <2>1
  <2>3. step \in Step /\ run.line \in -1 .. LINE_BOUND /\ run.line < LINE_BOUND
    BY <1>4, <1>6 DEF RunStep, LoopOK
  <2>4. arg \in Int
    BY <2>3, ResolveType DEF RegistersOK
  <2>5. RegistersOK' /\ CallStackOK'
    BY <2>1, <2>3, <2>4, ExecuteType DEF RegistersOK
  <2>6. next \in 0 .. LINE_BOUND
    BY <1>4, <1>6, JumpType DEF RunStep
  <2>7. Skips(step, arg, stack) \in BOOLEAN
    BY DEF Skips
  <2>8. LoopOK'
    BY <1>4, <1>6, <2>2, <2>6, <2>7 DEF RunStep, StepsCounted, LoopOK
  <2>9. QED BY <1>6, <2>5, <2>8 DEF RunStep, ModesOK, InputsOK, CodeOK, modes, inputs, code
<1>7. QED BY <1>2, <1>3, <1>5, <1>6 DEF Loop

LEMMA TypeInductive == TypeOK /\ [Next]_vars => TypeOK'
<1>1. TypeOK /\ UNCHANGED vars => TypeOK'
  BY DEF vars, TypeOK, ModesOK, RegistersOK, InputsOK, CodeOK, CallStackOK, LoopOK
<1>2. TypeOK /\ Next => TypeOK'
  BY ModeKeyType, EntryKeyType, HostType, LoopType DEF Next
<1>3. QED BY <1>1, <1>2

\* Every reachable state has every field in its range, whatever the limits of
\* vger_config.h, the keys pressed and the programs loaded: the arrays of the
\* core never overflow.
THEOREM TypeCorrect == Spec => []TypeOK
BY TypeInductive, InitType, PTL DEF Spec

=============================================================================
