----------------------------- MODULE VgerInterp -----------------------------
(***************************************************************************)
(* The state of the vger core (vger_state.c) and its interpreter            *)
(* (vger_interp.c): key dispatch, digit and argument entry, recording, and  *)
(* the execution of steps by a key or by the R/S loop.                      *)
(*                                                                         *)
(* Every key is one action, as vger_interp_handle_key() is one call; R/S    *)
(* opens the loop of vger_run_program(), whose iterations are actions and   *)
(* during which no other call is made, the core having one thread.          *)
(***************************************************************************)
EXTENDS VgerTypes

CONSTANTS
  KeysUsed,    \* the keys the host may press,
  DigitsUsed,  \* the digit keys it may press,
  CharsUsed,   \* the characters it may type in ALPHA mode,
  Programs     \* the programs it may load: outputs of the text parser

ASSUME InputsAssumption ==
  /\ KeysUsed \in SUBSET Keys
  /\ DigitsUsed \in SUBSET Digit
  /\ CharsUsed \in SUBSET Char
  /\ \A p \in Programs : /\ p \in Seq(Step)
                         /\ Len(p) <= PROGRAM_MAX_LINES
                         /\ \A i \in DOMAIN p : WellFormedStep(p[i])

VARIABLES
  power_on, calc_mode, alpha_mode, user_mode,
  stack,            \* reg_x .. reg_t, reg_lastx and stack_lift_enabled
  storage, flags,
  alpha,            \* alpha_buffer up to alpha_len
  display,          \* display_format and display_digits
  entry,            \* entering_digits and digit_entry_buffer
  pending,          \* awaiting_argument and what has been typed of it
  program, current_line, program_running,
  call_stack,       \* call_stack up to call_stack_depth
  run               \* the locals of vger_run_program: line, steps, pending_skip

modes     == <<power_on, calc_mode, alpha_mode, user_mode>>
registers == <<stack, storage, flags, alpha, display>>
machine   == <<registers, call_stack>>
inputs    == <<entry, pending>>
loop      == <<program_running, run>>
code      == <<program, current_line>>

vars == <<power_on, calc_mode, alpha_mode, user_mode, stack, storage, flags,
          alpha, display, entry, pending, program, current_line,
          program_running, call_stack, run>>

-----------------------------------------------------------------------------
(* Initial state: vger_state_reset(), which the host calls first.           *)

ClearStack == [x |-> Zero, y |-> Zero, z |-> Zero, t |-> Zero,
               lastx |-> Zero, lift |-> TRUE]
NoEntry    == [active |-> FALSE, buf |-> <<>>]
\* awaiting_argument_for is not read while nothing is pending.
NoPending  == [active |-> FALSE, key |-> "NONE", digits |-> <<>>, indirect |-> FALSE]
NoRun      == [line |-> 0, steps |-> 0, skip |-> FALSE]

Init ==
  /\ power_on = TRUE /\ calc_mode = "RUN" /\ alpha_mode = FALSE /\ user_mode = FALSE
  /\ stack = ClearStack
  /\ storage = [r \in Registers |-> NumericRegister(Zero)]
  /\ flags = [f \in Flags |-> FALSE]
  /\ alpha = <<>>
  /\ display = [format |-> "FIX", digits |-> 4]
  /\ entry = NoEntry /\ pending = NoPending
  /\ program = <<>> /\ current_line = -1
  /\ program_running = FALSE /\ call_stack = <<>> /\ run = NoRun

-----------------------------------------------------------------------------
(* The stack.                                                               *)

Push(s) == [s EXCEPT !.y = s.x, !.z = s.y, !.t = s.z]

\* vger_stack_push_lift
Lift(s) == IF s.lift THEN Push(s) ELSE s

\* A number comes into X and the next one will push it.
Place(s, n) == [Lift(s) EXCEPT !.x = n, !.lift = TRUE]

\* A dyadic result replaces X and Y; the stack drops and T stays.
Combine(s, result) ==
  [s EXCEPT !.lastx = s.x, !.x = result, !.y = s.z, !.z = s.t, !.lift = TRUE]

\* Division by zero gives 0.
Result(op, y, x) ==
  IF op = "DIVIDE" /\ Equal(x, Zero) THEN Zero ELSE Arith(op, y, x)

OpcodeStack(op, s) ==
  CASE op = "ENTER"         -> [Push(s) EXCEPT !.lift = FALSE]
    [] op = "CLX"           -> [s EXCEPT !.lastx = s.x, !.x = Zero, !.lift = FALSE]
    [] op = "CHS"           -> [s EXCEPT !.x = Negate(s.x)]
    [] op = "X_EXCHANGE_Y"  -> [s EXCEPT !.x = s.y, !.y = s.x]
    [] op = "LASTX"         -> Place(s, s.lastx)
    [] op \in ArithKeys     -> Combine(s, Result(op, s.y, s.x))
    [] OTHER                -> s

-----------------------------------------------------------------------------
(* What a step does to the registers.                                       *)

\* The program lines, from 0.
Lines == 0 .. Len(program) - 1
StepAt(line) == program[line + 1]

\* vger_resolve_arg: the int a step acts on; the cast is (int)double.
Resolve(step) ==
  IF ~step.indirect THEN {step.arg}
  ELSE IF step.arg \in Registers /\ storage[step.arg].kind = "NUMERIC"
       THEN IntCasts(storage[step.arg].numeric)
       ELSE {-1}

\* RCL of a register that holds text recalls 0.
Recalled(r) == IF storage[r].kind = "NUMERIC" THEN storage[r].numeric ELSE Zero

StackAfter(step, arg, s) ==
  CASE step.opcode = "NUMBER"                       -> Place(s, step.number)
    [] step.opcode = "RCL" /\ arg \in Registers     -> Place(s, Recalled(arg))
    [] step.opcode \in OpcodeKeys                   -> OpcodeStack(step.opcode, s)
    [] OTHER                                        -> s

StorageAfter(step, arg, s) ==
  CASE step.opcode = "STO" /\ arg \in Registers  -> [storage EXCEPT ![arg] = NumericRegister(s.x)]
    [] step.opcode = "ASTO" /\ arg \in Registers -> [storage EXCEPT ![arg] = PackedRegister(Pack(alpha))]
    [] OTHER                                     -> storage

\* Wrong: bounded by the array instead of the user range.
UserFlagsAsArray == Flags
\* The flags SF, CF and FS?C may touch.
UserFlags == 0 .. MAX_USER_FLAG

FlagsAfter(step, arg) ==
  IF step.opcode \in FlagKeys /\ arg \in UserFlags
  THEN [flags EXCEPT ![arg] = (step.opcode = "SF")]
  ELSE flags

\* The characters ARCL appends.
RegisterText(r) ==
  IF storage[r].kind = "ALPHA_PACKED" THEN storage[r].packed ELSE FormatG(storage[r].numeric)

AlphaAfter(step, arg) ==
  CASE step.opcode = "ALPHA" -> Truncate(step.text, ALPHA_BUFFER_LEN)
    [] step.opcode = "ARCL" /\ arg \in Registers
                             -> Truncate(alpha \o RegisterText(arg), ALPHA_BUFFER_LEN)
    [] OTHER                 -> alpha

\* Wrong: the bound is off by one.
DigitCountsToTen == 0 .. 10
\* The arguments FIX, SCI and ENG accept.
DigitCounts == 0 .. 9

DisplayAfter(step, arg) ==
  IF step.opcode \in DigitsKeys /\ arg \in DigitCounts
  THEN [format |-> step.opcode, digits |-> arg]
  ELSE display

-----------------------------------------------------------------------------
(* Where a step sends control: vger_exec_result_t and *io_current_line.     *)

\* vger_program_find_label: the first LBL of that number, if there is one.
FirstLabel(number) ==
  {line \in Lines :
     /\ StepAt(line).opcode = "LBL" /\ StepAt(line).arg = number
     /\ \A before \in 0 .. line - 1 :
          ~(StepAt(before).opcode = "LBL" /\ StepAt(before).arg = number)}

\* Wrong: one call too many.
RoomToCallOffByOne == Len(call_stack) <= CALL_STACK_MAX_DEPTH
RoomToCall == Len(call_stack) < CALL_STACK_MAX_DEPTH

\* The line a step jumps to; none when it does not jump.
JumpLines(step, arg) ==
  CASE step.opcode = "RTN" /\ call_stack # <<>>   -> {Last(call_stack)}
    [] step.opcode = "GTO"                        -> FirstLabel(arg)
    [] step.opcode = "XEQ" /\ RoomToCall          -> FirstLabel(arg)
    [] OTHER                                      -> {}

\* Wrong: RTN would run the call again.
ReturnLineSelf(line) == line
\* XEQ comes back to the line after its own.
ReturnLine(line) == line + 1

CallStackAfter(step, arg, line) ==
  CASE step.opcode = "RTN" /\ call_stack # <<>>            -> Front(call_stack)
    [] step.opcode = "XEQ" /\ JumpLines(step, arg) # {}    -> Append(call_stack, ReturnLine(line))
    [] OTHER                                               -> call_stack

Halts(step, arg) ==
  \/ step.opcode \in {"END", "RUN_STOP"}
  \/ step.opcode = "RTN" /\ call_stack = <<>>
  \/ step.opcode = "XEQ" /\ FirstLabel(arg) # {} /\ ~RoomToCall

Holds(op, s) ==
  CASE op = "X_EQ_0" -> Equal(s.x, Zero)
    [] op = "X_NE_0" -> ~Equal(s.x, Zero)
    [] op = "X_GT_0" -> Greater(s.x, Zero)
    [] op = "X_LT_0" -> Greater(Zero, s.x)
    [] op = "X_EQ_Y" -> Equal(s.x, s.y)
    [] op = "X_NE_Y" -> ~Equal(s.x, s.y)
    [] op = "X_GT_Y" -> Greater(s.x, s.y)
    [] op = "X_LT_Y" -> Greater(s.y, s.x)

\* A false test, or FS?C of a clear flag, skips the next step.
Skips(step, arg, s) ==
  \/ step.opcode \in ComparisonKeys /\ ~Holds(step.opcode, s)
  \/ step.opcode = "FS_QUESTION_C" /\ arg \in UserFlags /\ ~flags[arg]

\* vger_execute_step from line, on stack s.
Execute(step, arg, line, s) ==
  /\ stack'      = StackAfter(step, arg, s)
  /\ storage'    = StorageAfter(step, arg, s)
  /\ flags'      = FlagsAfter(step, arg)
  /\ alpha'      = AlphaAfter(step, arg)
  /\ display'    = DisplayAfter(step, arg)
  /\ call_stack' = CallStackAfter(step, arg, line)

-----------------------------------------------------------------------------
(* Closing digit entry, and committing an instruction.                      *)

\* Wrong: a full program loses its last step to the new one.
RecordOverLast(p, step) ==
  IF Len(p) < PROGRAM_MAX_LINES THEN Append(p, step) ELSE Append(Front(p), step)
\* A full program drops the step.
Record(p, step) == IF Len(p) < PROGRAM_MAX_LINES THEN Append(p, step) ELSE p

\* vger_flush_digit_entry: a number being typed is recorded, or settles in X.
FlushedProgram ==
  IF entry.active /\ calc_mode = "PRGM"
  THEN Record(program, NumberStep(Strtod(entry.buf)))
  ELSE program

\* Wrong: the number settles in X in PRGM mode, too.
FlushedStackInAnyMode ==
  IF entry.active THEN [stack EXCEPT !.x = Strtod(entry.buf)] ELSE stack
\* Wrong: X is taken to have followed the entry.
FlushedStackAsShown == stack
FlushedStack ==
  IF entry.active /\ calc_mode = "RUN"
  THEN [stack EXCEPT !.x = Strtod(entry.buf)]
  ELSE stack

\* Wrong: entering_digits is left set.
EntryLeftOpen == entry
EntryClosed == NoEntry

\* vger_commit_instruction, after a flush that left stack s and program p.
\* LINE_BOUND bounds the line numbers that calls from the keyboard build up.
CommitRecords(step, s, p) ==
  /\ calc_mode = "PRGM"
  /\ program' = Record(p, step)
  /\ stack' = s
  /\ UNCHANGED <<storage, flags, alpha, display, call_stack, current_line>>

CommitExecutes(step, s, p) ==
  /\ calc_mode = "RUN"
  /\ step.opcode = "XEQ" => current_line < LINE_BOUND
  /\ program' = p
  /\ \E arg \in Resolve(step) :
       /\ Execute(step, arg, current_line, s)
       /\ IF JumpLines(step, arg) = {}
          THEN UNCHANGED current_line
          ELSE current_line' \in JumpLines(step, arg)

Commit(step, s, p) == CommitRecords(step, s, p) \/ CommitExecutes(step, s, p)

-----------------------------------------------------------------------------
(* Keys.  The order of the dispatcher is in the guards: mode keys first,    *)
(* then a pending argument, then digit entry, then instructions.            *)

\* A call that does something: between R/S runs, with the power on.
Ready(key) == key \in KeysUsed /\ power_on /\ ~program_running

OnKey ==
  /\ "ON" \in KeysUsed /\ ~program_running
  /\ power_on' = ~power_on
  /\ UNCHANGED <<calc_mode, alpha_mode, user_mode, machine, inputs, code, loop>>

PrgmKey ==
  /\ Ready("PRGM")
  /\ stack' = FlushedStack
  /\ program' = FlushedProgram
  /\ entry' = EntryClosed
  /\ calc_mode' = IF calc_mode = "RUN" THEN "PRGM" ELSE "RUN"
  /\ UNCHANGED <<power_on, alpha_mode, user_mode, storage, flags, alpha, display,
                 pending, current_line, call_stack, loop>>

UserKey ==
  /\ Ready("USER")
  /\ user_mode' = ~user_mode
  /\ UNCHANGED <<power_on, calc_mode, alpha_mode, machine, inputs, code, loop>>

\* Wrong: the NUL is forgotten.
TextToRecordWhole == alpha
\* What fits a step beside its NUL.
TextToRecord == Truncate(alpha, ALPHA_BUFFER_LEN - 1)

\* Leaving ALPHA while recording records the text.
AlphaKey ==
  /\ Ready("ALPHA")
  /\ alpha_mode' = ~alpha_mode
  /\ program' = IF alpha_mode /\ calc_mode = "PRGM"
                THEN Record(program, TextStep(TextToRecord))
                ELSE program
  /\ UNCHANGED <<power_on, calc_mode, user_mode, machine, inputs, current_line, loop>>

AlphaCharKey(ch) ==
  /\ power_on /\ ~program_running
  /\ alpha' = Truncate(Append(alpha, ch), ALPHA_BUFFER_LEN)
  /\ UNCHANGED <<modes, stack, storage, flags, display, call_stack, inputs, code, loop>>

\* Digit entry first, then ALPHA text.  X is not updated.
BackspaceKey ==
  /\ Ready("BACKSPACE")
  /\ \/ /\ entry.active /\ entry.buf # <<>>
        /\ entry' = [entry EXCEPT !.buf = Front(entry.buf)]
        /\ UNCHANGED alpha
     \/ /\ ~(entry.active /\ entry.buf # <<>>)
        /\ alpha_mode /\ alpha # <<>>
        /\ alpha' = Front(alpha)
        /\ UNCHANGED entry
  /\ UNCHANGED <<modes, stack, storage, flags, display, call_stack, pending, code, loop>>

\* Wrong: the calls made from the keyboard stay pending.
StaleCallStack == call_stack
\* A fresh run has no pending subroutines.
FreshCallStack == <<>>

\* R/S closes digit entry and enters the loop at the current line.
RunStopKey ==
  /\ Ready("RUN_STOP")
  /\ stack' = FlushedStack
  /\ program' = FlushedProgram
  /\ entry' = EntryClosed
  /\ program_running' = TRUE
  /\ call_stack' = FreshCallStack
  /\ run' = [NoRun EXCEPT !.line = IF current_line >= 0 THEN current_line ELSE 0]
  /\ UNCHANGED <<modes, storage, flags, alpha, display, pending, current_line>>

\* Wrong: the exception for LBL is forgotten.
TakesIndirectAny == pending.active /\ pending.digits = <<>>
\* IND counts right after the opcode key, and LBL has no indirect form.
TakesIndirect == pending.active /\ pending.digits = <<>> /\ pending.key # "LBL"

IndKey ==
  /\ Ready("IND")
  /\ TakesIndirect
  /\ pending' = [pending EXCEPT !.indirect = TRUE]
  /\ UNCHANGED <<modes, machine, entry, code, loop>>

\* A pointer register always takes two digits.
Required == IF pending.indirect THEN 2 ELSE ArgDigits(pending.key)

\* Wrong: awaiting_argument_indirect survives the instruction.
ArgumentEndedDirty == [NoPending EXCEPT !.indirect = pending.indirect]
ArgumentEnded == NoPending

ArgumentDigitKey(d) ==
  /\ power_on /\ ~program_running
  /\ pending.active
  /\ Len(pending.digits) + 1 < Required
  /\ pending' = [pending EXCEPT !.digits = Append(pending.digits, d)]
  /\ UNCHANGED <<modes, machine, entry, code, loop>>

\* strtol of the digits typed.
ArgumentValue(digits) == IF Len(digits) = 1 THEN digits[1] ELSE 10 * digits[1] + digits[2]

LastArgumentDigitKey(d) ==
  /\ power_on /\ ~program_running
  /\ pending.active
  /\ Len(pending.digits) + 1 >= Required
  /\ pending' = ArgumentEnded
  /\ Commit(OpcodeStep(pending.key, ArgumentValue(Append(pending.digits, d)), pending.indirect),
            stack, program)
  /\ UNCHANGED <<modes, entry, loop>>

\* The interrupting key is dropped.
ArgumentAbortKey(key) ==
  /\ Ready(key)
  /\ pending.active
  /\ pending' = ArgumentEnded
  /\ UNCHANGED <<modes, machine, entry, code, loop>>

\* Wrong: only the last character is looked at.
EndsInPoint(buf) == buf # <<>> /\ buf[Len(buf)] = Point
HasPoint(buf) == \E i \in DOMAIN buf : buf[i] = Point

BufferFull(buf) == Len(buf) + 1 >= DIGIT_ENTRY_BUFFER_SIZE

\* What a digit or point makes of the buffer; a second point and a full
\* buffer change nothing.
Typed(buf, ch) ==
  IF (ch = Point /\ HasPoint(buf)) \/ BufferFull(buf) THEN buf ELSE Append(buf, ch)

\* The first character of a number lifts the stack in RUN mode, where X
\* follows the buffer.
NumberKey(ch) ==
  /\ power_on /\ ~program_running
  /\ ~pending.active
  /\ LET begun == IF entry.active THEN stack ELSE Lift(stack)
         buf   == Typed(entry.buf, ch)
     IN  /\ entry' = [active |-> TRUE, buf |-> buf]
         /\ stack' = IF calc_mode = "PRGM" THEN stack
                     ELSE IF buf = entry.buf THEN begun
                     ELSE [begun EXCEPT !.x = Strtod(buf)]
  /\ UNCHANGED <<modes, storage, flags, alpha, display, call_stack, pending, code, loop>>

Signed(buf) ==
  IF buf # <<>> /\ Head(buf) = Minus THEN Tail(buf)
  ELSE IF BufferFull(buf) THEN buf
  ELSE <<Minus>> \o buf

\* CHS within a number.  X is not updated.
ToggleSignKey ==
  /\ Ready("CHS")
  /\ ~pending.active /\ entry.active
  /\ entry' = [entry EXCEPT !.buf = Signed(entry.buf)]
  /\ UNCHANGED <<modes, machine, pending, code, loop>>

\* awaiting_argument_indirect is not touched.
ArgumentKey(key) ==
  /\ Ready(key)
  /\ ~pending.active
  /\ stack' = FlushedStack
  /\ program' = FlushedProgram
  /\ entry' = EntryClosed
  /\ pending' = [pending EXCEPT !.active = TRUE, !.key = key, !.digits = <<>>]
  /\ UNCHANGED <<modes, storage, flags, alpha, display, current_line, call_stack, loop>>

OpcodeKey(key) ==
  /\ Ready(key)
  /\ ~pending.active
  /\ ~(key = "CHS" /\ entry.active)
  /\ entry' = EntryClosed
  /\ Commit(OpcodeStep(key, 0, FALSE), FlushedStack, FlushedProgram)
  /\ UNCHANGED <<modes, pending, loop>>

-----------------------------------------------------------------------------
(* The host, between keys.                                                  *)

LoadProgram(p) ==
  /\ ~program_running
  /\ program' = p
  /\ current_line' = IF p # <<>> THEN 0 ELSE -1
  /\ UNCHANGED <<modes, machine, inputs, loop>>

Reset ==
  /\ ~program_running
  /\ power_on' = TRUE /\ calc_mode' = "RUN" /\ alpha_mode' = FALSE /\ user_mode' = FALSE
  /\ stack' = ClearStack
  /\ storage' = [r \in Registers |-> NumericRegister(Zero)]
  /\ flags' = [f \in Flags |-> FALSE]
  /\ alpha' = <<>>
  /\ display' = [format |-> "FIX", digits |-> 4]
  /\ entry' = NoEntry /\ pending' = NoPending
  /\ program' = <<>> /\ current_line' = -1
  /\ program_running' = FALSE /\ call_stack' = <<>> /\ run' = NoRun

-----------------------------------------------------------------------------
(* The loop of vger_run_program().                                          *)

CanStep == run.steps < MAX_STEPS_PER_RUN /\ run.line \in Lines

LeaveLoop ==
  /\ program_running' = FALSE
  /\ current_line' = run.line
  /\ run' = NoRun

\* Wrong: the cap is never approached.
StepsNotCounted == run.steps
StepsCounted == run.steps + 1

\* The step cap is reached or the line is outside the program.
RunFinish ==
  /\ program_running /\ ~CanStep
  /\ LeaveLoop
  /\ UNCHANGED <<modes, machine, inputs, program>>

RunSkip ==
  /\ program_running /\ CanStep
  /\ run.skip
  /\ run' = [line |-> run.line + 1, steps |-> StepsCounted, skip |-> FALSE]
  /\ UNCHANGED <<modes, machine, inputs, code, program_running>>

RunStep ==
  /\ program_running /\ CanStep
  /\ ~run.skip
  /\ \E arg \in Resolve(StepAt(run.line)) :
       LET step == StepAt(run.line) IN
       /\ ~Halts(step, arg)
       /\ Execute(step, arg, run.line, stack)
       /\ \E next \in IF JumpLines(step, arg) = {} THEN {run.line + 1} ELSE JumpLines(step, arg) :
            run' = [line |-> next, steps |-> StepsCounted, skip |-> Skips(step, arg, stack)]
  /\ UNCHANGED <<modes, inputs, code, program_running>>

\* A halting step leaves the registers alone and stays the current line.
RunHalt ==
  /\ program_running /\ CanStep
  /\ ~run.skip
  /\ \E arg \in Resolve(StepAt(run.line)) : Halts(StepAt(run.line), arg)
  /\ LeaveLoop
  /\ UNCHANGED <<modes, machine, inputs, program>>

-----------------------------------------------------------------------------
(* What the host asks the policy (vger_mode_policy.c) between calls.        *)

\* Wrong: an argument that is pending is forgotten.
NotMidNumber == power_on /\ ~program_running /\ ~entry.active
\* vger_policy_idle_only: whether MENU may be entered.
Idle == power_on /\ ~program_running /\ ~entry.active /\ ~pending.active

-----------------------------------------------------------------------------

ModeKey == OnKey \/ PrgmKey \/ UserKey \/ AlphaKey \/ BackspaceKey \/ RunStopKey \/ IndKey

Key ==
  \/ ModeKey
  \/ \E ch \in CharsUsed : AlphaCharKey(ch)
  \/ \E d \in DigitsUsed : ArgumentDigitKey(d) \/ LastArgumentDigitKey(d)
  \/ \E key \in ArgKeys \cup OpcodeKeys \cup {"DECIMAL_POINT"} : ArgumentAbortKey(key)
  \/ \E d \in DigitsUsed : NumberKey(d)
  \/ "DECIMAL_POINT" \in KeysUsed /\ NumberKey(Point)
  \/ ToggleSignKey
  \/ \E key \in ArgKeys : ArgumentKey(key)
  \/ \E key \in OpcodeKeys : OpcodeKey(key)

Host == Reset \/ \E p \in Programs : LoadProgram(p)

Loop == RunFinish \/ RunSkip \/ RunStep \/ RunHalt

Next == Key \/ Host \/ Loop

\* The loop runs inside the call that R/S makes, so it goes on until it
\* leaves; nothing obliges the host to press a key.
Spec == Init /\ [][Next]_vars /\ WF_vars(Loop)

-----------------------------------------------------------------------------
(* Invariants.                                                              *)

ModesOK ==
  /\ power_on \in BOOLEAN /\ calc_mode \in {"RUN", "PRGM"}
  /\ alpha_mode \in BOOLEAN /\ user_mode \in BOOLEAN

Stack == [x : Number, y : Number, z : Number, t : Number, lastx : Number, lift : BOOLEAN]

RegistersOK ==
  /\ stack \in Stack
  /\ storage \in [Registers -> Register]
  /\ flags \in [Flags -> BOOLEAN]
  /\ alpha \in TextUpTo(ALPHA_BUFFER_LEN)
  /\ display \in [format : DigitsKeys, digits : 0 .. 9]

InputsOK ==
  /\ entry \in [active : BOOLEAN, buf : EntryText]
  /\ pending \in [active : BOOLEAN, key : ArgKeys \cup {"NONE"},
                  digits : Seq(Digit), indirect : BOOLEAN]
  /\ pending.active => pending.key \in ArgKeys
  /\ Len(pending.digits) <= 1

CodeOK ==
  /\ program \in Seq(Step) /\ Len(program) <= PROGRAM_MAX_LINES
  /\ current_line \in -1 .. LINE_BOUND

CallStackOK ==
  call_stack \in Seq(0 .. LINE_BOUND) /\ Len(call_stack) <= CALL_STACK_MAX_DEPTH

LoopOK ==
  /\ program_running \in BOOLEAN
  /\ run \in [line : 0 .. LINE_BOUND, steps : 0 .. MAX_STEPS_PER_RUN, skip : BOOLEAN]

\* Every field stays in its range: no buffer, program, call stack or count of
\* the code overflows, and display_digits keeps within 0-9.
TypeOK == ModesOK /\ RegistersOK /\ InputsOK /\ CodeOK /\ CallStackOK /\ LoopOK

\* A digit key has one meaning: the core is never inside a number and inside
\* an argument at once, whatever keys came between.
OneEntryAtATime == ~(entry.active /\ pending.active)

\* A pending argument never holds the digits that would complete it, LBL is
\* never pending with IND, and an instruction begins with nothing left over
\* from the one before, whether that one was completed or cancelled.
PendingWellFormed ==
  IF pending.active
  THEN Len(pending.digits) < Required /\ (pending.indirect => pending.key # "LBL")
  ELSE pending.digits = <<>> /\ ~pending.indirect

\* A sign in front at most, one point at most, and a digit somewhere: strtod
\* reads such a text to its end.
IsNumeral(buf) ==
  /\ \A i \in DOMAIN buf : buf[i] = Minus => i = 1
  /\ \A i, j \in DOMAIN buf : buf[i] = Point /\ buf[j] = Point => i = j
  /\ \E i \in DOMAIN buf : buf[i] \in Digit

\* Whatever mixture of digits, points, CHS and backspaces is typed, strtod never
\* stops half way in the buffer and drops the rest: it is a numeral, or one of
\* the four beginnings of one without a digit, which are 0.  Once entry is
\* closed nothing is left for the next number.
EntryWellFormed ==
  /\ entry.buf \in Digitless \/ IsNumeral(entry.buf)
  /\ ~entry.active => entry.buf = <<>>

\* No program, recorded or loaded, holds an indirect LBL (find_label compares
\* int_arg and would take the pointer register for a label number) or an
\* indirect step without argument.
ProgramWellFormed == \A i \in DOMAIN program : WellFormedStep(program[i])

\* MENU is let in only when nothing is half done that it could disturb or that a
\* later key could take up again: closing the entry would change no register and
\* record nothing, and no digit or IND mark of an argument is kept.
NothingOpen ==
  /\ power_on /\ ~program_running
  /\ pending = NoPending /\ entry = NoEntry
  /\ FlushedStack = stack /\ FlushedProgram = program
MenuLosesNothing == Idle => NothingOpen

\* The reserved flags read back false, by SF directly or through a register.
ReservedFlagsClear == \A f \in Flags : f > MAX_USER_FLAG => ~flags[f]

\* During a run every pending return address is the line after an XEQ of the
\* program being run: nothing an earlier run, the keyboard or another program
\* left on the call stack is ever returned to.
ReturnsFollowCalls ==
  program_running =>
    \A i \in DOMAIN call_stack :
      /\ call_stack[i] \in 1 .. Len(program)
      /\ StepAt(call_stack[i] - 1).opcode = "XEQ"

\* Wherever it was started, once it has taken a step a run is at a line of the
\* program or right behind its last one, through every call and return.
RunStaysInProgram ==
  program_running /\ run.steps > 0 => run.line \in 0 .. Len(program)

-----------------------------------------------------------------------------
(* Action and liveness properties.                                          *)

\* Keys pressed in PRGM mode record and never act: the registers, flags and
\* display change only by a reset, or by a run that R/S starts there.
RecordingIsPure ==
  [][calc_mode = "PRGM" /\ ~program_running /\ ~Reset =>
       UNCHANGED <<stack, storage, flags, display>>]_vars

\* Recording is append-only: apart from the host loading or resetting, the
\* program changes in PRGM mode only, keeps every step it has, and gains at
\* most the two steps one key can record (the number it ends and its own).
RecordingAppends ==
  [][program' # program =>
       \/ Host
       \/ /\ calc_mode = "PRGM"
          /\ IsPrefix(program, program')
          /\ Len(program') <= Len(program) + 2]_vars

\* R/S always returns to the host, whatever loops the program contains.
RunTerminates == program_running ~> ~program_running

-----------------------------------------------------------------------------
(* What comments of the code say, and the code does not do.                 *)

\* vger_interp.c: a pointer register out of range or not numeric resolves to
\* -1, on which every instruction is a no-op.
UnresolvedPointerIsNoOp ==
  [][program_running /\ CanStep /\ ~run.skip /\ StepAt(run.line).indirect
     /\ ~(StepAt(run.line).arg \in Registers /\ storage[StepAt(run.line).arg].kind = "NUMERIC")
     => UNCHANGED machine /\ run'.line = run.line + 1]_vars

\* vger_interp.c: a false test skips the next program step, so no run ends
\* between the two while there is a step to skip.
FalseTestSkipsNext ==
  [][program_running /\ ~program_running' => ~(run.skip /\ run.line \in Lines)]_vars

=============================================================================
