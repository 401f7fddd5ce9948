------------------------------- MODULE VgerTwin -------------------------------
(***************************************************************************)
(* Two calculators and one user, who types the same keys on both: on one    *)
(* they execute, on the other they are recorded and run afterwards.  The    *)
(* registers come from NumberKey and OpcodeKey on the one, and on the other *)
(* from vger_flush_digit_entry, vger_commit_instruction and the loop.       *)
(*                                                                         *)
(* The keys are those that mean the same in both modes: numbers, stack and  *)
(* arithmetic keys, registers and text; none that tests, jumps or halts.    *)
(***************************************************************************)
EXTENDS VgerInterp

VARIABLES
  r_power_on, r_calc_mode, r_alpha_mode, r_user_mode, r_stack, r_storage,
  r_flags, r_alpha, r_display, r_entry, r_pending, r_program, r_current_line,
  r_program_running, r_call_stack, r_run,
  phase,  \* "starting", "typing", "closed" or "replayed"
  lift    \* whether a number took the place of X after ENTER or CLX and stayed
          \* there: "unused", "used", or "renewed" by a later ENTER or CLX

Recorder == INSTANCE VgerInterp WITH
  power_on <- r_power_on, calc_mode <- r_calc_mode, alpha_mode <- r_alpha_mode,
  user_mode <- r_user_mode, stack <- r_stack, storage <- r_storage, flags <- r_flags,
  alpha <- r_alpha, display <- r_display, entry <- r_entry, pending <- r_pending,
  program <- r_program, current_line <- r_current_line,
  program_running <- r_program_running, call_stack <- r_call_stack, run <- r_run

recorder == <<r_power_on, r_calc_mode, r_alpha_mode, r_user_mode, r_stack, r_storage,
              r_flags, r_alpha, r_display, r_entry, r_pending, r_program,
              r_current_line, r_program_running, r_call_stack, r_run>>

twinVars == <<vars, recorder, phase, lift>>

\* A run may take as many steps as a program has (vger_config.h:33, :48), and
\* the cast of a number to an int gives one int, or ints that name no register
\* where the number is out of range.
ASSUME TwinAssumption ==
  /\ MAX_STEPS_PER_RUN >= PROGRAM_MAX_LINES
  /\ \A n \in Number : \A a, b \in IntCasts(n) : a = b \/ {a, b} \cap Registers = {}

-----------------------------------------------------------------------------
(* The user.                                                                *)

StackKeys == ArithKeys \cup {"CHS", "ENTER", "X_EXCHANGE_Y", "CLX", "LASTX"}

\* The keys that need no lift after a number: they disable it or use up X.
Settling == ArithKeys \cup {"ENTER", "CLX"}

LiftAfter(key) ==
  IF entry.active /\ ~stack.lift /\ key \notin Settling THEN "used"
  ELSE IF lift = "used" /\ key \in {"ENTER", "CLX"} THEN "renewed"
  ELSE lift

TwinInit ==
  /\ Init /\ Recorder!Init
  /\ phase = "starting" /\ lift = "unused"

\* PRGM, on the second calculator.
StartRecording ==
  /\ phase = "starting"
  /\ Recorder!PrgmKey
  /\ phase' = "typing"
  /\ UNCHANGED <<vars, lift>>

\* Bound of the model: what a key and the number after it record fits.
Room == Len(r_program) + 2 < PROGRAM_MAX_LINES

NumberKeys ==
  \/ \E d \in DigitsUsed : NumberKey(d) /\ Recorder!NumberKey(d)
  \/ "DECIMAL_POINT" \in KeysUsed /\ NumberKey(Point) /\ Recorder!NumberKey(Point)
  \/ ToggleSignKey /\ Recorder!ToggleSignKey
  \/ BackspaceKey /\ Recorder!BackspaceKey

\* A text that fits a step; ALPHA may come in the middle of a number.
TextKeys ==
  \/ AlphaKey /\ Recorder!AlphaKey
  \/ /\ alpha_mode /\ Len(alpha) + 1 < ALPHA_BUFFER_LEN
     /\ \E ch \in CharsUsed : AlphaCharKey(ch) /\ Recorder!AlphaCharKey(ch)

\* ASTO stores a text that the recorded program has composed by then.
TextIsRecorded == ~alpha_mode /\ \E i \in DOMAIN r_program : r_program[i].opcode = "ALPHA"

ArgumentKeys ==
  \/ IndKey /\ Recorder!IndKey
  \/ \E d \in DigitsUsed :
       \/ ArgumentDigitKey(d) /\ Recorder!ArgumentDigitKey(d)
       \/ /\ pending.key = "ASTO" => TextIsRecorded
          /\ LastArgumentDigitKey(d) /\ Recorder!LastArgumentDigitKey(d)
  \/ \E key \in StackKeys : ArgumentAbortKey(key) /\ Recorder!ArgumentAbortKey(key)

InstructionKeys(key) ==
  \/ key \in {"STO", "RCL", "ASTO"} /\ ArgumentKey(key) /\ Recorder!ArgumentKey(key)
  \/ key \in StackKeys /\ OpcodeKey(key) /\ Recorder!OpcodeKey(key)

Type ==
  /\ phase = "typing" /\ Room
  /\ \/ (NumberKeys \/ TextKeys \/ ArgumentKeys) /\ UNCHANGED lift
     \/ \E key \in KeysUsed : InstructionKeys(key) /\ lift' = LiftAfter(key)
  /\ UNCHANGED phase

\* Only a number may be open when recording stops.
OnlyNumberOpen == phase = "typing" /\ ~pending.active /\ ~alpha_mode

\* PRGM again.
StopRecording ==
  /\ OnlyNumberOpen
  /\ Recorder!PrgmKey
  /\ phase' = "closed"
  /\ UNCHANGED <<vars, lift>>

\* R/S, out of PRGM mode or still in it.
Replay ==
  /\ phase = "closed" \/ OnlyNumberOpen
  /\ Recorder!RunStopKey
  /\ phase' = "replayed"
  /\ UNCHANGED <<vars, lift>>

ReplayStep == Recorder!Loop /\ UNCHANGED <<vars, phase, lift>>

\* Both are reset, at any moment.
Again ==
  /\ ~r_program_running
  /\ Reset /\ Recorder!Reset
  /\ phase' = "starting" /\ lift' = "unused"

TwinNext == StartRecording \/ Type \/ StopRecording \/ Replay \/ ReplayStep \/ Again

TwinSpec == TwinInit /\ [][TwinNext]_twinVars

-----------------------------------------------------------------------------
(* Properties.                                                              *)

Values(s) == [s EXCEPT !.lift = TRUE]

\* Typing and recording are two ways to one result: with the open number
\* settled, the stack, LASTX, the registers and the text are what the recorded
\* keys give when they run, however numbers, signs, backspaces, text and
\* arguments were mixed, unless a number was left in the place of another.
TypedAsRecorded ==
  phase = "replayed" /\ ~r_program_running /\ lift = "unused" =>
    /\ Values(FlushedStack) = Values(r_stack)
    /\ storage = r_storage
    /\ alpha = r_alpha

\* tests/test_core.c: ENTER disables lift for the next entry, so not for the
\* one after that.
LiftForNextEntryOnly ==
  [][lift = "used" /\ ~entry.active /\ entry'.active => stack'.y = stack.x]_twinVars

=============================================================================
