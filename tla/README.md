# A TLA+ model of vger

vger is an HP-41-like calculator in C. Its core (`src/core/`) is a single-threaded
interpreter driven by key events: no call is ever made while another is in progress.
Around it are a desktop harness (`src/harness/`), which drives the core from an SDL event
loop and draws its display, and a display driver (`src/firmware/`), which will show it on the
real hardware. What is hard in the core is not concurrency between threads but the number of small
sub-states a key may meet (a number being typed, an argument pending, ALPHA, PRGM,
power off), the order in which the dispatcher looks at them, and a run loop whose
control (skips, jumps, calls, a step cap) is spread over several functions. Around the
core it is time: events come while a program runs, the window shows the past, and the
display controller drops what comes too early.

## Inventory

| component | state it keeps | operations | behaviours that are hard | what makes it correct |
|---|---|---|---|---|
| Interpreter, `core/vger_interp.c` | works on the whole `struct vger_state`; `vger_run_program` keeps line, step count and pending skip as locals | `vger_interp_handle_key`: mode keys, argument keys, digit entry, instructions, R/S | keys in orders nobody wrote a test for; recording or executing depending on a mode that can change half way; calls and skips in a run; limits of four buffers | the sub-states exclude each other and leave nothing behind; recording appends and touches no register; a run returns to its own calls, stays in its program and ends |
| State core, `core/vger_state.c`, `vger_state_internal.h`, `vger_types.h`, `vger_config.h` | registers, flags, ALPHA, display, modes, entry, program, call stack | reset, load_program, getters | load_program replaces the program under a call stack and a pending argument of the old one | every field in range, the reserved flags false |
| Program IR and text parser, `core/vger_program.c` | `vger_program_t` | `vger_program_parse_text`, `vger_program_find_label` | over-long texts, unvalidated arguments, truncated lines, blank lines that count in messages and not in the program | a parsed program is one the core may load; the answer is that of the header; a label lookup finds the first |
| Mode policy, `core/vger_mode_policy.c` | none | `vger_mode_policy_may_enter_menu` | asked between keys by the host | MENU only when nothing is half done |
| Desktop harness, `harness/main.c`, `vger_keymap.c` | the running flag, the events taken in this frame, the frame in the window | load at start, event loop, keys, MENU, reset key, frame | events queue up while a program runs; ALPHA changes what a scancode means between two events of a frame; only a budget keeps frames coming | the core is driven within its specification; text keys type; frames, resets and the end always come |
| Seven-segment renderer, `harness/vger_sevenseg.c` | none | draws a string | a point takes no cell and is placed against a cursor that already stands at the next one | every digit on the panel reads back as the one drawn; a point belongs to the cell before it |
| Assertions, `core/vger_assert.c` | none | print and abort | none | never reached in the core |
| ST7920 driver, `firmware/st7920.c`, `main.c`, `pins.h` | pins; the controller's address counter and RAM | init, clear, draw_frame | the controller drops a command that comes too early and cannot be asked; the address is two commands that look alike | no command is dropped; each byte lands where it belongs |

How they interact: the harness calls `vger_state_reset`, then perhaps
`vger_program_parse_text` and `vger_state_load_program`, then for each key press
`vger_keymap_classify` (which reads `alpha_mode`) and one of `vger_interp_handle_key`,
the policy (MENU) or a reset. Everything else reads the state through getters. The
firmware does not use the core yet.

`hazards` in PROJECT.json lists what a test would hardly reach, line by line, with the
property that covers it or the reason none does yet.

## Modules

| module | models |
|---|---|
| `VgerTypes` | the limits of `vger_config.h`, the key vocabulary and step kinds, the argument table, registers, text; the C library and IEEE arithmetic as constants with assumptions |
| `VgerInterp` | `struct vger_state`, reset, load_program, the whole of `vger_interp.c`, and the question of `vger_mode_policy.c` (`Idle`) |
| `VgerTwin` | two instances of `VgerInterp` and one user: the same keys executed and recorded |
| `VgerParser` | `vger_program_parse_text` and what it calls, a line at a time |
| `ParseContract` | what the header promises of it, in one step; the specification `VgerParser` implements |
| `VgerHarness` | `main.c`, `vger_keymap.c` and what a frame shows; EXTENDS `VgerInterp`, whose specification it implements |
| `St7920` | `st7920.c` as `firmware/main.c` calls it, with the controller as external part |
| `VgerSevenseg` | `vger_sevenseg_draw_string` down to the pixels |
| `MCNumbers` | a number type and the C library's conversions, small |
| `MCInterp`, `MCTwin`, `MCParser`, `MCHarness`, `MCSt7920`, `MCSevenseg` | values for the other constants: programs, texts, key sets, frames |
| `VgerInterpProofs` | theorem `TypeCorrect` and its lemmas |
| `VgerSafetyProofs` | the theorems for the other properties of `VgerInterp` |
| `VgerHarnessProofs` | that a step of the harness is a step of the core, the properties of the core under the harness, and the safety properties of `VgerHarness` |
| `VgerTwinProofs` | that a recorded program gives what its keys gave |
| `VgerParserProofs` | that a parsed program may be loaded, and that `VgerParser` implements `ParseContract` |
| `St7920Proofs`, `VgerSevensegProofs` | the theorems for the safety properties of `St7920` and `VgerSevenseg` |

### State of the core

| variable | fields of `struct vger_state` |
|---|---|
| `power_on`, `calc_mode`, `alpha_mode`, `user_mode` | the same |
| `stack` | `reg_x` .. `reg_t`, `reg_lastx`, `stack_lift_enabled` |
| `storage`, `flags` | the same; a register is the tagged union with the field its tag makes valid |
| `alpha` | `alpha_buffer` up to `alpha_len` |
| `display` | `display_format`, `display_digits` |
| `entry` | `entering_digits`, `digit_entry_buffer` up to `digit_entry_len` |
| `pending` | `awaiting_argument`, `awaiting_argument_for`, `argument_digits` up to its count, `awaiting_argument_indirect` |
| `program`, `current_line` | the same; lines count from 0, so line *l* is `program[l + 1]` |
| `call_stack` | `call_stack` up to `call_stack_depth` |
| `program_running`, `run` | the flag, and the locals of `vger_run_program` |

`angle_mode` and `steps_executed_this_run` are left out: a reset sets them and nothing
reads or writes them afterwards.

### Actions of the core

One call of `vger_interp_handle_key` is one action, chosen by the key and by the guards
of the dispatcher in its order:

| action | code (`vger_interp.c`) |
|---|---|
| `OnKey`, `PrgmKey`, `UserKey`, `AlphaKey`, `AlphaCharKey`, `BackspaceKey` | the mode keys, lines 759-786 |
| `RunStopKey` | 787-793 and 706-716, up to the first iteration |
| `IndKey` | 794-801; the no-op cases are stutters |
| `ArgumentDigitKey`, `LastArgumentDigitKey`, `ArgumentAbortKey` | `vger_handle_argument_digit_or_abort` |
| `ToggleSignKey`, `NumberKey` | digit entry, 806-813 |
| `ArgumentKey`, `OpcodeKey` | flush, then begin an argument or commit, 815-825 |
| `Reset`, `LoadProgram` | what the host does between keys |
| `RunFinish`, `RunSkip`, `RunStep`, `RunHalt` | one iteration of `vger_run_program`, by outcome |

`Execute` is `vger_execute_step`: one operator per piece of state it may change
(`StackAfter`, `StorageAfter`, `FlagsAfter`, `AlphaAfter`, `DisplayAfter`,
`CallStackAfter`) and three for `vger_exec_result_t` (`JumpLines`, `Skips`, `Halts`).
`Commit` is `vger_commit_instruction`, which keys share with the loop.

The R/S loop is opened up although no key can come in between: the loop is where the
control of the program is, its invariants are about the middle of a run, and termination
is a property only if the iterations are steps. While it runs every other action is
disabled, which is what one thread means.

### The user at two machines

`VgerTwin` gives each key to a machine in RUN mode (`NumberKey /\ Recorder!NumberKey`, and so
on) and to one in PRGM mode, then runs what was recorded: by R/S after leaving PRGM, or by R/S while still in it, which ends the open number just the same. The keys are those
that mean the same in both modes: numbers, stack and arithmetic keys, STO, RCL and ASTO, direct or
indirect, and ALPHA text. Two things are left out of the comparison because the code makes
them differ: a number that took the place of X because lift was disabled, and is followed by a key other than an operation
(`lift`; the run `Lift` is about it), and an ASTO completed while the
text it stores is still open (`TextIsRecorded`).

### The parser

A text is a sequence of lines and a line a sequence of symbols; a mnemonic is one symbol,
so that lines stay short enough to enumerate. `ParseLine` follows `vger_parse_line` test by
test: `TokenFrom` is what `sscanf("%31s %31s %31s")` stores, a long word in pieces, and `Narrow` the cast
of a long to int. `SkipBlank`, `AddStep`, `Reject` and `Accept` are the ways through one iteration of
`vger_program_parse_text`.

### The harness

| action | code (`harness/main.c`) |
|---|---|
| `Start` | lines 233-241, with a file or without |
| `Deliver` | SDL queues an event, at any time |
| `Poll` | one turn of the inner loop, 246-252: `KeyDown` is `vger_handle_keydown`, with the keymap and the policy |
| `RunProgram` | the loop of `vger_run_program`, inside the call made by `Poll` |
| `RenderFrame` | 253-255, and the test of `running` |

`KeyHandled` gives a key to the core action whose guard takes it; `KeyIgnored` names the
cases in which the core returns without doing anything.

### The display driver

`write_byte` is four steps, `SetPins`, `RaiseE`, `DropE` and `Settle`, each taking the time the driver
waits there; `Write` is the byte it sends, by routine and loop counters. The controller is written from
what the comments of the driver say of it (`st7920.c:22-38`, `144-156`, `179-187`): it latches when E falls, is busy for
the time of the instruction, drops what comes meanwhile, and takes row and word as two
commands of one form.

### The renderer

A string is drawn one character a step onto the set of lit pixels, with the integer
divisions of the code. A cell reads as the glyph all of whose segments are lit, and no other.

### Abstractions

- A double is a member of `Number`; `Arith`, `Negate`, `Equal`, `Greater`, `Strtod` and
  `FormatG` are constants, about which `DataAssumption` says only that they stay in their
  types, and `DigitlessAssumption` that a buffer without a digit (nothing, a sign, a point, or both), of which strtod converts
  nothing, gives zero. Rounding, NaN and decimal fidelity are not modelled. `IntCasts(n)` is the set of ints
  `(int)n` may give, because the conversion is undefined when no int holds the value.
- A step's `kind` is a function of its opcode in both tables that build steps, so a step
  carries one tag.
- `LINE_BOUND` is the one bound that is not in the code: XEQ from the keyboard pushes
  `current_line + 1` and RTN jumps there, so `current_line` can grow with no program line
  behind it. The model stops executing keyboard XEQ at that line.
- Operators whose comment begins with "Wrong" are single faults of the definition that
  follows them. No action uses them; each was substituted for its definition to see that
  the property named in PROJECT.json notices.

## Runs

All runs but `Display` and `Point` use `MCNumbers`: integers that count
tenths, exact up to a magnitude `NumMax` at which they are clamped. A clamped number stands
for every double out of int range and casts to `INT_MIN` or `INT_MAX`. Each run presses only the keys
its question is about, in any order and any number of times.

| run | shows | bounds, and why they are enough |
|---|---|---|
| `Exec` | `TypeOK`, `ReservedFlagsClear` over every step kind | programs chosen by hand, run by R/S after USER, CHS and a point and backspaces, so that a run also begins on an entry without a digit; 2 registers, 3 flags of which the last is reserved, ALPHA of 3: each table has an entry inside, at and past its end. Pointers hold 1, 2 (the reserved flag), text, and numbers past int range |
| `Calls` | `ReturnsFollowCalls`, `RunStaysInProgram`, `RunTerminates`, `TypeOK` | call stack of 2, 8 steps: recursion overflows it, loops meet the cap, and XEQ and RTN from the keyboard and a change of program come between runs |
| `Keyboard` | `OneEntryAtATime`, `PendingWellFormed`, `MenuLosesNothing`, `ProgramWellFormed`, `RecordingIsPure`, `RecordingAppends`, `TypeOK` | the digit 1, ENTER, arguments of one digit (FIX) and of two (LBL, STO), IND, ALPHA text, and the mode keys ON, PRGM and ALPHA, which do not look at what is open. ENTER behind a number records two steps, and with 2 program lines it meets 2, 1 and 0 free ones. In RUN mode the same keys lift the stack, write X, register 11 and the display, so that recording leaves them alone is a question; flags, which no key here sets, change in the same commit. Arguments, numbers, text and power-off are all open or recorded when the menu is asked for. An entry of one character, and an ALPHA buffer of 1 that recording truncates to nothing (that recall overflows it is in `Exec`); signs and points are in `Twin` |
| `Twin` | `TypedAsRecorded`, `EntryWellFormed` | up to 4 recorded steps, so two numbers with signs and points, the keys between them and an operation; one digit 1, so that register 11 is stored, recalled and pointed to. An entry of 3 characters and its NUL: sign, point and digit in every order, full and emptied |
| `Parser` | `Loadable`, `KeepsContract` | a program of 3 steps and texts of up to 4 lines: a text one line too long, with any of the lines blank or malformed; lines of up to 4 symbols, all of them, and chosen ones that are cut at 6 symbols or have words cut at 2; ints of 4 bits under longs of 7 |
| `Harness` | `CoreSpec`, `TextKeysOnlyType`, `FramesKeepComing`, `FrameBudget`, `FrameSettles`, `ResetReached`, `QuitReached` | 2 events a frame and 2 queued: a mode key and what it changes the meaning of fall into one frame or two, and the queue is full while a program loops to its cap of 2. The scancodes are a digit, U (USER, or a letter), SPACE (R/S, or a blank), ESCAPE, INSERT and F12: one of each host action, three whose meaning depends on ALPHA |
| `Display` | `NothingDropped`, `RowsInPlace`, `FrameShown` | the real panel, 32 rows of 18 bytes in a RAM of 64 by 32 with nonzero contents at power-on, for the test pattern and for a frame in which no two rows are alike |
| `NegativeLabel`, `LostSkip`, `Lift`, `ParserTail`, `Point` | see Divergences | as small as the case allows |

Deadlock is checked in every run of the core and of `VgerTwin`, but not in those of the parser,
the harness, the driver and the renderer, which end: a text is parsed, the window closed, a frame drawn.

### Divergences

Five runs check what a comment or a test of the code says and find a counterexample; the
`findings` of PROJECT.json quote the sentence. -1 is not a no-op for GTO (`NegativeLabel`); the step
cap can lose a skip (`LostSkip`); ENTER disables lift not only for the next entry but for every one until an
operation enables it again (`Lift`); a text with a malformed line behind the last step that fits is
accepted (`ParserTail`); a decimal point is drawn not on the previous cell but in the eighth of the eleven columns of the
next (`Point`).

Others, seen while modelling and shown by no run:

- Mode keys do not cancel a pending argument, as `vger_interp.c:12` says of every non-digit key.
- `current_line` is left one past the end by a run, not an index or -1 (`vger_state_internal.h:73`).
- X is not kept live by CHS and backspace within a number (`vger_interp.c:106`).
- The 24th character of ALPHA text is not recorded (`vger_interp.c:205`, `vger_program.h:39`).
- `vger_program.h:65` says the program is untouched on failure and line 69 that it is cleared; it is
  cleared, which is what `ParseContract` says.

### Fairness

`Spec` has one fairness condition, `WF_vars(Loop)`: R/S runs the program inside its own
call, so once the loop is entered nothing but its iterations happens and nothing keeps them
from happening. No fairness is assumed of keys, loads or resets.

`HarnessSpec` has `WF_hvars(Main)`: the harness is one thread with nothing to wait for. SDL and the user owe
nothing, so `Deliver` has no fairness: `FramesKeepComing`, `ResetReached` and `QuitReached`
hold against a user who never stops, `FrameSettles` is about one who does. `LcdSpec` has
`WF_lcdVars(LcdNext)`: the driver waits for time alone. The twin, the parser and the renderer state safety and need none.

### Refinements

- `VgerParser` implements `ParseContract` (`KeepsContract`): the program under construction is hidden
  until the call returns, and the line number but in an error. The steps of the loop are stutters, and its end
  is the one step of the contract, which computes the answer from the whole text at once. Proved
(`ParserKeepsContract`).
- `VgerHarness` implements `VgerInterp` (`CoreSpec`), fairness included: what is checked and proved of the core under
  an arbitrary host holds under this one. Its host actions are those of `VgerInterp!Host`.

## Proofs

`TypeCorrect` (`Spec => []TypeOK`) holds for every value of the constants that satisfies
`LimitsAssumption`, `DataAssumption` and `InputsAssumption` (`DigitlessAssumption` is needed by no proof): the limits are positive, the user flags
are flags, arithmetic and conversions stay in their types, and loaded programs are sequences
of well-formed steps that fit.

`TypeOK` is more than types: it bounds the entry buffer, the ALPHA buffer, the program,
the call stack, the digits of a pending argument, `display_digits`, `current_line` and the step
count, so it contains the assertions of the core on these fields and the absence of overflow.
It is inductive as it stands once the digits of a pending argument are bounded by one
(`InputsOK`): without that bound `ArgumentValue` would not be a number. The argument
goes operator by operator: `StackAfterType`, `StorageAfterType`, ... say that each piece `Execute`
assigns stays in its type whatever int a step resolves to; `ExecuteType` collects them; `CommitType`
and `FlushType` add recording; `ModeKeyType`, `EntryKeyType`, `HostType` and `LoopType` are the actions.
The step that needs care is the line a run is at: a jump goes to a line of the program
or to one on the call stack, a step to the next, and both stay below `LINE_BOUND` because
`LINE_BOUND >= PROGRAM_MAX_LINES`.

`VgerSafetyProofs` proves, from `TypeCorrect` and under the same assumptions, every safety and
action property the passing runs check of `VgerInterp`:

| theorem | property | argument |
|---|---|---|
| `OneEntry` | `OneEntryAtATime` | `InputMoves` sorts the steps by what they do to the entry and to the pending argument; a step that opens one does so only where the dispatcher has closed the other |
| `PendingClean` | `PendingWellFormed` | inductive by the same classification: an argument begins with no digits and the mark off, IND is taken only before the first digit and not for LBL, and the last digit closes it |
| `EntryIsNumeral` | `EntryWellFormed` | with a digit the buffer is a numeral, without one it is one of four beginnings of a numeral; `NumeralCases` shows that the two cases together say one thing, that a sign is first and there is one point (`Numeral`), and that every key keeps: a character is appended only where the grammar allows it, CHS toggles the first, backspace drops the last |
| `MenuIsSafe` | `MenuLosesNothing` | `IdleLosesNothing`: when no argument is pending nothing of the last one is left (`PendingCleared`, by `InputMoves`), and a closed entry is empty (`EntryIsNumeral`), so closing it would move neither the stack nor the program |
| `ReturnsMatchCalls`, `RunsStayInside` | `ReturnsFollowCalls`, `RunStaysInProgram` | neither is inductive alone: a return is a jump, so staying inside needs the call stack, and a call pushes the line after the one it is made from, so the call stack needs the run inside. Their conjunction `RunInv` is inductive given `TypeOK` |
| `ReservedFlags` | `ReservedFlagsClear` | `FlagMoves`: the flags change by a reset or by SF and CF, and the latter only up to `MAX_USER_FLAG` |
| `ProgramsWellFormed` | `ProgramWellFormed` | a loaded program is well formed by assumption; a recorded step is because `PendingWellFormed` keeps the mark from LBL |
| `RecordingIsAppendOnly` | `RecordingAppends` | `ProgramMoves`: a key in PRGM mode changes the program by `Growth`, at most two steps recorded one after the other; `GrowthExtends`: that is an extension |
| `RecordingTouchesNothing` | `RecordingIsPure` | in PRGM mode the flush does not lift the stack and `Commit` takes its recording branch |

`VgerHarnessProofs` adds `HarnessAssumption`, by which what the events can type is what the core may be
given:

| theorem | property | argument |
|---|---|---|
| `HarnessDrivesCore` | the safety part of `CoreSpec` | `HarnessSteps`: the queue holds only events the user has, `KeyDownSteps` takes each to a key, a reset or nothing, and a frame and a delivery leave the core alone. The fairness part of `CoreSpec` is left to the run |
| `HarnessTypes` | `TypeOK` | `HarnessDrivesCore` and `TypeInductive` |
| `HarnessKeepsCore` | the other invariants of `VgerInterp` | `CoreInductive`: their conjunction `CoreInv` is kept by every step of the core, so by every step of the harness |
| `HarnessRecords` | `RecordingAppends`, `RecordingIsPure` | `AppendsStep`, `PureStep`, and `CoreInv` in both states |
| `MenuAnswerHolds` | nothing is open while the answer "allowed" stands | the answer is that of the current state (`AllowedWhileIdle`: no key and no run comes between), and `IdleLosesNothing` |
| `TextKeysType` | `TextKeysOnlyType` | only `Poll` shortens the queue, and under ALPHA `KeyDown` takes the branch of `AlphaCharKey` |
| `FrameInBudget` | `FrameBudget` | `WorkLeft` measures what the thread may still do before a frame: the events left of the budget, each worth a whole run, and the iterations left of the current run. A step that takes an event pays for the run it may start, and one that runs a step has not met the cap. So a frame is at most `MAX_EVENTS_PER_FRAME * (MAX_STEPS_PER_RUN + 2)` steps of the thread away (and one more, from the start), whatever is typed; with the fairness of `Main` that is `FramesKeepComing` |

`ParsedIsLoadable` (`Loadable`, `VgerParserProofs`) assumes `ParserAssumption` and `NumeralAssumption`, that
strtod and strtol return one number for a numeral. Down the calls: a trimmed piece of a line is a text
(`ExtractedType`, with a least and a last inked position), a literal that passes the length test fits a
step (`TextStepOK`), a long cut to int is an int whatever the long (`NarrowType`), and each form
the mnemonic table has is a well-formed step (`InstructionOK`). Induction over the loop then needs
only that the cursor stays in the text.

`ParserKeepsContract` (`KeepsContract`) is a refinement step by step. `ParseInv` says what the loop has: the
program under construction holds, for each line with a step before the cursor, that step, in the place that counts
the steps before it (`Before`). `BeforeNext` and `BeforeStrict` say how that count goes on from a line to the next, `LineOfIs`
which line has the n-th step, and `StepsOfLineUnique` that a line gives one step at most, so that the contract
and the loop cannot choose differently. The loop itself is stutters; `RejectAnswers` and `AcceptAnswers`
show that the two ends of the call give the answer of the contract.

`RecordingIsFaithful` (`TypedAsRecorded`, `VgerTwinProofs`) adds `TwinAssumption`: a run is long enough for the longest
program (`vger_config.h` has 100000 steps for 500 lines), and the casts of a number that may give different ints give
none that is a register. `TwinInv` carries a trace, the memories (stack, registers, ALPHA) that the steps recorded so far
take a cleared calculator through (`TraceOf`, by `Effect`). While keys are typed, the machine they act on is
at the end of the trace but for what is open: a number typed has lifted the stack already, a text is not yet
the ALPHA register (`Follows`); a completed key extends the trace by one memory (`GivesNext`). When recording stops, by
PRGM or by R/S, the open number settles (`SettledRecording`, `Matches`), and the run then goes along the same trace from
its start (`RunBegins`, `Along`), so it ends where typing did. `TypedEffect` and `ReplayedEffect` are the heart of it: the commit of a key and the execution of
its step are the same effect. What is named through a pointer is not determined by the model, so the trace is
chosen with the ints typing met. Nothing is claimed once a number has overwritten X and been followed by
a key that keeps lift (`lift`), and ALPHA is compared only once a text has been recorded (`Composed`).

`TakesEveryWrite` and `FillsInPlace` (`NothingDropped`, `RowsInPlace`, `St7920Proofs`) assume `PanelAssumption`: at most 64
rows, at most 32 bytes a row. Neither property is inductive. `LcdInv` adds what the controller must be
in after the writes so far (`InStep`: awake after the first, the extended set after the sixth, and in a row
the half of the address it expects, the row and the word), what is left of its busy time
(`InTime`), and which bytes are there (`Filled`). The two need each other: a dropped write would put the controller out
of step, and only a controller in step takes the time `WaitOutlasts` compares with the
wait. `DropEKeeps` is the step where all parts meet.

`NumbersAreLegible` (`DigitsLegible`, `VgerSevensegProofs`) says of every text of digits, minus signs and points, however
long, that each digit and sign on the panel reads back as the one drawn; where the point falls is the question of `Point`. It is
proved under the hypothesis `Room`: cells at least 6 pixels wide, segments thinner than a sixth of the height, and all cells on
the panel. `RoomOnThePanel` shows that the sizes of `main.c` (cells of 11 by 18, 2 pixels thick) leave room. The
bound on the thickness makes a cell high enough to keep its three horizontal segments apart. `Layout` works out the divisions of
the code for all such cells. Each segment then has a pixel that no other segment of the cell and no dot covers
(`CornerIsOwn`); cells do not overlap (`CellsApart`), and no two digits have the same segments (`GlyphsDiffer`).
`DrawnInv` says that after i characters the ink is theirs and the cursor behind them; `CellOf` counts the cells a numeral has used, the
point using none.

Every invariant a passing run checks is a theorem, and so is every action property and the one refinement of safety,
`KeepsContract`. `DigitsLegible` is a theorem without a run, since every text is in it. Model-checked only: the liveness properties, which are out of the prover's reach (`RunTerminates`,
`FramesKeepComing`, `FrameSettles`, `ResetReached`, `QuitReached`, `FrameShown`), and with them the fairness in
`CoreSpec`; and the violated claims, which are counterexamples. What is assumed of arithmetic and of the C library is not
proved of any implementation; TLC checks that `MCNumbers` satisfies it.

## Not modelled

The assertion handler prints and aborts. SDL set-up, the console dump and legend, the file system and
GPIO set-up are I/O. A program file is cut at 32767 bytes before it is parsed; a text here is what is left.
Letters in the window are blank cells and the exponent of a SCI display has no glyph; no comment says
what should be seen. Doubles are abstract. Loading a program under a call stack of
another, which the core permits, is in `VgerInterp` (`Host`) but cannot happen in the harness, which loads
once and right after a reset.

## Plan

1. Proofs: the safety half of the other liveness properties, as `FrameBudget` is that of `FramesKeepComing`: the steps
   before a reset is taken from the queue, the iterations left in a run, the writes left before a frame is shown.
2. More abstract specifications: an entry automaton (idle, number, argument), a four-level stack
   machine, and a program runner whose calls and returns are a stack of lines.
3. A user of `VgerTwin` who also presses tests and subroutine keys, once what they mean outside a
   program is documented.
