----------------------------- MODULE VgerHarness -----------------------------
(***************************************************************************)
(* The desktop harness around the core: its event loop (harness/main.c),    *)
(* the keymap (vger_keymap.c), the menu policy (vger_mode_policy.c) and     *)
(* what a frame shows (vger_state.c).                                       *)
(*                                                                         *)
(* SDL queues events at any time, also while the core runs a program; the   *)
(* loop takes a bounded number of them, draws a frame, and so on.           *)
(***************************************************************************)
EXTENDS VgerInterp

CONSTANTS
  MAX_EVENTS_PER_FRAME,  \* main.c:32
  DISPLAY_MAX_CHARS,     \* main.c:33
  DISPLAY_STRING_LEN,    \* vger_config.h:50
  FormatX(_, _),         \* "%.*f" or "%.*e" of X under a display setting
  EventsUsed,            \* the events SDL may deliver
  QUEUE_BOUND            \* bound of the model: the events SDL holds

-----------------------------------------------------------------------------
(* Scancodes.  Those of letters and of the digit row go by their character. *)

Letters  == {"A", "B", "C", "D", "E", "F", "G", "H", "I", "J", "K", "L", "M",
             "N", "O", "P", "Q", "R", "S", "T", "U", "V", "W", "X", "Y", "Z"}
RowDigit == <<"0", "1", "2", "3", "4", "5", "6", "7", "8", "9">>
PadDigit == <<"KP_0", "KP_1", "KP_2", "KP_3", "KP_4", "KP_5", "KP_6", "KP_7", "KP_8", "KP_9">>

\* VGER_BINDINGS, but the digits.
Bindings ==
  [RETURN |-> "ENTER", KP_ENTER |-> "ENTER", BACKSPACE |-> "BACKSPACE",
   KP_PLUS |-> "PLUS", KP_MINUS |-> "MINUS", KP_MULTIPLY |-> "TIMES", KP_DIVIDE |-> "DIVIDE",
   TAB |-> "X_EXCHANGE_Y", DELETE |-> "CLX", F1 |-> "STO", F2 |-> "RCL", I |-> "IND",
   F3 |-> "GTO", F4 |-> "LBL", X |-> "XEQ", R |-> "RTN",
   F5 |-> "SF", F6 |-> "CF", F7 |-> "FS_QUESTION_C",
   Q |-> "X_EQ_0", W |-> "X_NE_0", E |-> "X_GT_0", T |-> "X_LT_0",
   A |-> "X_EQ_Y", S |-> "X_NE_Y", D |-> "X_GT_Y", F |-> "X_LT_Y",
   F8 |-> "ASTO", F9 |-> "ARCL", F10 |-> "FIX", COMMA |-> "SCI", SEMICOLON |-> "ENG",
   N |-> "CHS", L |-> "LASTX", SPACE |-> "RUN_STOP", P |-> "PRGM", U |-> "USER",
   HOME |-> "ON", PERIOD |-> "DECIMAL_POINT"]

DigitsOf(scancode) == {d \in Digit : scancode \in {RowDigit[d + 1], PadDigit[d + 1]}}

\* vger_scancode_to_printable: the character a scancode types, if it types one.
Printable(scancode) ==
  CASE scancode \in Letters \cup Range(RowDigit) -> {scancode}
    [] scancode = "SPACE"                        -> {" "}
    [] scancode = "PERIOD"                       -> {"."}
    [] OTHER                                     -> {}

\* The scancodes classify knows; ESCAPE, INSERT and F12 are taken first.
HostScancodes == {"ESCAPE", "INSERT", "F12"}
Scancodes ==
  DOMAIN Bindings \cup Letters \cup Range(RowDigit) \cup Range(PadDigit) \cup HostScancodes

\* A key press (not a repeat), the closing of the window, or anything else.
Events == Scancodes \cup {"QUIT", "OTHER"}

ASSUME HarnessAssumption ==
  /\ MAX_EVENTS_PER_FRAME \in Nat \ {0}
  /\ DISPLAY_MAX_CHARS \in Nat /\ DISPLAY_STRING_LEN \in Nat \ {0}
  /\ QUEUE_BOUND \in Nat
  /\ EventsUsed \in SUBSET Events
  /\ \A s \in Scancodes : Printable(s) \in SUBSET Char
  /\ \A s \in EventsUsed : DigitsOf(s) \subseteq DigitsUsed /\ Printable(s) \subseteq CharsUsed
  /\ \A s \in EventsUsed \cap DOMAIN Bindings : Bindings[s] \in KeysUsed
  /\ "ALPHA" \in KeysUsed

VARIABLES
  phase,    \* "starting", "polling" or "exited"
  running,  \* main's flag: the window is open
  queue,    \* SDL's event queue
  drained,  \* events taken since the last frame
  ev,       \* the event taken last since then
  menu,     \* what the policy answered to it: "none", "allowed" or "refused"
  frame     \* what the window shows

host  == <<phase, running, queue, drained, ev, menu, frame>>
hvars == <<vars, host>>

-----------------------------------------------------------------------------
(* What is shown.                                                           *)

\* The entry buffer as characters.
Typeset(buf) ==
  [i \in DOMAIN buf |->
     CASE buf[i] = Point -> "." [] buf[i] = Minus -> "-" [] OTHER -> RowDigit[buf[i] + 1]]

\* vger_get_display_string
DisplayString ==
  Truncate(CASE ~power_on    -> <<>>
             [] power_on /\ alpha_mode -> alpha
             [] power_on /\ ~alpha_mode /\ entry.active -> Typeset(entry.buf)
             [] OTHER        -> FormatX(display, stack.x),
           DISPLAY_STRING_LEN - 1)

\* vger_get_annunciators
Annunciators == [prgm |-> calc_mode = "PRGM", alpha |-> alpha_mode,
                 user |-> user_mode, running |-> program_running]

\* vger_render_frame
View == [text |-> Truncate(DisplayString, DISPLAY_MAX_CHARS), lit |-> Annunciators]

\* Wrong: a flag for redrawing that the last event overwrites.
ViewAfterKey == IF ev \in Scancodes THEN View ELSE frame
Rendered == View

-----------------------------------------------------------------------------
(* One event.                                                               *)

\* What vger_interp_handle_key does with a key that is no digit and no
\* character; a key in a sub-state that has no use for it changes nothing.
KeyHandled(key) ==
  \/ key = "ON" /\ OnKey
  \/ key = "PRGM" /\ PrgmKey
  \/ key = "USER" /\ UserKey
  \/ key = "ALPHA" /\ AlphaKey
  \/ key = "BACKSPACE" /\ BackspaceKey
  \/ key = "RUN_STOP" /\ RunStopKey
  \/ key = "IND" /\ IndKey
  \/ key \in ArgKeys \cup OpcodeKeys \cup {"DECIMAL_POINT"} /\ ArgumentAbortKey(key)
  \/ key = "DECIMAL_POINT" /\ power_on /\ NumberKey(Point)
  \/ key = "CHS" /\ ToggleSignKey
  \/ key \in ArgKeys /\ ArgumentKey(key)
  \/ key \in OpcodeKeys /\ OpcodeKey(key)

KeyIgnored(key) ==
  \/ ~power_on /\ key # "ON"
  \/ key = "IND" /\ ~TakesIndirect
  \/ key = "BACKSPACE" /\ entry.buf = <<>> /\ ~(alpha_mode /\ alpha # <<>>)

CoreKey(key) == KeyHandled(key) \/ (KeyIgnored(key) /\ UNCHANGED vars)

DigitKey(d) ==
  \/ ArgumentDigitKey(d) \/ LastArgumentDigitKey(d) \/ NumberKey(d)
  \/ ~power_on /\ UNCHANGED vars

CharacterKey(ch) == AlphaCharKey(ch) \/ (~power_on /\ UNCHANGED vars)

\* Wrong: the annunciator of the last frame decides.
AlphaActiveInFrame == frame.lit.alpha
AlphaActive == alpha_mode

\* Whether vger_keymap_classify makes a character of a scancode.
IsText(scancode) == AlphaActive /\ Printable(scancode) # {}

\* vger_handle_keydown
KeyDown(scancode) ==
  /\ menu' = IF scancode # "INSERT" THEN "none" ELSE IF Idle THEN "allowed" ELSE "refused"
  /\ IF IsText(scancode)
     THEN \E ch \in Printable(scancode) : CharacterKey(ch)
     ELSE \/ scancode = "ESCAPE" /\ CoreKey("ALPHA")
          \/ scancode = "F12" /\ Reset
          \/ scancode \in DOMAIN Bindings /\ CoreKey(Bindings[scancode])
          \/ \E d \in DigitsOf(scancode) : DigitKey(d)
          \/ /\ scancode \notin DOMAIN Bindings \cup {"ESCAPE", "F12"}
             /\ DigitsOf(scancode) = {}
             /\ UNCHANGED vars

-----------------------------------------------------------------------------
(* The program.                                                             *)

NoFrame == [text |-> <<>>, lit |-> [prgm |-> FALSE, alpha |-> FALSE,
                                    user |-> FALSE, running |-> FALSE]]

HarnessInit ==
  /\ Init
  /\ phase = "starting" /\ running = TRUE
  /\ queue = <<>> /\ drained = 0 /\ ev = "NONE" /\ menu = "none"
  /\ frame = NoFrame

\* Wrong: the line of the program before stays current.
StepsReplaced(p) == program' = p /\ UNCHANGED <<modes, machine, inputs, loop, current_line>>
FileLoaded(p) == LoadProgram(p)

\* With a program file, or with none or one that does not parse.
Start ==
  /\ phase = "starting"
  /\ \/ \E p \in Programs : FileLoaded(p)
     \/ UNCHANGED vars
  /\ phase' = "polling"
  /\ UNCHANGED <<running, queue, drained, ev, menu, frame>>

\* The user acts, and SDL queues the event.
Deliver ==
  /\ phase # "exited" /\ Len(queue) < QUEUE_BOUND
  /\ \E e \in EventsUsed : queue' = Append(queue, e)
  /\ UNCHANGED <<vars, phase, running, drained, ev, menu, frame>>

BudgetLeft == drained < MAX_EVENTS_PER_FRAME

\* Wrong: the events of a frame have no bound.
EventsNotCounted == drained
EventsCounted == drained + 1

\* No call into the core is in progress.
AtLoop == phase = "polling" /\ ~program_running

\* One turn of the inner loop.
Poll ==
  /\ AtLoop /\ BudgetLeft /\ queue # <<>>
  /\ queue' = Tail(queue) /\ drained' = EventsCounted
  /\ ev' = Head(queue)
  /\ running' = (running /\ Head(queue) # "QUIT")
  /\ IF Head(queue) \in Scancodes
     THEN KeyDown(Head(queue))
     ELSE menu' = "none" /\ UNCHANGED vars
  /\ UNCHANGED <<phase, frame>>

\* R/S is executing inside the call.
RunProgram == Loop /\ UNCHANGED host

\* Wrong: what is queued is handled first.
LeavesWhenEmpty == ~running /\ queue = <<>>
Leaves == ~running

RenderFrame ==
  /\ AtLoop /\ ~(BudgetLeft /\ queue # <<>>)
  /\ frame' = Rendered
  /\ drained' = 0 /\ ev' = "NONE" /\ menu' = "none"
  /\ phase' = IF Leaves THEN "exited" ELSE "polling"
  /\ UNCHANGED <<vars, running, queue>>

Main == Start \/ Poll \/ RunProgram \/ RenderFrame

HarnessNext == Main \/ Deliver

\* The one thread of the program goes on; the user need not do anything.
HarnessSpec == HarnessInit /\ [][HarnessNext]_hvars /\ WF_hvars(Main)

-----------------------------------------------------------------------------
(* Properties.                                                              *)

\* Everything the core does under the harness is a behaviour of VgerInterp,
\* with a host that loads and resets between calls only: what is checked and
\* proved of the core holds of the program.
CoreSpec == Spec

\* However events fall into frames, a key that types text in ALPHA mode does
\* nothing but extend the text: it is never taken for the function it has
\* outside, though the window may still show the mode as it was.
TextKeysOnlyType ==
  [][Len(queue') < Len(queue) /\ alpha_mode /\ Printable(Head(queue)) # {} =>
       UNCHANGED <<modes, stack, storage, flags, display, call_stack, inputs, code, loop>>]_hvars

\* However fast events come and whatever programs run, a frame comes again:
\* only that takes ev back.
FramesKeepComing == []<>(ev = "NONE")

\* What may still happen before a frame: the events the budget leaves, each of
\* which may start a run to the step cap, and the rest of the run in progress.
EventWork == MAX_STEPS_PER_RUN + 2
WorkLeft ==
  (IF phase = "starting" THEN 1 ELSE 0)
  + (MAX_EVENTS_PER_FRAME - drained) * EventWork
  + (IF program_running THEN MAX_STEPS_PER_RUN + 1 - run.steps ELSE 0)

\* The bound behind FramesKeepComing: whatever is queued, typed and run, each
\* step of the thread but the frame itself uses up some of it, and it never
\* runs out, so a frame is a bounded number of steps away.
FrameBudget ==
  [][WorkLeft' \in 0 .. WorkLeft - 1 \/ Deliver \/ RenderFrame]_hvars

\* Once the user stops, the window comes to show the state and stays so.
FrameSettles == <>[](queue = <<>>) => <>[](frame = View)

\* A reset that was asked for is reached, also behind a program that loops and
\* before a user who keeps typing.
ResetReached ==
  (\E i \in DOMAIN queue : queue[i] = "F12") ~> (ev = "F12" \/ phase = "exited")

\* Closing the window ends the program.
QuitReached == (\E i \in DOMAIN queue : queue[i] = "QUIT") ~> (phase = "exited")

=============================================================================
