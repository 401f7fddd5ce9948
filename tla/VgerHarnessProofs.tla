-------------------------- MODULE VgerHarnessProofs --------------------------
(***************************************************************************)
(* The harness drives the core by its own operations only, so that what is   *)
(* proved of the core in VgerSafetyProofs holds of the program; and what the *)
(* menu policy and the ALPHA keyboard promise beside.                        *)
(***************************************************************************)
EXTENDS VgerHarness, VgerSafetyProofs

-----------------------------------------------------------------------------
(* A step of the harness is a step of the core.                             *)

\* SDL delivers what the user may press.
QueueOK == queue \in Seq(EventsUsed)

LEMMA QueueInductive == QueueOK /\ [HarnessNext]_hvars => QueueOK'
<1> SUFFICES ASSUME QueueOK, [HarnessNext]_hvars
             PROVE  QueueOK'
  OBVIOUS
<1> USE DEF QueueOK
<1>1. CASE Start \/ RunProgram \/ RenderFrame \/ UNCHANGED hvars
  BY <1>1 DEF Start, RunProgram, RenderFrame, hvars, host
<1>2. CASE Deliver
  BY <1>2 DEF Deliver
<1>3. CASE Poll
  BY <1>3 DEF Poll
<1>4. QED BY <1>1, <1>2, <1>3 DEF HarnessNext, Main

\* The key a scancode is bound to, and what the core does with it.
LEMMA CoreKeySteps ==
  ASSUME NEW key \in KeysUsed, CoreKey(key)
  PROVE  [Next]_vars
<1>1. CASE KeyHandled(key)
  BY <1>1 DEF KeyHandled, Next, Key, ModeKey
<1>2. CASE UNCHANGED vars
  BY <1>2
<1>3. QED BY <1>1, <1>2 DEF CoreKey

LEMMA KeyDownSteps ==
  ASSUME NEW scancode \in EventsUsed, KeyDown(scancode)
  PROVE  [Next]_vars
<1>1. /\ DigitsOf(scancode) \subseteq DigitsUsed /\ Printable(scancode) \subseteq CharsUsed
      /\ scancode \in DOMAIN Bindings => Bindings[scancode] \in KeysUsed
      /\ "ALPHA" \in KeysUsed
  BY HarnessAssumption
<1>2. CASE \E ch \in Printable(scancode) : CharacterKey(ch)
  BY <1>1, <1>2 DEF CharacterKey, Next, Key
<1>3. CASE scancode = "ESCAPE" /\ CoreKey("ALPHA")
  BY <1>1, <1>3, CoreKeySteps
<1>4. CASE scancode = "F12" /\ Reset
  BY <1>4 DEF Next, Host
<1>5. CASE scancode \in DOMAIN Bindings /\ CoreKey(Bindings[scancode])
  BY <1>1, <1>5, CoreKeySteps
<1>6. CASE \E d \in DigitsOf(scancode) : DigitKey(d)
  BY <1>1, <1>6 DEF DigitKey, Next, Key
<1>7. CASE UNCHANGED vars
  BY <1>7
<1>8. QED BY <1>2, <1>3, <1>4, <1>5, <1>6, <1>7 DEF KeyDown

LEMMA HarnessSteps ==
  ASSUME QueueOK, [HarnessNext]_hvars
  PROVE  [Next]_vars
<1>1. CASE Start
  BY <1>1 DEF Start, FileLoaded, Next, Host
<1>2. CASE Poll
  <2>1. Head(queue) \in EventsUsed
    BY <1>2 DEF Poll, QueueOK
  <2>2. QED BY <1>2, <2>1, KeyDownSteps DEF Poll
<1>3. CASE RunProgram
  BY <1>3 DEF RunProgram, Next
<1>4. CASE RenderFrame \/ Deliver \/ UNCHANGED hvars
  BY <1>4 DEF RenderFrame, Deliver, hvars
<1>5. QED BY <1>1, <1>2, <1>3, <1>4 DEF HarnessNext, Main

LEMMA QueueAlways == HarnessSpec => []QueueOK
<1>1. HarnessInit => QueueOK
  BY DEF HarnessInit, QueueOK
<1>2. QED BY <1>1, QueueInductive, PTL DEF HarnessSpec

\* The safety part of CoreSpec: main.c initialises the core, and then changes it
\* by keys, loads and resets between calls only, whatever events come.
CoreSafety == Init /\ [][Next]_vars

THEOREM HarnessDrivesCore == HarnessSpec => CoreSafety
<1>1. HarnessInit => Init
  BY DEF HarnessInit
<1>2. QueueOK /\ [HarnessNext]_hvars => [Next]_vars
  BY HarnessSteps
<1>3. QED BY <1>1, <1>2, QueueAlways, PTL DEF HarnessSpec, CoreSafety

\* So every buffer of the core stays in its bounds under the harness.
THEOREM HarnessTypes == HarnessSpec => []TypeOK
BY HarnessDrivesCore, InitType, TypeInductive, PTL DEF CoreSafety

LEMMA HarnessCoreInv == HarnessSpec => []CoreInv
BY HarnessDrivesCore, CoreInit, CoreInductive, PTL DEF CoreSafety

\* What is promised of the core's states holds of the program, whatever scancodes
\* come: one entry at a time, nothing left of an argument, a numeral in the entry
\* buffer, runs and returns inside the program, and the reserved flags clear.
THEOREM HarnessKeepsCore ==
  HarnessSpec => [](/\ OneEntryAtATime /\ PendingWellFormed /\ EntryWellFormed
                    /\ ReturnsFollowCalls /\ RunStaysInProgram
                    /\ ReservedFlagsClear /\ ProgramWellFormed)
<1>1. CoreInv => /\ OneEntryAtATime /\ PendingWellFormed /\ EntryWellFormed
                 /\ ReturnsFollowCalls /\ RunStaysInProgram
                 /\ ReservedFlagsClear /\ ProgramWellFormed
  BY DEF CoreInv, RunInv
<1>2. QED BY <1>1, HarnessCoreInv, PTL

\* And of its steps: whatever the user of the window does, keys in PRGM mode
\* record without acting, and what is recorded is kept.
THEOREM HarnessRecords == HarnessSpec => RecordingAppends /\ RecordingIsPure
<1>1. CoreInv => TypeOK /\ PendingWellFormed
  BY DEF CoreInv
<1>2. HarnessSpec => RecordingAppends
  BY <1>1, HarnessCoreInv, HarnessDrivesCore, AppendsStep, PTL DEF CoreSafety, RecordingAppends
<1>3. HarnessSpec => RecordingIsPure
  BY HarnessDrivesCore, PureStep, PTL DEF CoreSafety, RecordingIsPure
<1>4. QED BY <1>2, <1>3

-----------------------------------------------------------------------------
(* The menu.                                                                *)

\* While the answer of the policy stands, what it saw stands too.
AllowedWhileIdle == menu = "allowed" => Idle

LEMMA AllowedInductive == AllowedWhileIdle /\ [HarnessNext]_hvars => AllowedWhileIdle'
<1> SUFFICES ASSUME AllowedWhileIdle, [HarnessNext]_hvars
             PROVE  AllowedWhileIdle'
  OBVIOUS
<1> USE DEF AllowedWhileIdle
<1>1. CASE Deliver \/ UNCHANGED hvars
  BY <1>1 DEF Deliver, hvars, host, vars, modes, inputs, loop, Idle
<1>2. CASE RenderFrame
  BY <1>2 DEF RenderFrame
<1>3. CASE RunProgram
  BY <1>3 DEF RunProgram, Loop, RunFinish, RunSkip, RunStep, RunHalt, Idle, host
<1>4. CASE Poll
  <2>1. SUFFICES ASSUME menu' = "allowed"
                 PROVE  Idle'
    OBVIOUS
  <2>2. Head(queue) = "INSERT" /\ Idle /\ KeyDown("INSERT")
    BY <1>4, <2>1 DEF Poll, KeyDown
  <2>3. UNCHANGED vars
    <3>1. Printable("INSERT") = {}
      BY DEF Printable, Letters, RowDigit, Range
    <3>2. "INSERT" \notin DOMAIN Bindings
      BY DEF Bindings
    <3>3. QED BY <2>2, <3>1, <3>2 DEF KeyDown, IsText, DigitsOf, RowDigit, PadDigit, Digit
  <2>4. QED BY <2>2, <2>3 DEF vars, modes, inputs, loop, Idle
<1>5. CASE Start
  <2>1. menu' = menu
    BY <1>5 DEF Start
  <2>2. QED
    BY <1>5, <2>1 DEF Start, FileLoaded, LoadProgram, Idle, vars, modes, inputs, loop
<1>6. QED BY <1>1, <1>2, <1>3, <1>4, <1>5 DEF HarnessNext, Main

\* An answer is for one event: as long as the loop holds "allowed" nothing is
\* open, though SDL queues further keys meanwhile.  What the menu will offer
\* under it, a reset or a load, interrupts nothing.
THEOREM MenuAnswerHolds == HarnessSpec => [](menu = "allowed" => NothingOpen)
<1>1. Init => PendingCleared
  BY DEF Init, PendingCleared
<1>2. HarnessSpec => []PendingCleared
  BY <1>1, HarnessDrivesCore, HarnessTypes, PendingClearedInductive, PTL DEF CoreSafety
<1>3. CoreInv => TypeOK /\ EntryWellFormed
  BY DEF CoreInv
<1>4. HarnessInit => AllowedWhileIdle
  BY DEF HarnessInit, AllowedWhileIdle
<1>5. HarnessSpec => []AllowedWhileIdle
  BY <1>4, AllowedInductive, PTL DEF HarnessSpec
<1>6. MenuLosesNothing /\ AllowedWhileIdle => (menu = "allowed" => NothingOpen)
  BY DEF MenuLosesNothing, AllowedWhileIdle
<1>7. QED BY <1>2, <1>3, <1>5, <1>6, HarnessCoreInv, IdleLosesNothing, PTL

-----------------------------------------------------------------------------
(* Typing in ALPHA mode.                                                    *)

\* Each scancode that types a character is a key press the loop hands on.
LEMMA TextIsKey ==
  ASSUME NEW scancode, Printable(scancode) # {}
  PROVE  scancode \in Scancodes
BY DEF Printable, Scancodes, Bindings

\* Only the key handler takes an event, and under ALPHA it makes text of a text
\* key, whatever the frame last drawn shows.
THEOREM TextKeysType == HarnessSpec => TextKeysOnlyType
<1> DEFINE Kept == UNCHANGED <<modes, stack, storage, flags, display, call_stack, inputs, code, loop>>
<1>1. QueueOK /\ [HarnessNext]_hvars
        => [Len(queue') < Len(queue) /\ alpha_mode /\ Printable(Head(queue)) # {} => Kept]_hvars
  <2> SUFFICES ASSUME QueueOK, HarnessNext, Len(queue') < Len(queue), alpha_mode,
                      Printable(Head(queue)) # {}
               PROVE  Kept
    OBVIOUS
  <2>1. Len(queue) \in Nat /\ ~UNCHANGED queue
    BY DEF QueueOK
  <2>2. ~Deliver
    BY <2>1 DEF Deliver, QueueOK
  <2>3. ~(Start \/ RunProgram \/ RenderFrame)
    BY <2>1 DEF Start, RunProgram, RenderFrame, host
  <2>4. Poll
    BY <2>2, <2>3 DEF HarnessNext, Main
  <2>5. KeyDown(Head(queue)) /\ Head(queue) \in Scancodes
    BY <2>4, TextIsKey DEF Poll
  <2>6. PICK ch \in Printable(Head(queue)) : CharacterKey(ch)
    BY <2>5 DEF KeyDown, IsText, AlphaActive
  <2>7. CASE AlphaCharKey(ch)
    BY <2>7 DEF AlphaCharKey
  <2>8. CASE UNCHANGED vars
    BY <2>8 DEF vars, modes, inputs, code, loop
  <2>9. QED BY <2>6, <2>7, <2>8 DEF CharacterKey
<1>2. QED BY <1>1, QueueAlways, PTL DEF HarnessSpec, TextKeysOnlyType

-----------------------------------------------------------------------------
(* The events and runs before a frame.                                      *)

BudgetOK == drained \in 0 .. MAX_EVENTS_PER_FRAME

LEMMA BudgetInductive == BudgetOK /\ [HarnessNext]_hvars => BudgetOK'
<1> SUFFICES ASSUME BudgetOK, [HarnessNext]_hvars
             PROVE  BudgetOK'
  OBVIOUS
<1>1. MAX_EVENTS_PER_FRAME \in Nat
  BY HarnessAssumption
<1>2. CASE Poll
  BY <1>1, <1>2 DEF Poll, BudgetLeft, EventsCounted, BudgetOK
<1>3. CASE RenderFrame
  BY <1>1, <1>3 DEF RenderFrame, BudgetOK
<1>4. CASE Start \/ RunProgram \/ Deliver \/ UNCHANGED hvars
  BY <1>4 DEF Start, RunProgram, Deliver, hvars, host, BudgetOK
<1>5. QED BY <1>2, <1>3, <1>4 DEF HarnessNext, Main

\* What the events and the run in progress may still take.
EventsLeft == (MAX_EVENTS_PER_FRAME - drained) * EventWork
RunLeft == IF program_running THEN MAX_STEPS_PER_RUN + 1 - run.steps ELSE 0

LEMMA WorkIs ==
  ASSUME TypeOK, BudgetOK
  PROVE  /\ WorkLeft = (IF phase = "starting" THEN 1 ELSE 0) + EventsLeft + RunLeft
         /\ EventsLeft \in Nat /\ RunLeft \in Nat
         /\ program_running => RunLeft = MAX_STEPS_PER_RUN + 1 - run.steps /\ RunLeft >= 1
         /\ drained < MAX_EVENTS_PER_FRAME =>
              /\ (MAX_EVENTS_PER_FRAME - (drained + 1)) * EventWork \in Nat
              /\ EventsLeft = (MAX_EVENTS_PER_FRAME - (drained + 1)) * EventWork + EventWork
<1>1. MAX_EVENTS_PER_FRAME \in Nat /\ EventWork \in Nat /\ MAX_STEPS_PER_RUN \in Nat
  BY HarnessAssumption, LimitsAssumption DEF EventWork
<1>2. drained \in 0 .. MAX_EVENTS_PER_FRAME
  BY DEF BudgetOK
<1>3. EventsLeft \in Nat
  <2> DEFINE k == MAX_EVENTS_PER_FRAME - drained
             e == EventWork
  <2>1. k \in Nat /\ e \in Nat
    BY <1>1, <1>2
  <2> HIDE DEF k, e
  <2>2. k * e \in Nat
    BY <2>1
  <2>3. QED BY <2>2 DEF EventsLeft, k, e
<1>4. ASSUME drained < MAX_EVENTS_PER_FRAME
      PROVE  /\ (MAX_EVENTS_PER_FRAME - (drained + 1)) * EventWork \in Nat
             /\ EventsLeft = (MAX_EVENTS_PER_FRAME - (drained + 1)) * EventWork + EventWork
  <2> DEFINE k == MAX_EVENTS_PER_FRAME - (drained + 1)
             e == EventWork
  <2>1. k \in Nat /\ e \in Nat /\ MAX_EVENTS_PER_FRAME - drained = k + 1
    BY <1>1, <1>2, <1>4
  <2> HIDE DEF k, e
  <2>2. k * e \in Nat /\ (k + 1) * e = k * e + e
    BY <2>1
  <2>3. QED BY <2>1, <2>2 DEF EventsLeft, k, e
<1>5. run.steps \in 0 .. MAX_STEPS_PER_RUN
  BY DEF TypeOK, LoopOK
<1>6. RunLeft \in Nat
      /\ (program_running => RunLeft = MAX_STEPS_PER_RUN + 1 - run.steps /\ RunLeft >= 1)
  BY <1>1, <1>5 DEF RunLeft
<1>7. WorkLeft = (IF phase = "starting" THEN 1 ELSE 0) + EventsLeft + RunLeft
  BY DEF WorkLeft, EventsLeft, RunLeft
<1>8. QED BY <1>3, <1>4, <1>6, <1>7

\* Between two frames the thread of the harness takes at most
\* MAX_EVENTS_PER_FRAME * (MAX_STEPS_PER_RUN + 2) steps, whatever events SDL
\* holds and whatever programs they start.
THEOREM FrameInBudget == HarnessSpec => FrameBudget
<1>1. HarnessInit => BudgetOK
  BY HarnessAssumption DEF HarnessInit, BudgetOK
<1>2. ASSUME TypeOK, TypeOK', BudgetOK, BudgetOK', QueueOK, [HarnessNext]_hvars
      PROVE  [WorkLeft' \in 0 .. WorkLeft - 1 \/ Deliver \/ RenderFrame]_hvars
  <2>1. /\ EventsLeft \in Nat /\ RunLeft \in Nat /\ EventsLeft' \in Nat /\ RunLeft' \in Nat
        /\ WorkLeft = (IF phase = "starting" THEN 1 ELSE 0) + EventsLeft + RunLeft
        /\ WorkLeft' = (IF phase' = "starting" THEN 1 ELSE 0) + EventsLeft' + RunLeft'
        /\ program_running => RunLeft = MAX_STEPS_PER_RUN + 1 - run.steps /\ RunLeft >= 1
        /\ program_running' => RunLeft' = MAX_STEPS_PER_RUN + 1 - run'.steps
    <3>1. /\ EventsLeft \in Nat /\ RunLeft \in Nat
          /\ WorkLeft = (IF phase = "starting" THEN 1 ELSE 0) + EventsLeft + RunLeft
          /\ program_running => RunLeft = MAX_STEPS_PER_RUN + 1 - run.steps /\ RunLeft >= 1
      BY <1>2, WorkIs
    <3>2. (/\ EventsLeft \in Nat /\ RunLeft \in Nat
           /\ WorkLeft = (IF phase = "starting" THEN 1 ELSE 0) + EventsLeft + RunLeft
           /\ program_running => RunLeft = MAX_STEPS_PER_RUN + 1 - run.steps /\ RunLeft >= 1)'
      BY <1>2, WorkIs, PTL
    <3>3. QED BY <3>1, <3>2
  <2>2. MAX_STEPS_PER_RUN \in Nat /\ run.steps \in Nat
    BY <1>2, LimitsAssumption DEF TypeOK, LoopOK
  <2>3. CASE Start
    <3>1. phase = "starting" /\ phase' = "polling" /\ UNCHANGED <<drained, program_running, run>>
      BY <2>3 DEF Start, FileLoaded, LoadProgram, loop, vars
    <3>2. EventsLeft' = EventsLeft /\ RunLeft' = RunLeft
      BY <3>1 DEF EventsLeft, RunLeft
    <3>3. WorkLeft' \in 0 .. WorkLeft - 1
      BY <2>1, <3>1, <3>2
    <3>4. QED BY <3>3
  <2>4. CASE Poll
    <3>1. /\ phase = "polling" /\ phase' = "polling" /\ ~program_running
          /\ drained < MAX_EVENTS_PER_FRAME /\ drained' = drained + 1
      BY <2>4 DEF Poll, AtLoop, BudgetLeft, EventsCounted
    <3>2. RunLeft = 0 /\ EventsLeft = EventsLeft' + EventWork
      BY <1>2, <3>1, WorkIs DEF EventsLeft, RunLeft
    <3>3. RunLeft' <= MAX_STEPS_PER_RUN + 1
      <4>1. CASE program_running'
        <5>1. RunStopKey
          BY <1>2, <3>1, <4>1, HarnessSteps, RunSteps DEF vars, loop
        <5>2. run'.steps = 0
          BY <5>1 DEF RunStopKey, NoRun
        <5>3. QED BY <2>1, <2>2, <4>1, <5>2
      <4>2. CASE ~program_running'
        <5>1. RunLeft' = 0
          BY <4>2 DEF RunLeft
        <5>2. QED BY <2>2, <5>1
      <4>3. QED BY <4>1, <4>2
    <3>4. WorkLeft' = EventsLeft' + RunLeft'
      BY <2>1, <3>1
    <3>5. WorkLeft = EventsLeft' + (MAX_STEPS_PER_RUN + 2)
      BY <2>1, <2>2, <3>1, <3>2 DEF EventWork
    <3>6. \A w, v : \A e, r, m \in Nat :
            w = e + (m + 2) /\ v = e + r /\ r <= m + 1 => v \in 0 .. w - 1
      OBVIOUS
    <3>7. EventsLeft' \in Nat /\ RunLeft' \in Nat /\ MAX_STEPS_PER_RUN \in Nat
      BY <2>1, <2>2
    <3>8. WorkLeft' \in 0 .. WorkLeft - 1
      BY <3>3, <3>4, <3>5, <3>6, <3>7, Zenon
    <3>9. QED BY <3>8
  <2>5. CASE RunProgram
    <3>1. UNCHANGED <<phase, drained>> /\ program_running
      BY <2>5 DEF RunProgram, host, Loop, RunFinish, RunSkip, RunStep, RunHalt
    <3>2. EventsLeft' = EventsLeft
      BY <3>1 DEF EventsLeft
    <3>3. RunLeft' < RunLeft
      <4>1. CASE RunSkip \/ RunStep
        <5>1. program_running' /\ run'.steps = run.steps + 1
          <6>1. CASE RunSkip
            BY <6>1 DEF RunSkip, StepsCounted
          <6>2. CASE RunStep
            <7>1. PICK next, skip : run' = [line |-> next, steps |-> StepsCounted, skip |-> skip]
              BY <6>2 DEF RunStep
            <7>2. program_running'
              BY <6>2 DEF RunStep
            <7>3. QED BY <7>1, <7>2 DEF StepsCounted
          <6>3. QED BY <4>1, <6>1, <6>2
        <5>2. QED BY <2>1, <2>2, <3>1, <5>1
      <4>2. CASE RunFinish \/ RunHalt
        <5>1. ~program_running'
          BY <4>2 DEF RunFinish, RunHalt, LeaveLoop
        <5>2. RunLeft' = 0
          BY <5>1 DEF RunLeft
        <5>3. QED BY <2>1, <3>1, <5>2
      <4>3. QED BY <2>5, <4>1, <4>2 DEF RunProgram, Loop
    <3> DEFINE a == IF phase = "starting" THEN 1 ELSE 0
    <3>4. a \in Nat /\ WorkLeft = a + EventsLeft + RunLeft /\ WorkLeft' = a + EventsLeft + RunLeft'
      BY <2>1, <3>1, <3>2
    <3> HIDE DEF a
    <3>5. \A k, e, r, q \in Nat : q < r => k + e + q \in 0 .. (k + e + r) - 1
      OBVIOUS
    <3>6. WorkLeft' \in 0 .. WorkLeft - 1
      BY <2>1, <3>3, <3>4, <3>5
    <3>7. QED BY <3>6
  <2>6. CASE Deliver \/ RenderFrame \/ UNCHANGED hvars
    BY <2>6
  <2>7. QED BY <1>2, <2>3, <2>4, <2>5, <2>6 DEF HarnessNext, Main
<1>3. QED BY <1>1, <1>2, BudgetInductive, QueueAlways, HarnessTypes, PTL
          DEF HarnessSpec, FrameBudget

=============================================================================
