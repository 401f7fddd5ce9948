-------------------------- MODULE VgerSafetyProofs --------------------------
(***************************************************************************)
(* The safety properties of VgerInterp, for every value of its constants.   *)
(* Each is inductive given TypeOK, except that the place of a run needs the *)
(* return addresses (RunInv).                                               *)
(***************************************************************************)
EXTENDS VgerInterpProofs

-----------------------------------------------------------------------------
(* Digit entry and pending arguments.                                       *)

\* The actions that leave both sub-states alone.
LEMMA InputsUnchanged ==
  \/ OnKey \/ UserKey \/ AlphaKey \/ \E ch \in CharsUsed : AlphaCharKey(ch)
  \/ \E p \in Programs : LoadProgram(p)
  \/ Loop
  \/ UNCHANGED vars
  => UNCHANGED <<entry, pending>>
BY DEF OnKey, UserKey, AlphaKey, AlphaCharKey, LoadProgram, Loop, RunFinish, RunSkip,
       RunStep, RunHalt, inputs, vars

\* What is left of Next beside them.
LEMMA NextCases ==
  ASSUME [Next]_vars
  PROVE  \/ UNCHANGED <<entry, pending>>
         \/ PrgmKey \/ BackspaceKey \/ RunStopKey \/ IndKey \/ ToggleSignKey \/ Reset
         \/ \E d \in Digit : ArgumentDigitKey(d) \/ LastArgumentDigitKey(d) \/ NumberKey(d)
         \/ NumberKey(Point)
         \/ \E key \in Keys : ArgumentAbortKey(key)
         \/ \E key \in ArgKeys : ArgumentKey(key)
         \/ \E key \in OpcodeKeys : OpcodeKey(key)
<1>1. CASE UNCHANGED vars
  BY <1>1, InputsUnchanged
<1>2. CASE Next
  <2>1. CASE Host
    BY <2>1, InputsUnchanged DEF Host
  <2>2. CASE Loop
    BY <2>2, InputsUnchanged
  <2>3. CASE Key
    <3>1. CASE ModeKey
      BY <3>1, InputsUnchanged DEF ModeKey
    <3>2. CASE \E ch \in CharsUsed : AlphaCharKey(ch)
      BY <3>2, InputsUnchanged
    <3>3. ArgKeys \cup OpcodeKeys \cup {"DECIMAL_POINT"} \subseteq Keys
      BY DEF Keys
    <3>4. DigitsUsed \subseteq Digit
      BY InputsAssumption
    <3>5. QED BY <2>3, <3>1, <3>2, <3>3, <3>4 DEF Key
  <2>4. QED BY <1>2, <2>1, <2>2, <2>3 DEF Next
<1>3. QED BY <1>1, <1>2

\* How a step moves the two sub-states.
EntryCloses    == entry' = NoEntry /\ pending' \in {pending, NoPending}
ArgumentBegins ==
  /\ entry' = NoEntry /\ ~pending.active
  /\ \E key \in ArgKeys :
       pending' = [pending EXCEPT !.active = TRUE, !.key = key, !.digits = <<>>]
ArgumentEnds   == entry' = entry /\ pending' = NoPending
IndirectTaken  ==
  entry' = entry /\ TakesIndirect /\ pending' = [pending EXCEPT !.indirect = TRUE]
ArgumentGrows  ==
  /\ entry' = entry /\ pending.active
  /\ Len(pending.digits) + 1 < Required
  /\ \E d \in Digit : pending' = [pending EXCEPT !.digits = Append(pending.digits, d)]
NumberGrows    ==
  /\ pending' = pending /\ ~pending.active
  /\ \E ch \in Digit \cup {Point} : entry' = [active |-> TRUE, buf |-> Typed(entry.buf, ch)]
SignToggles    ==
  /\ pending' = pending /\ entry.active
  /\ entry' = [entry EXCEPT !.buf = Signed(entry.buf)]
NumberShrinks  ==
  /\ pending' = pending /\ entry.active /\ entry.buf # <<>>
  /\ entry' = [entry EXCEPT !.buf = Front(entry.buf)]

LEMMA InputMoves ==
  ASSUME TypeOK, [Next]_vars
  PROVE  \/ UNCHANGED <<entry, pending>>
         \/ EntryCloses \/ ArgumentBegins \/ ArgumentEnds \/ IndirectTaken
         \/ ArgumentGrows \/ NumberGrows \/ SignToggles \/ NumberShrinks
<1>1. CASE PrgmKey \/ RunStopKey \/ Reset
  BY <1>1 DEF PrgmKey, RunStopKey, Reset, EntryClosed, EntryCloses
<1>2. CASE BackspaceKey
  BY <1>2 DEF BackspaceKey, NumberShrinks
<1>3. CASE IndKey
  BY <1>3 DEF IndKey, IndirectTaken
<1>4. CASE ToggleSignKey
  BY <1>4 DEF ToggleSignKey, SignToggles
<1>5. ASSUME NEW d \in Digit, ArgumentDigitKey(d) PROVE ArgumentGrows
  BY <1>5 DEF ArgumentDigitKey, ArgumentGrows
<1>6. ASSUME NEW d \in Digit, LastArgumentDigitKey(d) PROVE ArgumentEnds
  BY <1>6 DEF LastArgumentDigitKey, ArgumentEnded, ArgumentEnds
<1>7. ASSUME NEW ch \in Digit \cup {Point}, NumberKey(ch) PROVE NumberGrows
  BY <1>7 DEF NumberKey, NumberGrows
<1>8. ASSUME NEW key \in Keys, ArgumentAbortKey(key) PROVE ArgumentEnds
  BY <1>8 DEF ArgumentAbortKey, ArgumentEnded, ArgumentEnds
<1>9. ASSUME NEW key \in ArgKeys, ArgumentKey(key) PROVE ArgumentBegins
  BY <1>9 DEF ArgumentKey, EntryClosed, ArgumentBegins
<1>10. ASSUME NEW key \in OpcodeKeys, OpcodeKey(key) PROVE EntryCloses
  BY <1>10 DEF OpcodeKey, EntryClosed, EntryCloses
<1>11. QED
  BY NextCases, <1>1, <1>2, <1>3, <1>4, <1>5, <1>6, <1>7, <1>8, <1>9, <1>10

LEMMA InputTypes ==
  ASSUME TypeOK
  PROVE  /\ entry \in [active : BOOLEAN, buf : EntryText]
         /\ pending \in [active : BOOLEAN, key : ArgKeys \cup {"NONE"},
                         digits : Seq(Digit), indirect : BOOLEAN]
BY DEF TypeOK, InputsOK

LEMMA OneEntryInductive == TypeOK /\ OneEntryAtATime /\ [Next]_vars => OneEntryAtATime'
<1> SUFFICES ASSUME TypeOK, OneEntryAtATime, [Next]_vars PROVE OneEntryAtATime'
  OBVIOUS
<1> USE DEF OneEntryAtATime
<1>1. CASE UNCHANGED <<entry, pending>>
  BY <1>1
<1>2. CASE EntryCloses \/ ArgumentBegins
  <2>1. entry' = NoEntry
    BY <1>2 DEF EntryCloses, ArgumentBegins
  <2>2. QED BY <2>1 DEF NoEntry
<1>3. CASE ArgumentEnds
  BY <1>3 DEF ArgumentEnds, NoPending
<1>4. CASE IndirectTaken
  BY <1>4, InputTypes DEF IndirectTaken
<1>5. CASE ArgumentGrows
  BY <1>5, InputTypes DEF ArgumentGrows
<1>6. CASE NumberGrows
  BY <1>6 DEF NumberGrows
<1>7. CASE SignToggles \/ NumberShrinks
  BY <1>7, InputTypes DEF SignToggles, NumberShrinks
<1>8. QED BY InputMoves, <1>1, <1>2, <1>3, <1>4, <1>5, <1>6, <1>7

\* A digit key always has one meaning: numbers and arguments exclude each other.
THEOREM OneEntry == Spec => []OneEntryAtATime
<1>1. Init => OneEntryAtATime
  BY DEF Init, NoEntry, NoPending, OneEntryAtATime
<1>2. QED BY <1>1, OneEntryInductive, TypeCorrect, PTL DEF Spec

LEMMA PendingInductive == TypeOK /\ PendingWellFormed /\ [Next]_vars => PendingWellFormed'
<1> SUFFICES ASSUME TypeOK, PendingWellFormed, [Next]_vars PROVE PendingWellFormed'
  OBVIOUS
<1>1. CASE pending' = pending
  BY <1>1 DEF PendingWellFormed, Required
<1>2. CASE pending' = NoPending
  BY <1>2 DEF NoPending, PendingWellFormed
<1>3. CASE ArgumentBegins
  <2>1. pending.indirect = FALSE /\ Len(<<>>) = 0
    BY <1>3, InputTypes DEF ArgumentBegins, PendingWellFormed
  <2>2. pending'.digits = <<>> /\ pending'.indirect = FALSE /\ pending'.active
    BY <1>3, <2>1, InputTypes DEF ArgumentBegins
  <2>3. QED BY <2>1, <2>2 DEF PendingWellFormed, Required, ArgDigits
<1>4. CASE IndirectTaken
  <2>1. pending.active /\ pending.digits = <<>> /\ pending.key # "LBL"
    BY <1>4 DEF IndirectTaken, TakesIndirect
  <2>2. /\ pending'.active /\ pending'.digits = <<>>
        /\ pending'.key # "LBL" /\ pending'.indirect
    BY <1>4, <2>1, InputTypes DEF IndirectTaken
  <2>3. Len(<<>>) = 0
    OBVIOUS
  <2>4. QED BY <2>2, <2>3 DEF PendingWellFormed, Required
<1>5. CASE ArgumentGrows
  <2>1. PICK d \in Digit : pending' = [pending EXCEPT !.digits = Append(pending.digits, d)]
    BY <1>5 DEF ArgumentGrows
  <2>2. /\ pending'.digits = Append(pending.digits, d)
        /\ pending'.active = pending.active /\ pending'.key = pending.key
        /\ pending'.indirect = pending.indirect
    BY <2>1, InputTypes
  <2>3. Len(Append(pending.digits, d)) = Len(pending.digits) + 1
    BY InputTypes
  <2>4. pending.active /\ Len(pending.digits) + 1 < Required /\ Required' = Required
    BY <1>5, <2>2 DEF ArgumentGrows, Required
  <2>5. QED BY <2>2, <2>3, <2>4 DEF PendingWellFormed
<1>6. QED
  BY InputMoves, <1>1, <1>2, <1>3, <1>4, <1>5
     DEF EntryCloses, ArgumentEnds, NumberGrows, SignToggles, NumberShrinks

\* Nothing of an instruction with an argument outlives it, IND included, and
\* a pending one is never complete.
THEOREM PendingClean == Spec => []PendingWellFormed
<1>1. Init => PendingWellFormed
  BY DEF Init, NoPending, PendingWellFormed
<1>2. QED BY <1>1, PendingInductive, TypeCorrect, PTL DEF Spec

-----------------------------------------------------------------------------
(* The entry buffer.                                                        *)

\* What every key keeps of the buffer: with a digit it is a numeral, without
\* one it is digitless.
Numeral(buf) ==
  /\ \A i \in DOMAIN buf : buf[i] = Minus => i = 1
  /\ \A i, j \in DOMAIN buf : buf[i] = Point /\ buf[j] = Point => i = j

\* Without a digit there is room for a sign and a point only.
LEMMA DigitlessNumeral ==
  ASSUME NEW buf \in Seq(EntryChar), Numeral(buf),
         \A i \in DOMAIN buf : buf[i] \notin Digit
  PROVE  buf \in Digitless
<1>1. DOMAIN buf = 1 .. Len(buf) /\ Len(buf) \in Nat
  OBVIOUS
<1>2. \A i \in DOMAIN buf : buf[i] \in {Point, Minus}
  BY DEF EntryChar
<1>3. \A i \in DOMAIN buf : i # 1 => buf[i] = Point
  BY <1>2 DEF Numeral
<1>4. Len(buf) <= 2
  <2>1. SUFFICES ASSUME Len(buf) > 2 PROVE FALSE
    BY <1>1
  <2>2. 2 \in DOMAIN buf /\ 3 \in DOMAIN buf
    BY <1>1, <2>1
  <2>3. buf[2] = Point /\ buf[3] = Point
    BY <1>3, <2>2
  <2>4. QED BY <2>2, <2>3 DEF Numeral
<1>5. CASE Len(buf) = 0
  BY <1>5, EmptySeq DEF Digitless
<1>6. CASE Len(buf) = 1
  <2>1. buf = <<buf[1]>> /\ 1 \in DOMAIN buf
    BY <1>1, <1>6
  <2>2. QED BY <1>2, <2>1 DEF Digitless
<1>7. CASE Len(buf) = 2
  <2>1. buf = <<buf[1], buf[2]>> /\ 1 \in DOMAIN buf /\ 2 \in DOMAIN buf
    BY <1>1, <1>7
  <2>2. buf[2] = Point /\ buf[1] # Point
    BY <1>3, <2>1 DEF Numeral
  <2>3. QED BY <1>2, <2>1, <2>2 DEF Digitless
<1>8. QED BY <1>1, <1>4, <1>5, <1>6, <1>7

LEMMA NumeralCases ==
  ASSUME NEW buf \in Seq(EntryChar)
  PROVE  Numeral(buf) <=> (buf \in Digitless \/ IsNumeral(buf))
<1>1. IsNumeral(buf) => Numeral(buf)
  BY DEF IsNumeral, Numeral
<1>2. buf \in Digitless => Numeral(buf)
  BY DEF Digitless, Numeral, Point, Minus
<1>3. CASE \E i \in DOMAIN buf : buf[i] \in Digit
  BY <1>3, <1>1, <1>2 DEF IsNumeral, Numeral
<1>4. CASE \A i \in DOMAIN buf : buf[i] \notin Digit
  BY <1>4, <1>1, <1>2, DigitlessNumeral
<1>5. QED BY <1>3, <1>4

\* A digit or a point is added behind a numeral.
LEMMA TypedNumeral ==
  ASSUME NEW buf \in Seq(EntryChar), Numeral(buf), NEW ch \in Digit \cup {Point}
  PROVE  Numeral(Typed(buf, ch))
<1>1. CASE Typed(buf, ch) = buf
  BY <1>1
<1>2. CASE Typed(buf, ch) # buf
  <2> DEFINE new == Append(buf, ch)
             n   == Len(buf) + 1
  <2>1. Typed(buf, ch) = new /\ ~(ch = Point /\ HasPoint(buf))
    BY <1>2 DEF Typed
  <2>2. DOMAIN new = 1 .. n /\ DOMAIN buf = 1 .. Len(buf) /\ n \in Nat
    OBVIOUS
  <2>3. new[n] = ch /\ \A i \in DOMAIN buf : new[i] = buf[i]
    OBVIOUS
  <2>4. ch # Minus
    BY DEF Digit, Point, Minus
  <2>5. \A i \in DOMAIN new : i \in DOMAIN buf \/ i = n
    BY <2>2
  <2>6. \A i \in DOMAIN new : new[i] = Minus => i = 1
    BY <2>3, <2>4, <2>5 DEF Numeral
  <2>7. \A i, j \in DOMAIN new : new[i] = Point /\ new[j] = Point => i = j
    BY <2>1, <2>3, <2>5 DEF Numeral, HasPoint
  <2>8. QED BY <2>1, <2>6, <2>7 DEF Numeral
<1>3. QED BY <1>1, <1>2

\* CHS puts a sign in front of a numeral that has none, or takes it away.
LEMMA SignedNumeral ==
  ASSUME NEW buf \in Seq(EntryChar), Numeral(buf)
  PROVE  Numeral(Signed(buf))
<1>1. CASE buf # <<>> /\ Head(buf) = Minus
  <2> DEFINE new == Tail(buf)
  <2>1. Signed(buf) = new
    BY <1>1 DEF Signed
  <2>2. /\ new \in Seq(EntryChar) /\ Len(new) = Len(buf) - 1
        /\ \A i \in 1 .. Len(new) : new[i] = buf[i + 1]
    BY <1>1
  <2>3. \A i \in DOMAIN new : i \in Nat \ {0} /\ i + 1 \in DOMAIN buf
    BY <2>2
  <2>4. \A i \in DOMAIN new : new[i] # Minus
    BY <2>2, <2>3 DEF Numeral
  <2>5. \A i, j \in DOMAIN new : new[i] = Point /\ new[j] = Point => i = j
    <3> SUFFICES ASSUME NEW i \in DOMAIN new, NEW j \in DOMAIN new,
                        new[i] = Point, new[j] = Point
                 PROVE  i = j
      OBVIOUS
    <3>1. buf[i + 1] = Point /\ buf[j + 1] = Point
      BY <2>2
    <3>2. i + 1 = j + 1
      BY <2>3, <3>1 DEF Numeral
    <3>3. QED BY <2>3, <3>2
  <2>6. QED BY <2>1, <2>4, <2>5 DEF Numeral
<1>2. CASE ~(buf # <<>> /\ Head(buf) = Minus) /\ ~BufferFull(buf)
  <2> DEFINE new == <<Minus>> \o buf
  <2>1. Signed(buf) = new
    BY <1>2 DEF Signed
  <2>2. /\ DOMAIN new = 1 .. Len(buf) + 1 /\ new[1] = Minus /\ Len(buf) \in Nat
        /\ \A i \in 2 .. Len(buf) + 1 : new[i] = buf[i - 1]
    OBVIOUS
  <2>3. \A i \in DOMAIN buf : buf[i] # Minus
    <3>1. ASSUME NEW i \in DOMAIN buf, buf[i] = Minus PROVE FALSE
      <4>1. i = 1
        BY <3>1 DEF Numeral
      <4>2. QED BY <1>2, <3>1, <4>1
    <3>2. QED BY <3>1
  <2>4. \A i \in DOMAIN new : i # 1 => i - 1 \in DOMAIN buf /\ new[i] = buf[i - 1]
    BY <2>2
  <2>5. \A i \in DOMAIN new : new[i] = Minus => i = 1
    BY <2>3, <2>4
  <2>6. \A i, j \in DOMAIN new : new[i] = Point /\ new[j] = Point => i = j
    <3> SUFFICES ASSUME NEW i \in DOMAIN new, NEW j \in DOMAIN new,
                        new[i] = Point, new[j] = Point
                 PROVE  i = j
      OBVIOUS
    <3>1. i # 1 /\ j # 1
      BY <2>2 DEF Point, Minus
    <3>2. i - 1 = j - 1
      BY <2>4, <3>1 DEF Numeral
    <3>3. QED BY <2>2, <3>2
  <2>7. QED BY <2>1, <2>5, <2>6 DEF Numeral
<1>3. CASE ~(buf # <<>> /\ Head(buf) = Minus) /\ BufferFull(buf)
  BY <1>3 DEF Signed
<1>4. QED BY <1>1, <1>2, <1>3

\* Backspace takes the last character.
LEMMA FrontNumeral ==
  ASSUME NEW buf \in Seq(EntryChar), buf # <<>>, Numeral(buf)
  PROVE  Numeral(Front(buf))
<1>1. /\ Front(buf) \in Seq(EntryChar) /\ Len(Front(buf)) = Len(buf) - 1
      /\ \A i \in 1 .. Len(buf) - 1 : Front(buf)[i] = buf[i]
  BY FrontType
<1>2. \A i \in DOMAIN Front(buf) : i \in DOMAIN buf /\ Front(buf)[i] = buf[i]
  BY <1>1
<1>3. QED BY <1>2 DEF Numeral

LEMMA EntryInit == Init => EntryWellFormed
BY DEF Init, NoEntry, EntryWellFormed, Digitless

LEMMA EntryInductive == TypeOK /\ EntryWellFormed /\ [Next]_vars => EntryWellFormed'
<1> SUFFICES ASSUME TypeOK, EntryWellFormed, [Next]_vars PROVE EntryWellFormed'
  OBVIOUS
<1>1. /\ entry \in [active : BOOLEAN, buf : EntryText]
      /\ entry.buf \in Seq(EntryChar) /\ Numeral(entry.buf)
      /\ entry.active \in BOOLEAN /\ (~entry.active => entry.buf = <<>>)
  BY InputTypes, EntryTextIsSeq, NumeralCases DEF EntryWellFormed
<1>2. SUFFICES Numeral(entry'.buf) /\ (~entry'.active => entry'.buf = <<>>)
  <2>1. entry'.buf \in Seq(EntryChar)
    BY TypeInductive, InputTypes, EntryTextIsSeq DEF TypeOK, InputsOK
  <2>2. Numeral(entry'.buf) => entry'.buf \in Digitless \/ IsNumeral(entry'.buf)
    BY <2>1, NumeralCases
  <2>3. QED BY <2>2 DEF EntryWellFormed
<1>3. CASE entry' = entry
  BY <1>1, <1>3
<1>4. CASE entry' = NoEntry
  <2>1. DOMAIN <<>> = {}
    OBVIOUS
  <2>2. entry'.buf = <<>>
    BY <1>4 DEF NoEntry
  <2>3. QED BY <2>1, <2>2 DEF Numeral
<1>5. CASE NumberGrows
  <2>1. PICK ch \in Digit \cup {Point} :
          entry' = [active |-> TRUE, buf |-> Typed(entry.buf, ch)]
    BY <1>5 DEF NumberGrows
  <2>2. entry'.active /\ entry'.buf = Typed(entry.buf, ch)
    BY <2>1
  <2>3. QED BY <1>1, <2>2, TypedNumeral
<1>6. CASE SignToggles
  <2>1. entry'.active /\ entry'.buf = Signed(entry.buf)
    BY <1>1, <1>6 DEF SignToggles
  <2>2. QED BY <1>1, <2>1, SignedNumeral
<1>7. CASE NumberShrinks
  <2>1. entry'.active /\ entry.buf # <<>> /\ entry'.buf = Front(entry.buf)
    BY <1>1, <1>7 DEF NumberShrinks
  <2>2. QED BY <1>1, <2>1, FrontNumeral
<1>8. QED
  BY InputMoves, <1>3, <1>4, <1>5, <1>6, <1>7
     DEF EntryCloses, ArgumentBegins, ArgumentEnds, IndirectTaken, ArgumentGrows

\* Whatever is typed, the entry is a numeral strtod reads to its end, or one of
\* the four beginnings without a digit; and it is empty once closed.
THEOREM EntryIsNumeral == Spec => []EntryWellFormed
BY EntryInit, EntryInductive, TypeCorrect, PTL DEF Spec

-----------------------------------------------------------------------------
(* The menu.                                                                *)

\* When no argument is pending nothing is left of the last one.
PendingCleared == ~pending.active => pending = NoPending

LEMMA PendingClearedInductive ==
  TypeOK /\ PendingCleared /\ [Next]_vars => PendingCleared'
<1> SUFFICES ASSUME TypeOK, PendingCleared, [Next]_vars
             PROVE  PendingCleared'
  OBVIOUS
<1> USE DEF PendingCleared
<1>1. CASE pending' \in {pending, NoPending}
  BY <1>1
<1>2. CASE ArgumentBegins \/ IndirectTaken \/ ArgumentGrows
  BY <1>2, InputTypes DEF ArgumentBegins, IndirectTaken, ArgumentGrows, TakesIndirect
<1>3. QED
  BY <1>1, <1>2, InputMoves DEF EntryCloses, ArgumentEnds, NumberGrows, SignToggles,
     NumberShrinks

LEMMA IdleLosesNothing ==
  ASSUME TypeOK, PendingCleared, EntryWellFormed
  PROVE  MenuLosesNothing
<1> SUFFICES ASSUME Idle PROVE NothingOpen
  BY DEF MenuLosesNothing
<1>1. power_on /\ ~program_running /\ ~entry.active /\ ~pending.active
  BY DEF Idle
<1>2. entry = NoEntry
  BY <1>1, InputTypes DEF EntryWellFormed, NoEntry
<1>3. pending = NoPending
  BY <1>1 DEF PendingCleared
<1>4. FlushedStack = stack /\ FlushedProgram = program
  BY <1>1 DEF FlushedStack, FlushedProgram
<1>5. QED BY <1>1, <1>2, <1>3, <1>4 DEF NothingOpen

\* MENU is let in only where closing the entry would move nothing and no part of
\* an argument is left: what it will offer interrupts nothing.
THEOREM MenuIsSafe == Spec => []MenuLosesNothing
<1>1. Init => PendingCleared
  BY DEF Init, PendingCleared
<1>2. Spec => []PendingCleared
  BY <1>1, PendingClearedInductive, TypeCorrect, PTL DEF Spec
<1>3. QED BY <1>2, IdleLosesNothing, TypeCorrect, EntryIsNumeral, PTL

-----------------------------------------------------------------------------
(* Runs.                                                                    *)

\* A run only begins with R/S, and nothing but its own loop happens in it.
LEMMA RunSteps ==
  ASSUME [Next]_vars, program_running'
  PROVE  \/ UNCHANGED vars
         \/ RunStopKey
         \/ program_running /\ (RunSkip \/ RunStep)
         \/ UNCHANGED program_running /\ ~program_running
<1>1. CASE UNCHANGED vars
  BY <1>1
<1>2. CASE Loop
  BY <1>2 DEF Loop, RunFinish, RunHalt, RunSkip, RunStep, LeaveLoop
<1>3. CASE Host
  BY <1>3 DEF Host, LoadProgram, Reset, loop
<1>4. CASE ModeKey
  BY <1>4 DEF ModeKey, OnKey, PrgmKey, UserKey, AlphaKey, BackspaceKey, IndKey, Ready, loop
<1>5. CASE Key /\ ~ModeKey
  BY <1>5 DEF Key, AlphaCharKey, ArgumentDigitKey, LastArgumentDigitKey, ArgumentAbortKey,
              NumberKey, ToggleSignKey, ArgumentKey, OpcodeKey, Ready, loop
<1>6. QED BY <1>1, <1>2, <1>3, <1>4, <1>5 DEF Next

\* One return address: the line after an XEQ of the program.
ReturnTarget(line) ==
  line \in 1 .. Len(program) /\ StepAt(line - 1).opcode = "XEQ"

ReturnTargets == \A i \in DOMAIN call_stack : ReturnTarget(call_stack[i])

\* A call adds the line behind it and a return takes one away.
LEMMA CallStackTargets ==
  ASSUME TypeOK, ReturnTargets, NEW line \in Lines, NEW arg
  PROVE  LET calls == CallStackAfter(StepAt(line), arg, line)
         IN  \A i \in DOMAIN calls : ReturnTarget(calls[i])
<1> DEFINE step  == StepAt(line)
           calls == CallStackAfter(step, arg, line)
<1>1. call_stack \in Seq(0 .. LINE_BOUND) /\ Len(program) \in Nat
  BY DEF TypeOK, CallStackOK, CodeOK
<1>2. CASE step.opcode = "RTN" /\ call_stack # <<>>
  <2>1. calls = Front(call_stack)
    BY <1>2 DEF CallStackAfter
  <2>2. /\ Front(call_stack) \in Seq(0 .. LINE_BOUND)
        /\ Len(Front(call_stack)) = Len(call_stack) - 1
        /\ \A i \in 1 .. Len(call_stack) - 1 : Front(call_stack)[i] = call_stack[i]
    BY <1>1, <1>2, FrontType
  <2>3. \A i \in DOMAIN Front(call_stack) :
           i \in DOMAIN call_stack /\ Front(call_stack)[i] = call_stack[i]
    BY <1>1, <2>2
  <2>4. QED BY <2>1, <2>3 DEF ReturnTargets
<1>3. CASE step.opcode = "XEQ" /\ JumpLines(step, arg) # {}
  <2>1. calls = Append(call_stack, line + 1)
    BY <1>3 DEF CallStackAfter, ReturnLine
  <2>2. line \in 0 .. Len(program) - 1
    BY DEF Lines
  <2>3. line + 1 \in 1 .. Len(program) /\ (line + 1) - 1 = line
    BY <1>1, <2>2
  <2>4. ReturnTarget(line + 1)
    BY <1>3, <2>3 DEF ReturnTarget
  <2>5. line + 1 \in Int
    BY <2>2
  <2>6. \A i \in DOMAIN Append(call_stack, line + 1) :
           \/ i \in DOMAIN call_stack /\ Append(call_stack, line + 1)[i] = call_stack[i]
           \/ Append(call_stack, line + 1)[i] = line + 1
    BY <1>1, <2>5
  <2>7. QED BY <2>1, <2>4, <2>6 DEF ReturnTargets
<1>4. CASE /\ ~(step.opcode = "RTN" /\ call_stack # <<>>)
           /\ ~(step.opcode = "XEQ" /\ JumpLines(step, arg) # {})
  BY <1>4 DEF CallStackAfter, ReturnTargets
<1>5. QED BY <1>2, <1>3, <1>4

\* A jump from a line of the program stays in the program or right behind it.
LEMMA JumpStays ==
  ASSUME TypeOK, ReturnTargets, NEW step, NEW arg
  PROVE  JumpLines(step, arg) \subseteq 0 .. Len(program)
<1>1. call_stack \in Seq(0 .. LINE_BOUND) /\ Len(program) \in Nat
  BY DEF TypeOK, CallStackOK, CodeOK
<1>2. FirstLabel(arg) \subseteq 0 .. Len(program)
  <2>1. Lines \subseteq 0 .. Len(program)
    BY <1>1 DEF Lines
  <2>2. QED BY <2>1 DEF FirstLabel
<1>3. CASE step.opcode = "RTN" /\ call_stack # <<>>
  <2>1. Len(call_stack) \in DOMAIN call_stack
    BY <1>1, <1>3, EmptySeq
  <2>2. Last(call_stack) \in 0 .. Len(program)
    BY <1>1, <2>1 DEF ReturnTargets, ReturnTarget, Last
  <2>3. JumpLines(step, arg) = {Last(call_stack)}
    BY <1>3 DEF JumpLines
  <2>4. QED BY <2>2, <2>3
<1>4. CASE ~(step.opcode = "RTN" /\ call_stack # <<>>)
  <2>1. JumpLines(step, arg) = FirstLabel(arg) \/ JumpLines(step, arg) = {}
    <3>1. CASE step.opcode = "GTO"
      BY <3>1 DEF JumpLines
    <3>2. CASE step.opcode = "XEQ" /\ RoomToCall
      BY <3>2 DEF JumpLines
    <3>3. CASE step.opcode # "GTO" /\ ~(step.opcode = "XEQ" /\ RoomToCall)
      BY <1>4, <3>3 DEF JumpLines
    <3>4. QED BY <3>1, <3>2, <3>3
  <2>2. QED BY <1>2, <2>1
<1>5. QED BY <1>3, <1>4

\* Where a run is and what it may return to go together: a return is a jump,
\* and a call is made from a line of the program.
RunInv == ReturnsFollowCalls /\ RunStaysInProgram

LEMMA RunInvInductive == TypeOK /\ RunInv /\ [Next]_vars => RunInv'
<1> SUFFICES ASSUME TypeOK, RunInv, [Next]_vars PROVE RunInv'
  OBVIOUS
<1>1. CASE ~program_running'
  BY <1>1 DEF RunInv, ReturnsFollowCalls, RunStaysInProgram
<1>2. CASE UNCHANGED vars
  BY <1>2 DEF vars, RunInv, ReturnsFollowCalls, RunStaysInProgram, StepAt
<1>3. CASE RunStopKey
  <2>1. call_stack' = <<>> /\ run'.steps = 0
    BY <1>3 DEF RunStopKey, FreshCallStack, NoRun
  <2>2. DOMAIN <<>> = {}
    OBVIOUS
  <2>3. QED BY <2>1, <2>2 DEF RunInv, ReturnsFollowCalls, RunStaysInProgram
<1>4. ASSUME program_running, CanStep
      PROVE  /\ ReturnTargets
             /\ run.line \in Lines /\ run.line + 1 \in 0 .. Len(program)
  <2>1. ReturnTargets
    BY <1>4 DEF RunInv, ReturnsFollowCalls, ReturnTargets, ReturnTarget
  <2>2. run.line \in Lines /\ Len(program) \in Nat
    BY <1>4 DEF CanStep, TypeOK, CodeOK
  <2>3. QED BY <2>1, <2>2 DEF Lines
<1>5. ReturnTargets' /\ run'.line \in 0 .. Len(program)' => RunInv'
  BY DEF RunInv, ReturnsFollowCalls, RunStaysInProgram, ReturnTargets, ReturnTarget
<1>6. CASE program_running /\ RunSkip
  <2>1. run'.line = run.line + 1 /\ call_stack' = call_stack /\ program' = program
    BY <1>6 DEF RunSkip, machine, code
  <2>2. ReturnTargets'
    BY <1>4, <1>6, <2>1 DEF RunSkip, ReturnTargets, ReturnTarget, StepAt
  <2>3. QED BY <1>4, <1>5, <1>6, <2>1, <2>2 DEF RunSkip
<1>7. CASE program_running /\ RunStep
  <2> DEFINE step == StepAt(run.line)
  <2>1. PICK arg \in Resolve(step) :
          /\ Execute(step, arg, run.line, stack)
          /\ \E next \in IF JumpLines(step, arg) = {} THEN {run.line + 1} ELSE JumpLines(step, arg) :
               run' = [line |-> next, steps |-> StepsCounted, skip |-> Skips(step, arg, stack)]
    BY <1>7 DEF RunStep
  <2>2. PICK next \in IF JumpLines(step, arg) = {} THEN {run.line + 1} ELSE JumpLines(step, arg) :
          run' = [line |-> next, steps |-> StepsCounted, skip |-> Skips(step, arg, stack)]
    BY <2>1
  <2>3. CanStep /\ program' = program
    BY <1>7 DEF RunStep, code
  <2>4. run'.line \in 0 .. Len(program)'
    BY <1>4, <1>7, <2>2, <2>3, JumpStays
  <2>5. call_stack' = CallStackAfter(step, arg, run.line)
    BY <2>1 DEF Execute
  <2>6. \A i \in DOMAIN call_stack' : ReturnTarget(call_stack'[i])
    BY <1>4, <1>7, <2>3, <2>5, CallStackTargets
  <2>7. ReturnTargets'
    BY <2>3, <2>6 DEF ReturnTargets, ReturnTarget, StepAt
  <2>8. QED BY <1>5, <2>4, <2>7
<1>8. CASE UNCHANGED program_running /\ ~program_running
  BY <1>1, <1>8
<1>9. QED BY <1>1, <1>2, <1>3, <1>6, <1>7, <1>8, RunSteps

LEMMA RunInvAlways == Spec => []RunInv
<1>1. Init => RunInv
  BY DEF Init, RunInv, ReturnsFollowCalls, RunStaysInProgram
<1>2. QED BY <1>1, RunInvInductive, TypeCorrect, PTL DEF Spec

\* No run returns to a line that its own calls in this program did not leave
\* behind, whatever the keyboard or an earlier program put on the call stack.
THEOREM ReturnsMatchCalls == Spec => []ReturnsFollowCalls
<1>1. RunInv => ReturnsFollowCalls
  BY DEF RunInv
<1>2. QED BY <1>1, RunInvAlways, PTL

\* A run that has taken a step is in its program or right behind it.
THEOREM RunsStayInside == Spec => []RunStaysInProgram
<1>1. RunInv => RunStaysInProgram
  BY DEF RunInv
<1>2. QED BY <1>1, RunInvAlways, PTL

-----------------------------------------------------------------------------
(* Flags.                                                                   *)

\* SF, CF and FS?C reach the user flags only, whatever int names the flag.
LEMMA FlagsAfterReserved ==
  ASSUME flags \in [Flags -> BOOLEAN], ReservedFlagsClear, NEW step, NEW arg
  PROVE  \A f \in Flags : f > MAX_USER_FLAG => ~FlagsAfter(step, arg)[f]
<1>1. CASE step.opcode \in FlagKeys /\ arg \in UserFlags
  <2>1. FlagsAfter(step, arg) = [flags EXCEPT ![arg] = (step.opcode = "SF")]
    BY <1>1 DEF FlagsAfter
  <2>2. \A f \in Flags : f > MAX_USER_FLAG => f # arg
    BY <1>1, LimitsAssumption DEF Flags, UserFlags
  <2>3. QED BY <2>1, <2>2 DEF ReservedFlagsClear
<1>2. CASE ~(step.opcode \in FlagKeys /\ arg \in UserFlags)
  <2>1. FlagsAfter(step, arg) = flags
    BY <1>2 DEF FlagsAfter
  <2>2. QED BY <2>1 DEF ReservedFlagsClear
<1>3. QED BY <1>1, <1>2

\* The flags change by an instruction or a reset.
LEMMA FlagMoves ==
  ASSUME [Next]_vars
  PROVE  \/ UNCHANGED flags
         \/ flags' = [f \in Flags |-> FALSE]
         \/ \E step, arg : flags' = FlagsAfter(step, arg)
<1>1. CASE UNCHANGED vars
  BY <1>1 DEF vars
<1>2. CASE ModeKey
  BY <1>2 DEF ModeKey, OnKey, PrgmKey, UserKey, AlphaKey, BackspaceKey, RunStopKey, IndKey, machine, registers
<1>3. ASSUME NEW step, NEW s, NEW p, Commit(step, s, p)
      PROVE  UNCHANGED flags \/ \E arg : flags' = FlagsAfter(step, arg)
  BY <1>3 DEF Commit, CommitRecords, CommitExecutes, Execute
<1>4. CASE \E d \in DigitsUsed : LastArgumentDigitKey(d)
  BY <1>3, <1>4 DEF LastArgumentDigitKey
<1>5. CASE \E key \in OpcodeKeys : OpcodeKey(key)
  BY <1>3, <1>5 DEF OpcodeKey
<1>6. CASE /\ Key /\ ~ModeKey
           /\ ~\E d \in DigitsUsed : LastArgumentDigitKey(d)
           /\ ~\E key \in OpcodeKeys : OpcodeKey(key)
  BY <1>6 DEF Key, AlphaCharKey, ArgumentDigitKey, ArgumentAbortKey, NumberKey, ToggleSignKey,
              ArgumentKey, machine, registers
<1>7. CASE Host
  BY <1>7 DEF Host, LoadProgram, Reset, machine, registers
<1>8. CASE Loop
  BY <1>8 DEF Loop, RunFinish, RunHalt, RunSkip, RunStep, Execute, machine, registers
<1>9. QED BY <1>1, <1>2, <1>4, <1>5, <1>6, <1>7, <1>8 DEF Next

LEMMA ReservedInductive == TypeOK /\ ReservedFlagsClear /\ [Next]_vars => ReservedFlagsClear'
<1> SUFFICES ASSUME TypeOK, ReservedFlagsClear, [Next]_vars PROVE ReservedFlagsClear'
  OBVIOUS
<1>1. CASE UNCHANGED flags
  BY <1>1 DEF ReservedFlagsClear
<1>2. CASE flags' = [f \in Flags |-> FALSE]
  BY <1>2 DEF ReservedFlagsClear
<1>3. CASE \E step, arg : flags' = FlagsAfter(step, arg)
  BY <1>3, FlagsAfterReserved DEF TypeOK, RegistersOK, ReservedFlagsClear
<1>4. QED BY FlagMoves, <1>1, <1>2, <1>3

\* The reserved flags stay clear, whichever way a flag number is given.
THEOREM ReservedFlags == Spec => []ReservedFlagsClear
<1>1. Init => ReservedFlagsClear
  BY DEF Init, ReservedFlagsClear
<1>2. QED BY <1>1, ReservedInductive, TypeCorrect, PTL DEF Spec

-----------------------------------------------------------------------------
(* Recording.                                                               *)

\* What becomes of a program when one step is recorded behind it.
LEMMA RecordExtends ==
  ASSUME NEW p \in Seq(Step), Len(p) <= PROGRAM_MAX_LINES, NEW step \in Step
  PROVE  /\ Record(p, step) \in Seq(Step)
         /\ Len(Record(p, step)) <= PROGRAM_MAX_LINES
         /\ Len(Record(p, step)) \in {Len(p), Len(p) + 1}
         /\ \A i \in 1 .. Len(p) : Record(p, step)[i] = p[i]
         /\ \A i \in 1 .. Len(Record(p, step)) : i \in 1 .. Len(p) \/ Record(p, step)[i] = step
BY LimitsAssumption DEF Record

\* The steps the keyboard builds are well formed: IND is not accepted for LBL.
LEMMA KeyboardSteps ==
  ASSUME TypeOK, PendingWellFormed
  PROVE  /\ \A value \in Number :
              NumberStep(value) \in Step /\ WellFormedStep(NumberStep(value))
         /\ TextStep(TextToRecord) \in Step /\ WellFormedStep(TextStep(TextToRecord))
         /\ \A key \in OpcodeKeys :
              OpcodeStep(key, 0, FALSE) \in Step /\ WellFormedStep(OpcodeStep(key, 0, FALSE))
         /\ pending.active => \A d \in Digit :
              LET step == OpcodeStep(pending.key, ArgumentValue(Append(pending.digits, d)),
                                     pending.indirect)
              IN  step \in Step /\ WellFormedStep(step)
<1>1. \A opcode : ClearStep(opcode).indirect = FALSE
  BY DEF ClearStep
<1>2. ASSUME NEW value \in Number
      PROVE  NumberStep(value) \in Step /\ WellFormedStep(NumberStep(value))
  <2>1. NumberStep(value) \in Step
    BY StepTypes
  <2>2. NumberStep(value).indirect = FALSE
    BY DEF NumberStep, ClearStep
  <2>3. QED BY <2>1, <2>2 DEF WellFormedStep
<1>3. TextStep(TextToRecord) \in Step /\ WellFormedStep(TextStep(TextToRecord))
  <2>1. alpha \in Seq(Char) /\ ALPHA_BUFFER_LEN - 1 \in Nat
    BY LimitsAssumption DEF TypeOK, RegistersOK, TextUpTo
  <2>2. TextToRecord \in TextUpTo(ALPHA_BUFFER_LEN - 1)
    BY <2>1, TruncateType DEF TextToRecord
  <2>3. TextStep(TextToRecord) \in Step
    BY <2>2, StepTypes
  <2>4. TextStep(TextToRecord).indirect = FALSE
    BY DEF TextStep, ClearStep
  <2>5. QED BY <2>3, <2>4 DEF WellFormedStep
<1>4. ASSUME NEW key \in ArgKeys \cup OpcodeKeys, NEW arg \in Int, NEW indirect \in BOOLEAN,
             indirect => key \in ArgKeys \ {"LBL"}
      PROVE  OpcodeStep(key, arg, indirect) \in Step /\ WellFormedStep(OpcodeStep(key, arg, indirect))
  <2>1. OpcodeStep(key, arg, indirect) \in Step
    BY StepTypes, Zenon
  <2>2. /\ OpcodeStep(key, arg, indirect).indirect = indirect
        /\ OpcodeStep(key, arg, indirect).opcode = key
    BY DEF OpcodeStep, ClearStep
  <2>3. QED BY <1>4, <2>1, <2>2 DEF WellFormedStep
<1>5. ASSUME NEW key \in OpcodeKeys
      PROVE  OpcodeStep(key, 0, FALSE) \in Step /\ WellFormedStep(OpcodeStep(key, 0, FALSE))
  <2>1. key \in ArgKeys \cup OpcodeKeys /\ 0 \in Int /\ FALSE \in BOOLEAN
    OBVIOUS
  <2>2. QED BY <1>4, <2>1, Zenon
<1>6. ASSUME pending.active, NEW d \in Digit
      PROVE  LET step == OpcodeStep(pending.key, ArgumentValue(Append(pending.digits, d)),
                                    pending.indirect)
             IN  step \in Step /\ WellFormedStep(step)
  <2>1. ArgumentValue(Append(pending.digits, d)) \in Int
    BY ArgumentValueType DEF TypeOK, InputsOK
  <2>2. pending.key \in ArgKeys \cup OpcodeKeys /\ pending.indirect \in BOOLEAN
    BY <1>6 DEF TypeOK, InputsOK
  <2>3. pending.indirect => pending.key \in ArgKeys \ {"LBL"}
    BY <1>6 DEF TypeOK, InputsOK, PendingWellFormed
  <2>4. QED BY <1>4, <2>1, <2>2, <2>3, Zenon
<1>7. QED BY <1>2, <1>3, <1>5, <1>6

\* A key in PRGM mode records the number it ends, a step of its own, or both;
\* nothing else but the host changes the program.
Growth(p, q) ==
  \E first, second \in {s \in Step : WellFormedStep(s)} :
    \E mid \in {p, Record(p, first)} : q \in {mid, Record(mid, second)}

LEMMA ProgramMoves ==
  ASSUME TypeOK, PendingWellFormed, [Next]_vars
  PROVE  \/ UNCHANGED program
         \/ Host
         \/ calc_mode = "PRGM" /\ Growth(program, program')
<1> DEFINE Good == {s \in Step : WellFormedStep(s)}
<1>1. \E good \in Good : TRUE
  BY KeyboardSteps
<1>2. ASSUME calc_mode = "PRGM"
      PROVE  \E first \in Good : FlushedProgram \in {program, Record(program, first)}
  <2>1. Strtod(entry.buf) \in Number
    BY DataAssumption DEF TypeOK, InputsOK
  <2>2. NumberStep(Strtod(entry.buf)) \in Good
    BY <2>1, KeyboardSteps
  <2>3. QED BY <2>2 DEF FlushedProgram
<1>3. calc_mode = "PRGM" => Growth(program, FlushedProgram)
  BY <1>1, <1>2 DEF Growth
<1>4. calc_mode # "PRGM" => FlushedProgram = program
  BY DEF FlushedProgram
<1>5. ASSUME calc_mode = "PRGM", NEW second \in Good
      PROVE  /\ Growth(program, Record(program, second))
             /\ Growth(program, Record(FlushedProgram, second))
  BY <1>2, <1>5 DEF Growth
<1>6. CASE PrgmKey \/ RunStopKey \/ \E key \in ArgKeys : ArgumentKey(key)
  <2>1. program' = FlushedProgram
    BY <1>6 DEF PrgmKey, RunStopKey, ArgumentKey
  <2>2. QED BY <1>3, <1>4, <2>1
<1>7. CASE AlphaKey
  <2>1. \/ UNCHANGED program
        \/ calc_mode = "PRGM" /\ program' = Record(program, TextStep(TextToRecord))
    BY <1>7 DEF AlphaKey
  <2>2. TextStep(TextToRecord) \in Good
    BY KeyboardSteps
  <2>3. QED BY <1>5, <2>1, <2>2
<1>8. ASSUME NEW d \in DigitsUsed, LastArgumentDigitKey(d)
      PROVE  \/ UNCHANGED program
             \/ calc_mode = "PRGM" /\ Growth(program, program')
  <2> DEFINE step == OpcodeStep(pending.key, ArgumentValue(Append(pending.digits, d)),
                                pending.indirect)
  <2>1. pending.active /\ Commit(step, stack, program)
    BY <1>8 DEF LastArgumentDigitKey
  <2>2. \/ UNCHANGED program
        \/ calc_mode = "PRGM" /\ program' = Record(program, step)
    BY <2>1 DEF Commit, CommitRecords, CommitExecutes
  <2>3. step \in Good
    BY <2>1, KeyboardSteps, InputsAssumption
  <2>4. QED BY <1>5, <2>2, <2>3
<1>9. ASSUME NEW key \in OpcodeKeys, OpcodeKey(key)
      PROVE  \/ UNCHANGED program
             \/ calc_mode = "PRGM" /\ Growth(program, program')
  <2> DEFINE step == OpcodeStep(key, 0, FALSE)
  <2>1. Commit(step, FlushedStack, FlushedProgram)
    BY <1>9 DEF OpcodeKey
  <2>2. \/ calc_mode = "RUN" /\ program' = FlushedProgram
        \/ calc_mode = "PRGM" /\ program' = Record(FlushedProgram, step)
    BY <2>1 DEF Commit, CommitRecords, CommitExecutes
  <2>3. step \in Good
    BY KeyboardSteps
  <2>4. QED BY <1>4, <1>5, <2>2, <2>3
<1>10. CASE UNCHANGED vars \/ Loop
  BY <1>10 DEF vars, Loop, RunFinish, RunHalt, RunSkip, RunStep, code
<1>11. CASE OnKey \/ UserKey \/ BackspaceKey \/ IndKey
  BY <1>11 DEF OnKey, UserKey, BackspaceKey, IndKey, code
<1>12. ASSUME NEW x, \/ AlphaCharKey(x) \/ ArgumentDigitKey(x) \/ ArgumentAbortKey(x)
                     \/ NumberKey(x) \/ ToggleSignKey
       PROVE  UNCHANGED program
  BY <1>12 DEF AlphaCharKey, ArgumentDigitKey, ArgumentAbortKey, NumberKey, ToggleSignKey, code
<1>13. CASE Key
  BY <1>6, <1>7, <1>8, <1>9, <1>11, <1>12, <1>13 DEF Key, ModeKey
<1>14. QED BY <1>10, <1>13 DEF Next

\* Growth keeps what is there and adds at most two well-formed steps.
LEMMA GrowthExtends ==
  ASSUME NEW p \in Seq(Step), Len(p) <= PROGRAM_MAX_LINES, NEW q, Growth(p, q)
  PROVE  /\ IsPrefix(p, q) /\ Len(q) <= Len(p) + 2
         /\ (\A i \in DOMAIN p : WellFormedStep(p[i])) => \A i \in DOMAIN q : WellFormedStep(q[i])
<1>1. PICK first \in Step, second \in Step :
        /\ WellFormedStep(first) /\ WellFormedStep(second)
        /\ \E mid \in {p, Record(p, first)} : q \in {mid, Record(mid, second)}
  BY DEF Growth
<1>2. PICK mid \in {p, Record(p, first)} : q \in {mid, Record(mid, second)}
  BY <1>1
<1>3. /\ mid \in Seq(Step) /\ Len(mid) <= PROGRAM_MAX_LINES
      /\ Len(mid) \in {Len(p), Len(p) + 1}
      /\ \A i \in 1 .. Len(p) : mid[i] = p[i]
      /\ \A i \in 1 .. Len(mid) : i \in 1 .. Len(p) \/ mid[i] = first
  <2>1. CASE mid = p
    BY <2>1
  <2>2. CASE mid = Record(p, first)
    BY <2>2, RecordExtends
  <2>3. QED BY <1>2, <2>1, <2>2
<1>4. /\ q \in Seq(Step) /\ Len(q) \in {Len(mid), Len(mid) + 1}
      /\ \A i \in 1 .. Len(mid) : q[i] = mid[i]
      /\ \A i \in 1 .. Len(q) : i \in 1 .. Len(mid) \/ q[i] = second
  <2>1. CASE q = mid
    BY <1>3, <2>1
  <2>2. CASE q = Record(mid, second)
    <3>1. /\ Record(mid, second) \in Seq(Step)
          /\ Len(Record(mid, second)) \in {Len(mid), Len(mid) + 1}
          /\ \A i \in 1 .. Len(mid) : Record(mid, second)[i] = mid[i]
          /\ \A i \in 1 .. Len(Record(mid, second)) :
               i \in 1 .. Len(mid) \/ Record(mid, second)[i] = second
      <4>1. mid \in Seq(Step) /\ Len(mid) <= PROGRAM_MAX_LINES /\ second \in Step
        BY <1>3
      <4>2. QED BY <4>1, RecordExtends
    <3>2. QED BY <2>2, <3>1, Zenon
  <2>3. QED BY <1>2, <2>1, <2>2
<1>5. Len(p) \in Nat /\ Len(mid) \in Nat /\ Len(q) \in Nat
  BY <1>3, <1>4
<1>6. Len(p) <= Len(q) /\ Len(q) <= Len(p) + 2 /\ Len(p) <= Len(mid)
  BY <1>3, <1>4, <1>5
<1>7. \A i \in 1 .. Len(p) : q[i] = p[i]
  BY <1>3, <1>4, <1>5, <1>6
<1>8. IsPrefix(p, q)
  <2>1. /\ SubSeq(p, 1, Len(p)) \in Seq(Step) /\ Len(SubSeq(p, 1, Len(p))) = Len(p)
        /\ \A i \in 1 .. Len(p) : SubSeq(p, 1, Len(p))[i] = p[i]
    BY <1>5
  <2>2. /\ SubSeq(q, 1, Len(p)) \in Seq(Step) /\ Len(SubSeq(q, 1, Len(p))) = Len(p)
        /\ \A i \in 1 .. Len(p) : SubSeq(q, 1, Len(p))[i] = q[i]
    BY <1>4, <1>5, <1>6
  <2>3. SubSeq(p, 1, Len(p)) = SubSeq(q, 1, Len(p))
    BY <1>7, <2>1, <2>2, SeqEqual
  <2>4. QED BY <1>6, <2>3 DEF IsPrefix
<1>9. ASSUME \A i \in DOMAIN p : WellFormedStep(p[i]), NEW i \in DOMAIN q
      PROVE  WellFormedStep(q[i])
  <2>1. i \in 1 .. Len(q) /\ DOMAIN p = 1 .. Len(p)
    BY <1>4
  <2>2. q[i] = second \/ (i \in 1 .. Len(mid) /\ q[i] = mid[i])
    BY <1>4, <2>1
  <2>3. i \in 1 .. Len(mid) => mid[i] = first \/ (i \in 1 .. Len(p) /\ mid[i] = p[i])
    BY <1>3
  <2>4. QED BY <1>1, <1>9, <2>1, <2>2, <2>3
<1>10. QED BY <1>6, <1>8, <1>9

LEMMA ProgramInductive == TypeOK /\ PendingWellFormed /\ ProgramWellFormed /\ [Next]_vars => ProgramWellFormed'
<1> SUFFICES ASSUME TypeOK, PendingWellFormed, ProgramWellFormed, [Next]_vars
             PROVE  ProgramWellFormed'
  OBVIOUS
<1>1. CASE UNCHANGED program
  BY <1>1 DEF ProgramWellFormed
<1>2. CASE Host
  <2>1. DOMAIN <<>> = {}
    OBVIOUS
  <2>2. program' = <<>> \/ program' \in Programs
    BY <1>2 DEF Host, Reset, LoadProgram
  <2>3. QED BY <2>1, <2>2, InputsAssumption DEF ProgramWellFormed
<1>3. CASE Growth(program, program')
  BY <1>3, GrowthExtends DEF ProgramWellFormed, TypeOK, CodeOK
<1>4. QED BY ProgramMoves, <1>1, <1>2, <1>3

\* No program holds an indirect LBL.
THEOREM ProgramsWellFormed == Spec => []ProgramWellFormed
<1>1. Init => ProgramWellFormed
  <2>1. DOMAIN <<>> = {}
    OBVIOUS
  <2>2. QED BY <2>1 DEF Init, ProgramWellFormed
<1>2. QED BY <1>1, ProgramInductive, TypeCorrect, PendingClean, PTL DEF Spec

LEMMA AppendsStep ==
  ASSUME TypeOK, PendingWellFormed, [Next]_vars
  PROVE  program' # program =>
           \/ Host
           \/ /\ calc_mode = "PRGM"
              /\ IsPrefix(program, program')
              /\ Len(program') <= Len(program) + 2
<1>1. CASE Growth(program, program') /\ calc_mode = "PRGM"
  BY <1>1, GrowthExtends DEF TypeOK, CodeOK
<1>2. QED BY ProgramMoves, <1>1

\* Recording is append-only: the program changes in PRGM mode, keeps its
\* steps, and gains the two one key can record at most.
THEOREM RecordingIsAppendOnly == Spec => RecordingAppends
BY AppendsStep, TypeCorrect, PendingClean, PTL DEF Spec, RecordingAppends

LEMMA PureStep ==
  ASSUME [Next]_vars, calc_mode = "PRGM", ~program_running, ~Reset
  PROVE  UNCHANGED <<stack, storage, flags, display>>
<1>1. FlushedStack = stack
  BY DEF FlushedStack
<1>2. CASE UNCHANGED vars
  BY <1>2 DEF vars
<1>3. ASSUME NEW step, NEW s, NEW p, Commit(step, s, p)
      PROVE  stack' = s /\ UNCHANGED <<storage, flags, display>>
  BY <1>3 DEF Commit, CommitRecords, CommitExecutes
<1>4. CASE ModeKey
  BY <1>1, <1>4 DEF ModeKey, OnKey, PrgmKey, UserKey, AlphaKey, BackspaceKey, RunStopKey, IndKey,
                    machine, registers
<1>5. CASE \E d \in DigitsUsed : LastArgumentDigitKey(d)
  BY <1>3, <1>5 DEF LastArgumentDigitKey
<1>6. CASE \E key \in OpcodeKeys : OpcodeKey(key)
  BY <1>1, <1>3, <1>6 DEF OpcodeKey
<1>7. CASE /\ Key /\ ~ModeKey
           /\ ~\E d \in DigitsUsed : LastArgumentDigitKey(d)
           /\ ~\E key \in OpcodeKeys : OpcodeKey(key)
  BY <1>1, <1>7 DEF Key, AlphaCharKey, ArgumentDigitKey, ArgumentAbortKey, NumberKey, ToggleSignKey,
                    ArgumentKey, machine, registers
<1>8. CASE Host \/ Loop
  BY <1>8 DEF Host, LoadProgram, Loop, RunFinish, RunHalt, RunSkip, RunStep, machine, registers
<1>9. QED BY <1>2, <1>4, <1>5, <1>6, <1>7, <1>8 DEF Next

\* Keys in PRGM mode record and do not act: no register, flag or display
\* setting changes between runs there.
THEOREM RecordingTouchesNothing == Spec => RecordingIsPure
BY PureStep, PTL DEF Spec, RecordingIsPure

-----------------------------------------------------------------------------
(* All of it at once, for whoever drives the core: Init and Next are enough. *)

CoreInv ==
  /\ TypeOK /\ OneEntryAtATime /\ PendingWellFormed /\ EntryWellFormed
  /\ RunInv /\ ReservedFlagsClear /\ ProgramWellFormed

LEMMA CoreInit == Init => CoreInv
<1> SUFFICES ASSUME Init PROVE CoreInv
  OBVIOUS
<1>1. DOMAIN <<>> = {}
  OBVIOUS
<1>2. OneEntryAtATime /\ PendingWellFormed
  BY DEF Init, NoEntry, NoPending, OneEntryAtATime, PendingWellFormed
<1>3. RunInv
  BY DEF Init, RunInv, ReturnsFollowCalls, RunStaysInProgram
<1>4. ReservedFlagsClear
  BY DEF Init, ReservedFlagsClear
<1>5. ProgramWellFormed
  BY <1>1 DEF Init, ProgramWellFormed
<1>6. QED BY <1>2, <1>3, <1>4, <1>5, InitType, EntryInit DEF CoreInv

LEMMA CoreInductive == CoreInv /\ [Next]_vars => CoreInv'
BY TypeInductive, OneEntryInductive, PendingInductive, EntryInductive, RunInvInductive,
   ReservedInductive, ProgramInductive DEF CoreInv

=============================================================================
