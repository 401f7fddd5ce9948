----------------------------- MODULE St7920Proofs -----------------------------
(***************************************************************************)
(* The display driver on every panel the controller can drive, for every     *)
(* frame and whatever its RAM held: no write is dropped, and every byte      *)
(* lands in its place.                                                      *)
(***************************************************************************)
EXTENDS St7920, TLAPS

-----------------------------------------------------------------------------
(* The inductive invariant.                                                 *)

Registers ==
  [awake : BOOLEAN, re : BOOLEAN, graphic : BOOLEAN, on : BOOLEAN,
   row : 0 .. 63, byte : 0 .. 31, rowSet : BOOLEAN]

Writing == routine \in {"init", "clear", "draw"}
Filling == routine \in {"clear", "draw"}

LcdTypeOK ==
  /\ routine \in {"wait", "init", "clear", "draw", "done"}
  /\ y \in Rows /\ k \in Nat \ {0} /\ fb \in Framebuffers
  /\ bus \in {"idle", "set", "high", "low"}
  /\ rs \in BOOLEAN /\ db \in Byte /\ e \in {0, 1}
  /\ ctl \in Registers /\ busy \in Nat
  /\ ram \in [RamRows -> [0 .. 31 -> Byte]]

\* Where the driver is in its loops.
InLoop ==
  /\ k <= LastWrite
  /\ ~Writing => bus = "idle" /\ k = 1
  /\ ~Filling => y = 0

\* What is on the pins, and that the controller is ready again before each
\* write: after a write it is busy no longer than what is left of the wait.
InTime ==
  /\ bus # "idle" => rs = Write.data /\ db = Write.value
  /\ routine # "wait" /\ bus # "low" => busy = 0
  /\ routine = "wait" => busy <= 40000
  /\ bus = "low" => busy <= BUS_DELAY + Write.delay

\* The writes of this row, or of init, the controller has had.
Had == IF bus = "low" THEN k ELSE k - 1

\* The controller is where the writes so far must have taken it.
InStep ==
  /\ routine = "init" /\ Had >= 1 => ctl.awake
  /\ routine = "init" /\ Had >= 6 => ctl.re
  /\ Filling => ctl.re
  /\ ctl.rowSet <=> Filling /\ Had = 1
  /\ Filling /\ Had >= 1 => ctl.row = y
  /\ Filling /\ Had >= 2 => ctl.byte = (Had - 2) % 32

\* The bytes this routine has written are there, and those it has not are as
\* clear left them.
Behind(r, column) == r < y \/ (r = y /\ column < Had - 2)

Filled ==
  \A r \in Rows, column \in Columns :
    /\ routine = "clear" /\ Behind(r, column) => ram[r][column] = 0
    /\ routine = "draw" =>
         ram[r][column] = IF Behind(r, column) THEN fb[r][column] ELSE 0

\* What the panel does not show is as it was at power-on.
HiddenKept ==
  \E before \in PowerOnRam :
    \A r \in RamRows, b \in 0 .. 31 :
      r \notin Rows \/ b \notin Columns => ram[r][b] = before[r][b]

LcdInv == LcdTypeOK /\ InLoop /\ InTime /\ InStep /\ Filled /\ HiddenKept

-----------------------------------------------------------------------------
(* Writes.                                                                  *)

\* The panel is within the RAM.
LEMMA PanelInRam == Rows \subseteq RamRows /\ Columns \subseteq 0 .. 31
BY PanelAssumption DEF Rows, RamRows, Columns

LEMMA PanelSize == HEIGHT_PX \in 1 .. 64 /\ BYTES_PER_ROW \in 1 .. 32
BY PanelAssumption

\* The row of a loop is a row of the controller.
LEMMA RowNumber ==
  ASSUME LcdTypeOK
  PROVE  y \in 0 .. 63 /\ y % 64 = y
<1>1. y \in 0 .. 63
  BY PanelSize DEF LcdTypeOK, Rows
<1>2. QED BY <1>1

\* The writes of init, one by one.
LEMMA InitFields ==
  ASSUME routine = "init", k \in 1 .. 7
  PROVE  /\ Write.data = FALSE
         /\ k = 1 => Write.value = BASIC /\ Write.delay = 150
         /\ k = 2 => Write.value = BASIC /\ Write.delay = 50
         /\ k = 3 => Write.value = DISPLAY_ON /\ Write.delay = 150
         /\ k = 4 => Write.value = CLEAR /\ Write.delay = ClearDelay
         /\ k = 5 => Write.value = ENTRY_MODE /\ Write.delay = SETTLE
         /\ k = 6 => Write.value = EXTENDED /\ Write.delay = SETTLE
         /\ k = 7 => Write.value = GRAPHIC /\ Write.delay = SETTLE
         /\ k = 1 \/ k = 2 \/ k = 3 \/ k = 4 \/ k = 5 \/ k = 6 \/ k = 7
<1>1. Write = InitWrites[k]
  BY DEF Write
<1>2. /\ k = 1 => Write = Command(BASIC, 150)
      /\ k = 2 => Write = Command(BASIC, 50)
      /\ k = 3 => Write = Command(DISPLAY_ON, 150)
      /\ k = 4 => Write = Command(CLEAR, ClearDelay)
      /\ k = 5 => Write = Command(ENTRY_MODE, SETTLE)
      /\ k = 6 => Write = Command(EXTENDED, SETTLE)
      /\ k = 7 => Write = Command(GRAPHIC, SETTLE)
  BY <1>1 DEF InitWrites
<1>3. k = 1 \/ k = 2 \/ k = 3 \/ k = 4 \/ k = 5 \/ k = 6 \/ k = 7
  OBVIOUS
<1>4. CASE k = 1
  BY <1>2, <1>4 DEF Command
<1>5. CASE k = 2
  BY <1>2, <1>5 DEF Command
<1>6. CASE k = 3
  BY <1>2, <1>6 DEF Command
<1>7. CASE k = 4
  BY <1>2, <1>7 DEF Command
<1>8. CASE k = 5
  BY <1>2, <1>8 DEF Command
<1>9. CASE k = 6
  BY <1>2, <1>9 DEF Command
<1>10. CASE k = 7
  BY <1>2, <1>10 DEF Command
<1>11. QED BY <1>3, <1>4, <1>5, <1>6, <1>7, <1>8, <1>9, <1>10

\* The writes of a row: its address in two halves, and its bytes.
LEMMA RowWrite ==
  ASSUME LcdTypeOK, InLoop, Filling
  PROVE  /\ k = 1 => Write = Command(GDRAM_ADDR + y, SETTLE)
         /\ k = 2 => Write = Command(GDRAM_ADDR, SETTLE)
         /\ k >= 3 => k - 3 \in Columns /\ Write = DataByte(RowByte(k - 3))
<1>1. routine # "init" /\ y % 64 = y
  BY RowNumber DEF Filling
<1>2. k \in Nat \ {0} /\ k <= 2 + BYTES_PER_ROW
  BY <1>1 DEF LcdTypeOK, InLoop, LastWrite
<1>3. k = 1 => Write = Command(GDRAM_ADDR + y, SETTLE)
  BY <1>1 DEF Write, Address
<1>4. k = 2 => Write = Command(GDRAM_ADDR, SETTLE)
  BY <1>1 DEF Write, Address
<1>5. ASSUME k >= 3 PROVE k - 3 \in Columns /\ Write = DataByte(RowByte(k - 3))
  <2>1. BYTES_PER_ROW \in 1 .. 32
    BY PanelAssumption
  <2>2. k - 3 \in Columns /\ ~(k <= 2)
    BY <1>2, <1>5, <2>1 DEF Columns
  <2>3. QED BY <1>1, <2>2 DEF Write
<1>6. QED BY <1>3, <1>4, <1>5

LEMMA RowByteType ==
  ASSUME LcdTypeOK, Filling, NEW column \in Columns
  PROVE  RowByte(column) \in Byte
<1>1. fb[y][column] \in Byte
  BY PanelAssumption DEF LcdTypeOK
<1>2. QED BY <1>1 DEF RowByte, Byte

LEMMA WriteType ==
  ASSUME LcdTypeOK, InLoop, Writing
  PROVE  Write.data \in BOOLEAN /\ Write.value \in Byte /\ Write.delay \in Nat
<1>1. CASE routine = "init"
  <2>1. k \in 1 .. 7
    BY <1>1 DEF LcdTypeOK, InLoop, LastWrite
  <2>2. k = 1 \/ k = 2 \/ k = 3 \/ k = 4 \/ k = 5 \/ k = 6 \/ k = 7
    BY <1>1, <2>1, InitFields
  <2>3. /\ Write.data = FALSE
        /\ Write.value \in {BASIC, DISPLAY_ON, CLEAR, ENTRY_MODE, EXTENDED, GRAPHIC}
        /\ Write.delay \in {150, 50, ClearDelay, SETTLE}
    BY <1>1, <2>1, <2>2, InitFields
  <2>4. Write.value \in Byte
    BY <2>3 DEF Byte, BASIC, EXTENDED, GRAPHIC, DISPLAY_ON, ENTRY_MODE, CLEAR
  <2>5. Write.delay \in Nat
    BY <2>3 DEF ClearDelay, SETTLE
  <2>6. QED BY <2>3, <2>4, <2>5
<1>2. CASE Filling
  <2>1. k = 1 \/ k = 2 \/ k >= 3
    BY DEF LcdTypeOK
  <2>2. y \in 0 .. 63
    BY RowNumber
  <2>3. CASE k = 1
    <3>1. Write = Command(GDRAM_ADDR + y, SETTLE)
      BY <1>2, <2>3, RowWrite
    <3>2. QED BY <2>2, <3>1 DEF Command, Byte, GDRAM_ADDR, SETTLE
  <2>4. CASE k = 2
    <3>1. Write = Command(GDRAM_ADDR, SETTLE)
      BY <1>2, <2>4, RowWrite
    <3>2. QED BY <3>1 DEF Command, Byte, GDRAM_ADDR, SETTLE
  <2>5. CASE k >= 3
    <3>1. k - 3 \in Columns /\ Write = DataByte(RowByte(k - 3))
      BY <1>2, <2>5, RowWrite
    <3>2. RowByte(k - 3) \in Byte
      BY <1>2, <3>1, RowByteType
    <3>3. QED BY <3>1, <3>2 DEF DataByte, SETTLE
  <2>6. QED BY <2>1, <2>3, <2>4, <2>5
<1>3. QED BY <1>1, <1>2 DEF Writing, Filling

\* Each wait outlasts the execution of its write.
LEMMA WaitOutlasts ==
  ASSUME LcdInv, bus = "high"
  PROVE  ExecTime(db) \in Nat /\ ExecTime(db) <= BUS_DELAY + Write.delay
<1>1. Writing /\ rs = Write.data /\ db = Write.value
  BY DEF LcdInv, InLoop, InTime
<1>2. CASE routine = "init"
  <2>1. k \in 1 .. 7
    BY <1>2 DEF LcdInv, LcdTypeOK, InLoop, LastWrite
  <2>2. k >= 2 => ctl.awake
    BY <1>2, <2>1 DEF LcdInv, InStep, Had
  <2>3. rs = FALSE
    BY <1>1, <1>2, <2>1, InitFields
  <2>4. CASE k = 1 \/ k = 3
    <3>1. Write.value \in {BASIC, DISPLAY_ON} /\ Write.delay = 150
      BY <1>2, <2>1, <2>4, InitFields
    <3>2. QED
      BY <1>1, <2>3, <3>1 DEF ExecTime, BUS_DELAY, BASIC, DISPLAY_ON, CLEAR
  <2>5. CASE k = 2
    <3>1. Write.value = BASIC /\ Write.delay = 50
      BY <1>2, <2>1, <2>5, InitFields
    <3>2. QED
      BY <1>1, <2>2, <2>3, <2>5, <3>1 DEF ExecTime, BUS_DELAY, BASIC, DISPLAY_ON, CLEAR
  <2>6. CASE k = 4
    <3>1. Write.value = CLEAR /\ Write.delay = ClearDelay
      BY <1>2, <2>1, <2>6, InitFields
    <3>2. QED
      BY <1>1, <2>3, <3>1 DEF ExecTime, BUS_DELAY, BASIC, DISPLAY_ON, CLEAR, ClearDelay
  <2>7. CASE k = 5 \/ k = 6 \/ k = 7
    <3>1. Write.value \in {ENTRY_MODE, EXTENDED, GRAPHIC} /\ Write.delay = SETTLE
      BY <1>2, <2>1, <2>7, InitFields
    <3>2. QED
      BY <1>1, <2>3, <3>1 DEF ExecTime, BUS_DELAY, BASIC, DISPLAY_ON, CLEAR, ENTRY_MODE,
         EXTENDED, GRAPHIC, SETTLE
  <2>8. QED BY <1>2, <2>1, <2>4, <2>5, <2>6, <2>7, InitFields
<1>3. CASE Filling
  <2>1. LcdTypeOK /\ InLoop
    BY DEF LcdInv
  <2>2. k = 1 \/ k = 2 \/ k >= 3
    BY <2>1 DEF LcdTypeOK
  <2>3. y \in 0 .. 63
    BY <2>1, RowNumber
  <2>4. CASE k = 1 \/ k = 2
    <3>1. Write.delay = SETTLE /\ rs = FALSE /\ db \in 128 .. 191
      <4>1. CASE k = 1
        BY <1>1, <1>3, <2>1, <2>3, <4>1, RowWrite DEF Command, GDRAM_ADDR
      <4>2. CASE k = 2
        BY <1>1, <1>3, <2>1, <4>2, RowWrite DEF Command, GDRAM_ADDR
      <4>3. QED BY <2>4, <4>1, <4>2
    <3>2. QED
      BY <3>1 DEF ExecTime, BASIC, DISPLAY_ON, CLEAR, SETTLE, BUS_DELAY
  <2>5. CASE k >= 3
    <3>1. Write = DataByte(RowByte(k - 3))
      BY <1>3, <2>1, <2>5, RowWrite
    <3>2. Write.data = TRUE /\ Write.delay = SETTLE
      BY <3>1 DEF DataByte
    <3>3. rs
      BY <1>1, <3>2
    <3>4. ExecTime(db) = 72
      BY <3>3 DEF ExecTime
    <3>5. QED BY <3>2, <3>4 DEF SETTLE, BUS_DELAY
  <2>6. QED BY <2>2, <2>4, <2>5
<1>4. QED BY <1>1, <1>2, <1>3 DEF Writing, Filling

-----------------------------------------------------------------------------
(* What the controller makes of a write.                                    *)

LEMMA BitIsBoolean ==
  ASSUME NEW value, NEW weight
  PROVE  Bit(value, weight) \in BOOLEAN
BY DEF Bit

\* The bits of the two function sets that matter.
LEMMA FunctionBits == Bit(EXTENDED, 4) /\ Bit(GRAPHIC, 4)
BY DEF Bit, EXTENDED, GRAPHIC

LEMMA FunctionSetType ==
  ASSUME ctl \in Registers, NEW value
  PROVE  /\ FunctionSet(value) \in Registers
         /\ FunctionSet(value).awake
         /\ FunctionSet(value).re = Bit(value, 4)
         /\ FunctionSet(value).rowSet = ctl.rowSet
<1>1. Bit(value, 4) \in BOOLEAN /\ Bit(value, 2) \in BOOLEAN
  BY BitIsBoolean
<1>2. CASE Bit(value, 4) # ctl.re
  <2>1. FunctionSet(value) = [ctl EXCEPT !.re = Bit(value, 4), !.awake = TRUE]
    BY <1>2 DEF FunctionSet
  <2>2. QED BY <1>1, <2>1 DEF Registers
<1>3. CASE ~(Bit(value, 4) # ctl.re)
  <2>1. FunctionSet(value) =
          [ctl EXCEPT !.graphic = IF ctl.re THEN Bit(value, 2) ELSE ctl.graphic, !.awake = TRUE]
    BY <1>3 DEF FunctionSet
  <2>2. QED BY <1>1, <1>3, <2>1 DEF Registers
<1>4. QED BY <1>2, <1>3

\* In init: what the instructions leave of the registers.
LEMMA InitInstruction ==
  ASSUME LcdInv, routine = "init", k \in 1 .. 7
  PROVE  /\ Instruction(Write.value) \in Registers
         /\ Instruction(Write.value).awake
         /\ k >= 6 => Instruction(Write.value).re
         /\ ~Instruction(Write.value).rowSet
<1>1. ctl \in Registers /\ ~ctl.rowSet /\ (k >= 2 => ctl.awake)
  BY DEF LcdInv, LcdTypeOK, InStep, Filling, Had
<1>2. CASE k \in {1, 2, 6, 7}
  <2>1. Write.value \in {BASIC, EXTENDED, GRAPHIC}
        /\ (k = 6 \/ k = 7 => Write.value \in {EXTENDED, GRAPHIC})
    BY <1>2, InitFields
  <2>2. Instruction(Write.value) = FunctionSet(Write.value)
    BY <2>1 DEF Instruction, BASIC, EXTENDED, GRAPHIC
  <2>3. k >= 6 => k = 6 \/ k = 7
    BY <1>2
  <2>4. QED BY <1>1, <2>1, <2>2, <2>3, FunctionSetType, FunctionBits
<1>3. CASE k = 3
  <2>1. Write.value = DISPLAY_ON
    BY <1>3, InitFields
  <2>2. Instruction(Write.value) \in {ctl, [ctl EXCEPT !.on = Bit(Write.value, 4)]}
    BY <2>1 DEF Instruction, DISPLAY_ON
  <2>3. Bit(Write.value, 4) \in BOOLEAN
    BY BitIsBoolean
  <2>4. QED BY <1>1, <1>3, <2>2, <2>3 DEF Registers
<1>4. CASE k \in {4, 5}
  <2>1. Write.value \in {CLEAR, ENTRY_MODE}
    BY <1>4, InitFields
  <2>2. Instruction(Write.value) = ctl
    BY <2>1 DEF Instruction, CLEAR, ENTRY_MODE
  <2>3. QED BY <1>1, <1>4, <2>2
<1>5. QED BY <1>2, <1>3, <1>4

\* In a row: the first half of the address is the row, the second its start.
LEMMA AddressInstruction ==
  ASSUME LcdInv, Filling, bus = "high", k \in {1, 2}
  PROVE  Instruction(Write.value) =
           IF k = 1 THEN [ctl EXCEPT !.row = y, !.rowSet = TRUE]
                    ELSE [ctl EXCEPT !.byte = 0, !.rowSet = FALSE]
<1>1. LcdTypeOK /\ InLoop /\ ctl.re /\ (ctl.rowSet <=> k = 2)
  BY DEF LcdInv, LcdTypeOK, InStep, Had
<1>2. y \in 0 .. 63
  BY <1>1, RowNumber
<1>3. CASE k = 1
  <2>1. Write.value = 128 + y
    BY <1>1, <1>3, RowWrite DEF Command, GDRAM_ADDR
  <2>2. Write.value % 64 = y /\ Write.value >= \h80
    BY <1>2, <2>1
  <2>3. Instruction(Write.value) = SetAddress(Write.value)
    BY <2>2 DEF Instruction
  <2>4. ctl.re /\ ~ctl.rowSet
    BY <1>1, <1>3
  <2>5. QED BY <1>3, <2>2, <2>3, <2>4 DEF SetAddress
<1>4. CASE k = 2
  <2>1. Write.value = 128
    BY <1>1, <1>4, RowWrite DEF Command, GDRAM_ADDR
  <2>2. Instruction(Write.value) = SetAddress(Write.value)
    BY <2>1 DEF Instruction
  <2>3. QED BY <1>1, <1>4, <2>1, <2>2 DEF SetAddress
<1>5. QED BY <1>3, <1>4

-----------------------------------------------------------------------------
(* The steps.                                                               *)

LEMMA LcdStart == ASSUME LcdInit PROVE LcdInv
<1>1. LcdTypeOK
  <2>1. ram \in [RamRows -> [0 .. 31 -> Byte]]
    BY PanelAssumption DEF LcdInit
  <2>2. y \in Rows
    BY PanelSize DEF LcdInit, Rows
  <2>3. ctl \in Registers
    BY DEF LcdInit, Registers
  <2>4. /\ routine = "wait" /\ k = 1 /\ fb \in Framebuffers /\ bus = "idle"
        /\ rs = FALSE /\ db = 0 /\ e = 0 /\ busy = 40000
    BY DEF LcdInit
  <2>5. /\ routine \in {"wait", "init", "clear", "draw", "done"}
        /\ bus \in {"idle", "set", "high", "low"}
    BY <2>4
  <2>6. k \in Nat \ {0} /\ db \in Byte /\ e \in {0, 1} /\ busy \in Nat
    BY <2>4 DEF Byte
  <2>7. rs \in BOOLEAN
    <3>1. rs = FALSE
      BY DEF LcdInit
    <3>2. QED BY <3>1, Zenon
  <2>8. QED BY <2>1, <2>2, <2>3, <2>4, <2>5, <2>6, <2>7 DEF LcdTypeOK
<1>2. InLoop
  BY PanelSize DEF LcdInit, InLoop, LastWrite, Writing
<1>3. InTime
  BY DEF LcdInit, InTime
<1>4. InStep
  BY DEF LcdInit, InStep, Filling, Had
<1>5. Filled
  BY DEF LcdInit, Filled
<1>6. HiddenKept
  BY DEF LcdInit, HiddenKept
<1>7. QED BY <1>1, <1>2, <1>3, <1>4, <1>5, <1>6 DEF LcdInv

LEMMA PassType ==
  ASSUME busy \in Nat, NEW us \in Nat, Pass(us)
  PROVE  busy' \in Nat /\ (busy <= us => busy' = 0)
BY DEF Pass

\* A step that leaves the loops where they are leaves the write what it is.
LEMMA SameWrite ==
  ASSUME UNCHANGED driver
  PROVE  Write' = Write /\ LastWrite' = LastWrite
BY DEF driver, Write, LastWrite, Address, DataByte, RowByte, Command, InitWrites

LEMMA PowerOnDelayKeeps == ASSUME LcdInv, PowerOnDelay PROVE LcdInv'
<1>1. routine = "wait" /\ routine' = "init" /\ bus = "idle" /\ k = 1 /\ y = 0
  BY DEF LcdInv, InLoop, PowerOnDelay, NextRoutine, Writing, Filling
<1>2. busy' \in Nat /\ busy' = 0
  <2>1. busy \in Nat /\ busy <= 40000 /\ Pass(40000)
    BY <1>1 DEF LcdInv, LcdTypeOK, InTime, PowerOnDelay
  <2>2. QED BY <2>1, PassType
<1>3. LcdTypeOK'
  BY <1>1, <1>2 DEF LcdInv, LcdTypeOK, PowerOnDelay, pins
<1>4. InLoop'
  BY <1>1 DEF InLoop, LastWrite, Writing, Filling, PowerOnDelay
<1>5. InTime'
  BY <1>1, <1>2 DEF InTime, PowerOnDelay
<1>6. InStep'
  BY <1>1 DEF LcdInv, InStep, Filling, Had, PowerOnDelay
<1>7. Filled'
  BY <1>1 DEF Filled
<1>8. HiddenKept'
  BY DEF LcdInv, HiddenKept, PowerOnDelay
<1>9. QED BY <1>3, <1>4, <1>5, <1>6, <1>7, <1>8 DEF LcdInv

\* The pins are set and E is raised: time passes, and the pins hold the write.
LEMMA PinsKeep == ASSUME LcdInv, SetPins \/ RaiseE PROVE LcdInv'
<1>1. /\ Writing /\ bus \in {"idle", "set"} /\ bus' \in {"set", "high"}
      /\ UNCHANGED <<driver, ctl, ram>>
      /\ rs' = Write.data /\ db' = Write.value
  BY DEF LcdInv, InLoop, InTime, SetPins, RaiseE, Writing
<1>2. Write' = Write /\ LastWrite' = LastWrite
  BY <1>1, SameWrite
<1>3. busy' = 0
  <2>1. busy = 0 /\ Pass(BUS_DELAY)
    BY <1>1 DEF LcdInv, InTime, Writing, SetPins, RaiseE
  <2>2. QED BY <2>1 DEF Pass, BUS_DELAY
<1>4. LcdTypeOK'
  <2>1. rs' \in BOOLEAN /\ db' \in Byte
    BY <1>1, WriteType DEF LcdInv
  <2>2. e' \in {0, 1}
    BY DEF LcdInv, LcdTypeOK, SetPins, RaiseE
  <2>3. QED BY <1>1, <1>3, <2>1, <2>2 DEF LcdInv, LcdTypeOK, driver
<1>5. InLoop'
  BY <1>1, <1>2 DEF LcdInv, InLoop, Writing, Filling, driver
<1>6. InTime'
  BY <1>1, <1>2, <1>3 DEF InTime, Writing, driver
<1>7. InStep' /\ Filled' /\ HiddenKept'
  <2>1. Had' = Had
    BY <1>1 DEF Had, driver
  <2>2. InStep'
    BY <1>1, <2>1 DEF LcdInv, InStep, Filling, driver
  <2>3. Filled'
    BY <1>1, <2>1 DEF LcdInv, Filled, Behind, driver
  <2>4. HiddenKept'
    BY <1>1 DEF LcdInv, HiddenKept
  <2>5. QED BY <2>2, <2>3, <2>4
<1>8. QED BY <1>4, <1>5, <1>6, <1>7 DEF LcdInv

\* E falls: the controller, ready, executes the write.
LEMMA DropEKeeps == ASSUME LcdInv, DropE PROVE LcdInv'
<1>1. /\ bus = "high" /\ bus' = "low" /\ e' = 0 /\ Writing
      /\ UNCHANGED <<driver, rs, db>>
      /\ rs = Write.data /\ db = Write.value /\ Execute(db)
  BY DEF LcdInv, InLoop, InTime, DropE, Writing
<1>2. Write' = Write /\ LastWrite' = LastWrite
  BY <1>1, SameWrite
<1>3. k \in Nat \ {0} /\ Had = k - 1 /\ Had' = k /\ LcdTypeOK /\ InLoop
  BY <1>1 DEF LcdInv, LcdTypeOK, Had, driver
<1>4. busy' \in Nat /\ busy' <= BUS_DELAY + Write.delay
  BY <1>1, WaitOutlasts DEF Execute
<1>5. InLoop' /\ InTime'
  BY <1>1, <1>2, <1>4 DEF LcdInv, InLoop, InTime, Writing, Filling, driver
<1>6. LcdTypeOK' <=> ctl' \in Registers /\ ram' \in [RamRows -> [0 .. 31 -> Byte]]
  BY <1>1, <1>3, <1>4 DEF LcdTypeOK, driver
<1>7. CASE routine = "init"
  <2>1. k \in 1 .. 7
    BY <1>3, <1>7 DEF InLoop, LastWrite
  <2>2. ~rs /\ ctl' = Instruction(Write.value) /\ ram' = ram
    BY <1>1, <1>7, <2>1, InitFields DEF Execute
  <2>3. ctl' \in Registers /\ ctl'.awake /\ (k >= 6 => ctl'.re) /\ ~ctl'.rowSet
    BY <1>7, <2>1, <2>2, InitInstruction
  <2>4. LcdTypeOK'
    BY <1>3, <1>6, <2>2, <2>3 DEF LcdTypeOK
  <2>5. InStep'
    BY <1>1, <1>3, <1>7, <2>3 DEF InStep, Filling, driver
  <2>6. Filled' /\ HiddenKept'
    BY <1>1, <1>7, <2>2 DEF LcdInv, Filled, HiddenKept, driver
  <2>7. QED BY <1>5, <2>4, <2>5, <2>6 DEF LcdInv
<1>8. CASE Filling /\ k \in {1, 2}
  <2>1. ~rs
    BY <1>1, <1>3, <1>8, RowWrite DEF Command
  <2>2. ram' = ram
        /\ ctl' = IF k = 1 THEN [ctl EXCEPT !.row = y, !.rowSet = TRUE]
                           ELSE [ctl EXCEPT !.byte = 0, !.rowSet = FALSE]
    BY <1>1, <1>8, <2>1, AddressInstruction DEF Execute
  <2>3. ctl \in Registers /\ y \in 0 .. 63 /\ ctl.re /\ (k = 2 => ctl.row = y)
    BY <1>3, <1>8, RowNumber DEF LcdInv, LcdTypeOK, InStep
  <2>4. /\ ctl' \in Registers /\ ctl'.re /\ ctl'.row = y
        /\ ctl'.rowSet <=> k = 1
        /\ k = 2 => ctl'.byte = 0
    <3>1. CASE k = 1
      <4>1. ctl' = [ctl EXCEPT !.row = y, !.rowSet = TRUE]
        BY <2>2, <3>1
      <4>2. /\ ctl' \in Registers /\ ctl'.re = ctl.re /\ ctl'.row = y
            /\ ctl'.rowSet = TRUE
        BY <2>3, <4>1 DEF Registers
      <4>3. QED BY <2>3, <3>1, <4>2
    <3>2. CASE k = 2
      <4>1. ctl' = [ctl EXCEPT !.byte = 0, !.rowSet = FALSE]
        BY <2>2, <3>2
      <4>2. ctl' \in Registers
        <5>1. 0 \in 0 .. 31
          OBVIOUS
        <5>2. FALSE \in BOOLEAN
          OBVIOUS
        <5>3. QED BY <2>3, <4>1, <5>1, <5>2 DEF Registers
      <4>3. ctl'.re = ctl.re /\ ctl'.row = ctl.row
        BY <2>3, <4>1 DEF Registers
      <4>4. ctl'.rowSet = FALSE /\ ctl'.byte = 0
        BY <2>3, <4>1 DEF Registers
      <4>5. QED BY <2>3, <3>2, <4>2, <4>3, <4>4
    <3>3. QED BY <1>8, <3>1, <3>2
  <2>5. LcdTypeOK'
    BY <1>3, <1>6, <2>2, <2>4 DEF LcdTypeOK
  <2>6. InStep'
    BY <1>1, <1>3, <1>8, <2>4 DEF InStep, Filling, driver
  <2>7. Filled'
    <3>1. \A r, column \in Int : column >= 0 => (Behind(r, column)' <=> Behind(r, column))
      BY <1>1, <1>3, <1>8 DEF Behind, driver
    <3>2. Rows \subseteq Int /\ \A column \in Columns : column \in Int /\ column >= 0
      BY PanelSize DEF Rows, Columns
    <3>3. QED BY <1>1, <2>2, <3>1, <3>2 DEF LcdInv, Filled, driver
  <2>8. HiddenKept'
    BY <2>2 DEF LcdInv, HiddenKept
  <2>9. QED BY <1>5, <2>5, <2>6, <2>7, <2>8 DEF LcdInv
<1>9. CASE Filling /\ k >= 3
  <2>1. k - 3 \in Columns /\ Write = DataByte(RowByte(k - 3))
    BY <1>3, <1>9, RowWrite
  <2>2. rs /\ db = RowByte(k - 3)
    BY <1>1, <2>1 DEF DataByte
  <2>3. ctl \in Registers /\ ctl.re /\ ~ctl.rowSet /\ ctl.row = y /\ ctl.byte = k - 3
    <3>1. ctl.byte = (k - 3) % 32
      BY <1>3, <1>9 DEF LcdInv, InStep
    <3>2. k - 3 \in 0 .. 31
      BY <2>1, PanelInRam
    <3>3. QED BY <1>3, <1>9, <3>1, <3>2 DEF LcdInv, LcdTypeOK, InStep
  <2>4. ctl' = [ctl EXCEPT !.byte = (k - 2) % 32]
    BY <1>1, <1>3, <2>2, <2>3 DEF Execute
  <2>5. ram' = [ram EXCEPT ![y][k - 3] = RowByte(k - 3)]
    BY <1>1, <2>2, <2>3 DEF Execute
  <2>6. ctl' \in Registers /\ ctl'.re /\ ~ctl'.rowSet /\ ctl'.row = y
        /\ ctl'.byte = (k - 2) % 32
    BY <1>3, <2>3, <2>4 DEF Registers
  <2>7. y \in RamRows /\ k - 3 \in 0 .. 31 /\ y \in Rows
    BY <1>3, <2>1, PanelInRam DEF LcdTypeOK
  <2>8. \A r \in RamRows, b \in 0 .. 31 :
          ram'[r][b] = IF r = y /\ b = k - 3 THEN RowByte(k - 3) ELSE ram[r][b]
    BY <1>3, <2>5, <2>7 DEF LcdTypeOK
  <2>9. LcdTypeOK'
    <3>1. RowByte(k - 3) \in Byte
      BY <1>3, <1>9, <2>1, RowByteType
    <3>2. ram' \in [RamRows -> [0 .. 31 -> Byte]]
      BY <1>3, <2>5, <2>7, <3>1 DEF LcdTypeOK
    <3>3. QED BY <1>6, <2>6, <3>2
  <2>10. InStep'
    BY <1>1, <1>3, <1>9, <2>6 DEF InStep, Filling, driver
  <2>11. Filled'
    <3> SUFFICES ASSUME NEW r \in Rows, NEW column \in Columns
                 PROVE  /\ routine' = "clear" /\ Behind(r, column)' => ram'[r][column] = 0
                        /\ routine' = "draw" =>
                             ram'[r][column] = IF Behind(r, column)' THEN fb'[r][column] ELSE 0
      BY DEF Filled
    <3>1. r \in RamRows /\ column \in 0 .. 31 /\ r \in Int /\ y \in Int
      BY <2>7, PanelInRam DEF Rows
    <3>2. Behind(r, column)' <=> Behind(r, column) \/ (r = y /\ column = k - 3)
      BY <1>1, <1>3, <1>9, <3>1 DEF Behind, driver
    <3>3. ram'[r][column] = IF r = y /\ column = k - 3 THEN RowByte(k - 3) ELSE ram[r][column]
      BY <2>8, <3>1
    <3>4. RowByte(k - 3) = IF routine = "clear" THEN 0 ELSE fb[y][k - 3]
      BY DEF RowByte
    <3>5. QED BY <1>1, <3>2, <3>3, <3>4 DEF LcdInv, Filled, driver
  <2>12. HiddenKept'
    <3>1. PICK before \in PowerOnRam :
            \A r \in RamRows, b \in 0 .. 31 :
              r \notin Rows \/ b \notin Columns => ram[r][b] = before[r][b]
      BY DEF LcdInv, HiddenKept
    <3>2. \A r \in RamRows, b \in 0 .. 31 :
            r \notin Rows \/ b \notin Columns => ram'[r][b] = before[r][b]
      BY <2>1, <2>7, <2>8, <3>1
    <3>3. QED BY <3>2 DEF HiddenKept
  <2>13. QED BY <1>5, <2>9, <2>10, <2>11, <2>12 DEF LcdInv
<1>10. Filling => k \in {1, 2} \/ k >= 3
  BY <1>3
<1>11. QED BY <1>1, <1>7, <1>8, <1>9, <1>10 DEF Writing, Filling

\* The wait after a write, and on to the next.
LEMMA SettleKeeps == ASSUME LcdInv, Settle PROVE LcdInv'
<1>1. /\ bus = "low" /\ bus' = "idle" /\ Writing /\ LcdTypeOK /\ Had = k
      /\ UNCHANGED <<fb, pins, ctl, ram>> /\ Advance
  BY DEF LcdInv, InLoop, Settle, Writing, Had
<1>2. busy' = 0
  <2>1. BUS_DELAY + Write.delay \in Nat
    BY <1>1, WriteType DEF LcdInv, BUS_DELAY
  <2>2. busy <= BUS_DELAY + Write.delay
    BY <1>1 DEF LcdInv, InTime
  <2>3. QED BY <1>1, <2>1, <2>2, PassType DEF Settle, LcdTypeOK
<1>3. /\ k \in Nat \ {0} /\ y \in Rows /\ k <= LastWrite
      /\ Rows \subseteq Int /\ \A r \in Rows : r >= 0 /\ r <= LastRow
      /\ 0 \in Rows /\ LastRow \in Int
  BY <1>1, PanelSize DEF LcdInv, LcdTypeOK, InLoop, Rows, LastRow
<1>4. Had' = k' - 1
  BY <1>1 DEF Had
<1>5. InTime'
  BY <1>1, <1>2 DEF InTime
<1>6. HiddenKept'
  BY <1>1 DEF LcdInv, HiddenKept
<1>7. CASE k < LastWrite
  <2>1. k' = k + 1 /\ UNCHANGED <<routine, y>>
    BY <1>1, <1>7 DEF Advance
  <2>2. LcdTypeOK'
    BY <1>1, <1>2, <1>3, <2>1 DEF LcdTypeOK, pins
  <2>3. LastWrite' = LastWrite /\ LastWrite \in Int
    BY <2>1, PanelSize DEF LastWrite
  <2>4. InLoop'
    BY <1>1, <1>3, <1>7, <2>1, <2>3 DEF LcdInv, InLoop, Writing, Filling
  <2>5. Had' = Had
    BY <1>1, <1>3, <1>4, <2>1
  <2>6. InStep' /\ Filled'
    BY <1>1, <2>1, <2>5 DEF LcdInv, InStep, Filled, Behind, Filling
  <2>7. QED BY <1>5, <1>6, <2>2, <2>4, <2>6 DEF LcdInv
<1>8. CASE ~(k < LastWrite)
  <2>1. k = LastWrite /\ k' = 1 /\ Had' = 0
    BY <1>1, <1>3, <1>4, <1>8, PanelSize DEF Advance, LastWrite
  <2>2. BYTES_PER_ROW \in 1 .. 32 /\ (routine = "init" => k = 7)
        /\ (Filling => routine # "init" /\ k = 2 + BYTES_PER_ROW)
    BY <2>1, PanelSize DEF LastWrite, Filling
  <2>3. ~ctl.rowSet /\ ctl.re
    <3>1. Had >= 6 \/ Filling
      BY <1>1, <2>2 DEF Writing, Filling
    <3>2. ~(Filling /\ Had = 1)
      BY <1>1, <2>2
    <3>3. QED BY <1>1, <3>1, <3>2 DEF LcdInv, InStep, Writing, Filling
  <2>4. y' \in Rows /\ routine' \in {"clear", "draw", "done"} /\ (~Filling' => y' = 0)
        /\ y' \in Int
    <3>1. CASE routine = "init" \/ y = LastRow
      BY <1>1, <1>3, <1>8, <3>1 DEF Advance, NextRoutine, Writing
    <3>2. CASE ~(routine = "init" \/ y = LastRow)
      <4>1. y' = y + 1 /\ routine' = routine
        BY <1>1, <1>8, <3>2 DEF Advance
      <4>2. y + 1 \in Rows
        BY <1>3, <3>2, PanelSize DEF Rows, LastRow
      <4>3. QED BY <1>1, <1>3, <3>2, <4>1, <4>2 DEF Writing, Filling
    <3>3. QED BY <3>1, <3>2
  <2>5. LcdTypeOK'
    BY <1>1, <1>2, <2>1, <2>4 DEF LcdTypeOK, pins
  <2>6. InLoop'
    <3>1. 1 <= LastWrite'
      BY <2>2 DEF LastWrite
    <3>2. QED BY <1>1, <2>1, <2>4, <3>1 DEF InLoop, Writing, Filling
  <2>7. InStep'
    BY <1>1, <2>1, <2>3, <2>4 DEF InStep, Filling
  <2>8. Filled'
    <3> SUFFICES ASSUME NEW r \in Rows, NEW column \in Columns
                 PROVE  /\ routine' = "clear" /\ Behind(r, column)' => ram'[r][column] = 0
                        /\ routine' = "draw" =>
                             ram'[r][column] = IF Behind(r, column)' THEN fb'[r][column] ELSE 0
      BY DEF Filled
    <3>1. r \in Int /\ r >= 0 /\ r <= LastRow /\ column \in Int
          /\ 0 <= column /\ column < BYTES_PER_ROW
      BY <1>3, <2>2 DEF Columns
    <3>2. Behind(r, column)' <=> r < y'
      BY <2>1, <2>4, <3>1 DEF Behind
    <3>3. Filling => (Behind(r, column) <=> r <= y)
      BY <1>1, <1>3, <2>2, <3>1 DEF Behind
    <3>4. CASE routine = "init"
      BY <1>1, <1>8, <3>1, <3>2, <3>4 DEF Advance, NextRoutine
    <3>5. CASE Filling /\ y = LastRow
      <4>1. y' = 0 /\ routine' = NextRoutine[routine]
        BY <1>1, <1>8, <3>5 DEF Advance
      <4>2. ~Behind(r, column)' /\ Behind(r, column)
        BY <3>1, <3>2, <3>3, <3>5, <4>1
      <4>3. CASE routine = "clear"
        BY <1>1, <4>1, <4>2, <4>3 DEF NextRoutine, LcdInv, Filled
      <4>4. CASE routine = "draw"
        BY <4>1, <4>4 DEF NextRoutine
      <4>5. QED BY <3>5, <4>3, <4>4 DEF Filling
    <3>6. CASE Filling /\ y # LastRow
      <4>1. y' = y + 1 /\ routine' = routine
        BY <1>1, <1>8, <2>2, <3>6 DEF Advance
      <4>2. Behind(r, column)' <=> Behind(r, column)
        BY <1>3, <3>1, <3>2, <3>3, <3>6, <4>1
      <4>3. QED BY <1>1, <4>1, <4>2 DEF LcdInv, Filled
    <3>7. QED BY <1>1, <3>4, <3>5, <3>6 DEF Writing, Filling
  <2>9. QED BY <1>5, <1>6, <2>5, <2>6, <2>7, <2>8 DEF LcdInv
<1>9. QED BY <1>7, <1>8

LEMMA LcdStutter == ASSUME LcdInv, UNCHANGED lcdVars PROVE LcdInv'
<1>1. UNCHANGED <<routine, y, k, fb, bus, rs, db, e, ctl, busy, ram>>
  BY DEF lcdVars, driver, pins, controller
<1>2. Write' = Write /\ LastWrite' = LastWrite
  BY <1>1, SameWrite DEF driver
<1>3. Had' = Had
  BY <1>1 DEF Had
<1>4. LcdTypeOK'
  BY <1>1 DEF LcdInv, LcdTypeOK
<1>5. InLoop' /\ InTime' /\ InStep'
  BY <1>1, <1>2, <1>3 DEF LcdInv, InLoop, InTime, InStep, Writing, Filling
<1>6. Filled' /\ HiddenKept'
  BY <1>1, <1>3 DEF LcdInv, Filled, Behind, HiddenKept
<1>7. QED BY <1>4, <1>5, <1>6 DEF LcdInv

LEMMA LcdInductive == LcdSpec => []LcdInv
<1>1. LcdInit => LcdInv
  BY LcdStart
<1>2. LcdInv /\ [LcdNext]_lcdVars => LcdInv'
  BY PowerOnDelayKeeps, PinsKeep, DropEKeeps, SettleKeeps, LcdStutter DEF LcdNext
<1>3. QED BY <1>1, <1>2, PTL DEF LcdSpec

-----------------------------------------------------------------------------
(* The theorems.                                                            *)

\* The waits of write_byte and of its callers outlast every instruction, with
\* the longer ones of power-on and of clear: the controller takes each write.
THEOREM TakesEveryWrite == LcdSpec => []NothingDropped
<1>1. LcdInv => NothingDropped
  BY DEF LcdInv, InLoop, InTime, NothingDropped, Writing
<1>2. QED BY <1>1, LcdInductive, PTL

\* clear and draw_frame put every byte where its row and column say, row after
\* row, and write nothing beside the panel, whatever its size.
THEOREM FillsInPlace == LcdSpec => []RowsInPlace
<1>1. LcdInv => RowsInPlace
  <2> SUFFICES ASSUME LcdInv
               PROVE  RowsInPlace
    OBVIOUS
  <2>1. Rows \subseteq Int /\ y \in Int /\ fb \in Framebuffers
    BY DEF LcdInv, LcdTypeOK, Rows
  <2>2. \A r \in Rows : fb[r] = [column \in Columns |-> fb[r][column]]
    BY <2>1, PanelAssumption
  <2>3. ASSUME NEW r \in Rows
        PROVE  /\ routine = "clear" /\ r < y => Row(r) = Blank
               /\ routine = "draw" /\ r < y => Row(r) = fb[r]
               /\ routine = "draw" /\ r > y => Row(r) = Blank
    <3>1. /\ r < y => \A column \in Columns : Behind(r, column)
          /\ r > y => \A column \in Columns : ~Behind(r, column)
      BY <2>1 DEF Behind
    <3>2. QED BY <2>2, <3>1 DEF LcdInv, Filled, Row, Blank
  <2>4. QED BY <2>3 DEF RowsInPlace, LcdInv, HiddenKept
<1>2. QED BY <1>1, LcdInductive, PTL

=============================================================================
