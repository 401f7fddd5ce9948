-------------------------------- MODULE St7920 --------------------------------
(***************************************************************************)
(* The display driver (firmware/st7920.c) as firmware/main.c uses it: init,  *)
(* clear, and one frame.  A write to the bus is four steps, between which    *)
(* time passes by the driver's own waits only: the bus cannot be read.       *)
(*                                                                         *)
(* The controller is external, and here as the comments of the driver have   *)
(* it: it latches when E falls, is busy for the time of each instruction,    *)
(* and drops what comes while it is.                                         *)
(***************************************************************************)
EXTENDS Integers, FiniteSetsExt

CONSTANTS
  HEIGHT_PX,      \* VGER_LCD_HEIGHT_PX
  BYTES_PER_ROW,  \* VGER_LCD_BYTES_PER_ROW
  Framebuffers,   \* what may be drawn
  PowerOnRam      \* what the display RAM may hold at power-on

Byte    == 0 .. 255
Rows    == 0 .. HEIGHT_PX - 1
Columns == 0 .. BYTES_PER_ROW - 1

\* vger_firmware_fill_checkerboard; the pixel at x is bit 7 - x % 8 of its byte.
LitPixel(row, x) == ((x \div 4) + (row \div 4)) % 2 = 0
Checkerboard ==
  [row \in Rows |-> [column \in Columns |->
     FoldSet(LAMBDA bit, sum : sum + 2^bit, 0,
             {bit \in 0 .. 7 : LitPixel(row, 8 * column + 7 - bit)})]]

\* The controller's RAM: 64 rows of 16 words, more than the panel shows.
RamRows == 0 .. 63

ASSUME PanelAssumption ==
  /\ HEIGHT_PX \in 1 .. 64
  /\ BYTES_PER_ROW \in 1 .. 32 /\ BYTES_PER_ROW % 2 = 0
  /\ \A fb \in Framebuffers : fb \in [Rows -> [Columns -> Byte]]
  /\ \A ram \in PowerOnRam : ram \in [RamRows -> [0 .. 31 -> Byte]]

VARIABLES
  routine,     \* "wait", "init", "clear", "draw" or "done"
  y, k,        \* the row, and the write within the row or within init
  fb,          \* the frame main() draws
  bus,         \* the step of write_byte: "idle", "set", "high" or "low"
  rs, db, e,   \* the pins
  ctl,         \* the controller's registers
  busy,        \* the microseconds until it is ready
  ram          \* its display RAM

driver     == <<routine, y, k, fb>>
pins       == <<rs, db, e>>
controller == <<ctl, busy, ram>>
lcdVars    == <<driver, bus, pins, controller>>

-----------------------------------------------------------------------------
(* The driver's writes.                                                     *)

BASIC      == \h30
EXTENDED   == \h34
GRAPHIC    == \h36
DISPLAY_ON == \h0C
ENTRY_MODE == \h06
CLEAR      == \h01
GDRAM_ADDR == \h80

BUS_DELAY == 2
SETTLE    == 72

Command(value, delay) == [data |-> FALSE, value |-> value, delay |-> delay]
DataByte(value)       == [data |-> TRUE, value |-> value, delay |-> SETTLE]

\* Wrong: the margin of the other instructions.
ClearDelayShort == 1600
ClearDelay == 12000

\* vger_st7920_init, after the power-on delay.
InitWrites ==
  <<Command(BASIC, 150), Command(BASIC, 50), Command(DISPLAY_ON, 150),
    Command(CLEAR, ClearDelay), Command(ENTRY_MODE, SETTLE),
    Command(EXTENDED, SETTLE), Command(GRAPHIC, SETTLE)>>

\* Wrong: the word comes first.
AddressWordFirst(row) ==
  <<Command(GDRAM_ADDR, SETTLE), Command(GDRAM_ADDR + (row % 64), SETTLE)>>
\* set_gdram_addr of the start of a row.
Address(row) ==
  <<Command(GDRAM_ADDR + (row % 64), SETTLE), Command(GDRAM_ADDR, SETTLE)>>

\* What clear and draw_frame write to a row.
RowByte(column) == IF routine = "clear" THEN 0 ELSE fb[y][column]

Write ==
  IF routine = "init" THEN InitWrites[k]
  ELSE IF k <= 2 THEN Address(y)[k]
  ELSE DataByte(RowByte(k - 3))

LastWrite == IF routine = "init" THEN 7 ELSE 2 + BYTES_PER_ROW

\* Wrong: one row short.
LastRowShort == HEIGHT_PX - 2
LastRow == HEIGHT_PX - 1

\* main.c: what follows a routine.
NextRoutine == [wait |-> "init", init |-> "clear", clear |-> "draw", draw |-> "done"]

\* The loops go on to the next write, row or routine.
Advance ==
  IF k < LastWrite
  THEN k' = k + 1 /\ UNCHANGED <<routine, y>>
  ELSE /\ k' = 1
       /\ IF routine = "init" \/ y = LastRow
          THEN y' = 0 /\ routine' = NextRoutine[routine]
          ELSE y' = y + 1 /\ UNCHANGED routine

-----------------------------------------------------------------------------
(* The controller.                                                          *)

\* Whether the bit of that weight is set: 4 for RE and for D, 2 for G.
Bit(value, weight) == (value \div weight) % 2 = 1

\* The execution times, with the margins of the power-on flowchart.
ExecTime(value) ==
  IF rs THEN 72
  ELSE CASE value = BASIC      -> IF ctl.awake THEN 37 ELSE 100
         [] value = DISPLAY_ON -> 100
         [] value = CLEAR      -> 10000
         [] OTHER              -> 72

\* RE and G do not change in one instruction.
FunctionSet(value) ==
  IF Bit(value, 4) # ctl.re THEN [ctl EXCEPT !.re = Bit(value, 4), !.awake = TRUE]
  ELSE [ctl EXCEPT !.graphic = IF ctl.re THEN Bit(value, 2) ELSE ctl.graphic, !.awake = TRUE]

\* First the row, then the word; in the extended set only.
SetAddress(value) ==
  IF ~ctl.re THEN ctl
  ELSE IF ~ctl.rowSet THEN [ctl EXCEPT !.row = value % 64, !.rowSet = TRUE]
  ELSE [ctl EXCEPT !.byte = 2 * (value % 16), !.rowSet = FALSE]

Instruction(value) ==
  CASE value >= \h80                        -> SetAddress(value)
    [] value \in \h20 .. \h3F               -> FunctionSet(value)
    [] value \in \h08 .. \h0F /\ ~ctl.re    -> [ctl EXCEPT !.on = Bit(value, 4)]
    [] OTHER                                -> ctl

\* A byte goes to its half of a word; after the second the word is the next.
Execute(value) ==
  /\ busy' = ExecTime(value)
  /\ IF rs
     THEN /\ ram' = IF ctl.re THEN [ram EXCEPT ![ctl.row][ctl.byte] = value] ELSE ram
          /\ ctl' = [ctl EXCEPT !.byte = (ctl.byte + 1) % 32]
     ELSE /\ ctl' = Instruction(value)
          /\ UNCHANGED ram

Drop == UNCHANGED controller

\* The microseconds of a wait.
Pass(us) == busy' = IF busy > us THEN busy - us ELSE 0

-----------------------------------------------------------------------------
(* write_byte, and the power-on delay before the first.                     *)

LcdInit ==
  /\ routine = "wait" /\ y = 0 /\ k = 1
  /\ fb \in Framebuffers
  /\ bus = "idle"
  /\ rs = FALSE /\ db = 0 /\ e = 0
  /\ ctl = [awake |-> FALSE, re |-> FALSE, graphic |-> FALSE, on |-> FALSE,
            row |-> 0, byte |-> 0, rowSet |-> FALSE]
  /\ busy = 40000
  /\ ram \in PowerOnRam

PowerOnDelay ==
  /\ routine = "wait"
  /\ routine' = NextRoutine[routine]
  /\ Pass(40000)
  /\ UNCHANGED <<y, k, fb, bus, pins, ctl, ram>>

\* RS and the data lines, with E low.
SetPins ==
  /\ routine \in {"init", "clear", "draw"} /\ bus = "idle"
  /\ rs' = Write.data /\ db' = Write.value
  /\ bus' = "set"
  /\ Pass(BUS_DELAY)
  /\ UNCHANGED <<driver, e, ctl, ram>>

RaiseE ==
  /\ bus = "set"
  /\ e' = 1 /\ bus' = "high"
  /\ Pass(BUS_DELAY)
  /\ UNCHANGED <<driver, rs, db, ctl, ram>>

\* The falling edge is what the controller sees.
DropE ==
  /\ bus = "high"
  /\ e' = 0 /\ bus' = "low"
  /\ IF busy = 0 THEN Execute(db) ELSE Drop
  /\ UNCHANGED <<driver, rs, db>>

Settle ==
  /\ bus = "low"
  /\ bus' = "idle"
  /\ Pass(BUS_DELAY + Write.delay)
  /\ Advance
  /\ UNCHANGED <<fb, pins, ctl, ram>>

LcdNext == PowerOnDelay \/ SetPins \/ RaiseE \/ DropE \/ Settle

\* One thread, and nothing it waits for but time.
LcdSpec == LcdInit /\ [][LcdNext]_lcdVars /\ WF_lcdVars(LcdNext)

-----------------------------------------------------------------------------
(* Properties.                                                              *)

\* The controller is ready whenever E is about to fall: the waits of every
\* write outlast its execution, none is dropped, and no later one is taken for
\* an address half or a byte it is not.
NothingDropped == bus = "high" => busy = 0

Row(r) == [column \in Columns |-> ram[r][column]]
Blank  == [column \in Columns |-> 0]

\* The rows behind the loop hold what they should and, once cleared, those ahead
\* of it hold nothing; what the panel does not show is never written: no row is
\* written in another's place, or past its end.
RowsInPlace ==
  /\ \A r \in Rows :
       /\ routine = "clear" /\ r < y => Row(r) = Blank
       /\ routine = "draw" /\ r < y => Row(r) = fb[r]
       /\ routine = "draw" /\ r > y => Row(r) = Blank
  /\ \E before \in PowerOnRam :
       \A r \in RamRows, b \in 0 .. 31 :
         r \notin Rows \/ b \notin Columns => ram[r][b] = before[r][b]

\* The panel comes to show the frame, and nothing of what the RAM held before.
FrameShown ==
  <>[](/\ ctl.on /\ ctl.graphic
       /\ \A r \in Rows : Row(r) = fb[r])

=============================================================================
