---------------------------- MODULE VgerTwinProofs ----------------------------
(***************************************************************************)
(* TypedAsRecorded, for every value of the constants: what a recorded       *)
(* program gives when it runs is what its keys gave when they were typed.   *)
(*                                                                         *)
(* A program of the typed keys is a straight line, so what it gives is the  *)
(* last state of a trace that starts with the cleared calculator and goes   *)
(* through one step after the other.  While the keys are typed, the machine *)
(* they act on follows the last state of such a trace (Follows); while the  *)
(* recorded program runs, its machine goes along the same trace (Along).    *)
(***************************************************************************)
EXTENDS VgerTwin, VgerSafetyProofs

-----------------------------------------------------------------------------
(* What a typed step does to the memory of a calculator.                    *)

TypedOpcodes == {"NUMBER", "ALPHA", "STO", "RCL", "ASTO"} \cup StackKeys

Memory == [stack : Stack, storage : [Registers -> Register],
           alpha : TextUpTo(ALPHA_BUFFER_LEN)]

Cleared == [stack |-> ClearStack, storage |-> [r \in Registers |-> NumericRegister(Zero)],
            alpha |-> <<>>]

\* The ints a step may act on.
Named(m, step) ==
  IF ~step.indirect THEN {step.arg}
  ELSE IF step.arg \in Registers /\ m.storage[step.arg].kind = "NUMERIC"
       THEN IntCasts(m.storage[step.arg].numeric)
       ELSE {-1}

Held(m, r) == IF m.storage[r].kind = "NUMERIC" THEN m.storage[r].numeric ELSE Zero

StackThen(m, step, arg) ==
  IF step.opcode = "NUMBER" THEN Place(m.stack, step.number)
  ELSE IF step.opcode = "RCL" /\ arg \in Registers THEN Place(m.stack, Held(m, arg))
  ELSE IF step.opcode \in StackKeys THEN OpcodeStack(step.opcode, m.stack)
  ELSE m.stack

StorageThen(m, step, arg) ==
  IF step.opcode = "STO" /\ arg \in Registers
  THEN [m.storage EXCEPT ![arg] = NumericRegister(m.stack.x)]
  ELSE IF step.opcode = "ASTO" /\ arg \in Registers
  THEN [m.storage EXCEPT ![arg] = PackedRegister(Pack(m.alpha))]
  ELSE m.storage

AlphaThen(m, step) ==
  IF step.opcode = "ALPHA" THEN Truncate(step.text, ALPHA_BUFFER_LEN) ELSE m.alpha

Effect(m, step, arg) ==
  [stack   |-> StackThen(m, step, arg),
   storage |-> StorageThen(m, step, arg),
   alpha   |-> AlphaThen(m, step)]

\* The states a straight program goes through, and the last of them.
TraceOf(p, tr) ==
  /\ tr \in [1 .. Len(p) + 1 -> Memory]
  /\ tr[1] = Cleared
  /\ \A i \in 1 .. Len(p) : \E arg \in Named(tr[i], p[i]) : tr[i + 1] = Effect(tr[i], p[i], arg)

Gives(p, m) == \E tr : TraceOf(p, tr) /\ tr[Len(p) + 1] = m

\* The steps before line n compose a text.
Composed(p, n) == \E i \in 1 .. n : p[i].opcode = "ALPHA"

\* A program the user of the twins records.
Straight(p) ==
  /\ p \in Seq(Step)
  /\ \A i \in 1 .. Len(p) : /\ p[i].opcode \in TypedOpcodes
                            /\ p[i].opcode = "ASTO" => Composed(p, i - 1)

-----------------------------------------------------------------------------
(* The invariant.                                                           *)

\* The machine typed on has the memory m, where an open number has already
\* lifted the stack and its X is still to settle.
Follows(p, m) ==
  /\ m \in Memory
  /\ storage = m.storage
  /\ Composed(p, Len(p)) /\ ~alpha_mode => alpha = m.alpha
  /\ IF entry.active THEN [stack EXCEPT !.x = Zero] = [Lift(m.stack) EXCEPT !.x = Zero]
                     ELSE stack = m.stack

\* What is open on one calculator is open on the other.
InStep ==
  /\ calc_mode = "RUN" /\ ~program_running
  /\ r_entry = entry /\ r_pending = pending
  /\ r_alpha = alpha /\ r_alpha_mode = alpha_mode

\* Recording leaves the memory of the recorder cleared.
Untouched ==
  /\ r_stack = ClearStack
  /\ r_storage = [r \in Registers |-> NumericRegister(Zero)]
  /\ r_current_line = -1
  /\ ~r_program_running

Typing ==
  /\ InStep /\ Untouched
  /\ r_calc_mode = "PRGM"
  /\ Straight(r_program) /\ Len(r_program) < PROGRAM_MAX_LINES
  /\ Len(alpha) < ALPHA_BUFFER_LEN
  /\ pending.active => pending.key \in {"STO", "RCL", "ASTO"}
  /\ lift = "unused" => \E m : Gives(r_program, m) /\ Follows(r_program, m)

\* The machine typed on has the memory m once the open number has settled.
Matches(m) ==
  /\ Values(FlushedStack) = Values(m.stack)
  /\ storage = m.storage
  /\ Composed(r_program, Len(r_program)) => alpha = m.alpha

\* What is recorded is complete, and has not run.
Recorded ==
  /\ r_stack = ClearStack
  /\ r_storage = [r \in Registers |-> NumericRegister(Zero)]
  /\ r_alpha = alpha
  /\ Straight(r_program) /\ Len(r_program) <= PROGRAM_MAX_LINES
  /\ lift = "unused" => \E m : Gives(r_program, m) /\ Matches(m)

Closed == Recorded /\ Untouched /\ r_entry = NoEntry

\* The recorder has run n steps.
Along(tr, n) ==
  /\ r_stack = tr[n + 1].stack
  /\ r_storage = tr[n + 1].storage
  /\ r_alpha = IF Composed(r_program, n) THEN tr[n + 1].alpha ELSE alpha

Replayed ==
  /\ Straight(r_program) /\ Len(r_program) <= PROGRAM_MAX_LINES
  /\ r_program_running \in BOOLEAN
  /\ r_program_running => /\ r_run.line \in 0 .. Len(r_program)
                          /\ r_run.steps = r_run.line /\ ~r_run.skip
  /\ lift = "unused" =>
       \E tr : /\ TraceOf(r_program, tr) /\ Matches(tr[Len(r_program) + 1])
               /\ Along(tr, IF r_program_running THEN r_run.line ELSE Len(r_program))

TwinInv ==
  /\ TypeOK /\ OneEntryAtATime
  /\ phase \in {"starting", "typing", "closed", "replayed"}
  /\ phase = "starting" => Init /\ Recorder!Init /\ lift = "unused"
  /\ phase = "typing"   => Typing
  /\ phase = "closed"   => Closed
  /\ phase = "replayed" => Replayed

-----------------------------------------------------------------------------
(* Memories and traces.                                                     *)

LEMMA ClearedType == Cleared \in Memory
<1>1. ClearStack \in Stack
  BY DataAssumption DEF ClearStack, Stack
<1>2. [r \in Registers |-> NumericRegister(Zero)] \in [Registers -> Register]
  BY DataAssumption DEF NumericRegister, Register
<1>3. <<>> \in TextUpTo(ALPHA_BUFFER_LEN)
  BY LimitsAssumption DEF TextUpTo
<1>4. QED BY <1>1, <1>2, <1>3 DEF Cleared, Memory

LEMMA GivesNothing == Gives(<<>>, Cleared)
<1> DEFINE tr == [i \in 1 .. 1 |-> Cleared]
<1>1. Len(<<>>) = 0 OBVIOUS
<1>2. TraceOf(<<>>, tr) /\ tr[1] = Cleared
  BY <1>1, ClearedType DEF TraceOf
<1>3. QED BY <1>1, <1>2 DEF Gives

\* One more step goes one state further.
LEMMA GivesNext ==
  ASSUME NEW p \in Seq(Step), NEW m, Gives(p, m), NEW step \in Step,
         NEW arg \in Named(m, step), Effect(m, step, arg) \in Memory
  PROVE  Gives(Append(p, step), Effect(m, step, arg))
<1> DEFINE q == Append(p, step)
           n == Len(p)
           next == Effect(m, step, arg)
<1>1. PICK tr : TraceOf(p, tr) /\ tr[n + 1] = m
  BY DEF Gives
<1> DEFINE longer == [i \in 1 .. n + 2 |-> IF i <= n + 1 THEN tr[i] ELSE next]
<1>2. n \in Nat /\ Len(q) = n + 1 /\ q[n + 1] = step /\ \A i \in 1 .. n : q[i] = p[i]
  OBVIOUS
<1>3. tr \in [1 .. n + 1 -> Memory] /\ tr[1] = Cleared
  BY <1>1 DEF TraceOf
<1> HIDE DEF n, next, q
<1>4. /\ \A i \in 1 .. n + 1 : longer[i] = tr[i]
      /\ longer[n + 2] = next
  BY <1>2
<1>5. longer \in [1 .. Len(q) + 1 -> Memory]
  <2>1. next \in Memory BY DEF next
  <2>2. \A i \in 1 .. n + 2 : (IF i <= n + 1 THEN tr[i] ELSE next) \in Memory
    BY <1>2, <1>3, <2>1
  <2>3. Len(q) + 1 = n + 2 BY <1>2
  <2>4. QED BY <2>2, <2>3
<1>6. ASSUME NEW i \in 1 .. Len(q)
      PROVE  \E a \in Named(longer[i], q[i]) : longer[i + 1] = Effect(longer[i], q[i], a)
  <2>1. CASE i \in 1 .. n
    <3>1. i \in 1 .. n + 1 /\ i + 1 \in 1 .. n + 1
      BY <1>2, <2>1
    <3>2. longer[i] = tr[i] /\ longer[i + 1] = tr[i + 1] /\ q[i] = p[i]
      BY <1>2, <1>4, <2>1, <3>1
    <3>3. \E a \in Named(tr[i], p[i]) : tr[i + 1] = Effect(tr[i], p[i], a)
      BY <1>1, <2>1 DEF TraceOf, n
    <3>4. QED BY <3>2, <3>3
  <2>2. CASE i = n + 1
    <3>1. longer[i] = m /\ q[i] = step
      BY <1>1, <1>2, <1>4, <2>2
    <3>2. longer[i + 1] = next
      BY <1>2, <1>4, <2>2
    <3>3. arg \in Named(m, step) /\ next = Effect(m, step, arg)
      BY DEF next
    <3>4. arg \in Named(longer[i], q[i])
      BY <3>1, <3>3
    <3>5. longer[i + 1] = Effect(longer[i], q[i], arg)
      BY <3>1, <3>2, <3>3
    <3>6. QED BY <3>4, <3>5
  <2>3. i \in 1 .. n \/ i = n + 1
    BY <1>2
  <2>4. QED BY <2>1, <2>2, <2>3
<1>7. longer[1] = Cleared
  BY <1>2, <1>3, <1>4
<1>8. TraceOf(q, longer)
  BY <1>5, <1>6, <1>7 DEF TraceOf
<1>9. longer[Len(q) + 1] = next
  BY <1>2, <1>4
<1>10. QED BY <1>8, <1>9 DEF Gives, q, next

\* A longer straight program.
LEMMA StraightNext ==
  ASSUME NEW p, Straight(p), NEW step \in Step, step.opcode \in TypedOpcodes,
         step.opcode = "ASTO" => Composed(p, Len(p))
  PROVE  /\ Straight(Append(p, step)) /\ Len(Append(p, step)) = Len(p) + 1
         /\ Composed(Append(p, step), Len(p) + 1)
              <=> (Composed(p, Len(p)) \/ step.opcode = "ALPHA")
<1> DEFINE q == Append(p, step)
           n == Len(p)
<1>1. /\ q \in Seq(Step) /\ n \in Nat /\ Len(q) = n + 1 /\ q[n + 1] = step
      /\ \A i \in 1 .. n : q[i] = p[i]
  BY DEF Straight
<1> HIDE DEF q, n
<1>2. \A k \in 0 .. n : Composed(q, k) <=> Composed(p, k)
  <2> SUFFICES ASSUME NEW k \in 0 .. n PROVE Composed(q, k) <=> Composed(p, k)
    OBVIOUS
  <2>1. \A i \in 1 .. k : q[i] = p[i]
    BY <1>1
  <2>2. QED BY <2>1 DEF Composed
<1>3. Composed(q, n + 1) <=> (Composed(q, n) \/ step.opcode = "ALPHA")
  BY <1>1 DEF Composed
<1>4. ASSUME NEW i \in 1 .. Len(q)
      PROVE  q[i].opcode \in TypedOpcodes /\ (q[i].opcode = "ASTO" => Composed(q, i - 1))
  <2>1. CASE i \in 1 .. n
    <3>1. q[i] = p[i] /\ i - 1 \in 0 .. n
      BY <1>1, <2>1
    <3>2. p[i].opcode \in TypedOpcodes /\ (p[i].opcode = "ASTO" => Composed(p, i - 1))
      BY <2>1 DEF Straight, n
    <3>3. QED BY <1>2, <3>1, <3>2
  <2>2. CASE i = n + 1
    <3>1. q[i] = step /\ i - 1 = n /\ n \in 0 .. n
      BY <1>1, <2>2
    <3>2. QED BY <1>2, <3>1 DEF n
  <2>3. QED BY <1>1, <2>1, <2>2
<1>5. n \in 0 .. n BY <1>1
<1>6. QED BY <1>1, <1>2, <1>3, <1>4, <1>5 DEF Straight, q, n

-----------------------------------------------------------------------------
(* What the code does to its memory is what Effect says.                    *)

LEMMA TypedOpcodesApart ==
  /\ StackKeys \subseteq OpcodeKeys
  /\ StackKeys \cap {"NUMBER", "ALPHA", "STO", "RCL", "ASTO", "ARCL", "RTN", "XEQ", "GTO",
                      "END", "RUN_STOP", "FS_QUESTION_C"} = {}
  /\ OpcodeKeys \cap {"NUMBER", "ALPHA", "STO", "RCL", "ASTO", "ARCL"} = {}
  /\ StackKeys \cap ComparisonKeys = {}
  /\ TypedOpcodes \cap {"ARCL", "RTN", "XEQ", "GTO", "END", "RUN_STOP", "FS_QUESTION_C"} = {}
  /\ TypedOpcodes \cap ComparisonKeys = {}
BY DEF StackKeys, OpcodeKeys, ArithKeys, ComparisonKeys, TypedOpcodes

\* The machine typed on.
LEMMA TypedEffect ==
  ASSUME NEW step \in Step, step.opcode \in TypedOpcodes, NEW arg, NEW m \in Memory,
         m.storage = storage, step.opcode = "ASTO" => m.alpha = alpha
  PROVE  /\ Resolve(step) = Named(m, step)
         /\ StackAfter(step, arg, m.stack) = Effect(m, step, arg).stack
         /\ StorageAfter(step, arg, m.stack) = Effect(m, step, arg).storage
         /\ step.opcode # "ALPHA" => AlphaAfter(step, arg) = alpha
<1>1. Resolve(step) = Named(m, step)
  BY DEF Resolve, Named
<1>2. StackAfter(step, arg, m.stack) = StackThen(m, step, arg)
  <2>1. CASE step.opcode \in StackKeys
    BY <2>1, TypedOpcodesApart DEF StackAfter, StackThen
  <2>2. CASE step.opcode \notin StackKeys
    <3>1. step.opcode \notin OpcodeKeys
      BY <2>2, TypedOpcodesApart DEF TypedOpcodes
    <3>2. CASE step.opcode = "RCL"
      BY <2>2, <3>1, <3>2 DEF StackAfter, StackThen, Recalled, Held
    <3>3. CASE step.opcode # "RCL"
      BY <2>2, <3>1, <3>3 DEF StackAfter, StackThen
    <3>4. QED BY <3>2, <3>3
  <2>3. QED BY <2>1, <2>2
<1>3. StorageAfter(step, arg, m.stack) = StorageThen(m, step, arg)
  BY DEF StorageAfter, StorageThen
<1>4. step.opcode # "ALPHA" => AlphaAfter(step, arg) = alpha
  BY TypedOpcodesApart DEF AlphaAfter
<1>5. QED BY <1>1, <1>2, <1>3, <1>4 DEF Effect

\* The recorder, running.
LEMMA ReplayedEffect ==
  ASSUME NEW step \in Step, step.opcode \in TypedOpcodes, NEW arg, NEW m \in Memory,
         m.storage = r_storage, m.stack = r_stack, step.opcode = "ASTO" => m.alpha = r_alpha
  PROVE  /\ Recorder!Resolve(step) = Named(m, step)
         /\ Recorder!StackAfter(step, arg, r_stack) = Effect(m, step, arg).stack
         /\ Recorder!StorageAfter(step, arg, r_stack) = Effect(m, step, arg).storage
         /\ Recorder!AlphaAfter(step, arg) =
              IF step.opcode = "ALPHA" THEN Effect(m, step, arg).alpha ELSE r_alpha
<1>1. Recorder!Resolve(step) = Named(m, step)
  BY DEF Recorder!Resolve, Named, Registers, Recorder!Registers
<1>2. Recorder!StackAfter(step, arg, m.stack) = StackThen(m, step, arg)
  <2>1. CASE step.opcode \in StackKeys
    <3>1. Recorder!OpcodeStack(step.opcode, m.stack) = OpcodeStack(step.opcode, m.stack)
      BY DEF Recorder!OpcodeStack, OpcodeStack, Recorder!Push, Push, Recorder!Place, Place,
             Recorder!Lift, Lift, Recorder!Combine, Combine, Recorder!Result, Result,
             Recorder!ArithKeys, ArithKeys
    <3>2. Recorder!OpcodeKeys = OpcodeKeys
      BY DEF Recorder!OpcodeKeys, OpcodeKeys, Recorder!ArithKeys, ArithKeys,
             Recorder!ComparisonKeys, ComparisonKeys
    <3>3. QED BY <2>1, <3>1, <3>2, TypedOpcodesApart DEF Recorder!StackAfter, StackThen
  <2>2. CASE step.opcode \notin StackKeys
    <3>1. step.opcode \notin Recorder!OpcodeKeys
      BY <2>2, TypedOpcodesApart
         DEF TypedOpcodes, Recorder!OpcodeKeys, Recorder!ArithKeys, Recorder!ComparisonKeys
    <3>2. \A n : Recorder!Place(m.stack, n) = Place(m.stack, n)
      BY DEF Recorder!Place, Place, Recorder!Lift, Lift, Recorder!Push, Push
    <3>3. Recorder!Registers = Registers
      BY DEF Recorder!Registers, Registers
    <3>4. CASE step.opcode = "RCL"
      BY <2>2, <3>1, <3>2, <3>3, <3>4 DEF Recorder!StackAfter, StackThen, Recorder!Recalled, Held
    <3>5. CASE step.opcode # "RCL"
      BY <2>2, <3>1, <3>2, <3>5 DEF Recorder!StackAfter, StackThen
    <3>6. QED BY <3>4, <3>5
  <2>3. QED BY <2>1, <2>2
<1>3. Recorder!StorageAfter(step, arg, m.stack) = StorageThen(m, step, arg)
  BY DEF Recorder!StorageAfter, StorageThen, Recorder!Registers, Registers,
         Recorder!NumericRegister, NumericRegister, Recorder!PackedRegister, PackedRegister,
         Recorder!Pack, Pack
<1>4. Recorder!AlphaAfter(step, arg) =
        IF step.opcode = "ALPHA" THEN AlphaThen(m, step) ELSE r_alpha
  BY TypedOpcodesApart DEF Recorder!AlphaAfter, AlphaThen, Recorder!Truncate, Truncate
<1>5. QED BY <1>1, <1>2, <1>3, <1>4 DEF Effect

\* Memory stays memory.
LEMMA EffectType ==
  ASSUME NEW step \in Step, NEW arg \in Int, NEW m \in Memory
  PROVE  Effect(m, step, arg) \in Memory
<1>1. /\ m.stack \in Stack /\ m.storage \in [Registers -> Register]
      /\ m.alpha \in TextUpTo(ALPHA_BUFFER_LEN)
      /\ step.number \in Number /\ step.text \in Seq(Char)
      /\ ALPHA_BUFFER_LEN \in Nat
  BY LimitsAssumption DEF Memory, Step, TextUpTo
<1>2. StackThen(m, step, arg) \in Stack
  <2>1. arg \in Registers => Held(m, arg) \in Number
    BY <1>1, DataAssumption DEF Held, Register
  <2>2. \A n \in Number : Place(m.stack, n) \in Stack
    BY <1>1, PlaceType
  <2>3. step.opcode \in StackKeys => OpcodeStack(step.opcode, m.stack) \in Stack
    BY <1>1, OpcodeStackType, TypedOpcodesApart
  <2>4. QED BY <1>1, <2>1, <2>2, <2>3 DEF StackThen
<1>3. StorageThen(m, step, arg) \in [Registers -> Register]
  <2>1. NumericRegister(m.stack.x) \in Register
    BY <1>1 DEF NumericRegister, Register, Stack
  <2>2. Pack(m.alpha) \in [1 .. ALPHA_PACK_LEN -> Char]
    BY <1>1, DataAssumption DEF Pack, TextUpTo
  <2>3. PackedRegister(Pack(m.alpha)) \in Register
    BY <2>2 DEF PackedRegister, Register
  <2>4. QED BY <1>1, <2>1, <2>3 DEF StorageThen
<1>4. AlphaThen(m, step) \in TextUpTo(ALPHA_BUFFER_LEN)
  BY <1>1, TruncateType DEF AlphaThen
<1>5. QED BY <1>2, <1>3, <1>4 DEF Effect, Memory

LEMMA NamedType ==
  ASSUME NEW step \in Step, NEW m \in Memory
  PROVE  Named(m, step) \in SUBSET Int
<1>1. step.arg \in Int BY DEF Step
<1>2. ASSUME step.arg \in Registers, m.storage[step.arg].kind = "NUMERIC"
      PROVE  IntCasts(m.storage[step.arg].numeric) \in SUBSET Int
  <2>1. m.storage[step.arg].numeric \in Number
    BY <1>2 DEF Register, Memory
  <2>2. QED BY <2>1, DataAssumption
<1>3. QED BY <1>1, <1>2 DEF Named

\* A step has one effect, whichever int the cast of its pointer gives.
LEMMA OneEffect ==
  ASSUME NEW step \in Step, NEW m \in Memory, NEW a \in Named(m, step), NEW b \in Named(m, step)
  PROVE  Effect(m, step, a) = Effect(m, step, b)
<1>1. a = b \/ {a, b} \cap Registers = {}
  <2>1. CASE step.indirect /\ step.arg \in Registers /\ m.storage[step.arg].kind = "NUMERIC"
    <3>1. m.storage[step.arg].numeric \in Number
      BY <2>1 DEF Register, Memory
    <3>2. QED BY <2>1, <3>1, TwinAssumption DEF Named
  <2>2. CASE ~(step.indirect /\ step.arg \in Registers /\ m.storage[step.arg].kind = "NUMERIC")
    BY <2>2 DEF Named
  <2>3. QED BY <2>1, <2>2
<1>2. CASE a = b
  BY <1>2
<1>3. CASE a \notin Registers /\ b \notin Registers
  BY <1>3 DEF Effect, StackThen, StorageThen
<1>4. QED BY <1>1, <1>2, <1>3

-----------------------------------------------------------------------------
(* Typing.                                                                  *)

\* Stacks that agree but for X agree once a number has settled there.
LEMMA SettledAlike ==
  ASSUME NEW s \in Stack, NEW u \in Stack, NEW n \in Number,
         [s EXCEPT !.x = Zero] = [u EXCEPT !.x = Zero]
  PROVE  [s EXCEPT !.x = n] = [u EXCEPT !.x = n]
<1>1. \A v \in Stack : [v EXCEPT !.x = n] = [[v EXCEPT !.x = Zero] EXCEPT !.x = n]
  BY DEF Stack
<1>2. QED BY <1>1

\* An open number settles in X on the one calculator, and becomes a step on
\* the other.
LEMMA Settle ==
  ASSUME TypeOK, Typing
  PROVE  LET p == Recorder!FlushedProgram
         IN  /\ Straight(p) /\ Len(p) <= Len(r_program) + 1
             /\ Composed(p, Len(p)) <=> Composed(r_program, Len(r_program))
             /\ lift = "unused" =>
                  \E m \in Memory :
                     /\ Gives(p, m)
                     /\ storage = m.storage
                     /\ Composed(p, Len(p)) /\ ~alpha_mode => alpha = m.alpha
                     /\ Values(FlushedStack) = Values(m.stack)
                     /\ entry.active => stack.lift = FlushedStack.lift
                     /\ ~entry.active \/ stack.lift => FlushedStack = m.stack
<1> DEFINE p == Recorder!FlushedProgram
           number == NumberStep(Strtod(entry.buf))
<1>1. CASE ~entry.active
  <2>1. p = r_program /\ FlushedStack = stack
    BY <1>1 DEF Recorder!FlushedProgram, FlushedStack, Typing, InStep
  <2>2. Len(p) <= Len(r_program) + 1
    BY <2>1 DEF Typing, Straight
  <2>3. Straight(p)
    BY <2>1 DEF Typing
  <2>4. ASSUME NEW m, Follows(r_program, m)
        PROVE  /\ m \in Memory /\ stack = m.stack /\ storage = m.storage
               /\ Composed(p, Len(p)) /\ ~alpha_mode => alpha = m.alpha
    BY <1>1, <2>1, <2>4 DEF Follows
  <2>5. QED BY <1>1, <2>1, <2>2, <2>3, <2>4 DEF Typing
<1>2. CASE entry.active
  <2>1. Strtod(entry.buf) \in Number /\ stack \in Stack
    BY DataAssumption DEF TypeOK, InputsOK, RegistersOK
  <2>2. number \in Step /\ number.opcode = "NUMBER" /\ number.number = Strtod(entry.buf)
        /\ number.indirect = FALSE /\ number.arg = 0
    BY <2>1, StepTypes DEF NumberStep, ClearStep
  <2>3. p = Append(r_program, number)
    <3>1. Recorder!NumberStep(Strtod(entry.buf)) = number
      BY DEF Recorder!NumberStep, Recorder!ClearStep, NumberStep, ClearStep
    <3>2. QED BY <1>2, <3>1 DEF Recorder!FlushedProgram, Recorder!Record, Typing, InStep
  <2>4. /\ Straight(p) /\ Len(p) = Len(r_program) + 1
        /\ Composed(p, Len(p)) <=> Composed(r_program, Len(r_program))
    BY <2>2, <2>3, StraightNext DEF Typing, TypedOpcodes
  <2>5. FlushedStack = [stack EXCEPT !.x = Strtod(entry.buf)]
    BY <1>2 DEF FlushedStack, Typing, InStep
  <2>6. ASSUME lift = "unused", NEW m, Gives(r_program, m), Follows(r_program, m)
        PROVE  \E m1 \in Memory :
                 /\ Gives(p, m1)
                 /\ storage = m1.storage
                 /\ Composed(p, Len(p)) /\ ~alpha_mode => alpha = m1.alpha
                 /\ Values(FlushedStack) = Values(m1.stack)
                 /\ stack.lift = FlushedStack.lift
                 /\ stack.lift => FlushedStack = m1.stack
    <3> DEFINE m1 == Effect(m, number, 0)
               u  == Lift(m.stack)
               n  == Strtod(entry.buf)
    <3>1. m \in Memory /\ m.stack \in Stack /\ u \in Stack
      BY <2>6 DEF Follows, Memory, Lift, Push, Stack
    <3>2. 0 \in Named(m, number)
      BY <2>2 DEF Named
    <3>3. m1 \in Memory
      BY <2>2, <3>1, EffectType
    <3>4. Gives(p, m1)
      BY <2>2, <2>3, <2>6, <3>2, <3>3, GivesNext DEF Typing, Straight
    <3>5. /\ m1.storage = m.storage /\ m1.alpha = m.alpha
          /\ m1.stack = [u EXCEPT !.x = n, !.lift = TRUE]
      BY <2>2 DEF Effect, StackThen, StorageThen, AlphaThen, Place
    <3>6. [stack EXCEPT !.x = Zero] = [u EXCEPT !.x = Zero]
      BY <1>2, <2>6 DEF Follows
    <3>7. FlushedStack = [u EXCEPT !.x = n]
      BY <2>1, <2>5, <3>1, <3>6, SettledAlike
    <3>8. stack.lift = FlushedStack.lift
      BY <2>1, <2>5 DEF Stack
    <3>9. Values(FlushedStack) = Values(m1.stack)
      BY <3>1, <3>5, <3>7 DEF Values, Stack
    <3>10. stack.lift => FlushedStack = m1.stack
      BY <3>1, <3>5, <3>7, <3>8 DEF Stack
    <3>11. storage = m1.storage
      BY <2>6, <3>5 DEF Follows
    <3>12. Composed(p, Len(p)) /\ ~alpha_mode => alpha = m1.alpha
      BY <2>4, <2>6, <3>5 DEF Follows
    <3> HIDE DEF m1, p
    <3>13. QED BY <3>3, <3>4, <3>8, <3>9, <3>10, <3>11, <3>12
  <2>7. Len(p) <= Len(r_program) + 1
    BY <2>4 DEF Typing, Straight
  <2>8. QED BY <1>2, <2>4, <2>6, <2>7 DEF Typing
<1>3. QED BY <1>1, <1>2

\* A digit, a point, CHS within the number, or a backspace.
LEMMA NumberKeysType ==
  ASSUME TypeOK, Typing, NumberKeys, UNCHANGED lift
  PROVE  Typing'
<1>1. ASSUME NEW ch, NumberKey(ch), Recorder!NumberKey(ch)
      PROVE  Typing'
  <2>1. /\ entry' = [active |-> TRUE, buf |-> Typed(entry.buf, ch)]
        /\ r_entry' = entry'
    BY <1>1 DEF NumberKey, Recorder!NumberKey, Typing, InStep, Typed, Recorder!Typed,
                HasPoint, Recorder!HasPoint, BufferFull, Recorder!BufferFull,
                Point, Recorder!Point
  <2>2. /\ UNCHANGED <<calc_mode, alpha_mode, storage, alpha, pending, program_running>>
        /\ UNCHANGED <<r_calc_mode, r_alpha_mode, r_stack, r_storage, r_alpha, r_pending,
                       r_program, r_current_line, r_program_running>>
    BY <1>1 DEF NumberKey, Recorder!NumberKey, Typing, modes, code, loop,
                Recorder!modes, Recorder!code, Recorder!loop
  <2>3. ASSUME NEW m, Follows(r_program, m)
        PROVE  Follows(r_program, m)'
    <3> DEFINE begun == IF entry.active THEN stack ELSE Lift(stack)
    <3>1. m \in Memory /\ m.stack \in Stack /\ stack \in Stack
      BY <2>3 DEF Follows, Memory, TypeOK, RegistersOK
    <3>2. begun \in Stack /\ [begun EXCEPT !.x = Zero] = [Lift(m.stack) EXCEPT !.x = Zero]
      <4>1. CASE entry.active
        BY <2>3, <3>1, <4>1 DEF Follows
      <4>2. CASE ~entry.active
        BY <2>3, <3>1, <4>2 DEF Follows, Lift, Push, Stack
      <4>3. QED BY <4>1, <4>2
    <3>3. stack' = begun \/ \E n : stack' = [begun EXCEPT !.x = n]
      BY <1>1 DEF NumberKey, Typing, InStep
    <3>4. [stack' EXCEPT !.x = Zero] = [begun EXCEPT !.x = Zero]
      <4> HIDE DEF begun
      <4>1. QED BY <3>2, <3>3 DEF Stack
    <3>5. QED BY <2>1, <2>2, <2>3, <3>1, <3>2, <3>4 DEF Follows
  <2>4. QED BY <2>1, <2>2, <2>3 DEF Typing, InStep, Untouched
<1>2. CASE ToggleSignKey /\ Recorder!ToggleSignKey
  <2>1. /\ entry.active /\ entry' = [entry EXCEPT !.buf = Signed(entry.buf)]
        /\ r_entry' = entry'
    BY <1>2 DEF ToggleSignKey, Recorder!ToggleSignKey, Typing, InStep, Signed, Recorder!Signed,
                BufferFull, Recorder!BufferFull, Minus, Recorder!Minus
  <2>2. entry'.active
    BY <2>1 DEF TypeOK, InputsOK
  <2>3. /\ UNCHANGED <<calc_mode, alpha_mode, stack, storage, alpha, pending, program_running>>
        /\ UNCHANGED <<r_calc_mode, r_alpha_mode, r_stack, r_storage, r_alpha, r_pending,
                       r_program, r_current_line, r_program_running>>
    BY <1>2 DEF ToggleSignKey, Recorder!ToggleSignKey, modes, machine, registers, code, loop,
                Recorder!modes, Recorder!machine, Recorder!registers, Recorder!code, Recorder!loop
  <2>4. QED BY <2>1, <2>2, <2>3 DEF Typing, InStep, Untouched, Follows
<1>3. CASE BackspaceKey /\ Recorder!BackspaceKey
  <2>1. /\ UNCHANGED <<calc_mode, alpha_mode, stack, storage, pending, program_running>>
        /\ UNCHANGED <<r_calc_mode, r_alpha_mode, r_stack, r_storage, r_pending,
                       r_program, r_current_line, r_program_running>>
    BY <1>3 DEF BackspaceKey, Recorder!BackspaceKey, modes, code, loop,
                Recorder!modes, Recorder!code, Recorder!loop
  <2>2. CASE entry.active /\ entry.buf # <<>>
    <3>1. /\ entry' = [entry EXCEPT !.buf = Front(entry.buf)] /\ alpha' = alpha
          /\ r_entry' = entry' /\ r_alpha' = r_alpha
      BY <1>3, <2>2 DEF BackspaceKey, Recorder!BackspaceKey, Typing, InStep, Front,
                        Recorder!Front
    <3>2. entry'.active
      BY <2>2, <3>1 DEF TypeOK, InputsOK
    <3>3. QED BY <2>1, <2>2, <3>1, <3>2 DEF Typing, InStep, Untouched, Follows
  <2>3. CASE ~(entry.active /\ entry.buf # <<>>)
    <3>1. /\ alpha_mode /\ alpha # <<>> /\ alpha' = Front(alpha) /\ entry' = entry
          /\ r_alpha' = alpha' /\ r_entry' = r_entry
      BY <1>3, <2>3 DEF BackspaceKey, Recorder!BackspaceKey, Typing, InStep, Front,
                        Recorder!Front
    <3>2. Len(alpha') < ALPHA_BUFFER_LEN
      <4>1. alpha \in Seq(Char)
        BY DEF TypeOK, RegistersOK, TextUpTo
      <4>2. Len(alpha') = Len(alpha) - 1 /\ Len(alpha) \in Nat
        BY <3>1, <4>1, FrontType
      <4>3. QED BY <4>2, LimitsAssumption DEF Typing
    <3>3. QED BY <2>1, <3>1, <3>2 DEF Typing, InStep, Untouched, Follows
  <2>4. QED BY <2>2, <2>3
<1>4. QED BY <1>1, <1>2, <1>3 DEF NumberKeys, Point

\* A text that fits is kept whole.
LEMMA TruncateWhole ==
  ASSUME NEW text \in Seq(Char), NEW n \in Nat, Len(text) <= n
  PROVE  Truncate(text, n) = text
<1>1. (IF Len(text) < n THEN Len(text) ELSE n) = Len(text)
  OBVIOUS
<1>2. SubSeq(text, 1, Len(text)) = text
  OBVIOUS
<1>3. QED BY <1>1, <1>2 DEF Truncate

\* A step that both record and execute leads on from the memory it acts on.
LEMMA GivesTyped ==
  ASSUME NEW p, Straight(p), NEW m \in Memory, Gives(p, m), NEW step \in Step,
         step.opcode \in TypedOpcodes, step.opcode = "ASTO" => Composed(p, Len(p)),
         NEW arg \in Named(m, step)
  PROVE  /\ Effect(m, step, arg) \in Memory
         /\ Gives(Append(p, step), Effect(m, step, arg))
<1>1. arg \in Int
  BY NamedType
<1>2. Effect(m, step, arg) \in Memory
  BY <1>1, EffectType
<1>3. QED BY <1>2, GivesNext DEF Straight

\* ALPHA, which records the text when it closes it, and the characters.
LEMMA TextKeysType ==
  ASSUME TypeOK, Typing, Room, TextKeys, UNCHANGED lift
  PROVE  Typing'
<1>1. /\ alpha \in Seq(Char) /\ ALPHA_BUFFER_LEN \in Nat /\ ALPHA_BUFFER_LEN - 1 \in Nat
      /\ Len(alpha) <= ALPHA_BUFFER_LEN - 1 /\ Len(alpha) < ALPHA_BUFFER_LEN
  BY LimitsAssumption DEF TypeOK, RegistersOK, TextUpTo, Typing
<1>2. CASE AlphaKey /\ Recorder!AlphaKey
  <2>1. /\ alpha_mode' = ~alpha_mode /\ r_alpha_mode' = ~alpha_mode
        /\ UNCHANGED <<calc_mode, stack, storage, alpha, entry, pending, program_running>>
        /\ UNCHANGED <<r_calc_mode, r_stack, r_storage, r_alpha, r_entry, r_pending,
                       r_current_line, r_program_running>>
    BY <1>2 DEF AlphaKey, Recorder!AlphaKey, Typing, InStep, machine, registers, inputs, loop,
                Recorder!machine, Recorder!registers, Recorder!inputs, Recorder!loop
  <2>2. CASE ~alpha_mode
    <3>1. r_program' = r_program
      BY <1>2, <2>2 DEF Recorder!AlphaKey, Typing, InStep
    <3>2. QED BY <2>1, <2>2, <3>1 DEF Typing, InStep, Untouched, Follows
  <2>3. CASE alpha_mode
    <3> DEFINE step == TextStep(alpha)
               q    == Append(r_program, step)
    <3>1. /\ step \in Step /\ step.opcode = "ALPHA" /\ step.text = alpha
          /\ step.indirect = FALSE /\ step.arg = 0
      BY <1>1, StepTypes DEF TextStep, ClearStep, TextUpTo
    <3>2. r_program' = q
      <4>1. Truncate(alpha, ALPHA_BUFFER_LEN - 1) = alpha
        BY <1>1, TruncateWhole
      <4>2. Recorder!TextToRecord = alpha
        BY <4>1 DEF Recorder!TextToRecord, Recorder!Truncate, Truncate, Typing, InStep
      <4>3. Recorder!TextStep(alpha) = step
        BY DEF Recorder!TextStep, Recorder!ClearStep, TextStep, ClearStep
      <4>4. QED BY <1>2, <2>3, <4>2, <4>3 DEF Recorder!AlphaKey, Recorder!Record, Typing, InStep
    <3>3. Straight(q) /\ Len(q) = Len(r_program) + 1
      BY <3>1, StraightNext DEF Typing, TypedOpcodes
    <3>4. ASSUME NEW m, Gives(r_program, m), Follows(r_program, m)
          PROVE  \E m1 : Gives(q, m1) /\ Follows(r_program, m1)'
      <4>0. PICK m1 : m1 = Effect(m, step, 0)
        OBVIOUS
      <4>1. 0 \in Named(m, step) /\ m \in Memory
        BY <3>1, <3>4 DEF Named, Follows
      <4>2. m1 \in Memory /\ Gives(q, m1)
        BY <3>1, <3>4, <4>0, <4>1, GivesTyped DEF Typing, TypedOpcodes
      <4>3. m1.stack = m.stack /\ m1.storage = m.storage
        BY <3>1, <4>0, TypedOpcodesApart DEF Effect, StackThen, StorageThen
      <4>4. m1.alpha = alpha
        BY <1>1, <3>1, <4>0, TruncateWhole DEF Effect, AlphaThen
      <4>5. /\ storage = m.storage
            /\ IF entry.active THEN [stack EXCEPT !.x = Zero] = [Lift(m.stack) EXCEPT !.x = Zero]
                               ELSE stack = m.stack
        BY <3>4 DEF Follows
      <4>6. Follows(r_program, m1)'
        BY <2>1, <4>2, <4>3, <4>4, <4>5 DEF Follows
      <4>7. QED BY <4>2, <4>6
    <3>5. Len(q) < PROGRAM_MAX_LINES
      BY <3>3, LimitsAssumption DEF Room, Typing, Straight
    <3>6. QED BY <2>1, <3>2, <3>3, <3>4, <3>5 DEF Typing, InStep, Untouched
  <2>4. QED BY <2>2, <2>3
<1>3. ASSUME alpha_mode, Len(alpha) + 1 < ALPHA_BUFFER_LEN, NEW ch \in CharsUsed,
             AlphaCharKey(ch), Recorder!AlphaCharKey(ch)
      PROVE  Typing'
  <2>1. Append(alpha, ch) \in Seq(Char) /\ Len(Append(alpha, ch)) < ALPHA_BUFFER_LEN
    BY <1>1, <1>3, InputsAssumption
  <2>2. Truncate(Append(alpha, ch), ALPHA_BUFFER_LEN) = Append(alpha, ch)
    <3>1. Len(Append(alpha, ch)) <= ALPHA_BUFFER_LEN
      BY <1>1, <2>1
    <3>2. QED BY <1>1, <2>1, <3>1, TruncateWhole
  <2>3. alpha' = Append(alpha, ch) /\ r_alpha' = alpha'
    BY <1>3, <2>2 DEF AlphaCharKey, Recorder!AlphaCharKey, Recorder!Truncate, Truncate,
                      Typing, InStep
  <2>4. /\ UNCHANGED <<calc_mode, alpha_mode, stack, storage, entry, pending, program_running>>
        /\ UNCHANGED <<r_calc_mode, r_alpha_mode, r_stack, r_storage, r_entry, r_pending,
                       r_program, r_current_line, r_program_running>>
    BY <1>3 DEF AlphaCharKey, Recorder!AlphaCharKey, modes, inputs, code, loop,
                Recorder!modes, Recorder!inputs, Recorder!code, Recorder!loop
  <2>5. QED BY <1>3, <2>1, <2>3, <2>4 DEF Typing, InStep, Untouched, Follows
<1>4. QED BY <1>2, <1>3 DEF TextKeys

\* An argument: its digits are the same on both, and the last of them executes
\* the instruction here and records it there.
LEMMA ArgumentKeysType ==
  ASSUME TypeOK, OneEntryAtATime, Typing, Room, ArgumentKeys, UNCHANGED lift
  PROVE  Typing'
<1>1. CASE IndKey /\ Recorder!IndKey
  <2>1. /\ pending' = [pending EXCEPT !.indirect = TRUE] /\ r_pending' = pending'
        /\ UNCHANGED <<calc_mode, alpha_mode, stack, storage, alpha, entry, program_running>>
        /\ UNCHANGED <<r_calc_mode, r_alpha_mode, r_stack, r_storage, r_alpha, r_entry,
                       r_program, r_current_line, r_program_running>>
    BY <1>1 DEF IndKey, Recorder!IndKey, modes, machine, registers, code, loop, Typing, InStep,
                Recorder!modes, Recorder!machine, Recorder!registers, Recorder!code, Recorder!loop
  <2>2. pending'.key = pending.key /\ pending'.active = pending.active
    BY <2>1 DEF TypeOK, InputsOK
  <2>3. QED BY <2>1, <2>2 DEF Typing, InStep, Untouched, Follows
<1>2. ASSUME NEW d, ArgumentDigitKey(d), Recorder!ArgumentDigitKey(d)
      PROVE  Typing'
  <2>1. /\ pending' = [pending EXCEPT !.digits = Append(pending.digits, d)]
        /\ r_pending' = pending'
        /\ UNCHANGED <<calc_mode, alpha_mode, stack, storage, alpha, entry, program_running>>
        /\ UNCHANGED <<r_calc_mode, r_alpha_mode, r_stack, r_storage, r_alpha, r_entry,
                       r_program, r_current_line, r_program_running>>
    BY <1>2 DEF ArgumentDigitKey, Recorder!ArgumentDigitKey, modes, machine, registers, code,
                loop, Typing, InStep, Recorder!modes, Recorder!machine, Recorder!registers,
                Recorder!code, Recorder!loop
  <2>2. pending'.key = pending.key /\ pending'.active = pending.active
    BY <2>1 DEF TypeOK, InputsOK
  <2>3. QED BY <2>1, <2>2 DEF Typing, InStep, Untouched, Follows
<1>3. ASSUME NEW key, ArgumentAbortKey(key), Recorder!ArgumentAbortKey(key)
      PROVE  Typing'
  <2>1. /\ pending' = NoPending /\ r_pending' = NoPending
        /\ UNCHANGED <<calc_mode, alpha_mode, stack, storage, alpha, entry, program_running>>
        /\ UNCHANGED <<r_calc_mode, r_alpha_mode, r_stack, r_storage, r_alpha, r_entry,
                       r_program, r_current_line, r_program_running>>
    BY <1>3 DEF ArgumentAbortKey, Recorder!ArgumentAbortKey, ArgumentEnded, NoPending,
                Recorder!ArgumentEnded, Recorder!NoPending, modes, machine, registers, code,
                loop, Typing, InStep, Recorder!modes, Recorder!machine, Recorder!registers,
                Recorder!code, Recorder!loop
  <2>2. ~pending'.active
    BY <2>1 DEF NoPending
  <2>3. QED BY <2>1, <2>2 DEF Typing, InStep, Untouched, Follows
<1>4. ASSUME NEW d \in DigitsUsed, pending.key = "ASTO" => TextIsRecorded,
             LastArgumentDigitKey(d), Recorder!LastArgumentDigitKey(d)
      PROVE  Typing'
  <2> DEFINE value == ArgumentValue(Append(pending.digits, d))
             step  == OpcodeStep(pending.key, value, pending.indirect)
             q     == Append(r_program, step)
  <2>1. pending.active /\ pending.key \in {"STO", "RCL", "ASTO"} /\ ~entry.active
    BY <1>4 DEF LastArgumentDigitKey, Typing, OneEntryAtATime
  <2>2. value \in Int
    BY InputsAssumption, ArgumentValueType DEF TypeOK, InputsOK
  <2>3. step \in Step /\ step.opcode = pending.key
    <3>1. pending.key \in ArgKeys /\ pending.indirect \in BOOLEAN
      BY <2>1 DEF TypeOK, InputsOK
    <3>2. QED BY <2>2, <3>1, StepTypes DEF OpcodeStep, ClearStep
  <2>4. step.opcode \in TypedOpcodes /\ step.opcode # "ALPHA"
    BY <2>1, <2>3 DEF TypedOpcodes
  <2>5. step.opcode = "ASTO" => ~alpha_mode /\ Composed(r_program, Len(r_program))
    BY <1>4, <2>3 DEF TextIsRecorded, Composed, Typing, Straight
  <2>6. /\ Straight(q) /\ Len(q) = Len(r_program) + 1
        /\ Composed(q, Len(q)) <=> Composed(r_program, Len(r_program))
    BY <2>3, <2>4, <2>5, StraightNext DEF Typing
  <2>7. /\ UNCHANGED <<calc_mode, alpha_mode, entry, program_running>>
        /\ UNCHANGED <<r_calc_mode, r_alpha_mode, r_entry, r_program_running>>
        /\ pending' = NoPending /\ r_pending' = NoPending
    BY <1>4 DEF LastArgumentDigitKey, Recorder!LastArgumentDigitKey, ArgumentEnded, NoPending,
                Recorder!ArgumentEnded, Recorder!NoPending, modes, loop,
                Recorder!modes, Recorder!loop
  <2>8. /\ r_program' = q
        /\ UNCHANGED <<r_stack, r_storage, r_alpha, r_current_line>>
    <3>1. Recorder!OpcodeStep(r_pending.key,
             Recorder!ArgumentValue(Append(r_pending.digits, d)), r_pending.indirect) = step
      BY DEF Recorder!OpcodeStep, Recorder!ClearStep, Recorder!ArgumentValue, OpcodeStep,
             ClearStep, ArgumentValue, Typing, InStep
    <3>2. Recorder!CommitRecords(step, r_stack, r_program)
      BY <1>4, <3>1 DEF Recorder!LastArgumentDigitKey, Recorder!Commit,
                        Recorder!CommitExecutes, Typing
    <3>3. QED BY <3>2 DEF Recorder!CommitRecords, Recorder!Record, Typing
  <2>9. \E arg \in Resolve(step) : Execute(step, arg, current_line, stack)
    <3>1. CommitExecutes(step, stack, program)
      BY <1>4 DEF LastArgumentDigitKey, Commit, CommitRecords, Typing, InStep
    <3>2. QED BY <3>1 DEF CommitExecutes
  <2>10. alpha' = alpha
    BY <2>4, <2>9, TypedOpcodesApart DEF Execute, AlphaAfter
  <2>11. ASSUME NEW m, Gives(r_program, m), Follows(r_program, m)
         PROVE  \E m1 : Gives(q, m1) /\ Follows(r_program, m1)'
    <3>1. m \in Memory /\ storage = m.storage /\ stack = m.stack
      BY <2>1, <2>11 DEF Follows
    <3>2. step.opcode = "ASTO" => m.alpha = alpha
      BY <2>5, <2>11 DEF Follows
    <3>3. PICK arg \in Named(m, step) : Execute(step, arg, current_line, m.stack)
      BY <2>3, <2>4, <2>9, <3>1, <3>2, TypedEffect
    <3>0. PICK m1 : m1 = Effect(m, step, arg)
      OBVIOUS
    <3>4. m1 \in Memory /\ Gives(q, m1)
      BY <2>3, <2>4, <2>5, <2>11, <3>0, <3>1, GivesTyped DEF Typing
    <3>5. stack' = m1.stack /\ storage' = m1.storage
      BY <2>3, <2>4, <3>0, <3>1, <3>2, <3>3, TypedEffect DEF Execute
    <3>6. m1.alpha = m.alpha
      BY <2>4, <3>0 DEF Effect, AlphaThen
    <3>7. Composed(q, Len(q)) /\ ~alpha_mode => alpha = m1.alpha
      BY <2>6, <2>11, <3>6 DEF Follows
    <3>8. Follows(r_program, m1)'
      BY <2>1, <2>7, <2>8, <2>10, <3>4, <3>5, <3>7 DEF Follows
    <3>9. QED BY <3>4, <3>8
  <2>12. Len(q) < PROGRAM_MAX_LINES
    BY <2>6, LimitsAssumption DEF Room, Typing, Straight
  <2>13. ~pending'.active
    BY <2>7 DEF NoPending
  <2> HIDE DEF q
  <2>14. QED BY <2>6, <2>7, <2>8, <2>10, <2>11, <2>12, <2>13 DEF Typing, InStep, Untouched
<1>5. QED BY <1>1, <1>2, <1>3, <1>4 DEF ArgumentKeys

\* A key that settles gives the same from two stacks that differ in lift only.
LEMMA SettlingAlike ==
  ASSUME NEW s \in Stack, NEW u \in Stack, Values(s) = Values(u), NEW key \in Settling
  PROVE  OpcodeStack(key, s) = OpcodeStack(key, u)
<1>1. /\ s.x = u.x /\ s.y = u.y /\ s.z = u.z /\ s.t = u.t /\ s.lastx = u.lastx
      /\ \A b : [s EXCEPT !.lift = b] = [u EXCEPT !.lift = b]
  <2>1. /\ Values(s).x = s.x /\ Values(s).y = s.y /\ Values(s).z = s.z
        /\ Values(s).t = s.t /\ Values(s).lastx = s.lastx
        /\ Values(u).x = u.x /\ Values(u).y = u.y /\ Values(u).z = u.z
        /\ Values(u).t = u.t /\ Values(u).lastx = u.lastx
    BY DEF Values, Stack
  <2>2. QED BY <2>1 DEF Stack
<1>2. CASE key \in ArithKeys
  <2>1. OpcodeStack(key, s) = Combine(s, Result(key, s.y, s.x))
    BY <1>2 DEF OpcodeStack, ArithKeys
  <2>2. OpcodeStack(key, u) = Combine(u, Result(key, u.y, u.x))
    BY <1>2 DEF OpcodeStack, ArithKeys
  <2>3. \A r : Combine(s, r) = Combine(u, r)
    BY <1>1 DEF Combine, Stack
  <2>4. QED BY <1>1, <2>1, <2>2, <2>3
<1>3. CASE key = "ENTER"
  BY <1>1, <1>3 DEF OpcodeStack, Push, ArithKeys, Stack
<1>4. CASE key = "CLX"
  BY <1>1, <1>4 DEF OpcodeStack, ArithKeys, Stack
<1>5. QED BY <1>2, <1>3, <1>4 DEF Settling

\* What keeps lift unused has left nothing behind that lift could show.
LEMMA StillUnused ==
  ASSUME NEW key, lift' = LiftAfter(key), lift' = "unused"
  PROVE  lift = "unused" /\ (~entry.active \/ stack.lift \/ key \in Settling)
BY DEF LiftAfter

\* An instruction: it closes the number on both, and executes here what is
\* recorded there.
LEMMA InstructionKeysType ==
  ASSUME TypeOK, Typing, Room, NEW key, InstructionKeys(key), lift' = LiftAfter(key)
  PROVE  Typing'
<1> DEFINE p == Recorder!FlushedProgram
<1>1. /\ Straight(p) /\ Len(p) <= Len(r_program) + 1
      /\ Composed(p, Len(p)) <=> Composed(r_program, Len(r_program))
  BY Settle
<1>2. Len(p) + 1 < PROGRAM_MAX_LINES /\ Len(p) \in Nat
  BY <1>1, LimitsAssumption DEF Room, Typing, Straight
<1>3. ASSUME lift' = "unused"
      PROVE  \E m \in Memory :
               /\ Gives(p, m)
               /\ storage = m.storage
               /\ Composed(p, Len(p)) /\ ~alpha_mode => alpha = m.alpha
               /\ Values(FlushedStack) = Values(m.stack)
               /\ key \notin Settling => FlushedStack = m.stack
  <2>1. lift = "unused" /\ (~entry.active \/ stack.lift \/ key \in Settling)
    BY <1>3, StillUnused
  <2>2. QED BY <2>1, Settle
<1> HIDE DEF p
<1>4. CASE key \in {"STO", "RCL", "ASTO"} /\ ArgumentKey(key) /\ Recorder!ArgumentKey(key)
  <2>1. /\ stack' = FlushedStack /\ entry' = NoEntry
        /\ pending' = [pending EXCEPT !.active = TRUE, !.key = key, !.digits = <<>>]
        /\ UNCHANGED <<calc_mode, alpha_mode, storage, alpha, program_running>>
    BY <1>4 DEF ArgumentKey, EntryClosed, modes, loop
  <2>2. /\ r_stack' = r_stack /\ r_program' = p /\ r_entry' = entry' /\ r_pending' = pending'
        /\ UNCHANGED <<r_calc_mode, r_alpha_mode, r_storage, r_alpha, r_current_line,
                       r_program_running>>
    BY <1>4, <2>1 DEF Recorder!ArgumentKey, Recorder!EntryClosed, Recorder!NoEntry, NoEntry,
                      Recorder!FlushedStack, Recorder!modes, Recorder!loop, Typing, InStep, p
  <2>3. pending'.active => pending'.key \in {"STO", "RCL", "ASTO"}
    BY <1>4, <2>1 DEF TypeOK, InputsOK
  <2>4. ASSUME lift' = "unused"
        PROVE  \E m : Gives(p, m) /\ Follows(r_program, m)'
    <3>1. key \notin Settling
      BY <1>4 DEF Settling, ArithKeys
    <3>2. PICK m \in Memory :
             /\ Gives(p, m)
             /\ storage = m.storage
             /\ Composed(p, Len(p)) /\ ~alpha_mode => alpha = m.alpha
             /\ FlushedStack = m.stack
      BY <1>3, <2>4, <3>1
    <3>3. Follows(r_program, m)'
      BY <2>1, <2>2, <3>2 DEF Follows, NoEntry
    <3>4. QED BY <3>2, <3>3
  <2>5. Len(p) < PROGRAM_MAX_LINES
    BY <1>2, LimitsAssumption
  <2>6. QED BY <1>1, <2>1, <2>2, <2>3, <2>4, <2>5 DEF Typing, InStep, Untouched
<1>5. CASE key \in StackKeys /\ OpcodeKey(key) /\ Recorder!OpcodeKey(key)
  <2> DEFINE step == OpcodeStep(key, 0, FALSE)
             q    == Append(p, step)
  <2>1. /\ step \in Step /\ step.opcode = key /\ step.indirect = FALSE /\ step.arg = 0
        /\ key \in TypedOpcodes /\ key \notin {"ALPHA", "ASTO", "STO", "RCL", "NUMBER"}
        /\ key \in OpcodeKeys
    <3>1. key \in OpcodeKeys
      BY <1>5, TypedOpcodesApart
    <3>2. step \in Step
      <4>1. 0 \in Int /\ FALSE \in BOOLEAN
        OBVIOUS
      <4>2. QED BY <3>1, <4>1, StepTypes
    <3>3. QED BY <1>5, <3>1, <3>2, TypedOpcodesApart DEF OpcodeStep, ClearStep, TypedOpcodes
  <2>2. /\ Straight(q) /\ Len(q) = Len(p) + 1
        /\ Composed(q, Len(q)) <=> Composed(p, Len(p))
    BY <1>1, <2>1, StraightNext
  <2>3. /\ entry' = NoEntry
        /\ UNCHANGED <<calc_mode, alpha_mode, pending, program_running>>
        /\ r_entry' = NoEntry
        /\ UNCHANGED <<r_calc_mode, r_alpha_mode, r_pending, r_program_running>>
    BY <1>5 DEF OpcodeKey, Recorder!OpcodeKey, EntryClosed, NoEntry, Recorder!EntryClosed,
                Recorder!NoEntry, modes, loop, Recorder!modes, Recorder!loop
  <2>4. /\ r_program' = q
        /\ UNCHANGED <<r_stack, r_storage, r_alpha, r_current_line>>
    <3>1. Recorder!OpcodeStep(key, 0, FALSE) = step
      BY DEF Recorder!OpcodeStep, Recorder!ClearStep, OpcodeStep, ClearStep
    <3>2. Recorder!CommitRecords(step, Recorder!FlushedStack, p)
      BY <1>5, <3>1 DEF Recorder!OpcodeKey, Recorder!Commit, Recorder!CommitExecutes, Typing, p
    <3>3. Recorder!FlushedStack = r_stack
      BY DEF Recorder!FlushedStack, Typing
    <3>4. Len(p) < PROGRAM_MAX_LINES
      BY <1>2, LimitsAssumption
    <3>5. QED BY <3>2, <3>3, <3>4 DEF Recorder!CommitRecords, Recorder!Record
  <2>5. Execute(step, 0, current_line, FlushedStack)
    <3>1. CommitExecutes(step, FlushedStack, FlushedProgram)
      BY <1>5 DEF OpcodeKey, Commit, CommitRecords, Typing, InStep
    <3>2. Resolve(step) = {0}
      BY <2>1 DEF Resolve
    <3>3. QED BY <3>1, <3>2 DEF CommitExecutes
  <2>6. stack' = OpcodeStack(key, FlushedStack) /\ storage' = storage /\ alpha' = alpha
    <3>1. StackAfter(step, 0, FlushedStack) = OpcodeStack(key, FlushedStack)
      BY <2>1 DEF StackAfter
    <3>2. StorageAfter(step, 0, FlushedStack) = storage
      BY <2>1 DEF StorageAfter
    <3>3. AlphaAfter(step, 0) = alpha
      BY <1>5, <2>1, TypedOpcodesApart DEF AlphaAfter
    <3>4. QED BY <2>5, <3>1, <3>2, <3>3 DEF Execute
  <2>7. ASSUME lift' = "unused"
        PROVE  \E m1 : Gives(q, m1) /\ Follows(r_program, m1)'
    <3>1. PICK m \in Memory :
             /\ Gives(p, m)
             /\ storage = m.storage
             /\ Composed(p, Len(p)) /\ ~alpha_mode => alpha = m.alpha
             /\ Values(FlushedStack) = Values(m.stack)
             /\ key \notin Settling => FlushedStack = m.stack
      BY <1>3, <2>7
    <3>2. PICK m1 : m1 = Effect(m, step, 0)
      OBVIOUS
    <3>3. 0 \in Named(m, step)
      BY <2>1 DEF Named
    <3>4. m1 \in Memory /\ Gives(q, m1)
      BY <1>1, <2>1, <3>1, <3>2, <3>3, GivesTyped
    <3>5. /\ m1.stack = OpcodeStack(key, m.stack)
          /\ m1.storage = m.storage /\ m1.alpha = m.alpha
      BY <1>5, <2>1, <3>2 DEF Effect, StackThen, StorageThen, AlphaThen
    <3>6. OpcodeStack(key, FlushedStack) = OpcodeStack(key, m.stack)
      <4>1. FlushedStack \in Stack /\ m.stack \in Stack
        BY <3>1, FlushType DEF Memory
      <4>2. QED BY <3>1, <4>1, SettlingAlike
    <3>7. Composed(q, Len(q)) /\ ~alpha_mode => alpha = m1.alpha
      BY <2>2, <3>1, <3>5
    <3> HIDE DEF q
    <3>8. Follows(r_program, m1)'
      BY <2>3, <2>4, <2>6, <3>1, <3>4, <3>5, <3>6, <3>7 DEF Follows, NoEntry
    <3>9. QED BY <3>4, <3>8
  <2>8. Len(q) < PROGRAM_MAX_LINES
    BY <1>2, <2>2
  <2> HIDE DEF q
  <2>9. QED BY <2>2, <2>3, <2>4, <2>6, <2>7, <2>8 DEF Typing, InStep, Untouched
<1>6. QED BY <1>4, <1>5 DEF InstructionKeys

-----------------------------------------------------------------------------
(* The other steps of the twins.                                            *)

\* The memory the recorder starts from, and its empty program.
LEMMA StartingType ==
  ASSUME Init, Recorder!Init
  PROVE  /\ InStep /\ Untouched
         /\ Straight(r_program) /\ Len(r_program) = 0
         /\ Len(alpha) < ALPHA_BUFFER_LEN
         /\ ~pending.active /\ ~entry.active /\ ~alpha_mode
         /\ r_calc_mode = "RUN"
         /\ Gives(r_program, Cleared) /\ Follows(r_program, Cleared)
<1>1. /\ Len(<<>>) = 0 /\ 0 < ALPHA_BUFFER_LEN
      /\ <<>> \in Seq(Step)
  BY LimitsAssumption
<1>2. r_program = <<>> /\ ~entry.active
  BY DEF Recorder!Init, Init, NoEntry
<1>3. InStep
  BY DEF InStep, Init, Recorder!Init, NoEntry, Recorder!NoEntry, NoPending, Recorder!NoPending
<1>4. Untouched
  BY DEF Untouched, Recorder!Init, Recorder!ClearStack, ClearStack, Recorder!Registers,
         Registers, Recorder!NumericRegister, NumericRegister
<1>5. Straight(r_program)
  BY <1>1, <1>2 DEF Straight
<1>6. Gives(r_program, Cleared)
  BY <1>2, GivesNothing
<1>7. Follows(r_program, Cleared)
  BY <1>2, ClearedType DEF Follows, Init, Cleared
<1>8. QED
  BY <1>1, <1>2, <1>3, <1>4, <1>5, <1>6, <1>7 DEF Init, NoPending, Recorder!Init

LEMMA StartRecordingType ==
  ASSUME Init, Recorder!Init, lift = "unused", StartRecording
  PROVE  Typing'
<1>1. /\ UNCHANGED <<vars, lift>> /\ r_program' = r_program /\ r_stack' = r_stack
      /\ r_entry' = r_entry /\ r_calc_mode' = "PRGM"
      /\ UNCHANGED <<r_alpha_mode, r_storage, r_alpha, r_pending, r_current_line,
                     r_program_running>>
  BY DEF StartRecording, Recorder!PrgmKey, Recorder!FlushedProgram, Recorder!FlushedStack,
         Recorder!EntryClosed, Recorder!NoEntry, Recorder!Init, Recorder!loop
<1>2. 0 < PROGRAM_MAX_LINES
  BY LimitsAssumption
<1>3. /\ (Gives(r_program, Cleared) /\ Follows(r_program, Cleared))'
      /\ InStep' /\ Untouched' /\ Straight(r_program)' /\ (Len(r_program) = 0)'
      /\ (Len(alpha) < ALPHA_BUFFER_LEN)' /\ (~pending.active)'
  BY <1>1, StartingType DEF vars, Follows, InStep, Untouched
<1>4. QED BY <1>1, <1>2, <1>3 DEF Typing

LEMMA TypeType ==
  ASSUME TypeOK, OneEntryAtATime, Typing, Type
  PROVE  Typing'
<1>1. CASE (NumberKeys \/ TextKeys \/ ArgumentKeys) /\ UNCHANGED lift
  BY <1>1, NumberKeysType, TextKeysType, ArgumentKeysType DEF Type
<1>2. CASE \E key \in KeysUsed : InstructionKeys(key) /\ lift' = LiftAfter(key)
  BY <1>2, InstructionKeysType DEF Type
<1>3. QED BY <1>1, <1>2 DEF Type

\* Closing the open number completes the recording.
LEMMA SettledRecording ==
  ASSUME TypeOK, Typing, ~alpha_mode, r_program' = Recorder!FlushedProgram,
         UNCHANGED <<vars, lift, r_stack, r_storage, r_alpha>>
  PROVE  Recorded'
<1> DEFINE p == Recorder!FlushedProgram
<1>1. UNCHANGED <<vars, lift>> /\ r_program' = p /\ ~alpha_mode
  OBVIOUS
<1>2. /\ Straight(p) /\ Len(p) <= Len(r_program) + 1
      /\ lift = "unused" =>
           \E m \in Memory :
              /\ Gives(p, m)
              /\ storage = m.storage
              /\ Composed(p, Len(p)) /\ ~alpha_mode => alpha = m.alpha
              /\ Values(FlushedStack) = Values(m.stack)
  BY Settle
<1> HIDE DEF p
<1>3. Len(p) <= PROGRAM_MAX_LINES
  BY <1>2, LimitsAssumption DEF Typing, Straight
<1>4. (Values(FlushedStack))' = Values(FlushedStack)
  BY <1>1 DEF vars, Values, FlushedStack
<1>5. ASSUME lift = "unused"
      PROVE  \E m : Gives(p, m) /\ Matches(m)'
  <2>1. PICK m \in Memory :
           /\ Gives(p, m)
           /\ storage = m.storage
           /\ Composed(p, Len(p)) /\ ~alpha_mode => alpha = m.alpha
           /\ Values(FlushedStack) = Values(m.stack)
    BY <1>2, <1>5
  <2>2. Matches(m)'
    BY <1>1, <1>4, <2>1 DEF vars, Matches
  <2>3. QED BY <2>1, <2>2
<1>6. QED BY <1>1, <1>2, <1>3, <1>5 DEF Recorded, Untouched, Typing, InStep, vars

LEMMA StopRecordingType ==
  ASSUME TypeOK, Typing, StopRecording
  PROVE  Closed'
<1>1. /\ UNCHANGED <<vars, lift>> /\ r_program' = Recorder!FlushedProgram
      /\ r_stack' = r_stack /\ r_entry' = NoEntry /\ ~alpha_mode
      /\ UNCHANGED <<r_storage, r_alpha, r_current_line, r_program_running>>
  BY DEF StopRecording, OnlyNumberOpen, Recorder!PrgmKey, Recorder!FlushedStack,
         Recorder!EntryClosed, Recorder!NoEntry, NoEntry, Recorder!loop, Typing
<1>2. Recorded'
  BY <1>1, SettledRecording
<1>3. QED BY <1>1, <1>2 DEF Closed, Untouched, Typing

\* At the first line of a run the trace is at its beginning.
AtFirstLine ==
  r_program_running /\ r_run.line = 0 /\ r_run.steps = 0 /\ ~r_run.skip

LEMMA RunBegins == Recorded /\ AtFirstLine => Replayed
<1> SUFFICES ASSUME Recorded, AtFirstLine
             PROVE  Replayed
  OBVIOUS
<1>1. /\ Straight(r_program) /\ Len(r_program) <= PROGRAM_MAX_LINES
      /\ 0 \in 0 .. Len(r_program)
  BY DEF Recorded, Straight
<1>2. ASSUME lift = "unused"
      PROVE  \E tr : /\ TraceOf(r_program, tr) /\ Matches(tr[Len(r_program) + 1])
                     /\ Along(tr, 0)
  <2>1. PICK m : Gives(r_program, m) /\ Matches(m)
    BY <1>2 DEF Recorded
  <2>2. PICK tr : TraceOf(r_program, tr) /\ tr[Len(r_program) + 1] = m
    BY <2>1 DEF Gives
  <2>3. tr[1] = Cleared /\ ~Composed(r_program, 0)
    BY <2>2 DEF TraceOf, Composed
  <2>4. Along(tr, 0)
    BY <2>3 DEF Along, Recorded, Cleared
  <2>5. QED BY <2>1, <2>2, <2>4
<1>3. QED BY <1>1, <1>2 DEF Replayed, AtFirstLine

LEMMA ReplayType ==
  ASSUME TypeOK, phase = "closed" => Closed, phase = "typing" => Typing, Replay
  PROVE  Replayed'
<1>1. /\ UNCHANGED <<vars, lift>> /\ r_program' = Recorder!FlushedProgram
      /\ r_stack' = Recorder!FlushedStack /\ UNCHANGED <<r_storage, r_alpha>>
  BY DEF Replay, Recorder!RunStopKey
<1>2. r_current_line = -1
  BY DEF Replay, OnlyNumberOpen, Closed, Typing, Untouched
<1>3. AtFirstLine'
  BY <1>2 DEF Replay, Recorder!RunStopKey, Recorder!NoRun, AtFirstLine
<1>4. CASE Closed
  <2>1. Recorder!FlushedProgram = r_program /\ Recorder!FlushedStack = r_stack
    BY <1>4 DEF Closed, NoEntry, Recorder!FlushedProgram, Recorder!FlushedStack
  <2>2. (Values(FlushedStack))' = Values(FlushedStack)
    BY <1>1 DEF vars, Values, FlushedStack
  <2>3. \A m : Matches(m) => Matches(m)'
    BY <1>1, <2>1, <2>2 DEF vars, Matches
  <2>4. Recorded'
    BY <1>1, <1>4, <2>1, <2>3 DEF Closed, Recorded, vars
  <2>5. QED BY <1>3, <2>4, RunBegins, PTL
<1>5. CASE Typing /\ OnlyNumberOpen
  <2>1. Recorder!FlushedStack = r_stack /\ ~alpha_mode
    BY <1>5 DEF Typing, OnlyNumberOpen, Recorder!FlushedStack
  <2>2. Recorded'
    BY <1>1, <1>5, <2>1, SettledRecording
  <2>3. QED BY <1>3, <2>2, RunBegins, PTL
<1>6. QED BY <1>4, <1>5 DEF Replay, OnlyNumberOpen

\* No recorded step halts, jumps or skips.
LEMMA TypedGoesOn ==
  ASSUME NEW step, step.opcode \in TypedOpcodes, NEW arg
  PROVE  /\ ~Recorder!Halts(step, arg) /\ Recorder!JumpLines(step, arg) = {}
         /\ Recorder!Skips(step, arg, r_stack) = FALSE
<1>1. step.opcode \notin {"RTN", "XEQ", "GTO", "END", "RUN_STOP", "FS_QUESTION_C"}
  BY TypedOpcodesApart
<1>2. step.opcode \notin Recorder!ComparisonKeys
  BY TypedOpcodesApart DEF Recorder!ComparisonKeys, ComparisonKeys
<1>3. QED
  BY <1>1, <1>2 DEF Recorder!Halts, Recorder!JumpLines, Recorder!Skips

\* The run goes along the trace, and leaves at its end.
LEMMA ReplayStepType ==
  ASSUME Replayed, ReplayStep
  PROVE  Replayed'
<1> DEFINE n == r_run.line
           size == Len(r_program)
<1>1. /\ r_program_running /\ UNCHANGED <<vars, phase, lift>> /\ r_program' = r_program
      /\ size \in Nat /\ n \in 0 .. size
      /\ r_run.steps = n /\ ~r_run.skip
  BY DEF ReplayStep, Recorder!Loop, Recorder!RunFinish, Recorder!RunSkip, Recorder!RunStep,
         Recorder!RunHalt, Recorder!code, Replayed, Straight
<1>2. /\ Straight(r_program)' /\ (size <= PROGRAM_MAX_LINES)'
  BY <1>1 DEF Replayed
<1>3. \A tr : Matches(tr[size + 1]) => Matches(tr[size + 1])'
  <2>1. (Values(FlushedStack))' = Values(FlushedStack)
    BY <1>1 DEF vars, Values, FlushedStack
  <2>2. QED BY <1>1, <2>1 DEF vars, Matches
<1>4. Recorder!CanStep <=> n < size
  <2>1. n < size => n < MAX_STEPS_PER_RUN
    BY <1>1, TwinAssumption, LimitsAssumption DEF Replayed
  <2>2. QED BY <1>1, <2>1 DEF Recorder!CanStep, Recorder!Lines
<1>5. CASE Recorder!RunFinish
  <2>1. /\ n = size /\ r_program_running' = FALSE
        /\ UNCHANGED <<r_stack, r_storage, r_alpha>>
    BY <1>1, <1>4, <1>5
       DEF Recorder!RunFinish, Recorder!LeaveLoop, Recorder!machine, Recorder!registers
  <2>2. ASSUME NEW tr, Along(tr, n)
        PROVE  Along(tr, size)'
    BY <1>1, <2>1, <2>2 DEF Along, vars
  <2>3. ASSUME lift = "unused"
        PROVE  \E tr : /\ TraceOf(r_program, tr) /\ Matches(tr[size + 1]) /\ Along(tr, n)
    BY <1>1, <2>3 DEF Replayed
  <2>4. QED BY <1>1, <1>2, <1>3, <2>1, <2>2, <2>3 DEF Replayed
<1>6. CASE Recorder!RunStep
  <2> DEFINE step == r_program[n + 1]
  <2>1. n < size /\ n + 1 \in 1 .. size
    BY <1>1, <1>4, <1>6 DEF Recorder!RunStep
  <2>2. /\ step \in Step /\ step.opcode \in TypedOpcodes
        /\ step.opcode = "ASTO" => Composed(r_program, n)
    <3>1. n + 1 - 1 = n BY <1>1
    <3>2. QED BY <1>1, <2>1, <3>1 DEF Replayed, Straight
  <2>3. PICK arg \in Recorder!Resolve(step) :
          /\ Recorder!Execute(step, arg, n, r_stack)
          /\ \E next \in IF Recorder!JumpLines(step, arg) = {} THEN {n + 1}
                         ELSE Recorder!JumpLines(step, arg) :
               r_run' = [line |-> next, steps |-> Recorder!StepsCounted,
                         skip |-> Recorder!Skips(step, arg, r_stack)]
    BY <1>6 DEF Recorder!RunStep, Recorder!StepAt
  <2>4. r_run' = [line |-> n + 1, steps |-> n + 1, skip |-> FALSE]
    BY <1>1, <2>2, <2>3, TypedGoesOn DEF Recorder!StepsCounted
  <2>5. r_program_running' = r_program_running
    BY <1>6 DEF Recorder!RunStep
  <2>6. Composed(r_program, n + 1) <=> (Composed(r_program, n) \/ step.opcode = "ALPHA")
    BY <1>1 DEF Composed
  <2>7. ASSUME lift = "unused", NEW tr, TraceOf(r_program, tr), Along(tr, n)
        PROVE  Along(tr, n)'
    <3>1. PICK m : m = tr[n + 1]
      OBVIOUS
    <3>2. m \in Memory
      BY <1>1, <2>1, <2>7, <3>1 DEF TraceOf
    <3>3. /\ m.stack = r_stack /\ m.storage = r_storage
          /\ step.opcode = "ASTO" => m.alpha = r_alpha
      BY <2>2, <2>7, <3>1 DEF Along
    <3>4. PICK a \in Named(m, step) : tr[n + 1 + 1] = Effect(m, step, a)
      BY <2>1, <2>7, <3>1 DEF TraceOf
    <3>5. Recorder!Resolve(step) = Named(m, step)
      BY <2>2, <3>2, <3>3, ReplayedEffect
    <3>6. tr[n + 1 + 1] = Effect(m, step, arg)
      BY <2>2, <2>3, <3>2, <3>4, <3>5, OneEffect
    <3>7. /\ r_stack' = Effect(m, step, arg).stack
          /\ r_storage' = Effect(m, step, arg).storage
          /\ r_alpha' = IF step.opcode = "ALPHA" THEN Effect(m, step, arg).alpha ELSE r_alpha
      BY <2>2, <2>3, <3>2, <3>3, ReplayedEffect DEF Recorder!Execute
    <3>8. step.opcode # "ALPHA" => Effect(m, step, arg).alpha = m.alpha
      BY DEF Effect, AlphaThen
    <3>9. r_alpha = IF Composed(r_program, n) THEN m.alpha ELSE alpha
      BY <2>7, <3>1 DEF Along
    <3>10. PICK k : k = n + 1
      OBVIOUS
    <3>11. n' = k
      BY <2>4, <3>10
    <3>12. /\ r_stack' = tr[k + 1].stack /\ r_storage' = tr[k + 1].storage
           /\ r_alpha' = IF Composed(r_program, k) THEN tr[k + 1].alpha ELSE alpha
      BY <2>6, <3>6, <3>7, <3>8, <3>9, <3>10
    <3>13. QED BY <1>1, <3>11, <3>12 DEF Along, vars
  <2>8. ASSUME lift = "unused"
        PROVE  \E tr : TraceOf(r_program, tr) /\ Matches(tr[size + 1])' /\ Along(tr, n)'
    <3>1. PICK tr : TraceOf(r_program, tr) /\ Matches(tr[size + 1]) /\ Along(tr, n)
      BY <1>1, <2>8 DEF Replayed
    <3>2. QED BY <1>3, <2>7, <2>8, <3>1
  <2>9. n' \in 0 .. size /\ r_run'.steps = n' /\ ~r_run'.skip
    BY <1>1, <2>1, <2>4
  <2>10. QED BY <1>1, <1>2, <2>5, <2>8, <2>9 DEF Replayed
<1>7. CASE Recorder!RunSkip \/ Recorder!RunHalt
  <2>1. ~Recorder!RunSkip
    BY <1>1 DEF Recorder!RunSkip
  <2>2. ASSUME Recorder!RunHalt
        PROVE  FALSE
    <3>1. n + 1 \in 1 .. size
      BY <1>1, <1>4, <2>2 DEF Recorder!RunHalt
    <3>2. r_program[n + 1].opcode \in TypedOpcodes
      BY <3>1 DEF Replayed, Straight
    <3>3. QED BY <2>2, <3>2, TypedGoesOn DEF Recorder!RunHalt, Recorder!StepAt
  <2>3. QED BY <1>7, <2>1, <2>2
<1>8. QED BY <1>5, <1>6, <1>7 DEF ReplayStep, Recorder!Loop

-----------------------------------------------------------------------------
(* The theorem.                                                             *)

\* Whatever the twins do, the one typed on takes a step of the core or none.
LEMMA TwinSteps ==
  ASSUME [TwinNext]_twinVars
  PROVE  [Next]_vars
<1>1. CASE Type
  <2>1. StackKeys \subseteq OpcodeKeys /\ {"STO", "RCL", "ASTO"} \subseteq ArgKeys
    BY TypedOpcodesApart DEF ArgKeys, RegKeys
  <2>2. CASE NumberKeys
    BY <2>2 DEF NumberKeys, Next, Key, ModeKey
  <2>3. CASE TextKeys
    BY <2>3 DEF TextKeys, Next, Key, ModeKey
  <2>4. CASE ArgumentKeys
    BY <2>1, <2>4 DEF ArgumentKeys, Next, Key, ModeKey
  <2>5. CASE \E key \in KeysUsed : InstructionKeys(key)
    BY <2>1, <2>5 DEF InstructionKeys, Next, Key
  <2>6. QED BY <1>1, <2>2, <2>3, <2>4, <2>5 DEF Type
<1>2. CASE Again
  BY <1>2 DEF Again, Next, Host
<1>3. CASE StartRecording \/ StopRecording \/ Replay \/ ReplayStep \/ UNCHANGED twinVars
  BY <1>3 DEF StartRecording, StopRecording, Replay, ReplayStep, twinVars
<1>4. QED BY <1>1, <1>2, <1>3 DEF TwinNext

LEMMA AgainStarts ==
  ASSUME Again
  PROVE  (Init /\ Recorder!Init /\ lift = "unused")'
BY DEF Again, Reset, Recorder!Reset, Init, Recorder!Init

LEMMA TwinInductive == TwinInv /\ [TwinNext]_twinVars => TwinInv'
<1> SUFFICES ASSUME TwinInv, [TwinNext]_twinVars
             PROVE  TwinInv'
  OBVIOUS
<1>1. TypeOK' /\ OneEntryAtATime'
  BY TwinSteps, TypeInductive, OneEntryInductive DEF TwinInv
<1>2. CASE StartRecording
  <2>1. Typing' /\ phase' = "typing"
    BY <1>2, StartRecordingType DEF TwinInv, StartRecording
  <2>2. QED BY <1>1, <2>1 DEF TwinInv
<1>3. CASE Type
  <2>1. Typing' /\ phase' = "typing"
    BY <1>3, TypeType DEF TwinInv, Type
  <2>2. QED BY <1>1, <2>1 DEF TwinInv
<1>4. CASE StopRecording
  <2>1. Closed' /\ phase' = "closed"
    BY <1>4, StopRecordingType DEF TwinInv, StopRecording, OnlyNumberOpen
  <2>2. QED BY <1>1, <2>1 DEF TwinInv
<1>5. CASE Replay
  <2>1. Replayed' /\ phase' = "replayed"
    BY <1>5, ReplayType DEF TwinInv, Replay
  <2>2. QED BY <1>1, <2>1 DEF TwinInv
<1>6. CASE ReplayStep
  <2>1. r_program_running /\ phase' = phase
    BY <1>6 DEF ReplayStep, Recorder!Loop, Recorder!RunFinish, Recorder!RunSkip,
                Recorder!RunStep, Recorder!RunHalt
  <2>2. phase = "replayed"
    BY <2>1 DEF TwinInv, Recorder!Init, Typing, Closed, Untouched
  <2>3. Replayed'
    BY <1>6, <2>2, ReplayStepType DEF TwinInv
  <2>4. QED BY <1>1, <2>1, <2>2, <2>3 DEF TwinInv
<1>7. CASE Again
  <2>1. (Init /\ Recorder!Init /\ lift = "unused")' /\ phase' = "starting"
    BY <1>7, AgainStarts DEF Again
  <2>2. QED BY <1>1, <2>1 DEF TwinInv
<1>8. CASE UNCHANGED twinVars
  <2>1. Values(FlushedStack)' = Values(FlushedStack)
    BY <1>8 DEF twinVars, vars, Values, FlushedStack
  <2>2. /\ Init' = Init /\ Recorder!Init' = Recorder!Init /\ lift' = lift /\ phase' = phase
    BY <1>8 DEF twinVars, vars, recorder, Init, Recorder!Init
  <2>3. Typing => Typing'
    BY <1>8 DEF twinVars, vars, recorder, Typing, InStep, Untouched, Follows
  <2>4. Closed => Closed'
    BY <1>8, <2>1 DEF twinVars, vars, recorder, Closed, Recorded, Untouched, Matches
  <2>5. Replayed => Replayed'
    BY <1>8, <2>1 DEF twinVars, vars, recorder, Replayed, Matches, Along
  <2>6. QED BY <1>1, <2>2, <2>3, <2>4, <2>5 DEF TwinInv
<1>9. QED BY <1>2, <1>3, <1>4, <1>5, <1>6, <1>7, <1>8 DEF TwinNext

LEMMA TwinInitially == TwinInit => TwinInv
<1>1. Init => OneEntryAtATime
  BY DEF Init, NoEntry, NoPending, OneEntryAtATime
<1>2. QED BY <1>1, InitType DEF TwinInit, TwinInv

\* Typing and recording are two ways to one result, whatever numbers, signs,
\* backspaces, registers, pointers and text the keys mix, as long as the program
\* fits and no number took the place of X after ENTER or CLX and stayed there:
\* what vger_interp.c executes key by key is what it records and runs.
THEOREM RecordingIsFaithful == TwinSpec => []TypedAsRecorded
<1>1. TwinInv => TypedAsRecorded
  <2> SUFFICES ASSUME TwinInv, phase = "replayed", ~r_program_running, lift = "unused"
               PROVE  /\ Values(FlushedStack) = Values(r_stack)
                      /\ storage = r_storage /\ alpha = r_alpha
    BY DEF TypedAsRecorded
  <2>1. PICK tr : /\ Matches(tr[Len(r_program) + 1])
                  /\ Along(tr, Len(r_program))
    BY DEF TwinInv, Replayed
  <2>2. QED BY <2>1 DEF Matches, Along
<1>2. QED BY <1>1, TwinInitially, TwinInductive, PTL DEF TwinSpec

=============================================================================
