------------------------------ MODULE MCInterp ------------------------------
(***************************************************************************)
(* Programs for the runs of VgerInterp.                                     *)
(***************************************************************************)
EXTENDS VgerInterp, MCNumbers

-----------------------------------------------------------------------------
(* Programs, as the text parser builds them.                                *)

Num(n)      == NumberStep(n)
Op(key)     == OpcodeStep(key, 0, FALSE)
Arg(key, n) == OpcodeStep(key, n, FALSE)
Ind(key, r) == OpcodeStep(key, r, TRUE)

\* Calls in a loop, a call without a way back, and a call on the last line.
Looping   == <<Arg("LBL", 0), Arg("XEQ", 1), Arg("GTO", 0), Arg("LBL", 1), Op("RTN")>>
Recursive == <<Num(10), Arg("LBL", 0), Op("PLUS"), Arg("XEQ", 0)>>
LastCalls == <<Arg("GTO", 0), Arg("LBL", 1), Op("RTN"), Arg("LBL", 0), Arg("XEQ", 1)>>

\* The tests and FS?C, each before a step it may skip, round and round.
Testing ==
  <<Num(10), Arg("LBL", 0), Arg("SF", 0), Arg("SF", 2), Op("X_EQ_0"), Op("END"),
    Arg("FS_QUESTION_C", 0), Op("CHS"), Arg("FS_QUESTION_C", 0), Op("RUN_STOP"),
    Op("X_GT_Y"), Op("X_EXCHANGE_Y"), Arg("GTO", 0)>>
Comparing ==
  <<Op("X_NE_0"), Num(10), Op("X_GT_0"), Op("CLX"), Op("X_LT_0"), Op("LASTX"),
    Op("X_EQ_Y"), Op("X_NE_Y"), Op("X_LT_Y"), Op("RTN")>>

\* Pointers: to a flag, a digit count, a label, text; to the reserved flag, and
\* out of int range.
Pointing ==
  <<Num(10), Arg("STO", 0), Ind("SF", 0), Ind("FIX", 0), Ind("GTO", 0), Op("END"),
    Arg("LBL", 1), Arg("ASTO", 1), Ind("ENG", 1), Ind("STO", 0), Ind("RCL", 0),
    Op("TIMES"), Arg("STO", 0), Ind("CF", 0), Ind("SCI", 0), Ind("XEQ", 0)>>
Overflowing ==
  <<Num(20), Arg("STO", 0), Ind("SF", 0), Num(NumMax), Op("ENTER"), Op("TIMES"), Arg("STO", 0), Ind("SF", 0), Ind("GTO", 0),
    Ind("XEQ", 0), Ind("ARCL", 0), Op("DIVIDE"), Arg("STO", 0), Ind("SCI", 0)>>

\* Text in and out of registers, and registers the program names but the
\* calculator does not have.
Texting ==
  <<TextStep(<<"a", "b">>), Arg("ASTO", 0), Num(-15), Arg("STO", 1), Arg("ARCL", 1),
    TextStep(<<>>), Arg("ARCL", 0), Arg("ARCL", 2), Arg("RCL", 0), Arg("FIX", 10),
    Op("MINUS"), Arg("STO", -1)>>

ExecPrograms == {Testing, Comparing, Pointing, Overflowing, Texting}

\* LBL takes any int from a program text, -1 included.
NegativeLabel == <<TextStep(<<"a">>), Arg("ASTO", 0), Arg("LBL", -1), Ind("GTO", 0)>>
NegativeLabelPrograms == {NegativeLabel}

CallPrograms == {<<>>, Looping, Recursive, LastCalls}

\* A loop whose test is the last step the cap allows.
TestOnCap == <<Op("CHS"), Op("CHS"), Arg("LBL", 0), Op("X_NE_0"), Num(10), Arg("GTO", 0)>>
TestOnCapPrograms == {TestOnCap}

NoPrograms == {}

=============================================================================
