------------------------------ MODULE MCHarness ------------------------------
(***************************************************************************)
(* A user with a few keys, for VgerHarness.                                 *)
(***************************************************************************)
EXTENDS VgerHarness, MCNumbers

\* What the user may type is what the keys are bound to.
MCKeysUsed == {"ALPHA"} \cup {Bindings[s] : s \in EventsUsed \cap DOMAIN Bindings}
MCDigitsUsed == UNION {DigitsOf(s) : s \in EventsUsed}
MCCharsUsed == UNION {Printable(s) : s \in EventsUsed}
MCHarnessChar == MCChar \cup Letters \cup {"."}

\* One decimal, but none when none are asked for and there is none.
MCFormatX(setting, n) ==
  MCFormatG(n) \o (IF n % 10 = 0 /\ setting.digits > 0 THEN <<".", "0">> ELSE <<>>)

\* A program that loops until the step cap.
LoopForever == <<OpcodeStep("LBL", 0, FALSE), OpcodeStep("GTO", 0, FALSE)>>
MCHarnessPrograms == {LoopForever}

=============================================================================
