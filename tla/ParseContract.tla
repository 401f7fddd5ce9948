---------------------------- MODULE ParseContract ----------------------------
(***************************************************************************)
(* What vger_program_parse_text() promises its caller, as one step: the     *)
(* instructions of a text in order, up to a number of them, or the first    *)
(* line that is none.                                                       *)
(***************************************************************************)
EXTENDS Integers, Sequences, FiniteSetsExt

CONSTANTS
  MaxSteps,    \* how many instructions a program holds,
  IsBlank(_),  \* whether a line holds nothing,
  StepsOf(_)   \* the step a line stands for; none if it is malformed

VARIABLES
  text,        \* a sequence of lines
  outcome      \* what the caller gets

contractVars == <<text, outcome>>

Unanswered == [status |-> "parsing", program |-> <<>>, line |-> 0]

\* The lines of a text that hold something.
LinesOfText(txt) == {i \in DOMAIN txt : ~IsBlank(txt[i])}

\* How many of them come before line i.
Before(txt, i) == Cardinality({j \in LinesOfText(txt) : j < i})

\* Those the parser comes to: with fewer than MaxSteps instructions before.
LinesReached(txt) == {i \in LinesOfText(txt) : Before(txt, i) < MaxSteps}

Malformed(txt) == {i \in LinesReached(txt) : StepsOf(txt[i]) = {}}

\* The line that holds the k-th instruction.
LineOf(txt, k) == CHOOSE i \in LinesReached(txt) : Before(txt, i) = k - 1

Answered(txt) ==
  IF Malformed(txt) # {}
  THEN [status |-> "rejected", program |-> <<>>, line |-> Min(Malformed(txt))]
  ELSE [status  |-> "accepted",
        program |-> [k \in 1 .. Cardinality(LinesReached(txt)) |->
                       CHOOSE step \in StepsOf(txt[LineOf(txt, k)]) : TRUE],
        line    |-> 0]

ContractInit == outcome = Unanswered

Answer ==
  /\ outcome = Unanswered
  /\ outcome' = Answered(text)
  /\ UNCHANGED text

ContractSpec == ContractInit /\ [][Answer]_contractVars

=============================================================================
