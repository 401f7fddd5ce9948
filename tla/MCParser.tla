------------------------------ MODULE MCParser ------------------------------
(***************************************************************************)
(* Texts for the parser: every short line alone, and every short sequence   *)
(* of lines chosen to be blank, good, malformed in each way, or too long.   *)
(***************************************************************************)
EXTENDS VgerParser, MCNumbers

CONSTANT
  LongMax  \* bound of the model: strtol saturates here

MCSpace == " "
MCQuote == "\""
MCSymbol == {"STO", "LBL", "RTN", "IND", "MINUS", "DECIMAL_POINT", "1", "9", " ", "\"", "a"}
MCParserChar == MCChar \cup MCSymbol

Value(s) == CHOOSE d \in Digit : Digits[d] = s

\* An optional sign and digits, to the end.
MCStrtolAll(token) ==
  LET signed == token # <<>> /\ Head(token) = "MINUS"
      digits == IF signed THEN Tail(token) ELSE token
      sum    == FoldLeft(LAMBDA n, s : 10 * n + Value(s), 0, digits)
      size   == IF sum > LongMax THEN LongMax + (IF signed THEN 1 ELSE 0) ELSE sum
  IN  IF digits # <<>> /\ \A i \in DOMAIN digits : digits[i] \in DigitSymbols
      THEN {IF signed THEN -size ELSE size}
      ELSE {}

\* Sign, digits and one point, to the end, with a digit somewhere.
MCStrtodAll(line) ==
  LET body == [i \in DOMAIN line |->
                 CASE line[i] = "MINUS"         -> Minus
                   [] line[i] = "DECIMAL_POINT" -> Point
                   [] line[i] \in DigitSymbols  -> Value(line[i])
                   [] OTHER                     -> -1]
      points == {i \in DOMAIN body : body[i] = Point}
  IN  IF /\ \A i \in DOMAIN body : body[i] # -1 /\ (body[i] = Minus => i = 1)
         /\ \E i \in DOMAIN body : body[i] \in Digit
         /\ \A i, j \in points : i = j
      THEN {MCStrtod(body)}
      ELSE {}

\* With lines of six symbols and tokens of two.
ChosenLines ==
  {<<>>, <<" ">>,                                        \* blank
   <<"RTN">>, <<" ", "MINUS", " ">>,                     \* without argument
   <<"STO", " ", "1", "9">>,                             \* with one
   <<"STO", " ", "MINUS", "9", "9">>,                    \* in two tokens
   <<"STO", " ", "IND", " ", "1">>,                      \* indirect
   <<"STO", " ", " ", " ", "9", "9", "1">>,              \* cut
   <<"MINUS", "1", "DECIMAL_POINT", "9">>,               \* a number
   <<"\"", "a", "\"">>, <<"\"", "a", "a", "a", "\"">>,   \* text, and too much
   <<"\"", "a", " ", "a", "1", " ", "\"">>,              \* text that is cut
   <<"RTN", " ", "1">>, <<"LBL", " ", "IND", " ", "1">>, \* malformed
   <<"STO">>, <<"IND", " ", "1">>}

AllLines(n) == UNION {[1 .. k -> MCSymbol] : k \in 1 .. n}

MCLines == AllLines(4) \cup ChosenLines
MCTexts ==
  {<<line>> : line \in AllLines(4)} \cup UNION {[1 .. k -> ChosenLines] : k \in 0 .. 4}

=============================================================================
