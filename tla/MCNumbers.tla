------------------------------ MODULE MCNumbers ------------------------------
(***************************************************************************)
(* Values for the constants of VgerTypes.  Numbers are counted in tenths    *)
(* and clamped at +-NumMax, which stands for every double too large for an  *)
(* int; the arithmetic is exact in between.                                 *)
(***************************************************************************)
EXTENDS VgerTypes

CONSTANTS
  NumMax  \* bound of the model: the clamped magnitude, in tenths

MCNumber == -NumMax .. NumMax

Clamp(n) == IF n > NumMax THEN NumMax ELSE IF n < -NumMax THEN -NumMax ELSE n

\* Integer division that truncates towards zero, as C's does.
Quotient(a, b) ==
  LET abs(n) == IF n < 0 THEN -n ELSE n
      q      == abs(a) \div abs(b)
  IN  IF (a < 0) = (b < 0) THEN q ELSE -q

\* strtod over digits, point and sign; an empty numeral is 0, and the second
\* and later decimals are below the resolution of the model.
MCStrtod(text) ==
  LET sign     == IF text # <<>> /\ Head(text) = Minus THEN -1 ELSE 1
      body     == SelectSeq(text, LAMBDA ch : ch # Minus)
      points   == {i \in DOMAIN body : body[i] = Point}
      whole    == IF points = {} THEN body
                  ELSE SubSeq(body, 1, (CHOOSE i \in points : \A j \in points : i <= j) - 1)
      decimals == SubSeq(body, Len(whole) + 2, Len(body))
      units    == FoldLeft(LAMBDA n, d : 10 * n + d, 0, whole)
      tenth    == IF decimals = <<>> \/ Head(decimals) \notin Digit THEN 0 ELSE Head(decimals)
  IN  Clamp(sign * (10 * units + tenth))

MCArith(op, y, x) ==
  Clamp(CASE op = "PLUS"   -> y + x
          [] op = "MINUS"  -> y - x
          [] op = "TIMES"  -> Quotient(y * x, 10)
          [] op = "DIVIDE" -> IF x = 0 THEN 0 ELSE Quotient(10 * y, x))

MCNegate(n) == -n
MCEqual(m, n) == m = n
MCGreater(m, n) == m > n

\* A double out of int range converts to INT_MIN (x86) or saturates (ARM).
IntMin == -2147483647 - 1
IntMax == 2147483647
MCIntCasts(n) ==
  IF n \in {-NumMax, NumMax} THEN {IntMin, IntMax} ELSE {Quotient(n, 10)}

\* "%g": sign, whole part, and the tenth when there is one.
Digits == [d \in Digit |-> <<"0", "1", "2", "3", "4", "5", "6", "7", "8", "9">>[d + 1]]
MCFormatG(n) ==
  LET abs   == IF n < 0 THEN -n ELSE n
      whole == abs \div 10
  IN  (IF n < 0 THEN <<"-">> ELSE <<>>)
      \o (IF whole < 10 THEN <<>> ELSE <<Digits[whole \div 10]>>)
      \o <<Digits[whole % 10]>>
      \o (IF abs % 10 = 0 THEN <<>> ELSE <<".", Digits[abs % 10]>>)
MCChar == {Digits[d] : d \in Digit} \cup {"-", ".", " ", "a", "b"}

=============================================================================
