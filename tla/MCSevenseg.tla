------------------------------ MODULE MCSevenseg ------------------------------
(***************************************************************************)
(* Short numerals as digit entry makes them.                                *)
(***************************************************************************)
EXTENDS VgerSevenseg

IsNumeral(txt) ==
  /\ \A n \in DOMAIN txt : txt[n] = Minus => n = 1
  /\ \A m, n \in DOMAIN txt : txt[m] = Point /\ txt[n] = Point => m = n

MCNumerals == {txt \in UNION {[1 .. n -> Glyph \cup {Point}] : n \in 0 .. 3} : IsNumeral(txt)}

=============================================================================
