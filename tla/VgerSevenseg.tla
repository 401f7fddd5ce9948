----------------------------- MODULE VgerSevenseg -----------------------------
(***************************************************************************)
(* vger_sevenseg_draw_string (harness/vger_sevenseg.c), character by         *)
(* character, onto a set of lit pixels.                                      *)
(***************************************************************************)
EXTENDS Integers, Sequences, FiniteSetsExt

CONSTANTS
  ORIGIN_X, ORIGIN_Y, CELL_W, CELL_H, MAX_CHARS,  \* main.c:187
  PANEL_WIDTH, PANEL_HEIGHT,                      \* main.c:29
  Numerals                                        \* the texts drawn

\* The digits, and the characters beside them.
Point == 10
Minus == 11
Glyph == 0 .. 9 \cup {Minus}

VARIABLES
  text,
  i,         \* the character to draw next
  cursor_x,
  lit        \* the pixels drawn, in the panel or not

drawing == <<text, i, cursor_x, lit>>

-----------------------------------------------------------------------------
(* vger_sevenseg_draw_char                                                  *)

Rect(x, y, w, h) == (x .. x + w - 1) \X (y .. y + h - 1)

\* vger_sevenseg_lookup
Segments(ch) ==
  CASE ch = 0 -> {"a", "b", "c", "d", "e", "f"}
    [] ch = 1 -> {"b", "c"}
    [] ch = 2 -> {"a", "b", "g", "e", "d"}
    [] ch = 3 -> {"a", "b", "g", "c", "d"}
    [] ch = 4 -> {"f", "g", "b", "c"}
    [] ch = 5 -> {"a", "f", "g", "c", "d"}
    [] ch = 6 -> {"a", "f", "g", "e", "c", "d"}
    [] ch = 7 -> {"a", "b", "c"}
    [] ch = 8 -> {"a", "b", "c", "d", "e", "f", "g"}
    [] ch = 9 -> {"a", "b", "c", "d", "f", "g"}
    [] ch = Minus -> {"g"}

Thickness == Max({2, Min({CELL_W, CELL_H}) \div 6})

\* A segment of a glyph at x, at the height of the row.
SegmentRect(segment, x) ==
  LET t    == Thickness
      half == CELL_H \div 2
      y    == ORIGIN_Y
  IN  CASE segment = "a" -> Rect(x + t, y, CELL_W - 2 * t, t)
        [] segment = "g" -> Rect(x + t, y + half - (t \div 2), CELL_W - 2 * t, t)
        [] segment = "d" -> Rect(x + t, y + CELL_H - t, CELL_W - 2 * t, t)
        [] segment = "f" -> Rect(x, y, t, half)
        [] segment = "b" -> Rect(x + CELL_W - t, y, t, half)
        [] segment = "e" -> Rect(x, y + half, t, half)
        [] segment = "c" -> Rect(x + CELL_W - t, y + half, t, half)

PointRect(x) ==
  Rect(x + CELL_W - (CELL_W \div 6), ORIGIN_Y + CELL_H - (CELL_H \div 6), CELL_W \div 6, CELL_H \div 6)

\* From one cell to the next.
Pitch == CELL_W + (CELL_W \div 6)

-----------------------------------------------------------------------------
(* vger_sevenseg_draw_string                                                *)

DrawInit ==
  /\ text \in Numerals
  /\ i = 1 /\ cursor_x = ORIGIN_X /\ lit = {}

MoreToDraw == i <= Len(text) /\ i <= MAX_CHARS

\* A point takes no cell.
DrawPoint ==
  /\ MoreToDraw /\ text[i] = Point
  /\ lit' = lit \cup PointRect(cursor_x - (CELL_W \div 3))
  /\ i' = i + 1
  /\ UNCHANGED <<text, cursor_x>>

DrawGlyph ==
  /\ MoreToDraw /\ text[i] # Point
  /\ lit' = lit \cup UNION {SegmentRect(s, cursor_x) : s \in Segments(text[i])}
  /\ i' = i + 1
  /\ cursor_x' = cursor_x + Pitch
  /\ UNCHANGED text

DrawNext == DrawPoint \/ DrawGlyph

DrawSpec == DrawInit /\ [][DrawNext]_drawing

-----------------------------------------------------------------------------
(* What is read.                                                            *)

\* Cells of a size in which a point is higher than a segment is thick, and a
\* panel that holds all of them.
Room ==
  /\ CELL_W \in Nat /\ CELL_H \in Nat /\ MAX_CHARS \in Nat \ {0}
  /\ Numerals \in SUBSET Seq(Glyph \cup {Point})
  /\ CELL_W >= 6
  /\ Thickness < CELL_H \div 6
  /\ ORIGIN_X \in Nat /\ ORIGIN_Y \in Nat
  /\ PANEL_WIDTH \in Nat /\ PANEL_HEIGHT \in Nat
  /\ ORIGIN_X + (MAX_CHARS - 1) * Pitch + CELL_W <= PANEL_WIDTH
  /\ ORIGIN_Y + CELL_H <= PANEL_HEIGHT

Seen == lit \cap ((0 .. PANEL_WIDTH - 1) \X (0 .. PANEL_HEIGHT - 1))

CellX(c) == ORIGIN_X + c * Pitch

\* What a reader makes of cell c: the glyph all of whose segments are seen, and
\* no other.
ReadGlyph(c) ==
  {g \in Glyph : \A s \in Segments(8) : s \in Segments(g) <=> SegmentRect(s, CellX(c)) \subseteq Seen}

\* How many glyphs, so how many cells, come before character j.
CellOf(txt, j) == Cardinality({k \in 1 .. j - 1 : txt[k] # Point})

\* Every digit and sign on the panel reads back as the one that was drawn: no
\* two glyphs look alike, no segment hides another, and a point does not change
\* the digit it falls on.
DigitsLegible ==
  ~MoreToDraw =>
    \A j \in 1 .. i - 1 : text[j] # Point => ReadGlyph(CellOf(text, j)) = {text[j]}

\* vger_sevenseg.c:115: the decimal point rides on the previous cell, so it is
\* drawn between the columns of that cell and those of the next.
PointRidesOnPreviousCell ==
  [][DrawPoint /\ cursor_x > ORIGIN_X =>
       \A pixel \in lit' \ lit : pixel[1] \in cursor_x - Pitch .. cursor_x - 1]_drawing

=============================================================================
