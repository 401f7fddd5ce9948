-------------------------- MODULE VgerSevensegProofs --------------------------
(***************************************************************************)
(* What is drawn reads back, for every text and every size of cell and      *)
(* panel with room for it.                                                  *)
(***************************************************************************)
EXTENDS VgerSevenseg, FiniteSetTheorems, TLAPS

-----------------------------------------------------------------------------
(* The layout of a cell.                                                    *)

W6 == CELL_W \div 6
W3 == CELL_W \div 3
H6 == CELL_H \div 6
Half == CELL_H \div 2
T2 == Thickness \div 2

LEMMA MaxOfTwo ==
  ASSUME NEW a \in Int, NEW b \in Int
  PROVE  Max({a, b}) = IF a >= b THEN a ELSE b
<1> DEFINE m == IF a >= b THEN a ELSE b
<1>1. m \in {a, b} /\ \A y \in {a, b} : m >= y
  OBVIOUS
<1>2. \A x \in {a, b} : (\A y \in {a, b} : x >= y) => x = m
  OBVIOUS
<1>3. QED BY <1>1, <1>2 DEF Max

LEMMA MinOfTwo ==
  ASSUME NEW a \in Int, NEW b \in Int
  PROVE  Min({a, b}) = IF a <= b THEN a ELSE b
<1> DEFINE m == IF a <= b THEN a ELSE b
<1>1. m \in {a, b} /\ \A y \in {a, b} : m <= y
  OBVIOUS
<1>2. \A x \in {a, b} : (\A y \in {a, b} : x <= y) => x = m
  OBVIOUS
<1>3. QED BY <1>1, <1>2 DEF Min

\* A cell that is higher than wide: its segments are as thick as a sixth of its
\* width, or two.
LEMMA ThicknessIs ==
  ASSUME Room
  PROVE  /\ Thickness \in Nat
         /\ Thickness = IF W6 >= 2 THEN W6 ELSE 2
<1> DEFINE w == CELL_W
           h == CELL_H
           m == Min({w, h})
<1>1. w \in Nat /\ h \in Nat /\ w >= 6
  BY DEF Room
<1> HIDE DEF w, h
<1>2. m = IF w <= h THEN w ELSE h
  BY <1>1, MinOfTwo
<1>3. m \in Nat
  BY <1>1, <1>2
<1>4. m \div 6 \in Int
  BY <1>3
<1>5. Thickness = IF 2 >= m \div 6 THEN 2 ELSE m \div 6
  <2> DEFINE q == m \div 6
  <2> HIDE DEF m
  <2>1. q \in Int
    BY <1>4
  <2>2. Thickness = Max({2, q})
    BY DEF Thickness, m, w, h
  <2> HIDE DEF q
  <2>3. Thickness = IF 2 >= q THEN 2 ELSE q
    BY <2>1, <2>2, MaxOfTwo
  <2>4. QED BY <2>3 DEF q
<1>6. Thickness < h \div 6
  BY DEF h, Room
<1> HIDE DEF m
<1>7. CASE m = w
  BY <1>1, <1>5, <1>7 DEF W6, w
<1>8. CASE m = h
  BY <1>1, <1>5, <1>6, <1>8
<1>9. QED BY <1>2, <1>7, <1>8

\* Where the parts of a cell lie: the point is within the columns of the middle
\* segments and above the last row by one at least.
LEMMA Layout ==
  ASSUME Room
  PROVE  /\ CELL_W \in Nat /\ CELL_H \in Nat /\ ORIGIN_Y \in Int /\ Pitch \in Nat
         /\ Thickness \in Nat /\ W6 \in Nat /\ W3 \in Nat /\ H6 \in Nat /\ Half \in Nat /\ T2 \in Nat
         /\ Thickness >= 2 /\ W6 >= 1 /\ T2 < Thickness
         /\ Pitch >= CELL_W
         /\ Thickness < CELL_W - W3 - W6 /\ CELL_W - W3 <= CELL_W - Thickness
         /\ Thickness < H6
         /\ Thickness < Half - T2
         /\ Half - T2 + Thickness < CELL_H - H6
         /\ Half + Half <= CELL_H
<1> DEFINE w == CELL_W
           h == CELL_H
           t == Thickness
<1>1. /\ w \in Nat /\ h \in Nat /\ w >= 6 /\ t \in Nat
      /\ t = IF w \div 6 >= 2 THEN w \div 6 ELSE 2
      /\ t < h \div 6
  BY ThicknessIs DEF W6, Room
<1> HIDE DEF w, h, t
<1>2. /\ w \div 6 \in Nat /\ w \div 3 \in Nat /\ h \div 6 \in Nat /\ h \div 2 \in Nat /\ t \div 2 \in Nat
      /\ w \div 6 >= 1 /\ t >= 2 /\ t \div 2 < t
  BY <1>1
<1>3. t < w - (w \div 3) - (w \div 6) /\ w - (w \div 3) <= w - t
  BY <1>1
<1>4. /\ t < (h \div 2) - (t \div 2)
      /\ (h \div 2) - (t \div 2) + t < h - (h \div 6)
      /\ (h \div 2) + (h \div 2) <= h
  BY <1>1, <1>2
<1>5. ORIGIN_Y \in Int /\ Pitch = w + (w \div 6)
  BY DEF Pitch, w, Room
<1>6. QED BY <1>1, <1>2, <1>3, <1>4, <1>5 DEF W6, W3, H6, Half, T2, w, h, t

-----------------------------------------------------------------------------
(* Segments and points as pixels of a cell.                                 *)

Seven == {"a", "b", "c", "d", "e", "f", "g"}
Lying == {"a", "d", "g"}

Left(segment) == IF segment \in Lying THEN Thickness
                 ELSE IF segment \in {"e", "f"} THEN 0 ELSE CELL_W - Thickness
Top(segment) == IF segment \in {"a", "b", "f"} THEN 0
                ELSE IF segment = "g" THEN Half - T2
                ELSE IF segment = "d" THEN CELL_H - Thickness ELSE Half
Across(segment) == IF segment \in Lying THEN CELL_W - 2 * Thickness ELSE Thickness
Down(segment) == IF segment \in Lying THEN Thickness ELSE Half

LEMMA SegmentsOfEight == Segments(8) = Seven
BY DEF Segments, Seven, Minus

LEMMA SegmentsAreSeven == \A g \in Glyph : Segments(g) \in SUBSET Seven
BY DEF Segments, Seven, Glyph, Minus

LEMMA RectPixel ==
  ASSUME NEW x \in Int, NEW y \in Int, NEW w \in Int, NEW h \in Int, NEW px, NEW py
  PROVE  <<px, py>> \in Rect(x, y, w, h) <=>
           px \in Int /\ py \in Int /\ x <= px /\ px < x + w /\ y <= py /\ py < y + h
BY DEF Rect

LEMMA RectsHoldPixels ==
  ASSUME NEW x, NEW y, NEW w, NEW h, NEW p \in Rect(x, y, w, h)
  PROVE  p = <<p[1], p[2]>>
BY DEF Rect

LEMMA SegmentIs ==
  ASSUME Room, NEW segment \in Seven, NEW x \in Int
  PROVE  /\ SegmentRect(segment, x)
              = Rect(x + Left(segment), ORIGIN_Y + Top(segment), Across(segment), Down(segment))
         /\ Left(segment) \in Nat /\ Top(segment) \in Nat
         /\ Across(segment) \in Nat \ {0} /\ Down(segment) \in Nat \ {0}
         /\ Left(segment) + Across(segment) <= CELL_W
         /\ Top(segment) + Down(segment) <= CELL_H
<1>1. /\ Left(segment) \in Nat /\ Top(segment) \in Nat
      /\ Across(segment) \in Nat \ {0} /\ Down(segment) \in Nat \ {0}
      /\ Left(segment) + Across(segment) <= CELL_W
      /\ Top(segment) + Down(segment) <= CELL_H
  BY Layout DEF Seven, Lying, Left, Top, Across, Down
<1>2. SegmentRect(segment, x)
        = Rect(x + Left(segment), ORIGIN_Y + Top(segment), Across(segment), Down(segment))
  <2> DEFINE t == Thickness
             w == CELL_W
             h == CELL_H
             y == ORIGIN_Y
  <2>1. t \in Nat /\ w \in Nat /\ h \in Nat /\ y \in Int /\ Half \in Nat /\ T2 \in Nat
    BY Layout
  <2>2. SegmentRect(segment, x) =
          CASE segment = "a" -> Rect(x + t, y, w - 2 * t, t)
            [] segment = "g" -> Rect(x + t, y + Half - T2, w - 2 * t, t)
            [] segment = "d" -> Rect(x + t, y + h - t, w - 2 * t, t)
            [] segment = "f" -> Rect(x, y, t, Half)
            [] segment = "b" -> Rect(x + w - t, y, t, Half)
            [] segment = "e" -> Rect(x, y + Half, t, Half)
            [] segment = "c" -> Rect(x + w - t, y + Half, t, Half)
    BY DEF SegmentRect, Half, T2
  <2> HIDE DEF t, w, h, y
  <2>3. /\ y = y + 0 /\ x = x + 0 /\ y + Half - T2 = y + (Half - T2)
        /\ y + h - t = y + (h - t) /\ x + w - t = x + (w - t)
    BY <2>1
  <2>4. CASE segment = "a"
    BY <2>2, <2>3, <2>4 DEF Left, Top, Across, Down, Lying, t, w, h, y
  <2>5. CASE segment = "g"
    BY <2>2, <2>3, <2>5 DEF Left, Top, Across, Down, Lying, t, w, h, y
  <2>6. CASE segment = "d"
    BY <2>2, <2>3, <2>6 DEF Left, Top, Across, Down, Lying, t, w, h, y
  <2>7. CASE segment = "f"
    BY <2>2, <2>3, <2>7 DEF Left, Top, Across, Down, Lying, t, w, h, y
  <2>8. CASE segment = "b"
    BY <2>2, <2>3, <2>8 DEF Left, Top, Across, Down, Lying, t, w, h, y
  <2>9. CASE segment = "e"
    BY <2>2, <2>3, <2>9 DEF Left, Top, Across, Down, Lying, t, w, h, y
  <2>10. CASE segment = "c"
    BY <2>2, <2>3, <2>10 DEF Left, Top, Across, Down, Lying, t, w, h, y
  <2>11. QED BY <2>4, <2>5, <2>6, <2>7, <2>8, <2>9, <2>10 DEF Seven
<1>3. QED BY <1>1, <1>2

\* The point drawn at the cell at x.
Dot(x) == PointRect(x - W3)

LEMMA DotIs ==
  ASSUME Room, NEW x \in Int
  PROVE  Dot(x) = Rect(x + (CELL_W - W3 - W6), ORIGIN_Y + (CELL_H - H6), W6, H6)
<1>1. Dot(x) = Rect((x - W3) + CELL_W - W6, ORIGIN_Y + CELL_H - H6, W6, H6)
  BY DEF Dot, PointRect, W6, H6
<1>2. /\ (x - W3) + CELL_W - W6 = x + (CELL_W - W3 - W6)
      /\ ORIGIN_Y + CELL_H - H6 = ORIGIN_Y + (CELL_H - H6)
  BY Layout
<1>3. QED BY <1>1, <1>2

\* The first pixel of a segment.
Corner(segment, x) == <<x + Left(segment), ORIGIN_Y + Top(segment)>>

\* It is in no other segment of the cell and not in its point.
LEMMA CornerIsOwn ==
  ASSUME Room, NEW segment \in Seven, NEW x \in Int
  PROVE  /\ Corner(segment, x) \in SegmentRect(segment, x)
         /\ \A other \in Seven \ {segment} : Corner(segment, x) \notin SegmentRect(other, x)
         /\ Corner(segment, x) \notin Dot(x)
<1>1. Corner(segment, x) \in SegmentRect(segment, x)
  <2>1. SegmentRect(segment, x)
          = Rect(x + Left(segment), ORIGIN_Y + Top(segment), Across(segment), Down(segment))
        /\ Left(segment) \in Nat /\ Top(segment) \in Nat
        /\ Across(segment) \in Nat \ {0} /\ Down(segment) \in Nat \ {0}
    BY SegmentIs
  <2>2. ORIGIN_Y \in Int
    BY Layout
  <2>3. QED BY <2>1, <2>2 DEF Rect, Corner
<1>2. ASSUME NEW other \in Seven \ {segment}
      PROVE  Corner(segment, x) \notin SegmentRect(other, x)
  <2>1. /\ SegmentRect(other, x)
             = Rect(x + Left(other), ORIGIN_Y + Top(other), Across(other), Down(other))
        /\ Left(other) \in Nat /\ Top(other) \in Nat
        /\ Across(other) \in Nat /\ Down(other) \in Nat
        /\ Left(segment) \in Nat /\ Top(segment) \in Nat
    BY SegmentIs
  <2>2. ~(/\ Left(other) <= Left(segment) /\ Left(segment) < Left(other) + Across(other)
          /\ Top(other) <= Top(segment) /\ Top(segment) < Top(other) + Down(other))
    BY Layout DEF Seven, Lying, Left, Top, Across, Down
  <2>3. QED BY <2>1, <2>2, Layout, RectPixel DEF Corner
<1>3. Corner(segment, x) \notin Dot(x)
  <2>1. Left(segment) \in Nat /\ Top(segment) \in Nat
    BY SegmentIs
  <2>2. ~(/\ CELL_W - W3 - W6 <= Left(segment) /\ Left(segment) < CELL_W - W3
          /\ CELL_H - H6 <= Top(segment) /\ Top(segment) < CELL_H)
    BY Layout DEF Seven, Lying, Left, Top
  <2>3. QED BY <2>1, <2>2, Layout, DotIs, RectPixel DEF Corner
<1>4. QED BY <1>1, <1>2, <1>3

\* No two glyphs have the same segments.
LEMMA SegmentTable ==
  ASSUME NEW g \in Glyph
  PROVE  /\ "a" \in Segments(g) <=> g \notin {1, 4, 11}
         /\ "b" \in Segments(g) <=> g \notin {5, 6, 11}
         /\ "c" \in Segments(g) <=> g \notin {2, 11}
         /\ "d" \in Segments(g) <=> g \notin {1, 4, 7, 11}
         /\ "e" \in Segments(g) <=> g \in {0, 2, 6, 8}
         /\ "f" \in Segments(g) <=> g \in {0, 4, 5, 6, 8, 9}
         /\ "g" \in Segments(g) <=> g \notin {0, 1, 7}
<1>1. g \in {0, 1, 2, 3, 4, 5, 6, 7, 8, 9, 11}
  BY DEF Glyph, Minus
<1>2. CASE g = 0
  BY <1>2 DEF Segments, Minus
<1>3. CASE g = 1
  BY <1>3 DEF Segments, Minus
<1>4. CASE g = 2
  BY <1>4 DEF Segments, Minus
<1>5. CASE g = 3
  BY <1>5 DEF Segments, Minus
<1>6. CASE g = 4
  BY <1>6 DEF Segments, Minus
<1>7. CASE g = 5
  BY <1>7 DEF Segments, Minus
<1>8. CASE g = 6
  BY <1>8 DEF Segments, Minus
<1>9. CASE g = 7
  BY <1>9 DEF Segments, Minus
<1>10. CASE g = 8
  BY <1>10 DEF Segments, Minus
<1>11. CASE g = 9
  BY <1>11 DEF Segments, Minus
<1>12. CASE g = 11
  BY <1>12 DEF Segments, Minus
<1>13. QED BY <1>1, <1>2, <1>3, <1>4, <1>5, <1>6, <1>7, <1>8, <1>9, <1>10, <1>11, <1>12

LEMMA GlyphsDiffer ==
  ASSUME NEW g \in Glyph, NEW h \in Glyph,
         \A segment \in Seven : segment \in Segments(g) <=> segment \in Segments(h)
  PROVE  g = h
<1>1. g \in 0 .. 9 \cup {11} /\ h \in 0 .. 9 \cup {11}
  BY DEF Glyph, Minus
<1>2. /\ g \notin {1, 4, 11} <=> h \notin {1, 4, 11}
      /\ g \notin {5, 6, 11} <=> h \notin {5, 6, 11}
      /\ g \notin {2, 11} <=> h \notin {2, 11}
      /\ g \notin {1, 4, 7, 11} <=> h \notin {1, 4, 7, 11}
      /\ g \in {0, 2, 6, 8} <=> h \in {0, 2, 6, 8}
      /\ g \in {0, 4, 5, 6, 8, 9} <=> h \in {0, 4, 5, 6, 8, 9}
      /\ g \notin {0, 1, 7} <=> h \notin {0, 1, 7}
  BY SegmentTable DEF Seven
<1>3. QED BY <1>1, <1>2

-----------------------------------------------------------------------------
(* Characters and cells.                                                    *)

Text == Seq(Glyph \cup {Point})

LEMMA CellOfType ==
  ASSUME NEW txt, NEW j \in Nat \ {0}
  PROVE  /\ CellOf(txt, j) \in Nat /\ CellOf(txt, j) <= j - 1
         /\ IsFiniteSet({k \in 1 .. j - 1 : txt[k] # Point})
<1> DEFINE before == 1 .. j - 1
           glyphs == {k \in before : txt[k] # Point}
<1>1. IsFiniteSet(before) /\ Cardinality(before) = j - 1
  <2>1. j - 1 \in Int /\ 1 \in Int
    OBVIOUS
  <2>2. IsFiniteSet(before) /\ Cardinality(before) = IF 1 > j - 1 THEN 0 ELSE j - 1 - 1 + 1
    BY <2>1, FS_Interval
  <2>3. QED BY <2>2
<1>2. glyphs \in SUBSET before
  OBVIOUS
<1> HIDE DEF before
<1>3. IsFiniteSet(glyphs) /\ Cardinality(glyphs) <= Cardinality(before)
  BY <1>1, <1>2, FS_Subset
<1>4. Cardinality(glyphs) \in Nat
  BY <1>3, FS_CardinalityType
<1>5. CellOf(txt, j) = Cardinality(glyphs)
  BY DEF CellOf, before
<1>6. QED BY <1>1, <1>3, <1>4, <1>5 DEF before

LEMMA CellOfNext ==
  ASSUME NEW txt, NEW j \in Nat \ {0}
  PROVE  CellOf(txt, j + 1) = IF txt[j] # Point THEN CellOf(txt, j) + 1 ELSE CellOf(txt, j)
<1> DEFINE glyphs == {k \in 1 .. j - 1 : txt[k] # Point}
<1>1. {k \in 1 .. (j + 1) - 1 : txt[k] # Point} = IF txt[j] # Point THEN glyphs \cup {j} ELSE glyphs
  OBVIOUS
<1>2. j \notin glyphs
  OBVIOUS
<1>3. IsFiniteSet(glyphs)
  BY CellOfType
<1>4. QED BY <1>1, <1>2, <1>3, FS_AddElement DEF CellOf

LEMMA CellOfGrows ==
  ASSUME NEW txt, NEW j \in Nat \ {0}, NEW k \in Nat \ {0}, j <= k
  PROVE  CellOf(txt, j) <= CellOf(txt, k)
<1>1. {n \in 1 .. j - 1 : txt[n] # Point} \in SUBSET {n \in 1 .. k - 1 : txt[n] # Point}
  OBVIOUS
<1>2. QED BY <1>1, CellOfType, FS_Subset DEF CellOf

\* A cell holds one glyph.
LEMMA OneGlyphToACell ==
  ASSUME NEW txt, NEW j \in Nat \ {0}, NEW k \in Nat \ {0},
         txt[j] # Point, txt[k] # Point, CellOf(txt, j) = CellOf(txt, k)
  PROVE  j = k
<1>1. ASSUME NEW m \in Nat \ {0}, NEW n \in Nat \ {0}, txt[m] # Point, m < n
      PROVE  CellOf(txt, m) < CellOf(txt, n)
  <2>1. CellOf(txt, m + 1) = CellOf(txt, m) + 1
    BY <1>1, CellOfNext
  <2>2. m + 1 \in Nat \ {0} /\ m + 1 <= n
    BY <1>1
  <2>3. CellOf(txt, m + 1) <= CellOf(txt, n)
    BY <2>2, CellOfGrows
  <2>4. CellOf(txt, m) \in Nat /\ CellOf(txt, n) \in Nat
    BY CellOfType
  <2>5. QED BY <2>1, <2>3, <2>4
<1>2. CellOf(txt, j) \in Nat /\ CellOf(txt, k) \in Nat
  BY CellOfType
<1>3. ~(j < k) /\ ~(k < j)
  BY <1>1, <1>2
<1>4. QED BY <1>3

LEMMA CellsApart ==
  ASSUME Room, NEW c \in Nat, NEW d \in Nat
  PROVE  /\ CellX(c) \in Int
         /\ c < d => CellX(c) + Pitch <= CellX(d)
<1>1. ORIGIN_X \in Nat /\ Pitch \in Nat
  BY Layout DEF Room
<1>2. ASSUME c < d
      PROVE  c * Pitch + Pitch <= d * Pitch
  <2> DEFINE p == Pitch
             k == d - c - 1
  <2>1. k \in Nat /\ d = c + 1 + k /\ p \in Nat
    BY <1>1, <1>2
  <2> HIDE DEF p, k
  <2>2. k * p \in Nat /\ d * p = c * p + p + k * p
    BY <2>1
  <2>3. QED BY <2>1, <2>2 DEF p
<1>3. c * Pitch \in Nat /\ d * Pitch \in Nat
  BY <1>1
<1>4. QED BY <1>1, <1>2, <1>3 DEF CellX

LEMMA CellsOnPanel ==
  ASSUME Room, NEW c \in Nat, c < MAX_CHARS
  PROVE  CellX(c) \in Nat /\ CellX(c) + CELL_W <= PANEL_WIDTH
<1>1. MAX_CHARS \in Nat \ {0} /\ MAX_CHARS - 1 \in Nat
  BY DEF Room
<1>2. CellX(MAX_CHARS - 1) + CELL_W <= PANEL_WIDTH /\ PANEL_WIDTH \in Nat
  BY DEF CellX, Room
<1>3. c = MAX_CHARS - 1 \/ c < MAX_CHARS - 1
  BY <1>1
<1>4. CellX(c) <= CellX(MAX_CHARS - 1)
  BY <1>1, <1>3, CellsApart, Layout
<1>5. CellX(c) \in Nat
  <2>1. ORIGIN_X \in Nat /\ Pitch \in Nat
    BY Layout DEF Room
  <2>2. c * Pitch \in Nat
    BY <2>1
  <2>3. QED BY <2>1, <2>2 DEF CellX
<1>6. QED BY <1>1, <1>2, <1>4, <1>5, Layout, CellsApart

-----------------------------------------------------------------------------
(* What is lit.                                                             *)

\* What a character lights, and the cell it is drawn in.
Ink(txt, j) ==
  IF txt[j] = Point THEN Dot(CellX(CellOf(txt, j)))
  ELSE UNION {SegmentRect(segment, CellX(CellOf(txt, j))) : segment \in Segments(txt[j])}

InCell(p, c) ==
  /\ p[1] \in Int /\ CellX(c) <= p[1] /\ p[1] < CellX(c) + CELL_W
  /\ p[2] \in Int /\ ORIGIN_Y <= p[2] /\ p[2] < ORIGIN_Y + CELL_H
  /\ p = <<p[1], p[2]>>

LEMMA RectInCell ==
  ASSUME Room, NEW c \in Nat, NEW x \in Nat, NEW y \in Nat, NEW w \in Nat, NEW h \in Nat,
         x + w <= CELL_W, y + h <= CELL_H,
         NEW p \in Rect(CellX(c) + x, ORIGIN_Y + y, w, h)
  PROVE  InCell(p, c)
<1>1. CellX(c) \in Int /\ ORIGIN_Y \in Int /\ CELL_W \in Nat /\ CELL_H \in Nat
  BY CellsApart, Layout
<1>2. p = <<p[1], p[2]>>
  BY RectsHoldPixels
<1>3. <<p[1], p[2]>> \in Rect(CellX(c) + x, ORIGIN_Y + y, w, h)
  BY <1>2
<1>4. CellX(c) + x \in Int /\ ORIGIN_Y + y \in Int
  BY <1>1
<1>5. /\ p[1] \in Int /\ CellX(c) + x <= p[1] /\ p[1] < CellX(c) + x + w
      /\ p[2] \in Int /\ ORIGIN_Y + y <= p[2] /\ p[2] < ORIGIN_Y + y + h
  BY <1>3, <1>4, RectPixel
<1>6. QED BY <1>1, <1>2, <1>5 DEF InCell

LEMMA SegmentInCell ==
  ASSUME Room, NEW c \in Nat, NEW segment \in Seven, NEW p \in SegmentRect(segment, CellX(c))
  PROVE  InCell(p, c)
<1>1. CellX(c) \in Int
  BY CellsApart
<1>2. /\ p \in Rect(CellX(c) + Left(segment), ORIGIN_Y + Top(segment),
                    Across(segment), Down(segment))
      /\ Left(segment) \in Nat /\ Top(segment) \in Nat
      /\ Across(segment) \in Nat /\ Down(segment) \in Nat
      /\ Left(segment) + Across(segment) <= CELL_W
      /\ Top(segment) + Down(segment) <= CELL_H
  BY <1>1, SegmentIs
<1>3. QED BY <1>2, RectInCell

LEMMA DotInCell ==
  ASSUME Room, NEW c \in Nat, NEW p \in Dot(CellX(c))
  PROVE  InCell(p, c)
<1>1. CellX(c) \in Int
  BY CellsApart
<1>2. /\ CELL_W - W3 - W6 \in Nat /\ CELL_H - H6 \in Nat /\ W6 \in Nat /\ H6 \in Nat
      /\ CELL_W - W3 - W6 + W6 <= CELL_W /\ CELL_H - H6 + H6 <= CELL_H
  BY Layout
<1>3. p \in Rect(CellX(c) + (CELL_W - W3 - W6), ORIGIN_Y + (CELL_H - H6), W6, H6)
  BY <1>1, DotIs
<1>4. QED BY <1>2, <1>3, RectInCell

LEMMA InkInCell ==
  ASSUME Room, NEW txt \in Text, NEW j \in 1 .. Len(txt), NEW p \in Ink(txt, j)
  PROVE  InCell(p, CellOf(txt, j))
<1>1. CellOf(txt, j) \in Nat
  <2>1. j \in Nat \ {0}
    OBVIOUS
  <2>2. QED BY <2>1, CellOfType
<1>2. CASE txt[j] = Point
  BY <1>1, <1>2, DotInCell DEF Ink
<1>3. CASE txt[j] # Point
  <2>1. txt[j] \in Glyph
    BY <1>3 DEF Text
  <2>2. PICK segment \in Segments(txt[j]) : p \in SegmentRect(segment, CellX(CellOf(txt, j)))
    BY <1>3 DEF Ink
  <2>3. segment \in Seven
    BY <2>1, SegmentsAreSeven
  <2>4. QED BY <1>1, <2>2, <2>3, SegmentInCell
<1>4. QED BY <1>2, <1>3

\* Lit is what the characters behind the cursor light, each in its cell.
DrawnInv ==
  /\ text \in Numerals
  /\ i \in 1 .. Len(text) + 1 /\ i <= MAX_CHARS + 1
  /\ cursor_x = CellX(CellOf(text, i))
  /\ lit = UNION {Ink(text, j) : j \in 1 .. i - 1}

LEMMA DrawnInit == Room /\ DrawInit => DrawnInv
<1> SUFFICES ASSUME Room, DrawInit PROVE DrawnInv
  OBVIOUS
<1>1. text \in Text /\ i = 1 /\ MAX_CHARS \in Nat
  BY DEF DrawInit, Text, Room
<1>2. i \in 1 .. Len(text) + 1 /\ i <= MAX_CHARS + 1 /\ 1 .. i - 1 = {}
  BY <1>1 DEF Text
<1>3. CellOf(text, i) = 0
  <2>1. {k \in 1 .. i - 1 : text[k] # Point} = {}
    BY <1>1
  <2>2. QED BY <2>1, FS_EmptySet DEF CellOf
<1>4. CellX(0) = ORIGIN_X
  BY Layout DEF CellX, Room
<1>5. QED BY <1>2, <1>3, <1>4 DEF DrawInit, DrawnInv

LEMMA DrawnInductive == Room /\ DrawnInv /\ [DrawNext]_drawing => DrawnInv'
<1> SUFFICES ASSUME Room, DrawnInv, [DrawNext]_drawing
             PROVE  DrawnInv'
  OBVIOUS
<1>1. CASE UNCHANGED drawing
  BY <1>1 DEF DrawnInv, drawing, Ink, CellOf
<1>2. CASE DrawNext
  <2>1. /\ text \in Text /\ text' = text /\ i' = i + 1 /\ i \in Nat \ {0}
        /\ i <= Len(text) /\ i <= MAX_CHARS /\ Len(text) \in Nat /\ MAX_CHARS \in Nat
    BY <1>2 DEF DrawnInv, DrawNext, DrawPoint, DrawGlyph, MoreToDraw, Text, Room
  <2> DEFINE c == CellOf(text, i)
  <2>2. c \in Nat /\ CellX(c) \in Int
    BY <2>1, CellOfType, CellsApart
  <2>3. lit' = lit \cup Ink(text, i) /\ cursor_x' = CellX(CellOf(text, i + 1))
    <3>1. CASE DrawPoint
      <4>1. text[i] = Point /\ lit' = lit \cup Dot(CellX(c)) /\ cursor_x' = CellX(c)
        BY <3>1 DEF DrawPoint, DrawnInv, Dot, W3
      <4>2. CellOf(text, i + 1) = c
        BY <2>1, <4>1, CellOfNext
      <4>3. QED BY <4>1, <4>2 DEF Ink
    <3>2. CASE DrawGlyph
      <4>1. /\ text[i] # Point
            /\ lit' = lit \cup UNION {SegmentRect(s, CellX(c)) : s \in Segments(text[i])}
            /\ cursor_x' = CellX(c) + Pitch
        BY <3>2 DEF DrawGlyph, DrawnInv
      <4>2. CellOf(text, i + 1) = c + 1
        BY <2>1, <4>1, CellOfNext
      <4>3. CellX(c + 1) = CellX(c) + Pitch
        <5>1. ORIGIN_X \in Nat /\ Pitch \in Nat
          BY Layout DEF Room
        <5> HIDE DEF c
        <5>2. (c + 1) * Pitch = c * Pitch + Pitch /\ c * Pitch \in Nat
          BY <2>2, <5>1
        <5>3. QED BY <5>1, <5>2 DEF CellX
      <4>4. QED BY <4>1, <4>2, <4>3 DEF Ink
    <3>3. QED BY <1>2, <3>1, <3>2 DEF DrawNext
  <2>4. 1 .. (i + 1) - 1 = 1 .. i - 1 \cup {i}
    BY <2>1
  <2>5. lit' = UNION {Ink(text, j) : j \in 1 .. (i + 1) - 1}
    BY <2>3, <2>4 DEF DrawnInv
  <2>6. (cursor_x = CellX(CellOf(text, i)))' /\ (lit = UNION {Ink(text, j) : j \in 1 .. i - 1})'
    BY <2>1, <2>3, <2>5
  <2>7. QED BY <2>1, <2>6 DEF DrawnInv
<1>3. QED BY <1>1, <1>2

-----------------------------------------------------------------------------
(* What is read.                                                            *)

\* What is seen in a cell is what the characters drawn in it light: no cell
\* reaches into another, and each is on the panel.
LEMMA SeenInCell ==
  ASSUME Room, DrawnInv, NEW c \in Nat, NEW p, InCell(p, c)
  PROVE  p \in Seen <=> \E j \in 1 .. i - 1 : CellOf(text, j) = c /\ p \in Ink(text, j)
<1>1. /\ text \in Text /\ i \in Nat \ {0} /\ i - 1 <= Len(text) /\ i - 1 <= MAX_CHARS
      /\ Len(text) \in Nat /\ MAX_CHARS \in Nat
  BY DEF DrawnInv, Text, Room
<1>2. \A j \in 1 .. i - 1 : /\ j \in Nat \ {0} /\ j \in 1 .. Len(text)
                            /\ CellOf(text, j) \in Nat /\ CellOf(text, j) < MAX_CHARS
  <2> TAKE j \in 1 .. i - 1
  <2>1. j \in Nat \ {0} /\ j \in 1 .. Len(text) /\ j <= MAX_CHARS
    BY <1>1
  <2>2. CellOf(text, j) \in Nat /\ CellOf(text, j) <= j - 1
    BY <2>1, CellOfType
  <2>3. QED BY <1>1, <2>1, <2>2
<1>3. ASSUME NEW j \in 1 .. i - 1, p \in Ink(text, j)
      PROVE  CellOf(text, j) = c
  <2> DEFINE d == CellOf(text, j)
  <2>1. d \in Nat /\ InCell(p, d)
    BY <1>1, <1>2, <1>3, InkInCell
  <2> HIDE DEF d
  <2>2. /\ CellX(c) \in Int /\ CellX(d) \in Int /\ CELL_W \in Nat /\ Pitch >= CELL_W /\ Pitch \in Nat
        /\ c < d => CellX(c) + Pitch <= CellX(d)
        /\ d < c => CellX(d) + Pitch <= CellX(c)
    BY <2>1, CellsApart, Layout
  <2>3. ~(c < d) /\ ~(d < c)
    BY <2>1, <2>2 DEF InCell
  <2>4. d = c
    BY <2>1, <2>3
  <2>5. QED BY <2>4 DEF d
<1>4. ASSUME p \in Seen
      PROVE  \E j \in 1 .. i - 1 : CellOf(text, j) = c /\ p \in Ink(text, j)
  <2>1. PICK j \in 1 .. i - 1 : p \in Ink(text, j)
    BY <1>4 DEF Seen, DrawnInv
  <2>2. QED BY <1>3, <2>1
<1>5. ASSUME NEW j \in 1 .. i - 1, CellOf(text, j) = c, p \in Ink(text, j)
      PROVE  p \in Seen
  <2>1. p \in lit
    BY <1>5 DEF DrawnInv
  <2>2. CellX(c) \in Nat /\ CellX(c) + CELL_W <= PANEL_WIDTH
    BY <1>2, <1>5, CellsOnPanel
  <2>3. /\ ORIGIN_Y \in Nat /\ CELL_H \in Nat /\ CELL_W \in Nat
        /\ PANEL_WIDTH \in Nat /\ PANEL_HEIGHT \in Nat /\ ORIGIN_Y + CELL_H <= PANEL_HEIGHT
    BY DEF Room
  <2>4. p[1] \in 0 .. PANEL_WIDTH - 1 /\ p[2] \in 0 .. PANEL_HEIGHT - 1 /\ p = <<p[1], p[2]>>
    BY <2>2, <2>3 DEF InCell
  <2>5. p \in (0 .. PANEL_WIDTH - 1) \X (0 .. PANEL_HEIGHT - 1)
    BY <2>4
  <2>6. QED BY <2>1, <2>5 DEF Seen
<1>6. QED BY <1>4, <1>5

LEMMA GlyphReadsBack ==
  ASSUME Room, DrawnInv, NEW j \in 1 .. i - 1, text[j] # Point
  PROVE  ReadGlyph(CellOf(text, j)) = {text[j]}
<1> DEFINE c == CellOf(text, j)
           g == text[j]
<1>1. /\ text \in Text /\ j \in Nat \ {0} /\ j \in 1 .. Len(text)
      /\ \A k \in 1 .. i - 1 : k \in Nat \ {0}
  BY DEF DrawnInv, Text, Room
<1>2. g \in Glyph /\ c \in Nat /\ CellX(c) \in Int
  <2>1. g \in Glyph
    BY <1>1 DEF Text
  <2>2. c \in Nat
    BY <1>1, CellOfType
  <2>3. QED BY <2>1, <2>2, CellsApart
<1>3. Ink(text, j) = UNION {SegmentRect(s, CellX(c)) : s \in Segments(g)}
  BY DEF Ink
<1>4. ASSUME NEW s \in Seven
      PROVE  s \in Segments(g) <=> SegmentRect(s, CellX(c)) \subseteq Seen
  <2>1. ASSUME s \in Segments(g), NEW p \in SegmentRect(s, CellX(c))
        PROVE  p \in Seen
    <3>1. InCell(p, c)
      BY <1>2, SegmentInCell
    <3>2. p \in Ink(text, j)
      BY <1>3, <2>1
    <3>3. QED BY <1>2, <3>1, <3>2, SeenInCell
  <2>2. ASSUME s \notin Segments(g)
        PROVE  ~(SegmentRect(s, CellX(c)) \subseteq Seen)
    <3> DEFINE p == Corner(s, CellX(c))
    <3>1. /\ p \in SegmentRect(s, CellX(c)) /\ p \notin Dot(CellX(c))
          /\ \A other \in Seven \ {s} : p \notin SegmentRect(other, CellX(c))
      BY <1>2, CornerIsOwn
    <3> HIDE DEF p
    <3>2. InCell(p, c)
      BY <1>2, <3>1, SegmentInCell
    <3>3. \A k \in 1 .. i - 1 : CellOf(text, k) = c => p \notin Ink(text, k)
      <4> SUFFICES ASSUME NEW k \in 1 .. i - 1, CellOf(text, k) = c
                   PROVE  p \notin Ink(text, k)
        OBVIOUS
      <4>1. CASE text[k] = Point
        BY <3>1, <4>1 DEF Ink
      <4>2. CASE text[k] # Point
        <5>1. k = j
          BY <1>1, <4>2, OneGlyphToACell
        <5>2. \A r \in Segments(g) : r \in Seven \ {s}
          BY <1>2, <2>2, SegmentsAreSeven
        <5>3. QED BY <1>3, <3>1, <5>1, <5>2
      <4>3. QED BY <4>1, <4>2
    <3>4. p \notin Seen
      BY <1>2, <3>2, <3>3, SeenInCell
    <3>5. QED BY <3>1, <3>4
  <2>3. QED BY <2>1, <2>2
<1> HIDE DEF c, g
<1>5. ReadGlyph(c) = {h \in Glyph : \A s \in Seven : s \in Segments(h) <=> s \in Segments(g)}
  BY <1>4, SegmentsOfEight DEF ReadGlyph
<1>6. ReadGlyph(c) = {g}
  BY <1>2, <1>5, GlyphsDiffer
<1>7. QED BY <1>6 DEF c, g

\* The sizes of main.c:29 and :187 leave room.
LEMMA RoomOnThePanel ==
  ASSUME ORIGIN_X = 0, ORIGIN_Y = 2, CELL_W = 11, CELL_H = 18, MAX_CHARS = 12,
         PANEL_WIDTH = 144, PANEL_HEIGHT = 32,
         Numerals \in SUBSET Seq(Glyph \cup {Point})
  PROVE  Room
<1>1. Min({CELL_W, CELL_H}) = 11
  BY MinOfTwo
<1>2. Thickness = Max({2, 11 \div 6})
  BY <1>1 DEF Thickness
<1>3. Thickness = 2
  <2>1. 11 \div 6 = 1
    OBVIOUS
  <2>2. Thickness = Max({2, 1})
    BY <1>2, <2>1
  <2>3. QED BY <2>2, MaxOfTwo
<1>4. Pitch = 12 /\ Thickness < CELL_H \div 6
  BY <1>3 DEF Pitch
<1>5. QED BY <1>4 DEF Room

\* With cells of any size that leave room, in a text of digits, minus signs and
\* points, however long, every digit and sign reads back from the panel as far
\* as the text was drawn.
THEOREM NumbersAreLegible == Room /\ DrawSpec => []DigitsLegible
<1> SUFFICES ASSUME Room PROVE DrawSpec => []DigitsLegible
  OBVIOUS
<1>1. DrawInit => DrawnInv
  BY DrawnInit
<1>2. DrawnInv /\ [DrawNext]_drawing => DrawnInv'
  BY DrawnInductive
<1>3. DrawnInv => DigitsLegible
  BY GlyphReadsBack DEF DigitsLegible
<1>4. QED BY <1>1, <1>2, <1>3, PTL DEF DrawSpec

=============================================================================
