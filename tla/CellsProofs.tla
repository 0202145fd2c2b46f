----------------------------- MODULE CellsProofs -----------------------------
(***************************************************************************)
(* Theorems about module Cells, for every table, every geometry and every  *)
(* page height: type correctness; when the glyphs of a cell stay inside    *)
(* it; when looking back at a page shows the same table part again.        *)
(*                                                                         *)
(* The argument.  A row is set up from the cells as they were begun or     *)
(* reset, so what its cells look like depends only on where the row        *)
(* begins (SetupAlike).  The rows of a page are stacked from its top       *)
(* (Stacked), and a page that a row did not fit ends where it must (Full), *)
(* so two stacks of one page that begin with the same row are equal        *)
(* (FullAlike).  Induction over the glyphs of a cell and over the rows of  *)
(* a page is by least counterexample (ByLeast).                            *)
(***************************************************************************)
EXTENDS Cells, TextLayoutProofs, SequenceTheorems, FiniteSetTheorems,
        WellFoundedInduction, TLAPS

-----------------------------------------------------------------------------
(* Numbers.                                                                 *)

LEMMA LeastOf ==
  ASSUME NEW S \in SUBSET Nat, S # {}
  PROVE  \E m \in S : \A j \in S : m <= j
<1>1. PICK m \in S : \A y \in S : <<y, m>> \notin OpToRel(<, Nat)
      BY NatLessThanWellFounded, WFMin, Zenon
<1>2. ASSUME NEW y \in S PROVE m <= y
  <2>1. y \in Nat /\ m \in Nat
        OBVIOUS
  <2>2. y < m => <<y, m>> \in OpToRel(<, Nat)
        BY <2>1 DEF OpToRel
  <2>3. ~(y < m)
        BY <1>1, <2>2, Zenon
  <2> QED BY <2>1, <2>3
<1> QED BY <1>2

LEMMA ByLeast ==
  ASSUME NEW N \in Nat, NEW S \in SUBSET (0 .. N), 0 \in S,
         \A n \in 1 .. N : n - 1 \in S => n \in S
  PROVE  S = 0 .. N
<1> SUFFICES ASSUME S # 0 .. N PROVE FALSE
    OBVIOUS
<1>1. (0 .. N) \ S \in SUBSET Nat /\ (0 .. N) \ S # {}
  <2>1. \E n \in 0 .. N : n \notin S
        BY Zenon
  <2> QED BY <2>1
<1>2. PICK m \in (0 .. N) \ S : \A j \in (0 .. N) \ S : m <= j
      BY <1>1, LeastOf
<1>3. m \in 1 .. N /\ m - 1 \in 0 .. N /\ ~(m <= m - 1)
      OBVIOUS
<1>4. m - 1 \in S
      BY <1>2, <1>3
<1> QED BY <1>2, <1>3, <1>4

-----------------------------------------------------------------------------
(* The layouts behind each of a cell's glyphs.                              *)

Follows(f, n, c0, cell) ==
  f = [k \in 0 .. n |-> IF k = 0 THEN c0 ELSE GlyphInCell(f[k - 1], cell, k)]

LEMMA FollowsAt ==
  ASSUME NEW f, NEW n \in Nat, NEW c0, NEW cell, Follows(f, n, c0, cell), NEW k \in 0 .. n
  PROVE  f[k] = IF k = 0 THEN c0 ELSE GlyphInCell(f[k - 1], cell, k)
BY DEF Follows

LEMMA FollowsOn ==
  ASSUME NEW n \in Nat, n > 0, NEW c0, NEW cell, NEW g, Follows(g, n - 1, c0, cell)
  PROVE  \E f : Follows(f, n, c0, cell)
<1> DEFINE f == [k \in 0 .. n |-> IF k = n THEN GlyphInCell(g[n - 1], cell, n) ELSE g[k]]
<1>1. ASSUME NEW k \in 0 .. n
      PROVE  f[k] = IF k = 0 THEN c0 ELSE GlyphInCell(f[k - 1], cell, k)
  <2>1. CASE k = n
    <3>1. f[n] = GlyphInCell(g[n - 1], cell, n) /\ f[n - 1] = g[n - 1]
          OBVIOUS
    <3> QED BY <2>1, <3>1
  <2>2. CASE k # n
    <3>1. k \in 0 .. n - 1 /\ f[k] = g[k]
          BY <2>2
    <3>2. k # 0 => f[k - 1] = g[k - 1]
          BY <3>1
    <3>3. g[k] = IF k = 0 THEN c0 ELSE GlyphInCell(g[k - 1], cell, k)
          BY <3>1, FollowsAt
    <3> QED BY <3>1, <3>2, <3>3
  <2> QED BY <2>1, <2>2
<1>2. f = [k \in 0 .. n |-> f[k]]
      OBVIOUS
<1> HIDE DEF f
<1>3. f = [k \in 0 .. n |-> IF k = 0 THEN c0 ELSE GlyphInCell(f[k - 1], cell, k)]
      BY <1>1, <1>2
<1> QED BY <1>3 DEF Follows

LEMMA SomeFollows ==
  ASSUME NEW N \in Nat, NEW c0, NEW cell
  PROVE  \E f : Follows(f, N, c0, cell)
<1> DEFINE S == {n \in 0 .. N : \E f : Follows(f, n, c0, cell)}
<1>1. 0 \in S
  <2>1. Follows([k \in 0 .. 0 |-> c0], 0, c0, cell)
        BY DEF Follows
  <2> QED BY <2>1
<1>2. ASSUME NEW n \in 1 .. N, n - 1 \in S PROVE n \in S
  <2>1. PICK g : Follows(g, n - 1, c0, cell)
        BY <1>2
  <2>2. n \in Nat /\ n > 0 /\ n \in 0 .. N
        OBVIOUS
  <2>3. \E f : Follows(f, n, c0, cell)
        BY <2>1, <2>2, FollowsOn
  <2> QED BY <2>2, <2>3
<1>3. S \in SUBSET (0 .. N)
      OBVIOUS
<1> HIDE DEF S
<1>4. S = 0 .. N
      BY <1>1, <1>2, <1>3, ByLeast
<1>5. N \in S
      BY <1>4
<1> QED BY <1>5 DEF S

\* Behind no glyph a cell is as it began, behind each glyph as that leaves it.
LEMMA BehindIs ==
  ASSUME NEW c0, NEW cell, Len(cell.text) \in Nat
  PROVE  /\ Behind(c0, cell)[0] = c0
         /\ \A k \in 1 .. Len(cell.text) :
              Behind(c0, cell)[k] = GlyphInCell(Behind(c0, cell)[k - 1], cell, k)
<1>1. Follows(Behind(c0, cell), Len(cell.text), c0, cell)
  <2>1. PICK f : Follows(f, Len(cell.text), c0, cell)
        BY SomeFollows
  <2>2. f = [k \in 0 .. Len(cell.text) |-> IF k = 0 THEN c0 ELSE GlyphInCell(f[k - 1], cell, k)]
        BY <2>1 DEF Follows
  <2>3. \E g : g = [k \in 0 .. Len(cell.text) |->
                      IF k = 0 THEN c0 ELSE GlyphInCell(g[k - 1], cell, k)]
        BY <2>2
  <2> QED BY <2>3 DEF Behind, Follows
<1> QED BY <1>1, FollowsAt

-----------------------------------------------------------------------------
(* What the layout's operators leave in a cell.                             *)

LEMMA GlyphIs ==
  ASSUME NEW cell \in CellSet, NEW k \in DOMAIN cell.text
  PROVE  /\ k \in Nat /\ cell.text[k] \in Glyphs
         /\ cell.text[k].w \in Nat /\ cell.text[k].h \in Nat /\ cell.text[k].b \in Int
         /\ cell.text[k].kind \in {"char", "break"}
<1>1. cell.text \in Seq(Glyphs)
      BY DEF CellSet
<1>2. cell.text[k] \in Glyphs /\ k \in Nat
      BY <1>1
<1> QED BY <1>2 DEF Glyphs

LEMMA CellFields ==
  ASSUME NEW cell, NEW c \in CellType(cell)
  PROVE  /\ c.x \in Int /\ c.y \in Int /\ c.base \in Int /\ c.max \in Int
         /\ c.lastBase \in Int /\ c.lastMax \in Int /\ c.align \in Aligns
         /\ c.line \in Seq(DOMAIN cell.text) /\ c.extent \in Int
         /\ c.pos \in [DOMAIN cell.text -> [x : Int, y : Int]]
BY DEF CellType

LEMMA TimesType ==
  ASSUME NEW cell, NEW c \in CellType(cell), NEW k
  PROVE  Times(c, k) \in Nat
<1>1. c.line \in Seq(DOMAIN cell.text)
      BY CellFields
<1>2. DOMAIN c.line = 1 .. Len(c.line) /\ Len(c.line) \in Nat
      BY <1>1
<1>3. IsFiniteSet(1 .. Len(c.line))
      BY <1>2, FS_Interval
<1>4. {i \in DOMAIN c.line : c.line[i] = k} \subseteq 1 .. Len(c.line)
      BY <1>2
<1>5. IsFiniteSet({i \in DOMAIN c.line : c.line[i] = k})
      BY <1>3, <1>4, FS_Subset
<1> QED BY <1>5, FS_CardinalityType DEF Times

LEMMA RelocFields ==
  ASSUME NEW cell \in CellSet, NEW c \in CellType(cell)
  PROVE  LET d == RelocLine(c, cell)
         IN  /\ d \in CellType(cell)
             /\ d.x = c.x /\ d.y = c.y /\ d.base = c.base /\ d.max = c.max
             /\ d.lastBase = c.lastBase /\ d.lastMax = c.lastMax /\ d.align = c.align
             /\ \A k \in DOMAIN cell.text :
                  c.align = "left" /\ c.lastBase <= cell.text[k].b => d.pos[k] = c.pos[k]
<1> DEFINE X(k) == c.pos[k].x + Times(c, k) * Shift(c, cell)
           Y(k) == c.pos[k].y + Times(c, k) * Down(c, cell, k)
           q == [k \in DOMAIN cell.text |-> [x |-> X(k), y |-> Y(k)]]
<1>1. c.align \in Aligns /\ c.extent \in Int /\ c.lastBase \in Int /\ cell.width \in Nat
      BY CellFields DEF CellSet
<1>2. Shift(c, cell) \in Int /\ (c.align = "left" => Shift(c, cell) = 0)
  <2>1. cell.width - TableMargin - c.extent \in Int
        BY <1>1 DEF TableMargin
  <2>2. CASE c.align = "left"
        BY <2>2 DEF Shift
  <2>3. CASE c.align = "centre"
        BY <2>1, <2>3 DEF Shift
  <2>4. CASE c.align = "right"
        BY <2>1, <2>4 DEF Shift
  <2> QED BY <1>1, <2>2, <2>3, <2>4 DEF Aligns
<1>3. ASSUME NEW k \in DOMAIN cell.text
      PROVE  /\ X(k) \in Int /\ Y(k) \in Int /\ c.pos[k] \in [x : Int, y : Int]
             /\ c.align = "left" /\ c.lastBase <= cell.text[k].b =>
                  X(k) = c.pos[k].x /\ Y(k) = c.pos[k].y
  <2>1. c.pos[k] \in [x : Int, y : Int]
        BY CellFields
  <2>2. c.pos[k].x \in Int /\ c.pos[k].y \in Int
        BY <2>1
  <2>3. cell.text[k].b \in Int
        BY GlyphIs
  <2>4. Down(c, cell, k) \in Int /\ (c.lastBase <= cell.text[k].b => Down(c, cell, k) = 0)
        BY <1>1, <2>3 DEF Down, Larger
  <2>5. Times(c, k) \in Nat
        BY TimesType
  <2>6. X(k) \in Int /\ (Shift(c, cell) = 0 => X(k) = c.pos[k].x)
        BY <1>2, <2>2, <2>5
  <2>7. Y(k) \in Int /\ (Down(c, cell, k) = 0 => Y(k) = c.pos[k].y)
        BY <2>2, <2>4, <2>5
  <2> QED BY <1>2, <2>1, <2>4, <2>6, <2>7
<1>4. q \in [DOMAIN cell.text -> [x : Int, y : Int]]
  <2> HIDE DEF X, Y
  <2> QED BY <1>3
<1>5. DOMAIN c.pos = DOMAIN cell.text
      BY CellFields
<1>6. RelocLine(c, cell) = [c EXCEPT !.pos = q]
      BY <1>5 DEF RelocLine
<1>7. ASSUME NEW k \in DOMAIN cell.text, c.align = "left", c.lastBase <= cell.text[k].b
      PROVE  q[k] = c.pos[k]
  <2>1. q[k] = [x |-> X(k), y |-> Y(k)]
        OBVIOUS
  <2> HIDE DEF X, Y, q
  <2> QED BY <1>3, <1>7, <2>1
<1> HIDE DEF q
<1>8. [c EXCEPT !.pos = q] \in CellType(cell)
      BY <1>4 DEF CellType
<1>9. LET d == [c EXCEPT !.pos = q]
      IN  /\ d.x = c.x /\ d.y = c.y /\ d.base = c.base /\ d.max = c.max
          /\ d.lastBase = c.lastBase /\ d.lastMax = c.lastMax /\ d.align = c.align /\ d.pos = q
      BY DEF CellType
<1> QED BY <1>6, <1>7, <1>8, <1>9

WithLine(c, l, e) == [c EXCEPT !.line = l, !.extent = e]

LEMMA LineSet ==
  ASSUME NEW cell, NEW c \in CellType(cell), NEW l \in Seq(DOMAIN cell.text), NEW e \in Int
  PROVE  LET d == WithLine(c, l, e)
         IN  /\ d \in CellType(cell)
             /\ d.x = c.x /\ d.y = c.y /\ d.base = c.base /\ d.max = c.max
             /\ d.lastBase = c.lastBase /\ d.lastMax = c.lastMax /\ d.align = c.align
             /\ d.pos = c.pos
<1>1. WithLine(c, l, e) \in CellType(cell)
      BY DEF CellType, WithLine
<1> QED BY <1>1 DEF CellType, WithLine

LEMMA LineFields ==
  ASSUME NEW cell, NEW c \in CellType(cell)
  PROVE  LET d == NextLineOf(c)
         IN  /\ d \in CellType(cell)
             /\ d.x = c.x /\ d.y = c.y /\ d.base = c.base /\ d.max = c.max
             /\ d.lastBase = c.lastBase /\ d.lastMax = c.lastMax /\ d.align = "left" /\ d.pos = c.pos
<1> DEFINE n == <<>>
           e == WithLine(c, n, 0)
<1>1. n \in Seq(DOMAIN cell.text) /\ 0 \in Int /\ "left" \in Aligns
      BY DEF Aligns
<1>2. NextLineOf(c) = [e EXCEPT !.align = "left"]
      BY DEF NextLineOf, WithLine
<1> HIDE DEF n
<1>3. /\ e \in CellType(cell) /\ e.x = c.x /\ e.y = c.y /\ e.base = c.base /\ e.max = c.max
      /\ e.lastBase = c.lastBase /\ e.lastMax = c.lastMax /\ e.pos = c.pos
      BY <1>1, LineSet
<1> HIDE DEF e
<1>4. LET d == [e EXCEPT !.align = "left"]
      IN  /\ d \in CellType(cell)
          /\ d.x = e.x /\ d.y = e.y /\ d.base = e.base /\ d.max = e.max
          /\ d.lastBase = e.lastBase /\ d.lastMax = e.lastMax /\ d.align = "left" /\ d.pos = e.pos
      BY <1>1, <1>3 DEF CellType
<1> QED BY <1>2, <1>3, <1>4

Changed(c, x, y, base, max, lastBase, lastMax) ==
  [c EXCEPT !.x = x, !.y = y, !.base = base, !.max = max,
            !.lastBase = lastBase, !.lastMax = lastMax]

LEMMA ChangedFields ==
  ASSUME NEW cell, NEW c \in CellType(cell), NEW x \in Int, NEW y \in Int, NEW base \in Int,
         NEW max \in Int, NEW lastBase \in Int, NEW lastMax \in Int
  PROVE  LET d == Changed(c, x, y, base, max, lastBase, lastMax)
         IN  /\ d \in CellType(cell)
             /\ d.x = x /\ d.y = y /\ d.base = base /\ d.max = max
             /\ d.lastBase = lastBase /\ d.lastMax = lastMax /\ d.align = c.align
             /\ d.pos = c.pos
<1>1. Changed(c, x, y, base, max, lastBase, lastMax) \in CellType(cell)
      BY DEF Changed, CellType
<1> QED BY <1>1 DEF Changed, CellType

LEMMA AddedFields ==
  ASSUME NEW cell \in CellSet, NEW c \in CellType(cell), NEW k \in DOMAIN cell.text, NEW w \in Int
  PROVE  LET d == AddGlyph(c, k, w)
         IN  /\ d \in CellType(cell)
             /\ d.x = c.x /\ d.y = c.y /\ d.base = c.base /\ d.max = c.max
             /\ d.lastBase = c.lastBase /\ d.lastMax = c.lastMax /\ d.align = c.align
             /\ d.pos = c.pos
<1> DEFINE l == Append(c.line, k)
           e == Larger(c.extent, c.pos[k].x + w)
<1>1. l \in Seq(DOMAIN cell.text)
  <2>1. c.line \in Seq(DOMAIN cell.text)
        BY CellFields
  <2> QED BY <2>1, AppendProperties
<1>2. e \in Int
  <2>1. c.extent \in Int /\ c.pos[k].x \in Int
        BY CellFields
  <2> QED BY <2>1 DEF Larger
<1>3. AddGlyph(c, k, w) = WithLine(c, l, e)
      BY DEF AddGlyph, WithLine, CellType
<1> HIDE DEF l, e
<1> QED BY <1>1, <1>2, <1>3, LineSet

LEMMA PutFields ==
  ASSUME NEW cell \in CellSet, NEW c \in CellType(cell), NEW k \in DOMAIN cell.text,
         NEW p \in [x : Int, y : Int]
  PROVE  LET d == [c EXCEPT !.pos[k] = p]
         IN  /\ d \in CellType(cell)
             /\ d.x = c.x /\ d.y = c.y /\ d.base = c.base /\ d.max = c.max
             /\ d.lastBase = c.lastBase /\ d.lastMax = c.lastMax /\ d.align = c.align
             /\ d.pos[k] = p /\ \A j \in DOMAIN cell.text : j # k => d.pos[j] = c.pos[j]
<1> DEFINE q == [c.pos EXCEPT ![k] = p]
<1>1. q \in [DOMAIN cell.text -> [x : Int, y : Int]] /\ q[k] = p
      /\ \A j \in DOMAIN cell.text : j # k => q[j] = c.pos[j]
      BY CellFields
<1> HIDE DEF q
<1>2. [c EXCEPT !.pos = q] \in CellType(cell)
      BY <1>1 DEF CellType
<1>3. LET d == [c EXCEPT !.pos = q]
      IN  /\ d.x = c.x /\ d.y = c.y /\ d.base = c.base /\ d.max = c.max
          /\ d.lastBase = c.lastBase /\ d.lastMax = c.lastMax /\ d.align = c.align
          /\ d.pos = q
      BY DEF CellType
<1>4. [c EXCEPT !.pos[k] = p] = [c EXCEPT !.pos = q]
      BY DEF q, CellType
<1>5. /\ q[k] = p /\ \A j \in DOMAIN cell.text : j # k => q[j] = c.pos[j]
      BY <1>1
<1> DEFINE d == [c EXCEPT !.pos = q]
<1>6. /\ d \in CellType(cell)
      /\ d.x = c.x /\ d.y = c.y /\ d.base = c.base /\ d.max = c.max
      /\ d.lastBase = c.lastBase /\ d.lastMax = c.lastMax /\ d.align = c.align
      /\ d.pos = q
      BY <1>2, <1>3, Zenon
<1> HIDE DEF d
<1>7. d.pos[k] = p /\ \A j \in DOMAIN cell.text : j # k => d.pos[j] = c.pos[j]
      BY <1>5, <1>6
<1> QED BY <1>4, <1>6, <1>7, Zenon DEF d

\* A line break in a cell, and a character, with a line begun before it or not.
LEMMA BreakFields ==
  ASSUME NEW cell \in CellSet, NEW c \in CellType(cell), NEW k \in DOMAIN cell.text
  PROVE  LET d == BreakInCell(c, cell, k)
         IN  /\ d \in CellType(cell)
             /\ d.x = CellMargin
             /\ d.y = c.y + (CellSpacing + (IF c.max = 0 THEN c.lastMax ELSE c.max))
             /\ d.base = 0 /\ d.max = 0 /\ d.lastBase = c.base /\ d.lastMax = c.max
             /\ d.align = "left"
             /\ \A j \in DOMAIN cell.text :
                  c.align = "left" /\ c.base <= cell.text[j].b => d.pos[j] = c.pos[j]
<1> DEFINE Yoff == CellSpacing + (IF c.max = 0 THEN c.lastMax ELSE c.max)
           a == AddGlyph(c, k, 0)
           m == Changed(a, CellMargin, a.y + Yoff, 0, 0, c.base, c.max)
           r == RelocLine(m, cell)
<1>1. Yoff \in Int /\ CellMargin \in Int
      BY CellFields, CellsAssumption DEF CellsAssumption
<1>2. /\ a \in CellType(cell) /\ a.y = c.y /\ a.align = c.align /\ a.pos = c.pos
      BY AddedFields
<1>3. BreakInCell(c, cell, k) = NextLineOf(r)
      BY <1>2 DEF BreakInCell, Changed, CellType
<1> HIDE DEF Yoff, a
<1>4. a.y + Yoff \in Int /\ c.base \in Int /\ c.max \in Int /\ 0 \in Int
      BY <1>1, <1>2, CellFields
<1>5. /\ m \in CellType(cell)
      /\ m.x = CellMargin /\ m.y = a.y + Yoff /\ m.base = 0 /\ m.max = 0
      /\ m.lastBase = c.base /\ m.lastMax = c.max /\ m.align = a.align /\ m.pos = a.pos
      BY <1>1, <1>2, <1>4, ChangedFields
<1> HIDE DEF m
<1>6. /\ r \in CellType(cell) /\ r.x = m.x /\ r.y = m.y /\ r.base = m.base /\ r.max = m.max
      /\ r.lastBase = m.lastBase /\ r.lastMax = m.lastMax
      /\ \A j \in DOMAIN cell.text :
           m.align = "left" /\ m.lastBase <= cell.text[j].b => r.pos[j] = m.pos[j]
      BY <1>5, RelocFields
<1> HIDE DEF r
<1>7. LET d == NextLineOf(r)
      IN  /\ d \in CellType(cell)
          /\ d.x = r.x /\ d.y = r.y /\ d.base = r.base /\ d.max = r.max
          /\ d.lastBase = r.lastBase /\ d.lastMax = r.lastMax /\ d.align = "left" /\ d.pos = r.pos
      BY <1>6, LineFields
<1> QED BY <1>2, <1>3, <1>5, <1>6, <1>7 DEF Yoff

Over(c, cell, k) == c.x + CellSpacing + cell.text[k].w >= cell.width - CellMargin
BaseWith(c, g)   == Larger(c.base, g.b)
MaxWith(c, g)    == Larger(c.max, BaseWith(c, g) + g.h - g.b)

LEMMA WithType ==
  ASSUME NEW cell \in CellSet, NEW c \in CellType(cell), NEW k \in DOMAIN cell.text
  PROVE  LET g == cell.text[k]
         IN  BaseWith(c, g) \in Int /\ MaxWith(c, g) \in Int
             /\ c.base <= BaseWith(c, g) /\ c.max <= MaxWith(c, g)
<1>1. c.base \in Int /\ c.max \in Int /\ cell.text[k].b \in Int /\ cell.text[k].h \in Int
      BY CellFields, GlyphIs
<1>2. BaseWith(c, cell.text[k]) \in Int /\ c.base <= BaseWith(c, cell.text[k])
      BY <1>1 DEF BaseWith, Larger
<1>3. MaxWith(c, cell.text[k]) \in Int /\ c.max <= MaxWith(c, cell.text[k])
      BY <1>1, <1>2 DEF MaxWith, Larger
<1> QED BY <1>2, <1>3

LEMMA SameLineFields ==
  ASSUME NEW cell \in CellSet, NEW c \in CellType(cell), NEW k \in DOMAIN cell.text,
         ~Over(c, cell, k)
  PROVE  LET d == CharInCell(c, cell, k)  g == cell.text[k]
         IN  /\ d \in CellType(cell)
             /\ d.x = c.x + g.w + CellSpacing /\ d.y = c.y
             /\ d.base = BaseWith(c, g) /\ d.max = MaxWith(c, g)
             /\ d.lastBase = c.lastBase /\ d.lastMax = c.lastMax /\ d.align = c.align
             /\ d.pos[k] = [x |-> c.x, y |-> c.y + g.h]
             /\ \A j \in DOMAIN cell.text : j # k => d.pos[j] = c.pos[j]
<1> DEFINE g == cell.text[k]
           base == BaseWith(c, g)
           max == MaxWith(c, g)
           p == [x |-> c.x, y |-> c.y + g.h]
           b == [c EXCEPT !.x = @ + g.w + CellSpacing, !.base = base]
           m == [b EXCEPT !.max = max]
           n == [m EXCEPT !.pos[k] = p]
<1>1. base \in Int /\ max \in Int /\ p \in [x : Int, y : Int] /\ g.w \in Int /\ CellSpacing \in Int
      BY WithType, CellFields, GlyphIs, CellsAssumption DEF CellsAssumption
<1>2. CharInCell(c, cell, k) = AddGlyph(n, k, g.w)
      BY DEF CharInCell, Over, BaseWith, MaxWith
<1> HIDE DEF g, base, max, p
<1>2a. /\ b \in CellType(cell)
       /\ b.x = c.x + g.w + CellSpacing /\ b.y = c.y /\ b.base = base
       /\ b.lastBase = c.lastBase /\ b.lastMax = c.lastMax /\ b.align = c.align /\ b.pos = c.pos
  <2>1. c.x + g.w + CellSpacing \in Int
        BY <1>1, CellFields
  <2>2. b \in CellType(cell)
        BY <1>1, <2>1 DEF CellType
  <2> QED BY <2>2 DEF CellType
<1> HIDE DEF b
<1>3. m \in CellType(cell)
      BY <1>1, <1>2a DEF CellType
<1>4. /\ m.x = b.x /\ m.y = b.y /\ m.base = b.base /\ m.max = max
      /\ m.lastBase = b.lastBase /\ m.lastMax = b.lastMax /\ m.align = b.align /\ m.pos = b.pos
      BY <1>2a DEF CellType
<1> HIDE DEF m
<1>5. /\ n \in CellType(cell)
      /\ n.x = m.x /\ n.y = m.y /\ n.base = m.base /\ n.max = m.max
      /\ n.lastBase = m.lastBase /\ n.lastMax = m.lastMax /\ n.align = m.align
      /\ n.pos[k] = p /\ \A j \in DOMAIN cell.text : j # k => n.pos[j] = m.pos[j]
      BY <1>1, <1>3, PutFields
<1> HIDE DEF n
<1>6. LET d == AddGlyph(n, k, g.w)
      IN  /\ d \in CellType(cell)
          /\ d.x = n.x /\ d.y = n.y /\ d.base = n.base /\ d.max = n.max
          /\ d.lastBase = n.lastBase /\ d.lastMax = n.lastMax /\ d.align = n.align
          /\ d.pos = n.pos
      BY <1>1, <1>5, AddedFields
<1> QED BY <1>2, <1>2a, <1>4, <1>5, <1>6 DEF g, base, max, p

LEMMA NextLineFields ==
  ASSUME NEW cell \in CellSet, NEW c \in CellType(cell), NEW k \in DOMAIN cell.text,
         Over(c, cell, k)
  PROVE  LET d == CharInCell(c, cell, k)  g == cell.text[k]
         IN  /\ d \in CellType(cell)
             /\ d.x = CellMargin + g.w + CellSpacing
             /\ d.y = c.y + CellSpacing + MaxWith(c, g)
             /\ d.base = g.b /\ d.max = g.h
             /\ d.lastBase = BaseWith(c, g) /\ d.lastMax = MaxWith(c, g) /\ d.align = "left"
             /\ d.pos[k] = [x |-> CellMargin, y |-> d.y + g.h]
             /\ \A j \in DOMAIN cell.text :
                  j # k /\ c.align = "left" /\ BaseWith(c, g) <= cell.text[j].b =>
                    d.pos[j] = c.pos[j]
<1> DEFINE g == cell.text[k]
           base == BaseWith(c, g)
           max == MaxWith(c, g)
           y == c.y + CellSpacing + max
           p == [x |-> CellMargin, y |-> y + g.h]
           m == Changed(c, CellMargin + g.w + CellSpacing, y, g.b, g.h, base, max)
           r == RelocLine(m, cell)
           l == NextLineOf(r)
           n == [l EXCEPT !.pos[k] = p]
<1>1. /\ base \in Int /\ max \in Int /\ y \in Int /\ p \in [x : Int, y : Int]
      /\ g.w \in Int /\ g.b \in Int /\ g.h \in Int /\ CellMargin + g.w + CellSpacing \in Int
  <2>1. base \in Int /\ max \in Int
        BY WithType
  <2>2. g.w \in Nat /\ g.b \in Int /\ g.h \in Nat
        BY GlyphIs
  <2>3. c.y \in Int /\ CellMargin \in Nat /\ CellSpacing \in Nat
        BY CellFields, CellsAssumption DEF CellsAssumption
  <2> HIDE DEF base, max, g
  <2> QED BY <2>1, <2>2, <2>3
<1>2. CharInCell(c, cell, k) = AddGlyph(n, k, g.w)
      BY DEF CharInCell, Over, BaseWith, MaxWith, Changed
<1> HIDE DEF g, base, max, y, p
<1>4. /\ m \in CellType(cell)
      /\ m.x = CellMargin + g.w + CellSpacing /\ m.y = y /\ m.base = g.b /\ m.max = g.h
      /\ m.lastBase = base /\ m.lastMax = max /\ m.align = c.align /\ m.pos = c.pos
      BY <1>1, ChangedFields
<1> HIDE DEF m
<1>5. /\ r \in CellType(cell) /\ r.x = m.x /\ r.y = m.y /\ r.base = m.base /\ r.max = m.max
      /\ r.lastBase = m.lastBase /\ r.lastMax = m.lastMax
      /\ \A j \in DOMAIN cell.text :
           m.align = "left" /\ m.lastBase <= cell.text[j].b => r.pos[j] = m.pos[j]
      BY <1>4, RelocFields
<1> HIDE DEF r
<1>6. /\ l \in CellType(cell)
      /\ l.x = r.x /\ l.y = r.y /\ l.base = r.base /\ l.max = r.max
      /\ l.lastBase = r.lastBase /\ l.lastMax = r.lastMax /\ l.align = "left" /\ l.pos = r.pos
      BY <1>5, LineFields
<1> HIDE DEF l
<1>7. /\ n \in CellType(cell)
      /\ n.x = l.x /\ n.y = l.y /\ n.base = l.base /\ n.max = l.max
      /\ n.lastBase = l.lastBase /\ n.lastMax = l.lastMax /\ n.align = l.align
      /\ n.pos[k] = p /\ \A j \in DOMAIN cell.text : j # k => n.pos[j] = l.pos[j]
      BY <1>1, <1>6, PutFields
<1> HIDE DEF n
<1>8. LET d == AddGlyph(n, k, g.w)
      IN  /\ d \in CellType(cell)
          /\ d.x = n.x /\ d.y = n.y /\ d.base = n.base /\ d.max = n.max
          /\ d.lastBase = n.lastBase /\ d.lastMax = n.lastMax /\ d.align = n.align
          /\ d.pos = n.pos
      BY <1>1, <1>7, AddedFields
<1> QED BY <1>2, <1>4, <1>5, <1>6, <1>7, <1>8 DEF g, base, max, y, p

-----------------------------------------------------------------------------
(* Glyphs in their cell.                                                    *)

\* All characters of a cell have the same bearing, and each fits the column.
OneBearing(cell, b) == \A k \in CharsOf(cell) : cell.text[k].b = b
FitsColumn(cell)    == \A k \in CharsOf(cell) : CellMargin + cell.text[k].w <= cell.width

\* A character that was placed is in the column and above the end of the line,
\* and left of what comes next or above its line.
InCell(c, cell, k) ==
  LET p == c.pos[k]  g == cell.text[k]
  IN  /\ 0 <= p.x /\ p.x + g.w <= cell.width
      /\ 0 <= p.y - g.h /\ p.y <= c.y + c.max
      /\ p.y <= c.y \/ p.x + g.w <= c.x

Clear(c, cell, j, k) ==
  \/ c.pos[j].x + cell.text[j].w <= c.pos[k].x
  \/ c.pos[j].y <= c.pos[k].y - cell.text[k].h

CellInv(c, cell, n, b) ==
  /\ c \in CellType(cell)
  /\ 0 <= c.x /\ 0 <= c.y /\ 0 <= c.max /\ 0 <= c.lastMax
  /\ c.base \in {0, b} /\ c.lastBase \in {0, b} /\ c.align = "left"
  /\ \A k \in CharsOf(cell) : k <= n => InCell(c, cell, k)
  /\ \A j, k \in CharsOf(cell) : j < k /\ k <= n => Clear(c, cell, j, k)

LEMMA PosType ==
  ASSUME NEW cell, NEW c \in CellType(cell), NEW k \in DOMAIN cell.text
  PROVE  c.pos[k].x \in Int /\ c.pos[k].y \in Int
<1>1. c.pos[k] \in [x : Int, y : Int]
      BY CellFields
<1> QED BY <1>1

LEMMA CharIs ==
  ASSUME NEW cell \in CellSet, NEW k \in CharsOf(cell)
  PROVE  /\ k \in DOMAIN cell.text /\ k \in Nat /\ cell.text[k].kind = "char"
         /\ cell.text[k].w \in Nat /\ cell.text[k].h \in Nat /\ cell.text[k].b \in Int
BY GlyphIs DEF CharsOf

LEMMA WithBearing ==
  ASSUME NEW cell \in CellSet, NEW b \in Nat, OneBearing(cell, b),
         NEW c \in CellType(cell), c.base \in {0, b}, 0 <= c.max, NEW k \in CharsOf(cell)
  PROVE  LET g == cell.text[k]
         IN  BaseWith(c, g) = b /\ MaxWith(c, g) \in Int
             /\ c.max <= MaxWith(c, g) /\ g.h <= MaxWith(c, g)
<1>1. /\ c.max \in Int /\ cell.text[k].b = b /\ cell.text[k].h \in Nat
      BY CellFields, CharIs DEF OneBearing
<1>2. BaseWith(c, cell.text[k]) = b
      BY <1>1 DEF BaseWith, Larger
<1>3. MaxWith(c, cell.text[k]) = Larger(c.max, cell.text[k].h)
  <2>1. b + cell.text[k].h - cell.text[k].b = cell.text[k].h
        BY <1>1
  <2> QED BY <1>2, <2>1 DEF MaxWith
<1> QED BY <1>1, <1>2, <1>3 DEF Larger

\* What was placed stays placed, whether the line goes on or ends.
LEMMA StaysInCell ==
  ASSUME NEW cell \in CellSet, NEW c \in CellType(cell), NEW d \in CellType(cell),
         NEW k \in CharsOf(cell), InCell(c, cell, k), d.pos[k] = c.pos[k], 0 <= d.max,
         \/ d.y = c.y /\ c.max <= d.max /\ c.x <= d.x
         \/ c.y <= d.y /\ c.y + c.max <= d.y
  PROVE  InCell(d, cell, k)
<1>1. c.pos[k].x \in Int /\ c.pos[k].y \in Int /\ cell.text[k].w \in Nat
      BY PosType, CharIs
<1>2. /\ c.x \in Int /\ c.y \in Int /\ c.max \in Int
      /\ d.x \in Int /\ d.y \in Int /\ d.max \in Int
      BY CellFields
<1> QED BY <1>1, <1>2 DEF InCell

LEMMA StaysClear ==
  ASSUME NEW cell, NEW c, NEW d, NEW j, NEW k, Clear(c, cell, j, k),
         d.pos[j] = c.pos[j], d.pos[k] = c.pos[k]
  PROVE  Clear(d, cell, j, k)
BY DEF Clear

LEMMA CharKeeps ==
  ASSUME NEW cell \in CellSet, NEW b \in Nat, OneBearing(cell, b), FitsColumn(cell),
         NEW k \in CharsOf(cell), NEW c, CellInv(c, cell, k - 1, b)
  PROVE  CellInv(CharInCell(c, cell, k), cell, k, b)
<1> DEFINE d == CharInCell(c, cell, k)
           g == cell.text[k]
           M == MaxWith(c, g)
<1>1. /\ c \in CellType(cell) /\ 0 <= c.x /\ 0 <= c.y /\ 0 <= c.max /\ 0 <= c.lastMax
      /\ c.base \in {0, b} /\ c.lastBase \in {0, b} /\ c.align = "left"
      BY DEF CellInv
<1>2. /\ c.x \in Int /\ c.y \in Int /\ c.max \in Int
      BY <1>1, CellFields
<1>3. k \in DOMAIN cell.text /\ k \in Nat /\ g.w \in Nat /\ g.h \in Nat /\ g.b = b
      /\ CellMargin + g.w <= cell.width
      BY CharIs DEF OneBearing, FitsColumn
<1>4. BaseWith(c, g) = b /\ M \in Int /\ c.max <= M /\ g.h <= M
      BY <1>1, WithBearing
<1>5. CellMargin \in Nat /\ CellSpacing \in Nat /\ cell.width \in Nat
      BY CellsAssumption DEF CellsAssumption, CellSet
<1>6. /\ d \in CellType(cell) /\ 0 <= d.x /\ 0 <= d.y /\ 0 <= d.max /\ 0 <= d.lastMax
      /\ d.base \in {0, b} /\ d.lastBase \in {0, b} /\ d.align = "left"
      /\ InCell(d, cell, k)
      /\ \A j \in CharsOf(cell) : j # k => d.pos[j] = c.pos[j]
      /\ \/ d.y = c.y /\ c.max <= d.max /\ c.x <= d.x /\ d.pos[k].x = c.x /\ d.pos[k].y - g.h = c.y
         \/ c.y <= d.y /\ c.y + c.max <= d.y /\ d.pos[k].y - g.h = d.y
  <2>1. CASE ~Over(c, cell, k)
    <3>1. /\ d \in CellType(cell)
          /\ d.x = c.x + g.w + CellSpacing /\ d.y = c.y
          /\ d.base = BaseWith(c, g) /\ d.max = M
          /\ d.lastBase = c.lastBase /\ d.lastMax = c.lastMax /\ d.align = c.align
          /\ d.pos[k] = [x |-> c.x, y |-> c.y + g.h]
          /\ \A j \in DOMAIN cell.text : j # k => d.pos[j] = c.pos[j]
          BY <1>1, <1>3, <2>1, SameLineFields
    <3>2. d.pos[k].x = c.x /\ d.pos[k].y = c.y + g.h
          BY <3>1
    <3>3. c.x + CellSpacing + g.w < cell.width - CellMargin
          BY <1>2, <1>3, <1>5, <2>1 DEF Over
    <3> HIDE DEF d, g, M
    <3>4. InCell(d, cell, k)
          BY <1>1, <1>2, <1>3, <1>4, <1>5, <3>1, <3>2, <3>3 DEF InCell, g
    <3>5. \A j \in CharsOf(cell) : j # k => d.pos[j] = c.pos[j]
          BY <3>1, CharIs
    <3> QED BY <1>1, <1>2, <1>3, <1>4, <1>5, <3>1, <3>2, <3>4, <3>5
  <2>2. CASE Over(c, cell, k)
    <3>1. /\ d \in CellType(cell)
          /\ d.x = CellMargin + g.w + CellSpacing
          /\ d.y = c.y + CellSpacing + M
          /\ d.base = g.b /\ d.max = g.h
          /\ d.lastBase = BaseWith(c, g) /\ d.lastMax = M /\ d.align = "left"
          /\ d.pos[k] = [x |-> CellMargin, y |-> d.y + g.h]
          /\ \A j \in DOMAIN cell.text :
               j # k /\ c.align = "left" /\ BaseWith(c, g) <= cell.text[j].b =>
                 d.pos[j] = c.pos[j]
          BY <1>1, <1>3, <2>2, NextLineFields
    <3>2. d.pos[k].x = CellMargin /\ d.pos[k].y = d.y + g.h
          BY <3>1
    <3>3. \A j \in CharsOf(cell) : j # k => d.pos[j] = c.pos[j]
      <4>1. \A j \in CharsOf(cell) : cell.text[j].b = b /\ j \in DOMAIN cell.text /\ b <= b
            BY CharIs DEF OneBearing
      <4> QED BY <1>1, <1>4, <3>1, <4>1
    <3> HIDE DEF d, g, M
    <3>4. InCell(d, cell, k)
          BY <1>1, <1>2, <1>3, <1>4, <1>5, <3>1, <3>2 DEF InCell, g
    <3> QED BY <1>1, <1>2, <1>3, <1>4, <1>5, <3>1, <3>2, <3>3, <3>4
  <2> QED BY <2>1, <2>2
<1> HIDE DEF d
<1>7. ASSUME NEW j \in CharsOf(cell), j <= k PROVE InCell(d, cell, j)
  <2>1. CASE j = k
        BY <1>6, <2>1
  <2>2. CASE j # k
    <3>1. j <= k - 1 /\ j \in Nat
          BY <1>3, <1>7, <2>2, CharIs
    <3>2. InCell(c, cell, j)
          BY <3>1 DEF CellInv
    <3> QED BY <1>1, <1>6, <2>2, <3>2, StaysInCell
  <2> QED BY <2>1, <2>2
<1>8. ASSUME NEW i \in CharsOf(cell), NEW j \in CharsOf(cell), i < j, j <= k
      PROVE  Clear(d, cell, i, j)
  <2>1. i \in Nat /\ j \in Nat /\ i # k /\ i <= k - 1
        BY <1>3, <1>8, CharIs
  <2>2. CASE j = k
    <3>1. InCell(c, cell, i) /\ d.pos[i] = c.pos[i]
          BY <1>6, <2>1 DEF CellInv
    <3>2. c.pos[i].x \in Int /\ c.pos[i].y \in Int /\ cell.text[i].w \in Nat
          /\ d.pos[k].x \in Int /\ d.pos[k].y \in Int
          BY <1>1, <1>3, <1>6, PosType, CharIs
    <3>3. d.y \in Int /\ d.max \in Int
          BY <1>6, CellFields
    <3> QED BY <1>2, <1>3, <1>6, <2>2, <3>1, <3>2, <3>3 DEF InCell, Clear, g
  <2>3. CASE j # k
    <3>1. j <= k - 1
          BY <1>3, <1>8, <2>1, <2>3
    <3>2. Clear(c, cell, i, j)
          BY <1>8, <3>1 DEF CellInv
    <3> QED BY <1>6, <2>1, <2>3, <3>2, StaysClear
  <2> QED BY <2>2, <2>3
<1> QED BY <1>6, <1>7, <1>8 DEF CellInv, d

LEMMA BreakKeeps ==
  ASSUME NEW cell \in CellSet, NEW b \in Nat, OneBearing(cell, b),
         NEW k \in DOMAIN cell.text, k \notin CharsOf(cell), NEW c, CellInv(c, cell, k - 1, b)
  PROVE  CellInv(BreakInCell(c, cell, k), cell, k, b)
<1> DEFINE d == BreakInCell(c, cell, k)
<1>1. /\ c \in CellType(cell) /\ 0 <= c.x /\ 0 <= c.y /\ 0 <= c.max /\ 0 <= c.lastMax
      /\ c.base \in {0, b} /\ c.lastBase \in {0, b} /\ c.align = "left"
      BY DEF CellInv
<1>2. /\ c.x \in Int /\ c.y \in Int /\ c.max \in Int /\ c.lastMax \in Int /\ c.base <= b
      /\ k \in Nat /\ CellMargin \in Nat /\ CellSpacing \in Nat
      BY <1>1, CellFields, GlyphIs, CellsAssumption DEF CellsAssumption
<1>3. /\ d \in CellType(cell)
      /\ d.x = CellMargin
      /\ d.y = c.y + (CellSpacing + (IF c.max = 0 THEN c.lastMax ELSE c.max))
      /\ d.base = 0 /\ d.max = 0 /\ d.lastBase = c.base /\ d.lastMax = c.max
      /\ d.align = "left"
      /\ \A j \in DOMAIN cell.text :
           c.align = "left" /\ c.base <= cell.text[j].b => d.pos[j] = c.pos[j]
      BY <1>1, BreakFields
<1> HIDE DEF d
<1>4. c.y <= d.y /\ c.y + c.max <= d.y /\ 0 <= d.y
      BY <1>1, <1>2, <1>3
<1>5. \A j \in CharsOf(cell) : d.pos[j] = c.pos[j]
  <2>1. \A j \in CharsOf(cell) : cell.text[j].b = b /\ j \in DOMAIN cell.text
        BY CharIs DEF OneBearing
  <2> QED BY <1>1, <1>2, <1>3, <2>1
<1>6. ASSUME NEW j \in CharsOf(cell), j <= k PROVE j <= k - 1
      BY <1>2, <1>6, CharIs
<1>7. ASSUME NEW j \in CharsOf(cell), j <= k PROVE InCell(d, cell, j)
  <2>1. InCell(c, cell, j)
        BY <1>6, <1>7 DEF CellInv
  <2>2. 0 <= d.max
        BY <1>3
  <2> QED BY <1>1, <1>3, <1>4, <1>5, <2>1, <2>2, StaysInCell
<1>8. ASSUME NEW i \in CharsOf(cell), NEW j \in CharsOf(cell), i < j, j <= k
      PROVE  Clear(d, cell, i, j)
  <2>1. Clear(c, cell, i, j)
        BY <1>6, <1>8 DEF CellInv
  <2> QED BY <1>5, <2>1, StaysClear
<1>9. 0 <= d.x /\ 0 <= d.max /\ 0 <= d.lastMax /\ d.base \in {0, b} /\ d.lastBase \in {0, b}
      BY <1>1, <1>2, <1>3
<1> QED BY <1>3, <1>4, <1>7, <1>8, <1>9 DEF CellInv, d

-----------------------------------------------------------------------------
(* A cell that was set up.                                                  *)

LEMMA GlyphTyped ==
  ASSUME NEW cell \in CellSet, NEW c \in CellType(cell), NEW k \in DOMAIN cell.text
  PROVE  GlyphInCell(c, cell, k) \in CellType(cell)
<1>1. BreakInCell(c, cell, k) \in CellType(cell)
      BY BreakFields
<1>2. CharInCell(c, cell, k) \in CellType(cell)
      BY SameLineFields, NextLineFields
<1> QED BY <1>1, <1>2 DEF GlyphInCell

LEMMA TextIs ==
  ASSUME NEW cell \in CellSet
  PROVE  Len(cell.text) \in Nat /\ DOMAIN cell.text = 1 .. Len(cell.text)
<1>1. cell.text \in Seq(Glyphs)
      BY DEF CellSet
<1> QED BY <1>1, LenProperties

LEMMA SetupTyped ==
  ASSUME NEW cell \in CellSet, NEW c0 \in CellType(cell)
  PROVE  /\ \A n \in 0 .. Len(cell.text) : Behind(c0, cell)[n] \in CellType(cell)
         /\ SetupCell(c0, cell) \in CellType(cell)
<1> DEFINE N == Len(cell.text)
           S == {n \in 0 .. N : Behind(c0, cell)[n] \in CellType(cell)}
<1>1. N \in Nat /\ DOMAIN cell.text = 1 .. N
      BY TextIs
<1>2. 0 \in S
      BY <1>1, BehindIs
<1>3. ASSUME NEW n \in 1 .. N, n - 1 \in S PROVE n \in S
  <2>1. Behind(c0, cell)[n] = GlyphInCell(Behind(c0, cell)[n - 1], cell, n)
        BY <1>1, BehindIs
  <2>2. Behind(c0, cell)[n - 1] \in CellType(cell)
        BY <1>3
  <2>3. Behind(c0, cell)[n] \in CellType(cell)
        BY <1>1, <2>1, <2>2, GlyphTyped
  <2> QED BY <1>1, <2>3
<1>4. S \in SUBSET (0 .. N)
      OBVIOUS
<1> HIDE DEF S
<1>5. S = 0 .. N
      BY <1>1, <1>2, <1>3, <1>4, ByLeast
<1>6. \A n \in 0 .. N : Behind(c0, cell)[n] \in CellType(cell)
      BY <1>5 DEF S
<1>7. SetupCell(c0, cell) \in CellType(cell)
  <2>1. Behind(c0, cell)[N] \in CellType(cell)
        BY <1>1, <1>6
  <2> QED BY <2>1, RelocFields DEF SetupCell
<1> QED BY <1>6, <1>7

\* A cell before its first glyph, at x.
Begun(c, cell, x) ==
  /\ c \in CellType(cell) /\ c.x = x /\ c.y = CellMargin
  /\ c.base = 0 /\ c.max = 0 /\ c.lastBase = 0 /\ c.lastMax = 0 /\ c.align = "left"

\* Its characters are in its column, below its top, and apart.
AllInCell(c, cell) ==
  /\ \A k \in CharsOf(cell) :
       /\ 0 <= c.pos[k].x /\ c.pos[k].x + cell.text[k].w <= cell.width
       /\ 0 <= c.pos[k].y - cell.text[k].h /\ c.pos[k].y <= CellHeight(c)
  /\ \A j, k \in CharsOf(cell) : j < k => Clear(c, cell, j, k)

LEMMA BehindInCell ==
  ASSUME NEW cell \in CellSet, NEW b \in Nat, OneBearing(cell, b), FitsColumn(cell),
         NEW x \in Nat, NEW c0, Begun(c0, cell, x)
  PROVE  \A n \in 0 .. Len(cell.text) : CellInv(Behind(c0, cell)[n], cell, n, b)
<1> DEFINE N == Len(cell.text)
           S == {n \in 0 .. N : CellInv(Behind(c0, cell)[n], cell, n, b)}
<1>1. N \in Nat /\ DOMAIN cell.text = 1 .. N
      BY TextIs
<1>2. 0 \in S
  <2>1. Behind(c0, cell)[0] = c0
        BY <1>1, BehindIs
  <2>2. \A k \in CharsOf(cell) : ~(k <= 0)
        BY <1>1 DEF CharsOf
  <2>3. 0 <= x /\ 0 <= CellMargin
        BY CellsAssumption DEF CellsAssumption
  <2>4. CellInv(c0, cell, 0, b)
        BY <2>2, <2>3 DEF CellInv, Begun
  <2> QED BY <1>1, <2>1, <2>4
<1>3. ASSUME NEW n \in 1 .. N, n - 1 \in S PROVE n \in S
  <2>1. Behind(c0, cell)[n] = GlyphInCell(Behind(c0, cell)[n - 1], cell, n)
        BY <1>1, BehindIs
  <2>2. CellInv(Behind(c0, cell)[n - 1], cell, n - 1, b)
        BY <1>3
  <2>3. n \in DOMAIN cell.text
        BY <1>1
  <2>4. CASE n \in CharsOf(cell)
    <3>1. Behind(c0, cell)[n] = CharInCell(Behind(c0, cell)[n - 1], cell, n)
          BY <2>1, <2>4 DEF GlyphInCell, CharsOf
    <3>2. CellInv(CharInCell(Behind(c0, cell)[n - 1], cell, n), cell, n, b)
          BY <2>2, <2>4, CharKeeps
    <3> QED BY <3>1, <3>2
  <2>5. CASE n \notin CharsOf(cell)
    <3>1. cell.text[n].kind = "break"
          BY <2>3, <2>5, GlyphIs DEF CharsOf
    <3>2. Behind(c0, cell)[n] = BreakInCell(Behind(c0, cell)[n - 1], cell, n)
          BY <2>1, <3>1 DEF GlyphInCell
    <3>3. CellInv(BreakInCell(Behind(c0, cell)[n - 1], cell, n), cell, n, b)
          BY <2>2, <2>3, <2>5, BreakKeeps
    <3> QED BY <3>2, <3>3
  <2> QED BY <2>4, <2>5
<1>4. S \in SUBSET (0 .. N)
      OBVIOUS
<1> HIDE DEF S
<1>5. S = 0 .. N
      BY <1>1, <1>2, <1>3, <1>4, ByLeast
<1> QED BY <1>5 DEF S

\* The last move of a cell leaves the layout behind its last glyph.
LEMMA SetupIs ==
  ASSUME NEW cell \in CellSet, NEW b \in Nat, OneBearing(cell, b), FitsColumn(cell),
         NEW x \in Nat, NEW c0, Begun(c0, cell, x)
  PROVE  LET c == Behind(c0, cell)[Len(cell.text)]  d == SetupCell(c0, cell)
         IN  /\ CellInv(c, cell, Len(cell.text), b)
             /\ d.y = c.y /\ d.max = c.max /\ d.align = "left"
             /\ \A k \in CharsOf(cell) : d.pos[k] = c.pos[k]
<1> DEFINE N == Len(cell.text)
           c == Behind(c0, cell)[N]
           d == RelocLine(c, cell)
<1>1. N \in Nat
      BY TextIs
<1>2. CellInv(c, cell, N, b)
      BY <1>1, BehindInCell
<1>3. SetupCell(c0, cell) = d
      BY DEF SetupCell
<1> HIDE DEF c
<1>4. /\ c \in CellType(cell) /\ c.lastBase \in {0, b} /\ c.align = "left"
      BY <1>2 DEF CellInv
<1>5. /\ d.y = c.y /\ d.max = c.max /\ d.align = c.align
      /\ \A k \in DOMAIN cell.text :
           c.align = "left" /\ c.lastBase <= cell.text[k].b => d.pos[k] = c.pos[k]
      BY <1>4, RelocFields
<1> HIDE DEF d
<1>6. \A k \in CharsOf(cell) : d.pos[k] = c.pos[k]
  <2>1. \A k \in CharsOf(cell) : cell.text[k].b = b /\ k \in DOMAIN cell.text
        BY CharIs DEF OneBearing
  <2>2. c.lastBase <= b
        BY <1>4
  <2> QED BY <1>4, <1>5, <2>1, <2>2
<1> QED BY <1>2, <1>3, <1>4, <1>5, <1>6 DEF c

LEMMA SetupInCell ==
  ASSUME NEW cell \in CellSet, NEW b \in Nat, OneBearing(cell, b), FitsColumn(cell),
         NEW x \in Nat, NEW c0, Begun(c0, cell, x)
  PROVE  AllInCell(SetupCell(c0, cell), cell) /\ SetupCell(c0, cell).align = "left"
<1> DEFINE N == Len(cell.text)
           c == Behind(c0, cell)[N]
           d == SetupCell(c0, cell)
<1>1. N \in Nat /\ DOMAIN cell.text = 1 .. N
      BY TextIs
<1>2. /\ CellInv(c, cell, N, b) /\ d.y = c.y /\ d.max = c.max /\ d.align = "left"
      /\ \A k \in CharsOf(cell) : d.pos[k] = c.pos[k]
      BY SetupIs
<1> HIDE DEF c, d
<1>3. \A k \in CharsOf(cell) : k <= N
      BY <1>1 DEF CharsOf
<1>4. ASSUME NEW k \in CharsOf(cell)
      PROVE  /\ 0 <= d.pos[k].x /\ d.pos[k].x + cell.text[k].w <= cell.width
             /\ 0 <= d.pos[k].y - cell.text[k].h /\ d.pos[k].y <= CellHeight(d)
  <2>1. InCell(c, cell, k)
        BY <1>2, <1>3 DEF CellInv
  <2> QED BY <1>2, <2>1 DEF InCell, CellHeight
<1>5. ASSUME NEW j \in CharsOf(cell), NEW k \in CharsOf(cell), j < k PROVE Clear(d, cell, j, k)
  <2>1. Clear(c, cell, j, k)
        BY <1>2, <1>3, <1>5 DEF CellInv
  <2> QED BY <1>2, <2>1, StaysClear
<1>6. AllInCell(d, cell)
      BY <1>4, <1>5 DEF AllInCell
<1> QED BY <1>2, <1>6 DEF d

-----------------------------------------------------------------------------
(* Two cells of one text that begin at one place.                           *)

\* They are laid out alike up to their first n glyphs.
Alike(c, d, cell, n) ==
  /\ c.x = d.x /\ c.y = d.y /\ c.base = d.base /\ c.max = d.max
  /\ c.lastBase = d.lastBase /\ c.lastMax = d.lastMax
  /\ \A k \in CharsOf(cell) : k <= n => c.pos[k] = d.pos[k]

LEMMA CharAlike ==
  ASSUME NEW cell \in CellSet, NEW b \in Nat, OneBearing(cell, b), NEW n \in CharsOf(cell),
         NEW c, CellInv(c, cell, n - 1, b), NEW d, CellInv(d, cell, n - 1, b),
         Alike(c, d, cell, n - 1)
  PROVE  Alike(CharInCell(c, cell, n), CharInCell(d, cell, n), cell, n)
<1> DEFINE C == CharInCell(c, cell, n)
           D == CharInCell(d, cell, n)
           g == cell.text[n]
<1>1. /\ c \in CellType(cell) /\ c.base \in {0, b} /\ 0 <= c.max /\ c.align = "left"
      /\ d \in CellType(cell) /\ d.base \in {0, b} /\ 0 <= d.max /\ d.align = "left"
      BY DEF CellInv
<1>2. /\ c.x = d.x /\ c.y = d.y /\ c.base = d.base /\ c.max = d.max
      /\ c.lastBase = d.lastBase /\ c.lastMax = d.lastMax
      /\ \A k \in CharsOf(cell) : k <= n - 1 => c.pos[k] = d.pos[k]
      BY DEF Alike
<1>3. n \in DOMAIN cell.text /\ n \in Nat
      BY CharIs
<1>4. BaseWith(c, g) = BaseWith(d, g) /\ MaxWith(c, g) = MaxWith(d, g)
      BY <1>2 DEF BaseWith, MaxWith
<1>5. BaseWith(c, g) = b /\ BaseWith(d, g) = b
      BY <1>1, WithBearing
<1>6. \A k \in CharsOf(cell) : k \in DOMAIN cell.text /\ cell.text[k].b = b /\ k \in Nat
      BY CharIs DEF OneBearing
<1>7. /\ C.x = D.x /\ C.y = D.y /\ C.base = D.base /\ C.max = D.max
      /\ C.lastBase = D.lastBase /\ C.lastMax = D.lastMax /\ C.pos[n] = D.pos[n]
      /\ \A k \in CharsOf(cell) : k # n => C.pos[k] = c.pos[k] /\ D.pos[k] = d.pos[k]
  <2>1. CASE ~Over(c, cell, n)
    <3>1. ~Over(d, cell, n)
          BY <1>2, <2>1 DEF Over
    <3>2. /\ C.x = c.x + g.w + CellSpacing /\ C.y = c.y
          /\ C.base = BaseWith(c, g) /\ C.max = MaxWith(c, g)
          /\ C.lastBase = c.lastBase /\ C.lastMax = c.lastMax
          /\ C.pos[n] = [x |-> c.x, y |-> c.y + g.h]
          /\ \A k \in DOMAIN cell.text : k # n => C.pos[k] = c.pos[k]
          BY <1>1, <1>3, <2>1, SameLineFields
    <3>3. /\ D.x = d.x + g.w + CellSpacing /\ D.y = d.y
          /\ D.base = BaseWith(d, g) /\ D.max = MaxWith(d, g)
          /\ D.lastBase = d.lastBase /\ D.lastMax = d.lastMax
          /\ D.pos[n] = [x |-> d.x, y |-> d.y + g.h]
          /\ \A k \in DOMAIN cell.text : k # n => D.pos[k] = d.pos[k]
          BY <1>1, <1>3, <3>1, SameLineFields
    <3> HIDE DEF C, D, g
    <3> QED BY <1>2, <1>4, <1>6, <3>2, <3>3
  <2>2. CASE Over(c, cell, n)
    <3>1. Over(d, cell, n)
          BY <1>2, <2>2 DEF Over
    <3>2. /\ C.x = CellMargin + g.w + CellSpacing /\ C.y = c.y + CellSpacing + MaxWith(c, g)
          /\ C.base = g.b /\ C.max = g.h
          /\ C.lastBase = BaseWith(c, g) /\ C.lastMax = MaxWith(c, g)
          /\ C.pos[n] = [x |-> CellMargin, y |-> C.y + g.h]
          /\ \A k \in DOMAIN cell.text :
               k # n /\ c.align = "left" /\ BaseWith(c, g) <= cell.text[k].b => C.pos[k] = c.pos[k]
          BY <1>1, <1>3, <2>2, NextLineFields
    <3>3. /\ D.x = CellMargin + g.w + CellSpacing /\ D.y = d.y + CellSpacing + MaxWith(d, g)
          /\ D.base = g.b /\ D.max = g.h
          /\ D.lastBase = BaseWith(d, g) /\ D.lastMax = MaxWith(d, g)
          /\ D.pos[n] = [x |-> CellMargin, y |-> D.y + g.h]
          /\ \A k \in DOMAIN cell.text :
               k # n /\ d.align = "left" /\ BaseWith(d, g) <= cell.text[k].b => D.pos[k] = d.pos[k]
          BY <1>1, <1>3, <3>1, NextLineFields
    <3> HIDE DEF C, D, g
    <3>4. b <= b
          OBVIOUS
    <3> QED BY <1>1, <1>2, <1>4, <1>5, <1>6, <3>2, <3>3, <3>4
  <2> QED BY <2>1, <2>2
<1> HIDE DEF C, D
<1>8. ASSUME NEW k \in CharsOf(cell), k <= n PROVE C.pos[k] = D.pos[k]
  <2>1. CASE k = n
        BY <1>7, <2>1
  <2>2. CASE k # n
    <3>1. k <= n - 1
          BY <1>3, <1>6, <1>8, <2>2
    <3> QED BY <1>2, <1>7, <2>2, <3>1
  <2> QED BY <2>1, <2>2
<1> QED BY <1>7, <1>8 DEF Alike, C, D

LEMMA BreakAlike ==
  ASSUME NEW cell \in CellSet, NEW b \in Nat, OneBearing(cell, b),
         NEW n \in DOMAIN cell.text, n \notin CharsOf(cell),
         NEW c, CellInv(c, cell, n - 1, b), NEW d, CellInv(d, cell, n - 1, b),
         Alike(c, d, cell, n - 1)
  PROVE  Alike(BreakInCell(c, cell, n), BreakInCell(d, cell, n), cell, n)
<1> DEFINE C == BreakInCell(c, cell, n)
           D == BreakInCell(d, cell, n)
<1>1. /\ c \in CellType(cell) /\ c.base \in {0, b} /\ c.align = "left"
      /\ d \in CellType(cell) /\ d.base \in {0, b} /\ d.align = "left"
      BY DEF CellInv
<1>2. /\ c.y = d.y /\ c.base = d.base /\ c.max = d.max /\ c.lastMax = d.lastMax
      /\ \A k \in CharsOf(cell) : k <= n - 1 => c.pos[k] = d.pos[k]
      BY DEF Alike
<1>3. /\ C.x = CellMargin
      /\ C.y = c.y + (CellSpacing + (IF c.max = 0 THEN c.lastMax ELSE c.max))
      /\ C.base = 0 /\ C.max = 0 /\ C.lastBase = c.base /\ C.lastMax = c.max
      /\ \A k \in DOMAIN cell.text :
           c.align = "left" /\ c.base <= cell.text[k].b => C.pos[k] = c.pos[k]
      BY <1>1, BreakFields
<1>4. /\ D.x = CellMargin
      /\ D.y = d.y + (CellSpacing + (IF d.max = 0 THEN d.lastMax ELSE d.max))
      /\ D.base = 0 /\ D.max = 0 /\ D.lastBase = d.base /\ D.lastMax = d.max
      /\ \A k \in DOMAIN cell.text :
           d.align = "left" /\ d.base <= cell.text[k].b => D.pos[k] = d.pos[k]
      BY <1>1, BreakFields
<1> HIDE DEF C, D
<1>5. c.base <= b /\ d.base <= b
      BY <1>1
<1>6. n \in Nat
      BY GlyphIs
<1>7. ASSUME NEW k \in CharsOf(cell), k <= n PROVE C.pos[k] = D.pos[k]
  <2>1. k \in DOMAIN cell.text /\ cell.text[k].b = b /\ k \in Nat
        BY CharIs DEF OneBearing
  <2>2. k <= n - 1
        BY <1>6, <1>7, <2>1
  <2> QED BY <1>1, <1>2, <1>3, <1>4, <1>5, <2>1, <2>2
<1>8. C.y = D.y
      BY <1>2, <1>3, <1>4
<1> QED BY <1>2, <1>3, <1>4, <1>7, <1>8 DEF Alike, C, D

LEMMA GlyphAlike ==
  ASSUME NEW cell \in CellSet, NEW b \in Nat, OneBearing(cell, b), NEW n \in DOMAIN cell.text,
         NEW c, CellInv(c, cell, n - 1, b), NEW d, CellInv(d, cell, n - 1, b),
         Alike(c, d, cell, n - 1)
  PROVE  Alike(GlyphInCell(c, cell, n), GlyphInCell(d, cell, n), cell, n)
<1>1. CASE n \in CharsOf(cell)
  <2>1. /\ GlyphInCell(c, cell, n) = CharInCell(c, cell, n)
        /\ GlyphInCell(d, cell, n) = CharInCell(d, cell, n)
        BY <1>1 DEF GlyphInCell, CharsOf
  <2> QED BY <1>1, <2>1, CharAlike
<1>2. CASE n \notin CharsOf(cell)
  <2>1. cell.text[n].kind = "break"
        BY <1>2, GlyphIs DEF CharsOf
  <2>2. /\ GlyphInCell(c, cell, n) = BreakInCell(c, cell, n)
        /\ GlyphInCell(d, cell, n) = BreakInCell(d, cell, n)
        BY <2>1 DEF GlyphInCell
  <2> QED BY <1>2, <2>2, BreakAlike
<1> QED BY <1>1, <1>2

\* Wherever its layout comes from, a cell that begins at x gets the same
\* height, and its characters the same places.
LEMMA SetupAlike ==
  ASSUME NEW cell \in CellSet, NEW b \in Nat, OneBearing(cell, b), FitsColumn(cell),
         NEW x \in Nat, NEW c0, Begun(c0, cell, x), NEW d0, Begun(d0, cell, x)
  PROVE  /\ CellHeight(SetupCell(c0, cell)) = CellHeight(SetupCell(d0, cell))
         /\ \A k \in CharsOf(cell) : SetupCell(c0, cell).pos[k] = SetupCell(d0, cell).pos[k]
<1> DEFINE N == Len(cell.text)
           C(n) == Behind(c0, cell)[n]
           D(n) == Behind(d0, cell)[n]
           S == {n \in 0 .. N : Alike(C(n), D(n), cell, n)}
<1>1. N \in Nat /\ DOMAIN cell.text = 1 .. N
      BY TextIs
<1>2. \A n \in 0 .. N : CellInv(C(n), cell, n, b) /\ CellInv(D(n), cell, n, b)
      BY BehindInCell
<1>3. 0 \in S
  <2>1. C(0) = c0 /\ D(0) = d0
        BY <1>1, BehindIs
  <2>2. \A k \in CharsOf(cell) : ~(k <= 0)
        BY <1>1 DEF CharsOf
  <2>3. Alike(c0, d0, cell, 0)
        BY <2>2 DEF Alike, Begun
  <2> QED BY <1>1, <2>1, <2>3
<1>4. ASSUME NEW n \in 1 .. N, n - 1 \in S PROVE n \in S
  <2>1. C(n) = GlyphInCell(C(n - 1), cell, n) /\ D(n) = GlyphInCell(D(n - 1), cell, n)
        BY <1>1, BehindIs
  <2>2. CellInv(C(n - 1), cell, n - 1, b) /\ CellInv(D(n - 1), cell, n - 1, b)
        BY <1>1, <1>2
  <2>3. Alike(C(n - 1), D(n - 1), cell, n - 1)
        BY <1>4
  <2> HIDE DEF C, D
  <2>4. Alike(GlyphInCell(C(n - 1), cell, n), GlyphInCell(D(n - 1), cell, n), cell, n)
        BY <1>1, <2>2, <2>3, GlyphAlike
  <2> QED BY <1>1, <2>1, <2>4
<1>5. S \in SUBSET (0 .. N)
      OBVIOUS
<1> HIDE DEF S
<1>6. S = 0 .. N
      BY <1>1, <1>3, <1>4, <1>5, ByLeast
<1>7. N \in S
      BY <1>1, <1>6
<1>8. Alike(C(N), D(N), cell, N)
      BY <1>7 DEF S
<1>9. /\ SetupCell(c0, cell).y = C(N).y /\ SetupCell(c0, cell).max = C(N).max
      /\ \A k \in CharsOf(cell) : SetupCell(c0, cell).pos[k] = C(N).pos[k]
      BY SetupIs
<1>10. /\ SetupCell(d0, cell).y = D(N).y /\ SetupCell(d0, cell).max = D(N).max
       /\ \A k \in CharsOf(cell) : SetupCell(d0, cell).pos[k] = D(N).pos[k]
       BY SetupIs
<1>11. \A k \in CharsOf(cell) : k <= N
       BY <1>1 DEF CharsOf
<1> HIDE DEF C, D
<1> QED BY <1>8, <1>9, <1>10, <1>11 DEF Alike, CellHeight

-----------------------------------------------------------------------------
(* Rows.                                                                    *)

LEMMA HighestOf ==
  ASSUME NEW S \in SUBSET Int, S # {}, NEW m \in Int, \A g \in S : g <= m
  PROVE  Highest(S) \in S /\ \A g \in S : g <= Highest(S)
<1> DEFINE T == {m - g : g \in S}
<1>1. T \in SUBSET Nat /\ T # {}
  <2>1. \A g \in S : m - g \in Nat
        OBVIOUS
  <2>2. PICK g \in S : TRUE
        OBVIOUS
  <2>3. m - g \in T
        OBVIOUS
  <2> QED BY <2>1, <2>3
<1>2. PICK l \in T : \A j \in T : l <= j
      BY <1>1, LeastOf
<1>3. PICK h \in S : l = m - h
      BY <1>2
<1>4. ASSUME NEW g \in S PROVE g <= h
  <2>1. l <= m - g
        BY <1>2
  <2>2. g \in Int /\ h \in Int
        OBVIOUS
  <2> QED BY <1>3, <2>1, <2>2
<1>5. \E x \in S : \A g \in S : g <= x
      BY <1>4
<1> QED BY <1>5 DEF Highest

LEMMA Bounded ==
  ASSUME NEW n \in Nat, NEW f \in [1 .. n -> Int]
  PROVE  \E m \in Int : \A k \in 1 .. n : f[k] <= m
<1> DEFINE Up(j, m) == \A k \in 1 .. j : f[k] <= m
           S == {j \in 0 .. n : \E m \in Int : Up(j, m)}
<1>1. 0 \in S
  <2>1. Up(0, 0)
        OBVIOUS
  <2> QED BY <2>1
<1>2. ASSUME NEW j \in 1 .. n, j - 1 \in S PROVE j \in S
  <2>1. PICK m \in Int : Up(j - 1, m)
        BY <1>2
  <2>2. f[j] \in Int
        OBVIOUS
  <2>3. Larger(m, f[j]) \in Int /\ m <= Larger(m, f[j]) /\ f[j] <= Larger(m, f[j])
        BY <2>2 DEF Larger
  <2>4. ASSUME NEW k \in 1 .. j PROVE f[k] <= Larger(m, f[j])
    <3>1. CASE k = j
          BY <2>3, <3>1
    <3>2. CASE k # j
      <4>1. k \in 1 .. j - 1 /\ f[k] \in Int
            BY <3>2
      <4>2. f[k] <= m
            BY <2>1, <4>1
      <4> QED BY <2>3, <4>1, <4>2
    <3> QED BY <3>1, <3>2
  <2>5. Up(j, Larger(m, f[j]))
        BY <2>4
  <2> QED BY <2>3, <2>5
<1>3. S \in SUBSET (0 .. n)
      OBVIOUS
<1> HIDE DEF S
<1>4. S = 0 .. n
      BY <1>1, <1>2, <1>3, ByLeast
<1>5. n \in S
      BY <1>4
<1> QED BY <1>5 DEF S

Greatest(h, cs) == Highest({h} \cup {CellHeight(cs[k]) : k \in DOMAIN cs})

LEMMA GreatestIs ==
  ASSUME NEW n \in Nat, NEW cs, DOMAIN cs = 1 .. n, NEW h \in Nat,
         \A k \in 1 .. n : CellHeight(cs[k]) \in Int
  PROVE  /\ Greatest(h, cs) \in Nat /\ h <= Greatest(h, cs)
         /\ \A k \in 1 .. n : CellHeight(cs[k]) <= Greatest(h, cs)
         /\ Greatest(h, cs) = h \/ \E k \in 1 .. n : Greatest(h, cs) = CellHeight(cs[k])
<1> DEFINE f == [k \in 1 .. n |-> CellHeight(cs[k])]
           S == {h} \cup {CellHeight(cs[k]) : k \in DOMAIN cs}
<1>1. f \in [1 .. n -> Int]
      OBVIOUS
<1> HIDE DEF f
<1>2. PICK m \in Int : \A k \in 1 .. n : f[k] <= m
      BY <1>1, Bounded
<1>3. \A k \in 1 .. n : CellHeight(cs[k]) <= m
      BY <1>2 DEF f
<1>4. Larger(m, h) \in Int /\ m <= Larger(m, h)
      /\ h <= Larger(m, h)
      BY DEF Larger
<1>5. ASSUME NEW g \in S PROVE g \in Int /\ g <= Larger(m, h)
  <2>1. CASE g = h
        BY <1>4, <2>1
  <2>2. CASE g # h
    <3>1. PICK k \in 1 .. n : g = CellHeight(cs[k])
          BY <2>2
    <3>2. g \in Int /\ g <= m
          BY <1>3, <3>1
    <3> QED BY <1>4, <3>2
  <2> QED BY <2>1, <2>2
<1>6. h \in S /\ S # {} /\ \A k \in 1 .. n : CellHeight(cs[k]) \in S
      OBVIOUS
<1>7. Greatest(h, cs) = Highest(S)
      BY DEF Greatest
<1>8. \A g \in S : g = h \/ \E k \in 1 .. n : g = CellHeight(cs[k])
      OBVIOUS
<1> HIDE DEF S
<1>9. S \in SUBSET Int
      BY <1>5
<1>10. Highest(S) \in S /\ \A g \in S : g <= Highest(S)
      BY <1>4, <1>5, <1>6, <1>9, HighestOf
<1>11. Greatest(h, cs) \in Int /\ h <= Greatest(h, cs)
      BY <1>6, <1>7, <1>9, <1>10
<1> QED BY <1>6, <1>7, <1>8, <1>10, <1>11

LEMMA RowHeightIs ==
  ASSUME NEW n \in Nat, NEW cs, DOMAIN cs = 1 .. n, height[row] \in Nat,
         \A k \in 1 .. n : CellHeight(cs[k]) \in Int
  PROVE  /\ RowHeight(cs) \in Nat /\ height[row] <= RowHeight(cs)
         /\ \A k \in 1 .. n : CellHeight(cs[k]) <= RowHeight(cs)
         /\ RowHeight(cs) = height[row] \/ \E k \in 1 .. n : RowHeight(cs) = CellHeight(cs[k])
<1>1. RowHeight(cs) = Greatest(height[row], cs)
      BY DEF RowHeight, Greatest
<1>2. /\ Greatest(height[row], cs) \in Nat /\ height[row] <= Greatest(height[row], cs)
      /\ \A k \in 1 .. n : CellHeight(cs[k]) <= Greatest(height[row], cs)
      /\ \/ Greatest(height[row], cs) = height[row]
         \/ \E k \in 1 .. n : Greatest(height[row], cs) = CellHeight(cs[k])
      BY GreatestIs
<1> QED BY <1>1, <1>2

LEMMA TableIs ==
  ASSUME table \in Tables
  PROVE  /\ table \in Seq(Seq(CellSet)) /\ DOMAIN table = 1 .. Len(table)
         /\ Len(table) \in Nat /\ Len(table) > 0
         /\ \A r \in DOMAIN table :
              /\ Len(table[r]) \in Nat /\ DOMAIN table[r] = 1 .. Len(table[r])
              /\ \A k \in DOMAIN table[r] : table[r][k] \in CellSet
<1>1. table \in Seq(Seq(CellSet)) /\ table # <<>>
      BY CellsAssumption DEF CellsAssumption
<1>2. DOMAIN table = 1 .. Len(table) /\ Len(table) \in Nat /\ Len(table) # 0
      BY <1>1, LenProperties, EmptySeq
<1>3. ASSUME NEW r \in DOMAIN table
      PROVE  /\ Len(table[r]) \in Nat /\ DOMAIN table[r] = 1 .. Len(table[r])
             /\ \A k \in DOMAIN table[r] : table[r][k] \in CellSet
  <2>1. table[r] \in Seq(CellSet)
        BY <1>1, <1>2
  <2> QED BY <2>1, LenProperties
<1> QED BY <1>1, <1>2, <1>3

LEMMA NewCellTyped ==
  ASSUME NEW cell \in CellSet, NEW a \in Aligns
  PROVE  /\ NewCell(cell, a) \in CellType(cell) /\ ResetCell(NewCell(cell, a)) \in CellType(cell)
         /\ a = "left" => Begun(NewCell(cell, a), cell, CellMargin)
<1> DEFINE q == [k \in DOMAIN cell.text |-> [x |-> 0, y |-> 0]]
           n == <<>>
<1>1. q \in [DOMAIN cell.text -> [x : Int, y : Int]] /\ n \in Seq(DOMAIN cell.text)
      BY DEF Aligns
<1>2. NewCell(cell, a) = [x |-> CellMargin, y |-> CellMargin, base |-> 0, max |-> 0,
                          lastBase |-> 0, lastMax |-> 0, align |-> a, line |-> n,
                          extent |-> 0, pos |-> q]
      BY DEF NewCell
<1> HIDE DEF q, n
<1>3. NewCell(cell, a) \in CellType(cell)
      BY <1>1, <1>2, CellsAssumption DEF CellsAssumption, CellType
<1>4. a = "left" => Begun(NewCell(cell, a), cell, CellMargin)
      BY <1>2, <1>3 DEF Begun
<1>5. ResetCell(NewCell(cell, a)) = Changed(NewCell(cell, a), TableMargin, CellMargin, 0, 0, 0, 0)
      BY DEF ResetCell, Changed
<1>6. TableMargin \in Int /\ CellMargin \in Int /\ 0 \in Int
      BY CellsAssumption DEF CellsAssumption, TableMargin
<1>7. ResetCell(NewCell(cell, a)) \in CellType(cell)
      BY <1>3, <1>5, <1>6, ChangedFields
<1> QED BY <1>3, <1>4, <1>7

LEMMA ResetCellTyped ==
  ASSUME NEW cell, NEW c \in CellType(cell)
  PROVE  /\ ResetCell(c) \in CellType(cell) /\ ResetCell(c).align = c.align
         /\ c.align = "left" => Begun(ResetCell(c), cell, TableMargin)
<1>1. ResetCell(c) = Changed(c, TableMargin, CellMargin, 0, 0, 0, 0)
      BY DEF ResetCell, Changed
<1>2. TableMargin \in Int /\ CellMargin \in Int /\ 0 \in Int
      BY CellsAssumption DEF CellsAssumption, TableMargin
<1>3. LET d == Changed(c, TableMargin, CellMargin, 0, 0, 0, 0)
      IN  /\ d \in CellType(cell)
          /\ d.x = TableMargin /\ d.y = CellMargin /\ d.base = 0 /\ d.max = 0
          /\ d.lastBase = 0 /\ d.lastMax = 0 /\ d.align = c.align
      BY <1>2, ChangedFields
<1> QED BY <1>1, <1>3 DEF Begun

-----------------------------------------------------------------------------
(* Types.                                                                   *)

TypesInv == TypeOK /\ (st = "shown" => placed = <<>>)

LEMMA FreshTyped ==
  ASSUME table \in Tables
  PROVE  CellsOK(FreshCells)
<1>1. ASSUME NEW r \in DOMAIN table, NEW k \in DOMAIN table[r]
      PROVE  FreshCells[r][k] \in CellType(table[r][k])
  <2>1. table[r][k] \in CellSet
        BY TableIs
  <2>2. table[r][k].align \in Aligns
        BY <2>1 DEF CellSet
  <2>3. NewCell(table[r][k], table[r][k].align) \in CellType(table[r][k])
        BY <2>1, <2>2, NewCellTyped
  <2> QED BY <2>3 DEF FreshCells
<1>2. DOMAIN FreshCells = DOMAIN table
      /\ \A r \in DOMAIN table : DOMAIN FreshCells[r] = DOMAIN table[r]
      BY DEF FreshCells
<1> QED BY <1>1, <1>2 DEF CellsOK

LEMMA DupTyped ==
  ASSUME NEW cs, CellsOK(cs), NEW left
  PROVE  CellsOK(DupRows(cs, left))
<1> DEFINE ds == DupRows(cs, left)
<1>1. /\ DOMAIN cs = DOMAIN table
      /\ \A r \in DOMAIN table :
           /\ DOMAIN cs[r] = DOMAIN table[r]
           /\ \A k \in DOMAIN table[r] : cs[r][k] \in CellType(table[r][k])
      BY DEF CellsOK
<1>2. DOMAIN ds = DOMAIN table
      BY <1>1 DEF DupRows
<1>3. ASSUME NEW r \in DOMAIN table
      PROVE  /\ DOMAIN ds[r] = DOMAIN table[r]
             /\ \A k \in DOMAIN table[r] : ds[r][k] \in CellType(table[r][k])
  <2>1. CASE r < left
    <3>1. ds[r] = cs[r]
          BY <1>1, <2>1 DEF DupRows
    <3> QED BY <1>1, <3>1
  <2>2. CASE ~(r < left)
    <3>1. ds[r] = [k \in DOMAIN cs[r] |-> ResetCell(cs[r][k])]
          BY <1>1, <2>2 DEF DupRows
    <3>2. \A k \in DOMAIN table[r] : ResetCell(cs[r][k]) \in CellType(table[r][k])
          BY <1>1, ResetCellTyped
    <3> QED BY <1>1, <3>1, <3>2
  <2> QED BY <2>1, <2>2
<1> HIDE DEF ds
<1>4. CellsOK(ds)
      BY <1>2, <1>3 DEF CellsOK
<1> QED BY <1>4 DEF ds

LeftCells == [r \in DOMAIN table |-> [k \in DOMAIN table[r] |-> NewCell(table[r][k], "left")]]

LEMMA LeftTyped ==
  ASSUME table \in Tables
  PROVE  CellsOK(LeftCells)
<1>1. ASSUME NEW r \in DOMAIN table, NEW k \in DOMAIN table[r]
      PROVE  LeftCells[r][k] \in CellType(table[r][k])
  <2>1. table[r][k] \in CellSet /\ "left" \in Aligns
        BY TableIs DEF Aligns
  <2>2. NewCell(table[r][k], "left") \in CellType(table[r][k])
        BY <2>1, NewCellTyped
  <2> QED BY <2>2 DEF LeftCells
<1>2. DOMAIN LeftCells = DOMAIN table
      /\ \A r \in DOMAIN table : DOMAIN LeftCells[r] = DOMAIN table[r]
      BY DEF LeftCells
<1> QED BY <1>1, <1>2 DEF CellsOK

\* Setting up a row: its cells, its height, and its box on the page.
LEMMA SetupRowTyped ==
  ASSUME TypeOK, row \in DOMAIN table
  PROVE  /\ DOMAIN SetupRow = DOMAIN table[row]
         /\ \A k \in DOMAIN table[row] :
              SetupRow[k] = SetupCell(cells[row][k], table[row][k])
              /\ SetupRow[k] \in CellType(table[row][k]) /\ CellHeight(SetupRow[k]) \in Int
         /\ RowHeight(SetupRow) \in Nat /\ height[row] <= RowHeight(SetupRow)
         /\ \A k \in DOMAIN table[row] : CellHeight(SetupRow[k]) <= RowHeight(SetupRow)
         /\ \/ RowHeight(SetupRow) = height[row]
            \/ \E k \in DOMAIN table[row] : RowHeight(SetupRow) = CellHeight(SetupRow[k])
         /\ CellsOK([cells EXCEPT ![row] = SetupRow])
<1>1. /\ table \in Tables /\ height[row] \in Nat
      /\ DOMAIN cells = DOMAIN table
      /\ \A r \in DOMAIN table :
           /\ DOMAIN cells[r] = DOMAIN table[r]
           /\ \A k \in DOMAIN table[r] : cells[r][k] \in CellType(table[r][k])
      BY DEF TypeOK, CellsOK
<1>2. /\ Len(table[row]) \in Nat /\ DOMAIN table[row] = 1 .. Len(table[row])
      /\ \A k \in DOMAIN table[row] : table[row][k] \in CellSet
      BY <1>1, TableIs
<1>3. /\ DOMAIN SetupRow = DOMAIN table[row]
      /\ \A k \in DOMAIN table[row] : SetupRow[k] = SetupCell(cells[row][k], table[row][k])
      BY DEF SetupRow
<1>4. ASSUME NEW k \in DOMAIN table[row]
      PROVE  SetupRow[k] \in CellType(table[row][k]) /\ CellHeight(SetupRow[k]) \in Int
  <2>1. SetupRow[k] \in CellType(table[row][k])
        BY <1>1, <1>2, <1>3, SetupTyped
  <2>2. SetupRow[k].y \in Int /\ SetupRow[k].max \in Int
        BY <2>1, CellFields
  <2> QED BY <2>1, <2>2 DEF CellHeight
<1> DEFINE cs == SetupRow
           ds == [cells EXCEPT ![row] = cs]
           n == Len(table[row])
<1> HIDE DEF cs, n
<1>5. /\ RowHeight(cs) \in Nat /\ height[row] <= RowHeight(cs)
      /\ \A k \in 1 .. n : CellHeight(cs[k]) <= RowHeight(cs)
      /\ RowHeight(cs) = height[row] \/ \E k \in 1 .. n : RowHeight(cs) = CellHeight(cs[k])
  <2>1. n \in Nat /\ DOMAIN cs = 1 .. n /\ \A k \in 1 .. n : CellHeight(cs[k]) \in Int
        BY <1>2, <1>3, <1>4 DEF cs, n
  <2> QED BY <1>1, <2>1, RowHeightIs
<1>6. CellsOK(ds)
  <2>1. ds[row] = cs /\ DOMAIN ds = DOMAIN table /\ \A r \in DOMAIN table : r # row => ds[r] = cells[r]
        BY <1>1
  <2> HIDE DEF ds
  <2>2. ASSUME NEW r \in DOMAIN table
        PROVE  /\ DOMAIN ds[r] = DOMAIN table[r]
               /\ \A k \in DOMAIN table[r] : ds[r][k] \in CellType(table[r][k])
    <3>1. CASE r = row
          BY <1>3, <1>4, <2>1, <3>1 DEF cs
    <3>2. CASE r # row
          BY <1>1, <2>1, <3>2
    <3> QED BY <3>1, <3>2
  <2> QED BY <2>1, <2>2 DEF CellsOK
<1> QED BY <1>2, <1>3, <1>4, <1>5, <1>6 DEF cs, n

LEMMA PlacedTyped ==
  ASSUME TypeOK, row \in DOMAIN table, NEW asked, asked.px \in Int, asked.py \in Int
  PROVE  PlacedRow(SetupRow, asked) \in RowType
<1> DEFINE G == PlacedRow(SetupRow, asked).glyphs
<1>1. ASSUME NEW k \in DOMAIN table[row], NEW j \in CharsOf(table[row][k])
      PROVE  PlacedGlyph(SetupRow[k], k, j, asked) \in BoxType
  <2>1. table[row][k] \in CellSet /\ k \in Nat /\ row \in Nat
    <3>1. table \in Tables
          BY DEF TypeOK
    <3>2. table[row][k] \in CellSet
          BY <3>1, TableIs
    <3>3. row \in 1 .. Len(table) /\ k \in 1 .. Len(table[row])
          BY <3>1, TableIs
    <3> QED BY <3>2, <3>3
  <2>2. /\ j \in DOMAIN table[row][k].text /\ j \in Nat
        /\ table[row][k].text[j].w \in Nat /\ table[row][k].text[j].h \in Nat
        BY <2>1, CharIs
  <2>3. SetupRow[k] \in CellType(table[row][k])
        BY SetupRowTyped
  <2>4. SetupRow[k].pos[j].x \in Int /\ SetupRow[k].pos[j].y \in Int
        BY <2>2, <2>3, PosType
  <2>5. table[row][k].xoff \in Nat
        BY <2>1 DEF CellSet
  <2> QED BY <2>1, <2>2, <2>4, <2>5 DEF PlacedGlyph, BoxType
<1>2. PlacedRow(SetupRow, asked).glyphs =
        UNION {{PlacedGlyph(SetupRow[k], k, j, asked) : j \in CharsOf(table[row][k])} :
               k \in DOMAIN table[row]}
      BY DEF PlacedRow
<1>3. G \in SUBSET BoxType
  <2>1. \A g \in G : \E k \in DOMAIN table[row] : \E j \in CharsOf(table[row][k]) :
           g = PlacedGlyph(SetupRow[k], k, j, asked)
        BY <1>2, Zenon
  <2> QED BY <1>1, <2>1
<1>4. /\ PlacedRow(SetupRow, asked) = [row |-> row, y |-> asked.py,
                                        height |-> RowHeight(SetupRow), glyphs |-> G]
      BY DEF PlacedRow
<1> HIDE DEF G
<1>5. RowHeight(SetupRow) \in Nat
      BY SetupRowTyped
<1> QED BY <1>3, <1>4, <1>5 DEF RowType

LEMMA AskedType ==
  ASSUME lo \in Layout, NEW h \in Int
  PROVE  /\ Asked(h).lo \in Layout /\ Asked(h).px \in Int /\ Asked(h).py \in Int
BY GetTablePosType, PositionType DEF Asked

LEMMA BelowType == ASSUME NEW n \in Int PROVE Below(n) \in Layout
<1>1. Reset(NewLayout) \in Layout
      BY NewLayoutType, ResetType
<1>2. Reset(NewLayout).y \in Int
      BY <1>1, FieldTypes
<1> QED BY <1>1, <1>2 DEF Below, Layout

\* The rows drawn, and what stays of the table for the next page.
LEMMA SplitIs ==
  ASSUME TypeOK, row \in DOMAIN table
  PROVE  /\ RowSplit \in Nat /\ RowSplit <= Len(placed) /\ from + RowSplit \in from .. row
         /\ from + RowSplit \in DOMAIN table
         /\ {placed[k] : k \in 1 .. RowSplit} \in SUBSET RowType
<1>1. table \in Tables /\ from \in DOMAIN table /\ row \in from .. Len(table) + 1
      /\ placed \in Seq(RowType) /\ Len(placed) <= row - from
      BY DEF TypeOK
<1>2. DOMAIN table = 1 .. Len(table) /\ Len(table) \in Nat
      BY <1>1, TableIs
<1>3. Len(placed) \in Nat /\ \A k \in 1 .. Len(placed) : placed[k] \in RowType
      BY <1>1, ElementOfSeq, LenProperties
<1>4. /\ RowSplit \in Nat /\ RowSplit <= Len(placed)
      /\ RowSplit = 0 \/ RowSplit <= row - from - 1
      BY <1>1, <1>2, <1>3 DEF RowSplit
<1>5. \A k \in 1 .. RowSplit : placed[k] \in RowType
      BY <1>3, <1>4
<1> QED BY <1>1, <1>2, <1>4, <1>5

LEMMA DrawnTyped ==
  ASSUME first \in Seq(SUBSET RowType), NEW R \in SUBSET RowType, Drawn(R)
  PROVE  ink' \in SUBSET RowType /\ first' \in Seq(SUBSET RowType)
<1>1. Append(first, R) \in Seq(SUBSET RowType)
      BY AppendProperties
<1> QED BY <1>1 DEF Drawn

LEMMA InitTypes == Init => TypesInv
<1> SUFFICES ASSUME Init PROVE TypesInv
    OBVIOUS
<1>1. /\ table \in Tables /\ buffered \in BOOLEAN /\ lead \in IF buffered THEN {0} ELSE Leads
      /\ cells = IF buffered THEN DupRows(FreshCells, 1) ELSE FreshCells
      /\ height = [r \in DOMAIN table |-> 0] /\ lo = Below(lead)
      /\ from = 1 /\ row = 1 /\ placed = <<>> /\ ink = {}
      /\ start = <<1>> /\ first = <<>> /\ page = 1 /\ ended = FALSE /\ st = "set"
      BY DEF Init
<1>2. DOMAIN table = 1 .. Len(table) /\ Len(table) \in Nat /\ Len(table) > 0
      BY <1>1, TableIs
<1>3. CellsOK(cells)
      BY <1>1, FreshTyped, DupTyped
<1>4. lead \in Leads \cup {0} /\ lead \in Int
      BY <1>1, CellsAssumption DEF CellsAssumption
<1>5. lo \in Layout
      BY <1>1, <1>4, BelowType
<1>6. height \in [DOMAIN table -> Nat]
      BY <1>1
<1>7. /\ placed \in Seq(RowType) /\ first \in Seq(SUBSET RowType) /\ Len(placed) = 0
      /\ ink \in SUBSET RowType
      BY <1>1
<1>8. 1 \in DOMAIN table /\ 1 \in 1 .. Len(table) + 1
      BY <1>2
<1>9. start \in Seq(DOMAIN table) /\ page \in DOMAIN start
      BY <1>1, <1>8
<1>10. row - from = 0 /\ row \in from .. Len(table) + 1
      BY <1>1, <1>8
<1>11. table \in Tables /\ buffered \in BOOLEAN /\ ended \in BOOLEAN /\ st = "set"
       BY <1>1, Zenon
<1>12. Len(placed) <= row - from /\ ink \subseteq RowType
       BY <1>7, <1>10
<1>13. from \in DOMAIN table
       BY <1>1, <1>8, Zenon
<1> QED BY <1>3, <1>4, <1>5, <1>6, <1>7, <1>9, <1>10, <1>11, <1>12, <1>13
       DEF TypesInv, TypeOK

LEMMA NextTypes == TypesInv /\ [Next]_vars => TypesInv'
<1> SUFFICES ASSUME TypesInv, [Next]_vars PROVE TypesInv'
    OBVIOUS
<1>1. TypeOK /\ (st = "shown" => placed = <<>>)
      BY DEF TypesInv
<1>2. /\ table \in Tables /\ buffered \in BOOLEAN /\ lead \in Leads \cup {0}
      /\ CellsOK(cells) /\ height \in [DOMAIN table -> Nat]
      /\ lo \in Layout /\ from \in DOMAIN table /\ row \in from .. Len(table) + 1
      /\ placed \in Seq(RowType) /\ Len(placed) <= row - from
      /\ ink \subseteq RowType /\ first \in Seq(SUBSET RowType)
      /\ start \in Seq(DOMAIN table) /\ page \in DOMAIN start
      /\ ended \in BOOLEAN /\ st \in {"set", "shown"}
      BY <1>1 DEF TypeOK
<1>3. DOMAIN table = 1 .. Len(table) /\ Len(table) \in Nat
      BY <1>2, TableIs
<1>4. Len(placed) \in Nat /\ DOMAIN start = 1 .. Len(start) /\ Len(start) \in Nat
      BY <1>2, LenProperties
<1>5. CASE SetRow
  <2> DEFINE h == RowHeight(SetupRow)
             p == PlacedRow(SetupRow, Asked(h))
  <2>1. /\ row \in DOMAIN table /\ st = "set"
        /\ cells' = [cells EXCEPT ![row] = SetupRow] /\ height' = [height EXCEPT ![row] = h]
        /\ placed' = Append(placed, p) /\ lo' = Asked(h).lo /\ row' = row + 1
        /\ UNCHANGED <<document, from, ink, first, place, ended, st>>
        BY <1>5 DEF SetRow
  <2>2. h \in Nat /\ CellsOK([cells EXCEPT ![row] = SetupRow])
        BY <1>1, <2>1, SetupRowTyped
  <2>3. lo' \in Layout /\ Asked(h).px \in Int /\ Asked(h).py \in Int
    <3>1. lo \in Layout /\ lo' = Asked(h).lo /\ h \in Nat
          BY <1>2, <2>1, <2>2, Zenon
    <3> HIDE DEF h
    <3> QED BY <3>1, AskedType
  <2>4. p \in RowType
        BY <1>1, <2>1, <2>3, PlacedTyped
  <2> HIDE DEF h, p
  <2>5. placed' \in Seq(RowType) /\ Len(placed') = Len(placed) + 1
        BY <1>2, <2>1, <2>4, AppendProperties
  <2>6. height' \in [DOMAIN table -> Nat]
        BY <1>2, <2>1, <2>2
  <2>7. row' \in from .. Len(table) + 1 /\ Len(placed') <= row' - from
    <3>1. /\ from \in DOMAIN table /\ row \in from .. Len(table) + 1
          /\ Len(placed) \in Nat /\ Len(placed) <= row - from
          BY <1>2, <1>4, Zenon
    <3>2. row \in DOMAIN table /\ row' = row + 1 /\ Len(placed') = Len(placed) + 1
          BY <2>1, <2>5, Zenon
    <3> DEFINE m == Len(placed)  n == Len(placed')  l == Len(table)
    <3>3. /\ from \in 1 .. l /\ row \in from .. l + 1 /\ m \in Nat /\ m <= row - from
          /\ row \in 1 .. l /\ n = m + 1 /\ l \in Nat
          BY <3>1, <3>2, <1>3, Zenon
    <3> HIDE DEF m, n, l
    <3>4. row' \in from .. l + 1 /\ n <= row' - from
          BY <3>2, <3>3
    <3> QED BY <3>4 DEF n, l
  <2>8. CellsOK(cells)'
        BY <2>1, <2>2 DEF CellsOK, document
  <2>9. /\ table' = table /\ buffered' = buffered /\ lead' = lead /\ from' = from /\ ink' = ink
        /\ first' = first /\ start' = start /\ page' = page /\ ended' = ended /\ st' = st
        BY <2>1 DEF document, place
  <2>10. RowType' = RowType
        BY <2>9 DEF RowType
  <2> QED BY <1>2, <2>1, <2>3, <2>5, <2>6, <2>7, <2>8, <2>9, <2>10 DEF TypesInv, TypeOK
<1>6. CASE BreakTable
  <2> DEFINE h == RowHeight(SetupRow)
             R == {placed[k] : k \in 1 .. RowSplit}
  <2>1. /\ row \in DOMAIN table
        /\ cells' = [cells EXCEPT ![row] = SetupRow] /\ height' = [height EXCEPT ![row] = h]
        /\ Drawn(R) /\ from' = from + RowSplit /\ placed' = <<>> /\ lo' = Asked(h).lo
        /\ st' = "shown" /\ UNCHANGED <<document, row, place, ended>>
        BY <1>6 DEF BreakTable
  <2>2. h \in Nat /\ CellsOK([cells EXCEPT ![row] = SetupRow])
        BY <1>1, <2>1, SetupRowTyped
  <2>3. lo' \in Layout
        BY <1>2, <2>1, <2>2, AskedType
  <2>4. from + RowSplit \in DOMAIN table /\ from + RowSplit \in from .. row /\ R \in SUBSET RowType
        BY <1>1, <2>1, SplitIs
  <2> HIDE DEF h, R
  <2>5. ink' \in SUBSET RowType /\ first' \in Seq(SUBSET RowType)
        BY <1>2, <2>1, <2>4, DrawnTyped
  <2>6. height' \in [DOMAIN table -> Nat]
        BY <1>2, <2>1, <2>2
  <2>7. row' \in from' .. Len(table) + 1 /\ from' \in DOMAIN table
        /\ Len(placed') = 0 /\ 0 <= row' - from' /\ placed' \in Seq(RowType)
        BY <1>2, <1>3, <2>1, <2>4
  <2>8. CellsOK(cells)'
        BY <2>1, <2>2 DEF CellsOK, document
  <2>9. /\ table' = table /\ buffered' = buffered /\ lead' = lead /\ row' = row
        /\ start' = start /\ page' = page /\ ended' = ended
        BY <2>1 DEF document, place
  <2>10. RowType' = RowType
        BY <2>9 DEF RowType
  <2> QED BY <1>2, <2>1, <2>3, <2>5, <2>6, <2>7, <2>8, <2>9, <2>10 DEF TypesInv, TypeOK
<1>7. CASE EndDocument
  <2> DEFINE R == {placed[k] : k \in DOMAIN placed}
  <2>1. /\ Drawn(R) /\ placed' = <<>> /\ ended' = TRUE /\ st' = "shown"
        /\ UNCHANGED <<document, cells, height, lo, from, row, place>>
        BY <1>7 DEF EndDocument
  <2>2. R \in SUBSET RowType
        BY <1>2
  <2> HIDE DEF R
  <2>3. ink' \in SUBSET RowType /\ first' \in Seq(SUBSET RowType)
        BY <1>2, <2>1, <2>2, DrawnTyped
  <2>4. /\ table' = table /\ buffered' = buffered /\ lead' = lead /\ row' = row /\ from' = from
        /\ start' = start /\ page' = page /\ cells' = cells /\ height' = height /\ lo' = lo
        BY <2>1 DEF document, place
  <2>5. RowType' = RowType /\ (CellsOK(cells)' <=> CellsOK(cells))
        BY <2>4 DEF RowType, CellsOK
  <2>6. placed' \in Seq(RowType) /\ Len(placed') = 0 /\ 0 <= row - from
        BY <1>2, <1>3, <2>1
  <2> QED BY <1>2, <2>1, <2>3, <2>4, <2>5, <2>6 DEF TypesInv, TypeOK
<1>8. CASE NextPage
  <2>1. /\ st = "shown" /\ page' = page + 1 /\ start' = Append(start, from)
        /\ cells' = DupRows(cells, from) /\ row' = from /\ ink' = {} /\ st' = "set"
        /\ UNCHANGED <<document, height, lo, from, placed, first, ended>>
        BY <1>8 DEF NextPage
  <2>2. CellsOK(DupRows(cells, from))
        BY <1>2, DupTyped
  <2>3. start' \in Seq(DOMAIN table) /\ page' \in DOMAIN start'
    <3>1. start' \in Seq(DOMAIN table) /\ Len(start') = Len(start) + 1
          BY <1>2, <2>1, AppendProperties
    <3> QED BY <1>2, <1>4, <2>1, <3>1
  <2>4. /\ table' = table /\ buffered' = buffered /\ lead' = lead /\ from' = from
        /\ height' = height /\ lo' = lo /\ placed' = placed /\ first' = first /\ ended' = ended
        BY <2>1 DEF document
  <2>5. RowType' = RowType /\ CellsOK(cells)'
    <3>1. CellsOK(cells')
          BY <2>1, <2>2
    <3> QED BY <2>4, <3>1 DEF RowType, CellsOK
  <2>6. row' \in from .. Len(table) + 1 /\ Len(placed) <= row' - from
        BY <1>1, <1>2, <1>3, <2>1
  <2>7. ink' \in SUBSET RowType
        BY <2>1
  <2> QED BY <1>2, <2>1, <2>3, <2>4, <2>5, <2>6, <2>7 DEF TypesInv, TypeOK
<1>9. ASSUME NEW p \in 1 .. MaxPages, EarlierPage(p) PROVE TypesInv'
  <2>1. /\ st = "shown" /\ p \in DOMAIN start
        /\ page' = p /\ from' = start[p] /\ row' = start[p]
        /\ cells' = IF p = 1 /\ ~buffered THEN FreshCells ELSE Restored(start[p])
        /\ height' = RowsZero /\ lo' = IF p = 1 THEN Below(lead) ELSE Below(0)
        /\ ink' = {} /\ st' = "set"
        /\ UNCHANGED <<document, placed, start, first, ended>>
        BY <1>9 DEF EarlierPage
  <2>2. /\ table' = table /\ buffered' = buffered /\ lead' = lead /\ placed' = placed
        /\ start' = start /\ first' = first /\ ended' = ended
        BY <2>1 DEF document
  <2>3. CellsOK(cells')
    <3>1. CellsOK(Restored(start[p]))
          BY <1>2, LeftTyped, DupTyped DEF Restored, LeftCells
    <3> QED BY <1>2, <2>1, <3>1, FreshTyped
  <2>4. RowType' = RowType /\ CellsOK(cells)'
        BY <2>2, <2>3 DEF RowType, CellsOK
  <2>5. lo' \in Layout
    <3>1. lead \in Int
          BY <1>2, CellsAssumption DEF CellsAssumption
    <3> QED BY <2>1, <3>1, BelowType
  <2>6. start[p] \in DOMAIN table
        BY <1>2, <2>1
  <2>7. /\ from' \in DOMAIN table /\ row' \in from' .. Len(table) + 1
        /\ Len(placed) <= row' - from'
        BY <1>1, <1>3, <2>1, <2>6
  <2>8. height' \in [DOMAIN table -> Nat] /\ ink' \in SUBSET RowType
        BY <2>1 DEF RowsZero
  <2> QED BY <1>2, <2>1, <2>2, <2>4, <2>5, <2>7, <2>8 DEF TypesInv, TypeOK
<1>10. CASE UNCHANGED vars
  <2>1. /\ table' = table /\ buffered' = buffered /\ lead' = lead /\ cells' = cells
        /\ height' = height /\ lo' = lo /\ from' = from /\ row' = row /\ placed' = placed
        /\ ink' = ink /\ first' = first /\ start' = start /\ page' = page
        /\ ended' = ended /\ st' = st
        BY <1>10 DEF vars, document, place
  <2>2. RowType' = RowType /\ (CellsOK(cells)' <=> CellsOK(cells))
        BY <2>1 DEF RowType, CellsOK
  <2> QED BY <1>1, <1>2, <2>1, <2>2 DEF TypesInv, TypeOK
<1> QED BY <1>5, <1>6, <1>7, <1>8, <1>9, <1>10 DEF Next

\* Types are kept, for every table, spacing and page: what a cell's layout is
\* behind any of its glyphs is a layout, each row that found a place is one of
\* the table, and the rows given back to the parser begin at one that exists.
THEOREM CellTypes == Spec => []TypeOK
<1>1. TypesInv => TypeOK
      BY DEF TypesInv
<1> QED BY <1>1, InitTypes, NextTypes, PTL DEF Spec

-----------------------------------------------------------------------------
(* Glyphs are in their cells.                                               *)

\* The cells are set from the left, each in characters of one bearing that fit
\* its column.
PlainCells ==
  \A r \in DOMAIN table : \A k \in DOMAIN table[r] :
    LET cell == table[r][k]
    IN  cell.align = "left" /\ FitsColumn(cell) /\ \E b \in Nat : OneBearing(cell, b)

\* The columns of a row stand side by side.
ColumnsApart ==
  \A r \in DOMAIN table : \A j, k \in DOMAIN table[r] :
    j < k => table[r][j].xoff + table[r][j].width <= table[r][k].xoff

\* Where cells begin: rows that were never stored have new cells.
EdgeOf(p) == IF p = 1 /\ ~buffered THEN CellMargin ELSE TableMargin
Edge      == EdgeOf(page)

Ready(r) == \A k \in DOMAIN table[r] : Begun(cells[r][k], table[r][k], Edge)

LEMMA EdgeType == Edge \in Nat
BY CellsAssumption DEF CellsAssumption, Edge, EdgeOf, TableMargin

LEMMA ReadyRow ==
  ASSUME TypeOK, PlainCells, row \in DOMAIN table, Ready(row), NEW k \in DOMAIN table[row]
  PROVE  /\ AllInCell(SetupRow[k], table[row][k]) /\ SetupRow[k].align = "left"
<1>1. table[row][k] \in CellSet
  <2>1. table \in Tables
        BY DEF TypeOK
  <2> QED BY <2>1, TableIs
<1>2. FitsColumn(table[row][k]) /\ \E b \in Nat : OneBearing(table[row][k], b)
      BY DEF PlainCells
<1>3. Begun(cells[row][k], table[row][k], Edge)
      BY DEF Ready
<1>4. SetupRow[k] = SetupCell(cells[row][k], table[row][k])
      BY SetupRowTyped
<1> QED BY <1>1, <1>2, <1>3, <1>4, SetupInCell, EdgeType

LEMMA GlyphPlaced ==
  ASSUME NEW c, NEW k, NEW j, NEW asked
  PROVE  /\ PlacedGlyph(c, k, j, asked).row = row /\ PlacedGlyph(c, k, j, asked).cell = k
         /\ PlacedGlyph(c, k, j, asked).column = asked.px + table[row][k].xoff
         /\ PlacedGlyph(c, k, j, asked).left = asked.px + table[row][k].xoff + c.pos[j].x
         /\ PlacedGlyph(c, k, j, asked).right
              = asked.px + table[row][k].xoff + c.pos[j].x + table[row][k].text[j].w
         /\ PlacedGlyph(c, k, j, asked).top = (asked.py + c.pos[j].y) - table[row][k].text[j].h
         /\ PlacedGlyph(c, k, j, asked).bottom = asked.py + c.pos[j].y
BY DEF PlacedGlyph

LEMMA RowInPlace ==
  ASSUME TypeOK, PlainCells, ColumnsApart, row \in DOMAIN table, Ready(row),
         NEW asked, asked.px \in Int, asked.py \in Int
  PROVE  InPlace(PlacedRow(SetupRow, asked))
<1> DEFINE P == PlacedRow(SetupRow, asked)
           T(k) == table[row][k]
           C(k) == SetupRow[k]
           G(k, j) == PlacedGlyph(SetupRow[k], k, j, asked)
<1>1. /\ P.y = asked.py /\ P.height = RowHeight(SetupRow)
      /\ P.glyphs = UNION {{G(k, j) : j \in CharsOf(T(k))} : k \in DOMAIN table[row]}
      BY DEF PlacedRow
<1>2. \A g \in P.glyphs : \E k \in DOMAIN table[row] : \E j \in CharsOf(T(k)) : g = G(k, j)
  <2> HIDE DEF P, G
  <2> QED BY <1>1, Zenon
<1>3. ASSUME NEW k \in DOMAIN table[row], NEW j \in CharsOf(T(k))
      PROVE  /\ j \in DOMAIN T(k).text /\ j \in Nat /\ T(k).text[j].w \in Nat /\ T(k).text[j].h \in Nat
             /\ T(k).xoff \in Nat /\ T(k).width \in Nat /\ k \in Nat
             /\ C(k).pos[j].x \in Int /\ C(k).pos[j].y \in Int /\ CellHeight(C(k)) \in Int
  <2>1. table \in Tables
        BY DEF TypeOK
  <2>2. T(k) \in CellSet /\ k \in 1 .. Len(table[row])
        BY <2>1, TableIs
  <2>3. j \in DOMAIN T(k).text /\ j \in Nat /\ T(k).text[j].w \in Nat /\ T(k).text[j].h \in Nat
        BY <2>2, CharIs
  <2>4. C(k) \in CellType(T(k)) /\ CellHeight(C(k)) \in Int
        BY SetupRowTyped
  <2>5. C(k).pos[j].x \in Int /\ C(k).pos[j].y \in Int
        BY <2>3, <2>4, PosType
  <2>6. T(k).xoff \in Nat /\ T(k).width \in Nat
        BY <2>2 DEF CellSet
  <2> QED BY <2>2, <2>3, <2>4, <2>5, <2>6
<1>4. ASSUME NEW k \in DOMAIN table[row], NEW j \in CharsOf(T(k))
      PROVE  /\ G(k, j).row = row /\ G(k, j).cell = k
             /\ G(k, j).column = asked.px + T(k).xoff
             /\ G(k, j).left = asked.px + T(k).xoff + C(k).pos[j].x
             /\ G(k, j).right = asked.px + T(k).xoff + C(k).pos[j].x + T(k).text[j].w
             /\ G(k, j).top = (asked.py + C(k).pos[j].y) - T(k).text[j].h
             /\ G(k, j).bottom = asked.py + C(k).pos[j].y
  <2> HIDE DEF P
  <2> QED BY GlyphPlaced
<1>5. ASSUME NEW k \in DOMAIN table[row], NEW j \in CharsOf(T(k))
      PROVE  /\ 0 <= C(k).pos[j].x /\ C(k).pos[j].x + T(k).text[j].w <= T(k).width
             /\ 0 <= C(k).pos[j].y - T(k).text[j].h /\ C(k).pos[j].y <= CellHeight(C(k))
             /\ CellHeight(C(k)) <= RowHeight(SetupRow)
             /\ \A i \in CharsOf(T(k)) : i < j => Clear(C(k), T(k), i, j)
  <2>1. AllInCell(C(k), T(k))
        BY ReadyRow
  <2>2. CellHeight(C(k)) <= RowHeight(SetupRow)
        BY SetupRowTyped
  <2> QED BY <2>1, <2>2 DEF AllInCell
<1>6. RowHeight(SetupRow) \in Nat
      BY SetupRowTyped
<1> HIDE DEF P, G, C
<1>7. ASSUME NEW k \in DOMAIN table[row], NEW j \in CharsOf(T(k))
      PROVE  /\ G(k, j).column <= G(k, j).left
             /\ G(k, j).right <= G(k, j).column + table[G(k, j).row][G(k, j).cell].width
             /\ P.y <= G(k, j).top /\ G(k, j).bottom <= P.y + P.height
  <2>1. table[G(k, j).row][G(k, j).cell].width = T(k).width
        BY <1>4
  <2> HIDE DEF T
  <2> QED BY <1>1, <1>3, <1>4, <1>5, <1>6, <2>1
<1>8. ASSUME NEW k \in DOMAIN table[row], NEW i \in CharsOf(T(k)), NEW j \in CharsOf(T(k)), i # j
      PROVE  Apart(G(k, i), G(k, j))
  <2>1. i \in Nat /\ j \in Nat
        BY <1>3
  <2>2. CASE i < j
    <3>1. Clear(C(k), T(k), i, j)
          BY <1>5, <2>2
    <3> HIDE DEF T
    <3> QED BY <1>3, <1>4, <3>1 DEF Clear, Apart
  <2>3. CASE j < i
    <3>1. Clear(C(k), T(k), j, i)
          BY <1>5, <2>3
    <3> HIDE DEF T
    <3> QED BY <1>3, <1>4, <3>1 DEF Clear, Apart
  <2> QED BY <1>8, <2>1, <2>2, <2>3
<1>9. ASSUME NEW k \in DOMAIN table[row], NEW l \in DOMAIN table[row], k # l,
             NEW i \in CharsOf(T(k)), NEW j \in CharsOf(T(l))
      PROVE  Apart(G(k, i), G(l, j))
  <2>1. k \in Nat /\ l \in Nat
        BY <1>3
  <2>2. CASE k < l
    <3>1. T(k).xoff + T(k).width <= T(l).xoff
          BY <2>2 DEF ColumnsApart
    <3> HIDE DEF T
    <3>2. G(k, i).right <= G(l, j).left
          BY <1>3, <1>4, <1>5, <3>1
    <3> QED BY <3>2 DEF Apart
  <2>3. CASE l < k
    <3>1. T(l).xoff + T(l).width <= T(k).xoff
          BY <2>3 DEF ColumnsApart
    <3> HIDE DEF T
    <3>2. G(l, j).right <= G(k, i).left
          BY <1>3, <1>4, <1>5, <3>1
    <3> QED BY <3>2 DEF Apart
  <2> QED BY <1>9, <2>1, <2>2, <2>3
<1> HIDE DEF T
<1>10. ASSUME NEW g \in P.glyphs
       PROVE  /\ g.column <= g.left /\ g.right <= g.column + table[g.row][g.cell].width
              /\ P.y <= g.top /\ g.bottom <= P.y + P.height
              /\ \A f \in P.glyphs \ {g} : Apart(f, g)
  <2>1. PICK k \in DOMAIN table[row] : \E j \in CharsOf(T(k)) : g = G(k, j)
        BY <1>2
  <2>2. PICK j \in CharsOf(T(k)) : g = G(k, j)
        BY <2>1
  <2>3. ASSUME NEW f \in P.glyphs \ {g} PROVE Apart(f, g)
    <3>1. PICK l \in DOMAIN table[row] : \E i \in CharsOf(T(l)) : f = G(l, i)
          BY <1>2
    <3>2. PICK i \in CharsOf(T(l)) : f = G(l, i)
          BY <3>1
    <3>3. CASE k = l
      <4>1. i # j
            BY <2>2, <2>3, <3>2, <3>3
      <4> QED BY <1>8, <2>2, <3>2, <3>3, <4>1
    <3>4. CASE k # l
          BY <1>9, <2>2, <3>2, <3>4
    <3> QED BY <3>3, <3>4
  <2> QED BY <1>7, <2>2, <2>3
<1> QED BY <1>10 DEF InPlace, P
AllLeft(cs) == \A r \in DOMAIN table : \A k \in DOMAIN table[r] : cs[r][k].align = "left"

BegunFrom(cs, n, x) ==
  \A r \in DOMAIN table : \A k \in DOMAIN table[r] : n <= r => Begun(cs[r][k], table[r][k], x)

LEMMA FreshBegun ==
  ASSUME table \in Tables, PlainCells
  PROVE  AllLeft(FreshCells) /\ BegunFrom(FreshCells, 1, CellMargin)
<1>1. ASSUME NEW r \in DOMAIN table, NEW k \in DOMAIN table[r]
      PROVE  Begun(FreshCells[r][k], table[r][k], CellMargin)
  <2>1. table[r][k] \in CellSet /\ table[r][k].align = "left" /\ "left" \in Aligns
        BY TableIs DEF PlainCells, Aligns
  <2>2. FreshCells[r][k] = NewCell(table[r][k], "left")
        BY <2>1 DEF FreshCells
  <2> QED BY <2>1, <2>2, NewCellTyped
<1> QED BY <1>1 DEF AllLeft, BegunFrom, Begun

LEMMA LeftBegun ==
  ASSUME table \in Tables
  PROVE  AllLeft(LeftCells)
<1>1. ASSUME NEW r \in DOMAIN table, NEW k \in DOMAIN table[r]
      PROVE  Begun(LeftCells[r][k], table[r][k], CellMargin)
  <2>1. table[r][k] \in CellSet /\ "left" \in Aligns
        BY TableIs DEF Aligns
  <2>2. LeftCells[r][k] = NewCell(table[r][k], "left")
        BY DEF LeftCells
  <2> QED BY <2>1, <2>2, NewCellTyped
<1> QED BY <1>1 DEF AllLeft, Begun

LEMMA DupBegun ==
  ASSUME table \in Tables, NEW cs, CellsOK(cs), AllLeft(cs), NEW n \in Nat
  PROVE  AllLeft(DupRows(cs, n)) /\ BegunFrom(DupRows(cs, n), n, TableMargin)
<1>1. /\ DOMAIN cs = DOMAIN table
      /\ \A r \in DOMAIN table :
           /\ DOMAIN cs[r] = DOMAIN table[r]
           /\ \A k \in DOMAIN table[r] : cs[r][k] \in CellType(table[r][k])
      BY DEF CellsOK
<1>2. ASSUME NEW r \in DOMAIN table, NEW k \in DOMAIN table[r]
      PROVE  /\ DupRows(cs, n)[r][k].align = "left"
             /\ n <= r => Begun(DupRows(cs, n)[r][k], table[r][k], TableMargin)
  <2>1. cs[r][k].align = "left" /\ r \in Nat
        BY TableIs DEF AllLeft
  <2>2. CASE r < n
    <3>1. DupRows(cs, n)[r] = cs[r]
          BY <1>1, <2>2 DEF DupRows
    <3> QED BY <2>1, <2>2, <3>1
  <2>3. CASE ~(r < n)
    <3>1. DupRows(cs, n)[r][k] = ResetCell(cs[r][k])
          BY <1>1, <2>3 DEF DupRows
    <3>2. cs[r][k] \in CellType(table[r][k])
          BY <1>1
    <3> QED BY <2>1, <3>1, <3>2, ResetCellTyped
  <2> QED BY <2>2, <2>3
<1> QED BY <1>2 DEF AllLeft, BegunFrom

\* Setting up a row keeps the cells set from the left, and the rows below it
\* as they were.
LEMMA SetupLeft ==
  ASSUME TypeOK, PlainCells, row \in DOMAIN table, AllLeft(cells), BegunFrom(cells, row, Edge)
  PROVE  /\ AllLeft([cells EXCEPT ![row] = SetupRow])
         /\ BegunFrom([cells EXCEPT ![row] = SetupRow], row + 1, Edge)
<1> DEFINE ds == [cells EXCEPT ![row] = SetupRow]
<1>1. DOMAIN cells = DOMAIN table /\ table \in Tables
      BY DEF TypeOK, CellsOK
<1>2. row \in Nat /\ \A r \in DOMAIN table : r \in Nat
      BY <1>1, TableIs
<1>3. ds[row] = SetupRow /\ \A r \in DOMAIN table : r # row => ds[r] = cells[r]
      BY <1>1
<1>4. Ready(row)
      BY <1>2 DEF Ready, BegunFrom
<1>5. \A k \in DOMAIN table[row] : SetupRow[k].align = "left"
      BY <1>4, ReadyRow
<1> HIDE DEF ds
<1>6. AllLeft(ds)
      BY <1>3, <1>5 DEF AllLeft
<1>7. BegunFrom(ds, row + 1, Edge)
  <2>1. ASSUME NEW r \in DOMAIN table, row + 1 <= r PROVE r # row /\ row <= r
        BY <1>2, <2>1
  <2> QED BY <1>3, <2>1 DEF BegunFrom
<1> QED BY <1>6, <1>7 DEF ds

\* Cells are set from the left, and those of rows not set up yet have not begun.
BegunInv == AllLeft(cells) /\ (st = "set" => BegunFrom(cells, row, Edge))

LEMMA InitBegun == Init /\ PlainCells => BegunInv
<1> SUFFICES ASSUME Init, PlainCells PROVE BegunInv
    OBVIOUS
<1>1. /\ table \in Tables /\ buffered \in BOOLEAN
      /\ cells = IF buffered THEN DupRows(FreshCells, 1) ELSE FreshCells
      /\ row = 1 /\ page = 1
      BY DEF Init
<1>2. AllLeft(FreshCells) /\ BegunFrom(FreshCells, 1, CellMargin) /\ CellsOK(FreshCells)
      BY <1>1, FreshBegun, FreshTyped
<1>3. AllLeft(DupRows(FreshCells, 1)) /\ BegunFrom(DupRows(FreshCells, 1), 1, TableMargin)
      BY <1>1, <1>2, DupBegun
<1>4. CASE buffered
  <2>1. Edge = TableMargin
        BY <1>4 DEF Edge, EdgeOf
  <2>2. AllLeft(cells) /\ BegunFrom(cells, row, Edge)
        BY <1>1, <1>3, <1>4, <2>1, Zenon
  <2> QED BY <2>2 DEF BegunInv
<1>5. CASE ~buffered
  <2>1. Edge = CellMargin
        BY <1>1, <1>5 DEF Edge, EdgeOf
  <2>2. AllLeft(cells) /\ BegunFrom(cells, row, Edge)
        BY <1>1, <1>2, <1>5, <2>1, Zenon
  <2> QED BY <2>2 DEF BegunInv
<1> QED BY <1>4, <1>5

\* A step leaves the table alone, and with it what is asked of its cells.
LEMMA TableStays ==
  [Next]_vars => table' = table /\ buffered' = buffered /\ lead' = lead
BY DEF Next, vars, document, SetRow, BreakTable, EndDocument, NextPage, EarlierPage

LEMMA NextBegun == TypesInv /\ PlainCells /\ BegunInv /\ [Next]_vars => BegunInv'
<1> SUFFICES ASSUME TypesInv, PlainCells, BegunInv, [Next]_vars PROVE BegunInv'
    OBVIOUS
<1>1. TypeOK /\ AllLeft(cells) /\ (st = "set" => BegunFrom(cells, row, Edge))
      BY DEF TypesInv, BegunInv
<1>2. /\ table \in Tables /\ CellsOK(cells) /\ from \in DOMAIN table
      /\ start \in Seq(DOMAIN table) /\ page \in DOMAIN start
      BY <1>1 DEF TypeOK
<1>3. table' = table /\ buffered' = buffered
      BY TableStays
<1>4. DOMAIN table \subseteq Nat
      BY <1>2, TableIs
<1>5. SUFFICES AllLeft(cells') /\ (st' = "set" => BegunFrom(cells', row', Edge'))
  <2>1. AllLeft(cells)' <=> AllLeft(cells')
        BY <1>3 DEF AllLeft
  <2>2. BegunFrom(cells, row, Edge)' <=> BegunFrom(cells', row', Edge')
        BY <1>3 DEF BegunFrom
  <2> QED BY <2>1, <2>2 DEF BegunInv
<1>6. CASE SetRow
  <2>1. /\ st = "set" /\ row \in DOMAIN table /\ page' = page
        /\ cells' = [cells EXCEPT ![row] = SetupRow] /\ row' = row + 1
        BY <1>6 DEF SetRow, place
  <2>2. Edge' = Edge
        BY <1>3, <2>1 DEF Edge, EdgeOf
  <2> QED BY <1>1, <2>1, <2>2, SetupLeft
<1>7. CASE BreakTable
  <2>1. /\ st = "set" /\ row \in DOMAIN table
        /\ cells' = [cells EXCEPT ![row] = SetupRow] /\ st' = "shown"
        BY <1>7 DEF BreakTable
  <2> QED BY <1>1, <2>1, SetupLeft
<1>8. CASE EndDocument
  <2>1. cells' = cells /\ st' = "shown"
        BY <1>8 DEF EndDocument
  <2> QED BY <1>1, <2>1
<1>9. CASE NextPage
  <2>1. page' = page + 1 /\ cells' = DupRows(cells, from) /\ row' = from
        BY <1>9 DEF NextPage
  <2>2. Edge' = TableMargin
    <3>1. page \in Nat /\ page >= 1
          BY <1>2, LenProperties
    <3>2. page' # 1
          BY <2>1, <3>1
    <3> QED BY <3>2 DEF Edge, EdgeOf
  <2> QED BY <1>1, <1>2, <1>4, <2>1, <2>2, DupBegun
<1>10. ASSUME NEW p \in 1 .. MaxPages, EarlierPage(p)
       PROVE  AllLeft(cells') /\ BegunFrom(cells', row', Edge')
  <2>1. /\ p \in DOMAIN start /\ page' = p /\ row' = start[p]
        /\ cells' = IF p = 1 /\ ~buffered THEN FreshCells ELSE Restored(start[p])
        BY <1>10 DEF EarlierPage
  <2>2. start[p] \in DOMAIN table /\ start[p] \in Nat
        BY <1>2, <1>4, <2>1
  <2>3. CASE p = 1 /\ ~buffered
    <3>1. Edge' = CellMargin /\ cells' = FreshCells
          BY <1>3, <2>1, <2>3 DEF Edge, EdgeOf
    <3>2. \A r \in DOMAIN table : 1 <= r
          BY <1>2, TableIs
    <3>3. BegunFrom(FreshCells, row', CellMargin)
          BY <1>2, <3>2, FreshBegun DEF BegunFrom
    <3> QED BY <1>2, <3>1, <3>3, FreshBegun
  <2>4. CASE ~(p = 1 /\ ~buffered)
    <3>1. Edge' = TableMargin /\ cells' = Restored(start[p])
          BY <1>3, <2>1, <2>4 DEF Edge, EdgeOf
    <3>2. Restored(start[p]) = DupRows(LeftCells, start[p])
          BY DEF Restored, LeftCells
    <3> QED BY <1>2, <2>1, <2>2, <3>1, <3>2, LeftBegun, LeftTyped, DupBegun
  <2> QED BY <2>3, <2>4
<1>11. CASE UNCHANGED vars
  <2>1. cells' = cells /\ st' = st /\ row' = row /\ page' = page
        BY <1>11 DEF vars, place
  <2>2. Edge' = Edge
        BY <1>3, <2>1 DEF Edge, EdgeOf
  <2> QED BY <1>1, <2>1, <2>2
<1> QED BY <1>6, <1>7, <1>8, <1>9, <1>10, <1>11 DEF Next

\* The rows that found a place and the rows drawn have their glyphs in place.
PlaceInv == (\A i \in DOMAIN placed : InPlace(placed[i])) /\ GlyphsInPlace

LEMMA NextPlace ==
  TypesInv /\ PlainCells /\ ColumnsApart /\ BegunInv /\ PlaceInv /\ [Next]_vars => PlaceInv'
<1> SUFFICES ASSUME TypesInv, PlainCells, ColumnsApart, BegunInv, PlaceInv, [Next]_vars
             PROVE  PlaceInv'
    OBVIOUS
<1>1. /\ TypeOK /\ (st = "set" => BegunFrom(cells, row, Edge))
      /\ (\A i \in DOMAIN placed : InPlace(placed[i])) /\ (\A r \in ink : InPlace(r))
      BY DEF TypesInv, BegunInv, PlaceInv, GlyphsInPlace
<1>2. table \in Tables /\ lo \in Layout /\ placed \in Seq(RowType)
      BY <1>1 DEF TypeOK
<1>3. Len(placed) \in Nat /\ DOMAIN placed = 1 .. Len(placed) /\ DOMAIN table \subseteq Nat
      BY <1>2, LenProperties, TableIs
<1>4. SUFFICES /\ \A i \in DOMAIN placed' : InPlace(placed'[i])
               /\ \A r \in ink' : InPlace(r)
      BY TableStays DEF PlaceInv, GlyphsInPlace, InPlace
<1>5. CASE SetRow
  <2> DEFINE asked == Asked(RowHeight(SetupRow))
  <2>1. /\ st = "set" /\ row \in DOMAIN table
        /\ placed' = Append(placed, PlacedRow(SetupRow, asked)) /\ ink' = ink
        BY <1>5 DEF SetRow
  <2>2. InPlace(PlacedRow(SetupRow, asked)) /\ PlacedRow(SetupRow, asked) \in RowType
    <3>1. RowHeight(SetupRow) \in Int
          BY <1>1, <2>1, SetupRowTyped
    <3>2. asked.px \in Int /\ asked.py \in Int
          BY <1>2, <3>1, AskedType
    <3>3. Ready(row)
          BY <1>1, <1>3, <2>1 DEF Ready, BegunFrom
    <3> QED BY <1>1, <2>1, <3>2, <3>3, RowInPlace, PlacedTyped
  <2> HIDE DEF asked
  <2>3. ASSUME NEW i \in DOMAIN placed' PROVE InPlace(placed'[i])
    <3>1. /\ Len(placed') = Len(placed) + 1 /\ placed' \in Seq(RowType)
          /\ placed'[Len(placed) + 1] = PlacedRow(SetupRow, asked)
          /\ \A j \in 1 .. Len(placed) : placed'[j] = placed[j]
          BY <1>2, <2>1, <2>2, AppendProperties
    <3>2. i \in 1 .. Len(placed) + 1
          BY <3>1, LenProperties
    <3>3. i \in 1 .. Len(placed) \/ i = Len(placed) + 1
          BY <1>3, <3>2
    <3> QED BY <1>1, <1>3, <2>2, <3>1, <3>3
  <2> QED BY <1>1, <2>1, <2>3
<1>6. CASE BreakTable
  <2>1. row \in DOMAIN table /\ placed' = <<>> /\ ink' = {placed[k] : k \in 1 .. RowSplit}
        BY <1>6 DEF BreakTable, Drawn
  <2>2. RowSplit \in Nat /\ RowSplit <= Len(placed)
        BY <1>1, <2>1, SplitIs
  <2>3. \A r \in ink' : InPlace(r)
        BY <1>1, <1>3, <2>1, <2>2
  <2> QED BY <2>1, <2>3
<1>7. CASE EndDocument
  <2>1. placed' = <<>> /\ ink' = {placed[k] : k \in DOMAIN placed}
        BY <1>7 DEF EndDocument, Drawn
  <2> QED BY <1>1, <2>1
<1>8. ASSUME NextPage \/ \E p \in 1 .. MaxPages : EarlierPage(p)
      PROVE  ink' = {} /\ placed' = placed
      BY <1>8 DEF NextPage, EarlierPage
<1>9. ASSUME UNCHANGED vars
      PROVE  ink' = ink /\ placed' = placed
      BY <1>9 DEF vars
<1> QED BY <1>1, <1>5, <1>6, <1>7, <1>8, <1>9 DEF Next

\* Characters stay in their cells: in a table whose columns are apart and
\* whose cells are set from the left in characters of one bearing that fit
\* the column, every character drawn is in its column and in its row, and on
\* no other, whatever the texts, the margins and the pages.
THEOREM GlyphsKeepToTheirCells ==
  Spec => [](PlainCells /\ ColumnsApart => GlyphsInPlace)
<1> DEFINE Inv == /\ TypesInv /\ (PlainCells => BegunInv)
                  /\ (PlainCells /\ ColumnsApart => PlaceInv)
<1>1. Init => Inv
  <2>1. Init => PlaceInv
        BY DEF Init, PlaceInv, GlyphsInPlace
  <2> QED BY <2>1, InitTypes, InitBegun
<1>2. Inv /\ [Next]_vars => Inv'
  <2> SUFFICES ASSUME Inv, [Next]_vars PROVE Inv'
      OBVIOUS
  <2>1. TypesInv'
        BY NextTypes
  <2>2. (PlainCells' <=> PlainCells) /\ (ColumnsApart' <=> ColumnsApart)
        BY TableStays DEF PlainCells, ColumnsApart
  <2>3. PlainCells => BegunInv'
        BY NextBegun
  <2>4. PlainCells /\ ColumnsApart => PlaceInv'
        BY NextPlace
  <2> QED BY <2>1, <2>2, <2>3, <2>4
<1>3. Inv => (PlainCells /\ ColumnsApart => GlyphsInPlace)
      BY DEF PlaceInv
<1> QED BY <1>1, <1>2, <1>3, PTL DEF Spec
-----------------------------------------------------------------------------
(* The same rows again.                                                     *)

\* A row whose cells begin at x, and the same row at a place of the page:
\* neither depends on what was set up before.
StartCell(cell, x) == Changed(NewCell(cell, "left"), x, CellMargin, 0, 0, 0, 0)
RowCells(r, x) ==
  [k \in DOMAIN table[r] |-> SetupCell(StartCell(table[r][k], x), table[r][k])]
HeightAt(r, x) == Greatest(0, RowCells(r, x))

GlyphAt(r, c, k, j, px, py) ==
  [row |-> r, cell |-> k, glyph |-> j, column |-> px + table[r][k].xoff,
   left |-> px + table[r][k].xoff + c.pos[j].x,
   right |-> px + table[r][k].xoff + c.pos[j].x + table[r][k].text[j].w,
   top |-> (py + c.pos[j].y) - table[r][k].text[j].h, bottom |-> py + c.pos[j].y]

RowAt(r, x, px, py) ==
  [row |-> r, y |-> py, height |-> HeightAt(r, x),
   glyphs |-> UNION {{GlyphAt(r, RowCells(r, x)[k], k, j, px, py) : j \in CharsOf(table[r][k])} :
                     k \in DOMAIN table[r]}]

LEMMA StartBegun ==
  ASSUME NEW cell \in CellSet, NEW x \in Nat
  PROVE  StartCell(cell, x) \in CellType(cell) /\ Begun(StartCell(cell, x), cell, x)
<1>1. "left" \in Aligns /\ CellMargin \in Nat
      BY CellsAssumption DEF CellsAssumption, Aligns
<1>2. NewCell(cell, "left") \in CellType(cell) /\ NewCell(cell, "left").align = "left"
      BY <1>1, NewCellTyped DEF Begun
<1> DEFINE n == NewCell(cell, "left")
<1> HIDE DEF n
<1>3. LET d == Changed(n, x, CellMargin, 0, 0, 0, 0)
      IN  /\ d \in CellType(cell) /\ d.x = x /\ d.y = CellMargin /\ d.base = 0 /\ d.max = 0
          /\ d.lastBase = 0 /\ d.lastMax = 0 /\ d.align = n.align
      BY <1>1, <1>2, ChangedFields DEF n
<1>4. StartCell(cell, x) = Changed(n, x, CellMargin, 0, 0, 0, 0)
      BY DEF StartCell, n
<1> QED BY <1>2, <1>3, <1>4 DEF Begun, n

LEMMA HeightAtIs ==
  ASSUME table \in Tables, NEW r \in DOMAIN table, NEW x \in Nat
  PROVE  /\ HeightAt(r, x) \in Nat
         /\ \A k \in DOMAIN table[r] : CellHeight(RowCells(r, x)[k]) <= HeightAt(r, x)
         /\ \/ HeightAt(r, x) = 0
            \/ \E k \in DOMAIN table[r] : HeightAt(r, x) = CellHeight(RowCells(r, x)[k])
<1> DEFINE n == Len(table[r])
           cs == RowCells(r, x)
<1>1. /\ n \in Nat /\ DOMAIN table[r] = 1 .. n
      /\ \A k \in DOMAIN table[r] : table[r][k] \in CellSet
      BY TableIs
<1>2. DOMAIN cs = DOMAIN table[r]
      /\ \A k \in DOMAIN table[r] : cs[k] = SetupCell(StartCell(table[r][k], x), table[r][k])
      BY DEF RowCells
<1>3. ASSUME NEW k \in DOMAIN table[r] PROVE CellHeight(cs[k]) \in Int
  <2>1. cs[k] \in CellType(table[r][k])
        BY <1>1, <1>2, StartBegun, SetupTyped
  <2>2. cs[k].y \in Int /\ cs[k].max \in Int
        BY <2>1, CellFields
  <2> QED BY <2>2 DEF CellHeight
<1>4. HeightAt(r, x) = Greatest(0, cs)
      BY DEF HeightAt
<1> HIDE DEF cs, n
<1>5. /\ Greatest(0, cs) \in Nat
      /\ \A k \in 1 .. n : CellHeight(cs[k]) <= Greatest(0, cs)
      /\ Greatest(0, cs) = 0 \/ \E k \in 1 .. n : Greatest(0, cs) = CellHeight(cs[k])
  <2>1. 0 \in Nat /\ DOMAIN cs = 1 .. n /\ \A k \in 1 .. n : CellHeight(cs[k]) \in Int
        BY <1>1, <1>2, <1>3
  <2> QED BY <1>1, <2>1, GreatestIs
<1> QED BY <1>1, <1>4, <1>5 DEF cs

LEMMA RowIs ==
  ASSUME TypeOK, PlainCells, row \in DOMAIN table, Ready(row),
         height[row] <= HeightAt(row, Edge), NEW asked
  PROVE  /\ RowHeight(SetupRow) = HeightAt(row, Edge)
         /\ PlacedRow(SetupRow, asked) = RowAt(row, Edge, asked.px, asked.py)
<1> DEFINE T(k) == table[row][k]
           C(k) == SetupRow[k]
           D(k) == RowCells(row, Edge)[k]
<1>1. table \in Tables /\ height[row] \in Nat /\ Edge \in Nat
      BY EdgeType DEF TypeOK
<1>2. ASSUME NEW k \in DOMAIN table[row]
      PROVE  /\ CellHeight(C(k)) = CellHeight(D(k))
             /\ \A j \in CharsOf(T(k)) : C(k).pos[j] = D(k).pos[j]
  <2>1. T(k) \in CellSet
        BY <1>1, TableIs
  <2>2. PICK b \in Nat : OneBearing(T(k), b)
        BY DEF PlainCells
  <2>3. FitsColumn(T(k))
        BY DEF PlainCells
  <2>4. Begun(cells[row][k], T(k), Edge)
        BY DEF Ready
  <2>5. Begun(StartCell(T(k), Edge), T(k), Edge)
        BY <1>1, <2>1, StartBegun
  <2>6. C(k) = SetupCell(cells[row][k], T(k)) /\ D(k) = SetupCell(StartCell(T(k), Edge), T(k))
        BY DEF SetupRow, RowCells
  <2> HIDE DEF T, C, D
  <2> QED BY <1>1, <2>1, <2>2, <2>3, <2>4, <2>5, <2>6, SetupAlike
<1>3. RowHeight(SetupRow) = HeightAt(row, Edge)
  <2>1. /\ RowHeight(SetupRow) \in Nat
        /\ \A k \in DOMAIN table[row] : CellHeight(C(k)) <= RowHeight(SetupRow)
        /\ \/ RowHeight(SetupRow) = height[row]
           \/ \E k \in DOMAIN table[row] : RowHeight(SetupRow) = CellHeight(C(k))
        BY SetupRowTyped
  <2>2. /\ HeightAt(row, Edge) \in Nat
        /\ \A k \in DOMAIN table[row] : CellHeight(D(k)) <= HeightAt(row, Edge)
        /\ \/ HeightAt(row, Edge) = 0
           \/ \E k \in DOMAIN table[row] : HeightAt(row, Edge) = CellHeight(D(k))
        BY <1>1, HeightAtIs
  <2> HIDE DEF C, D
  <2>3. RowHeight(SetupRow) <= HeightAt(row, Edge)
        BY <1>2, <2>1, <2>2
  <2>4. HeightAt(row, Edge) <= RowHeight(SetupRow)
        BY <1>2, <2>1, <2>2
  <2> QED BY <2>1, <2>2, <2>3, <2>4
<1>4. ASSUME NEW k \in DOMAIN table[row], NEW j \in CharsOf(T(k))
      PROVE  PlacedGlyph(C(k), k, j, asked) = GlyphAt(row, D(k), k, j, asked.px, asked.py)
  <2>1. C(k).pos[j] = D(k).pos[j]
        BY <1>2
  <2> HIDE DEF C, D
  <2> QED BY <2>1 DEF PlacedGlyph, GlyphAt
<1> DEFINE G(k) == {PlacedGlyph(C(k), k, j, asked) : j \in CharsOf(T(k))}
           H(k) == {GlyphAt(row, D(k), k, j, asked.px, asked.py) : j \in CharsOf(T(k))}
<1>5. ASSUME NEW k \in DOMAIN table[row] PROVE G(k) = H(k)
  <2> HIDE DEF C, D, T
  <2> QED BY <1>4
<1>6. PlacedRow(SetupRow, asked)
        = [row |-> row, y |-> asked.py, height |-> RowHeight(SetupRow),
           glyphs |-> UNION {G(k) : k \in DOMAIN table[row]}]
      BY DEF PlacedRow
<1>7. RowAt(row, Edge, asked.px, asked.py)
        = [row |-> row, y |-> asked.py, height |-> HeightAt(row, Edge),
           glyphs |-> UNION {H(k) : k \in DOMAIN table[row]}]
      BY DEF RowAt
<1> HIDE DEF G, H
<1>8. {G(k) : k \in DOMAIN table[row]} = {H(k) : k \in DOMAIN table[row]}
      BY <1>5
<1> QED BY <1>3, <1>6, <1>7, <1>8
\* The rows on page p, which begins with row s: one below the other from the
\* top, as far as there is room.
TopOf(p) == HMargin + (IF p = 1 THEN lead ELSE 0)

NextTop(R, p) == IF Len(R) = 0 THEN TopOf(p) ELSE R[Len(R)].y + R[Len(R)].height

Stacked(R, p, s) ==
  /\ R \in Seq(RowType)
  /\ \A i \in DOMAIN R :
       /\ s + (i - 1) \in DOMAIN table
       /\ R[i] = RowAt(s + (i - 1), EdgeOf(p), VMargin, R[i].y)
       /\ R[i].y = IF i = 1 THEN TopOf(p) ELSE R[i - 1].y + R[i - 1].height
       /\ R[i].y + R[i].height < YLimit

Full(R, p, s) ==
  s + Len(R) \in DOMAIN table => NextTop(R, p) + HeightAt(s + Len(R), EdgeOf(p)) >= YLimit

\* What is drawn of them: without the last if the table goes on.
ShownOf(R, s) ==
  IF s + Len(R) \in DOMAIN table
  THEN {R[k] : k \in 1 .. (IF Len(R) > 0 THEN Len(R) - 1 ELSE 0)}
  ELSE {R[k] : k \in DOMAIN R}

LEMMA RowAtFields ==
  ASSUME NEW r, NEW x, NEW px, NEW py
  PROVE  RowAt(r, x, px, py).y = py /\ RowAt(r, x, px, py).height = HeightAt(r, x)
BY DEF RowAt

LEMMA StackedIs ==
  ASSUME NEW R, NEW p, NEW s, Stacked(R, p, s)
  PROVE  /\ Len(R) \in Nat /\ DOMAIN R = 1 .. Len(R)
         /\ \A i \in 1 .. Len(R) : R[i].y \in Int /\ R[i].height \in Nat
<1>1. R \in Seq(RowType)
      BY DEF Stacked
<1>2. Len(R) \in Nat /\ DOMAIN R = 1 .. Len(R) /\ \A i \in 1 .. Len(R) : R[i] \in RowType
      BY <1>1, LenProperties, ElementOfSeq
<1>3. \A q \in RowType : q.y \in Int /\ q.height \in Nat
      BY DEF RowType
<1> QED BY <1>2, <1>3

LEMMA StackedAlike ==
  ASSUME NEW R, NEW Q, NEW p, NEW s, Stacked(R, p, s), Stacked(Q, p, s),
         NEW n \in Nat, n <= Len(R), n <= Len(Q)
  PROVE  \A i \in 1 .. n : R[i] = Q[i]
<1> DEFINE S == {j \in 0 .. n : \A i \in 1 .. j : R[i] = Q[i]}
<1>1. 0 \in S
      OBVIOUS
<1>2. ASSUME NEW j \in 1 .. n, j - 1 \in S PROVE j \in S
  <2>1. \A i \in 1 .. j - 1 : R[i] = Q[i]
        BY <1>2
  <2>2. j \in DOMAIN R /\ j \in DOMAIN Q
        BY StackedIs
  <2>3. R[j].y = IF j = 1 THEN TopOf(p) ELSE R[j - 1].y + R[j - 1].height
        BY <2>2 DEF Stacked
  <2>4. Q[j].y = IF j = 1 THEN TopOf(p) ELSE Q[j - 1].y + Q[j - 1].height
        BY <2>2 DEF Stacked
  <2>5. j # 1 => R[j - 1] = Q[j - 1]
        BY <2>1
  <2>6. R[j].y = Q[j].y
        BY <2>3, <2>4, <2>5
  <2>7. R[j] = Q[j]
    <3>1. R[j] = RowAt(s + (j - 1), EdgeOf(p), VMargin, R[j].y)
          BY <2>2 DEF Stacked
    <3>2. Q[j] = RowAt(s + (j - 1), EdgeOf(p), VMargin, Q[j].y)
          BY <2>2 DEF Stacked
    <3> QED BY <2>6, <3>1, <3>2, Zenon
  <2>8. \A i \in 1 .. j : i \in 1 .. j - 1 \/ i = j
        OBVIOUS
  <2> QED BY <2>1, <2>7, <2>8
<1>3. S \in SUBSET (0 .. n)
      OBVIOUS
<1> HIDE DEF S
<1>4. S = 0 .. n
      BY <1>1, <1>2, <1>3, ByLeast
<1>5. n \in S
      BY <1>4
<1> QED BY <1>5 DEF S

LEMMA NotLonger ==
  ASSUME NEW R, NEW Q, NEW p, NEW s \in Nat, Stacked(R, p, s), Stacked(Q, p, s), Full(R, p, s)
  PROVE  ~(Len(R) < Len(Q))
<1> SUFFICES ASSUME Len(R) < Len(Q) PROVE FALSE
    OBVIOUS
<1> DEFINE i == Len(R) + 1
<1>1. /\ Len(R) \in Nat /\ Len(Q) \in Nat /\ i \in DOMAIN Q
      /\ \A j \in 1 .. Len(Q) : Q[j].y \in Int /\ Q[j].height \in Nat
      BY StackedIs
<1>2. \A j \in 1 .. Len(R) : R[j] = Q[j]
      BY <1>1, StackedAlike
<1>3. /\ s + (i - 1) \in DOMAIN table
      /\ Q[i] = RowAt(s + (i - 1), EdgeOf(p), VMargin, Q[i].y)
      /\ Q[i].y = IF i = 1 THEN TopOf(p) ELSE Q[i - 1].y + Q[i - 1].height
      /\ Q[i].y + Q[i].height < YLimit
  <2> HIDE DEF i
  <2> QED BY <1>1 DEF Stacked
<1>4. s + (i - 1) = s + Len(R) /\ i - 1 = Len(R)
      BY <1>1
<1>5. Q[i].y = NextTop(R, p)
  <2>1. CASE Len(R) = 0
        BY <1>3, <2>1 DEF NextTop
  <2>2. CASE Len(R) # 0
    <3>1. Len(R) \in 1 .. Len(R) /\ i # 1
          BY <1>1, <2>2
    <3>2. Q[Len(R)] = R[Len(R)]
          BY <1>2, <3>1
    <3> QED BY <1>3, <1>4, <2>2, <3>1, <3>2 DEF NextTop
  <2> QED BY <2>1, <2>2
<1>6. Q[i].height = HeightAt(s + Len(R), EdgeOf(p))
  <2> HIDE DEF i
  <2> QED BY <1>3, <1>4, RowAtFields
<1>7. NextTop(R, p) + HeightAt(s + Len(R), EdgeOf(p)) >= YLimit
      BY <1>3, <1>4 DEF Full
<1>8. YLimit \in Int /\ i \in 1 .. Len(Q)
      BY <1>1, LayoutAssumption DEF LayoutAssumption, YLimit
<1>9. Q[i].y \in Int /\ Q[i].height \in Nat
      BY <1>1, <1>8
<1> HIDE DEF i
<1> DEFINE a == Q[i].y  b == Q[i].height
<1>10. a + b < YLimit /\ a \in Int /\ b \in Nat
       BY <1>3, <1>9, Zenon
<1>11. a + b >= YLimit
       BY <1>5, <1>6, <1>7, Zenon
<1> HIDE DEF a, b
<1> QED BY <1>8, <1>10, <1>11

LEMMA FullAlike ==
  ASSUME NEW R, NEW Q, NEW p, NEW s \in Nat, Stacked(R, p, s), Stacked(Q, p, s),
         Full(R, p, s), Full(Q, p, s)
  PROVE  R = Q
<1>1. Len(R) \in Nat /\ Len(Q) \in Nat /\ DOMAIN R = 1 .. Len(R) /\ DOMAIN Q = 1 .. Len(Q)
      BY StackedIs
<1>2. ~(Len(R) < Len(Q))
      BY NotLonger
<1>3. Len(R) = Len(Q)
  <2> DEFINE m == Len(R)
             n == Len(Q)
  <2>1. m \in Nat /\ n \in Nat /\ ~(m < n) /\ ~(n < m)
        BY <1>1, <1>2, NotLonger
  <2> HIDE DEF m, n
  <2>2. m = n
        BY <2>1
  <2> QED BY <2>2 DEF m, n
<1>4. \A i \in 1 .. Len(R) : R[i] = Q[i]
      BY <1>1, <1>3, StackedAlike
<1>5. R \in Seq(RowType) /\ Q \in Seq(RowType)
      BY DEF Stacked
<1> QED BY <1>1, <1>3, <1>4, <1>5, SeqEqual

LEMMA StackedOn ==
  ASSUME NEW R, NEW p, NEW s \in Nat, Stacked(R, p, s), s + Len(R) \in DOMAIN table,
         NEW P \in RowType, P = RowAt(s + Len(R), EdgeOf(p), VMargin, NextTop(R, p)),
         P.y + P.height < YLimit
  PROVE  /\ Stacked(Append(R, P), p, s) /\ Len(Append(R, P)) = Len(R) + 1
         /\ NextTop(Append(R, P), p) = P.y + P.height
<1> DEFINE Q == Append(R, P)
<1>1. Len(R) \in Nat /\ DOMAIN R = 1 .. Len(R) /\ R \in Seq(RowType)
      BY StackedIs DEF Stacked
<1>2. /\ Q \in Seq(RowType) /\ Len(Q) = Len(R) + 1
      /\ Q[Len(R) + 1] = P /\ \A j \in 1 .. Len(R) : Q[j] = R[j]
      BY <1>1, AppendProperties
<1>3. DOMAIN Q = 1 .. Len(R) + 1
      BY <1>2, LenProperties
<1> HIDE DEF Q
<1>4. P.y = NextTop(R, p)
      BY RowAtFields
<1>5. ASSUME NEW i \in 1 .. Len(R) + 1
      PROVE  /\ s + (i - 1) \in DOMAIN table
             /\ Q[i] = RowAt(s + (i - 1), EdgeOf(p), VMargin, Q[i].y)
             /\ Q[i].y = IF i = 1 THEN TopOf(p) ELSE Q[i - 1].y + Q[i - 1].height
             /\ Q[i].y + Q[i].height < YLimit
  <2>1. CASE i \in 1 .. Len(R)
    <3>1. Q[i] = R[i] /\ (i # 1 => Q[i - 1] = R[i - 1])
          BY <1>1, <1>2, <2>1
    <3>2. /\ s + (i - 1) \in DOMAIN table
          /\ R[i] = RowAt(s + (i - 1), EdgeOf(p), VMargin, R[i].y)
          /\ R[i].y = IF i = 1 THEN TopOf(p) ELSE R[i - 1].y + R[i - 1].height
          /\ R[i].y + R[i].height < YLimit
          BY <1>1, <2>1 DEF Stacked
    <3> QED BY <3>1, <3>2
  <2>2. CASE i = Len(R) + 1
    <3>1. s + (i - 1) = s + Len(R) /\ i - 1 = Len(R) /\ Q[i] = P
          BY <1>1, <1>2, <2>2
    <3>2. P.y = IF i = 1 THEN TopOf(p) ELSE Q[i - 1].y + Q[i - 1].height
      <4>1. CASE i = 1
            BY <1>4, <3>1, <4>1 DEF NextTop
      <4>2. CASE i # 1
        <5>1. Len(R) # 0 /\ Len(R) \in 1 .. Len(R)
              BY <1>1, <2>2, <4>2
        <5>2. Q[i - 1] = R[Len(R)]
              BY <1>2, <3>1, <5>1
        <5> QED BY <1>4, <4>2, <5>1, <5>2 DEF NextTop
      <4> QED BY <4>1, <4>2
    <3> QED BY <1>4, <3>1, <3>2
  <2> QED BY <1>1, <2>1, <2>2
<1>6. Stacked(Q, p, s)
      BY <1>2, <1>3, <1>5 DEF Stacked
<1>7. NextTop(Q, p) = P.y + P.height
      BY <1>1, <1>2 DEF NextTop
<1> QED BY <1>2, <1>6, <1>7 DEF Q
\* Where a row is placed, and the layout it leaves.
LEMMA Asking ==
  ASSUME lo \in Layout, lo.x = VMargin, lo.indent = 0, NEW h \in Nat
  PROVE  /\ Asked(h).lo.x = VMargin /\ Asked(h).lo.indent = 0
         /\ Asked(h).ret = "OK" =>
              /\ lo.y + h < YLimit /\ Asked(h).lo.y = lo.y + h
              /\ Asked(h).px = VMargin /\ Asked(h).py = lo.y
         /\ Asked(h).ret = "NEW_PAGE" => lo.y + h >= YLimit /\ Asked(h).lo.y = HMargin
<1>1. lo.y \in Int /\ VMargin \in Int /\ YLimit \in Int
      BY FieldTypes, LayoutAssumption DEF LayoutAssumption, YLimit
<1>2. CASE lo.y + h >= YLimit
  <2>1. Asked(h) = PageFull(lo)
        BY <1>2 DEF Asked, GetTablePos
  <2>2. /\ PageFull(lo).ret = "NEW_PAGE" /\ PageFull(lo).lo.x = VMargin
        /\ PageFull(lo).lo.y = HMargin /\ PageFull(lo).lo.indent = 0
        BY DEF PageFull, Result, NewLayout
  <2> QED BY <1>2, <2>1, <2>2
<1>3. CASE ~(lo.y + h >= YLimit)
  <2> DEFINE n == [lo EXCEPT !.y = lo.y + h + TableMargin, !.curMaxHeight = 0]
  <2>1. Asked(h) = Result("OK", n, lo.x + LineIndent(lo), lo.y)
        BY <1>3 DEF Asked, GetTablePos
  <2>2. lo.y + h + TableMargin = lo.y + h /\ lo.x + LineIndent(lo) = VMargin /\ lo.y + h < YLimit
        BY <1>1, <1>3 DEF TableMargin, LineIndent
  <2>3. n.y = lo.y + h + TableMargin /\ n.x = lo.x /\ n.indent = lo.indent
        BY DEF Layout
  <2> HIDE DEF n
  <2>4. Asked(h).ret = "OK" /\ Asked(h).lo = n /\ Asked(h).px = lo.x + LineIndent(lo) /\ Asked(h).py = lo.y
        BY <2>1 DEF Result
  <2> QED BY <2>2, <2>3, <2>4
<1> QED BY <1>2, <1>3

\* A new cell makes its row no higher than a reset one does.
MarginIdle == \A r \in DOMAIN table : HeightAt(r, CellMargin) <= HeightAt(r, TableMargin)

\* What a page showed is what there is room for on it.
Laid(p, s, shown) == \E R : Stacked(R, p, s) /\ Full(R, p, s) /\ shown = ShownOf(R, s)

Recorded(f, b, p) == Laid(p, b[p], f[p])

AllRecorded ==
  \A p, s, shown : p \in DOMAIN first /\ s = start[p] /\ shown = first[p] => Laid(p, s, shown)

HeightInv ==
  /\ \A r \in DOMAIN table : height[r] <= HeightAt(r, TableMargin)
  /\ st = "set" => \A r \in DOMAIN table : row <= r => height[r] <= HeightAt(r, EdgeOf(page))

SetInv ==
  /\ lo.x = VMargin /\ lo.indent = 0
  /\ st = "set" => /\ from = start[page] /\ row = from + Len(placed)
                   /\ lo.y = NextTop(placed, page) /\ Stacked(placed, page, from)
  /\ st = "shown" /\ ~ended => lo.y = HMargin

FirstInv ==
  /\ Len(first) = IF st = "set" /\ ~ended THEN Len(start) - 1 ELSE Len(start)
  /\ ~ended => page = Len(start)
  /\ AllRecorded
  /\ SameAgain

AgainInv == HeightInv /\ SetInv /\ FirstInv

\* The row that is set up next has the height it always has.
LEMMA NextRowIs ==
  ASSUME TypesInv, PlainCells, BegunInv, HeightInv, SetInv, st = "set", row \in DOMAIN table
  PROVE  LET h == RowHeight(SetupRow)  a == Asked(h)
         IN  /\ h = HeightAt(row, EdgeOf(page)) /\ h \in Nat
             /\ PlacedRow(SetupRow, a) = RowAt(row, EdgeOf(page), a.px, a.py)
             /\ PlacedRow(SetupRow, a) \in RowType
<1>1. TypeOK /\ Edge = EdgeOf(page) /\ BegunFrom(cells, row, Edge)
      BY DEF TypesInv, BegunInv, Edge, EdgeOf
<1>2. row \in Nat /\ lo \in Layout
  <2>1. table \in Tables /\ lo \in Layout
        BY <1>1 DEF TypeOK
  <2> QED BY <2>1, TableIs
<1>3. Ready(row) /\ height[row] <= HeightAt(row, Edge)
      BY <1>1, <1>2 DEF Ready, BegunFrom, HeightInv
<1> DEFINE h == RowHeight(SetupRow)
           a == Asked(h)
<1>4. h = HeightAt(row, Edge) /\ PlacedRow(SetupRow, a) = RowAt(row, Edge, a.px, a.py)
      BY <1>1, <1>3, RowIs
<1>5. h \in Nat
      BY <1>1, SetupRowTyped
<1>6. a.px \in Int /\ a.py \in Int
      BY <1>2, <1>5, AskedType
<1>7. PlacedRow(SetupRow, a) \in RowType
      BY <1>1, <1>6, PlacedTyped
<1> QED BY <1>1, <1>4, <1>5, <1>7

LEMMA ShownTyped ==
  ASSUME NEW R, NEW p, NEW s, Stacked(R, p, s)
  PROVE  ShownOf(R, s) \in SUBSET RowType
<1>1. /\ Len(R) \in Nat /\ DOMAIN R = 1 .. Len(R)
      /\ \A i \in 1 .. Len(R) : R[i] \in RowType
  <2>1. R \in Seq(RowType)
        BY DEF Stacked
  <2> QED BY <2>1, LenProperties, ElementOfSeq
<1>2. \A k \in 1 .. (IF Len(R) > 0 THEN Len(R) - 1 ELSE 0) : R[k] \in RowType
      BY <1>1
<1> QED BY <1>1, <1>2 DEF ShownOf

\* A page that is drawn shows what it always shows.
LEMMA DrawnAgain ==
  ASSUME TypesInv, SetInv, FirstInv, st = "set", Full(placed, page, from),
         Drawn(ShownOf(placed, from))
  PROVE  /\ Len(first') = Len(start) /\ ink' = first'[page]
         /\ \A p \in DOMAIN first' : Recorded(first', start, p)
<1> DEFINE shown == ShownOf(placed, from)
<1>1. /\ first \in Seq(SUBSET RowType) /\ start \in Seq(DOMAIN table) /\ page \in DOMAIN start
      /\ table \in Tables /\ from \in DOMAIN table
      BY DEF TypesInv, TypeOK
<1>2. /\ Len(first) \in Nat /\ DOMAIN first = 1 .. Len(first)
      /\ Len(start) \in Nat /\ DOMAIN start = 1 .. Len(start)
      BY <1>1, LenProperties
<1>3. from \in Nat /\ from = start[page] /\ Stacked(placed, page, from)
      BY <1>1, TableIs DEF SetInv
<1>4. /\ Len(first) = IF ~ended THEN Len(start) - 1 ELSE Len(start)
      /\ ~ended => page = Len(start)
      /\ \A p \in DOMAIN first : Recorded(first, start, p)
      BY DEF FirstInv, AllRecorded, Recorded
<1>5. ink' = shown /\ first' = IF page > Len(first) THEN Append(first, shown) ELSE first
      BY DEF Drawn
<1> HIDE DEF shown
<1> DEFINE m == Len(first)
           n == Len(start)
<1> HIDE DEF m, n
<1>6. /\ m \in Nat /\ n \in Nat /\ page \in 1 .. n
      /\ m = (IF ~ended THEN n - 1 ELSE n) /\ (~ended => page = n)
      BY <1>1, <1>2, <1>4 DEF m, n
<1>7. CASE page > Len(first)
  <2>1. ~ended /\ page = n /\ m = n - 1
        BY <1>6, <1>7 DEF m
  <2>2. first' = Append(first, shown)
        BY <1>5, <1>7
  <2>3. /\ Len(first') = Len(first) + 1 /\ DOMAIN first' = 1 .. Len(first) + 1
        /\ first'[Len(first) + 1] = shown /\ \A j \in 1 .. Len(first) : first'[j] = first[j]
    <3>1. shown \in SUBSET RowType
          BY <1>3, ShownTyped DEF shown
    <3>2. /\ first' \in Seq(SUBSET RowType) /\ Len(first') = Len(first) + 1
          /\ first'[Len(first) + 1] = shown /\ \A j \in 1 .. Len(first) : first'[j] = first[j]
          BY <1>1, <2>2, <3>1, AppendProperties
    <3> QED BY <3>2, LenProperties
  <2>4. page = Len(first) + 1 /\ Len(first') = Len(start)
    <3>1. page = m + 1 /\ m + 1 = n
          BY <1>6, <2>1
    <3> QED BY <2>3, <3>1 DEF m, n
  <2>5. Recorded(first', start, page)
        BY <1>3, <2>3, <2>4 DEF Recorded, Laid, shown
  <2>6. ASSUME NEW p \in 1 .. Len(first) PROVE Recorded(first', start, p)
    <3>1. Recorded(first, start, p) /\ first'[p] = first[p]
          BY <1>2, <1>4, <2>3
    <3> QED BY <3>1 DEF Recorded
  <2>7. \A p \in DOMAIN first' : p \in 1 .. Len(first) \/ p = page
        BY <1>2, <2>3, <2>4
  <2> QED BY <1>5, <2>3, <2>4, <2>5, <2>6, <2>7
<1>8. CASE ~(page > Len(first))
  <2>1. page \in DOMAIN first /\ first' = first
    <3>1. page \in 1 .. m
          BY <1>6, <1>8 DEF m
    <3> QED BY <1>2, <1>5, <1>8, <3>1 DEF m
  <2>2. Len(first) = Len(start)
    <3>1. m = n
          BY <1>6, <1>8 DEF m
    <3> QED BY <3>1 DEF m, n
  <2>3. PICK R : Stacked(R, page, from) /\ Full(R, page, from) /\ first[page] = ShownOf(R, from)
        BY <1>3, <1>4, <2>1 DEF Recorded, Laid
  <2>4. R = placed
        BY <1>3, <2>3, FullAlike
  <2>5. first[page] = shown
        BY <2>3, <2>4 DEF shown
  <2> QED BY <1>4, <1>5, <2>1, <2>2, <2>5
<1> QED BY <1>7, <1>8
LEMMA BelowFields ==
  ASSUME NEW n
  PROVE  Below(n).x = VMargin /\ Below(n).y = HMargin + n /\ Below(n).indent = 0
<1> DEFINE l == Reset(NewLayout)
<1>1. /\ l \in Layout /\ l.x = VMargin /\ l.y = HMargin /\ l.indent = NewLayout.indent
      BY NewLayoutType, ResetType, ResetFields
<1>2. NewLayout.indent = 0
      BY DEF NewLayout
<1>3. Below(n) = [l EXCEPT !.y = l.y + n]
      BY DEF Below
<1> HIDE DEF l
<1>4. LET m == [l EXCEPT !.y = l.y + n]
      IN  m.x = l.x /\ m.y = l.y + n /\ m.indent = l.indent
      BY <1>1 DEF Layout
<1> QED BY <1>1, <1>2, <1>3, <1>4

LEMMA StackedNone ==
  ASSUME NEW p, NEW s
  PROVE  Stacked(<<>>, p, s) /\ NextTop(<<>>, p) = TopOf(p) /\ Len(<<>>) = 0
BY DEF Stacked, NextTop

LEMMA EdgeOfType == \A p : EdgeOf(p) \in Nat
BY CellsAssumption DEF CellsAssumption, EdgeOf, TableMargin

LEMMA NoHeights ==
  ASSUME table \in Tables, NEW r \in DOMAIN table, NEW p
  PROVE  0 <= HeightAt(r, TableMargin) /\ 0 <= HeightAt(r, EdgeOf(p))
<1>1. TableMargin \in Nat /\ EdgeOf(p) \in Nat
      BY EdgeOfType DEF TableMargin
<1>2. HeightAt(r, TableMargin) \in Nat /\ HeightAt(r, EdgeOf(p)) \in Nat
      BY <1>1, HeightAtIs
<1> QED BY <1>2

LEMMA InitAgain == Init => AgainInv
<1> SUFFICES ASSUME Init PROVE AgainInv
    OBVIOUS
<1>1. /\ table \in Tables /\ height = [r \in DOMAIN table |-> 0] /\ lo = Below(lead)
      /\ from = 1 /\ row = 1 /\ placed = <<>> /\ start = <<1>> /\ first = <<>> /\ page = 1
      /\ ended = FALSE /\ st = "set"
      BY DEF Init
<1>2. HeightInv
      BY <1>1, NoHeights DEF HeightInv
<1>3. SetInv
  <2>1. lo.x = VMargin /\ lo.y = HMargin + lead /\ lo.indent = 0
        BY <1>1, BelowFields
  <2>2. NextTop(placed, page) = HMargin + lead /\ Stacked(placed, page, from) /\ Len(placed) = 0
        BY <1>1, StackedNone DEF TopOf
  <2>3. start[page] = 1
        BY <1>1
  <2> QED BY <1>1, <2>1, <2>2, <2>3 DEF SetInv
<1>4. FirstInv
  <2>1. Len(first) = 0 /\ Len(start) = 1 /\ DOMAIN first = {}
        BY <1>1
  <2> QED BY <1>1, <2>1 DEF FirstInv, AllRecorded, SameAgain
<1> QED BY <1>2, <1>3, <1>4 DEF AgainInv

LEMMA NextHeight ==
  ASSUME TypesInv, PlainCells, buffered \/ MarginIdle, BegunInv, HeightInv, SetInv, [Next]_vars
  PROVE  HeightInv'
<1>1. TypeOK
      BY DEF TypesInv
<1>2. table \in Tables /\ height \in [DOMAIN table -> Nat] /\ DOMAIN table \subseteq Nat
  <2>1. table \in Tables /\ height \in [DOMAIN table -> Nat]
        BY <1>1 DEF TypeOK
  <2> QED BY <2>1, TableIs
<1>3. table' = table /\ buffered' = buffered
      BY TableStays
<1>4. /\ \A r \in DOMAIN table : height[r] <= HeightAt(r, TableMargin)
      /\ st = "set" => \A r \in DOMAIN table : row <= r => height[r] <= HeightAt(r, EdgeOf(page))
      BY DEF HeightInv
<1>5. \A p : \A r \in DOMAIN table :
        /\ HeightAt(r, EdgeOf(p)) \in Nat /\ HeightAt(r, TableMargin) \in Nat
        /\ HeightAt(r, EdgeOf(p)) <= HeightAt(r, TableMargin)
  <2> SUFFICES ASSUME NEW r \in DOMAIN table, NEW p
               PROVE  /\ HeightAt(r, EdgeOf(p)) \in Nat /\ HeightAt(r, TableMargin) \in Nat
                      /\ HeightAt(r, EdgeOf(p)) <= HeightAt(r, TableMargin)
      OBVIOUS
  <2>1. TableMargin \in Nat /\ EdgeOf(p) \in Nat
        BY EdgeOfType DEF TableMargin
  <2>2. HeightAt(r, EdgeOf(p)) \in Nat /\ HeightAt(r, TableMargin) \in Nat
        BY <1>2, <2>1, HeightAtIs
  <2>3. CASE EdgeOf(p) = TableMargin
        BY <2>2, <2>3
  <2>4. CASE EdgeOf(p) # TableMargin
    <3>1. ~buffered /\ EdgeOf(p) = CellMargin
          BY <2>4 DEF EdgeOf
    <3> QED BY <2>2, <3>1 DEF MarginIdle
  <2> QED BY <2>3, <2>4
<1>6. SUFFICES /\ \A r \in DOMAIN table : height'[r] <= HeightAt(r, TableMargin)
               /\ st' = "set" => \A r \in DOMAIN table : row' <= r =>
                                   height'[r] <= HeightAt(r, EdgeOf(page'))
  <2>1. /\ \A r, x : HeightAt(r, x)' = HeightAt(r, x)
        /\ EdgeOf(page)' = EdgeOf(page')
        BY <1>3 DEF HeightAt, RowCells, EdgeOf
  <2>2. \A r : HeightAt(r, EdgeOf(page))' = HeightAt(r, EdgeOf(page'))
        BY <1>3, <2>1 DEF HeightAt, RowCells, EdgeOf
  <2> QED BY <1>3, <2>1, <2>2 DEF HeightInv, TableMargin
<1>7. ASSUME st = "set", row \in DOMAIN table, height' = [height EXCEPT ![row] = RowHeight(SetupRow)]
      PROVE  /\ \A r \in DOMAIN table : height'[r] <= HeightAt(r, TableMargin)
             /\ \A r \in DOMAIN table : row + 1 <= r => height'[r] <= HeightAt(r, EdgeOf(page))
  <2>1. RowHeight(SetupRow) = HeightAt(row, EdgeOf(page))
        BY <1>7, NextRowIs
  <2>2. /\ height'[row] = HeightAt(row, EdgeOf(page))
        /\ \A r \in DOMAIN table : r # row => height'[r] = height[r]
        BY <1>2, <1>7, <2>1
  <2>3. \A r \in DOMAIN table : row + 1 <= r => r # row /\ row <= r
        BY <1>2, <1>7
  <2> QED BY <1>4, <1>5, <1>7, <2>2, <2>3
<1>8. CASE SetRow
  <2>1. /\ st = "set" /\ row \in DOMAIN table /\ row' = row + 1 /\ page' = page
        /\ height' = [height EXCEPT ![row] = RowHeight(SetupRow)]
        BY <1>8 DEF SetRow, place
  <2> QED BY <1>7, <2>1
<1>9. CASE BreakTable
  <2>1. /\ st = "set" /\ row \in DOMAIN table /\ st' = "shown"
        /\ height' = [height EXCEPT ![row] = RowHeight(SetupRow)]
        BY <1>9 DEF BreakTable
  <2> QED BY <1>7, <2>1
<1>10. CASE EndDocument
       BY <1>4, <1>10 DEF EndDocument
<1>11. CASE NextPage
  <2>1. page' = page + 1 /\ height' = height
        BY <1>11 DEF NextPage
  <2>2. EdgeOf(page') = TableMargin
    <3>1. start \in Seq(DOMAIN table) /\ page \in DOMAIN start
          BY <1>1 DEF TypeOK
    <3>2. page' # 1
          BY <2>1, <3>1, LenProperties
    <3> QED BY <3>2 DEF EdgeOf
  <2> QED BY <1>4, <2>1, <2>2
<1>12. ASSUME NEW p \in 1 .. MaxPages, EarlierPage(p)
       PROVE  /\ \A r \in DOMAIN table : height'[r] <= HeightAt(r, TableMargin)
              /\ \A r \in DOMAIN table : row' <= r => height'[r] <= HeightAt(r, EdgeOf(page'))
  <2>1. \A r \in DOMAIN table : height'[r] = 0
        BY <1>12 DEF EarlierPage, RowsZero
  <2> QED BY <1>2, <2>1, NoHeights
<1>13. CASE UNCHANGED vars
       BY <1>4, <1>13 DEF vars, place
<1> QED BY <1>8, <1>9, <1>10, <1>11, <1>12, <1>13 DEF Next
LEMMA NextSet ==
  ASSUME TypesInv, PlainCells, BegunInv, HeightInv, SetInv, FirstInv, [Next]_vars
  PROVE  SetInv'
<1>1. TypeOK /\ (st = "shown" => placed = <<>>)
      BY DEF TypesInv
<1>2. /\ table \in Tables /\ lo \in Layout /\ from \in DOMAIN table /\ st \in {"set", "shown"}
      /\ start \in Seq(DOMAIN table) /\ page \in DOMAIN start /\ placed \in Seq(RowType)
      /\ DOMAIN table \subseteq Nat
  <2>1. table \in Tables
        BY <1>1 DEF TypeOK
  <2> QED BY <1>1, <2>1, TableIs DEF TypeOK
<1>3. Len(placed) \in Nat /\ Len(start) \in Nat /\ DOMAIN start = 1 .. Len(start)
      BY <1>2, LenProperties
<1>4. table' = table /\ buffered' = buffered /\ lead' = lead
      BY TableStays
<1>5. /\ lo.x = VMargin /\ lo.indent = 0
      /\ st = "set" => /\ from = start[page] /\ row = from + Len(placed)
                       /\ lo.y = NextTop(placed, page) /\ Stacked(placed, page, from)
      /\ st = "shown" /\ ~ended => lo.y = HMargin
      BY DEF SetInv
<1>6. SUFFICES /\ lo'.x = VMargin /\ lo'.indent = 0
               /\ st' = "set" => /\ from' = start'[page'] /\ row' = from' + Len(placed')
                                 /\ lo'.y = NextTop(placed', page') /\ Stacked(placed', page', from')
               /\ st' = "shown" /\ ~ended' => lo'.y = HMargin
  <2>1. NextTop(placed, page)' = NextTop(placed', page')
        BY <1>4 DEF NextTop, TopOf
  <2>2. Stacked(placed, page, from)' <=> Stacked(placed', page', from')
    <3>1. \A r, x, px, py : RowAt(r, x, px, py)' = RowAt(r, x, px, py)
          BY <1>4 DEF RowAt, HeightAt, RowCells, GlyphAt
    <3>2. EdgeOf(page)' = EdgeOf(page') /\ TopOf(page)' = TopOf(page') /\ RowType' = RowType
          BY <1>4 DEF EdgeOf, TopOf, RowType
    <3> QED BY <1>4, <3>1, <3>2, Zenon DEF Stacked
  <2> QED BY <2>1, <2>2 DEF SetInv
<1>7. CASE SetRow
  <2> DEFINE h == RowHeight(SetupRow)
             a == Asked(h)
             P == PlacedRow(SetupRow, a)
  <2>1. /\ st = "set" /\ row \in DOMAIN table /\ a.ret = "OK"
        /\ placed' = Append(placed, P) /\ lo' = a.lo /\ row' = row + 1
        /\ from' = from /\ start' = start /\ page' = page /\ st' = st
        BY <1>7 DEF SetRow, place
  <2>2. /\ h = HeightAt(row, EdgeOf(page)) /\ h \in Nat
        /\ P = RowAt(row, EdgeOf(page), a.px, a.py) /\ P \in RowType
        BY <2>1, NextRowIs
  <2>3. /\ lo.y + h < YLimit /\ a.lo.y = lo.y + h /\ a.px = VMargin /\ a.py = lo.y
        /\ a.lo.x = VMargin /\ a.lo.indent = 0
        BY <1>2, <1>5, <2>1, <2>2, Asking
  <2>4. P.y = lo.y /\ P.height = h
        BY <2>2, <2>3, RowAtFields
  <2> HIDE DEF h, a, P
  <2>5. /\ from \in Nat /\ row = from + Len(placed) /\ lo.y = NextTop(placed, page)
        /\ Stacked(placed, page, from) /\ from = start[page]
        BY <1>2, <1>5, <2>1
  <2>6. P = RowAt(from + Len(placed), EdgeOf(page), VMargin, NextTop(placed, page))
        BY <2>2, <2>3, <2>5
  <2>7. /\ from + Len(placed) \in DOMAIN table /\ P.y + P.height < YLimit
        BY <2>1, <2>3, <2>4, <2>5
  <2>8. /\ Stacked(placed', page, from) /\ Len(placed') = Len(placed) + 1
        /\ NextTop(placed', page) = P.y + P.height
    <3>1. placed' = Append(placed, P) /\ P \in RowType /\ from \in Nat /\ Stacked(placed, page, from)
          BY <2>1, <2>2, <2>5, Zenon
    <3> QED BY <3>1, <2>6, <2>7, StackedOn
  <2>9. row' = from' + Len(placed')
    <3> DEFINE m == Len(placed)
               n == Len(placed')
    <3>1. m \in Nat /\ n = m + 1 /\ row = from + m
          BY <1>3, <2>5, <2>8
    <3> HIDE DEF m, n
    <3>2. row' = row + 1 /\ from' = from /\ from \in Nat
          BY <2>1, <2>5
    <3>3. row' = from' + n
          BY <3>1, <3>2
    <3> QED BY <3>3 DEF n
  <2> QED BY <2>1, <2>3, <2>4, <2>5, <2>8, <2>9
<1>8. CASE BreakTable
  <2> DEFINE h == RowHeight(SetupRow)
  <2>1. /\ st = "set" /\ row \in DOMAIN table /\ Asked(h).ret = "NEW_PAGE"
        /\ lo' = Asked(h).lo /\ st' = "shown"
        BY <1>8 DEF BreakTable
  <2>2. h \in Nat
        BY <2>1, NextRowIs
  <2> HIDE DEF h
  <2> QED BY <1>2, <1>5, <2>1, <2>2, Asking
<1>9. CASE EndDocument
      BY <1>5, <1>9 DEF EndDocument
<1>10. CASE NextPage
  <2>1. /\ st = "shown" /\ ~ended /\ page' = page + 1 /\ start' = Append(start, from)
        /\ row' = from /\ st' = "set" /\ from' = from /\ placed' = placed /\ lo' = lo
        BY <1>10 DEF NextPage
  <2>2. placed' = <<>> /\ page = Len(start)
        BY <1>1, <2>1 DEF FirstInv
  <2>3. start'[page'] = from
    <3>1. start'[Len(start) + 1] = from
          BY <1>2, <2>1, AppendProperties
    <3> QED BY <2>1, <2>2, <3>1
  <2>4. TopOf(page') = HMargin
    <3>1. page' # 1
          BY <1>2, <1>3, <2>1
    <3>2. HMargin + 0 = HMargin
          BY LayoutAssumption DEF LayoutAssumption
    <3> QED BY <3>1, <3>2 DEF TopOf
  <2>5. /\ Stacked(placed', page', from') /\ NextTop(placed', page') = HMargin
        /\ Len(placed') = 0
        BY <2>2, <2>4, StackedNone
  <2>6. row' = from' + Len(placed')
        BY <1>2, <2>1, <2>5
  <2> QED BY <1>5, <2>1, <2>3, <2>5, <2>6
<1>11. ASSUME NEW p \in 1 .. MaxPages, EarlierPage(p)
       PROVE  /\ lo'.x = VMargin /\ lo'.indent = 0 /\ st' = "set"
              /\ from' = start'[page'] /\ row' = from' + Len(placed')
              /\ lo'.y = NextTop(placed', page') /\ Stacked(placed', page', from')
  <2>1. /\ st = "shown" /\ p \in DOMAIN start /\ page' = p /\ from' = start[p] /\ row' = start[p]
        /\ lo' = (IF p = 1 THEN Below(lead) ELSE Below(0)) /\ st' = "set"
        /\ placed' = placed /\ start' = start
        BY <1>11 DEF EarlierPage
  <2>2. /\ Stacked(placed', page', from') /\ NextTop(placed', page') = TopOf(p)
        /\ Len(placed') = 0
        BY <1>1, <2>1, StackedNone
  <2>3. lo'.x = VMargin /\ lo'.indent = 0 /\ lo'.y = TopOf(p)
        BY <2>1, BelowFields DEF TopOf
  <2>4. start[p] \in Nat
        BY <1>2, <2>1
  <2>5. row' = from' + Len(placed')
        BY <2>1, <2>2, <2>4
  <2> QED BY <2>1, <2>2, <2>3, <2>5
<1>12. CASE UNCHANGED vars
       BY <1>5, <1>12 DEF vars, place
<1> QED BY <1>7, <1>8, <1>9, <1>10, <1>11, <1>12 DEF Next

LEMMA NextFirst ==
  ASSUME TypesInv, PlainCells, BegunInv, HeightInv, SetInv, FirstInv, [Next]_vars
  PROVE  FirstInv'
<1>1. TypeOK
      BY DEF TypesInv
<1>2. /\ table \in Tables /\ lo \in Layout /\ from \in DOMAIN table /\ st \in {"set", "shown"}
      /\ start \in Seq(DOMAIN table) /\ page \in DOMAIN start /\ placed \in Seq(RowType)
      /\ first \in Seq(SUBSET RowType)
      BY <1>1 DEF TypeOK
<1>3. /\ Len(placed) \in Nat /\ DOMAIN placed = 1 .. Len(placed)
      /\ Len(start) \in Nat /\ DOMAIN start = 1 .. Len(start)
      /\ Len(first) \in Nat /\ DOMAIN first = 1 .. Len(first)
      BY <1>2, LenProperties
<1>4. table' = table /\ buffered' = buffered /\ lead' = lead
      BY TableStays
<1>5. /\ Len(first) = IF st = "set" /\ ~ended THEN Len(start) - 1 ELSE Len(start)
      /\ ~ended => page = Len(start)
      /\ \A p \in DOMAIN first : Recorded(first, start, p)
      /\ st = "shown" => ink = first[page]
      BY DEF FirstInv, AllRecorded, Recorded, SameAgain
<1>6. SUFFICES /\ Len(first') = IF st' = "set" /\ ~ended' THEN Len(start') - 1 ELSE Len(start')
               /\ ~ended' => page' = Len(start')
               /\ \A p \in DOMAIN first' : Recorded(first', start', p)
               /\ st' = "shown" => ink' = first'[page']
  <2>1. \A R, p, s : Stacked(R, p, s)' <=> Stacked(R, p, s)
        BY <1>4 DEF Stacked, EdgeOf, TopOf, RowAt, HeightAt, RowCells, GlyphAt, RowType
  <2>2. \A R, p, s : Full(R, p, s)' <=> Full(R, p, s)
        BY <1>4 DEF Full, NextTop, TopOf, EdgeOf, HeightAt, RowCells
  <2>3. \A R, s : ShownOf(R, s)' = ShownOf(R, s)
        BY <1>4 DEF ShownOf
  <2>4. \A p, s, shown : Laid(p, s, shown)' <=> Laid(p, s, shown)
        BY <2>1, <2>2, <2>3 DEF Laid
  <2>5. (\A p \in DOMAIN first' : Recorded(first', start', p)) => AllRecorded'
        BY <2>4 DEF AllRecorded, Recorded
  <2> QED BY <2>5 DEF FirstInv, SameAgain
<1>7. CASE SetRow
      BY <1>5, <1>7 DEF SetRow, place
<1>8. CASE BreakTable
  <2> DEFINE h == RowHeight(SetupRow)
  <2>1. /\ st = "set" /\ row \in DOMAIN table /\ Asked(h).ret = "NEW_PAGE"
        /\ Drawn({placed[k] : k \in 1 .. RowSplit}) /\ st' = "shown"
        /\ start' = start /\ page' = page /\ ended' = ended
        BY <1>8 DEF BreakTable, place
  <2>2. h = HeightAt(row, EdgeOf(page)) /\ h \in Nat
        BY <2>1, NextRowIs
  <2> HIDE DEF h
  <2>3. row = from + Len(placed) /\ lo.y = NextTop(placed, page) /\ lo.x = VMargin /\ lo.indent = 0
        BY <2>1 DEF SetInv
  <2>4. lo.y + h >= YLimit
        BY <1>2, <2>1, <2>2, <2>3, Asking
  <2>5. Full(placed, page, from)
        BY <2>2, <2>3, <2>4 DEF Full
  <2>6. ShownOf(placed, from) = {placed[k] : k \in 1 .. RowSplit}
        BY <2>1, <2>3 DEF ShownOf, RowSplit
  <2>7. /\ Len(first') = Len(start) /\ ink' = first'[page]
        /\ \A p \in DOMAIN first' : Recorded(first', start, p)
        BY <2>1, <2>5, <2>6, DrawnAgain
  <2> QED BY <1>5, <2>1, <2>7
<1>9. CASE EndDocument
  <2>1. /\ st = "set" /\ row \notin DOMAIN table /\ Drawn({placed[k] : k \in DOMAIN placed})
        /\ st' = "shown" /\ ended' = TRUE /\ start' = start /\ page' = page
        BY <1>9 DEF EndDocument, place
  <2>2. row = from + Len(placed)
        BY <2>1 DEF SetInv
  <2>3. Full(placed, page, from)
        BY <2>1, <2>2 DEF Full
  <2>4. ShownOf(placed, from) = {placed[k] : k \in DOMAIN placed}
        BY <2>1, <2>2 DEF ShownOf
  <2>5. /\ Len(first') = Len(start) /\ ink' = first'[page]
        /\ \A p \in DOMAIN first' : Recorded(first', start, p)
        BY <2>1, <2>3, <2>4, DrawnAgain
  <2> QED BY <2>1, <2>5
<1>10. CASE NextPage
  <2>1. /\ st = "shown" /\ ~ended /\ page' = page + 1 /\ start' = Append(start, from)
        /\ st' = "set" /\ first' = first /\ ended' = ended
        BY <1>10 DEF NextPage
  <2>2. /\ Len(start') = Len(start) + 1
        /\ \A i \in 1 .. Len(start) : start'[i] = start[i]
        BY <1>2, <2>1, AppendProperties
  <2>3. Len(first) = Len(start) /\ page = Len(start)
        BY <1>5, <2>1
  <2>4. ASSUME NEW p \in DOMAIN first PROVE Recorded(first, start', p)
    <3>1. Recorded(first, start, p) /\ start'[p] = start[p]
          BY <1>3, <1>5, <2>2, <2>3
    <3> QED BY <3>1 DEF Recorded
  <2>5. Len(first') = Len(start') - 1 /\ page' = Len(start')
        BY <1>3, <2>1, <2>2, <2>3
  <2> QED BY <2>1, <2>4, <2>5
<1>11. ASSUME NEW p \in 1 .. MaxPages, EarlierPage(p)
       PROVE  /\ st' = "set" /\ ended' /\ ended /\ first' = first /\ start' = start /\ st = "shown"
       BY <1>11 DEF EarlierPage
<1>12. CASE UNCHANGED vars
       BY <1>5, <1>12 DEF vars, place
<1>13. CASE \E p \in 1 .. MaxPages : EarlierPage(p)
       BY <1>5, <1>11, <1>13
<1> QED BY <1>7, <1>8, <1>9, <1>10, <1>12, <1>13 DEF Next

\* A page that is shown again shows the rows it did, at the same places and
\* as high: in a table whose cells are set from the left in characters of one
\* bearing, if it was in the parser's buffer from the beginning or if the
\* margin of a new cell makes no row higher than that of a reset cell.  How
\* often and on which pages a row was set up before then, and whether its
\* cells come from the parser or from a file, makes no difference.
THEOREM PagesShowTheSameAgain ==
  Spec => [](PlainCells /\ (buffered \/ MarginIdle) => SameAgain)
<1> DEFINE Holds == PlainCells /\ (buffered \/ MarginIdle)
           Inv == TypesInv /\ (PlainCells => BegunInv) /\ (Holds => AgainInv)
<1>1. Init => Inv
      BY InitTypes, InitBegun, InitAgain
<1>2. Inv /\ [Next]_vars => Inv'
  <2> SUFFICES ASSUME Inv, [Next]_vars PROVE Inv'
      OBVIOUS
  <2>1. TypesInv' /\ (PlainCells => BegunInv')
        BY NextTypes, NextBegun
  <2>2. (PlainCells' <=> PlainCells) /\ (Holds' <=> Holds)
        BY TableStays DEF PlainCells, MarginIdle, HeightAt, RowCells
  <2>3. ASSUME Holds PROVE AgainInv'
    <3>1. BegunInv /\ HeightInv /\ SetInv /\ FirstInv /\ PlainCells
          BY <2>3 DEF AgainInv
    <3> QED BY <2>3, <3>1, NextHeight, NextSet, NextFirst DEF AgainInv
  <2> QED BY <2>1, <2>2, <2>3
<1>3. Inv => (Holds => SameAgain)
      BY DEF AgainInv, FirstInv
<1> QED BY <1>1, <1>2, <1>3, PTL DEF Spec
=============================================================================
