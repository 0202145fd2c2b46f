------------------------------- MODULE Cells -------------------------------
(***************************************************************************)
(* A table from the parser's buffer to the page: the layout inside of its  *)
(* cells (lib/TableLayout.cpp), Setup, Draw, UngetSet and Dup of cells and *)
(* rows (lib/Table.cpp), a table whose rows are split over pages, and the  *)
(* state of a page that holds rows, stored in a .pg file and restored.     *)
(*                                                                         *)
(* Typesetter takes the heights of rows as given; here they come from what *)
(* the cells hold.  Cells are shared: the rows that Dup makes for the file *)
(* hold the same cells as the rows in the parser's buffer, and Dup is what *)
(* resets their layouts.  A restored page has cells of its own.            *)
(***************************************************************************)
EXTENDS PageLayout, Sequences, FiniteSets

CONSTANTS
  Tables,                  \* sequences of rows, which are sequences of cells
  Leads,                   \* lines of text that may stand above the table
  CellSpacing,             \* TAB_MARGIN
  CellMargin,              \* TABLE_MARGIN_HORIZONTAL
  MaxPages                 \* bound: pages that are rendered

Char(w, h, b) == [kind |-> "char", w |-> w, h |-> h, b |-> b]
Break         == [kind |-> "break", w |-> 0, h |-> 0, b |-> 0]

\* width and xoff of a cell, what its line's attributes were when the parser
\* came to it, and its glyphs.
Cell(width, xoff, align, text) == [width |-> width, xoff |-> xoff, align |-> align, text |-> text]

Aligns  == {"left", "centre", "right"}
Glyphs  == [kind : {"char", "break"}, w : Nat, h : Nat, b : Int]
CellSet == [width : Nat, xoff : Nat, align : Aligns, text : Seq(Glyphs)]

ASSUME CellsAssumption ==
  /\ CellSpacing \in Nat /\ CellMargin \in Nat /\ MaxPages \in Nat /\ Leads \subseteq Nat
  /\ \A t \in Tables : t \in Seq(Seq(CellSet)) /\ t # <<>>

VARIABLES
  table,           \* the document: a table
  buffered,        \* it was in the parser's buffer when its first page began
  lead,            \* lines above it on that page
  cells,           \* layouts of the cells, by row and column
  height,          \* the height each row had when it was last set up
  lo,              \* the page layout
  from, row,       \* first row of the table that is left; row set up next
  placed,          \* rows that found a place: their boxes and their glyphs'
  ink,             \* rows drawn on the page
  start,           \* first row of each page
  first,           \* what each page showed when it was rendered
  page, ended, st

document == <<table, buffered, lead>>
place    == <<start, page>>
vars     == <<document, cells, height, lo, from, row, placed, ink, first, place, ended, st>>

-----------------------------------------------------------------------------
(* TableLayout.                                                             *)

\* The constructor; the first line has the attributes of the parser's.
NewCell(cell, align) ==
  [x |-> CellMargin, y |-> CellMargin, base |-> 0, max |-> 0, lastBase |-> 0, lastMax |-> 0,
   align |-> align, line |-> <<>>, extent |-> 0,
   pos |-> [k \in DOMAIN cell.text |-> [x |-> 0, y |-> 0]]]

ResetCellKept(c) == c                                                     \* mutant

\* Reset: the x of a cell that begins again is TABLE_MARGIN_VERTICAL.  The
\* current line keeps its glyphs.
ResetCell(c) ==
  [c EXCEPT !.x = TableMargin, !.y = CellMargin, !.base = 0, !.max = 0,
            !.lastBase = 0, !.lastMax = 0]

\* Line::RelocLine: every entry of the line is moved, one that is there twice
\* is moved twice.
Shift(c, cell) ==
  LET spare == cell.width - TableMargin - c.extent
  IN  CASE c.align = "left"   -> 0
        [] c.align = "centre" -> spare \div 2
        [] c.align = "right"  -> spare
Down(c, cell, k) == Larger(c.lastBase - cell.text[k].b, 0)
Times(c, k)      == Cardinality({i \in DOMAIN c.line : c.line[i] = k})
RelocLine(c, cell) ==
  [c EXCEPT !.pos = [k \in DOMAIN @ |-> [x |-> @[k].x + Times(c, k) * Shift(c, cell),
                                         y |-> @[k].y + Times(c, k) * Down(c, cell, k)]]]

\* Clear and Line::Dup, after the line was moved.
NextLineOf(c) == [c EXCEPT !.line = <<>>, !.extent = 0, !.align = "left"]

AddGlyph(c, k, w) ==
  [c EXCEPT !.line = Append(@, k), !.extent = Larger(@, c.pos[k].x + w)]

BreakInCell(c, cell, k) ==
  LET Yoff == CellSpacing + (IF c.max = 0 THEN c.lastMax ELSE c.max)
  IN  NextLineOf(RelocLine(
        [AddGlyph(c, k, 0) EXCEPT !.x = CellMargin, !.y = @ + Yoff, !.base = 0, !.max = 0,
                                  !.lastBase = c.base, !.lastMax = c.max], cell))

CharInCell(c, cell, k) ==
  LET g    == cell.text[k]
      base == Larger(c.base, g.b)
      max  == Larger(c.max, base + g.h - g.b)
      y    == c.y + CellSpacing + max
      over == c.x + CellSpacing + g.w >= cell.width - CellMargin
      next == NextLineOf(RelocLine(
                [c EXCEPT !.x = CellMargin + g.w + CellSpacing, !.y = y, !.base = g.b,
                          !.max = g.h, !.lastBase = base, !.lastMax = max], cell))
      same == [c EXCEPT !.x = @ + g.w + CellSpacing, !.base = base, !.max = max]
  IN  IF over
      THEN AddGlyph([next EXCEPT !.pos[k] = [x |-> CellMargin, y |-> y + g.h]], k, g.w)
      ELSE AddGlyph([same EXCEPT !.pos[k] = [x |-> c.x, y |-> c.y + g.h]], k, g.w)

GlyphInCell(c, cell, k) ==
  IF cell.text[k].kind = "break" THEN BreakInCell(c, cell, k) ELSE CharInCell(c, cell, k)

\* The layout of a cell behind its first k glyphs.
Behind(c0, cell) ==
  LET behind[k \in 0 .. Len(cell.text)] ==
        IF k = 0 THEN c0 ELSE GlyphInCell(behind[k - 1], cell, k)
  IN  behind

\* Table_Data_Cell::Setup.  The last line is moved too, by the baseline of
\* the line before it, and stays the current line.
SetupCell(c0, cell) == RelocLine(Behind(c0, cell)[Len(cell.text)], cell)

CellHeight(c) == c.y + c.max                                   \* GetMaxHeight

-----------------------------------------------------------------------------
(* Rows.                                                                    *)

FreshCells ==
  [r \in DOMAIN table |-> [k \in DOMAIN table[r] |-> NewCell(table[r][k], table[r][k].align)]]

\* Table_Row::Dup and Table_Data_Cell::Dup of the rows in a buffer.
DupRows(cs, left) ==
  [r \in DOMAIN cs |-> IF r < left THEN cs[r] ELSE [k \in DOMAIN cs[r] |-> ResetCell(cs[r][k])]]

\* Cells read from a file: made anew, then passed through Dup.  Neither their
\* layout nor the attributes of their line are in the file.
Restored(left) ==
  DupRows([r \in DOMAIN table |-> [k \in DOMAIN table[r] |-> NewCell(table[r][k], "left")]], left)

SetupRow == [k \in DOMAIN table[row] |-> SetupCell(cells[row][k], table[row][k])]

\* mutant
RowHeightOfLastCell(cs) == IF cs = <<>> THEN height[row] ELSE CellHeight(cs[Len(cs)])

Highest(S)    == CHOOSE h \in S : \A g \in S : g <= h
RowHeight(cs) == Highest({height[row]} \cup {CellHeight(cs[k]) : k \in DOMAIN cs})

\* Char::Relocate: a character moves from its place in the cell to the page.
PlacedGlyph(c, k, j, asked) ==
  LET cell == table[row][k]  left == asked.px + cell.xoff  bottom == asked.py + c.pos[j].y
  IN  [row |-> row, cell |-> k, glyph |-> j, column |-> left,
       left |-> left + c.pos[j].x, right |-> left + c.pos[j].x + cell.text[j].w,
       top |-> bottom - cell.text[j].h, bottom |-> bottom]

CharsOf(cell) == {j \in DOMAIN cell.text : cell.text[j].kind = "char"}

\* Table_Row::Relocate: the row's box and the boxes of the glyphs in it.
PlacedRow(cs, asked) ==
  [row |-> row, y |-> asked.py, height |-> RowHeight(cs),
   glyphs |-> UNION {{PlacedGlyph(cs[k], k, j, asked) : j \in CharsOf(table[row][k])} :
                     k \in DOMAIN table[row]}]

-----------------------------------------------------------------------------
(* Pages.                                                                   *)

\* The page layout below n lines of text.
Below(n) == [Reset(NewLayout) EXCEPT !.y = @ + n]

Init ==
  /\ table \in Tables
  /\ buffered \in BOOLEAN
  /\ lead \in IF buffered THEN {0} ELSE Leads
  /\ cells = IF buffered THEN DupRows(FreshCells, 1) ELSE FreshCells
  /\ height = [r \in DOMAIN table |-> 0]
  /\ lo = Below(lead)
  /\ from = 1 /\ row = 1 /\ placed = <<>> /\ ink = {}
  /\ start = <<1>> /\ first = <<>> /\ page = 1 /\ ended = FALSE /\ st = "set"

RowSplit == IF Len(placed) > 0 THEN Len(placed) - 1 ELSE 0

Asked(h) == GetTablePos(lo, h)

\* Table_Row::Setup, and the row has a place.
SetRow ==
  LET cs == SetupRow  h == RowHeight(cs)  asked == Asked(h)
  IN  /\ st = "set" /\ row \in DOMAIN table /\ asked.ret = "OK"
      /\ cells' = [cells EXCEPT ![row] = cs] /\ height' = [height EXCEPT ![row] = h]
      /\ placed' = Append(placed, PlacedRow(cs, asked)) /\ lo' = asked.lo /\ row' = row + 1
      /\ UNCHANGED <<document, from, ink, first, place, ended, st>>

Drawn(rows) ==
  /\ ink' = rows
  /\ first' = IF page > Len(first) THEN Append(first, rows) ELSE first

\* mutant
BreakTableKeepsPlaced ==
  LET cs == SetupRow  h == RowHeight(cs)
  IN  /\ st = "set" /\ row \in DOMAIN table /\ Asked(h).ret = "NEW_PAGE"
      /\ cells' = [cells EXCEPT ![row] = cs] /\ height' = [height EXCEPT ![row] = h]
      /\ Drawn({placed[k] : k \in 1 .. RowSplit})
      /\ from' = from + RowSplit /\ UNCHANGED placed /\ lo' = Asked(h).lo /\ st' = "shown"
      /\ UNCHANGED <<document, row, place, ended>>

\* The row has no place: those before the split are drawn.  On a page that is
\* new, the others go back to the parser with the heights they have.
BreakTable ==
  LET cs == SetupRow  h == RowHeight(cs)
  IN  /\ st = "set" /\ row \in DOMAIN table /\ Asked(h).ret = "NEW_PAGE"
      /\ cells' = [cells EXCEPT ![row] = cs] /\ height' = [height EXCEPT ![row] = h]
      /\ Drawn({placed[k] : k \in 1 .. RowSplit})
      /\ from' = from + RowSplit /\ placed' = <<>> /\ lo' = Asked(h).lo /\ st' = "shown"
      /\ UNCHANGED <<document, row, place, ended>>

\* Line::DrawFlush with the table on the line.
EndDocument ==
  /\ st = "set" /\ row \notin DOMAIN table
  /\ Drawn({placed[k] : k \in DOMAIN placed})
  /\ placed' = <<>> /\ ended' = TRUE /\ st' = "shown"
  /\ UNCHANGED <<document, cells, height, lo, from, row, place>>

\* StartPage: the rows in the parser's buffer are stored through Dup.
NextPage ==
  /\ st = "shown" /\ ~ended /\ page < MaxPages
  /\ page' = page + 1 /\ start' = Append(start, from)
  /\ cells' = DupRows(cells, from) /\ row' = from
  /\ ink' = {} /\ st' = "set"
  /\ UNCHANGED <<document, height, lo, from, placed, first, ended>>

RowsZero == [r \in DOMAIN table |-> 0]

\* RestorePage of page p.  A table that was not in the parser's buffer when
\* page 1 began is parsed again.
EarlierPage(p) ==
  /\ st = "shown" /\ ended /\ p \in DOMAIN start
  /\ page' = p /\ from' = start[p] /\ row' = start[p]
  /\ cells' = IF p = 1 /\ ~buffered THEN FreshCells ELSE Restored(start[p])
  /\ height' = RowsZero /\ lo' = IF p = 1 THEN Below(lead) ELSE Below(0)
  /\ ink' = {} /\ st' = "set"
  /\ UNCHANGED <<document, placed, start, first, ended>>

Next == SetRow \/ BreakTable \/ EndDocument \/ NextPage \/ \E p \in 1 .. MaxPages : EarlierPage(p)

Spec == Init /\ [][Next]_vars

-----------------------------------------------------------------------------
(* Properties.                                                              *)

CellType(cell) ==
  [x : Int, y : Int, base : Int, max : Int, lastBase : Int, lastMax : Int,
   align : Aligns, line : Seq(DOMAIN cell.text), extent : Int,
   pos : [DOMAIN cell.text -> [x : Int, y : Int]]]
BoxType == [row : Nat, cell : Nat, glyph : Nat, column : Int,
            left : Int, right : Int, top : Int, bottom : Int]
RowType == [row : DOMAIN table, y : Int, height : Nat, glyphs : SUBSET BoxType]

CellsOK(cs) ==
  /\ DOMAIN cs = DOMAIN table
  /\ \A r \in DOMAIN table :
       /\ DOMAIN cs[r] = DOMAIN table[r]
       /\ \A k \in DOMAIN table[r] : cs[r][k] \in CellType(table[r][k])

\* Types of the state.
TypeOK ==
  /\ table \in Tables /\ buffered \in BOOLEAN /\ lead \in Leads \cup {0}
  /\ CellsOK(cells) /\ height \in [DOMAIN table -> Nat]
  /\ lo \in Layout /\ from \in DOMAIN table /\ row \in from .. Len(table) + 1
  /\ placed \in Seq(RowType) /\ Len(placed) <= row - from
  /\ ink \subseteq RowType /\ first \in Seq(SUBSET RowType)
  /\ start \in Seq(DOMAIN table) /\ page \in DOMAIN start
  /\ ended \in BOOLEAN /\ st \in {"set", "shown"}

Apart(a, b) ==
  a.right <= b.left \/ b.right <= a.left \/ a.bottom <= b.top \/ b.bottom <= a.top

InPlace(r) ==
  \A g \in r.glyphs :
    /\ g.column <= g.left /\ g.right <= g.column + table[g.row][g.cell].width
    /\ r.y <= g.top /\ g.bottom <= r.y + r.height
    /\ \A f \in r.glyphs \ {g} : Apart(f, g)

\* Every glyph of a drawn row is in its cell's column and in the row's box,
\* and apart from the other glyphs, whichever cell made the row high.
GlyphsInPlace == \A r \in ink : InPlace(r)

\* A page that is shown again shows the rows it did when it was rendered, at
\* the same places and as high, though then they may have been set up on the
\* page before as well, by cells that were reset, and now come from a file.
SameAgain == st = "shown" => ink = first[page]
=============================================================================
