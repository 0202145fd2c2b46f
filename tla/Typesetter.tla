----------------------------- MODULE Typesetter -----------------------------
(***************************************************************************)
(* How Display puts glyphs on a page: Setup of a character (lib/Char.cpp), *)
(* an image (lib/Graph.cpp) or a table (lib/Table.cpp) asks the layout for *)
(* a place, the current Line (lib/Line.cpp) keeps what was placed until it *)
(* is moved to its baseline and drawn, and a page that is full gives back  *)
(* what did not fit.  Glyphs are freed when their page is finished.        *)
(*                                                                         *)
(* The client turns pages to the end of the document and may then turn     *)
(* back.  Paragraphs have no style: no indent, aligned left.  The cells of *)
(* a table row count as one box as high as the highest of them.            *)
(***************************************************************************)
EXTENDS PageLayout, Sequences

CONSTANTS
  Documents,               \* sequences of items
  ImageGuard,              \* IMAGE_GUARD_SIZE
  MaxPages,                \* bound: pages that are rendered
  MaxLeft                  \* bound: the client turns back only while fewer
                           \*   glyphs than this are left on the line

Char(w, h, b) == [kind |-> "char", w |-> w, h |-> h, b |-> b, rows |-> <<>>]
Break         == [kind |-> "break", w |-> 0, h |-> 0, b |-> 0, rows |-> <<>>]
\* An image as it is in its file; a broken one cannot be decoded.
Graph(w, h)   == [kind |-> "graph", w |-> w, h |-> h, b |-> 0, rows |-> <<>>]
Broken        == [kind |-> "broken", w |-> 0, h |-> 0, b |-> 0, rows |-> <<>>]
Table(w, hs)  == [kind |-> "table", w |-> w, h |-> 0, b |-> 0, rows |-> hs]

Item == [kind : {"char", "break", "graph", "broken", "table"},
         w : Nat, h : Nat, b : Int, rows : Seq(Nat)]

\* A decoded image has a size, a table has rows.
ASSUME TypesetterAssumption ==
  /\ \A d \in Documents : d \in Seq(Item)
  /\ \A d \in Documents : \A k \in DOMAIN d :
        /\ d[k].kind = "graph" => d[k].w > 0 /\ d[k].h > 0
        /\ d[k].kind = "table" => d[k].rows # <<>>
  /\ ImageGuard \in Nat /\ MaxPages \in Nat \ {0} /\ MaxLeft \in Nat

VARIABLES
  items,           \* the document
  next, from,      \* the item the parser hands out next, and the first row
                   \*   that is left of it if it is a table
  lo,              \* the page layout
  line,            \* boxes on the current line, not yet drawn
  rows,            \* boxes of the table that is being set up
  ink,             \* boxes drawn on the page
  ghost,           \* a glyph was drawn after it had been freed
  start,           \* where each page began, [next, from]
  page,            \* the page in work
  ended,           \* the last page is known
  st               \* "set": glyphs are set up; "shown": the page is finished

document == <<items>>
place    == <<start, page>>
vars     == <<document, next, from, lo, line, rows, ink, ghost, place, ended, st>>

Init ==
  /\ items \in Documents /\ next = 1 /\ from = 1
  /\ lo = NewPage(NewLayout)
  /\ line = <<>> /\ rows = <<>> /\ ink = {} /\ ghost = FALSE
  /\ start = <<[next |-> 1, from |-> 1]>> /\ page = 1 /\ ended = FALSE /\ st = "set"

-----------------------------------------------------------------------------
(* Line.                                                                    *)

\* pos is the left bottom corner of a glyph.
Box(row, w, h, r) ==
  [item |-> next, row |-> row, left |-> r.px, right |-> r.px + w,
   top |-> r.py - h, bottom |-> r.py, live |-> TRUE]

\* Adjust2Baseline moves a character down to the line's baseline.
Adjusted(box, baseline) ==
  LET delta == baseline - items[box.item].b
  IN  IF items[box.item].kind = "char" /\ delta >= 0
      THEN [box EXCEPT !.top = @ + delta, !.bottom = @ + delta] ELSE box

FlushForgetsLine(after) == UNCHANGED <<ink, ghost>>                       \* mutant

\* DrawFlush: the layout "after" the line holds its baseline.  Boxes of freed
\* glyphs are garbage: that they are drawn is all that is known of them.
DrawFlush(after) ==
  LET placed == {line[k] : k \in DOMAIN line}
  IN  /\ ink' = ink \cup {Adjusted(g, after.lastBaseline) : g \in {b \in placed : b.live}}
      /\ ghost' = (ghost \/ \E g \in placed : ~g.live)

DupCopiesGlyphs(s) == s                                                   \* mutant

\* Line::Dup: the line that replaces the current one is empty.
Dup(s) == <<>>

\* DeleteGlyph frees every glyph of the page; a line that was not replaced
\* still refers to them.
Freed(s) == [k \in DOMAIN s |-> [s[k] EXCEPT !.live = FALSE]]

-----------------------------------------------------------------------------
(* Setup, called by Display for each glyph in turn.                         *)

PageW == PWidth - 2 * HMargin         \* PAGE_WIDTH
PageH == PHeight - 2 * VMargin        \* PAGE_HEIGHT

WideAs(g, w) == [g EXCEPT !.w = w, !.h = (g.h * w) \div g.w]
HighAs(g, h) == [g EXCEPT !.h = h, !.w = (g.w * h) \div g.h]

\* mutant
ResizedToPage(g) ==
  LET byWidth  == WideAs(g, PageW)
      byHeight == HighAs(g, PageH)
  IN  IF g.w > PageW THEN (IF byWidth.h <= PageH THEN byWidth ELSE byHeight)
      ELSE IF g.h > PageH THEN byHeight ELSE g

\* Resize: an image larger than the page is scaled, by its width first.
Resized(g) ==
  LET byWidth  == WideAs(g, PageW - ImageGuard)
      byHeight == HighAs(g, PageH - ImageGuard)
  IN  IF g.w > PageW THEN (IF byWidth.h <= PageH THEN byWidth ELSE byHeight)
      ELSE IF g.h > PageH THEN byHeight ELSE g

AtEnd == next > Len(items)

\* The glyph in hand; an image is decoded, and scaled, each time it is set up.
Here == IF items[next].kind = "graph" THEN Resized(items[next]) ELSE items[next]

Setting(kinds) == st = "set" /\ ~AtEnd /\ Here.kind \in kinds

\* What the layout answers.
Asked ==
  CASE Here.kind = "char"  -> GetCharPos(lo, Here.w, Here.h, Here.b)
    [] Here.kind = "graph" -> GetGraphPos(lo, Here.w, Here.h)
    [] Here.kind = "break" -> NewLine(lo)

PassedTwice == next' = next + 2 /\ from' = 1                              \* mutant
Passed == next' = next + 1 /\ from' = 1

\* The glyph goes on the current line.
SetOnLine ==
  /\ Setting({"char", "graph"}) /\ Asked.ret = "OK"
  /\ line' = Append(line, Box(1, Here.w, Here.h, Asked)) /\ lo' = Asked.lo /\ Passed
  /\ UNCHANGED <<document, rows, ink, ghost, place, ended, st>>

\* The line is over: it is drawn and the glyph begins the next one.
SetOnNextLine ==
  /\ Setting({"char", "graph"}) /\ Asked.ret = "NEW_LINE"
  /\ DrawFlush(Asked.lo)
  /\ line' = Append(Dup(line), Box(1, Here.w, Here.h, Asked)) /\ lo' = Asked.lo /\ Passed
  /\ UNCHANGED <<document, rows, place, ended, st>>

\* GY_ERROR: the glyph is passed over.
SkipImage ==
  /\ Setting({"broken"}) /\ Passed
  /\ UNCHANGED <<document, lo, line, rows, ink, ghost, place, ended, st>>

SetBreak ==
  /\ Setting({"break"}) /\ Asked.ret = "OK"
  /\ DrawFlush(Asked.lo)
  /\ line' = Dup(line) /\ lo' = Asked.lo /\ Passed
  /\ UNCHANGED <<document, rows, place, ended, st>>

\* The page is full: the line is drawn, the glyph goes back to the parser.
BreakPage ==
  /\ Setting({"char", "graph", "break"}) /\ Asked.ret = "NEW_PAGE"
  /\ DrawFlush(Asked.lo)
  /\ line' = Freed(Dup(line)) /\ lo' = Reset(Asked.lo) /\ st' = "shown"
  /\ UNCHANGED <<document, next, from, rows, place, ended>>

\* Table_Row::Setup, with the position of the row's left top corner.
RowAsked == GetTablePos(lo, Here.rows[from + Len(rows)])
RowBox ==
  LET h == Here.rows[from + Len(rows)]
  IN  Box(from + Len(rows), Here.w, h, [RowAsked EXCEPT !.py = @ + h])

LastRow == from + Len(rows) = Len(Here.rows)

SetRow ==
  /\ Setting({"table"}) /\ ~LastRow /\ RowAsked.ret = "OK"
  /\ rows' = Append(rows, RowBox) /\ lo' = RowAsked.lo
  /\ UNCHANGED <<document, next, from, line, ink, ghost, place, ended, st>>

\* With its last row the table goes on the current line.
SetLastRow ==
  /\ Setting({"table"}) /\ LastRow /\ RowAsked.ret = "OK"
  /\ line' = line \o Append(rows, RowBox) /\ rows' = <<>> /\ lo' = RowAsked.lo /\ Passed
  /\ UNCHANGED <<document, ink, ghost, place, ended, st>>

\* rowSplit: one less than the rows that found a place.
RowSplit == IF Len(rows) > 0 THEN Len(rows) - 1 ELSE 0

RowsDrawnShort == 1 .. RowSplit - 1                                       \* mutant

\* Table::Draw
RowsDrawn == 1 .. RowSplit

\* The page is full: the rows before the split are drawn, the others go back
\* to the parser.  The current line is replaced without being drawn, and only
\* GetTablePos touches the layout.
BreakTable ==
  /\ Setting({"table"}) /\ RowAsked.ret = "NEW_PAGE"
  /\ ink' = ink \cup {rows[k] : k \in RowsDrawn}
  /\ from' = from + RowSplit /\ rows' = <<>>
  /\ line' = Freed(Dup(line)) /\ lo' = RowAsked.lo /\ st' = "shown"
  /\ UNCHANGED <<document, next, ghost, place, ended>>

\* Eof: the last line is drawn with the baseline of the line before it, and
\* the line is not replaced.
EndDocument ==
  /\ st = "set" /\ AtEnd
  /\ DrawFlush(lo)
  /\ line' = Freed(line) /\ ended' = TRUE /\ st' = "shown"
  /\ UNCHANGED <<document, next, from, lo, rows, place>>

-----------------------------------------------------------------------------
(* The client.                                                              *)

\* Display of the next page: where the parser stands.
NextPage ==
  /\ st = "shown" /\ ~ended /\ page < MaxPages
  /\ page' = page + 1 /\ start' = Append(start, [next |-> next, from |-> from])
  /\ ink' = {} /\ st' = "set"
  /\ UNCHANGED <<document, next, from, lo, line, rows, ghost, ended>>

\* mutant
EarlierPageOfWholeTables(p) ==
  /\ st = "shown" /\ ended /\ Len(line) < MaxLeft /\ p \in DOMAIN start
  /\ page' = p /\ next' = start[p].next /\ from' = 1
  /\ lo' = Reset(lo) /\ ink' = {} /\ st' = "set"
  /\ UNCHANGED <<document, line, rows, ghost, start, ended>>

\* Display of an earlier page: where its .pg file says.
EarlierPage(p) ==
  /\ st = "shown" /\ ended /\ Len(line) < MaxLeft /\ p \in DOMAIN start
  /\ page' = p /\ next' = start[p].next /\ from' = start[p].from
  /\ lo' = Reset(lo) /\ ink' = {} /\ st' = "set"
  /\ UNCHANGED <<document, line, rows, ghost, start, ended>>

Next ==
  \/ SetOnLine \/ SetOnNextLine \/ SetBreak \/ SkipImage \/ BreakPage
  \/ SetRow \/ SetLastRow \/ BreakTable \/ EndDocument
  \/ NextPage \/ \E p \in 1 .. MaxPages : EarlierPage(p)

Spec == Init /\ [][Next]_vars

-----------------------------------------------------------------------------
(* Properties.                                                              *)

BoxType ==
  [item : DOMAIN items, row : Nat, left : Int, right : Int, top : Int, bottom : Int, live : BOOLEAN]

\* Types of the state.
TypeOK ==
  /\ items \in Documents /\ next \in 1 .. Len(items) + 1 /\ from \in Nat \ {0}
  /\ lo \in Layout
  /\ line \in Seq(BoxType) /\ rows \in Seq(BoxType) /\ ink \subseteq BoxType
  /\ start \in Seq([next : 1 .. Len(items) + 1, from : Nat \ {0}])
  /\ page \in DOMAIN start
  /\ ghost \in BOOLEAN /\ ended \in BOOLEAN /\ st \in {"set", "shown"}

Rows(i) == IF items[i].kind = "table" THEN Len(items[i].rows) ELSE 1

\* All that shows: glyphs, and tables by rows.
Pieces ==
  UNION {{[next |-> i, from |-> r] : r \in 1 .. Rows(i)} :
           i \in {k \in DOMAIN items : items[k].kind \notin {"break", "broken"}}}

Standing == [next |-> next, from |-> from]

Precedes(a, b) == a.next < b.next \/ (a.next = b.next /\ a.from < b.from)

\* The part of the document that a finished page stands for: from where it
\* began to where the parser stands now.
Part == {p \in Pieces : ~Precedes(p, start[page]) /\ Precedes(p, Standing)}

\* A finished page shows exactly its part of the document: no glyph that was
\* taken from the parser is dropped with its line, none is drawn and also
\* given back (DrawFlush, Line::Dup, UngetSet, rowSplit).
PageShowsItsPart == st = "shown" => {[next |-> g.item, from |-> g.row] : g \in ink} = Part

Apart(a, b) ==
  a.right <= b.left \/ b.right <= a.left \/ a.bottom <= b.top \/ b.bottom <= a.top

\* No two glyphs of a page are drawn over each other, however lines of
\* different heights, baselines and breaks follow each other.
NoOverprint == \A a, b \in ink : a # b => Apart(a, b)

\* Everything drawn is on the paper: FrameBuffer::Write clips nothing.
OnPaper ==
  \A g \in ink : 0 <= g.left /\ g.right <= PWidth /\ 0 <= g.top /\ g.bottom <= PHeight

\* A line is drawn by glyphs that exist: none of a page that was finished,
\* until the client turns back from the end of the document, where Eof leaves
\* the last line in place (Line::Dup, LayoutManager::DeleteGlyph).
DrawsLive == ghost => ended

\* Every page that is finished takes the reader further: what does not fit on
\* it fits on the next (Graph::Resize, Table::Setup).
PagesAdvance ==
  st = "shown" /\ ~ended => Precedes(start[page], Standing)
=============================================================================
