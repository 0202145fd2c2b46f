----------------------------- MODULE PageLayout -----------------------------
(***************************************************************************)
(* lib/PageLayout.cpp: where the next character, image, table row or line  *)
(* goes on the page, and when the page is full.  Each operation maps the   *)
(* layout state to a result: what it returned, the new state, and the      *)
(* position it handed out.  The state is the "Status" part of              *)
(* LayoutManager with imageConp, and the indent of the current Line.       *)
(***************************************************************************)
EXTENDS Integers

CONSTANTS
  PWidth, PHeight,           \* p_width, p_height
  VMargin, HMargin,          \* v_m_width, h_m_width
  LineSpacing, WordSpacing,  \* g_line_spacing after Init, g_word_spacing
  CtorSpacing                \* g_line_spacing of the constructor

ASSUME LayoutAssumption ==
  /\ PWidth \in Int /\ PHeight \in Int /\ VMargin \in Int /\ HMargin \in Int
  /\ LineSpacing \in Int /\ WordSpacing \in Int /\ CtorSpacing \in Int

Layout == [x : Int, y : Int, curMaxHeight : Int, lastMaxHeight : Int,
           curBaseline : Int, lastBaseline : Int, imageConp : Int,
           firstLine : BOOLEAN, indent : Int]

TableMargin == 0                \* TABLE_MARGIN_VERTICAL

XLimit == PWidth - HMargin

YLimitOfPaper == PHeight                                                  \* mutant
YLimit == PHeight - VMargin

Larger(a, b) == IF a > b THEN a ELSE b

\* The constructors of LayoutManager and PageLayout.
NewLayout ==
  [x |-> VMargin, y |-> HMargin, curMaxHeight |-> 0, lastMaxHeight |-> 0,
   curBaseline |-> 0, lastBaseline |-> 0, imageConp |-> 0,
   firstLine |-> TRUE, indent |-> 0]

Result(ret, lo, px, py) == [ret |-> ret, lo |-> lo, px |-> px, py |-> py]

\* Line::Dup hands its alignment to a constructor that ignores it: the next
\* line starts with default attributes and no indent.
NextIndent == 0

\* The page is full: the state of a blank page, and no position.
PageFull(lo) ==
  Result("NEW_PAGE",
         [NewLayout EXCEPT !.lastMaxHeight = lo.lastMaxHeight,
                           !.lastBaseline = lo.curBaseline, !.firstLine = lo.firstLine],
         -1, -1)

LineIndent(lo) == IF lo.firstLine THEN lo.indent ELSE 0

GetCharPos(lo0, width, height, bearingY) ==
  LET base == Larger(lo0.curBaseline, bearingY)
      lo   == [lo0 EXCEPT !.curBaseline = base,
                          !.curMaxHeight = Larger(@, base + height - bearingY)]
      Xoff == LineIndent(lo) + WordSpacing + width
      Yoff == LineSpacing + lo.curMaxHeight
      lineOver == lo.x + Xoff >= XLimit
      pageOver == lo.y + Yoff + lo.curMaxHeight >= YLimit
  IN  IF lineOver /\ pageOver THEN PageFull(lo)
      ELSE IF lineOver
      THEN Result("NEW_LINE",
                  [x |-> HMargin + width + WordSpacing, y |-> lo.y + Yoff,
                   curMaxHeight |-> height, lastMaxHeight |-> lo.curMaxHeight,
                   curBaseline |-> bearingY,
                   lastBaseline |-> lo.curBaseline - lo.imageConp,
                   imageConp |-> 0, firstLine |-> FALSE, indent |-> NextIndent],
                  HMargin, lo.y + Yoff + height)
      ELSE Result("OK", [lo EXCEPT !.x = @ + width + WordSpacing],
                  lo.x + LineIndent(lo), lo.y + height)

GetGraphPos(lo0, width, height) ==
  LET taller == lo0.curMaxHeight < height
      lo   == IF taller THEN [lo0 EXCEPT !.imageConp = height - lo0.curMaxHeight,
                                         !.curMaxHeight = height]
                        ELSE lo0
      Xoff == LineIndent(lo) + WordSpacing + width
      Yoff == LineSpacing + lo.curMaxHeight
  IN  IF lo.y + Yoff >= YLimit THEN PageFull(lo)
      ELSE IF lo.x + Xoff >= XLimit
      THEN Result("NEW_LINE",
                  [x |-> HMargin + width + WordSpacing,
                   y |-> lo.y + height - lo.imageConp,
                   curMaxHeight |-> height,
                   lastMaxHeight |-> lo.curMaxHeight - lo.imageConp,
                   curBaseline |-> 0, lastBaseline |-> lo.curBaseline,
                   imageConp |-> height, firstLine |-> FALSE, indent |-> NextIndent],
                  HMargin, lo.y + 2 * height - lo.imageConp)
      ELSE Result("OK", [lo EXCEPT !.x = @ + width + WordSpacing],
                  lo.x + LineIndent(lo), lo.y + height)

\* mutant
GetTablePosNoMove(lo, height) ==
  IF lo.y + height >= YLimit THEN PageFull(lo)
  ELSE Result("OK", [lo EXCEPT !.curMaxHeight = 0], lo.x + LineIndent(lo), lo.y)

\* A new page drops the current line without drawing it; on the same page
\* the table starts at the current position and only y moves.
GetTablePos(lo, height) ==
  IF lo.y + height >= YLimit THEN PageFull(lo)
  ELSE Result("OK", [lo EXCEPT !.y = @ + height + TableMargin, !.curMaxHeight = 0],
              lo.x + LineIndent(lo), lo.y)

\* mutant
NewLineOfLastHeight(lo) ==
  LET Yoff == LineSpacing + lo.lastMaxHeight
  IN  IF lo.y + Yoff >= YLimit THEN PageFull([lo EXCEPT !.firstLine = TRUE])
      ELSE Result("OK",
                  [x |-> HMargin, y |-> lo.y + Yoff,
                   curMaxHeight |-> 0, lastMaxHeight |-> lo.curMaxHeight - lo.imageConp,
                   curBaseline |-> 0, lastBaseline |-> lo.curBaseline,
                   imageConp |-> 0, firstLine |-> TRUE, indent |-> NextIndent],
                  HMargin, lo.y + Yoff)

NewLine(lo) ==
  LET Yoff == LineSpacing + (IF lo.curMaxHeight = 0 THEN lo.lastMaxHeight
                                                    ELSE lo.curMaxHeight)
  IN  IF lo.y + Yoff >= YLimit THEN PageFull([lo EXCEPT !.firstLine = TRUE])
      ELSE Result("OK",
                  [x |-> HMargin, y |-> lo.y + Yoff,
                   curMaxHeight |-> 0, lastMaxHeight |-> lo.curMaxHeight - lo.imageConp,
                   curBaseline |-> 0, lastBaseline |-> lo.curBaseline,
                   imageConp |-> 0, firstLine |-> TRUE, indent |-> NextIndent],
                  HMargin, lo.y + Yoff)

\* Called once, by May12th::Init, before the line spacing is set.
NewPage(lo) ==
  LET Yoff == CtorSpacing + lo.curMaxHeight - lo.imageConp
      top  == [lo EXCEPT !.x = VMargin, !.y = HMargin + Yoff,
                         !.lastBaseline = lo.curBaseline, !.curBaseline = 0]
  IN  IF lo.curMaxHeight = 0 THEN top
      ELSE [top EXCEPT !.lastMaxHeight = lo.curMaxHeight - lo.imageConp,
                       !.curMaxHeight = 0, !.imageConp = 0]

\* Neither firstLine nor the current line is reset.
Reset(lo) == [NewLayout EXCEPT !.firstLine = lo.firstLine, !.indent = lo.indent]
=============================================================================
