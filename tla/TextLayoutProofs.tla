---------------------------- MODULE TextLayoutProofs ----------------------------
(***************************************************************************)
(* Lemmas about the operators the page models share, for every geometry    *)
(* and every document: those of module PageLayout (what a layout operation *)
(* returns is a layout) and those of module GlyphStream (what one batch of *)
(* the parser is made of and where it ends).                               *)
(***************************************************************************)
EXTENDS PageLayout, GlyphStream, SequenceTheorems, WellFoundedInduction, TLAPS

-----------------------------------------------------------------------------
(* What the layout's operators return is a layout.                          *)

LEMMA LargerType == ASSUME NEW a \in Int, NEW b \in Int PROVE Larger(a, b) \in Int
BY DEF Larger

LEMMA FieldTypes ==
  ASSUME NEW l \in Layout
  PROVE  /\ l.x \in Int
         /\ l.y \in Int
         /\ l.curMaxHeight \in Int
         /\ l.lastMaxHeight \in Int
         /\ l.curBaseline \in Int
         /\ l.lastBaseline \in Int
         /\ l.imageConp \in Int
         /\ l.firstLine \in BOOLEAN
         /\ l.indent \in Int
BY DEF Layout

LEMMA NewLayoutType == NewLayout \in Layout
BY LayoutAssumption DEF LayoutAssumption, NewLayout, Layout

LEMMA ResetType == ASSUME NEW l \in Layout PROVE Reset(l) \in Layout
<1> DEFINE m == [NewLayout EXCEPT !.firstLine = l.firstLine]
<1>1. m \in Layout
      BY NewLayoutType, FieldTypes DEF Layout
<1> HIDE DEF m
<1>2. [m EXCEPT !.indent = l.indent] \in Layout
      BY <1>1, FieldTypes DEF Layout
<1> QED BY <1>2 DEF Reset, m

LEMMA PageFullType == ASSUME NEW l \in Layout PROVE PageFull(l).lo \in Layout
<1> DEFINE m == [NewLayout EXCEPT !.lastMaxHeight = l.lastMaxHeight]
           n == [m EXCEPT !.lastBaseline = l.curBaseline]
<1>1. m \in Layout
      BY NewLayoutType, FieldTypes DEF Layout
<1> HIDE DEF m
<1>2. n \in Layout
      BY <1>1, FieldTypes DEF Layout
<1> HIDE DEF n
<1>3. [n EXCEPT !.firstLine = l.firstLine] \in Layout
      BY <1>2, FieldTypes DEF Layout
<1> QED BY <1>3 DEF PageFull, Result, m, n

\* The first page is set up from the constructed layout.
LEMMA FirstPageType == NewPage(NewLayout) \in Layout
<1> DEFINE m == [NewLayout EXCEPT !.x = VMargin]
           n == [m EXCEPT !.y = HMargin + (CtorSpacing + 0 - 0)]
           k == [n EXCEPT !.lastBaseline = 0]
<1>1. m \in Layout
      BY NewLayoutType, LayoutAssumption DEF LayoutAssumption, Layout
<1> HIDE DEF m
<1>2. n \in Layout
      BY <1>1, LayoutAssumption DEF LayoutAssumption, Layout
<1> HIDE DEF n
<1>3. k \in Layout
      BY <1>2 DEF Layout
<1> HIDE DEF k
<1>4. [k EXCEPT !.curBaseline = 0] \in Layout
      BY <1>3 DEF Layout
<1>5. /\ NewLayout.curMaxHeight = 0 /\ NewLayout.imageConp = 0
      /\ NewLayout.curBaseline = 0
      BY DEF NewLayout
<1> QED BY <1>4, <1>5 DEF NewPage, m, n, k

LEMMA NewLineType == ASSUME NEW l \in Layout PROVE NewLine(l).lo \in Layout
<1>1. [l EXCEPT !.firstLine = TRUE] \in Layout
      BY DEF Layout
<1>2. PageFull([l EXCEPT !.firstLine = TRUE]).lo \in Layout
      BY <1>1, PageFullType
<1>3. ASSUME NEW Yoff \in Int
      PROVE  [x |-> HMargin, y |-> l.y + Yoff,
              curMaxHeight |-> 0, lastMaxHeight |-> l.curMaxHeight - l.imageConp,
              curBaseline |-> 0, lastBaseline |-> l.curBaseline,
              imageConp |-> 0, firstLine |-> TRUE, indent |-> NextIndent] \in Layout
      BY FieldTypes, LayoutAssumption DEF LayoutAssumption, NextIndent, Layout
<1>4. LineSpacing + (IF l.curMaxHeight = 0 THEN l.lastMaxHeight ELSE l.curMaxHeight) \in Int
      BY FieldTypes, LayoutAssumption DEF LayoutAssumption
<1> QED BY <1>2, <1>3, <1>4 DEF NewLine, Result

LEMMA GetCharPosType ==
  ASSUME NEW l \in Layout, NEW w \in Int, NEW h \in Int, NEW b \in Int
  PROVE  GetCharPos(l, w, h, b).lo \in Layout
<1> DEFINE base == Larger(l.curBaseline, b)
           c == [l EXCEPT !.curBaseline = base]
           m == [c EXCEPT !.curMaxHeight = Larger(l.curMaxHeight, base + h - b)]
<1>1. base \in Int
      BY FieldTypes, LargerType
<1> HIDE DEF base
<1>2. c \in Layout /\ Larger(l.curMaxHeight, base + h - b) \in Int
      BY <1>1, FieldTypes, LargerType DEF Layout
<1> HIDE DEF c
<1>3. m \in Layout
      BY <1>2 DEF Layout
<1> HIDE DEF m
<1>4. PageFull(m).lo \in Layout
      BY <1>3, PageFullType
<1>5. [x |-> HMargin + w + WordSpacing, y |-> m.y + (LineSpacing + m.curMaxHeight),
       curMaxHeight |-> h, lastMaxHeight |-> m.curMaxHeight,
       curBaseline |-> b, lastBaseline |-> m.curBaseline - m.imageConp,
       imageConp |-> 0, firstLine |-> FALSE, indent |-> NextIndent] \in Layout
      BY <1>3, FieldTypes, LayoutAssumption DEF LayoutAssumption, NextIndent, Layout
<1>6. [m EXCEPT !.x = m.x + w + WordSpacing] \in Layout
      BY <1>3, FieldTypes, LayoutAssumption DEF LayoutAssumption, Layout
<1> QED BY <1>4, <1>5, <1>6 DEF GetCharPos, Result, base, c, m

LEMMA GetGraphPosType ==
  ASSUME NEW l \in Layout, NEW w \in Int, NEW h \in Int
  PROVE  GetGraphPos(l, w, h).lo \in Layout
<1> DEFINE c == [l EXCEPT !.imageConp = h - l.curMaxHeight]
           t == [c EXCEPT !.curMaxHeight = h]
           m == IF l.curMaxHeight < h THEN t ELSE l
<1>1. c \in Layout
      BY FieldTypes DEF Layout
<1> HIDE DEF c
<1>2. t \in Layout
      BY <1>1 DEF Layout
<1> HIDE DEF t
<1>3. m \in Layout
      BY <1>2
<1>3a. t = [l EXCEPT !.imageConp = h - l.curMaxHeight, !.curMaxHeight = h]
      BY DEF t, c
<1> HIDE DEF m
<1>4. PageFull(m).lo \in Layout
      BY <1>3, PageFullType
<1>5. [x |-> HMargin + w + WordSpacing, y |-> m.y + h - m.imageConp,
       curMaxHeight |-> h, lastMaxHeight |-> m.curMaxHeight - m.imageConp,
       curBaseline |-> 0, lastBaseline |-> m.curBaseline,
       imageConp |-> h, firstLine |-> FALSE, indent |-> NextIndent] \in Layout
      BY <1>3, FieldTypes, LayoutAssumption DEF LayoutAssumption, NextIndent, Layout
<1>6. [m EXCEPT !.x = m.x + w + WordSpacing] \in Layout
      BY <1>3, FieldTypes, LayoutAssumption DEF LayoutAssumption, Layout
<1> QED BY <1>3a, <1>4, <1>5, <1>6 DEF GetGraphPos, Result, m

LEMMA GetTablePosType ==
  ASSUME NEW l \in Layout, NEW h \in Int
  PROVE  GetTablePos(l, h).lo \in Layout
<1> DEFINE c == [l EXCEPT !.y = l.y + h + TableMargin]
<1>1. c \in Layout
      BY FieldTypes DEF TableMargin, Layout
<1> HIDE DEF c
<1>2. [c EXCEPT !.curMaxHeight = 0] \in Layout
      BY <1>1 DEF Layout
<1>3. [c EXCEPT !.curMaxHeight = 0] =
        [l EXCEPT !.y = l.y + h + TableMargin, !.curMaxHeight = 0]
      BY DEF c
<1>4. PageFull(l).lo \in Layout
      BY PageFullType
<1> QED BY <1>2, <1>3, <1>4 DEF GetTablePos, Result

\* The position that is handed out.
LEMMA PositionType ==
  ASSUME NEW l \in Layout, NEW w \in Int, NEW h \in Int, NEW b \in Int
  PROVE  /\ GetCharPos(l, w, h, b).px \in Int /\ GetCharPos(l, w, h, b).py \in Int
         /\ GetGraphPos(l, w, h).px \in Int /\ GetGraphPos(l, w, h).py \in Int
         /\ GetTablePos(l, h).px \in Int /\ GetTablePos(l, h).py \in Int
<1> USE FieldTypes, LayoutAssumption DEF LayoutAssumption
<1>1. LineIndent(l) \in Int
      BY DEF LineIndent
<1>2. GetTablePos(l, h).px \in Int /\ GetTablePos(l, h).py \in Int
      BY <1>1 DEF GetTablePos, Result, PageFull
<1>3. GetGraphPos(l, w, h).px \in Int /\ GetGraphPos(l, w, h).py \in Int
  <2> DEFINE m == IF l.curMaxHeight < h
                  THEN [l EXCEPT !.imageConp = h - l.curMaxHeight, !.curMaxHeight = h] ELSE l
  <2>1. m.x = l.x /\ m.y = l.y /\ m.indent = l.indent /\ m.firstLine = l.firstLine
        BY DEF Layout
  <2>2. m.imageConp \in Int
        BY DEF Layout
  <2>3. LineIndent(m) \in Int
        BY <2>1 DEF LineIndent
  <2> HIDE DEF m
  <2>4. HMargin \in Int /\ m.y + 2 * h - m.imageConp \in Int
        /\ m.x + LineIndent(m) \in Int /\ m.y + h \in Int
        BY <2>1, <2>2, <2>3
  <2> QED BY <2>4 DEF GetGraphPos, Result, PageFull, m
<1>4. GetCharPos(l, w, h, b).px \in Int /\ GetCharPos(l, w, h, b).py \in Int
  <2> DEFINE base == Larger(l.curBaseline, b)
             m == [l EXCEPT !.curBaseline = base,
                            !.curMaxHeight = Larger(@, base + h - b)]
  <2>0. base \in Int
        BY LargerType
  <2> HIDE DEF base
  <2>1. Larger(l.curMaxHeight, base + h - b) \in Int
        BY <2>0 DEF Larger
  <2>2. m.x = l.x /\ m.y = l.y /\ m.indent = l.indent /\ m.firstLine = l.firstLine
        /\ m.curMaxHeight \in Int
        BY <2>0, <2>1 DEF Layout
  <2>3. LineIndent(m) \in Int
        BY <2>2 DEF LineIndent
  <2>2a. GetCharPos(l, w, h, b).px \in {-1, HMargin, m.x + LineIndent(m)}
         /\ GetCharPos(l, w, h, b).py \in {-1, m.y + (LineSpacing + m.curMaxHeight) + h, m.y + h}
    <3> HIDE DEF m
    <3> QED BY ONLY TRUE DEF GetCharPos, Result, PageFull, m, base
  <2> HIDE DEF m
  <2>4. HMargin \in Int /\ m.y + (LineSpacing + m.curMaxHeight) + h \in Int
        /\ m.x + LineIndent(m) \in Int /\ m.y + h \in Int
        BY <2>2, <2>3
  <2> QED BY ONLY <2>2a, <2>4
<1> QED BY <1>2, <1>3, <1>4

-----------------------------------------------------------------------------
(* A page on which nothing stands yet.                                      *)

\* The lowest line a page begins with.
Top == HMargin + Larger(CtorSpacing, 0)

LEMMA TopType == Top \in Int /\ HMargin <= Top /\ HMargin + CtorSpacing <= Top
BY LayoutAssumption DEF LayoutAssumption, Top, Larger

LEMMA FirstPage ==
  LET l == NewPage(NewLayout)
  IN  l.x = VMargin /\ l.y <= Top /\ l.curMaxHeight = 0 /\ l.lastMaxHeight = 0 /\ l.indent = 0
<1> DEFINE m == [NewLayout EXCEPT !.x = VMargin, !.y = HMargin + (CtorSpacing + 0 - 0),
                                  !.lastBaseline = 0, !.curBaseline = 0]
<1>1. m.x = VMargin /\ m.y = HMargin + (CtorSpacing + 0 - 0) /\ m.curMaxHeight = 0
      /\ m.lastMaxHeight = 0 /\ m.indent = 0
      BY DEF NewLayout
<1>2. NewPage(NewLayout) = m
      BY DEF NewPage, NewLayout
<1>3. HMargin + (CtorSpacing + 0 - 0) <= Top
      BY TopType, LayoutAssumption DEF LayoutAssumption
<1> HIDE DEF m
<1> QED BY <1>1, <1>2, <1>3

LEMMA PageFullFields ==
  ASSUME NEW l
  PROVE  /\ PageFull(l).ret = "NEW_PAGE"
         /\ PageFull(l).lo.x = VMargin /\ PageFull(l).lo.y = HMargin
         /\ PageFull(l).lo.curMaxHeight = 0 /\ PageFull(l).lo.indent = 0
BY DEF PageFull, Result, NewLayout

LEMMA ResetFields ==
  ASSUME NEW l
  PROVE  /\ Reset(l).x = VMargin /\ Reset(l).y = HMargin /\ Reset(l).curMaxHeight = 0
         /\ Reset(l).lastMaxHeight = 0 /\ Reset(l).indent = l.indent
BY DEF Reset, NewLayout

\* Lines of default attributes have no indent.
LEMMA NoIndent ==
  ASSUME NEW l \in Layout, l.indent = 0, NEW w, NEW h, NEW b
  PROVE  /\ GetCharPos(l, w, h, b).lo.indent = 0 /\ GetGraphPos(l, w, h).lo.indent = 0
         /\ GetTablePos(l, h).lo.indent = 0 /\ NewLine(l).lo.indent = 0
<1>1. GetTablePos(l, h).lo.indent = 0
  <2>1. [l EXCEPT !.y = @ + h + TableMargin, !.curMaxHeight = 0].indent = 0
        BY DEF Layout
  <2> QED BY <2>1, PageFullFields DEF GetTablePos, Result
<1>2. NewLine(l).lo.indent = 0
      BY PageFullFields DEF NewLine, Result, NextIndent
<1>3. GetGraphPos(l, w, h).lo.indent = 0
  <2> DEFINE m == IF l.curMaxHeight < h
                  THEN [l EXCEPT !.imageConp = h - l.curMaxHeight, !.curMaxHeight = h] ELSE l
  <2>1. [m EXCEPT !.x = @ + w + WordSpacing].indent = 0
        BY DEF Layout
  <2> HIDE DEF m
  <2>2. GetGraphPos(l, w, h).lo \in
          {PageFull(m).lo, [m EXCEPT !.x = @ + w + WordSpacing]}
        \/ GetGraphPos(l, w, h).lo.indent = 0
        BY DEF GetGraphPos, Result, NextIndent, m
  <2> QED BY <2>1, <2>2, PageFullFields
<1>4. GetCharPos(l, w, h, b).lo.indent = 0
  <2> DEFINE base == Larger(l.curBaseline, b)
             m == [l EXCEPT !.curBaseline = base,
                            !.curMaxHeight = Larger(@, base + h - b)]
  <2> HIDE DEF base
  <2>1. [m EXCEPT !.x = @ + w + WordSpacing].indent = 0
        BY DEF Layout
  <2> HIDE DEF m
  <2>2. GetCharPos(l, w, h, b).lo \in
          {PageFull(m).lo, [m EXCEPT !.x = @ + w + WordSpacing]}
        \/ GetCharPos(l, w, h, b).lo.indent = 0
        BY DEF GetCharPos, Result, NextIndent, m, base
  <2> QED BY <2>1, <2>2, PageFullFields
<1> QED BY <1>1, <1>2, <1>3, <1>4

\* What a blank page has room for.
LEMMA BlankPageTakesChar ==
  ASSUME NEW l \in Layout, NEW w \in Int, NEW h \in Int, NEW b \in Int,
         l.x = VMargin, l.indent = 0, VMargin + WordSpacing + w < XLimit
  PROVE  GetCharPos(l, w, h, b).ret = "OK"
<1> DEFINE base == Larger(l.curBaseline, b)
           m == [l EXCEPT !.curBaseline = base,
                          !.curMaxHeight = Larger(@, base + h - b)]
<1>1. m.x = VMargin /\ m.indent = 0
      BY DEF Layout
<1> HIDE DEF m
<1>2. LineIndent(m) = 0
      BY <1>1 DEF LineIndent
<1>3. ~(m.x + (LineIndent(m) + WordSpacing + w) >= XLimit)
      BY <1>1, <1>2, LayoutAssumption DEF LayoutAssumption, XLimit
<1> QED BY ONLY <1>3 DEF GetCharPos, Result, m, base

LEMMA BlankPageTakesGraph ==
  ASSUME NEW l \in Layout, NEW t \in Int, NEW w \in Int, NEW h \in Int,
         l.y <= t, l.curMaxHeight = 0,
         t + LineSpacing < YLimit, t + LineSpacing + h < YLimit
  PROVE  GetGraphPos(l, w, h).ret # "NEW_PAGE"
<1> DEFINE m == IF l.curMaxHeight < h
                THEN [l EXCEPT !.imageConp = h - l.curMaxHeight, !.curMaxHeight = h] ELSE l
<1>1. m.y = l.y /\ (m.curMaxHeight = 0 \/ m.curMaxHeight = h)
      BY DEF Layout
<1> HIDE DEF m
<1>2. ~(m.y + (LineSpacing + m.curMaxHeight) >= YLimit)
      BY <1>1, FieldTypes, LayoutAssumption DEF LayoutAssumption, YLimit
<1> QED BY ONLY <1>2 DEF GetGraphPos, Result, m

LEMMA BlankPageTakesLine ==
  ASSUME NEW l \in Layout, NEW t \in Int, l.y <= t,
         l.curMaxHeight = 0, l.lastMaxHeight = 0, t + LineSpacing < YLimit
  PROVE  NewLine(l).ret = "OK"
<1>1. ~(l.y + (LineSpacing + 0) >= YLimit)
      BY FieldTypes, LayoutAssumption DEF LayoutAssumption, YLimit
<1> QED BY <1>1 DEF NewLine, Result

LEMMA RowTaken ==
  ASSUME NEW l \in Layout, NEW h \in Int
  PROVE  /\ l.y + h < YLimit => GetTablePos(l, h).ret = "OK"
         /\ GetTablePos(l, h).ret = "OK" => GetTablePos(l, h).lo.y = l.y + h
<1>1. YLimit \in Int /\ l.y + h \in Int
      BY FieldTypes, LayoutAssumption DEF LayoutAssumption, YLimit
<1>2. [l EXCEPT !.y = @ + h + TableMargin, !.curMaxHeight = 0].y = l.y + h
      BY <1>1 DEF Layout, TableMargin
<1> QED BY <1>1, <1>2, PageFullFields DEF GetTablePos, Result

-----------------------------------------------------------------------------
(* Types.                                                                   *)

LEMMA LeastType ==
  ASSUME NEW S \in SUBSET Nat, S # {}
  PROVE  Least(S) \in S /\ \A j \in S : Least(S) <= j
<1>1. PICK m \in S : \A y \in S : <<y, m>> \notin OpToRel(<, Nat)
      BY NatLessThanWellFounded, WFMin, Zenon
<1>2. ASSUME NEW y \in S PROVE m <= y
  <2>1. y \in Nat /\ m \in Nat
        OBVIOUS
  <2>2. y < m => <<y, m>> \in OpToRel(<, Nat)
        BY <2>1 DEF OpToRel
  <2>3. ~(y < m)
        BY <1>1, <2>2, Zenon
  <2> QED BY <2>1, <2>3
<1> QED BY <1>2 DEF Least

LEMMA IndicesType ==
  ASSUME NEW i \in Nat, NEW j \in Int
  PROVE  Indices(i, j) \in Seq(Nat)
<1>1. CASE j - i \in Nat
      BY <1>1 DEF Indices
<1>2. CASE j - i \notin Nat
  <2>1. 1 .. (j - i) = 1 .. 0
        BY <1>2
  <2>2. Indices(i, j) = [k \in 1 .. 0 |-> i + k]
        BY <2>1 DEF Indices
  <2>3. [k \in 1 .. 0 |-> i + k] \in Seq(Nat)
        OBVIOUS
  <2> QED BY <2>2, <2>3
<1> QED BY <1>1, <1>2

BatchType == [glyphs : Seq(Nat), off : Nat, resume : BOOLEAN, setsAttrib : BOOLEAN]

LEMMA WordsType ==
  ASSUME NEW d \in Seq(Token), NEW off \in Nat, NEW a \in BOOLEAN, WordMax \in Nat
  PROVE  Words(d, off, a) \in BatchType
<1> DEFINE S == {k \in off + 1 .. Len(d) : d[k] \in Tag} \cup {EofGlyph(d)}
           e == WordsEnd(d, off)
           t == IF e = EofGlyph(d) THEN <<e>> ELSE <<>>
<1>1. Len(d) \in Nat /\ EofGlyph(d) \in Nat /\ S \subseteq Nat \ {0} /\ S # {}
      BY LenProperties DEF EofGlyph
<1>2. e \in Nat \ {0}
      BY <1>1, LeastType DEF WordsEnd
<1> HIDE DEF e, t
<1>2a. off + WordMax + 1 \in Int /\ e - 1 \in Int /\ e - 1 \in Nat
      BY <1>2
<1>3. Indices(off, off + WordMax + 1) \in Seq(Nat) /\ Indices(off, e - 1) \in Seq(Nat)
      BY <1>2a, IndicesType
<1>4. t \in Seq(Nat)
      BY <1>2 DEF t
<1>5. Indices(off, e - 1) \o t \in Seq(Nat)
      BY <1>3, <1>4, ConcatProperties
<1> QED BY <1>2, <1>3, <1>5 DEF Words, Batch, BatchType, e, t

LEMMA FillType ==
  ASSUME NEW d \in Seq(Token), NEW off \in Nat, NEW r \in BOOLEAN, WordMax \in Nat
  PROVE  Fill(d, off, r) \in BatchType
<1> DEFINE S == {k \in off + 1 .. Len(d) : d[k] \in {"c", "n"}} \cup {EofGlyph(d)}
           k == FirstShown(d, off)
<1>1. Len(d) \in Nat /\ EofGlyph(d) \in Nat /\ S \subseteq Nat \ {0} /\ S # {}
      BY LenProperties DEF EofGlyph
<1>2. k \in Nat \ {0}
      BY <1>1, LeastType DEF FirstShown
<1> HIDE DEF k
<1>2a. k - 1 \in Nat
      BY <1>2
<1>3. Words(d, off, FALSE) \in BatchType /\ Words(d, k - 1, TRUE) \in BatchType
      BY <1>2a, WordsType
<1>4. /\ Batch(<<EofGlyph(d)>>, off, r, FALSE) \in BatchType
      /\ Batch(<<k>>, Len(d), FALSE, FALSE) \in BatchType
      /\ Batch(<<k>>, k, FALSE, FALSE) \in BatchType
      BY <1>1, <1>2 DEF Batch, BatchType
<1> QED BY <1>3, <1>4 DEF Fill, k

-----------------------------------------------------------------------------
(* Which tokens a batch is made of.                                         *)

LEMMA TokenFacts ==
  ASSUME NEW d \in Seq(Token)
  PROVE  /\ Len(d) \in Nat /\ EofGlyph(d) = Len(d) + 1
         /\ \A i \in 1 .. Len(d) : d[i] \in Token
BY LenProperties, ElementOfSeq DEF EofGlyph

LEMMA IndicesAre ==
  ASSUME NEW i \in Nat, NEW j \in Nat, i <= j
  PROVE  /\ Indices(i, j) \in Seq(Nat) /\ Len(Indices(i, j)) = j - i
         /\ \A k \in 1 .. j - i : Indices(i, j)[k] = i + k
<1>1. j - i \in Nat
      OBVIOUS
<1> QED BY <1>1 DEF Indices

\* Words end at the next tag or at the end.
LEMMA WordsEndIs ==
  ASSUME NEW d \in Seq(Token), NEW o \in 0 .. Len(d)
  PROVE  /\ WordsEnd(d, o) \in o + 1 .. Len(d) + 1
         /\ \A i \in o + 1 .. WordsEnd(d, o) - 1 : d[i] \notin Tag
         /\ WordsEnd(d, o) # Len(d) + 1 => d[WordsEnd(d, o)] \in Tag
<1> DEFINE S == {k \in o + 1 .. Len(d) : d[k] \in Tag} \cup {EofGlyph(d)}
           e == WordsEnd(d, o)
<1>1. Len(d) \in Nat /\ EofGlyph(d) = Len(d) + 1
      BY TokenFacts
<1>2. S \subseteq Nat /\ S # {}
      BY <1>1
<1>3. e \in S /\ \A j \in S : e <= j
      BY <1>2, LeastType DEF WordsEnd
<1> HIDE DEF e
<1>4. e \in o + 1 .. Len(d) + 1 /\ (e # Len(d) + 1 => d[e] \in Tag)
      BY <1>1, <1>3
<1>5. ASSUME NEW i \in o + 1 .. e - 1 PROVE d[i] \notin Tag
      BY <1>1, <1>3, <1>4
<1> QED BY <1>4, <1>5 DEF e

\* What is skipped before the first glyph of a batch makes no glyph.
LEMMA FirstShownIs ==
  ASSUME NEW d \in Seq(Token), NEW o \in 0 .. Len(d)
  PROVE  /\ FirstShown(d, o) \in o + 1 .. Len(d) + 1
         /\ \A i \in o + 1 .. FirstShown(d, o) - 1 : d[i] \notin {"c", "n"}
         /\ FirstShown(d, o) # Len(d) + 1 => d[FirstShown(d, o)] \in {"c", "n"}
<1> DEFINE S == {k \in o + 1 .. Len(d) : d[k] \in {"c", "n"}} \cup {EofGlyph(d)}
           e == FirstShown(d, o)
<1>1. Len(d) \in Nat /\ EofGlyph(d) = Len(d) + 1
      BY TokenFacts
<1>2. S \subseteq Nat /\ S # {}
      BY <1>1
<1>3. e \in S /\ \A j \in S : e <= j
      BY <1>2, LeastType DEF FirstShown
<1> HIDE DEF e
<1>4. e \in o + 1 .. Len(d) + 1 /\ (e # Len(d) + 1 => d[e] \in {"c", "n"})
      BY <1>1, <1>3
<1>5. ASSUME NEW i \in o + 1 .. e - 1 PROVE d[i] \notin {"c", "n"}
      BY <1>1, <1>3, <1>4
<1> QED BY <1>4, <1>5 DEF e

\* What Words returns, its two cases apart.
LEMMA WordsAre ==
  ASSUME NEW d \in Seq(Token), NEW o \in 0 .. Len(d), NEW a, WordMax \in Nat
  PROVE  LET b == Words(d, o, a)
             e == WordsEnd(d, o)
             n == Len(b.glyphs)
         IN  /\ b.glyphs \in Seq(Nat) /\ \A i \in 1 .. n : b.glyphs[i] = o + i
             /\ \/ b.resume = TRUE /\ b.off = o + n /\ o + n <= e - 1 /\ n > 0
                \/ b.resume = FALSE /\ b.off = e - 1 /\ e # Len(d) + 1 /\ o + n = e - 1
                \/ b.resume = FALSE /\ b.off = e - 1 /\ e = Len(d) + 1 /\ o + n = e
<1> DEFINE e == WordsEnd(d, o)
           m == o + WordMax + 1
           t == Indices(o, e - 1) \o <<e>>
<1>1. e \in o + 1 .. Len(d) + 1 /\ Len(d) \in Nat /\ EofGlyph(d) = Len(d) + 1
      BY WordsEndIs, TokenFacts
<1> HIDE DEF e
<1>2. CASE e - o - 1 > WordMax
  <2>1. Words(d, o, a) = Batch(Indices(o, m), m, TRUE, a)
        BY <1>2 DEF Words, e
  <2>2. m \in Nat /\ o <= m /\ m <= e - 1 /\ m - o > 0 /\ o \in Nat
        BY <1>1, <1>2
  <2> HIDE DEF m
  <2>3. /\ Indices(o, m) \in Seq(Nat) /\ Len(Indices(o, m)) = m - o
        /\ \A k \in 1 .. m - o : Indices(o, m)[k] = o + k
        BY <2>2, IndicesAre
  <2>4. o + (m - o) = m
        BY <2>2
  <2> QED BY <2>1, <2>2, <2>3, <2>4 DEF Batch, e
<1>3. CASE ~(e - o - 1 > WordMax)
  <2>1. e - 1 \in Nat /\ o \in Nat /\ o <= e - 1
        BY <1>1
  <2>2. /\ Indices(o, e - 1) \in Seq(Nat) /\ Len(Indices(o, e - 1)) = (e - 1) - o
        /\ \A k \in 1 .. (e - 1) - o : Indices(o, e - 1)[k] = o + k
        BY <2>1, IndicesAre
  <2>3. CASE e = Len(d) + 1
    <3>1. Words(d, o, a) = Batch(t, e - 1, FALSE, a)
          BY <1>1, <1>3, <2>3 DEF Words, e
    <3>2. <<e>> \in Seq(Nat) /\ Len(<<e>>) = 1 /\ <<e>>[1] = e
          BY <1>1
    <3>3. t \in Seq(Nat) /\ Len(t) = e - o
          BY <1>1, <2>1, <2>2, <3>2, ConcatProperties
    <3>4. ASSUME NEW k \in 1 .. e - o PROVE t[k] = o + k
      <4> DEFINE s == Indices(o, e - 1)
                 u == <<e>>
      <4>1. k <= Len(s) + Len(u) /\ k \in 1 .. Len(s) + Len(u)
            BY <1>1, <2>1, <2>2, <3>2
      <4>2. s \in Seq(Nat) /\ u \in Seq(Nat) /\ t = s \o u
            BY <2>2, <3>2
      <4> HIDE DEF s, t, u
      <4>3. t[k] = IF k <= Len(s) THEN s[k] ELSE u[k - Len(s)]
            BY <4>1, <4>2, ConcatProperties
      <4>4. CASE k <= Len(s)
            BY <2>2, <4>3, <4>4 DEF s
      <4>5. CASE ~(k <= Len(s))
        <5>1. Len(s) = (e - 1) - o /\ u[1] = e
              BY <2>2, <3>2 DEF s, u
        <5>2. k - Len(s) = 1 /\ o + k = e
              BY <1>1, <2>1, <4>5, <5>1
        <5> QED BY <4>3, <4>5, <5>1, <5>2
      <4> QED BY <4>4, <4>5
    <3>5. o + (e - o) = e
          BY <1>1
    <3> QED BY <2>3, <3>1, <3>3, <3>4, <3>5 DEF Batch, e
  <2>4. CASE e # Len(d) + 1
    <3>1. Words(d, o, a) = Batch(Indices(o, e - 1) \o <<>>, e - 1, FALSE, a)
          BY <1>1, <1>3, <2>4 DEF Words, e
    <3>2. Indices(o, e - 1) \o <<>> = Indices(o, e - 1)
          BY <2>2, ConcatEmptySeq
    <3>3. o + ((e - 1) - o) = e - 1
          BY <1>1
    <3> QED BY <2>2, <2>4, <3>1, <3>2, <3>3 DEF Batch, e
  <2> QED BY <2>3, <2>4
<1> QED BY <1>2, <1>3

\* A sequence over one set whose elements are in another.
LEMMA SeqOf ==
  ASSUME NEW T, NEW s \in Seq(T), NEW S, \A i \in 1 .. Len(s) : s[i] \in S
  PROVE  s \in Seq(S)
<1>1. Len(s) \in Nat /\ s = [i \in 1 .. Len(s) |-> s[i]]
      BY LenProperties
<1> QED BY <1>1, SeqDef

-----------------------------------------------------------------------------
(* A batch that is read from offset o: its glyphs are places behind o, in   *)
(* order, that make a glyph; none that must be shown is left out up to the  *)
(* offset it ends at; and it ends with a glyph there, or with Eof.          *)

BatchOf(d, o, b) ==
  /\ b.glyphs \in Seq(1 .. Len(d) + 1) /\ b.off \in o .. Len(d) /\ b.resume \in BOOLEAN
  /\ \A i, j \in 1 .. Len(b.glyphs) : i < j => b.glyphs[i] < b.glyphs[j]
  /\ \A i \in 1 .. Len(b.glyphs) :
       /\ o < b.glyphs[i]
       /\ \/ b.glyphs[i] <= b.off /\ d[b.glyphs[i]] # "L"
          \/ b.glyphs[i] = Len(d) + 1 /\ b.off = Len(d)
  /\ \A k \in o + 1 .. b.off :
       d[k] \in {"c", "n"} => \E i \in 1 .. Len(b.glyphs) : b.glyphs[i] = k
  /\ b.glyphs # <<>> => b.glyphs[Len(b.glyphs)] \in {b.off, Len(d) + 1}

LEMMA WordsBatch ==
  ASSUME NEW d \in Seq(Token), NEW o \in 0 .. Len(d), NEW a, WordMax \in Nat
  PROVE  BatchOf(d, o, Words(d, o, a))
<1> DEFINE b == Words(d, o, a)
           e == WordsEnd(d, o)
           s == b.glyphs
           n == Len(s)
<1>1. /\ e \in o + 1 .. Len(d) + 1 /\ \A i \in o + 1 .. e - 1 : d[i] \notin Tag
      BY WordsEndIs
<1>2. /\ s \in Seq(Nat) /\ \A i \in 1 .. n : s[i] = o + i
      /\ \/ b.resume = TRUE /\ b.off = o + n /\ o + n <= e - 1 /\ n > 0
         \/ b.resume = FALSE /\ b.off = e - 1 /\ e # Len(d) + 1 /\ o + n = e - 1
         \/ b.resume = FALSE /\ b.off = e - 1 /\ e = Len(d) + 1 /\ o + n = e
      BY WordsAre
<1>3. Len(d) \in Nat /\ n \in Nat /\ o \in Nat /\ DOMAIN s = 1 .. n
      BY <1>2, LenProperties
<1> HIDE DEF b, e
<1>4. /\ b.off \in o .. Len(d) /\ b.resume \in BOOLEAN
      /\ b.off <= e - 1 /\ b.off <= o + n
      /\ o + n = b.off \/ (o + n = Len(d) + 1 /\ b.off = Len(d))
  <2> HIDE DEF n
  <2>1. ASSUME NEW f, NEW l \in Nat, l = Len(d),
               \/ f = o + n /\ o + n <= e - 1 /\ n > 0
               \/ f = e - 1 /\ e # l + 1 /\ o + n = e - 1
               \/ f = e - 1 /\ e = l + 1 /\ o + n = e
        PROVE  f \in o .. l /\ f <= e - 1 /\ f <= o + n /\ (o + n = f \/ (o + n = l + 1 /\ f = l))
    <3>1. e \in o + 1 .. l + 1
          BY <1>1, <2>1
    <3> QED BY <1>3, <2>1, <3>1
  <2> QED BY <1>2, <1>3, <2>1
<1>5. ASSUME NEW i \in 1 .. n
      PROVE  /\ s[i] \in 1 .. Len(d) + 1 /\ o < s[i]
             /\ \/ s[i] <= b.off /\ d[s[i]] # "L"
                \/ s[i] = Len(d) + 1 /\ b.off = Len(d)
  <2>1. s[i] = o + i
        BY <1>2
  <2>2. CASE o + i <= b.off
    <3>1. o + i \in o + 1 .. e - 1 /\ o + i \in 1 .. Len(d) + 1
          BY <1>1, <1>3, <1>4, <2>2
    <3> QED BY <1>1, <1>3, <2>1, <2>2, <3>1 DEF Tag
  <2>3. CASE ~(o + i <= b.off)
    <3>1. o + i = Len(d) + 1 /\ b.off = Len(d)
          BY <1>3, <1>4, <2>3
    <3> QED BY <1>3, <2>1, <3>1
  <2> QED BY <2>2, <2>3
<1>6. s \in Seq(1 .. Len(d) + 1)
      BY <1>2, <1>5, SeqOf
<1>7. \A i, j \in 1 .. n : i < j => s[i] < s[j]
      BY <1>2, <1>3
<1>8. ASSUME NEW k \in o + 1 .. b.off PROVE \E i \in 1 .. n : s[i] = k
  <2>1. k - o \in 1 .. n /\ o + (k - o) = k
        BY <1>3, <1>4
  <2> QED BY <1>2, <2>1
<1>9. s # <<>> => s[n] \in {b.off, Len(d) + 1}
  <2>1. s # <<>> => n \in 1 .. n
        BY <1>2, <1>3, EmptySeq
  <2> QED BY <1>2, <1>4, <2>1
<1> QED BY <1>4, <1>5, <1>6, <1>7, <1>8, <1>9 DEF BatchOf, b

\* A batch of one glyph.
LEMMA SingleBatch ==
  ASSUME NEW d \in Seq(Token), NEW o \in 0 .. Len(d), NEW k \in o + 1 .. Len(d) + 1,
         NEW off \in o .. Len(d), NEW r \in BOOLEAN, NEW a,
         \A i \in o + 1 .. k - 1 : d[i] \notin {"c", "n"},
         k <= Len(d) => off = k /\ d[k] # "L",
         k = Len(d) + 1 => off = Len(d)
  PROVE  BatchOf(d, o, Batch(<<k>>, off, r, a))
<1> DEFINE s == <<k>>
<1>1. Len(d) \in Nat /\ Len(s) = 1 /\ s[1] = k /\ s # <<>> /\ s \in Seq(1 .. Len(d) + 1)
      BY LenProperties
<1> HIDE DEF s
<1>2. ASSUME NEW j \in o + 1 .. off, d[j] \in {"c", "n"} PROVE s[1] = j
      BY <1>1, <1>2
<1>3. /\ o < s[1]
      /\ \/ s[1] <= off /\ d[s[1]] # "L"
         \/ s[1] = Len(d) + 1 /\ off = Len(d)
      BY <1>1
<1>4. s[1] \in {off, Len(d) + 1}
      BY <1>1
<1>5. \A i \in 1 .. 1 : i = 1
      OBVIOUS
<1>6. ASSUME NEW b, b.glyphs = s, b.off = off, b.resume = r PROVE BatchOf(d, o, b)
  <2>1. \A i, j \in 1 .. Len(s) : ~(i < j)
        BY <1>1, <1>5
  <2>2. \A k0 \in o + 1 .. off : d[k0] \in {"c", "n"} => \E i \in 1 .. Len(s) : s[i] = k0
        BY <1>1, <1>2
  <2>3. \A i \in 1 .. Len(s) :
          /\ o < s[i]
          /\ \/ s[i] <= off /\ d[s[i]] # "L"
             \/ s[i] = Len(d) + 1 /\ off = Len(d)
        BY <1>1, <1>3, <1>5
  <2> QED BY <1>1, <1>4, <1>6, <2>1, <2>2, <2>3, ZenonT(30) DEF BatchOf
<1>7. LET b == Batch(s, off, r, a) IN b.glyphs = s /\ b.off = off /\ b.resume = r
      BY DEF Batch
<1> QED BY <1>6, <1>7 DEF s

\* A batch from further on is one from o if nothing lies between.
LEMMA SkippedBatch ==
  ASSUME NEW d \in Seq(Token), NEW o \in 0 .. Len(d), NEW p \in o .. Len(d), NEW b,
         \A i \in o + 1 .. p : d[i] \notin {"c", "n"}, BatchOf(d, p, b)
  PROVE  BatchOf(d, o, b)
<1>1. Len(d) \in Nat
      BY LenProperties
<1>2. b.glyphs \in Seq(1 .. Len(d) + 1) /\ b.off \in p .. Len(d) /\ b.off \in o .. Len(d)
      BY <1>1 DEF BatchOf
<1>3. ASSUME NEW i \in 1 .. Len(b.glyphs) PROVE o < b.glyphs[i]
  <2>1. p < b.glyphs[i] /\ b.glyphs[i] \in 1 .. Len(d) + 1
        BY <1>2, ElementOfSeq DEF BatchOf
  <2> QED BY <1>1, <2>1
<1>4. ASSUME NEW k \in o + 1 .. b.off, d[k] \in {"c", "n"}
      PROVE  \E i \in 1 .. Len(b.glyphs) : b.glyphs[i] = k
  <2>1. k \in p + 1 .. b.off
        BY <1>1, <1>2, <1>4
  <2> QED BY <1>4, <2>1 DEF BatchOf
<1> QED BY <1>2, <1>3, <1>4 DEF BatchOf

\* What one call of fillGlyphStream reads, wherever it starts and whether it
\* believes to be among words or not.
LEMMA FillBatch ==
  ASSUME NEW d \in Seq(Token), NEW o \in 0 .. Len(d), NEW r \in BOOLEAN, WordMax \in Nat
  PROVE  BatchOf(d, o, Fill(d, o, r))
<1> DEFINE k == FirstShown(d, o)
<1>1. Len(d) \in Nat /\ EofGlyph(d) = Len(d) + 1
      BY TokenFacts
<1>2. /\ k \in o + 1 .. Len(d) + 1 /\ \A i \in o + 1 .. k - 1 : d[i] \notin {"c", "n"}
      BY FirstShownIs
<1> HIDE DEF k
<1>3. CASE o = Len(d)
  <2>1. /\ Len(d) + 1 \in o + 1 .. Len(d) + 1 /\ o \in o .. Len(d)
        /\ \A i \in o + 1 .. (Len(d) + 1) - 1 : d[i] \notin {"c", "n"}
        /\ ~(Len(d) + 1 <= Len(d))
        BY <1>1, <1>3
  <2>2. BatchOf(d, o, Batch(<<Len(d) + 1>>, o, r, FALSE))
        BY <1>1, <1>3, <2>1, SingleBatch
  <2> QED BY <1>1, <1>3, <2>2 DEF Fill
<1>4. CASE o # Len(d) /\ r
      BY <1>4, WordsBatch DEF Fill
<1>5. CASE o # Len(d) /\ ~r /\ k = Len(d) + 1
  <2>1. Len(d) \in o .. Len(d) /\ ~(k <= Len(d))
        BY <1>1, <1>5
  <2>2. BatchOf(d, o, Batch(<<k>>, Len(d), FALSE, FALSE))
        BY <1>1, <1>2, <1>5, <2>1, SingleBatch
  <2> QED BY <1>1, <1>5, <2>2 DEF Fill, k
<1>6. CASE o # Len(d) /\ ~r /\ k # Len(d) + 1 /\ d[k] = "n"
  <2>1. k \in o .. Len(d)
        BY <1>1, <1>2, <1>6
  <2>2. BatchOf(d, o, Batch(<<k>>, k, FALSE, FALSE))
        BY <1>1, <1>2, <1>6, <2>1, SingleBatch
  <2> QED BY <1>1, <1>6, <2>2 DEF Fill, k
<1>7. CASE o # Len(d) /\ ~r /\ k # Len(d) + 1 /\ d[k] # "n"
  <2>1. k - 1 \in o .. Len(d) /\ k - 1 \in 0 .. Len(d)
        BY <1>1, <1>2, <1>7
  <2>2. BatchOf(d, k - 1, Words(d, k - 1, TRUE))
        BY <2>1, WordsBatch
  <2>3. BatchOf(d, o, Words(d, k - 1, TRUE))
        BY <1>2, <2>1, <2>2, SkippedBatch
  <2> QED BY <1>1, <1>7, <2>3 DEF Fill, k
<1> QED BY <1>3, <1>4, <1>5, <1>6, <1>7

\* The words of a document that ends with a tag are read without Eof.
LEMMA WordsEof ==
  ASSUME NEW d \in Seq(Token), NEW o \in 0 .. Len(d), NEW a, WordMax \in Nat,
         o # Len(d), d[Len(d)] \in Tag
  PROVE  LET s == Words(d, o, a).glyphs
         IN  \A i \in 1 .. Len(s) : s[i] # Len(d) + 1
<1> DEFINE b == Words(d, o, a)
           e == WordsEnd(d, o)
           n == Len(b.glyphs)
<1>1. /\ b.glyphs \in Seq(Nat) /\ \A i \in 1 .. n : b.glyphs[i] = o + i
      /\ \/ b.resume = TRUE /\ b.off = o + n /\ o + n <= e - 1 /\ n > 0
         \/ b.resume = FALSE /\ b.off = e - 1 /\ e # Len(d) + 1 /\ o + n = e - 1
         \/ b.resume = FALSE /\ b.off = e - 1 /\ e = Len(d) + 1 /\ o + n = e
      BY WordsAre
<1>2. /\ e \in o + 1 .. Len(d) + 1 /\ \A i \in o + 1 .. e - 1 : d[i] \notin Tag
      BY WordsEndIs
<1>3. Len(d) \in Nat /\ n \in Nat
      BY <1>1, LenProperties
<1> HIDE DEF e, n, b
<1>4. e # Len(d) + 1
      BY <1>2, <1>3
<1>5. o + n <= e - 1 /\ e <= Len(d) /\ e \in Int
      BY <1>1, <1>2, <1>3, <1>4
<1>6. ASSUME NEW i \in 1 .. n PROVE b.glyphs[i] # Len(d) + 1
  <2>1. o + i <= Len(d)
        BY <1>3, <1>5
  <2> QED BY <1>1, <1>3, <2>1
<1> QED BY <1>6 DEF b, n

\* Such a document is read up to its end before Eof, and Eof comes alone.
LEMMA FillEof ==
  ASSUME NEW d \in Seq(Token), NEW o \in 0 .. Len(d), NEW r \in BOOLEAN, WordMax \in Nat,
         Len(d) > 0, d[Len(d)] \in Tag
  PROVE  LET s == Fill(d, o, r).glyphs
         IN  s = <<Len(d) + 1>> \/ \A i \in 1 .. Len(s) : s[i] # Len(d) + 1
<1> DEFINE k == FirstShown(d, o)
<1>1. Len(d) \in Nat /\ EofGlyph(d) = Len(d) + 1
      BY TokenFacts
<1>2. k \in o + 1 .. Len(d) + 1
      BY FirstShownIs
<1> HIDE DEF k
<1>3. CASE o = Len(d)
      BY <1>1, <1>3 DEF Fill, Batch
<1>4. CASE o # Len(d) /\ r
      BY <1>4, WordsEof DEF Fill
<1>5. CASE o # Len(d) /\ ~r /\ k = Len(d) + 1
      BY <1>1, <1>5 DEF Fill, Batch, k
<1>6. CASE o # Len(d) /\ ~r /\ k # Len(d) + 1 /\ d[k] = "n"
  <2>1. Fill(d, o, r).glyphs = <<k>>
        BY <1>1, <1>6 DEF Fill, Batch, k
  <2> QED BY <1>6, <2>1
<1>7. CASE o # Len(d) /\ ~r /\ k # Len(d) + 1 /\ d[k] # "n"
  <2>1. k - 1 \in 0 .. Len(d) /\ k - 1 # Len(d)
        BY <1>1, <1>2, <1>7
  <2>2. Fill(d, o, r) = Words(d, k - 1, TRUE)
        BY <1>1, <1>7 DEF Fill, k
  <2> QED BY <2>1, <2>2, WordsEof
<1> QED BY <1>3, <1>4, <1>5, <1>6, <1>7
================================================================================
